--------------------------- MODULE MCReleaseFlow ----------------------------
EXTENDS ReleaseFlow

CONSTANTS b1, b2, b3, c1, c2

MCBuilds == {b1, b2, b3}
MCCommits == {c1, c2}
(* b3 is a second build of b2's commit under another release name (its  *)
(* candidate number or build date differs).                              *)
MCBuildSha == (b1 :> c1) @@ (b2 :> c2) @@ (b3 :> c2)

(* b1 is listed by both architecture mirrors, b2 and b3 by one each. *)
MCListing == <<b1, b2, b1, b3>>

(* Every call may fail. *)
AllCalls == {"listing", "rpmlist", "view", "tag", "push", "create"}
=============================================================================
