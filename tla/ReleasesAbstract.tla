-------------------------- MODULE ReleasesAbstract --------------------------
(***************************************************************************)
(* What gen_ec_release_notes.py promises of the GitHub repository: a      *)
(* release is published at most once per build, and the tag of a        *)
(* published release names the commit the build was made from.          *)
(* Published releases are never withdrawn.                                *)
(***************************************************************************)
EXTENDS FiniteSets, TLC

CONSTANTS
    Builds,    \* the mirror builds, each with its own release name
    Commits,   \* commit shas
    BuildSha   \* BuildSha[b]: the commit build b was made from

VARIABLE releases   \* published release -> the commit its tag names

Init == releases = [b \in {} |-> CHOOSE c \in Commits : TRUE]

(* One build not yet released is published, tagged at its own commit. *)
Publish(b) ==
    /\ b \notin DOMAIN releases
    /\ releases' = (b :> BuildSha[b]) @@ releases

Next == \E b \in Builds : Publish(b)

Spec == Init /\ [][Next]_releases
=============================================================================
