---------------------------- MODULE ReleaseFlow -----------------------------
(***************************************************************************)
(* The tag-and-publish flow of scripts/release-notes/                     *)
(* gen_ec_release_notes.py: main (89-152), find_new_releases (208-230),   *)
(* check_for_new_releases (233-313), tag_exists (316-325), tag_release    *)
(* (328-346) and publish_release (349-389).  The script is run by hand,   *)
(* any number of times; each run is a sequence of steps, and every        *)
(* network, git or gh call in it may fail.  The local clone and the       *)
(* GitHub repository persist across runs.                                 *)
(*                                                                         *)
(* A build stands for its release name (line 289) and BuildSha for the    *)
(* commit parsed out of its RPM name (line 282).  The RPM list and its    *)
(* parsing are abstracted to "the build's RPM list could be fetched".     *)
(* gh release create refuses a tag that exists only in the local clone    *)
(* ("tag exists locally but has not been pushed"), as current gh does.    *)
(***************************************************************************)
EXTENDS Naturals, Sequences, SequencesExt, TLC

CONSTANTS
    Builds,    \* release names of the builds on the mirror
    Commits,   \* commit shas
    BuildSha,  \* BuildSha[b]: the commit_sha of build b
    Listing,   \* the builds in the order lines 133-138 visit them
    BranchTip, \* the commit at the tip of the default branch
    None,      \* no tag
    Failures,  \* the calls that may fail: "listing", "rpmlist", "view",
               \* "tag", "push", "create"
    DryRunModes, \* the values --dry-run may take in a run
    MaxRuns    \* how many times the script is run

ASSUME BuildSha \in [Builds -> Commits] /\ Listing \in Seq(Builds)

VARIABLES
    localTag,   \* the tags of the local clone: build -> commit or None
    remoteTag,  \* the tags of the GitHub repository
    released,   \* the builds with a GitHub release
    pc,         \* "idle" between runs, "discover" or "publish" in one
    i,          \* position in Listing during discovery
    found,      \* new_releases
    queue,      \* unique_releases.values()
    j,          \* position in queue
    step,       \* the step of publish_release for queue[j]
    runs,       \* runs started so far
    dryRun,     \* args.dry_run of the current run
    envOk,      \* no call of the current run failed for an outside reason
    cleanStreak \* history: runs in a row that ended with no call failed
                \* for an outside reason and no --dry-run

vars == <<localTag, remoteTag, released, pc, i, found, queue, j, step,
          runs, dryRun, envOk, cleanStreak>>

Tag == Commits \cup {BranchTip, None}

TypeOK ==
    /\ localTag \in [Builds -> Commits \cup {None}]
    /\ remoteTag \in [Builds -> Tag]
    /\ released \subseteq Builds
    /\ pc \in {"idle", "discover", "publish"}
    /\ i \in 1..Len(Listing) + 1
    /\ found \in Seq(Builds) /\ queue \in Seq(Builds)
    /\ j \in 1..Len(Listing) + 1
    /\ step \in {"check", "push", "create"}
    /\ runs \in 0..MaxRuns
    /\ dryRun \in BOOLEAN
    /\ envOk \in BOOLEAN
    /\ cleanStreak \in 0..MaxRuns

(* The outcomes of a call: it may fail only if it is one of Failures. *)
MayFail(call) == {FALSE} \cup (IF call \in Failures THEN {TRUE} ELSE {})

(* A slip: the dict keyed by release_name. *)
UniqueByName(s) ==
    FoldLeft(LAMBDA acc, b : IF b \in ToSet(acc) THEN acc ELSE Append(acc, b),
             <<>>, s)

(* Lines 146-149: a dict keyed by commit_sha.  Keys keep the order of     *)
(* their first insertion; each holds the last release with that sha.      *)
UniqueBySha(s) ==
    LET shas == FoldLeft(LAMBDA acc, b :
                            IF BuildSha[b] \in ToSet(acc) THEN acc
                            ELSE Append(acc, BuildSha[b]), <<>>, s)
    IN [k \in 1..Len(shas) |->
            s[SelectLastInSeq(s, LAMBDA b : BuildSha[b] = shas[k])]]

Init ==
    /\ localTag = [b \in Builds |-> None]
    /\ remoteTag = [b \in Builds |-> None]
    /\ released = {}
    /\ pc = "idle" /\ i = 1 /\ found = <<>> /\ queue = <<>> /\ j = 1
    /\ step = "check" /\ runs = 0 /\ dryRun = FALSE /\ envOk = TRUE
    /\ cleanStreak = 0

(* An uncaught exception (lines 214, 339, 345) ends the run. *)
Abort == pc' = "idle" /\ envOk' = FALSE /\ cleanStreak' = 0

(* A run returns normally (lines 142, 151). *)
EndRun == cleanStreak' = IF envOk /\ ~dryRun THEN cleanStreak + 1 ELSE 0

(* A run of the script starts (lines 94-132), with or without --dry-run. *)
StartRun ==
    /\ pc = "idle" /\ runs < MaxRuns
    /\ pc' = "discover" /\ i' = 1 /\ found' = <<>> /\ runs' = runs + 1
    /\ dryRun' \in DryRunModes
    /\ envOk' = TRUE
    /\ UNCHANGED <<localTag, remoteTag, released, queue, j, step, cleanStreak>>

(* Line 214: fetching a version list fails; nothing catches it. *)
ListingUnavailable ==
    /\ pc = "discover" /\ "listing" \in Failures
    /\ Abort
    /\ UNCHANGED <<localTag, remoteTag, released, i, found, queue, j, step,
                   runs, dryRun>>

(* A slip: "gh release view" asked for any release of the build's       *)
(* commit rather than for its release name.                              *)
CheckBuildByCommit ==
    /\ pc = "discover" /\ i <= Len(Listing)
    /\ \E rpmErr \in MayFail("rpmlist"), viewErr \in MayFail("view") :
        LET b == Listing[i] IN
        /\ found' = IF ~rpmErr /\ ((\A x \in released : BuildSha[x] # BuildSha[b]) \/ viewErr)
                    THEN Append(found, b) ELSE found
        /\ envOk' = (envOk /\ ~rpmErr /\ ~viewErr)
    /\ i' = i + 1
    /\ UNCHANGED <<localTag, remoteTag, released, pc, queue, j, step, runs,
                   dryRun, cleanStreak>>

(* Lines 224-229 with check_for_new_releases: fetch the RPM list (both   *)
(* os names failing leaves rpm_list unbound, and the error is caught),    *)
(* then "gh release view", whose failure for any reason reads as "not     *)
(* found".                                                                 *)
CheckBuild ==
    /\ pc = "discover" /\ i <= Len(Listing)
    /\ \E rpmErr \in MayFail("rpmlist"), viewErr \in MayFail("view") :
        LET b == Listing[i] IN
        /\ found' = IF ~rpmErr /\ (b \notin released \/ viewErr)
                    THEN Append(found, b) ELSE found
        /\ envOk' = (envOk /\ ~rpmErr /\ ~viewErr)
    /\ i' = i + 1
    /\ UNCHANGED <<localTag, remoteTag, released, pc, queue, j, step, runs,
                   dryRun, cleanStreak>>

(* Lines 140-142: no new release; the run ends. *)
NoNewReleases ==
    /\ pc = "discover" /\ i > Len(Listing) /\ found = <<>>
    /\ pc' = "idle" /\ EndRun
    /\ UNCHANGED <<localTag, remoteTag, released, i, found, queue, j, step,
                   runs, dryRun, envOk>>

(* Lines 146-151: deduplicate by commit and publish in turn. *)
StartPublishing ==
    /\ pc = "discover" /\ i > Len(Listing) /\ found # <<>>
    /\ pc' = "publish" /\ queue' = UniqueBySha(found) /\ j' = 1
    /\ step' = "check"
    /\ UNCHANGED <<localTag, remoteTag, released, i, found, runs, dryRun,
                   envOk, cleanStreak>>

Current == queue[j]
Publishing(s) == pc = "publish" /\ step = s /\ j <= Len(queue)
Unchanged == UNCHANGED <<i, found, queue, runs, dryRun>>
Acting == Publishing("check") /\ ~dryRun

(* Lines 360-362: a dry run reports the release and goes on. *)
DryRunSkip ==
    /\ Publishing("check") /\ dryRun
    /\ j' = j + 1
    /\ Unchanged /\ UNCHANGED <<localTag, remoteTag, released, pc, step, envOk, cleanStreak>>

(* A slip: the release is created only under "if not tag_exists". *)
TagExistsSkipsCreate ==
    /\ Acting /\ localTag[Current] # None
    /\ j' = j + 1 /\ step' = "check"
    /\ Unchanged /\ UNCHANGED <<localTag, remoteTag, released, pc, envOk, cleanStreak>>

(* Line 364: "git show" finds the tag in the local clone; skip tagging. *)
TagExists ==
    /\ Acting /\ localTag[Current] # None
    /\ step' = "create"
    /\ Unchanged /\ UNCHANGED <<localTag, remoteTag, released, pc, j, envOk, cleanStreak>>

(* A slip: the tag command without its commit argument tags HEAD. *)
TagReleaseAtHead ==
    /\ Acting /\ localTag[Current] = None
    /\ localTag' = [localTag EXCEPT ![Current] = BranchTip]
    /\ step' = "push"
    /\ Unchanged /\ UNCHANGED <<remoteTag, released, pc, j, envOk, cleanStreak>>

(* Lines 366-367 and 336-340: "git tag -s" at commit_sha. *)
TagRelease ==
    /\ Acting /\ localTag[Current] = None
    /\ localTag' = [localTag EXCEPT ![Current] = BuildSha[Current]]
    /\ step' = "push"
    /\ Unchanged /\ UNCHANGED <<remoteTag, released, pc, j, envOk, cleanStreak>>

(* Line 339: "git tag -s" fails (signing key, agent); the run ends. *)
TagFails ==
    /\ Acting /\ localTag[Current] = None /\ "tag" \in Failures
    /\ Abort
    /\ Unchanged /\ UNCHANGED <<localTag, remoteTag, released, j, step>>

(* Lines 342-346: "git push origin tag"; a tag GitHub already has with   *)
(* the same commit is up to date, one with another commit is rejected.   *)
PushTag ==
    /\ Publishing("push")
    /\ remoteTag[Current] \in {None, localTag[Current]}
    /\ remoteTag' = [remoteTag EXCEPT ![Current] = localTag[Current]]
    /\ step' = "create"
    /\ Unchanged /\ UNCHANGED <<localTag, released, pc, j, envOk, cleanStreak>>

(* Line 345: the push fails; the run ends with the tag only local. *)
PushFails ==
    /\ Publishing("push") /\ "push" \in Failures
    /\ Abort
    /\ Unchanged /\ UNCHANGED <<localTag, remoteTag, released, j, step>>

(* gh release create succeeds for a new release whose tag GitHub has. *)
Creatable(b) == b \notin released /\ remoteTag[b] # None

NextRelease == j' = j + 1 /\ step' = "check"

(* A slip: creating the release where GitHub lacks the tag makes gh     *)
(* create the tag at the tip of the default branch.                      *)
CreateReleaseTagsHead ==
    /\ Publishing("create") /\ Current \notin released
    /\ released' = released \cup {Current}
    /\ remoteTag' = [remoteTag EXCEPT ![Current] =
                        IF @ = None THEN BranchTip ELSE @]
    /\ NextRelease
    /\ Unchanged /\ UNCHANGED <<localTag, pc, envOk, cleanStreak>>

(* Lines 380-387: the prerelease is created. *)
CreateRelease ==
    /\ Publishing("create") /\ Creatable(Current)
    /\ released' = released \cup {Current}
    /\ NextRelease
    /\ Unchanged /\ UNCHANGED <<localTag, remoteTag, pc, envOk, cleanStreak>>

(* Lines 388-389: gh refuses (the release exists, or GitHub lacks the   *)
(* tag), or fails for an outside reason; the error is printed and the   *)
(* loop goes on.                                                          *)
CreateFails ==
    /\ Publishing("create")
    /\ \E outside \in MayFail("create") :
        /\ outside \/ ~Creatable(Current)
        /\ envOk' = (envOk /\ ~outside)
    /\ NextRelease
    /\ Unchanged /\ UNCHANGED <<localTag, remoteTag, released, pc, cleanStreak>>

(* Line 151: every unique release has been handled; the run ends. *)
EndPublish ==
    /\ pc = "publish" /\ step = "check" /\ j > Len(queue)
    /\ pc' = "idle" /\ EndRun
    /\ UNCHANGED <<localTag, remoteTag, released, i, found, queue, j, step,
                   runs, dryRun, envOk>>

(* No more runs. *)
Terminated ==
    /\ pc = "idle" /\ runs = MaxRuns
    /\ UNCHANGED vars

Next ==
    \/ StartRun \/ ListingUnavailable \/ CheckBuild
    \/ NoNewReleases \/ StartPublishing
    \/ DryRunSkip \/ TagExists \/ TagRelease \/ TagFails
    \/ PushTag \/ PushFails
    \/ CreateRelease \/ CreateFails
    \/ EndPublish \/ Terminated

Spec == Init /\ [][Next]_vars

-----------------------------------------------------------------------------
(* Abstraction: a release as GitHub shows it, with the commit its tag     *)
(* names.                                                                  *)
Abs == INSTANCE ReleasesAbstract
           WITH releases <- [b \in released |-> remoteTag[b]]

(* Every GitHub release the script creates is tagged at the commit of    *)
(* its build, whichever calls failed in earlier runs (tag_release and    *)
(* gh release create, lines 336-346 and 380-387).                         *)
ReleasesSpec == Abs!Spec

CleanRun == pc = "idle" /\ runs > 0 /\ envOk /\ ~dryRun

(* A run that is not a dry run and in which no call fails for an outside *)
(* reason leaves a release for the commit of every build of the mirror   *)
(* (publish_release, lines 364-389).                                      *)
CleanRunPublishesAll ==
    CleanRun => \A b \in ToSet(Listing) : \E x \in released : BuildSha[x] = BuildSha[b]

(* A tag made in the local clone whose push failed. *)
Stranded(b) == localTag[b] # None /\ remoteTag[b] = None

(* Some build of b's commit has a release, or its tag is stranded.  A    *)
(* later build of the commit takes b's place in unique_releases.         *)
CommitTaken(b) ==
    \E x \in Builds : BuildSha[x] = BuildSha[b] /\ (x \in released \/ Stranded(x))

(* Whatever failed before, a run that is not a dry run and in which no   *)
(* call fails for an outside reason leaves every mirror build released,  *)
(* or a build of the same commit, or its tag made locally and never      *)
(* pushed: reruns repair failed fetches, tags and release creations      *)
(* (publish_release, lines 364-389); a stranded tag is the one thing     *)
(* they cannot, and the deduplication of lines 146-149 lets one build of *)
(* a commit stand for the others in a run.                                *)
CleanRunRepairsAllButStranded ==
    CleanRun =>
        \A b \in ToSet(Listing) : CommitTaken(b)

(* Two clean runs in a row leave every mirror build with a release of   *)
(* its own, unless a build of its commit has a stranded tag: the first    *)
(* run publishes the last-listed build of each commit (lines 146-149),   *)
(* and its twins, still without a release of their own ("gh release     *)
(* view", line 294), are published by the second.                        *)
TwoCleanRunsPublishEveryBuild ==
    pc = "idle" /\ cleanStreak >= 2 =>
        \A b \in ToSet(Listing) :
            \/ b \in released
            \/ \E x \in Builds : BuildSha[x] = BuildSha[b] /\ Stranded(x)
=============================================================================
