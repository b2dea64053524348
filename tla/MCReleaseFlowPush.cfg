CONSTANTS
    b1 = b1
    b2 = b2
    b3 = b3
    c1 = c1
    c2 = c2
    BranchTip = BranchTip
    None = None
    Builds <- MCBuilds
    Commits <- MCCommits
    BuildSha <- MCBuildSha
    Listing <- MCListing
    Failures <- AllCalls
    DryRunModes = {FALSE, TRUE}
    MaxRuns = 3
SPECIFICATION Spec
INVARIANTS
    CleanRunPublishesAll
