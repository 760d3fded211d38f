SPECIFICATION Spec
CONSTANTS
    Plans <- MCPlans
    Gitlinks <- MCGitlinks
    MaxChanges = 2
INVARIANTS
    MutatesProvedState
    InstalledIsExact
    ManifestIsTrue
CHECK_DEADLOCK FALSE
