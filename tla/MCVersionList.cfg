CONSTANTS
    Versions <- MCVersions
    LatestNames <- MCLatestNames
    MaxEvents = 4
SPECIFICATION Spec
INVARIANTS
    TypeOK
    VersionsAreNameSpanTexts
