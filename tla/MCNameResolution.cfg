CONSTANTS
    NotYet = NotYet
    Hosts <- MCHosts
    Paths <- MCPaths
    Tags <- MCTags
    Digests <- MCDigests
    SizeInputs <- MCSizeInputs
SPECIFICATION MCSpec
INVARIANTS
    TypeOK
    ResolvesComponents
    FormatSizeAccurate
