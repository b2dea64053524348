CONSTANTS
    d1 = d1
    d2 = d2
    i1 = i1
    i2 = i2
    None = None
    FileMissing = FileMissing
    Unparsable = Unparsable
    Malformed = Malformed
    Digests <- MCDigests
    ImageIds <- MCImageIds
    EntrySizes <- GoodSizes
    Shapes <- GoodShapes
    MaxEntries = 2
SPECIFICATION Spec
SYMMETRY Symmetry
INVARIANTS
    TypeOK
    CrossImageDigestsMarkedShared
    DedupBelowNaive
    NeverRaises
