CONSTANTS
    a = a
    b = b
    c = c
    i1 = i1
    i2 = i2
    None = None
    FileMissing = FileMissing
    LayerIds <- MCLayerIds
    ImageIds <- MCImageIds
    LayerRecs <- MCLayerRecs
    MaxContainers = 2
SPECIFICATION Spec
SYMMETRY Symmetry
INVARIANTS
    TypeOK
    StoreTotalDeduplicated
    ReclaimableWithinStore
    UniqueMeansExclusive
    InUseNeverReclaimable
PROPERTIES
    StoreUsageSpec
