CONSTANTS
    a = a
    b = b
    c = c
    d = d
    None = None
    LayerIds <- MCLayerIds
    LayerRecs <- MCLayerRecs
SPECIFICATION Spec
INVARIANTS
    TypeOK
    WalkCorrect
    WalkBounded

    
