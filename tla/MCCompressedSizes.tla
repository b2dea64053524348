-------------------------- MODULE MCCompressedSizes -------------------------
EXTENDS CompressedSizes

CONSTANTS d1, d2, i1, i2

MCDigests == {d1, d2}
MCImageIds == {i1, i2}

(* Well-formed manifests: numeric sizes; a file may be unparsable.        *)
GoodSizes == {1, 2}
GoodShapes == {Unparsable}

(* Malformed manifests as well: a null size, a null "layers" list.        *)
AnySizes == {1, 2, None}
AnyShapes == {Unparsable, Malformed}

Symmetry == Permutations(MCDigests) \cup Permutations(MCImageIds)
=============================================================================
