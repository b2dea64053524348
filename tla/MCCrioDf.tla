------------------------------ MODULE MCCrioDf ------------------------------
EXTENDS CrioDf

CONSTANTS a, b, c, i1, i2

MCLayerIds == {a, b, c}
MCImageIds == {i1, i2}

(* A layer records its diff-size, or only its uncompressed size; the two  *)
(* sizes differ so that a sum tells which rule was used.                  *)
MCLayerRecs ==
    [parent : MCLayerIds \cup {None}, diff : {2}, unc : {None}] \cup
    [parent : MCLayerIds \cup {None}, diff : {None}, unc : {3}]

(* Layer and image ids are opaque dict keys to crio-df.py. *)
Symmetry == Permutations(MCLayerIds) \cup Permutations(MCImageIds)
=============================================================================
