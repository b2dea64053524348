---------------------------- MODULE MCLayerWalk -----------------------------
EXTENDS LayerWalk, TLC

CONSTANTS a, b, c, d

MCLayerIds == {a, b, c, d}

(* Sizes do not affect the walk: one size record per parent choice. *)
MCLayerRecs == [parent : MCLayerIds \cup {None}, diff : {1}, unc : {None}]

=============================================================================
