----------------------------- MODULE LayerGraph -----------------------------
(***************************************************************************)
(* Pure operators over the layer store of crio-df.py: the size of a layer  *)
(* record and the parent-chain walk of walk_image_layers, plus the         *)
(* contract the spec (section 4.1) gives that walk.                       *)
(*                                                                         *)
(* A layers_by_id dict is a function from the ids present in layers.json  *)
(* to records [parent, diff, unc]; a JSON field that is absent or null is  *)
(* the model value None.                                                   *)
(***************************************************************************)
EXTENDS Naturals, Sequences, FiniteSets, SequencesExt

CONSTANTS LayerIds, None

ASSUME None \notin LayerIds

(* `diff_size if diff_size is not None else (uncompress_size or 0)`       *)
LayerSize(layer) ==
    IF layer.diff # None THEN layer.diff
    ELSE IF layer.unc = None THEN 0 ELSE layer.unc

(* The loop of walk_image_layers, one iteration per recursion: stop on a  *)
(* falsy id or an id already visited; the id joins visited before the     *)
(* lookup; a dangling id ends the walk without being appended.            *)
RECURSIVE WalkFrom(_, _, _)
WalkFrom(layerId, byId, visited) ==
    IF layerId = None \/ layerId \in visited \/ layerId \notin DOMAIN byId
    THEN <<>>
    ELSE <<layerId>> \o WalkFrom(byId[layerId].parent, byId, visited \cup {layerId})

(* walk_image_layers(image, layers_by_id), starting at image["layer"]     *)
Walk(image, byId) == WalkFrom(image.layer, byId, {})

(***************************************************************************)
(* Reference definition, from the spec rather than the code: w is the walk *)
(* from top iff it follows parent links from top through distinct ids     *)
(* that are all present, and stops only where the next id is absent,      *)
(* dangling or already on the chain.                                      *)
(***************************************************************************)
IsWalkContract(w, top, byId) ==
    /\ IsInjective(w)
    /\ ToSet(w) \subseteq DOMAIN byId
    /\ w = <<>> <=> (top = None \/ top \notin DOMAIN byId)
    /\ w # <<>> => w[1] = top
    /\ \A k \in 1..(Len(w) - 1) : w[k + 1] = byId[w[k]].parent
    /\ w # <<>> =>
         LET next == byId[w[Len(w)]].parent
         IN  next = None \/ next \notin DOMAIN byId \/ next \in ToSet(w)

=============================================================================
