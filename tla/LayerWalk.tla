----------------------------- MODULE LayerWalk ------------------------------
(***************************************************************************)
(* walk_image_layers (crio-df.py lines 98-117) as a step machine: one      *)
(* step per iteration of its while loop.  The layer store and the image's *)
(* top layer are chosen in Init from every store of at most |LayerIds|    *)
(* layers, including parent cycles and dangling parents, as a store that  *)
(* other processes mutate concurrently may present.                       *)
(***************************************************************************)
EXTENDS LayerGraph

CONSTANTS
    LayerRecs   \* the [parent, diff, unc] records a layers.json entry may hold

VARIABLES
    layersById,    \* layers_by_id, the walk's input
    top,           \* image.get("layer")
    layerId,       \* the loop variable layer_id
    visited,       \* visited
    layersWalked,  \* layers_walked, the result
    done           \* the function has returned

vars == <<layersById, top, layerId, visited, layersWalked, done>>

Stores == UNION {[D -> LayerRecs] : D \in SUBSET LayerIds}

TypeOK ==
    /\ layersById \in Stores
    /\ top \in LayerIds \cup {None}
    /\ layerId \in LayerIds \cup {None}
    /\ visited \subseteq LayerIds
    /\ layersWalked \in Seq(LayerIds)
    /\ done \in BOOLEAN

Init ==
    /\ layersById \in Stores
    /\ top \in LayerIds \cup {None}
    /\ layerId = top
    /\ visited = {}
    /\ layersWalked = <<>>
    /\ done = FALSE

(* Mutations of Visit: the `visited.add` dropped; lines 114-115 swapped.  *)
VisitNoMark ==
    /\ ~done
    /\ layerId # None /\ layerId \notin visited
    /\ layerId \in DOMAIN layersById
    /\ visited' = visited
    /\ layersWalked' = Append(layersWalked, layerId)
    /\ layerId' = layersById[layerId].parent
    /\ UNCHANGED <<layersById, top, done>>

VisitSwapped ==
    /\ ~done
    /\ layerId # None /\ layerId \notin visited
    /\ layerId \in DOMAIN layersById
    /\ visited' = visited \cup {layerId}
    /\ layersWalked' = Append(layersWalked, layersById[layerId].parent)
    /\ layerId' = layersById[layerId].parent
    /\ UNCHANGED <<layersById, top, done>>

(* Lines 107-115: the id is fresh and present; append it, go to parent.   *)
Visit ==
    /\ ~done
    /\ layerId # None /\ layerId \notin visited
    /\ layerId \in DOMAIN layersById
    /\ visited' = visited \cup {layerId}
    /\ layersWalked' = Append(layersWalked, layerId)
    /\ layerId' = layersById[layerId].parent
    /\ UNCHANGED <<layersById, top, done>>

(* Mutation of Dangling: the id is appended before the lookup fails.     *)
DanglingAppends ==
    /\ ~done
    /\ layerId # None /\ layerId \notin visited
    /\ layerId \notin DOMAIN layersById
    /\ visited' = visited \cup {layerId}
    /\ layersWalked' = Append(layersWalked, layerId)
    /\ done' = TRUE
    /\ UNCHANGED <<layersById, top, layerId>>

(* Lines 107-112: the id is fresh but dangling; mark it visited, break.   *)
Dangling ==
    /\ ~done
    /\ layerId # None /\ layerId \notin visited
    /\ layerId \notin DOMAIN layersById
    /\ visited' = visited \cup {layerId}
    /\ done' = TRUE
    /\ UNCHANGED <<layersById, top, layerId, layersWalked>>

Exit ==
    /\ ~done
    /\ layerId = None \/ layerId \in visited
    /\ done' = TRUE
    /\ UNCHANGED <<layersById, top, layerId, visited, layersWalked>>

(* The caller goes on with the returned list. *)
Returned ==
    /\ done
    /\ UNCHANGED vars

Next == Visit \/ Dangling \/ Exit \/ Returned

(* The walk runs in the single thread of crio-df.py: it is never           *)
(* descheduled for ever, hence weak fairness.                             *)
Spec == Init /\ [][Next]_vars /\ WF_vars(Next)

-----------------------------------------------------------------------------
(* Once walk_image_layers returns, its list is exactly the chain the spec *)
(* promises: distinct present ids following parent links from the top     *)
(* layer, truncated silently at a dangling parent or at the first id that *)
(* would close a cycle; and it is the list Walk computes, the operator    *)
(* the accounting model uses for the same call.                           *)
WalkCorrect ==
    done =>
        /\ IsWalkContract(layersWalked, top, layersById)
        /\ layersWalked = Walk([layer |-> top], layersById)

(* Every iteration of the loop appends a distinct present layer, so the  *)
(* list never outgrows layers_by_id: the walk ends within |layers_by_id|  *)
(* appends even on a parent cycle (spec 4.1).                             *)
WalkBounded == Len(layersWalked) <= Cardinality(DOMAIN layersById)

=============================================================================
