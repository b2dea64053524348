----------------------------- MODULE StoreUsage -----------------------------
(***************************************************************************)
(* What crio-df.py promises of its uncompressed accounting (spec sections *)
(* 4.2, 4.3 and 8): a run either ends without a report, or reports, in   *)
(* one step, the usage of the store snapshot it loaded.  The snapshot      *)
(* never changes during a run.                                             *)
(*                                                                         *)
(* Chains are defined by reachability over parent links, not by the walk; *)
(* sharing by set intersection, not by reference counts.  Of LayerGraph  *)
(* only LayerSize, the spec's size rule, is used.                          *)
(***************************************************************************)
EXTENDS LayerGraph

CONSTANT ImageIds

VARIABLES
    images,     \* the image records loaded
    byId,       \* the layers loaded, by id
    volatile,   \* the parents of the container layers loaded
    outcome,    \* "running", "report", "noimages" or "failed"
    report      \* the report, once made

vars == <<images, byId, volatile, outcome, report>>

NoReport == [total |-> 0, images |-> <<>>, reclaimable |-> 0]

(* The present layers reachable from l through parent links. *)
RECURSIVE Closure(_)
Closure(S) ==
    LET S2 == S \cup ({byId[l].parent : l \in S} \cap DOMAIN byId)
    IN  IF S2 = S THEN S ELSE Closure(S2)
ChainOf(l) == Closure({l} \cap DOMAIN byId)

Bytes(S) == MapThenSumSet(LAMBDA l : LayerSize(byId[l]), S)
Others(k) == UNION {ChainOf(images[j].layer) : j \in DOMAIN images \ {k}}

(* Spec 4.3: a container counts for the image that last lists its parent *)
(* as top layer.                                                           *)
Owner(p) == images[Max({k \in DOMAIN images : images[k].layer = p})].id
Containers(k) ==
    Cardinality({v \in DOMAIN volatile :
                    /\ \E j \in DOMAIN images : images[j].layer = volatile[v]
                    /\ Owner(volatile[v]) = images[k].id})

ImageUsage(k) ==
    LET chain  == ChainOf(images[k].layer)
        unique == Bytes(chain \ Others(k))
    IN  [id |-> images[k].id, shared |-> Bytes(chain \cap Others(k)),
         unique |-> unique, containers |-> Containers(k),
         reclaimable |-> IF Containers(k) = 0 THEN unique ELSE 0]

Usage ==
    LET per == [k \in DOMAIN images |-> ImageUsage(k)]
    IN  [total |-> Bytes(UNION {ChainOf(images[k].layer) : k \in DOMAIN images}),
         images |-> per,
         reclaimable |-> FoldLeft(LAMBDA acc, r : acc + r.reclaimable, 0, per)]

Init ==
    /\ images \in Seq([id : ImageIds, layer : LayerIds \cup {None}])
    /\ outcome = "running" /\ report = NoReport

Report ==
    /\ outcome = "running" /\ images # <<>>
    /\ outcome' = "report" /\ report' = Usage
    /\ UNCHANGED <<images, byId, volatile>>

NoImages ==
    /\ outcome = "running" /\ images = <<>>
    /\ outcome' = "noimages"
    /\ UNCHANGED <<images, byId, volatile, report>>

Fail ==
    /\ outcome = "running"
    /\ outcome' = "failed"
    /\ UNCHANGED <<images, byId, volatile, report>>

Next == Report \/ NoImages \/ Fail

Spec == Init /\ [][Next]_vars
=============================================================================
