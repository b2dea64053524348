--------------------------- MODULE CompressedSizes --------------------------
(***************************************************************************)
(* get_compressed_sizes of crio-df.py (lines 145-182): compressed sizes    *)
(* from the registry manifests cached beside each image.  One action per  *)
(* step of its loops.  The store may delete an image's manifest at any    *)
(* time, in particular between the exists check of line 154 and the read  *)
(* of line 157 (spec section 5).                                          *)
(***************************************************************************)
EXTENDS Naturals, Sequences, FiniteSets, SequencesExt, FiniteSetsExt, TLC

CONSTANTS
    ImageIds,     \* image ids, each listed at most once in images.json
    Digests,      \* layer digests a manifest entry may name
    EntrySizes,   \* values of an entry's "size" (None: JSON null)
    MaxEntries,   \* longest "layers" list considered
    Shapes,       \* manifest files that are not a usable object (below)
    None,         \* an absent or null JSON field
    FileMissing,  \* no manifest file for the image
    Unparsable,   \* the file does not parse (load_json_file returns [])
    Malformed     \* parses, but "layers" is null or the document is a list

Entry == [digest : Digests \cup {None}, size : EntrySizes]
(* A usable manifest is the list of its "layers" entries. *)
Manifests == Shapes \cup BoundedSeq(Entry, MaxEntries)
ImageLists ==
    {s \in BoundedSeq(ImageIds, Cardinality(ImageIds)) : s # <<>> /\ IsInjective(s)}

VARIABLES
    images,          \* the image ids, in images.json order
    manifests,       \* manifests[i]: the manifest file of image i, as it is now
    pc, idx,         \* loop position: which step, which image
    entries, eidx,   \* the loaded "layers" list and the position in it
    imageCompressed, \* image_compressed
    allLayers,       \* all_layers: digest -> compressed size
    layerUsage,      \* layer_usage: digest -> count
    perImage,        \* per_image (id and compressed total)
    sharedDigests    \* shared_digests

vars == <<images, manifests, pc, idx, entries, eidx, imageCompressed,
          allLayers, layerUsage, perImage, sharedDigests>>

Key == Digests \cup {None}
EmptyDict == [x \in {} |-> 0]
Current == images[idx]

TypeOK ==
    /\ images \in ImageLists
    /\ manifests \in [ImageIds -> Manifests \cup {FileMissing}]
    /\ pc \in {"check", "load", "entry", "finish", "shared", "done", "raised"}
    /\ idx \in 1..Cardinality(ImageIds)
    /\ entries \in BoundedSeq(Entry, MaxEntries)
    /\ eidx \in 1..MaxEntries + 1
    /\ imageCompressed \in Nat
    /\ \E D \in SUBSET Key : allLayers \in [D -> Nat] /\ layerUsage \in [D -> Nat]
    /\ perImage \in Seq([id : ImageIds, compressed : Nat, layers : Seq(Key)])
    /\ sharedDigests \subseteq Key

Init ==
    /\ images \in ImageLists
    /\ manifests \in [ImageIds -> Manifests \cup {FileMissing}]
    /\ pc = "check"
    /\ idx = 1
    /\ entries = <<>>
    /\ eidx = 1
    /\ imageCompressed = 0
    /\ allLayers = EmptyDict
    /\ layerUsage = EmptyDict
    /\ perImage = <<>>
    /\ sharedDigests = {}

(* The `continue` of lines 155 and 159: go to the next image, or leave    *)
(* the loop.                                                              *)
NextImage ==
    IF idx < Len(images) THEN idx' = idx + 1 /\ pc' = "check"
                         ELSE UNCHANGED idx /\ pc' = "shared"

(* Lines 152-155: skip an image with no manifest file. *)
CheckExists ==
    /\ pc = "check"
    /\ IF manifests[Current] = FileMissing THEN NextImage
       ELSE pc' = "load" /\ UNCHANGED idx
    /\ UNCHANGED <<images, manifests, entries, eidx, imageCompressed,
                   allLayers, layerUsage, perImage, sharedDigests>>

(* Mutation of LoadManifest: a file deleted after the exists check is not *)
(* caught as missing and the read raises.                                 *)
LoadManifestUnguarded ==
    /\ pc = "load"
    /\ LET m == manifests[Current] IN
       CASE m = Unparsable ->
                NextImage /\ UNCHANGED <<entries, eidx, imageCompressed>>
         [] m \in {FileMissing, Malformed} ->
                pc' = "raised" /\ UNCHANGED <<idx, entries, eidx, imageCompressed>>
         [] OTHER ->
                /\ entries' = m /\ eidx' = 1 /\ imageCompressed' = 0
                /\ pc' = IF m = <<>> THEN "finish" ELSE "entry"
                /\ UNCHANGED idx
    /\ UNCHANGED <<images, manifests, allLayers, layerUsage, perImage, sharedDigests>>

(* Lines 157-163: read the manifest.  A file gone since the check or that *)
(* does not parse reads as [] and is skipped; a null "layers" or a list   *)
(* document raises TypeError/AttributeError out of the function.          *)
LoadManifest ==
    /\ pc = "load"
    /\ LET m == manifests[Current] IN
       CASE m \in {FileMissing, Unparsable} ->
                NextImage /\ UNCHANGED <<entries, eidx, imageCompressed>>
         [] m = Malformed ->
                pc' = "raised" /\ UNCHANGED <<idx, entries, eidx, imageCompressed>>
         [] OTHER ->
                /\ entries' = m /\ eidx' = 1 /\ imageCompressed' = 0
                /\ pc' = IF m = <<>> THEN "finish" ELSE "entry"
                /\ UNCHANGED idx
    /\ UNCHANGED <<images, manifests, allLayers, layerUsage, perImage, sharedDigests>>
(* Mutation of ProcessEntry: all_layers accumulates instead of overwriting. *)
ProcessEntryAccumulates ==
    /\ pc = "entry"
    /\ LET e == entries[eidx] IN
       IF e.size = None
       THEN pc' = "raised" /\ UNCHANGED <<eidx, imageCompressed, allLayers, layerUsage>>
       ELSE /\ imageCompressed' = imageCompressed + e.size
            /\ allLayers' = (e.digest :> (IF e.digest \in DOMAIN allLayers
                                          THEN allLayers[e.digest] + e.size
                                          ELSE e.size)) @@ allLayers
            /\ layerUsage' = (e.digest :> (IF e.digest \in DOMAIN layerUsage
                                           THEN layerUsage[e.digest] + 1 ELSE 1))
                             @@ layerUsage
            /\ eidx' = eidx + 1
            /\ pc' = IF eidx = Len(entries) THEN "finish" ELSE "entry"
    /\ UNCHANGED <<images, manifests, idx, entries, perImage, sharedDigests>>

(* Lines 165-171: one "layers" entry.  A missing digest is the key "",    *)
(* a missing size is 0, a null size raises TypeError at line 168; a digest *)
(* seen before is overwritten in all_layers and counted again.            *)
ProcessEntry ==
    /\ pc = "entry"
    /\ LET e == entries[eidx] IN
       IF e.size = None
       THEN pc' = "raised" /\ UNCHANGED <<eidx, imageCompressed, allLayers, layerUsage>>
       ELSE /\ imageCompressed' = imageCompressed + e.size
            /\ allLayers' = (e.digest :> e.size) @@ allLayers
            /\ layerUsage' = (e.digest :> (IF e.digest \in DOMAIN layerUsage
                                           THEN layerUsage[e.digest] + 1 ELSE 1))
                             @@ layerUsage
            /\ eidx' = eidx + 1
            /\ pc' = IF eidx = Len(entries) THEN "finish" ELSE "entry"
    /\ UNCHANGED <<images, manifests, idx, entries, perImage, sharedDigests>>

(* Lines 173-179: record the image's raw compressed total and its layers. *)
FinishImage ==
    /\ pc = "finish"
    /\ perImage' = Append(perImage,
                     [id |-> Current, compressed |-> imageCompressed,
                      layers |-> [k \in DOMAIN entries |-> entries[k].digest]])
    /\ NextImage
    /\ UNCHANGED <<images, manifests, entries, eidx, imageCompressed,
                   allLayers, layerUsage, sharedDigests>>

(* Line 181 with the threshold for "shared" as a parameter. *)
SharedWith(threshold) ==
    /\ pc = "shared"
    /\ sharedDigests' = {d \in DOMAIN layerUsage : layerUsage[d] > threshold}
    /\ pc' = "done"
    /\ UNCHANGED <<images, manifests, idx, entries, eidx, imageCompressed,
                   allLayers, layerUsage, perImage>>

(* Mutations of ComputeShared: "shared" misread as used more than twice; *)
(* the comprehension collecting the counts c instead of the digests d.    *)
ComputeSharedCounts ==
    /\ pc = "shared"
    /\ sharedDigests' = {layerUsage[d] : d \in {x \in DOMAIN layerUsage : layerUsage[x] > 1}}
    /\ pc' = "done"
    /\ UNCHANGED <<images, manifests, idx, entries, eidx, imageCompressed,
                   allLayers, layerUsage, perImage>>

ComputeSharedAboveTwo == SharedWith(2)

(* Line 181: a digest counted more than once is shared. *)
ComputeShared == SharedWith(1)

(* The store removes an image, and its manifest, while the function runs. *)
RemoveManifest(i) ==
    /\ pc \notin {"done", "raised"}
    /\ manifests[i] # FileMissing
    /\ manifests' = [manifests EXCEPT ![i] = FileMissing]
    /\ UNCHANGED <<images, pc, idx, entries, eidx, imageCompressed,
                   allLayers, layerUsage, perImage, sharedDigests>>

(* The function has returned, or raised. *)
Terminated ==
    /\ pc \in {"done", "raised"}
    /\ UNCHANGED vars

Next ==
    \/ CheckExists \/ LoadManifest \/ ProcessEntry \/ FinishImage
    \/ ComputeShared \/ Terminated
    \/ \E i \in ImageIds : RemoveManifest(i)

Spec == Init /\ [][Next]_vars

-----------------------------------------------------------------------------
Listed(d) == {k \in DOMAIN perImage : d \in ToSet(perImage[k].layers)}
SumValues(f) == MapThenSumSet(LAMBDA d : f[d], DOMAIN f)

(* The spec (4.4, 7): get_compressed_sizes never fails on a malformed or   *)
(* missing manifest, including one deleted by the store after the exists  *)
(* check; it degrades to no compressed data for that image.               *)
NeverRaises == pc # "raised"

(* The deduplicated compressed total never exceeds the sum of the per-    *)
(* image pull costs, and is strictly below it as soon as two images list  *)
(* the same digest (spec section 8).                                      *)
DedupBelowNaive ==
    pc = "done" =>
      LET dedup == SumValues(allLayers)
          naive == MapThenSumSet(LAMBDA k : perImage[k].compressed, DOMAIN perImage)
      IN  /\ dedup <= naive
          /\ (\E d \in Key : Cardinality(Listed(d)) > 1) => dedup < naive

(* Every digest that two images' manifests list is marked shared.         *)
CrossImageDigestsMarkedShared ==
    pc = "done" => \A d \in Key : Cardinality(Listed(d)) > 1 => d \in sharedDigests

(* The spec (4.4): shared_digests holds exactly the digests listed by     *)
(* more than one image, so a "*" in the report means another image pulls  *)
(* the same layer.                                                        *)
SharedDigestsAreCrossImage ==
    pc = "done" => \A d \in sharedDigests : Cardinality(Listed(d)) > 1

=============================================================================
