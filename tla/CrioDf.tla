------------------------------- MODULE CrioDf -------------------------------
(***************************************************************************)
(* main() of crio-df.py (lines 185-288): the uncompressed disk-usage      *)
(* accounting.  One action per loop iteration of main.  The three          *)
(* metadata files are chosen in Init independently of each other, so the *)
(* model covers every combination the store can present when other         *)
(* processes mutate it between the three reads of lines 194-196           *)
(* (dangling parents, dangling top layers, containers of vanished images). *)
(* Report formatting (lines 264-266, 290-341) is not modelled.            *)
(***************************************************************************)
EXTENDS LayerGraph, TLC

CONSTANTS
    ImageIds,       \* image ids; images.json holds each id at most once
    LayerRecs,      \* [parent, diff, unc] records a layers.json entry may hold
    MaxContainers,  \* longest volatile-layers.json considered
    FileMissing     \* a metadata file that is absent or does not parse

VARIABLES
    imagesFile, layersFile, volatileFile,  \* the files as read
    pc,                  \* which loop of main is running
    idx,                 \* position in the list that loop walks
    layerCount,          \* layer_count
    imageLayers,         \* image_layers
    totalSize,           \* total_size
    layerToImage,        \* layer_to_image
    containersPerImage,  \* containers_per_image
    imageData,           \* image_data (the size fields)
    totalReclaimable     \* total_reclaimable

vars == <<imagesFile, layersFile, volatileFile, pc, idx, layerCount,
          imageLayers, totalSize, layerToImage, containersPerImage,
          imageData, totalReclaimable>>

Parent == LayerIds \cup {None}
ImageRecs == [id : ImageIds, layer : Parent]
Stores == UNION {[D -> LayerRecs] : D \in SUBSET LayerIds}
ImagesFiles ==
    {s \in BoundedSeq(ImageRecs, Cardinality(ImageIds)) :
        \A j, k \in DOMAIN s : j # k => s[j].id # s[k].id}
(* A volatile-layers.json entry is represented by its "parent" field.     *)
VolatileFiles == BoundedSeq(Parent, MaxContainers)

(* load_json_file (lines 22-31): a missing or unparsable file reads as [].  *)
(* layers.json is held as the dict line 203 builds from it.               *)
LoadJson(f, empty) == IF f = FileMissing THEN empty ELSE f
EmptyDict == [x \in {} |-> None]
images == LoadJson(imagesFile, <<>>)
layersById == LoadJson(layersFile, EmptyDict)
volatileLayers == LoadJson(volatileFile, <<>>)

Size(l) == LayerSize(layersById[l])
Occurrences(w, l) == Len(SelectSeq(w, LAMBDA x : x = l))

(* Move to the next element of the list a loop walks, or to the next loop. *)
Advance(len, here, next) ==
    IF idx < len THEN idx' = idx + 1 /\ pc' = here
                 ELSE idx' = 1 /\ pc' = next

ImageDataRecs ==
    [id : ImageIds, shared : Nat, unique : Nat, containers : Nat, reclaimable : Nat]

TypeOK ==
    /\ imagesFile \in ImagesFiles \cup {FileMissing}
    /\ layersFile \in Stores \cup {FileMissing}
    /\ volatileFile \in VolatileFiles \cup {FileMissing}
    /\ pc \in {"load", "walk", "total", "map", "count", "sizes", "compressed",
               "noimages", "report", "raised"}
    /\ idx \in 1..Cardinality(ImageIds) + MaxContainers
    /\ layerCount \in [LayerIds -> Nat]
    /\ imageLayers \in [ImageIds -> Seq(LayerIds)]
    /\ totalSize \in Nat
    /\ \E D \in SUBSET Parent : layerToImage \in [D -> ImageIds]
    /\ containersPerImage \in [ImageIds -> Nat]
    /\ imageData \in Seq(ImageDataRecs)
    /\ totalReclaimable \in Nat

Init ==
    /\ imagesFile \in ImagesFiles \cup {FileMissing}
    /\ layersFile \in Stores \cup {FileMissing}
    /\ volatileFile \in VolatileFiles \cup {FileMissing}
    /\ pc = "load"
    /\ idx = 1
    /\ layerCount = [l \in LayerIds |-> 0]
    /\ imageLayers = [i \in ImageIds |-> <<>>]
    /\ totalSize = 0
    /\ layerToImage = EmptyDict
    /\ containersPerImage = [i \in ImageIds |-> 0]
    /\ imageData = <<>>
    /\ totalReclaimable = 0

(* Lines 194-203: load the files; with no images print a note and return. *)
Load ==
    /\ pc = "load"
    /\ pc' = IF images = <<>> THEN "noimages" ELSE "walk"
    /\ UNCHANGED <<imagesFile, layersFile, volatileFile, idx, layerCount,
                   imageLayers, totalSize, layerToImage, containersPerImage,
                   imageData, totalReclaimable>>

(* Lines 209-215: walk one image's chain, count each layer it holds.      *)
WalkImage ==
    /\ pc = "walk"
    /\ LET img == images[idx]
           w   == Walk(img, layersById)
       IN  /\ imageLayers' = [imageLayers EXCEPT ![img.id] = w]
           /\ layerCount' = [l \in LayerIds |-> layerCount[l] + Occurrences(w, l)]
    /\ Advance(Len(images), "walk", "total")
    /\ UNCHANGED <<imagesFile, layersFile, volatileFile, totalSize,
                   layerToImage, containersPerImage, imageData, totalReclaimable>>
(* Mutation of TotalSize: each layer weighed by its reference count, the  *)
(* per-image summation the tool exists to correct.                        *)
TotalSizePerReference ==
    /\ pc = "total"
    /\ totalSize' = MapThenSumSet(LAMBDA l : layerCount[l] * Size(l),
                                  {l \in LayerIds : layerCount[l] > 0})
    /\ pc' = "map"
    /\ UNCHANGED <<imagesFile, layersFile, volatileFile, idx, layerCount,
                   imageLayers, layerToImage, containersPerImage, imageData,
                   totalReclaimable>>

(* Lines 218-223: sum the size of every key of layer_count once.          *)
TotalSize ==
    /\ pc = "total"
    /\ totalSize' = MapThenSumSet(Size, {l \in LayerIds : layerCount[l] > 0})
    /\ pc' = "map"
    /\ UNCHANGED <<imagesFile, layersFile, volatileFile, idx, layerCount,
                   imageLayers, layerToImage, containersPerImage, imageData,
                   totalReclaimable>>

(* Mutation of TopLayerMap: the first image listing a top layer keeps it *)
(* (a setdefault in place of the assignment).                             *)
TopLayerMapFirstWins(imgs) ==
    FoldLeft(LAMBDA m, img : m @@ (img.layer :> img.id), EmptyDict, imgs)

(* Lines 226-228: top layer -> image id, a later image overwriting an      *)
(* earlier one with the same top layer (images without one share None).  *)
TopLayerMap(imgs) ==
    FoldLeft(LAMBDA m, img : (img.layer :> img.id) @@ m, EmptyDict, imgs)

(* Mutation of MapTopLayers: the map holds the image record, not its id.  *)
MapTopLayersRecord ==
    /\ pc = "map"
    /\ layerToImage' = FoldLeft(LAMBDA m, img : (img.layer :> img) @@ m,
                                EmptyDict, images)
    /\ pc' = IF volatileLayers = <<>> THEN "sizes" ELSE "count"
    /\ UNCHANGED <<imagesFile, layersFile, volatileFile, idx, layerCount,
                   imageLayers, totalSize, containersPerImage, imageData,
                   totalReclaimable>>

MapTopLayers ==
    /\ pc = "map"
    /\ layerToImage' = TopLayerMap(images)
    /\ pc' = IF volatileLayers = <<>> THEN "sizes" ELSE "count"
    /\ UNCHANGED <<imagesFile, layersFile, volatileFile, idx, layerCount,
                   imageLayers, totalSize, containersPerImage, imageData,
                   totalReclaimable>>

(* Mutation of CountContainer: the loop stops one record short.           *)
CountContainerSkipLast ==
    /\ pc = "count"
    /\ LET parent == volatileLayers[idx]
       IN  containersPerImage' =
             IF parent \in DOMAIN layerToImage /\ idx < Len(volatileLayers)
             THEN [containersPerImage EXCEPT ![layerToImage[parent]] = @ + 1]
             ELSE containersPerImage
    /\ Advance(Len(volatileLayers), "count", "sizes")
    /\ UNCHANGED <<imagesFile, layersFile, volatileFile, layerCount,
                   imageLayers, totalSize, layerToImage, imageData,
                   totalReclaimable>>

(* Lines 232-236: a container whose parent is some image's top layer is   *)
(* counted for that image; any other record is ignored.                   *)
CountContainer ==
    /\ pc = "count"
    /\ LET parent == volatileLayers[idx]
       IN  containersPerImage' =
             IF parent \in DOMAIN layerToImage
             THEN [containersPerImage EXCEPT ![layerToImage[parent]] = @ + 1]
             ELSE containersPerImage
    /\ Advance(Len(volatileLayers), "count", "sizes")
    /\ UNCHANGED <<imagesFile, layersFile, volatileFile, layerCount,
                   imageLayers, totalSize, layerToImage, imageData,
                   totalReclaimable>>

(* Sum of the sizes of the layers of w that are shared (count >= from),  *)
(* or, with isShared FALSE, of those that are not.                        *)
SumWhere(w, from, isShared) ==
    FoldLeft(LAMBDA acc, l :
               acc + (IF (layerCount[l] >= from) = isShared THEN Size(l) ELSE 0),
             0, w)

(* Lines 242-281, with the threshold for "shared" as a parameter. *)
SizeImageWith(sharedFrom) ==
    /\ pc = "sizes"
    /\ LET img    == images[idx]
           w      == imageLayers[img.id]
           shared == SumWhere(w, sharedFrom, TRUE)
           unique == SumWhere(w, sharedFrom, FALSE)
           n      == containersPerImage[img.id]
           reclaimable == IF n = 0 THEN unique ELSE 0
       IN  /\ imageData' = Append(imageData,
                  [id |-> img.id, shared |-> shared, unique |-> unique,
                   containers |-> n, reclaimable |-> reclaimable])
           /\ totalReclaimable' = totalReclaimable + reclaimable
    /\ Advance(Len(images), "sizes", "compressed")
    /\ UNCHANGED <<imagesFile, layersFile, volatileFile, layerCount,
                   imageLayers, totalSize, layerToImage, containersPerImage>>

(* Mutations of SizeImage: "shared" misread as count > 0, and as count > 2. *)
SizeImageAllShared == SizeImageWith(1)
SizeImageSharedFromThree == SizeImageWith(3)

(* Lines 242-281: split one image's chain into shared bytes (layers with  *)
(* count > 1) and unique bytes; unique bytes are reclaimable only when no *)
(* container uses the image.                                             *)
SizeImage == SizeImageWith(2)

(* Lines 284-288: get_compressed_sizes either returns, or raises on a     *)
(* malformed manifest (CompressedSizes models which), ending the run      *)
(* before any line of the report is printed.                              *)
CompressedSizes ==
    /\ pc = "compressed"
    /\ pc' \in {"report", "raised"}
    /\ UNCHANGED <<imagesFile, layersFile, volatileFile, idx, layerCount,
                   imageLayers, totalSize, layerToImage, containersPerImage,
                   imageData, totalReclaimable>>

(* main has returned (or raised). *)
Terminated ==
    /\ pc \in {"noimages", "report", "raised"}
    /\ UNCHANGED vars

Next ==
    \/ Load \/ WalkImage \/ TotalSize \/ MapTopLayers \/ CountContainer
    \/ SizeImage \/ CompressedSizes \/ Terminated

Spec == Init /\ [][Next]_vars

-----------------------------------------------------------------------------
(* The report main prints, and how its run ended, seen as StoreUsage. *)
Abs == INSTANCE StoreUsage
        WITH byId <- layersById, volatile <- volatileLayers,
             outcome <- CASE pc = "report" -> "report"
                          [] pc = "noimages" -> "noimages"
                          [] pc = "raised" -> "failed"
                          [] OTHER -> "running",
             report <- IF pc = "report"
                       THEN [total |-> totalSize, images |-> imageData,
                             reclaimable |-> totalReclaimable]
                       ELSE [total |-> 0, images |-> <<>>, reclaimable |-> 0]

(* main reports, in one step at its end, exactly the usage the spec       *)
(* defines for the snapshot it loaded: the deduplicated total, each       *)
(* image's shared, unique and reclaimable bytes and its containers (last  *)
(* image listing a top layer wins, spec 4.3), and the reclaimable sum.    *)
(* Nothing is reported before every loop of lines 209-281 has finished.   *)
StoreUsageSpec == Abs!Spec

Reported == pc = "report"
Chain(k) == ToSet(Walk(images[k], layersById))
SumSizes(S) == MapThenSumSet(Size, S)

(* The reported store total counts every layer some image reaches exactly *)
(* once, however many images share it (spec section 8: base + unique      *)
(* deltas, never images x base).                                          *)
StoreTotalDeduplicated ==
    Reported => totalSize = SumSizes(UNION {Chain(k) : k \in DOMAIN images})

(* An image's unique bytes are exactly the bytes of the layers no other   *)
(* image reaches, i.e. what deleting that image alone frees; all its other *)
(* bytes are shared.  The counts of lines 214-215 are per image, so this  *)
(* needs every walk to count a layer once and every image to be walked.   *)
UniqueMeansExclusive ==
    Reported =>
      \A k \in DOMAIN images :
        LET others == UNION {Chain(j) : j \in DOMAIN images \ {k}}
        IN  /\ imageData[k].id = images[k].id
            /\ imageData[k].unique = SumSizes(Chain(k) \ others)
            /\ imageData[k].shared = SumSizes(Chain(k) \cap others)

(* No image whose top layer backs a container reports reclaimable bytes,  *)
(* even when images share a top layer and layer_to_image keeps only the   *)
(* last of them (spec 4.2, 4.3, 9).                                       *)
InUseNeverReclaimable ==
    Reported =>
      \A k \in DOMAIN images :
        (\E v \in DOMAIN volatileLayers : volatileLayers[v] = images[k].layer)
            => imageData[k].reclaimable = 0

(* Total reclaimable bytes never exceed the store total, so the reported  *)
(* percentage of line 284 is at most 100.                                 *)
ReclaimableWithinStore ==
    Reported => totalReclaimable <= totalSize

=============================================================================
