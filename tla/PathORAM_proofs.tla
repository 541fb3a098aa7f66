---------------------------- MODULE PathORAM_proofs ----------------------------
(***************************************************************************)
(* Proofs about PathORAM, for every tree, payload set and capacity that     *)
(* satisfies its assumptions.                                               *)
(***************************************************************************)
EXTENDS PathORAM, FiniteSetTheorems, TLAPS

-----------------------------------------------------------------------------
(* Facts about the data *)

(* A bucket is a function from some block ids to payloads. *)
LEMMA BucketFunctions ==
  ASSUME NEW f
  PROVE  f \in Bucket <=> DOMAIN f \subseteq Blocks /\ f \in [DOMAIN f -> Data]
BY DEF Bucket

(* The empty function is a bucket and a call. *)
LEMMA NothingType == Nothing \in Bucket /\ Nothing \in Calls /\ DOMAIN Nothing = {}
<1>1. DOMAIN Nothing = {} /\ Nothing \in [{} -> Data] /\ Nothing \in [1 .. 0 -> Request]
  BY DEF Nothing
<1>2. Nothing \in Calls
  BY <1>1, SizeAssumption DEF Calls
<1> QED
  BY <1>1, <1>2 DEF Bucket

(* The paths of the tree lie in it. *)
LEMMA PathInTree ==
  ASSUME NEW leaf \in Leaves
  PROVE  Path(leaf) \subseteq Locations
BY TreeAssumption DEF Path

-----------------------------------------------------------------------------
(* Where a call is *)

(* Inside a call, next points at one of its requests; inside an access,    *)
(* prev is the leaf whose path it reads and writes.                        *)
CallOK ==
  /\ Idle \/ phase = "prefetch" => next = 1
  /\ phase = "remap" \/ InAccess => next \in DOMAIN requests
  /\ InAccess => prev \in Leaves

(* The request being served is one. *)
LEMMA CurrentType ==
  ASSUME TypeOK, next \in DOMAIN requests
  PROVE  /\ Current \in Request
         /\ next \in 1 .. BatchSize
         /\ Current.block \in Blocks /\ Current.data \in Data
<1>1. PICK n \in 0 .. BatchSize : requests \in [1 .. n -> Request]
  BY DEF TypeOK, Calls
<1> QED
  BY <1>1, SizeAssumption DEF Current, Request

(* What the class sees at a location is a bucket. *)
LEMMA ViewType ==
  ASSUME TypeOK
  PROVE  \A location \in Locations :
           /\ View(location) \in Bucket
           /\ DOMAIN View(location) \subseteq Blocks
           /\ \A b \in DOMAIN View(location) : View(location)[b] \in Data
BY BucketFunctions DEF TypeOK, View

(* Fetching buckets of the tree keeps the cache well-typed... *)
LEMMA FetchType ==
  ASSUME TypeOK, NEW locations \in SUBSET Locations, Fetch(locations)
  PROVE  DOMAIN cache' \subseteq Locations /\ cache' \in [DOMAIN cache' -> Bucket]
BY ViewType DEF Fetch, TypeOK

(* ... and changes nothing of what the class sees. *)
LEMMA FetchView ==
  ASSUME NEW locations, Fetch(locations), UNCHANGED storage
  PROVE  \A location : View(location)' = View(location)
BY DEF Fetch, View

(* Blocks read from the tree keep the stash a bucket. *)
LEMMA AddToStashType ==
  ASSUME TypeOK, prev \in Leaves, NEW ids \in SUBSET Blocks, AddToStash(ids)
  PROVE  /\ stash' \in Bucket
         /\ DOMAIN stash' = DOMAIN stash \cup ids
<1>1. PICK source \in [ids -> Path(prev)] :
        /\ \A b \in ids : Holds(source[b], b)
        /\ stash' = [b \in DOMAIN stash \cup ids |->
                       IF b \in DOMAIN stash THEN stash[b] ELSE View(source[b])[b]]
  BY DEF AddToStash
<1>2. \A b \in ids : View(source[b])[b] \in Data
  BY <1>1, ViewType, PathInTree DEF Holds
<1>3. DOMAIN stash \subseteq Blocks /\ stash \in [DOMAIN stash -> Data]
  BY BucketFunctions DEF TypeOK
<1> QED
  BY <1>1, <1>2, <1>3, BucketFunctions

(* Padding payloads of a bucket leaves a bucket with the same blocks. *)
LEMMA PadType ==
  ASSUME NEW bucket \in Bucket, NEW ids
  PROVE  /\ PadIn(bucket, ids) \in Bucket
         /\ DOMAIN PadIn(bucket, ids) = DOMAIN bucket
         /\ \A b \in DOMAIN bucket : Padded(PadIn(bucket, ids)[b]) = Padded(bucket[b])
<1>1. DOMAIN bucket \subseteq Blocks /\ bucket \in [DOMAIN bucket -> Data]
  BY BucketFunctions
<1> QED
  BY <1>1, BucketFunctions, DataAssumption DEF PadIn

(* What writing a path does once the blocks have their places. *)
Evicted(evict) ==
  /\ cache' = [location \in DOMAIN cache \cup Path(prev) |->
                 IF location \in Path(prev)
                 THEN WrittenBucket(evict, location) ELSE cache[location]]
  /\ stash' = [b \in {x \in DOMAIN stash : evict[x] = Kept} |-> stash[b]]
  /\ UNCHANGED <<positionMap, storage, damaged>>

LEMMA EvictedType ==
  ASSUME TypeOK, prev \in Leaves, NEW evict, Evicted(evict)
  PROVE  /\ stash' \in Bucket
         /\ DOMAIN cache' \subseteq Locations /\ cache' \in [DOMAIN cache' -> Bucket]
<1>1. DOMAIN stash \subseteq Blocks /\ stash \in [DOMAIN stash -> Data]
  BY BucketFunctions DEF TypeOK
<1>2. stash' \in Bucket
  BY <1>1, BucketFunctions DEF Evicted
<1>3. \A location : WrittenBucket(evict, location) \in Bucket
  BY <1>1, BucketFunctions DEF WrittenBucket
<1>4. DOMAIN cache' \subseteq Locations /\ cache' \in [DOMAIN cache' -> Bucket]
  BY <1>3, PathInTree DEF Evicted, TypeOK
<1> QED
  BY <1>2, <1>4

-----------------------------------------------------------------------------
(* Type correctness *)

LEMMA InitType == Init => TypeOK /\ CallOK
<1> SUFFICES ASSUME Init PROVE TypeOK /\ CallOK
  OBVIOUS
<1>1. TypeOK
  BY NothingType, SizeAssumption DEF Init, TypeOK
<1>2. CallOK
  BY DEF Init, CallOK, Idle, InAccess
<1> QED
  BY <1>1, <1>2

LEMMA TypeStep == TypeOK /\ CallOK /\ [Next]_vars => TypeOK' /\ CallOK'
<1> SUFFICES ASSUME TypeOK, CallOK, [Next]_vars
             PROVE  TypeOK' /\ CallOK'
  OBVIOUS
<1>1. ASSUME NEW b \in Blocks, Get(b)
      PROVE  TypeOK' /\ CallOK'
  <2> DEFINE r == [block |-> b, write |-> FALSE, data |-> Empty]
  <2>1. r \in Request
    BY DataAssumption DEF Request
  <2>2. requests' = [i \in 1 .. 1 |-> r] /\ requests' \in Calls
    BY <1>1, <2>1, SizeAssumption DEF Get, Begin, Calls
  <2> QED
    BY <1>1, <2>2 DEF Get, Begin, TypeOK, CallOK, Idle, InAccess, tree
<1>2. ASSUME NEW b \in Blocks, NEW d \in Data, Put(b, d)
      PROVE  TypeOK' /\ CallOK'
  <2> DEFINE r == [block |-> b, write |-> TRUE, data |-> d]
  <2>1. r \in Request
    BY DEF Request
  <2>2. requests' = [i \in 1 .. 1 |-> r] /\ requests' \in Calls
    BY <1>2, <2>1, SizeAssumption DEF Put, Begin, Calls
  <2> QED
    BY <1>2, <2>2 DEF Put, Begin, TypeOK, CallOK, Idle, InAccess, tree
<1>3. ASSUME NEW batch \in Calls, Multiple(batch)
      PROVE  TypeOK' /\ CallOK'
  BY <1>3 DEF Multiple, Begin, TypeOK, CallOK, Idle, InAccess, tree
<1>4. CASE Prefetch
  <2> DEFINE all == UNION {Path(positionMap[requests[i].block]) : i \in DOMAIN requests}
  <2>1. \A i \in DOMAIN requests : requests[i].block \in Blocks
    BY DEF TypeOK, Calls, Request
  <2>2. all \subseteq Locations
    BY <2>1, PathInTree DEF TypeOK
  <2>3. Fetch(all)
    BY <1>4 DEF Prefetch
  <2> HIDE DEF all
  <2>4. DOMAIN cache' \subseteq Locations /\ cache' \in [DOMAIN cache' -> Bucket]
    BY <2>2, <2>3, FetchType
  <2> QED
    BY <1>4, <2>4 DEF Prefetch, TypeOK, CallOK, Idle, InAccess, call
<1>5. CASE Remap
  <2>1. Current.block \in Blocks
    BY <1>5, CurrentType DEF Remap, CallOK
  <2> QED
    BY <1>5, <2>1 DEF Remap, TypeOK, CallOK, Idle, InAccess, tree
<1>6. CASE ReadPath
  <2>1. prev \in Leaves
    BY <1>6 DEF ReadPath, CallOK, InAccess
  <2>2. stash' \in Bucket
    BY <1>6, <2>1, AddToStashType DEF ReadPath, OnPath
  <2>3. DOMAIN cache' \subseteq Locations /\ cache' \in [DOMAIN cache' -> Bucket]
    BY <1>6, <2>1, FetchType, PathInTree DEF ReadPath
  <2> QED
    BY <1>6, <2>1, <2>2, <2>3 DEF ReadPath, TypeOK, CallOK, Idle, InAccess, call
<1>7. CASE ReadPathOverflows
  <2>1. prev \in Leaves /\ Current.block \in Blocks
    BY <1>7, CurrentType DEF ReadPathOverflows, CallOK, InAccess
  <2>2. stash' \in Bucket
    BY <1>7, <2>1, AddToStashType DEF ReadPathOverflows, OnPath
  <2>3. DOMAIN cache' \subseteq Locations /\ cache' \in [DOMAIN cache' -> Bucket]
    BY <1>7, <2>1, FetchType, PathInTree DEF ReadPathOverflows
  <2>4. damaged' \subseteq Blocks
    BY <1>7, <2>1 DEF ReadPathOverflows, Orphan, TypeOK
  <2> QED
    BY <1>7, <2>2, <2>3, <2>4, NothingType, SizeAssumption
    DEF ReadPathOverflows, Leave, TypeOK, CallOK, Idle, InAccess
<1>8. CASE StorageGetFails
  <2>1. damaged' \subseteq Blocks
    <3>1. CASE phase = "prefetch"
      BY <1>8, <3>1 DEF StorageGetFails, TypeOK
    <3>2. CASE phase = "read"
      BY <1>8, <3>2, CurrentType DEF StorageGetFails, Orphan, TypeOK, CallOK, InAccess
    <3> QED
      BY <1>8, <3>1, <3>2 DEF StorageGetFails
  <2> QED
    BY <1>8, <2>1, NothingType, SizeAssumption
    DEF StorageGetFails, Leave, TypeOK, CallOK, Idle, InAccess, tree
<1>9. CASE Update
  <2>1. Current.block \in Blocks /\ Current.data \in Data
    BY <1>9, CurrentType DEF Update, CallOK, InAccess
  <2>2. DOMAIN stash \subseteq Blocks /\ stash \in [DOMAIN stash -> Data]
    BY BucketFunctions DEF TypeOK
  <2>3. stash' \in Bucket /\ response' \in Data
    <3>1. CASE Current.write
      BY <1>9, <2>1, <2>2, <3>1, BucketFunctions DEF Update
    <3>2. CASE ~Current.write
      BY <1>9, <2>1, <2>2, <3>2, DataAssumption DEF Update, TypeOK
    <3> QED
      BY <3>1, <3>2
  <2> QED
    BY <1>9, <2>3 DEF Update, TypeOK, CallOK, Idle, InAccess, tree
<1>10. CASE UpdateOverflows
  BY <1>10, NothingType, SizeAssumption
  DEF UpdateOverflows, Leave, TypeOK, CallOK, Idle, InAccess, tree
<1>11. CASE WritePath
  <2>1. /\ prev \in Leaves /\ next \in 1 .. BatchSize /\ next' = next + 1
        /\ next + 1 \in DOMAIN requests => phase' = "remap"
        /\ phase' \in {"remap", "sync"} /\ UNCHANGED <<requests, prev, response>>
    BY <1>11, CurrentType DEF WritePath, CallOK, InAccess
  <2>2. PICK evict : Evicted(evict)
    BY <1>11 DEF WritePath, Evicted
  <2>3. /\ stash' \in Bucket
        /\ DOMAIN cache' \subseteq Locations /\ cache' \in [DOMAIN cache' -> Bucket]
        /\ UNCHANGED <<positionMap, storage, damaged>>
    BY <2>1, <2>2, EvictedType DEF Evicted
  <2>4. TypeOK'
    BY <2>1, <2>3, SizeAssumption DEF TypeOK
  <2>5. CallOK'
    BY <1>11, <2>1 DEF WritePath, CallOK, Idle, InAccess
  <2> QED
    BY <2>4, <2>5
<1>12. ASSUME NEW locations \in SUBSET DOMAIN cache, Upload(locations)
       PROVE  storage' \in [Locations -> Bucket]
  BY <1>12, PadType DEF Upload, Pad, TypeOK
<1>13. CASE Sync
  BY <1>12, <1>13, NothingType, SizeAssumption
  DEF Sync, Leave, TypeOK, CallOK, Idle, InAccess
<1>14. CASE SyncRejected
  <2>1. DOMAIN cache' = DOMAIN cache /\ cache' \in [DOMAIN cache -> Bucket]
    BY <1>14, PadType DEF SyncRejected, Pad, TypeOK
  <2> QED
    BY <1>14, <2>1, NothingType, SizeAssumption
    DEF SyncRejected, Leave, TypeOK, CallOK, Idle, InAccess
<1>15. CASE StorageSetFails
  <2>1. DOMAIN cache' = DOMAIN cache /\ cache' \in [DOMAIN cache -> Bucket]
    BY <1>15, PadType DEF StorageSetFails, Pad, TypeOK
  <2> QED
    BY <1>12, <1>15, <2>1, NothingType, SizeAssumption
    DEF StorageSetFails, Leave, TypeOK, CallOK, Idle, InAccess
<1>16. CASE UNCHANGED vars
  BY <1>16 DEF vars, TypeOK, CallOK, Idle, InAccess
<1> QED
  BY <1>1, <1>2, <1>3, <1>4, <1>5, <1>6, <1>7, <1>8, <1>9, <1>10, <1>11,
     <1>13, <1>14, <1>15, <1>16 DEF Next

(* Every variable always has its type. *)
THEOREM TypeCorrect == Spec => [](TypeOK /\ CallOK)
BY InitType, TypeStep, PTL DEF Spec

-----------------------------------------------------------------------------
(* The ORAM invariant *)

(* OnMappedPath is not inductive by itself: an access that throws because   *)
(* its PUT finds the stash full leaves its block remapped, which is safe    *)
(* only because the path was read in full and held no copy of it.           *)
PathLoaded == phase \in {"update", "write"} => OnPath(prev) \subseteq DOMAIN stash

IInv == OnMappedPath /\ PathLoaded /\ CopiesAgree

(* A step outside of accesses that changes neither the map nor the stash,   *)
(* and of the tree no more than the padding of payloads.                     *)
LEMMA QuietStep ==
  ASSUME TypeOK, IInv, UNCHANGED <<positionMap, stash, damaged>>,
         ~InAccess, ~InAccess',
         \A location \in Locations :
           /\ DOMAIN View(location)' = DOMAIN View(location)
           /\ \A b \in DOMAIN View(location) :
                Padded(View(location)'[b]) = Padded(View(location)[b])
  PROVE  IInv'
<1>1. OnMappedPath'
  BY DEF IInv, OnMappedPath, Holds, PositionOf
<1>2. PathLoaded'
  BY DEF PathLoaded, InAccess
<1>3. CopiesAgree'
  <2> SUFFICES ASSUME NEW b \in Blocks \ damaged,
                      NEW d \in CopiesOf(b)', NEW e \in CopiesOf(b)'
               PROVE  Padded(d) = Padded(e)
    BY DEF CopiesAgree
  <2>1. ASSUME NEW c \in CopiesOf(b)'
        PROVE  \E c0 \in CopiesOf(b) : Padded(c) = Padded(c0)
    BY DEF CopiesOf, Holds
  <2>2. ~BeingReplaced(b)
    BY DEF BeingReplaced, InAccess
  <2> QED
    BY <2>1, <2>2 DEF IInv, CopiesAgree
<1> QED
  BY <1>1, <1>2, <1>3 DEF IInv

(* An access that throws while it reads its path: if the tree held the      *)
(* block it is damaged, and if not there is no copy to be off its new path. *)
LEMMA ThrowingStep ==
  ASSUME TypeOK, CallOK, IInv, InAccess, phase # "write", ~InAccess',
         \A location \in Locations : View(location)' = View(location),
         UNCHANGED positionMap,
         damaged \subseteq damaged',
         Current.block \in OnPath(prev) => Current.block \in damaged',
         \A b \in DOMAIN stash' :
           \/ b \in DOMAIN stash /\ stash'[b] = stash[b]
           \/ \E location \in Locations :
                Holds(location, b) /\ stash'[b] = View(location)[b]
  PROVE  IInv'
<1>1. OnMappedPath'
  <2> SUFFICES ASSUME NEW location \in Locations, NEW b \in Blocks \ damaged',
                      Holds(location, b)
               PROVE  location \in Path(positionMap[b])
    BY DEF OnMappedPath, Holds, PositionOf
  <2>1. location \in Path(PositionOf(b))
    BY DEF IInv, OnMappedPath
  <2>2. b # Current.block
    BY <2>1 DEF PositionOf, OnPath
  <2> QED
    BY <2>1, <2>2 DEF PositionOf
<1>2. PathLoaded'
  BY DEF PathLoaded, InAccess
<1>3. CopiesAgree'
  <2> SUFFICES ASSUME NEW b \in Blocks \ damaged',
                      NEW d \in CopiesOf(b)', NEW e \in CopiesOf(b)'
               PROVE  Padded(d) = Padded(e)
    BY DEF CopiesAgree
  <2>1. CopiesOf(b)' \subseteq CopiesOf(b)
    BY DEF CopiesOf, Holds
  <2>2. ~BeingReplaced(b)
    BY DEF BeingReplaced
  <2> QED
    BY <2>1, <2>2 DEF IInv, CopiesAgree
<1> QED
  BY <1>1, <1>2, <1>3 DEF IInv

LEMMA InitInvariant == Init => IInv
<1> SUFFICES ASSUME Init PROVE IInv
  OBVIOUS
<1>1. DOMAIN stash = {} /\ \A location \in Locations : DOMAIN View(location) = {}
  BY NothingType DEF Init, View
<1> QED
  BY <1>1 DEF Init, IInv, OnMappedPath, PathLoaded, CopiesAgree, CopiesOf, Holds

(* What add() puts in the stash is a copy seen on the path, and what the    *)
(* stash had is kept.                                                       *)
LEMMA AddToStashCopies ==
  ASSUME TypeOK, prev \in Leaves, NEW ids, AddToStash(ids)
  PROVE  /\ DOMAIN stash' = DOMAIN stash \cup ids
         /\ \A b \in DOMAIN stash' :
              \/ b \in DOMAIN stash /\ stash'[b] = stash[b]
              \/ \E location \in Locations :
                   Holds(location, b) /\ stash'[b] = View(location)[b]
BY PathInTree DEF AddToStash

LEMMA ReadPathInvariant == TypeOK /\ CallOK /\ IInv /\ ReadPath => IInv'
<1> SUFFICES ASSUME TypeOK, CallOK, IInv, ReadPath
             PROVE  IInv'
  OBVIOUS
<1>1. prev \in Leaves /\ \A location : View(location)' = View(location)
  BY FetchView DEF ReadPath, CallOK, InAccess
<1>2. /\ DOMAIN stash' = DOMAIN stash \cup OnPath(prev)
      /\ \A b \in DOMAIN stash' :
           \/ b \in DOMAIN stash /\ stash'[b] = stash[b]
           \/ \E location \in Locations :
                Holds(location, b) /\ stash'[b] = View(location)[b]
  BY <1>1, AddToStashCopies DEF ReadPath
<1>3. \A b : PositionOf(b)' = PositionOf(b)
  BY DEF ReadPath, PositionOf, InAccess, Current, call
<1>4. OnMappedPath'
  BY <1>1, <1>3 DEF IInv, OnMappedPath, Holds, ReadPath
<1>5. PathLoaded'
  BY <1>1, <1>2 DEF PathLoaded, OnPath, Holds, ReadPath, call
<1>6. CopiesAgree'
  <2> SUFFICES ASSUME NEW b \in Blocks \ damaged,
                      NEW d \in CopiesOf(b)', NEW e \in CopiesOf(b)'
               PROVE  Padded(d) = Padded(e)
    BY DEF CopiesAgree, ReadPath
  <2>1. CopiesOf(b)' \subseteq CopiesOf(b)
    BY <1>1, <1>2 DEF CopiesOf, Holds
  <2>2. ~BeingReplaced(b)
    BY DEF BeingReplaced, ReadPath
  <2> QED
    BY <2>1, <2>2 DEF IInv, CopiesAgree
<1> QED
  BY <1>4, <1>5, <1>6 DEF IInv

LEMMA UpdateInvariant == TypeOK /\ CallOK /\ IInv /\ Update => IInv'
<1> SUFFICES ASSUME TypeOK, CallOK, IInv, Update
             PROVE  IInv'
  OBVIOUS
<1>1. \A location : View(location)' = View(location)
  BY DEF Update, View, tree
<1>2. Current' = Current /\ \A b : PositionOf(b)' = PositionOf(b)
  BY DEF Update, PositionOf, InAccess, Current
<1>3. DOMAIN stash \subseteq DOMAIN stash'
      /\ \A b \in DOMAIN stash' \ {Current.block} :
           b \in DOMAIN stash /\ stash'[b] = stash[b]
  BY DEF Update
<1>4. OnMappedPath'
  BY <1>1, <1>2 DEF IInv, OnMappedPath, Holds, Update
<1>5. PathLoaded'
  BY <1>1, <1>3 DEF IInv, PathLoaded, OnPath, Holds, Update
<1>6. CopiesAgree'
  <2> SUFFICES ASSUME NEW b \in Blocks \ damaged, b # Current.block,
                      NEW d \in CopiesOf(b)', NEW e \in CopiesOf(b)'
               PROVE  Padded(d) = Padded(e)
    BY <1>2 DEF CopiesAgree, BeingReplaced, Update
  <2>1. CopiesOf(b)' \subseteq CopiesOf(b)
    BY <1>1, <1>3 DEF CopiesOf, Holds
  <2>2. ~BeingReplaced(b)
    BY DEF BeingReplaced
  <2> QED
    BY <2>1, <2>2 DEF IInv, CopiesAgree
<1> QED
  BY <1>4, <1>5, <1>6 DEF IInv

(* The heart of the matter: the write of a path puts blocks only into        *)
(* buckets on their own paths, and replaces every old copy of the block      *)
(* that was accessed. What becomes of damaged blocks is of no account.       *)
LEMMA EvictedInvariant ==
  ASSUME TypeOK, CallOK, IInv, phase = "write", ~InAccess',
         NEW evict \in [DOMAIN stash -> Levels \cup {Kept}], Evicted(evict),
         \A b \in DOMAIN stash \ damaged :
           evict[b] \in Levels => CanInclude(positionMap[b], prev, evict[b])
  PROVE  IInv'
<1>1. prev \in Leaves /\ InAccess /\ UNCHANGED <<positionMap, storage, damaged>>
  BY DEF Evicted, CallOK, InAccess
<1>2. /\ cache' = [location \in DOMAIN cache \cup Path(prev) |->
                     IF location \in Path(prev)
                     THEN WrittenBucket(evict, location) ELSE cache[location]]
      /\ stash' = [b \in {x \in DOMAIN stash : evict[x] = Kept} |-> stash[b]]
  BY DEF Evicted
<1>3. ASSUME NEW location \in Path(prev)
      PROVE  View(location)' = WrittenBucket(evict, location)
  BY <1>2, <1>3 DEF View
<1>4. ASSUME NEW location, location \notin Path(prev)
      PROVE  View(location)' = View(location)
  BY <1>1, <1>2, <1>4 DEF View
<1>5. ASSUME NEW location \in Path(prev), NEW b \in Blocks \ damaged, Holds(location, b)'
      PROVE  /\ b \in DOMAIN stash /\ View(location)'[b] = stash[b]
             /\ location \in Path(positionMap[b])
  <2>0. b \in DOMAIN WrittenBucket(evict, location)
    BY <1>3, <1>5 DEF Holds
  <2>1. b \in DOMAIN stash /\ View(location)'[b] = stash[b]
    BY <1>3, <2>0 DEF WrittenBucket
  <2>2. PICK level \in Levels : evict[b] = level /\ BucketFor(level, prev) = location
    BY <2>0 DEF WrittenBucket
  <2>3. CanInclude(positionMap[b], prev, level)
    BY <2>1, <2>2
  <2> QED
    BY <2>1, <2>2, <2>3 DEF CanInclude, Path
<1>6. OnMappedPath'
  <2> SUFFICES ASSUME NEW location \in Locations, NEW b \in Blocks \ damaged,
                      Holds(location, b)'
               PROVE  location \in Path(positionMap[b])
    BY <1>1 DEF OnMappedPath, PositionOf
  <2>1. CASE location \in Path(prev)
    BY <1>5, <2>1
  <2>2. CASE location \notin Path(prev)
    <3>1. Holds(location, b)
      BY <1>4, <2>2 DEF Holds
    <3>2. location \in Path(PositionOf(b))
      BY <3>1 DEF IInv, OnMappedPath
    <3> QED
      BY <2>2, <3>2 DEF PositionOf
  <2> QED
    BY <2>1, <2>2
<1>7. PathLoaded'
  BY <1>1 DEF PathLoaded, InAccess
<1>8. CopiesAgree'
  <2> SUFFICES ASSUME NEW b \in Blocks \ damaged,
                      NEW d \in CopiesOf(b)', NEW e \in CopiesOf(b)'
               PROVE  Padded(d) = Padded(e)
    BY <1>1 DEF CopiesAgree
  <2>1. ASSUME NEW c \in CopiesOf(b)'
        PROVE  \/ b \in DOMAIN stash /\ c = stash[b]
               \/ b # Current.block /\ c \in CopiesOf(b)
    <3>1. CASE b \in DOMAIN stash' /\ c = stash'[b]
      BY <1>2, <3>1
    <3>2. ASSUME NEW location \in Locations, Holds(location, b)', c = View(location)'[b]
          PROVE  \/ b \in DOMAIN stash /\ c = stash[b]
                 \/ b # Current.block /\ c \in CopiesOf(b)
      <4>1. CASE location \in Path(prev)
        BY <1>5, <3>2, <4>1
      <4>2. CASE location \notin Path(prev)
        <5>1. Holds(location, b) /\ c = View(location)[b]
          BY <1>4, <3>2, <4>2 DEF Holds
        <5>2. location \in Path(PositionOf(b))
          BY <5>1 DEF IInv, OnMappedPath
        <5>3. b # Current.block
          BY <1>1, <4>2, <5>2 DEF PositionOf
        <5> QED
          BY <5>1, <5>3 DEF CopiesOf
      <4> QED
        BY <4>1, <4>2
    <3> QED
      BY <2>1, <3>1, <3>2 DEF CopiesOf
  <2>2. CASE b = Current.block
    BY <2>1, <2>2
  <2>3. CASE b # Current.block
    <3>1. d \in CopiesOf(b) /\ e \in CopiesOf(b)
      BY <2>1 DEF CopiesOf
    <3> QED
      BY <2>3, <3>1 DEF IInv, CopiesAgree, BeingReplaced
  <2> QED
    BY <2>2, <2>3
<1> QED
  BY <1>6, <1>7, <1>8 DEF IInv

LEMMA WritePathInvariant == TypeOK /\ CallOK /\ IInv /\ WritePath => IInv'
<1> SUFFICES ASSUME TypeOK, CallOK, IInv, WritePath
             PROVE  IInv'
  OBVIOUS
<1>1. PICK evict \in [DOMAIN stash -> Levels \cup {Kept}] : Greedy(evict, prev) /\ Evicted(evict)
  BY DEF WritePath, Evicted
<1>2. \A b \in DOMAIN stash : evict[b] \in Levels => CanInclude(positionMap[b], prev, evict[b])
  BY <1>1 DEF Greedy
<1>3. phase = "write" /\ ~InAccess'
  BY DEF WritePath, InAccess
<1> QED
  BY <1>1, <1>2, <1>3, EvictedInvariant

(* However synchronising ends, it changes no more of the tree than padding. *)
LEMMA SyncView ==
  ASSUME TypeOK, Sync \/ SyncRejected \/ StorageSetFails
  PROVE  \A location \in Locations :
           /\ DOMAIN View(location)' = DOMAIN View(location)
           /\ \A b \in DOMAIN View(location) :
                Padded(View(location)'[b]) = Padded(View(location)[b])
<1>1. ASSUME NEW location \in Locations
      PROVE  \/ View(location)' = View(location)
             \/ \E ids : View(location)' = PadIn(View(location), ids)
  <2>1. CASE Sync
    BY <2>1, NothingType DEF Sync, Upload, Pad, View
  <2>2. CASE SyncRejected
    BY <2>2 DEF SyncRejected, Pad, View
  <2>3. CASE StorageSetFails
    BY <2>3 DEF StorageSetFails, Upload, Pad, View
  <2> QED
    BY <2>1, <2>2, <2>3
<1> QED
  BY <1>1, PadType, ViewType

LEMMA SyncInvariant ==
  TypeOK /\ IInv /\ (Sync \/ SyncRejected \/ StorageSetFails) => IInv'
<1> SUFFICES ASSUME TypeOK, IInv, Sync \/ SyncRejected \/ StorageSetFails
             PROVE  IInv'
  OBVIOUS
<1>1. ~InAccess /\ ~InAccess' /\ UNCHANGED <<positionMap, stash, damaged>>
  BY DEF Sync, SyncRejected, StorageSetFails, Leave, InAccess
<1> QED
  BY <1>1, SyncView, QuietStep

LEMMA InvariantStep == TypeOK /\ CallOK /\ IInv /\ [Next]_vars => IInv'
<1> SUFFICES ASSUME TypeOK, CallOK, IInv, [Next]_vars
             PROVE  IInv'
  OBVIOUS
<1>1. ASSUME NEW batch, NEW firstPhase \in {"remap", "prefetch"},
             Begin(batch, firstPhase)
      PROVE  IInv'
  BY <1>1, QuietStep DEF Begin, Idle, InAccess, View, tree
<1>2. CASE \/ \E b \in Blocks : Get(b)
           \/ \E b \in Blocks, d \in Data : Put(b, d)
           \/ \E batch \in Calls : Multiple(batch)
  BY <1>1, <1>2 DEF Get, Put, Multiple
<1>3. CASE Prefetch
  <2>1. \A location : View(location)' = View(location)
    BY <1>3, FetchView DEF Prefetch
  <2> QED
    BY <1>3, <2>1, QuietStep DEF Prefetch, InAccess
<1>4. CASE Remap
  <2>1. /\ \A location : View(location)' = View(location)
        /\ UNCHANGED <<stash, damaged>> /\ Current' = Current
        /\ phase = "remap" /\ phase' = "read"
    BY <1>4 DEF Remap, View, tree, Current
  <2>2. \A b \in Blocks : PositionOf(b)' = PositionOf(b)
    BY <1>4, <2>1 DEF Remap, PositionOf, InAccess, TypeOK
  <2>3. OnMappedPath'
    BY <2>1, <2>2 DEF IInv, OnMappedPath, Holds
  <2>4. CopiesAgree'
    BY <2>1 DEF IInv, CopiesAgree, CopiesOf, Holds, BeingReplaced
  <2> QED
    BY <2>1, <2>3, <2>4 DEF IInv, PathLoaded
<1>5. CASE ReadPath
  BY <1>5, ReadPathInvariant
<1>6. CASE ReadPathOverflows
  <2>1. prev \in Leaves /\ \A location : View(location)' = View(location)
    BY <1>6, FetchView DEF ReadPathOverflows, CallOK, InAccess
  <2> QED
    BY <1>6, <2>1, AddToStashCopies, ThrowingStep
    DEF ReadPathOverflows, Leave, Orphan, InAccess
<1>7. CASE StorageGetFails
  <2>1. \A location : View(location)' = View(location)
    BY <1>7 DEF StorageGetFails, View, tree
  <2>2. CASE phase = "prefetch"
    BY <1>7, <2>1, <2>2, QuietStep DEF StorageGetFails, Leave, InAccess
  <2>3. CASE phase = "read"
    BY <1>7, <2>1, <2>3, ThrowingStep DEF StorageGetFails, Leave, Orphan, InAccess
  <2> QED
    BY <1>7, <2>2, <2>3 DEF StorageGetFails
<1>8. CASE Update
  BY <1>8, UpdateInvariant
<1>9. CASE UpdateOverflows
  <2>1. \A location : View(location)' = View(location)
    BY <1>9 DEF UpdateOverflows, View, tree
  <2>2. Current.block \notin OnPath(prev)
    BY <1>9 DEF UpdateOverflows, IInv, PathLoaded
  <2> QED
    BY <1>9, <2>1, <2>2, ThrowingStep DEF UpdateOverflows, Leave, InAccess
<1>10. CASE WritePath
  BY <1>10, WritePathInvariant
<1>11. CASE Sync \/ SyncRejected \/ StorageSetFails
  BY <1>11, SyncInvariant
<1>12. CASE UNCHANGED vars
  BY <1>12 DEF vars, IInv, OnMappedPath, PathLoaded, CopiesAgree, CopiesOf, Holds,
               View, PositionOf, BeingReplaced, InAccess, Current, OnPath
<1> QED
  BY <1>2, <1>3, <1>4, <1>5, <1>6, <1>7, <1>8, <1>9, <1>10, <1>11, <1>12
  DEF Next

(* Path ORAM's invariant, for every tree, capacity and sequence of calls and *)
(* exceptions: no undamaged block has a copy off its path, and all its       *)
(* copies agree.                                                             *)
THEOREM OramInvariant == Spec => [](OnMappedPath /\ CopiesAgree)
<1>1. Init => TypeOK /\ CallOK /\ IInv
  BY InitType, InitInvariant
<1>2. TypeOK /\ CallOK /\ IInv /\ [Next]_vars => (TypeOK /\ CallOK /\ IInv)'
  BY TypeStep, InvariantStep
<1>3. IInv => OnMappedPath /\ CopiesAgree
  BY DEF IInv
<1> QED
  BY <1>1, <1>2, <1>3, PTL DEF Spec

(* In particular all copies of an undamaged block agree, up to padding, also  *)
(* after calls that threw have left it in several places: no access that      *)
(* meets one of them instead of another can answer an old payload.           *)
THEOREM CopiesStayEqual == Spec => []CopiesAgree
BY OramInvariant, PTL

-----------------------------------------------------------------------------
(***************************************************************************)
(* PathORAM implements BlockStore, for every tree, payload set, capacity and *)
(* choice of faults that satisfies its assumptions: every step of the ORAM,   *)
(* seen through the refinement mapping of Promise, is a step of the array of  *)
(* blocks or leaves it as it is.                                             *)
(***************************************************************************)

(* A call synchronises once it has served all its requests. *)
Served == phase = "sync" => next \notin DOMAIN requests

SInv == TypeOK /\ CallOK /\ IInv /\ Served

LEMMA ServedStep == Served /\ CallOK /\ [Next]_vars => Served'
<1> SUFFICES ASSUME Served, CallOK, [Next]_vars PROVE Served'
  OBVIOUS
<1>1. CASE \/ \E b \in Blocks : Get(b)
           \/ \E b \in Blocks, d \in Data : Put(b, d)
           \/ \E batch \in Calls : Multiple(batch)
  BY <1>1 DEF Get, Put, Multiple, Begin, Served
<1>2. CASE Prefetch \/ WritePath
  BY <1>2 DEF Prefetch, WritePath, Served, call
<1>3. CASE Remap \/ ReadPath \/ Update
  BY <1>3 DEF Remap, ReadPath, Update, Served
<1>4. CASE \/ ReadPathOverflows \/ StorageGetFails \/ UpdateOverflows
           \/ Sync \/ SyncRejected \/ StorageSetFails
  BY <1>4 DEF ReadPathOverflows, StorageGetFails, UpdateOverflows, Sync, SyncRejected,
              StorageSetFails, Leave, Served
<1>5. CASE UNCHANGED vars
  BY <1>5 DEF vars, Served
<1> QED
  BY <1>1, <1>2, <1>3, <1>4, <1>5 DEF Next

LEMMA InvariantHolds ==
  /\ Init => SInv
  /\ SInv /\ [Next]_vars => SInv'
<1>1. Init => SInv
  BY InitType, InitInvariant DEF SInv, Served, Init
<1>2. SInv /\ [Next]_vars => SInv'
  BY TypeStep, InvariantStep, ServedStep DEF SInv
<1> QED
  BY <1>1, <1>2

-----------------------------------------------------------------------------
(* What a block holds is what its copies hold. *)

(* While no path is about to be written with a new payload of the block, its   *)
(* value is any of its copies, up to padding; without copies it is empty.     *)
ValuesAreCopies ==
  \A b \in Blocks \ damaged : ~BeingReplaced(b) =>
    /\ CopiesOf(b) = {} => ValueOf(b) = Empty
    /\ \A c \in CopiesOf(b) : Padded(ValueOf(b)) = Padded(c)

LEMMA PositionType ==
  ASSUME TypeOK, CallOK, NEW b \in Blocks
  PROVE  Path(PositionOf(b)) \subseteq Locations
BY PathInTree DEF TypeOK, CallOK, PositionOf

LEMMA Values == SInv => ValuesAreCopies
<1> SUFFICES ASSUME SInv, NEW b \in Blocks \ damaged, ~BeingReplaced(b)
             PROVE  /\ CopiesOf(b) = {} => ValueOf(b) = Empty
                    /\ \A c \in CopiesOf(b) : Padded(ValueOf(b)) = Padded(c)
  BY DEF ValuesAreCopies
<1>1. HoldersOf(b) = {location \in Locations : Holds(location, b)}
  BY PositionType DEF SInv, IInv, OnMappedPath, HoldersOf
<1>2. CASE b \in DOMAIN stash
  <2>1. ValueOf(b) = stash[b] /\ stash[b] \in CopiesOf(b)
    BY <1>2 DEF ValueOf, CopiesOf
  <2> QED
    BY <2>1 DEF SInv, IInv, CopiesAgree
<1>3. CASE b \notin DOMAIN stash /\ HoldersOf(b) = {}
  <2>1. ValueOf(b) = Empty
    BY <1>3 DEF ValueOf
  <2>2. CopiesOf(b) = {}
    BY <1>1, <1>3 DEF CopiesOf
  <2> QED
    BY <2>1, <2>2
<1>4. CASE b \notin DOMAIN stash /\ HoldersOf(b) # {}
  <2>1. OneOf(HoldersOf(b)) \in HoldersOf(b)
    BY <1>4 DEF OneOf
  <2>2. ValueOf(b) = View(OneOf(HoldersOf(b)))[b]
    BY <1>4 DEF ValueOf
  <2>3. View(OneOf(HoldersOf(b)))[b] \in CopiesOf(b)
    BY <1>1, <2>1 DEF CopiesOf
  <2> QED
    BY <2>2, <2>3 DEF SInv, IInv, CopiesAgree
<1> QED
  BY <1>2, <1>3, <1>4

LEMMA ValuesNext == SInv' => ValuesAreCopies'
BY Values, PTL

(* A step that keeps the copies of a block, up to padding, keeps its value. *)
LEMMA KeptCopies ==
  ASSUME SInv, SInv', NEW b \in Blocks, b \notin damaged, b \notin damaged',
         ~BeingReplaced(b), ~BeingReplaced(b)',
         \A c \in CopiesOf(b)' : \E d \in CopiesOf(b) : Padded(c) = Padded(d),
         CopiesOf(b)' = {} => CopiesOf(b) = {}
  PROVE  Padded(ValueOf(b))' = Padded(ValueOf(b))
<1>1. /\ CopiesOf(b) = {} => ValueOf(b) = Empty
      /\ \A c \in CopiesOf(b) : Padded(ValueOf(b)) = Padded(c)
  BY Values DEF ValuesAreCopies
<1>2. /\ CopiesOf(b)' = {} => ValueOf(b)' = Empty
      /\ \A c \in CopiesOf(b)' : Padded(ValueOf(b)') = Padded(c)
  BY ValuesNext DEF ValuesAreCopies
<1>3. CASE CopiesOf(b)' = {}
  BY <1>1, <1>2, <1>3
<1>4. CASE CopiesOf(b)' # {}
  BY <1>1, <1>2, <1>4
<1> QED
  BY <1>3, <1>4

-----------------------------------------------------------------------------
(* The steps *)

(* What a step must show of the contents: those of the blocks in kept stay.    *)
Keeps(kept) == \A b \in Blocks : b \in kept => Padded(ValueOf(b))' = Padded(ValueOf(b))

(* A step outside of the update and write of an access keeps all values if it  *)
(* keeps what the class sees, up to padding, and adds to the stash only what   *)
(* it sees there.                                                            *)
LEMMA KeptView ==
  ASSUME SInv, SInv', phase # "write", phase' # "write", damaged \subseteq damaged',
         \A location \in Locations :
           /\ DOMAIN View(location)' = DOMAIN View(location)
           /\ \A b \in DOMAIN View(location) :
                Padded(View(location)'[b]) = Padded(View(location)[b]),
         DOMAIN stash \subseteq DOMAIN stash',
         \A b \in DOMAIN stash' :
           \/ b \in DOMAIN stash /\ stash'[b] = stash[b]
           \/ \E location \in Locations :
                Holds(location, b) /\ stash'[b] = View(location)[b]
  PROVE  Keeps(Blocks \ damaged')
<1> SUFFICES ASSUME NEW b \in Blocks, b \notin damaged'
             PROVE  Padded(ValueOf(b))' = Padded(ValueOf(b))
  BY DEF Keeps
<1>1. b \notin damaged /\ ~BeingReplaced(b) /\ ~BeingReplaced(b)'
  BY DEF BeingReplaced
<1>2. \A c \in CopiesOf(b)' : \E d \in CopiesOf(b) : Padded(c) = Padded(d)
  BY DEF CopiesOf, Holds
<1>3. CopiesOf(b)' = {} => CopiesOf(b) = {}
  BY DEF CopiesOf, Holds
<1> QED
  BY <1>1, <1>2, <1>3, KeptCopies

(* An update serves its request: it stores the payload of a PUT, and answers a *)
(* GET from the stash, where all blocks of the path are.                      *)
LEMMA UpdateValues ==
  ASSUME SInv, SInv', Update
  PROVE  /\ Keeps(Blocks \ (damaged \cup {Current.block}))
         /\ Current.write =>
              response' = Current.data /\ Padded(ValueOf(Current.block))' = Padded(Current.data)
         /\ ~Current.write /\ Current.block \notin damaged =>
              /\ Padded(response') = Padded(ValueOf(Current.block))
              /\ Padded(ValueOf(Current.block))' = Padded(ValueOf(Current.block))
<1>1. /\ \A location : View(location)' = View(location)
      /\ Current' = Current
      /\ \A b : PositionOf(b)' = PositionOf(b)
      /\ PositionOf(Current.block) = prev
  BY DEF Update, View, tree, PositionOf, InAccess, Current
<1>2. Keeps(Blocks \ (damaged \cup {Current.block}))
  <2> SUFFICES ASSUME NEW b \in Blocks, b \notin damaged, b # Current.block
               PROVE  Padded(ValueOf(b))' = Padded(ValueOf(b))
    BY DEF Keeps
  <2>1. b \notin damaged' /\ ~BeingReplaced(b) /\ ~BeingReplaced(b)'
    BY <1>1 DEF BeingReplaced, Update
  <2>2. /\ DOMAIN stash \ {Current.block} = DOMAIN stash' \ {Current.block}
        /\ \A x \in DOMAIN stash \ {Current.block} : stash'[x] = stash[x]
    BY DEF Update
  <2>3. CopiesOf(b)' = CopiesOf(b)
    BY <1>1, <2>2 DEF CopiesOf, Holds
  <2> QED
    BY <2>1, <2>3, KeptCopies
<1>3. ASSUME Current.write
      PROVE  response' = Current.data /\ ValueOf(Current.block)' = Current.data
  <2>1. response' = Current.data /\ Current.block \in DOMAIN stash'
        /\ stash'[Current.block] = Current.data
    BY <1>3 DEF Update
  <2> QED
    BY <1>1, <2>1 DEF ValueOf
<1>4. ASSUME ~Current.write
      PROVE  response' = ValueOf(Current.block) /\ ValueOf(Current.block)' = ValueOf(Current.block)
  <2>1. stash' = stash
    BY <1>4 DEF Update
  <2>3. CASE Current.block \in DOMAIN stash
    BY <1>1, <1>4, <2>1, <2>3 DEF Update, ValueOf
  <2>4. CASE Current.block \notin DOMAIN stash
    <3>1. Current.block \in Blocks /\ Current.block \notin OnPath(prev)
      BY <2>4, CurrentType DEF SInv, IInv, PathLoaded, CallOK, InAccess, Update
    <3>2. ValueOf(Current.block) = Empty
      BY <1>1, <2>4, <3>1 DEF ValueOf, HoldersOf, OnPath
    <3>3. \A location \in Path(prev) : ~Holds(location, Current.block)'
      BY <1>1, <3>1 DEF Holds, OnPath
    <3>4. /\ Current.block' \notin DOMAIN stash'
          /\ Path(PositionOf(Current.block)') = Path(prev)
      BY <1>1, <2>1, <2>4
    <3>5. ValueOf(Current.block)' = Empty
      BY <3>3, <3>4 DEF ValueOf, HoldersOf
    <3> QED
      BY <1>4, <2>4, <3>2, <3>5 DEF Update
  <2> QED
    BY <2>3, <2>4
<1> QED
  BY <1>1, <1>2, <1>3, <1>4

(* The write of a path moves blocks between stash and tree and loses none: a   *)
(* bucket of the path is only overwritten once its blocks are in the stash.    *)
LEMMA EvictedValues ==
  ASSUME SInv, SInv', phase = "write", ~InAccess',
         NEW evict \in [DOMAIN stash -> Levels \cup {Kept}], Evicted(evict)
  PROVE  Keeps(Blocks \ damaged)
<1> SUFFICES ASSUME NEW b \in Blocks, b \notin damaged
             PROVE  Padded(ValueOf(b))' = Padded(ValueOf(b))
  BY DEF Keeps
<1>1. /\ cache' = [location \in DOMAIN cache \cup Path(prev) |->
                     IF location \in Path(prev)
                     THEN WrittenBucket(evict, location) ELSE cache[location]]
      /\ stash' = [x \in {y \in DOMAIN stash : evict[y] = Kept} |-> stash[x]]
  BY DEF Evicted
<1>2. /\ prev \in Leaves /\ Path(prev) \subseteq Locations
      /\ UNCHANGED <<positionMap, storage, damaged>> /\ phase' # "write"
      /\ InAccess
  BY PathInTree DEF Evicted, SInv, CallOK, InAccess
<1>3. /\ \A location \in Path(prev) : View(location)' = WrittenBucket(evict, location)
      /\ \A location : location \notin Path(prev) => View(location)' = View(location)
  BY <1>1, <1>2 DEF View
(* What copies there are afterwards *)
<1>4. ASSUME NEW c \in CopiesOf(b)'
      PROVE  \/ b \in DOMAIN stash /\ c = stash[b]
             \/ b # Current.block /\ c \in CopiesOf(b)
  <2>1. CASE b \in DOMAIN stash' /\ c = stash'[b]
    BY <1>1, <2>1
  <2>2. ASSUME NEW location \in Locations, Holds(location, b)', c = View(location)'[b]
        PROVE  \/ b \in DOMAIN stash /\ c = stash[b]
               \/ b # Current.block /\ c \in CopiesOf(b)
    <3>1. CASE location \in Path(prev)
      BY <1>3, <2>2, <3>1 DEF Holds, WrittenBucket
    <3>2. CASE location \notin Path(prev)
      <4>1. Holds(location, b) /\ c = View(location)[b]
        BY <1>3, <2>2, <3>2 DEF Holds
      <4>2. b # Current.block
        BY <1>2, <3>2, <4>1 DEF SInv, IInv, OnMappedPath, PositionOf
      <4> QED
        BY <4>1, <4>2 DEF CopiesOf
    <3> QED
      BY <3>1, <3>2
  <2> QED
    BY <2>1, <2>2 DEF CopiesOf
(* A block of the stash stays there or gets into a bucket of the path. *)
<1>5. ASSUME b \in DOMAIN stash
      PROVE  CopiesOf(b)' # {}
  <2>1. CASE evict[b] = Kept
    BY <1>1, <1>5, <2>1 DEF CopiesOf
  <2>2. CASE evict[b] # Kept
    <3>1. evict[b] \in Levels
      BY <1>1, <1>5, <2>2
    <3>2. BucketFor(evict[b], prev) \in Path(prev)
      BY <3>1 DEF Path
    <3>3. b \in DOMAIN WrittenBucket(evict, BucketFor(evict[b], prev))
      BY <1>5, <3>1 DEF WrittenBucket
    <3> QED
      BY <1>2, <1>3, <3>2, <3>3 DEF CopiesOf, Holds
  <2> QED
    BY <2>1, <2>2
(* A block that is in the tree only is on no bucket of the path. *)
<1>6. ASSUME b \notin DOMAIN stash, CopiesOf(b) # {}
      PROVE  CopiesOf(b)' # {}
  <2>1. PICK location \in Locations : Holds(location, b)
    BY <1>6 DEF CopiesOf
  <2>2. location \notin Path(prev)
    BY <1>2, <1>6, <2>1 DEF SInv, IInv, PathLoaded, OnPath
  <2> QED
    BY <1>3, <2>1, <2>2 DEF CopiesOf, Holds
<1>7. CASE b # Current.block
  <2>1. ~BeingReplaced(b) /\ ~BeingReplaced(b)'
    BY <1>2, <1>7 DEF BeingReplaced
  <2>2. \A c \in CopiesOf(b)' : c \in CopiesOf(b)
    BY <1>4 DEF CopiesOf
  <2> QED
    BY <1>2, <1>5, <1>6, <2>1, <2>2, KeptCopies
<1>8. CASE b = Current.block
  <2>1. /\ CopiesOf(b)' = {} => ValueOf(b)' = Empty
        /\ \A c \in CopiesOf(b)' : Padded(ValueOf(b)') = Padded(c)
    BY <1>2, ValuesNext DEF ValuesAreCopies, BeingReplaced
  <2>2. CASE b \in DOMAIN stash
    <3>1. ValueOf(b) = stash[b]
      BY <2>2 DEF ValueOf
    <3> QED
      BY <1>4, <1>5, <1>8, <2>1, <2>2, <3>1
  <2>3. CASE b \notin DOMAIN stash
    <3>1. ValueOf(b) = Empty
      BY <1>2, <1>8, <2>3 DEF SInv, IInv, PathLoaded, OnPath, ValueOf, HoldersOf, PositionOf
    <3>2. CopiesOf(b)' = {}
      BY <1>4, <1>8, <2>3
    <3> QED
      BY <2>1, <3>1, <3>2
  <2> QED
    BY <2>2, <2>3
<1> QED
  BY <1>7, <1>8

LEMMA WritePathValues ==
  ASSUME SInv, SInv', WritePath
  PROVE  Keeps(Blocks \ damaged)
<1>1. PICK evict \in [DOMAIN stash -> Levels \cup {Kept}] : Evicted(evict)
  BY DEF WritePath, Evicted
<1>2. phase = "write" /\ ~InAccess'
  BY DEF WritePath, InAccess
<1> QED
  BY <1>1, <1>2, EvictedValues

(* Synchronising changes no more of the tree than padding, however it ends. *)
LEMMA SyncValues ==
  ASSUME SInv, SInv', Sync \/ SyncRejected \/ StorageSetFails
  PROVE  Keeps(Blocks \ damaged)
<1>1. phase # "write" /\ phase' # "write" /\ UNCHANGED <<stash, damaged>>
  BY DEF Sync, SyncRejected, StorageSetFails, Leave
<1>2. ASSUME NEW location \in Locations
      PROVE  /\ DOMAIN View(location)' = DOMAIN View(location)
             /\ \A b \in DOMAIN View(location) :
                  Padded(View(location)'[b]) = Padded(View(location)[b])
  BY SyncView DEF SInv
<1> QED
  BY <1>1, <1>2, KeptView

(* An access that throws before it has written anything leaves all values but   *)
(* that of its block.                                                         *)
LEMMA InterruptedValues ==
  ASSUME SInv, SInv', ReadPathOverflows \/ StorageGetFails \/ UpdateOverflows
  PROVE  Keeps(Blocks \ damaged')
<1>1. \A location : View(location)' = View(location)
  BY FetchView DEF ReadPathOverflows, StorageGetFails, UpdateOverflows, View, tree
<1>2. /\ phase # "write" /\ phase' # "write" /\ damaged \subseteq damaged'
      /\ phase = "prefetch" \/ InAccess
  BY DEF ReadPathOverflows, StorageGetFails, UpdateOverflows, Leave, Orphan, InAccess
<1>3. /\ DOMAIN stash \subseteq DOMAIN stash'
      /\ \A b \in DOMAIN stash' :
           \/ b \in DOMAIN stash /\ stash'[b] = stash[b]
           \/ \E location \in Locations :
                Holds(location, b) /\ stash'[b] = View(location)[b]
  <2>1. CASE ReadPathOverflows
    BY <2>1, AddToStashCopies DEF ReadPathOverflows, SInv, CallOK, InAccess
  <2>2. CASE StorageGetFails \/ UpdateOverflows
    BY <2>2 DEF StorageGetFails, UpdateOverflows
  <2> QED
    BY <2>1, <2>2
<1> QED
  BY <1>1, <1>2, <1>3, KeptView

-----------------------------------------------------------------------------
(* The refinement *)

LEMMA InitRefines == SInv /\ Init => Promise!Init
<1> SUFFICES ASSUME SInv, Init PROVE Promise!Init
  OBVIOUS
<1>1. \A b \in Blocks : ValueOf(b) = Empty
  <2>1. DOMAIN stash = {} /\ \A location \in Locations : DOMAIN View(location) = {}
    BY NothingType DEF Init, View
  <2>2. \A b \in Blocks : b \notin damaged /\ ~BeingReplaced(b) /\ CopiesOf(b) = {}
    BY <2>1 DEF Init, BeingReplaced, CopiesOf, Holds
  <2> QED
    BY <2>2, Values DEF ValuesAreCopies
<1> QED
  BY <1>1 DEF Init, Promise!Init, Promise!NoRequests, Nothing, Idle

(* Every step of the ORAM is one of: a call begins, a request is served, a      *)
(* call ends or throws, or nothing that the caller could see.                 *)
LEMMA StepRefines == SInv /\ SInv' /\ [Next]_vars => [Promise!Next]_Promise!vars
<1> SUFFICES ASSUME SInv, SInv', [Next]_vars
             PROVE  [Promise!Next]_Promise!vars
  OBVIOUS
<1>1. ASSUME NEW batch, NEW firstPhase \in {"remap", "prefetch"},
             Begin(batch, firstPhase)
      PROVE  Promise!Begin
  <2>1. \A b \in Blocks : HoldersOf(b)' = HoldersOf(b)
    BY <1>1 DEF Begin, HoldersOf, PositionOf, InAccess, Idle, Holds, View, tree
  <2>2. \A b \in Blocks : ValueOf(b)' = ValueOf(b)
    BY <1>1, <2>1 DEF Begin, ValueOf, View, tree
  <2>3. requests' \in Calls
    BY DEF SInv, TypeOK
  <2> QED
    BY <1>1, <2>2, <2>3
    DEF Begin, Promise!Begin, Promise!Calls, Promise!Request, Calls, Request, Idle
<1>2. CASE \/ \E b \in Blocks : Get(b)
           \/ \E b \in Blocks, d \in Data : Put(b, d)
           \/ \E batch \in Calls : Multiple(batch)
  BY <1>1, <1>2 DEF Get, Put, Multiple, Promise!Next
(* Steps inside a call that serve nothing, unless the path is written *)
<1>3. CASE Prefetch \/ Remap \/ ReadPath
  <2>1. \A location : View(location)' = View(location)
    BY <1>3, FetchView DEF Prefetch, Remap, ReadPath, View, tree
  <2>2. /\ phase # "write" /\ phase' # "write" /\ UNCHANGED damaged
        /\ ~Idle /\ ~Idle' /\ UNCHANGED <<requests, next, response>>
    BY <1>3 DEF Prefetch, Remap, ReadPath, call, Idle
  <2>3. /\ DOMAIN stash \subseteq DOMAIN stash'
        /\ \A b \in DOMAIN stash' :
             \/ b \in DOMAIN stash /\ stash'[b] = stash[b]
             \/ \E location \in Locations :
                  Holds(location, b) /\ stash'[b] = View(location)[b]
    BY <1>3, AddToStashCopies DEF Prefetch, Remap, ReadPath, SInv, CallOK, InAccess
  <2>4. Keeps(Blocks \ damaged)
    BY <2>1, <2>2, <2>3, KeptView
  <2> QED
    BY <2>2, <2>4 DEF Keeps, Promise!Next, Promise!Decay, Promise!OthersKeep
<1>4. CASE WritePath
  <2>1. Keeps(Blocks \ damaged)
    BY <1>4, WritePathValues
  <2>2. /\ phase = "write" /\ phase' # "write" /\ next' = next + 1 /\ ~Idle /\ ~Idle'
        /\ UNCHANGED <<requests, response, damaged>>
    BY <1>4 DEF WritePath, Idle
  <2> QED
    BY <2>1, <2>2 DEF Keeps, Promise!Next, Promise!Decay, Promise!OthersKeep
<1>5. CASE Update
  <2>1. /\ phase = "update" /\ phase' = "write" /\ ~Idle /\ ~Idle'
        /\ UNCHANGED <<requests, next, damaged>>
        /\ next \in DOMAIN requests /\ Current.block \in Blocks
        /\ Current' = Current
    BY <1>5, CurrentType DEF Update, SInv, CallOK, InAccess, Idle, Current
  <2> QED
    BY <1>5, <2>1, UpdateValues DEF Keeps, Promise!Next, Promise!Serve, Promise!OthersKeep, Current
(* The ways a call ends *)
<1>6. ASSUME NEW outcome \in {"returned", "threw"}, Leave(outcome), ~Idle
      PROVE  Promise!End(outcome)
  BY <1>6 DEF Leave, Promise!End, Promise!NoRequests, Nothing, Idle
<1>7. CASE Sync
  <2>1. Keeps(Blocks \ damaged)
    BY <1>7, SyncValues
  <2>2. Leave("returned") /\ phase = "sync" /\ UNCHANGED damaged /\ next \notin DOMAIN requests
    BY <1>7 DEF Sync, SInv, Served
  <2> QED
    BY <1>6, <2>1, <2>2 DEF Idle, Keeps, Promise!Next, Promise!Return, Promise!OthersKeep
<1>8. ASSUME Leave("threw"), ~Idle, phase # "write", Keeps(Blocks \ damaged'),
             \/ UNCHANGED damaged
             \/ InAccess /\ damaged' = damaged \cup {Current.block}
      PROVE  Promise!Throw
  <2>1. \E lost \in TheInterrupted(requests, next) : damaged' = damaged \cup lost
    BY <1>8 DEF TheInterrupted, Current, SInv, CallOK
  <2> QED
    BY <1>6, <1>8, <2>1 DEF Keeps, Promise!Throw, Promise!OthersKeep
<1>9. CASE SyncRejected \/ StorageSetFails
  <2>1. Keeps(Blocks \ damaged)
    BY <1>9, SyncValues
  <2> QED
    BY <1>8, <1>9, <2>1 DEF SyncRejected, StorageSetFails, Idle, Promise!Next
<1>10. CASE ReadPathOverflows \/ StorageGetFails \/ UpdateOverflows
  <2>1. Keeps(Blocks \ damaged')
    BY <1>10, InterruptedValues
  <2>2. /\ Leave("threw") /\ ~Idle /\ phase # "write"
        /\ \/ UNCHANGED damaged
           \/ InAccess /\ damaged' = damaged \cup {Current.block}
    BY <1>10 DEF ReadPathOverflows, StorageGetFails, UpdateOverflows, Orphan, Idle, InAccess
  <2> QED
    BY <1>8, <2>1, <2>2 DEF Promise!Next
<1>11. CASE UNCHANGED vars
  <2>1. \A b \in Blocks : HoldersOf(b)' = HoldersOf(b)
    BY <1>11 DEF vars, HoldersOf, PositionOf, InAccess, Current, Holds, View
  <2>2. \A b \in Blocks : ValueOf(b)' = ValueOf(b)
    BY <1>11, <2>1 DEF vars, ValueOf, View
  <2> QED
    BY <1>11, <2>2 DEF vars, Promise!vars, Idle
<1> QED
  BY <1>2, <1>3, <1>4, <1>5, <1>7, <1>9, <1>10, <1>11 DEF Next

(* For every tree, payload set, capacity and choice of faults, the ORAM is an   *)
(* array of blocks: whatever was remapped, evicted, cached or half-written in    *)
(* between, a GET answers the last PUT, and an exception costs no more than the  *)
(* block whose access it interrupts.                                          *)
THEOREM OramKeepsPromise == Spec => KeepsPromise
<1>1. Init => SInv /\ Promise!Init
  BY InvariantHolds, InitRefines
<1>2. SInv /\ [Next]_vars => SInv' /\ [Promise!Next]_Promise!vars
  BY InvariantHolds, StepRefines
<1> QED
  BY <1>1, <1>2, PTL DEF Spec, KeepsPromise, Promise!Spec

-----------------------------------------------------------------------------
(***************************************************************************)
(* The bounds of PathORAM: what stash, buckets and payloads may grow to, and  *)
(* what multiple() has in its cache.                                         *)
(***************************************************************************)

(* Sets of blocks are finite, and so comparable by their cardinalities. *)
LEMMA BlockSets ==
  ASSUME NEW S \in SUBSET Blocks
  PROVE  /\ IsFiniteSet(S) /\ Cardinality(S) \in Nat
         /\ \A T \in SUBSET S : Cardinality(T) <= Cardinality(S)
         /\ \A b : b \notin S => Cardinality(S \cup {b}) = Cardinality(S) + 1
<1>1. IsFiniteSet(S)
  BY BlocksAssumption, FS_Subset
<1> QED
  BY <1>1, FS_CardinalityType, FS_Subset, FS_AddElement

LEMMA StashBlocks == TypeOK => DOMAIN stash \subseteq Blocks
BY BucketFunctions DEF TypeOK

-----------------------------------------------------------------------------
(* Capacities *)

LEMMA InitCapacity == Init => WithinCapacity
<1> SUFFICES ASSUME Init PROVE WithinCapacity
  OBVIOUS
<1>1. DOMAIN stash = {} /\ \A location \in Locations : DOMAIN View(location) = {}
  BY NothingType DEF Init, View
<1> QED
  BY <1>1, FS_EmptySet, SizeAssumption DEF WithinCapacity

(* What is fetched or padded keeps the size of the buckets. *)
LEMMA SameBuckets ==
  ASSUME WithinCapacity, Cardinality(DOMAIN stash') <= StashCapacity,
         \A location \in Locations : DOMAIN View(location)' = DOMAIN View(location)
  PROVE  WithinCapacity'
BY DEF WithinCapacity

LEMMA WritePathCapacity == TypeOK /\ CallOK /\ WithinCapacity /\ WritePath => WithinCapacity'
<1> SUFFICES ASSUME TypeOK, CallOK, WithinCapacity, WritePath
             PROVE  WithinCapacity'
  OBVIOUS
<1>1. PICK evict \in [DOMAIN stash -> Levels \cup {Kept}] :
        /\ Greedy(evict, prev)
        /\ cache' = [location \in DOMAIN cache \cup Path(prev) |->
                       IF location \in Path(prev)
                       THEN WrittenBucket(evict, location) ELSE cache[location]]
        /\ stash' = [b \in {x \in DOMAIN stash : evict[x] = Kept} |-> stash[b]]
  BY DEF WritePath
<1>2. Cardinality(DOMAIN stash') <= StashCapacity
  <2>1. DOMAIN stash' \in SUBSET DOMAIN stash
    BY <1>1
  <2> QED
    BY <2>1, StashBlocks, BlockSets, SizeAssumption DEF WithinCapacity
<1>3. ASSUME NEW location \in Locations
      PROVE  Cardinality(DOMAIN View(location)') <= Z
  <2>1. CASE location \notin Path(prev)
    <3>1. View(location)' = View(location)
      BY <1>1, <2>1 DEF View, WritePath
    <3> QED
      BY <3>1 DEF WithinCapacity
  <2>2. CASE location \in Path(prev)
    <3>1. PICK level \in Levels : BucketFor(level, prev) = location
      BY <2>2 DEF Path
    <3> DEFINE chosen == {b \in DOMAIN evict : evict[b] = level}
    <3>2. View(location)' = WrittenBucket(evict, location)
      BY <1>1, <2>2 DEF View
    <3>3. DOMAIN WrittenBucket(evict, location) = chosen
      BY <1>1, <3>1, TreeAssumption DEF WrittenBucket, CallOK, InAccess, WritePath
    <3>4. Cardinality(chosen) <= Z
      BY <1>1 DEF Greedy
    <3> QED
      BY <3>2, <3>3, <3>4
  <2> QED
    BY <2>1, <2>2
<1> QED
  BY <1>2, <1>3 DEF WithinCapacity

LEMMA CapacityStep == TypeOK /\ CallOK /\ WithinCapacity /\ [Next]_vars => WithinCapacity'
<1> SUFFICES ASSUME TypeOK, CallOK, WithinCapacity, [Next]_vars
             PROVE  WithinCapacity'
  OBVIOUS
<1>1. CASE \/ \E b \in Blocks : Get(b)
           \/ \E b \in Blocks, d \in Data : Put(b, d)
           \/ \E batch \in Calls : Multiple(batch)
  BY <1>1 DEF Get, Put, Multiple, Begin, WithinCapacity, View, tree
<1>2. CASE Prefetch \/ Remap \/ StorageGetFails \/ UpdateOverflows
  <2>1. \A location : View(location)' = View(location)
    BY <1>2, FetchView DEF Prefetch, Remap, StorageGetFails, UpdateOverflows, View, tree
  <2> QED
    BY <1>2, <2>1 DEF Prefetch, Remap, StorageGetFails, UpdateOverflows, WithinCapacity
<1>3. CASE ReadPath \/ ReadPathOverflows
  <2>1. /\ \A location : View(location)' = View(location)
        /\ prev \in Leaves
    BY <1>3, FetchView DEF ReadPath, ReadPathOverflows, CallOK, InAccess
  <2>2. Cardinality(DOMAIN stash') <= StashCapacity
    <3>1. CASE ReadPath
      BY <2>1, <3>1, AddToStashCopies DEF ReadPath
    <3>2. CASE ReadPathOverflows
      <4>1. PICK ids : AddToStash(ids) /\ Cardinality(DOMAIN stash \cup ids) = StashCapacity
        BY <3>2 DEF ReadPathOverflows
      <4>2. DOMAIN stash' = DOMAIN stash \cup ids
        BY <2>1, <4>1, AddToStashCopies
      <4> QED
        BY <4>1, <4>2, SizeAssumption
    <3> QED
      BY <1>3, <3>1, <3>2
  <2> QED
    BY <2>1, <2>2, SameBuckets
<1>4. CASE Update
  <2>1. \A location : View(location)' = View(location)
    BY <1>4 DEF Update, View, tree
  <2>2. CASE Current.write /\ Current.block \notin DOMAIN stash
    <3>1. /\ DOMAIN stash' = DOMAIN stash \cup {Current.block}
          /\ Cardinality(DOMAIN stash) < StashCapacity
      BY <1>4, <2>2 DEF Update
    <3>2. /\ Cardinality(DOMAIN stash) \in Nat
          /\ Cardinality(DOMAIN stash') = Cardinality(DOMAIN stash) + 1
      BY <2>2, <3>1, StashBlocks, BlockSets
    <3> QED
      BY <2>1, <3>1, <3>2, SizeAssumption, SameBuckets
  <2>3. CASE ~(Current.write /\ Current.block \notin DOMAIN stash)
    <3>1. DOMAIN stash' = DOMAIN stash
      BY <1>4, <2>3 DEF Update
    <3> QED
      BY <2>1, <3>1 DEF WithinCapacity
  <2> QED
    BY <2>2, <2>3
<1>5. CASE WritePath
  BY <1>5, WritePathCapacity
<1>6. CASE Sync \/ SyncRejected \/ StorageSetFails
  <2>1. \A location \in Locations : DOMAIN View(location)' = DOMAIN View(location)
    BY <1>6, SyncView
  <2>2. stash' = stash
    BY <1>6 DEF Sync, SyncRejected, StorageSetFails
  <2> QED
    BY <2>1, <2>2 DEF WithinCapacity
<1>7. CASE UNCHANGED vars
  BY <1>7 DEF vars, WithinCapacity, View
<1> QED
  BY <1>1, <1>2, <1>3, <1>4, <1>5, <1>6, <1>7 DEF Next

(* Whatever is read, evicted and interrupted, the stash holds no more than its  *)
(* capacity and a bucket no more than Z blocks: none is dropped to make room,   *)
(* since every block that finds no place on the path stays in the stash.       *)
THEOREM CapacitiesHold == Spec => []WithinCapacity
<1>1. TypeOK /\ CallOK /\ WithinCapacity /\ [Next]_vars => (TypeOK /\ CallOK /\ WithinCapacity)'
  BY TypeStep, CapacityStep
<1> QED
  BY <1>1, InitType, InitCapacity, PTL DEF Spec

-----------------------------------------------------------------------------
(* Payloads *)

(* No payload that is too large gets out of the cache: all are checked before   *)
(* any is written, and padding makes none too large.                         *)
THEOREM OversizedStaysOut == Spec => []NothingOversizedStored
<1>1. Init => NothingOversizedStored
  BY NothingType DEF Init, NothingOversizedStored
<1>2. ASSUME TypeOK, NothingOversizedStored, NEW locations \in SUBSET DOMAIN cache,
             Upload(locations), \A location \in DOMAIN cache : Acceptable(location)
      PROVE  NothingOversizedStored'
  <2> SUFFICES ASSUME NEW location \in Locations, NEW b \in DOMAIN storage'[location]
               PROVE  storage'[location][b] \notin Oversized
    BY DEF NothingOversizedStored
  <2>1. CASE location \in locations
    <3>1. /\ cache[location] \in Bucket /\ storage'[location] = Pad(cache[location])
          /\ \A x \in DOMAIN cache[location] : cache[location][x] \notin Oversized
      BY <1>2, <2>1 DEF Upload, TypeOK, Acceptable
    <3>2. b \in DOMAIN cache[location] /\ cache[location][b] \in Data
      BY <3>1, BucketFunctions DEF Pad, PadIn
    <3> QED
      BY <3>1, <3>2, DataAssumption DEF Pad, PadIn
  <2>2. CASE location \notin locations
    BY <1>2, <2>2 DEF Upload, NothingOversizedStored
  <2> QED
    BY <2>1, <2>2
<1>3. TypeOK /\ NothingOversizedStored /\ [Next]_vars => NothingOversizedStored'
  <2> SUFFICES ASSUME TypeOK, NothingOversizedStored, [Next]_vars
               PROVE  NothingOversizedStored'
    OBVIOUS
  <2>1. CASE Sync \/ StorageSetFails
    BY <1>2, <2>1 DEF Sync, StorageSetFails
  <2>2. CASE UNCHANGED storage
    BY <2>2 DEF NothingOversizedStored
  <2> QED
    BY <2>1, <2>2 DEF Next, Get, Put, Multiple, Begin, Prefetch, Remap, ReadPath,
       ReadPathOverflows, StorageGetFails, Update, UpdateOverflows, WritePath,
       SyncRejected, vars, tree
<1>4. TypeOK /\ CallOK /\ NothingOversizedStored /\ [Next]_vars
        => (TypeOK /\ CallOK /\ NothingOversizedStored)'
  BY <1>3, TypeStep
<1> QED
  BY <1>1, <1>4, InitType, PTL DEF Spec

-----------------------------------------------------------------------------
(* The paths multiple() fetches first *)

(* No earlier request of the call is for the same block. *)
IsFirst(i) == \A j \in 1 .. i - 1 : requests[j].block # requests[i].block

(* PrefetchCovers follows from what holds all through the call: the cache has   *)
(* the paths of all requests to come, but for blocks remapped on the way.      *)
StillCovered ==
  Cardinality(DOMAIN requests) > 1 /\ (phase = "remap" \/ InAccess) =>
    \A i \in DOMAIN requests :
      i >= next /\ (InAccess => i # next) /\ IsFirst(i) =>
        Path(positionMap[requests[i].block]) \subseteq DOMAIN cache

Covered == StillCovered /\ PrefetchCovers

LEMMA RequestTypes ==
  ASSUME TypeOK
  PROVE  /\ DOMAIN requests \subseteq Nat
         /\ next \in Nat \ {0}
         /\ \A i \in DOMAIN requests : requests[i].block \in Blocks
BY SizeAssumption DEF TypeOK, Calls, Request

(* A step inside a call that keeps the map and leaves all of the cache there.   *)
LEMMA CoveredLater ==
  ASSUME TypeOK, TypeOK', StillCovered, phase = "remap" \/ InAccess, phase' # "read",
         UNCHANGED <<positionMap, requests>>, DOMAIN cache \subseteq DOMAIN cache',
         \/ InAccess /\ InAccess' /\ next' = next
         \/ InAccess /\ ~InAccess' /\ next' = next + 1
  PROVE  Covered'
<1>1. StillCovered'
  <2> SUFFICES ASSUME Cardinality(DOMAIN requests) > 1, NEW i \in DOMAIN requests,
                      i >= next', InAccess' => i # next', IsFirst(i)'
               PROVE  Path(positionMap[requests[i].block]) \subseteq DOMAIN cache
    BY DEF StillCovered
  <2>1. IsFirst(i) /\ i >= next /\ i # next
    BY RequestTypes DEF IsFirst
  <2> QED
    BY <2>1 DEF StillCovered
<1>2. PrefetchCovers'
  BY DEF PrefetchCovers
<1> QED
  BY <1>1, <1>2 DEF Covered

LEMMA RemapCovered == TypeOK /\ CallOK /\ Covered /\ Remap => Covered'
<1> SUFFICES ASSUME TypeOK, CallOK, Covered, Remap PROVE Covered'
  OBVIOUS
<1>1. /\ phase = "remap" /\ phase' = "read" /\ prev' = positionMap[Current.block]
      /\ UNCHANGED <<requests, next, cache>> /\ ~InAccess
      /\ next \in DOMAIN requests
      /\ \A b \in Blocks : b # Current.block => positionMap'[b] = positionMap[b]
  BY DEF Remap, CallOK, tree, TypeOK, InAccess
<1>2. StillCovered'
  <2> SUFFICES ASSUME Cardinality(DOMAIN requests) > 1, NEW i \in DOMAIN requests,
                      i >= next, i # next, IsFirst(i)
               PROVE  Path(positionMap'[requests[i].block]) \subseteq DOMAIN cache
    BY <1>1 DEF StillCovered, InAccess, IsFirst
  <2>1. requests[i].block # Current.block
    <3>1. next \in Nat \ {0} /\ i \in Nat
      BY RequestTypes
    <3>2. next \in 1 .. i - 1
      BY <3>1
    <3> QED
      BY <3>2 DEF IsFirst, Current
  <2>2. positionMap'[requests[i].block] = positionMap[requests[i].block]
    BY <1>1, <2>1, RequestTypes
  <2> QED
    BY <1>1, <2>2 DEF Covered, StillCovered
<1>3. PrefetchCovers'
  <2> SUFFICES ASSUME Cardinality(DOMAIN requests) > 1,
                      \A j \in 1 .. next - 1 : requests[j].block # Current.block
               PROVE  Path(prev') \subseteq DOMAIN cache
    BY <1>1 DEF PrefetchCovers, Current
  <2>1. IsFirst(next) /\ next >= next
    BY RequestTypes DEF IsFirst, Current
  <2> QED
    BY <1>1, <2>1 DEF Covered, StillCovered, Current
<1> QED
  BY <1>2, <1>3 DEF Covered

LEMMA CoveredStep == TypeOK /\ CallOK /\ Covered /\ [Next]_vars => Covered'
<1> SUFFICES ASSUME TypeOK, CallOK, Covered, [Next]_vars PROVE Covered'
  OBVIOUS
<1>0. TypeOK' /\ CallOK'
  BY TypeStep
<1>1. ASSUME NEW r, requests' = [i \in 1 .. 1 |-> r], phase' = "remap"
      PROVE  Covered'
  <2>1. DOMAIN requests' = {1}
    BY <1>1
  <2>2. Cardinality(DOMAIN requests') = 1
    BY <2>1, FS_Singleton
  <2> QED
    BY <1>1, <2>2 DEF Covered, StillCovered, PrefetchCovers
<1>2. CASE (\E b \in Blocks : Get(b)) \/ (\E b \in Blocks, d \in Data : Put(b, d))
  BY <1>1, <1>2 DEF Get, Put, Begin
<1>3. CASE \E batch \in Calls : Multiple(batch)
  BY <1>3 DEF Multiple, Begin, Covered, StillCovered, PrefetchCovers, InAccess
<1>4. CASE Prefetch
  <2>1. /\ \A i \in DOMAIN requests :
             Path(positionMap[requests[i].block]) \subseteq DOMAIN cache'
        /\ UNCHANGED <<requests, positionMap>> /\ phase' # "read"
    BY <1>4 DEF Prefetch, Fetch, call
  <2> QED
    BY <2>1 DEF Covered, StillCovered, PrefetchCovers
<1>5. CASE Remap
  BY <1>5, RemapCovered
<1>6. CASE ReadPath \/ Update
  <2>1. /\ InAccess /\ InAccess' /\ phase' # "read" /\ UNCHANGED <<positionMap, requests, next>>
        /\ DOMAIN cache \subseteq DOMAIN cache'
    BY <1>6 DEF ReadPath, Update, Fetch, InAccess, call, tree
  <2> QED
    BY <1>0, <2>1, CoveredLater DEF Covered
<1>7. CASE WritePath
  <2>1. /\ InAccess /\ ~InAccess' /\ phase' # "read" /\ UNCHANGED <<positionMap, requests>>
        /\ next' = next + 1 /\ DOMAIN cache \subseteq DOMAIN cache'
    BY <1>7 DEF WritePath, InAccess
  <2> QED
    BY <1>0, <2>1, CoveredLater DEF Covered
<1>8. CASE \/ ReadPathOverflows \/ StorageGetFails \/ UpdateOverflows
           \/ Sync \/ SyncRejected \/ StorageSetFails
  BY <1>8 DEF ReadPathOverflows, StorageGetFails, UpdateOverflows, Sync, SyncRejected,
              StorageSetFails, Leave, Covered, StillCovered, PrefetchCovers, InAccess
<1>9. CASE UNCHANGED vars
  BY <1>9 DEF vars, Covered, StillCovered, PrefetchCovers, IsFirst, InAccess, Current
<1> QED
  BY <1>2, <1>3, <1>4, <1>5, <1>6, <1>7, <1>8, <1>9 DEF Next

(* For batches of any size: an access of multiple() finds its path in the cache *)
(* unless an earlier request of the same call was for the same block.          *)
THEOREM PrefetchSuffices == Spec => []PrefetchCovers
<1>1. Init => Covered
  BY DEF Init, Covered, StillCovered, PrefetchCovers, InAccess
<1>2. TypeOK /\ CallOK /\ Covered /\ [Next]_vars => (TypeOK /\ CallOK /\ Covered)'
  BY TypeStep, CoveredStep
<1>3. Covered => PrefetchCovers
  BY DEF Covered
<1> QED
  BY <1>1, <1>2, <1>3, InitType, PTL DEF Spec

=============================================================================
