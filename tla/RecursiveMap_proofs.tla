--------------------------- MODULE RecursiveMap_proofs ---------------------------
(***************************************************************************)
(* Proofs about RecursiveMap: an ORAM whose position map is in another ORAM    *)
(* keeps the ORAM invariant, and remains an array of blocks, whichever calls   *)
(* of the inner ORAM throw, for every tree, payload set and capacity. What     *)
(* the steps share with PathORAM is taken from PathORAM_proofs.               *)
(***************************************************************************)
EXTENDS RecursiveMap, PathORAM_proofs

-----------------------------------------------------------------------------
(* The invariant *)

(* Types: those of PathORAM with one more phase, and those of the inner call. *)
TypeR ==
  /\ positionMap \in [Blocks -> Leaves]
  /\ stash \in Bucket
  /\ DOMAIN cache \subseteq Locations /\ cache \in [DOMAIN cache -> Bucket]
  /\ storage \in [Locations -> Bucket]
  /\ requests \in Calls
  /\ next \in 1 .. BatchSize + 1
  /\ prev \in Positions
  /\ response \in Data \cup {NoResponse}
  /\ phase \in {"returned", "threw", "prefetch", "remap", "set", "read", "update",
                "write", "sync"}
  /\ damaged \subseteq Blocks
  /\ mapNext \in {1, 2} /\ mapDamaged \subseteq damaged /\ paths \subseteq Positions

(* As in PathORAM; but a path is known to be one only once it has been read. *)
CallR ==
  /\ Idle \/ phase = "prefetch" => next = 1
  /\ phase \in {"remap", "set"} \/ InAccess => next \in DOMAIN requests
  /\ phase \in {"update", "write"} => prev \in Leaves
  /\ Served

(* The call of the inner ORAM is the one that the phase of the outer makes,   *)
(* and what it has answered about a sound entry is still what that holds.     *)
MapCallOK ==
  /\ mapStatus # "busy" => mapNext = 1
  /\ mapStatus = "busy" =>
       /\ phase \in {"prefetch", "remap", "set", "write"}
       /\ DOMAIN mapRequests = {1} /\ mapRequests[1].block \in Blocks
       /\ mapRequests[1].write <=> phase = "set"
       /\ phase \in {"remap", "set"} => mapRequests[1].block = Current.block
       /\ mapNext = 2 => mapResponse \in Positions
       /\ phase = "remap" /\ mapNext = 2 /\ Current.block \notin mapDamaged
            => mapResponse = positionMap[Current.block]

(* What the outer ORAM keeps. *)
OuterOK == OnPathOfEntry /\ PathLoaded /\ CopiesAgree

RInv == TypeR /\ CallR /\ MapCallOK /\ OuterOK

-----------------------------------------------------------------------------
(* Where the outer ORAM is one of PathORAM *)

(* Between reading an entry and setting it, and when it has led nowhere, the   *)
(* outer ORAM is in no state of PathORAM. Else it is.                         *)
AtORAM == phase # "set" /\ (phase = "read" => prev # NoLeaf)

LEMMA IsORAM == RInv /\ AtORAM => SInv
<1> SUFFICES ASSUME RInv, AtORAM PROVE SInv
  OBVIOUS
<1>1. TypeOK
  BY DEF RInv, TypeR, TypeOK, AtORAM, Positions
<1>2. CallOK /\ Served
  BY DEF RInv, TypeR, CallR, CallOK, InAccess, AtORAM, Positions
<1>3. \A b \in Blocks : EntryOf(b) = PositionOf(b)
  BY DEF EntryOf, PositionOf, InAccess, AtORAM
<1>4. IInv
  BY <1>3 DEF RInv, OuterOK, OnPathOfEntry, IInv, OnMappedPath
<1> QED
  BY <1>1, <1>2, <1>4 DEF SInv

(* The part of the invariant that is about the inner call. *)
MapTypes == mapNext \in {1, 2} /\ mapDamaged \subseteq damaged /\ paths \subseteq Positions

LEMMA FromORAM == SInv /\ MapTypes /\ MapCallOK => RInv
<1> SUFFICES ASSUME SInv, MapTypes, MapCallOK PROVE RInv
  OBVIOUS
<1>1. TypeR
  BY DEF SInv, TypeOK, MapTypes, TypeR, Positions
<1>2. CallR
  BY DEF SInv, TypeOK, CallOK, CallR, InAccess
<1>3. \A b \in Blocks : EntryOf(b) = PositionOf(b) /\ PositionOf(b) \in Leaves
  BY DEF SInv, TypeOK, CallOK, EntryOf, PositionOf, InAccess
<1>4. OuterOK
  BY <1>3 DEF SInv, IInv, OuterOK, OnPathOfEntry, OnMappedPath
<1> QED
  BY <1>1, <1>2, <1>4 DEF RInv

LEMMA FromORAMNext == SInv' /\ MapTypes' /\ MapCallOK' => RInv'
BY FromORAM, PTL

(* Between calls of the inner ORAM nothing is to be shown of it. *)
LEMMA MapIdleOK == MapIdle /\ mapNext = 1 => MapCallOK
BY DEF MapIdle, MapCallOK

LEMMA DamageStays == [Next]_vars => damaged \subseteq damaged'
BY DEF Next, Get, Put, Multiple, Begin, Prefetch, Remap, ReadPath, ReadPathOverflows,
   StorageGetFails, Update, UpdateOverflows, WritePath, Sync, SyncRejected,
   StorageSetFails, Orphan, vars

(* A step of PathORAM, while the inner ORAM does nothing. *)
LEMMA OramStepR ==
  ASSUME RInv, AtORAM, [Next]_vars, MapIdle, UNCHANGED <<mapVars, paths>>
  PROVE  SInv /\ SInv' /\ RInv'
<1>1. SInv
  BY IsORAM
<1>2. SInv'
  BY <1>1, InvariantHolds
<1>3. MapTypes'
  BY DamageStays DEF RInv, TypeR, MapTypes, mapVars
<1>4. MapCallOK'
  BY DEF RInv, MapCallOK, MapIdle, mapVars
<1> QED
  BY <1>1, <1>2, <1>3, <1>4, FromORAMNext

-----------------------------------------------------------------------------
(* The steps of the inner ORAM *)

(* A step that moves no block, nor changes the entry an undamaged one goes by. *)
SameEntries ==
  /\ UNCHANGED <<stash, tree, damaged>>
  /\ \A b \in Blocks \ damaged : EntryOf(b)' = EntryOf(b)

(* Such a step keeps what the outer ORAM needs, if no path is read or written. *)
LEMMA SameOuter ==
  ASSUME RInv, SameEntries,
         phase = "write" \/ phase' \in {"update", "write"}
           => UNCHANGED <<phase, prev, requests, next>>
  PROVE  OuterOK'
<1>1. \A location : View(location)' = View(location)
  BY DEF SameEntries, View, tree
<1>2. OnPathOfEntry'
  BY <1>1 DEF SameEntries, RInv, OuterOK, OnPathOfEntry, Holds
<1>3. PathLoaded'
  BY <1>1 DEF SameEntries, RInv, OuterOK, PathLoaded, OnPath, Holds
<1>4. CopiesAgree'
  <2>1. \A b \in Blocks : CopiesOf(b)' = CopiesOf(b)
    BY <1>1 DEF SameEntries, CopiesOf, Holds
  <2>2. \A b \in Blocks : ~BeingReplaced(b)' => ~BeingReplaced(b)
    BY DEF BeingReplaced, Current
  <2> QED
    BY <2>1, <2>2 DEF SameEntries, RInv, OuterOK, CopiesAgree
<1> QED
  BY <1>2, <1>3, <1>4 DEF OuterOK

(* The request served is that of the call of next. *)
LEMMA CurrentR ==
  ASSUME RInv, next \in DOMAIN requests
  PROVE  Current \in Request /\ Current.block \in Blocks /\ next \in 1 .. BatchSize
<1>1. PICK n \in 0 .. BatchSize : requests \in [1 .. n -> Request]
  BY DEF RInv, TypeR, Calls
<1> QED
  BY <1>1, SizeAssumption DEF Current, Request

(* The outer ORAM calls the inner one. *)
LEMMA CallMapR ==
  ASSUME RInv, NEW b \in Blocks, NEW write \in BOOLEAN, NEW data,
         CallMap([block |-> b, write |-> write, data |-> data]),
         phase \in {"prefetch", "remap", "set", "write"},
         write <=> phase = "set", phase \in {"remap", "set"} => b = Current.block
  PROVE  RInv' /\ SameEntries
<1> DEFINE r == [block |-> b, write |-> write, data |-> data]
<1>1. /\ UNCHANGED <<positionMap, mapNext, mapDamaged, outerVars, paths>>
      /\ mapRequests' = [i \in 1 .. 1 |-> r] /\ mapStatus' = "busy" /\ mapNext = 1
  BY DEF CallMap, RInv, MapCallOK, MapIdle
<1>2. DOMAIN mapRequests' = {1} /\ mapRequests'[1] = r
  BY <1>1
<1>3. TypeR' /\ CallR'
  BY <1>1 DEF outerVars, tree, call, RInv, TypeR, CallR, Idle, InAccess, Served
<1>4. MapCallOK'
  BY <1>1, <1>2 DEF MapCallOK, Current, outerVars, call
<1>5. SameEntries
  BY <1>1 DEF SameEntries, EntryOf, Current, outerVars, call
<1>6. OuterOK'
  BY <1>1, <1>5, SameOuter DEF outerVars, call
<1> QED
  BY <1>3, <1>4, <1>5, <1>6 DEF RInv

LEMMA AsksR ==
  ASSUME RInv, PrefetchAsks \/ RemapAsks \/ RemapSets \/ WriteAsks
  PROVE  RInv' /\ SameEntries
<1>1. CASE PrefetchAsks
  <2>1. PICK i \in DOMAIN requests : GetPosition(requests[i].block)
    BY <1>1 DEF PrefetchAsks
  <2>2. requests[i].block \in Blocks
    BY <2>1 DEF RInv, TypeR, Calls, Request
  <2> QED
    BY <1>1, <2>1, <2>2, CallMapR DEF PrefetchAsks, GetPosition
<1>2. CASE RemapAsks
  <2>1. Current.block \in Blocks
    BY <1>2, CurrentR DEF RemapAsks, RInv, CallR
  <2> QED
    BY <1>2, <2>1, CallMapR DEF RemapAsks, GetPosition
<1>3. CASE RemapSets
  <2>1. Current.block \in Blocks
    BY <1>3, CurrentR DEF RemapSets, RInv, CallR
  <2> QED
    BY <1>3, <2>1, CallMapR DEF RemapSets, SetPosition
<1>4. CASE WriteAsks
  <2>1. PICK b \in DOMAIN stash : GetPosition(b)
    BY <1>4 DEF WriteAsks
  <2>2. b \in Blocks
    BY BucketFunctions DEF RInv, TypeR
  <2> QED
    BY <1>4, <2>1, <2>2, CallMapR DEF WriteAsks, GetPosition
<1> QED
  BY <1>1, <1>2, <1>3, <1>4

(* The inner ORAM serves its request: no sound entry changes but the one that  *)
(* is set, and the outer ORAM goes by the old leaf of that one already.        *)
LEMMA MapServesR ==
  ASSUME RInv, MapServes
  PROVE  RInv' /\ SameEntries
<1>1. /\ UNCHANGED <<outerVars, mapRequests, mapStatus, mapDamaged, paths>>
      /\ mapStatus = "busy" /\ mapNext' = mapNext + 1 /\ mapNext \in DOMAIN mapRequests
      /\ mapResponse' \in Positions
      /\ positionMap' \in {positionMap} \cup
           {[positionMap EXCEPT ![mapRequests[1].block] = leaf] : leaf \in Leaves}
  BY DEF MapServes, Map!Serve
<1>2. mapNext = 1 /\ mapNext' = 2
  BY <1>1 DEF RInv, MapCallOK
<1>3. ~mapRequests[1].write /\ mapRequests[1].block \notin mapDamaged =>
        /\ mapResponse' = positionMap[mapRequests[1].block]
        /\ positionMap'[mapRequests[1].block] = positionMap[mapRequests[1].block]
  BY <1>2 DEF MapServes, Map!Serve, FirstNumber
<1>4. \A b \in Blocks : b # mapRequests[1].block => positionMap'[b] = positionMap[b]
  BY <1>1 DEF RInv, TypeR
<1>5. positionMap' \in [Blocks -> Leaves]
  BY <1>1 DEF RInv, TypeR, MapCallOK
<1>6. TypeR' /\ CallR'
  BY <1>1, <1>2, <1>5 DEF outerVars, tree, call, RInv, TypeR, CallR, Idle, InAccess, Served
<1>7. MapCallOK'
  BY <1>1, <1>2, <1>3 DEF RInv, MapCallOK, Current, outerVars, call
<1>8. SameEntries
  BY <1>1, <1>3, <1>4
  DEF SameEntries, RInv, TypeR, MapCallOK, EntryOf, Current, outerVars, call
<1>9. OuterOK'
  BY <1>1, <1>8, SameOuter DEF outerVars, call
<1> QED
  BY <1>6, <1>7, <1>8, <1>9 DEF RInv

(* The call of the inner ORAM is over; the outer goes on with its answer. *)
LEMMA AnsweredR ==
  ASSUME RInv, PrefetchAnswered \/ RemapAnswered \/ RemapSet \/ WriteAnswered
  PROVE  RInv' /\ SameEntries
<1>1. /\ UNCHANGED <<positionMap, mapDamaged, stash, tree, requests, next, response, damaged>>
      /\ mapStatus = "busy" /\ mapStatus' = "returned" /\ mapNext' = 1
      /\ mapNext \notin DOMAIN mapRequests
  BY DEF PrefetchAnswered, RemapAnswered, RemapSet, WriteAnswered, MapReturns,
         Map!Return, Map!End, outerVars, call
<1>2. mapNext = 2 /\ mapResponse \in Positions
  BY <1>1 DEF RInv, TypeR, MapCallOK
<1>3. /\ paths' \subseteq Positions
      /\ \/ UNCHANGED <<prev, phase>>
         \/ phase = "remap" /\ phase' = "set" /\ prev' = mapResponse
         \/ phase = "set" /\ phase' = "read" /\ prev' = prev
  BY <1>2 DEF PrefetchAnswered, RemapAnswered, RemapSet, WriteAnswered, RInv, TypeR,
              outerVars, call
<1>4. TypeR' /\ CallR'
  BY <1>1, <1>2, <1>3 DEF tree, RInv, TypeR, CallR, Idle, InAccess, Served, Positions
<1>5. MapCallOK'
  BY <1>1 DEF MapCallOK
<1>6. SameEntries
  BY <1>1, <1>2, <1>3 DEF SameEntries, RInv, TypeR, MapCallOK, EntryOf, Current
<1>7. OuterOK'
  BY <1>1, <1>3, <1>6, SameOuter
<1> QED
  BY <1>4, <1>5, <1>6, <1>7 DEF RInv

(* What an exception of the inner ORAM does to the damage is what Strands says. *)
LEMMA ThrowDamage ==
  ASSUME RInv, MapThrows
  PROVE  /\ damaged \subseteq damaged' /\ mapDamaged' \subseteq damaged'
         /\ damaged' \subseteq damaged \cup mapDamaged' \cup {Current.block}
         /\ phase \in {"prefetch", "remap", "set", "write"}
         /\ (phase = "set" /\ prev # positionMap[Current.block]) \/ phase = "write"
              => (prev # NoLeaf /\ Current.block \in OnPath(prev) => Current.block \in damaged')
BY DEF MapThrows, Strands, RInv, MapCallOK

(* An undamaged block the exception leaves mapped to another path has no copy   *)
(* in the tree.                                                              *)
LEMMA NotStranded ==
  ASSUME RInv, MapThrows, NEW b \in Blocks, b \notin damaged', EntryOf(b) # positionMap[b]
  PROVE  \A location \in Locations : ~Holds(location, b)
<1>1. /\ EntryOf(b) \in Leaves
      /\ \A location \in Locations : Holds(location, b) => location \in Path(EntryOf(b))
  BY ThrowDamage DEF RInv, OuterOK, OnPathOfEntry
<1>2. b = Current.block /\ EntryOf(b) = prev /\ phase \in {"set", "write"}
  BY ThrowDamage DEF EntryOf
<1>3. b \notin OnPath(prev)
  BY ThrowDamage, <1>1, <1>2, TreeAssumption
<1> QED
  BY <1>1, <1>2, <1>3 DEF OnPath

(* An exception of the inner ORAM ends the outer call, and an undamaged block   *)
(* is on the path of its entry at once.                                      *)
LEMMA MapThrowsR ==
  ASSUME RInv, MapThrows
  PROVE  RInv'
<1>1. /\ mapStatus = "busy" /\ mapStatus' = "threw" /\ mapNext' = 1
      /\ UNCHANGED <<positionMap, stash, tree>>
      /\ requests' = Nothing /\ next' = 1 /\ prev' = NoLeaf /\ response' = NoResponse
      /\ phase' = "threw" /\ paths' = {}
  BY DEF MapThrows, Leave, Map!Throw, Map!End
<1>2. phase \in {"prefetch", "remap", "set", "write"}
  BY <1>1 DEF RInv, MapCallOK
<1>3. mapDamaged' \subseteq Blocks
  <2>1. \A i \in DOMAIN mapRequests : mapRequests[i].block \in Blocks
    BY <1>1 DEF RInv, MapCallOK
  <2> QED
    BY <2>1 DEF MapThrows, TheInterrupted, RInv, TypeR
<1>4. /\ damaged \subseteq damaged' /\ mapDamaged' \subseteq damaged'
      /\ damaged' \subseteq damaged \cup mapDamaged' \cup {Current.block}
  BY ThrowDamage
<1>5. damaged' \subseteq Blocks
  <2>1. CASE next \in DOMAIN requests
    BY <2>1, <1>3, <1>4, CurrentR DEF RInv, TypeR
  <2>2. CASE next \notin DOMAIN requests
    <3>1. damaged' = damaged \cup mapDamaged'
      BY <1>2, <2>2 DEF RInv, CallR, InAccess, MapThrows, Strands
    <3> QED
      BY <1>3, <3>1 DEF RInv, TypeR
  <2> QED
    BY <2>1, <2>2
<1>6. TypeR' /\ CallR'
  BY <1>1, <1>4, <1>5, NothingType, SizeAssumption
  DEF tree, RInv, TypeR, CallR, Idle, InAccess, Served, Positions
<1>7. MapCallOK'
  BY <1>1 DEF MapCallOK
<1>8. \A location : View(location)' = View(location)
  BY <1>1 DEF View, tree
<1>9. OnPathOfEntry'
  <2> SUFFICES ASSUME NEW b \in Blocks, b \notin damaged'
               PROVE  /\ positionMap[b] \in Leaves
                      /\ \A location \in Locations :
                           Holds(location, b) => location \in Path(positionMap[b])
    BY <1>1, <1>8 DEF OnPathOfEntry, EntryOf, Holds
  <2>1. /\ positionMap[b] \in Leaves /\ EntryOf(b) \in Leaves
        /\ \A location \in Locations : Holds(location, b) => location \in Path(EntryOf(b))
    BY <1>4 DEF RInv, TypeR, OuterOK, OnPathOfEntry
  <2> QED
    BY <2>1, NotStranded
<1>10. PathLoaded'
  BY <1>1 DEF PathLoaded
<1>11. CopiesAgree'
  <2> SUFFICES ASSUME NEW b \in Blocks, b \notin damaged',
                      NEW d \in CopiesOf(b), NEW e \in CopiesOf(b)
               PROVE  Padded(d) = Padded(e)
    BY <1>1, <1>8 DEF CopiesAgree, CopiesOf, Holds
  <2>1. CASE ~BeingReplaced(b)
    BY <1>4, <2>1 DEF RInv, OuterOK, CopiesAgree
  <2>2. CASE BeingReplaced(b)
    <3>1. phase = "write" /\ b = Current.block /\ EntryOf(b) = prev /\ prev \in Leaves
      BY <2>2 DEF BeingReplaced, EntryOf, RInv, CallR
    <3>2. b \notin OnPath(prev)
      BY ThrowDamage, <3>1, TreeAssumption
    <3>3. \A location \in Locations : ~Holds(location, b)
      BY <1>4, <3>1, <3>2 DEF OnPath, RInv, OuterOK, OnPathOfEntry
    <3> QED
      BY <3>3 DEF CopiesOf
  <2> QED
    BY <2>1, <2>2
<1> QED
  BY <1>6, <1>7, <1>9, <1>10, <1>11 DEF RInv, OuterOK

-----------------------------------------------------------------------------
(* The steps of the outer ORAM *)

(* An entry that leads nowhere is a damaged one. *)
LEMMA PathRefusedR ==
  ASSUME RInv, PathRefused
  PROVE  RInv' /\ SameEntries
<1>1. /\ UNCHANGED <<positionMap, stash, tree, damaged, mapVars>>
      /\ requests' = Nothing /\ next' = 1 /\ prev' = NoLeaf /\ response' = NoResponse
      /\ phase' = "threw" /\ paths' = {} /\ MapIdle
      /\ phase = "prefetch" \/ (phase = "read" /\ prev = NoLeaf)
  BY DEF PathRefused, Leave
<1>2. TypeR' /\ CallR'
  BY <1>1, NothingType, SizeAssumption
  DEF tree, mapVars, RInv, TypeR, CallR, Idle, InAccess, Served, Positions
<1>3. MapCallOK'
  BY <1>1 DEF mapVars, MapIdle, RInv, MapCallOK
<1>4. SameEntries
  <2> SUFFICES ASSUME NEW b \in Blocks \ damaged PROVE EntryOf(b) = positionMap[b]
    BY <1>1 DEF SameEntries, EntryOf
  <2>1. EntryOf(b) # NoLeaf
    BY TreeAssumption DEF RInv, OuterOK, OnPathOfEntry
  <2> QED
    BY <1>1, <2>1 DEF EntryOf
<1>5. OuterOK'
  BY <1>1, <1>4, SameOuter
<1> QED
  BY <1>2, <1>3, <1>4, <1>5 DEF RInv

(* What multiple() downloads are paths of the tree, if not always the right    *)
(* ones: nothing that is seen changes.                                       *)
LEMMA PrefetchPathsR ==
  ASSUME RInv, PrefetchPaths
  PROVE  SInv /\ SInv' /\ RInv'
<1>1. SInv
  BY IsORAM DEF PrefetchPaths, AtORAM
<1>2. /\ phase = "prefetch" /\ phase' = IF next \in DOMAIN requests THEN "remap" ELSE "sync"
      /\ UNCHANGED <<positionMap, stash, storage, call, damaged, mapVars>> /\ paths' = {}
      /\ MapIdle
  BY DEF PrefetchPaths
<1>3. PICK locations \in SUBSET Locations : Fetch(locations)
  <2>1. \A leaf \in paths : leaf \in Leaves
    BY DEF PrefetchPaths, RInv, TypeR, Positions
  <2> QED
    BY <2>1, PathInTree DEF PrefetchPaths
<1>4. TypeOK'
  BY <1>1, <1>2, <1>3, FetchType DEF SInv, TypeOK, call
<1>5. CallOK' /\ Served'
  BY <1>1, <1>2 DEF SInv, CallOK, Served, Idle, InAccess, call
<1>6. IInv'
  <2>1. \A location : View(location)' = View(location)
    BY <1>2, <1>3, FetchView
  <2> QED
    BY <1>1, <1>2, <2>1, QuietStep DEF SInv, InAccess
<1>7. MapTypes' /\ MapCallOK'
  BY <1>2 DEF RInv, TypeR, MapTypes, MapCallOK, MapIdle, mapVars
<1> QED
  BY <1>1, <1>4, <1>5, <1>6, <1>7, FromORAMNext DEF SInv

(* Wherever the blocks of damaged entries go, those of sound ones are put on   *)
(* their own paths.                                                         *)
LEMMA WriteAsAnsweredR ==
  ASSUME RInv, WriteAsAnswered
  PROVE  SInv /\ SInv' /\ RInv'
<1>1. SInv
  BY IsORAM DEF WriteAsAnswered, AtORAM
<1>2. /\ phase = "write" /\ phase' = IF next' \in DOMAIN requests THEN "remap" ELSE "sync"
      /\ next' = next + 1
      /\ UNCHANGED <<positionMap, storage, requests, prev, response, damaged, mapVars, paths>>
      /\ MapIdle
  BY DEF WriteAsAnswered, Advance
<1>3. PICK evict \in [DOMAIN stash -> Levels \cup {Kept}] : GreedyAsAnswered(evict) /\ Evicted(evict)
  BY DEF WriteAsAnswered, Evicted
<1>4. prev \in Leaves /\ next \in 1 .. BatchSize
  BY <1>1, <1>2, CurrentType DEF SInv, CallOK, InAccess
<1>5. TypeOK'
  BY <1>1, <1>2, <1>3, <1>4, EvictedType, SizeAssumption DEF SInv, TypeOK
<1>6. CallOK' /\ Served'
  BY <1>1, <1>2 DEF SInv, CallOK, Served, Idle, InAccess
<1>7. \A b \in DOMAIN stash \ damaged :
        evict[b] \in Levels => CanInclude(positionMap[b], prev, evict[b])
  <2> SUFFICES ASSUME NEW b \in DOMAIN stash, b \notin mapDamaged, evict[b] \in Levels
               PROVE  CanInclude(positionMap[b], prev, evict[b])
    BY DEF RInv, TypeR
  <2> QED
    BY <1>3 DEF GreedyAsAnswered
<1>8. IInv'
  BY <1>1, <1>2, <1>3, <1>7, EvictedInvariant DEF SInv, InAccess
<1>9. MapTypes' /\ MapCallOK'
  BY <1>2 DEF RInv, TypeR, MapTypes, MapCallOK, MapIdle, mapVars
<1> QED
  BY <1>1, <1>5, <1>6, <1>8, <1>9, FromORAMNext DEF SInv

-----------------------------------------------------------------------------
(* The invariant holds *)

LEMMA InitR == InitRecursive => RInv
<1> SUFFICES ASSUME InitRecursive PROVE RInv
  OBVIOUS
<1>1. SInv
  BY InvariantHolds DEF InitRecursive
<1>2. MapTypes /\ MapCallOK
  BY DEF InitRecursive, MapTypes, MapCallOK
<1> QED
  BY <1>1, <1>2, FromORAM

(* The steps of the outer ORAM that are steps of PathORAM. *)
OramStep ==
  \/ \E b \in Blocks : BeginCall(Get(b))
  \/ \E b \in Blocks, d \in Data : BeginCall(Put(b, d))
  \/ \E batch \in Batches : BeginCall(Multiple(batch))
  \/ ReadPathKnown \/ UpdateStash \/ SyncAll

LEMMA OramStepFacts ==
  ASSUME RInv, OramStep
  PROVE  AtORAM /\ Next /\ MapIdle /\ UNCHANGED <<mapVars, paths>>
<1>1. CASE \/ \E b \in Blocks : BeginCall(Get(b))
           \/ \E b \in Blocks, d \in Data : BeginCall(Put(b, d))
           \/ \E batch \in Batches : BeginCall(Multiple(batch))
  BY <1>1, BatchesAssumption
  DEF BeginCall, Get, Put, Multiple, Begin, Next, AtORAM, Idle
<1>2. CASE ReadPathKnown \/ UpdateStash \/ SyncAll
  BY <1>2 DEF ReadPathKnown, UpdateStash, SyncAll, ReadPath, ReadPathOverflows, Update,
     UpdateOverflows, Sync, Next, AtORAM, RInv, MapCallOK, MapIdle
<1> QED
  BY <1>1, <1>2 DEF OramStep

LEMMA StepR == RInv /\ [NextRecursive]_recursiveVars => RInv'
<1> SUFFICES ASSUME RInv, [NextRecursive]_recursiveVars PROVE RInv'
  OBVIOUS
<1>1. CASE OramStep
  BY <1>1, OramStepFacts, OramStepR
<1>2. CASE UNCHANGED recursiveVars
  BY <1>2 DEF recursiveVars, vars, mapVars, RInv, TypeR, CallR, MapCallOK, OuterOK, Served,
     Idle, InAccess, Current, OnPathOfEntry, PathLoaded, CopiesAgree, CopiesOf,
     BeingReplaced, EntryOf, Holds, View, OnPath
<1> QED
  BY <1>1, <1>2, AsksR, MapServesR, MapThrowsR, AnsweredR, PathRefusedR, PrefetchPathsR,
     WriteAsAnsweredR DEF NextRecursive, RunCall, OramStep

(* Whichever calls of the inner ORAM throw, and wherever that leaves the outer: *)
(* a block that no exception has damaged is on the path its entry gives, so     *)
(* that the next access finds it.                                            *)
THEOREM EntriesLeadToBlocks == SpecRecursive => []OnPathOfEntry
<1>1. RInv => OnPathOfEntry
  BY DEF RInv, OuterOK
<1> QED
  BY InitR, StepR, <1>1, PTL DEF SpecRecursive

-----------------------------------------------------------------------------
(* What a block holds *)

StoredContents == [b \in Blocks |-> Padded(StoredIn(b))]

ValueContents == [b \in Blocks |-> Padded(ValueOf(b))]

SameContents == StoredContents = ValueContents

(* In a state of PathORAM it is the value of the block there. *)
LEMMA StoredIsValue == SInv => SameContents
<1> SUFFICES ASSUME SInv, NEW b \in Blocks PROVE StoredIn(b) = ValueOf(b)
  BY DEF SameContents, StoredContents, ValueContents
<1>1. EntryOf(b) = PositionOf(b) /\ EntryOf(b) # NoLeaf
  BY TreeAssumption DEF SInv, TypeOK, CallOK, EntryOf, PositionOf, InAccess
<1> QED
  BY <1>1 DEF StoredIn, ValueOf, HoldersOf

LEMMA StoredIsValueNext == SInv' => SameContents'
BY StoredIsValue, PTL

(* What a step must show of the contents: those of undamaged blocks stay. *)
KeepsStored == \A b \in Blocks : b \notin damaged' => StoredContents'[b] = StoredContents[b]

(* They stay when blocks and entries stay... *)
LEMMA SameStored ==
  ASSUME SameEntries
  PROVE  KeepsStored
<1> SUFFICES ASSUME NEW b \in Blocks, b \notin damaged
             PROVE  StoredIn(b)' = StoredIn(b)
  BY DEF SameEntries, KeepsStored, StoredContents
<1>1. \A location : View(location)' = View(location)
  BY DEF SameEntries, View, tree
<1>2. EntryOf(b)' = EntryOf(b) /\ stash' = stash
  BY DEF SameEntries
<1> QED
  BY <1>1, <1>2 DEF StoredIn, Holds

(* ... when they keep their values in PathORAM... *)
LEMMA KeptValues ==
  ASSUME SInv, SInv', damaged' = damaged, Keeps(Blocks \ damaged)
  PROVE  KeepsStored
<1>1. StoredContents = ValueContents /\ StoredContents' = ValueContents'
  BY StoredIsValue, StoredIsValueNext DEF SameContents
<1> QED
  BY <1>1 DEF Keeps, KeepsStored, ValueContents

(* ... and when the inner ORAM throws: an undamaged block that its new entry     *)
(* would not find in the tree is in the stash or nowhere.                     *)
LEMMA ThrowKeeps ==
  ASSUME RInv, RInv', MapThrows
  PROVE  KeepsStored
<1> SUFFICES ASSUME NEW b \in Blocks, b \notin damaged'
             PROVE  StoredIn(b)' = StoredIn(b)
  BY DEF KeepsStored, StoredContents
<1>1. /\ \A location : View(location)' = View(location)
      /\ stash' = stash /\ EntryOf(b)' = positionMap[b]
      /\ positionMap[b] \in Leaves /\ EntryOf(b) \in Leaves
  BY ThrowDamage
  DEF MapThrows, Leave, View, tree, EntryOf, RInv, TypeR, OuterOK, OnPathOfEntry
<1>2. CASE EntryOf(b) = positionMap[b]
  BY <1>1, <1>2 DEF StoredIn, Holds
<1>3. CASE EntryOf(b) # positionMap[b]
  <2>1. \A location \in Locations : ~Holds(location, b) /\ ~Holds(location, b)'
    BY <1>1, <1>3, NotStranded DEF Holds
  <2>2. /\ {location \in Path(EntryOf(b)) : Holds(location, b)} = {}
        /\ {location \in Path(EntryOf(b)) : Holds(location, b)}' = {}
    BY <1>1, <2>1, PathInTree
  <2> QED
    BY <1>1, <2>2 DEF StoredIn
<1> QED
  BY <1>2, <1>3

-----------------------------------------------------------------------------
(* The refinement *)

LEMMA InitRefinesR == InitRecursive => RecursivePromise!Init
<1> SUFFICES ASSUME InitRecursive PROVE RecursivePromise!Init
  OBVIOUS
<1>1. SInv /\ Promise!Init
  BY InvariantHolds, InitRefines DEF InitRecursive
<1>2. StoredContents = ValueContents
  BY <1>1, StoredIsValue DEF SameContents
<1> QED
  BY <1>1, <1>2 DEF Promise!Init, Promise!NoRequests, RecursivePromise!Init,
     RecursivePromise!NoRequests, StoredContents, ValueContents

(* An exception may cost what it interrupts and one block more. *)
LEMMA OneMore ==
  ASSUME NEW n, NEW lost \in TheInterrupted(requests, n), RInv
  PROVE  lost \in TheInterruptedAndOne(requests, n)
<1>1. lost \in SUBSET Blocks
  BY DEF TheInterrupted, RInv, TypeR, Calls, Request
<1>2. lost \ {requests[i].block : i \in DOMAIN requests \cap {n - 1, n}} = {}
  BY DEF TheInterrupted
<1> QED
  BY <1>1, <1>2, FS_EmptySet DEF TheInterruptedAndOne

(* A step of PathORAM is one of the array, at a higher price. *)
LEMMA OramStepRefinesR ==
  ASSUME RInv, RInv', SInv, SInv', [Next]_vars
  PROVE  [RecursivePromise!Next]_RecursivePromise!vars
<1>1. StoredContents = ValueContents /\ StoredContents' = ValueContents'
  BY StoredIsValue, StoredIsValueNext DEF SameContents
<1> USE DEF StoredContents, ValueContents
<1>2. [Promise!Next]_Promise!vars
  BY StepRefines
<1>3. CASE Promise!Begin
  BY <1>1, <1>3 DEF Promise!Begin, Promise!Calls, Promise!Request,
     RecursivePromise!Next, RecursivePromise!Begin, RecursivePromise!Calls,
     RecursivePromise!Request
<1>4. CASE Promise!Serve
  BY <1>1, <1>4 DEF Promise!Serve, Promise!OthersKeep,
     RecursivePromise!Next, RecursivePromise!Serve, RecursivePromise!OthersKeep
<1>5. CASE Promise!Return
  BY <1>1, <1>5 DEF Promise!Return, Promise!End, Promise!NoRequests, Promise!OthersKeep,
     RecursivePromise!Next, RecursivePromise!Return, RecursivePromise!End,
     RecursivePromise!NoRequests, RecursivePromise!OthersKeep
<1>6. CASE Promise!Throw
  <2>1. \E lost \in TheInterruptedAndOne(requests, IF phase = "write" THEN next + 1 ELSE next) :
          damaged' = damaged \cup lost
    BY <1>6, OneMore DEF Promise!Throw
  <2> QED
    BY <1>1, <1>6, <2>1 DEF Promise!Throw, Promise!End, Promise!NoRequests, Promise!OthersKeep,
       RecursivePromise!Next, RecursivePromise!Throw, RecursivePromise!End,
       RecursivePromise!NoRequests, RecursivePromise!OthersKeep
<1>7. CASE Promise!Decay
  BY <1>1, <1>7 DEF Promise!Decay, Promise!OthersKeep,
     RecursivePromise!Next, RecursivePromise!Decay, RecursivePromise!OthersKeep
<1>8. CASE UNCHANGED Promise!vars
  BY <1>1, <1>8 DEF Promise!vars, RecursivePromise!vars
<1> QED
  BY <1>2, <1>3, <1>4, <1>5, <1>6, <1>7, <1>8 DEF Promise!Next

(* Steps inside a call of the outer ORAM that serve nothing. *)
LEMMA DecayR ==
  ASSUME RInv, KeepsStored, UNCHANGED <<requests, response, damaged>>, ~Idle, ~Idle',
         \/ next' = next /\ (phase = "write" <=> phase' = "write")
         \/ next' = next + 1 /\ phase = "write" /\ phase' # "write"
  PROVE  RecursivePromise!Next
BY DEF KeepsStored, StoredContents, RecursivePromise!Next, RecursivePromise!Decay,
   RecursivePromise!OthersKeep

(* Steps with which a call ends by an exception. *)
LEMMA ThrowRefinesR ==
  ASSUME RInv, KeepsStored, Leave("threw"), ~Idle,
         NEW lost \in TheInterruptedAndOne(requests, IF phase = "write" THEN next + 1 ELSE next),
         damaged' = damaged \cup lost
  PROVE  RecursivePromise!Next
<1>1. RecursivePromise!End("threw")
  BY DEF Leave, RecursivePromise!End, RecursivePromise!NoRequests, Nothing, Idle
<1> QED
  BY <1>1 DEF KeepsStored, StoredContents, RecursivePromise!Next, RecursivePromise!Throw,
     RecursivePromise!OthersKeep

(* The block whose entry was read is one, that of the access is another. *)
LEMMA MapThrowCosts ==
  ASSUME RInv, RInv', MapThrows
  PROVE  \E lost \in TheInterruptedAndOne(requests, IF phase = "write" THEN next + 1 ELSE next) :
           damaged' = damaged \cup lost
<1> DEFINE n == IF phase = "write" THEN next + 1 ELSE next
           lost == damaged' \ damaged
           exempt == {requests[i].block : i \in DOMAIN requests \cap {n - 1, n}}
<1>1. /\ damaged' = damaged \cup lost /\ lost \in SUBSET Blocks
      /\ damaged' \subseteq damaged \cup mapDamaged' \cup {Current.block}
  BY ThrowDamage DEF RInv, TypeR
<1>2. PICK entry \in {{}} \cup {{mapRequests[i].block} : i \in DOMAIN mapRequests} :
        mapDamaged' = mapDamaged \cup entry
  BY DEF MapThrows, TheInterrupted
<1>3. \E x : entry \subseteq {x}
  BY <1>2
<1>4. lost \subseteq entry \cup {Current.block}
  BY <1>1, <1>2 DEF RInv, TypeR
<1>5. \E x : lost \ exempt \subseteq {x}
  <2>1. CASE phase \in {"set", "write"}
    <3>1. next \in DOMAIN requests \cap {n - 1, n}
      BY <2>1 DEF RInv, TypeR, CallR, InAccess
    <3>2. Current.block \in exempt
      BY <3>1 DEF Current
    <3> QED
      BY <1>3, <1>4, <3>2
  <2>2. CASE phase \notin {"set", "write"}
    <3>1. lost \subseteq entry
      BY <1>2, <2>2 DEF MapThrows, Strands, RInv, TypeR
    <3> QED
      BY <1>3, <3>1
  <2> QED
    BY <2>1, <2>2
<1>6. Cardinality(lost \ exempt) <= 1
  <2>1. PICK x : lost \ exempt \subseteq {x}
    BY <1>5
  <2>2. lost \ exempt = {} \/ lost \ exempt = {x}
    BY <2>1
  <2> HIDE DEF lost, exempt
  <2> QED
    BY <2>2, FS_EmptySet, FS_Singleton
<1> QED
  BY <1>1, <1>6 DEF TheInterruptedAndOne

LEMMA StepRefinesR ==
  RInv /\ RInv' /\ [NextRecursive]_recursiveVars
    => [RecursivePromise!Next]_RecursivePromise!vars
<1> SUFFICES ASSUME RInv, RInv', [NextRecursive]_recursiveVars
             PROVE  [RecursivePromise!Next]_RecursivePromise!vars
  OBVIOUS
<1>1. CASE OramStep
  BY <1>1, OramStepFacts, OramStepR, OramStepRefinesR
<1>2. CASE PrefetchAsks \/ RemapAsks \/ RemapSets \/ WriteAsks \/ MapServes
  <2>1. KeepsStored
    BY <1>2, AsksR, MapServesR, SameStored
  <2>2. UNCHANGED outerVars /\ ~Idle
    BY <1>2 DEF PrefetchAsks, RemapAsks, RemapSets, WriteAsks, GetPosition, SetPosition,
       CallMap, MapServes, RInv, MapCallOK, Idle
  <2> QED
    BY <2>1, <2>2, DecayR DEF outerVars, call, Idle
<1>3. CASE PrefetchAnswered \/ RemapAnswered \/ RemapSet \/ WriteAnswered
  <2>1. KeepsStored
    BY <1>3, AnsweredR, SameStored
  <2>2. /\ UNCHANGED <<requests, response, damaged, next>> /\ ~Idle /\ ~Idle'
        /\ phase = "write" <=> phase' = "write"
    BY <1>3 DEF PrefetchAnswered, RemapAnswered, RemapSet, WriteAnswered, outerVars, call, Idle
  <2> QED
    BY <2>1, <2>2, DecayR
<1>4. CASE PathRefused
  <2>1. KeepsStored
    BY <1>4, PathRefusedR, SameStored
  <2>2. /\ Leave("threw") /\ ~Idle /\ damaged' = damaged \cup {}
        /\ {} \in TheInterrupted(requests, IF phase = "write" THEN next + 1 ELSE next)
    BY <1>4 DEF PathRefused, Idle, TheInterrupted
  <2> QED
    BY <2>1, <2>2, OneMore, ThrowRefinesR
<1>5. CASE PrefetchPaths
  <2>1. SInv /\ SInv'
    BY <1>5, PrefetchPathsR
  <2>2. /\ \A location : View(location)' = View(location)
        /\ UNCHANGED <<stash, requests, response, damaged, next>>
        /\ phase = "prefetch" /\ phase' # "write" /\ ~Idle /\ ~Idle'
    BY <1>5, FetchView DEF PrefetchPaths, Idle, call
  <2>3. KeepsStored
    BY <2>1, <2>2, KeptView, KeptValues
  <2> QED
    BY <2>2, <2>3, DecayR
<1>6. CASE WriteAsAnswered
  <2>1. SInv /\ SInv'
    BY <1>6, WriteAsAnsweredR
  <2>2. PICK evict \in [DOMAIN stash -> Levels \cup {Kept}] : Evicted(evict)
    BY <1>6 DEF WriteAsAnswered, Evicted
  <2>3. /\ UNCHANGED <<requests, response, damaged>> /\ next' = next + 1
        /\ phase = "write" /\ phase' # "write" /\ ~InAccess' /\ ~Idle /\ ~Idle'
    BY <1>6 DEF WriteAsAnswered, Advance, InAccess, Idle
  <2>4. KeepsStored
    BY <2>1, <2>2, <2>3, EvictedValues, KeptValues
  <2> QED
    BY <2>3, <2>4, DecayR
<1>7. CASE MapThrows
  <2>1. KeepsStored
    BY <1>7, ThrowKeeps
  <2>2. Leave("threw") /\ ~Idle
    BY <1>7, ThrowDamage DEF MapThrows, Idle
  <2> QED
    BY <1>7, <2>1, <2>2, MapThrowCosts, ThrowRefinesR
<1>8. CASE UNCHANGED recursiveVars
  <2>1. \A b \in Blocks : StoredIn(b)' = StoredIn(b)
    BY <1>8 DEF recursiveVars, vars, StoredIn, EntryOf, Current, Holds, View
  <2> QED
    BY <1>8, <2>1 DEF recursiveVars, vars, RecursivePromise!vars, Idle
<1> QED
  BY <1>1, <1>2, <1>3, <1>4, <1>5, <1>6, <1>7, <1>8 DEF NextRecursive, RunCall, OramStep

(* For every tree, payload set and capacity, an ORAM whose position map is in    *)
(* another ORAM is an array of blocks: whichever calls of the inner one throw,    *)
(* in the middle of whatever step of the outer, a GET answers the last PUT to    *)
(* every block but those the exceptions may have cost, at most two each.       *)
THEOREM RecursionKeepsPromise == SpecRecursive => KeepsPromiseRecursively
<1>1. RInv /\ [NextRecursive]_recursiveVars
        => RInv' /\ [RecursivePromise!Next]_RecursivePromise!vars
  BY StepR, StepRefinesR
<1> QED
  BY InitR, InitRefinesR, <1>1, PTL
  DEF SpecRecursive, KeepsPromiseRecursively, RecursivePromise!Spec

-----------------------------------------------------------------------------
(* Progress *)

(* Where a call is: its steps come in this order, for each request again,     *)
StageOf == [prefetch |-> 1, remap |-> 2, set |-> 3, read |-> 4, update |-> 5, write |-> 6,
            sync |-> 7]

(* and each call of the inner ORAM is made, is served, and is over.           *)
MapStage == IF MapIdle THEN 0 ELSE mapNext

(* What a step has asked the map about is part of what it has to ask about,   *)
(* and what it is asking about is none of it.                                *)
AskedOK ==
  /\ phase \notin {"prefetch", "write"} => asked = {}
  /\ phase = "prefetch" =>
       \E m \in 0 .. BatchSize :
         /\ asked = 1 .. m /\ asked \subseteq DOMAIN requests
         /\ mapStatus = "busy" => m + 1 \in DOMAIN requests
  /\ phase = "write" =>
       /\ asked \subseteq DOMAIN stash
       /\ mapStatus = "busy" => mapRequests[1].block \in DOMAIN stash \ asked

(* A step inside a call ends it, goes on to another request or to a later     *)
(* step for this one, or has asked the map about one thing more, or has got   *)
(* further with asking. None of these can go on forever: requests, stages and *)
(* what there is to ask about are bounded.                                   *)
CallAdvances ==
  ~Idle =>
    \/ Idle'
    \/ requests' = requests /\ next' = next + 1 /\ next \in DOMAIN requests
    \/ UNCHANGED <<requests, next>> /\ StageOf[phase] < StageOf[phase']
    \/ /\ UNCHANGED <<requests, next, phase, stash>>
       /\ \/ /\ asked \subseteq asked' /\ asked # asked'
             /\ asked' \subseteq IF phase = "write" THEN DOMAIN stash ELSE DOMAIN requests
          \/ asked' = asked /\ MapStage < MapStage' /\ MapStage' \in 1 .. 2

LEMMA InitAsked == InitRecursive => AskedOK
BY DEF InitRecursive, Init, AskedOK

(* The requests of a call are numbered from 1. *)
LEMMA RequestsFrom1 ==
  ASSUME RInv
  PROVE  \E n \in 0 .. BatchSize : DOMAIN requests = 1 .. n
BY DEF RInv, TypeR, Calls

LEMMA AsksAdvance ==
  ASSUME RInv, AskedOK, PrefetchAsks \/ RemapAsks \/ RemapSets \/ WriteAsks
  PROVE  AskedOK' /\ CallAdvances
<1>1. /\ UNCHANGED <<phase, stash, requests, next, asked>>
      /\ MapIdle /\ mapStatus' = "busy" /\ mapNext' = mapNext
  BY DEF PrefetchAsks, RemapAsks, RemapSets, WriteAsks, GetPosition, SetPosition, CallMap,
         outerVars, call
<1>2. MapStage = 0 /\ MapStage' = 1
  BY <1>1 DEF RInv, MapCallOK, MapIdle, MapStage
<1>3. phase = "prefetch" =>
        \E m \in 0 .. BatchSize : asked = 1 .. m /\ asked \subseteq DOMAIN requests
                                  /\ m + 1 \in DOMAIN requests
  <2> SUFFICES ASSUME phase = "prefetch"
               PROVE  \E m \in 0 .. BatchSize : asked = 1 .. m /\ asked \subseteq DOMAIN requests
                                                /\ m + 1 \in DOMAIN requests
    OBVIOUS
  <2>1. PICK i \in DOMAIN requests \ asked : 1 .. i - 1 \subseteq asked
    BY DEF PrefetchAsks, RemapAsks, RemapSets, WriteAsks
  <2>2. PICK m \in 0 .. BatchSize : asked = 1 .. m /\ asked \subseteq DOMAIN requests
    BY DEF AskedOK
  <2>3. PICK n \in 0 .. BatchSize : DOMAIN requests = 1 .. n
    BY RequestsFrom1
  <2>4. i = m + 1
    <3>1. i \in 1 .. n /\ i \notin 1 .. m /\ m \in Nat
      BY <2>1, <2>2, <2>3, SizeAssumption
    <3>2. i - 1 \in 1 .. i - 1 => i - 1 \in 1 .. m
      BY <2>1, <2>2
    <3> QED
      BY <3>1, <3>2
  <2> QED
    BY <2>1, <2>2, <2>4
<1>4. phase = "write" =>
        asked \subseteq DOMAIN stash /\ mapRequests'[1].block \in DOMAIN stash \ asked
  BY DEF AskedOK, PrefetchAsks, RemapAsks, RemapSets, WriteAsks, GetPosition, CallMap
<1>5. AskedOK'
  BY <1>1, <1>3, <1>4 DEF AskedOK
<1>6. CallAdvances
  BY <1>1, <1>2 DEF CallAdvances
<1> QED
  BY <1>5, <1>6

LEMMA ServesAdvances ==
  ASSUME RInv, AskedOK, MapServes
  PROVE  AskedOK' /\ CallAdvances
<1>1. /\ UNCHANGED <<phase, stash, requests, next, asked, mapRequests, mapStatus>>
      /\ mapStatus = "busy" /\ mapNext \in DOMAIN mapRequests /\ mapNext' = mapNext + 1
  BY DEF MapServes, Map!Serve, outerVars, call
<1>2. mapNext = 1 /\ mapNext' = 2
  BY <1>1 DEF RInv, MapCallOK
<1>3. MapStage = 1 /\ MapStage' = 2
  BY <1>1, <1>2 DEF MapIdle, MapStage
<1>4. AskedOK'
  BY <1>1 DEF AskedOK
<1> QED
  BY <1>1, <1>3, <1>4 DEF CallAdvances

(* The answer of the inner ORAM: one request, or one block, that has not been *)
(* asked about before.                                                      *)
LEMMA AnsweredAdvances ==
  ASSUME RInv, AskedOK, PrefetchAnswered \/ RemapAnswered \/ RemapSet \/ WriteAnswered
  PROVE  AskedOK' /\ CallAdvances
<1>1. /\ UNCHANGED <<stash, requests, next>>
      /\ mapStatus = "busy" /\ mapStatus' = "returned"
  BY DEF PrefetchAnswered, RemapAnswered, RemapSet, WriteAnswered, MapReturns,
         Map!Return, Map!End, outerVars, call
<1>2. CASE PrefetchAnswered
  <2>1. phase = "prefetch" /\ phase' = phase /\ asked' = asked \cup {Cardinality(asked) + 1}
    BY <1>2 DEF PrefetchAnswered, outerVars
  <2>2. PICK m \in 0 .. BatchSize : /\ asked = 1 .. m /\ asked \subseteq DOMAIN requests
                                    /\ m + 1 \in DOMAIN requests
    BY <1>1, <2>1 DEF AskedOK
  <2>3. PICK n \in 0 .. BatchSize : DOMAIN requests = 1 .. n
    BY RequestsFrom1
  <2>4. Cardinality(asked) = m
    BY <2>2, FS_Interval
  <2>5. m + 1 \in 0 .. BatchSize /\ asked' = 1 .. m + 1 /\ asked' \subseteq DOMAIN requests
    BY <2>1, <2>2, <2>3, <2>4, SizeAssumption
  <2>6. m + 1 \in asked' /\ m + 1 \notin asked
    BY <2>2, <2>5
  <2>7. AskedOK'
    BY <1>1, <2>1, <2>5 DEF AskedOK
  <2> QED
    BY <1>1, <2>1, <2>5, <2>6, <2>7 DEF CallAdvances
<1>3. CASE RemapAnswered \/ RemapSet
  <2>1. /\ \/ phase = "remap" /\ phase' = "set"
           \/ phase = "set" /\ phase' = "read"
        /\ asked' = asked
    BY <1>3 DEF RemapAnswered, RemapSet
  <2>2. StageOf[phase] < StageOf[phase']
    BY <2>1 DEF StageOf
  <2>3. AskedOK'
    BY <2>1 DEF AskedOK
  <2> QED
    BY <1>1, <2>2, <2>3 DEF CallAdvances
<1>4. CASE WriteAnswered
  <2>1. /\ phase = "write" /\ phase' = phase
        /\ asked' = asked \cup {mapRequests[1].block}
    BY <1>4 DEF WriteAnswered, outerVars
  <2>2. asked \subseteq DOMAIN stash /\ mapRequests[1].block \in DOMAIN stash \ asked
    BY <1>1, <2>1 DEF AskedOK
  <2>3. AskedOK'
    BY <1>1, <2>1, <2>2 DEF AskedOK
  <2> QED
    BY <1>1, <2>1, <2>2, <2>3 DEF CallAdvances
<1> QED
  BY <1>2, <1>3, <1>4

(* The steps that the outer ORAM takes by itself. *)
LEMMA OwnStepsAdvance ==
  ASSUME RInv, AskedOK,
         \/ PathRefused \/ MapThrows \/ PrefetchPaths \/ ReadPathKnown
         \/ UpdateStash \/ WriteAsAnswered \/ SyncAll
  PROVE  AskedOK' /\ CallAdvances
<1>1. CASE PathRefused \/ MapThrows \/ SyncAll
  <2>1. Idle' /\ asked' = {}
    BY <1>1 DEF PathRefused, MapThrows, SyncAll, Sync, Leave, Idle, AskedOK
  <2> QED
    BY <2>1 DEF AskedOK, CallAdvances, Idle
<1>2. CASE PrefetchPaths
  <2>1. /\ UNCHANGED <<requests, next>> /\ asked' = {} /\ phase = "prefetch"
        /\ phase' \in {"remap", "sync"}
    BY <1>2 DEF PrefetchPaths, call
  <2>2. StageOf[phase] < StageOf[phase']
    BY <2>1 DEF StageOf
  <2> QED
    BY <2>1, <2>2 DEF AskedOK, CallAdvances
<1>3. CASE ReadPathKnown \/ UpdateStash
  <2>1. /\ asked' = asked /\ phase \in {"read", "update"} /\ mapStatus' = mapStatus
        /\ \/ Idle'
           \/ /\ UNCHANGED <<requests, next>>
              /\ \/ phase = "read" /\ phase' = "update"
                 \/ phase = "update" /\ phase' = "write"
    BY <1>3 DEF ReadPathKnown, UpdateStash, ReadPath, ReadPathOverflows, Update,
                UpdateOverflows, Leave, Idle, call, mapVars
  <2>2. mapStatus # "busy" /\ asked = {}
    BY <2>1 DEF RInv, MapCallOK, AskedOK
  <2>3. AskedOK'
    BY <2>1, <2>2 DEF AskedOK, Idle
  <2>4. Idle' \/ StageOf[phase] < StageOf[phase']
    BY <2>1 DEF StageOf
  <2> QED
    BY <2>1, <2>3, <2>4 DEF CallAdvances
<1>4. CASE WriteAsAnswered
  <2>1. /\ requests' = requests /\ next' = next + 1 /\ asked' = {}
        /\ phase = "write" /\ phase' \in {"remap", "sync"}
    BY <1>4 DEF WriteAsAnswered, Advance
  <2>2. next \in DOMAIN requests
    BY <2>1 DEF RInv, CallR, InAccess
  <2> QED
    BY <2>1, <2>2 DEF AskedOK, CallAdvances
<1> QED
  BY <1>1, <1>2, <1>3, <1>4

LEMMA BeginAdvances ==
  ASSUME RInv, AskedOK,
         \/ \E b \in Blocks : BeginCall(Get(b))
         \/ \E b \in Blocks, d \in Data : BeginCall(Put(b, d))
         \/ \E batch \in Batches : BeginCall(Multiple(batch))
  PROVE  AskedOK' /\ CallAdvances
<1>1. /\ Idle /\ phase' \in {"remap", "prefetch"} /\ asked' = asked
      /\ mapStatus # "busy" /\ mapStatus' = mapStatus
  BY DEF BeginCall, Get, Put, Multiple, Begin, MapIdle, mapVars
<1>2. asked = {}
  BY <1>1 DEF AskedOK, Idle
<1>3. asked' = 1 .. 0 /\ 0 \in 0 .. BatchSize
  BY <1>1, <1>2, SizeAssumption
<1> QED
  BY <1>1, <1>2, <1>3 DEF AskedOK, CallAdvances

LEMMA StepAdvances ==
  ASSUME RInv, AskedOK, [NextRecursive]_recursiveVars
  PROVE  AskedOK' /\ [CallAdvances]_recursiveVars
<1>1. CASE UNCHANGED recursiveVars
  BY <1>1 DEF recursiveVars, vars, mapVars, AskedOK
<1>2. CASE NextRecursive
  BY <1>2, AsksAdvance, ServesAdvances, AnsweredAdvances, OwnStepsAdvance, BeginAdvances
  DEF NextRecursive, RunCall
<1> QED
  BY <1>1, <1>2

(* The part of CallsEnd that needs no fairness: whatever the inner ORAM         *)
(* answers and wherever it throws, a call of the outer one never comes back to  *)
(* where it was, and asks about each request and each block of its stash once.  *)
THEOREM CallsAdvance == SpecRecursive => [][CallAdvances]_recursiveVars
<1>1. RInv /\ AskedOK /\ [NextRecursive]_recursiveVars
        => RInv' /\ AskedOK' /\ [CallAdvances]_recursiveVars
  BY StepR, StepAdvances
<1>2. InitRecursive => RInv /\ AskedOK
  BY InitR, InitAsked
<1> QED
  BY <1>1, <1>2, PTL DEF SpecRecursive

=============================================================================
