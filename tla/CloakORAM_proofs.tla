--------------------------- MODULE CloakORAM_proofs ---------------------------
(***************************************************************************)
(* Proofs about CloakORAM, for every tree, stash and sequence of accesses,   *)
(* failures and sessions: the MACs of the buckets are those of their latest  *)
(* contents, and every block is on the path of its leaf.                     *)
(***************************************************************************)
EXTENDS CloakORAM, TLAPS

(* What the programs do right: the key they save is that of the storage, and  *)
(* sessions start from the state the storage is in. Padding leaves payloads   *)
(* that fill a block alone.                                                 *)
ProperSessions ==
  /\ SameKey = TRUE /\ KeepOutdated = FALSE
  /\ \A d : d.size = BlockSize => Padded(d) = d

(* A bucket whose payloads all fill a block. *)
Full(bucket) ==
  /\ bucket = [b \in DOMAIN bucket |-> bucket[b]]
  /\ \A b \in DOMAIN bucket : bucket[b].size = BlockSize

AllFull == \A location \in Locations : Full(View(location))

(* A backup that is there belongs to the storage as it is: no path has been    *)
(* read since, and what was in the cache is stored.                          *)
BackupFits ==
  /\ phase = "returned" => cache = Nothing
  /\ backup.saved =>
       /\ phase \in {"returned", "remap"}
       /\ cache = Nothing
       /\ \E b \in Blocks : expected[b] # NoContainer
       /\ \A location \in DOMAIN backup.macs \cap Locations :
            backup.macs[location] = Mac(storage[location])

IInv == MacsMatch /\ AllFull /\ BackupFits

-----------------------------------------------------------------------------
(* Facts about buckets *)

LEMMA NothingViews ==
  ASSUME cache = Nothing, NEW location
  PROVE  View(location) = storage[location]
BY DEF View, Nothing

LEMMA NothingFull == Full(Nothing)
BY DEF Full, Nothing

LEMMA PaddedFull ==
  ASSUME ProperSessions, NEW bucket, Full(bucket)
  PROVE  Pad(bucket) = bucket
<1>1. \A b \in DOMAIN bucket : Padded(bucket[b]) = bucket[b]
  BY DEF ProperSessions, Full
<1>2. Pad(bucket) = [b \in DOMAIN bucket |-> bucket[b]]
  BY <1>1 DEF Pad, PadIn
<1> QED
  BY <1>2 DEF Full

LEMMA PopulatedFull == \A location : Full(PopulatedBucket(location))
BY CloakConstants DEF Full, PopulatedBucket

(* A download changes nothing that is seen, and so the MACs still fit. *)
LEMMA SameView ==
  ASSUME MacsMatch, AllFull, UNCHANGED macs,
         \A location \in Locations : View(location)' = View(location)
  PROVE  (MacsMatch /\ AllFull)'
BY DEF MacsMatch, AllFull

LEMMA FetchedView ==
  ASSUME NEW locations, Fetch(locations), storage' = storage
  PROVE  \A location : View(location)' = View(location)
BY DEF Fetch, View

(* However reading a path ends, what the class sees of the tree is the same. *)
LEMMA ReadView ==
  ASSUME ReadPathChecked \/ ReadPathRefused \/ StashOverflows \/ UpdateResized
           \/ StorageGetFails
  PROVE  \A location \in Locations : View(location)' = View(location)
<1>1. CASE ReadPathChecked \/ ReadPathRefused
  <2>1. storage' = storage /\ \E locations : Fetch(locations)
    BY <1>1 DEF ReadPathChecked, ReadPathRefused, Downloaded
  <2> QED
    BY <2>1, FetchedView
<1>2. CASE StashOverflows
  <2>1. storage' = storage /\ (cache' = cache \/ \E locations : Fetch(locations))
    BY <1>2 DEF StashOverflows, UpdateOverflows, Downloaded, tree
  <2> QED
    BY <2>1, FetchedView DEF View
<1>3. CASE UpdateResized \/ StorageGetFails
  BY <1>3 DEF UpdateResized, StorageGetFails, tree, View
<1> QED
  BY <1>1, <1>2, <1>3

(* A step inside a call: no backup is there, and none is made. *)
LEMMA InsideCall ==
  ASSUME BackupFits, phase \notin {"returned", "remap"}, phase' # "returned", backup' = backup
  PROVE  BackupFits'
BY DEF BackupFits

-----------------------------------------------------------------------------
(* Inits and steps *)

LEMMA InitInv == CloakInit => IInv
<1> SUFFICES ASSUME CloakInit PROVE IInv
  OBVIOUS
<1>1. cache = Nothing /\ \A location \in Locations : storage[location] = Nothing
  BY DEF CloakInit, Init
<1>2. AllFull
  BY <1>1, NothingViews, NothingFull DEF AllFull
<1>3. MacsMatch
  BY DEF CloakInit, MacsMatch, Nothing
<1>4. BackupFits
  BY <1>1 DEF BackupFits, CloakInit, NoBackup
<1> QED
  BY <1>2, <1>3, <1>4 DEF IInv

LEMMA SetUpInv ==
  ASSUME IInv, SetUp
  PROVE  IInv'
<1>1. cache' = Nothing /\ cache = Nothing
  BY DEF SetUp
<1>2. \A location \in Locations : View(location)' = storage'[location]
  BY <1>1 DEF View, Nothing
<1>3. \A location \in Locations : Full(storage'[location])
  <2>1. \A location \in Locations : Full(storage[location])
    BY <1>1, NothingViews DEF IInv, AllFull
  <2> QED
    BY <2>1, PopulatedFull DEF SetUp
<1>4. \A location \in Locations : macs'[location] = Mac(storage'[location])
  BY DEF SetUp
<1>5. AllFull'
  BY <1>2, <1>3 DEF AllFull
<1>6. MacsMatch'
  BY <1>2, <1>4 DEF MacsMatch
<1>7. ~backup.saved
  BY DEF SetUp, IInv, BackupFits
<1>8. BackupFits'
  BY <1>1, <1>7 DEF SetUp, BackupFits
<1> QED
  BY <1>5, <1>6, <1>8 DEF IInv

(* get and put begin. *)
LEMMA BeginInv ==
  ASSUME IInv, NEW batch, Begin(batch, "remap"), UNCHANGED cloakVars
  PROVE  IInv'
<1>1. \A location \in Locations : View(location)' = View(location)
  BY DEF Begin, tree, View
<1>2. (MacsMatch /\ AllFull)'
  BY <1>1, SameView DEF IInv, cloakVars
<1>3. BackupFits'
  BY DEF IInv, BackupFits, Begin, cloakVars, tree, Idle
<1> QED
  BY <1>2, <1>3 DEF IInv

LEMMA RemapInv ==
  ASSUME ProperSessions, IInv, RemapBlock
  PROVE  IInv'
<1>1. \A location \in Locations : View(location)' = View(location)
  BY DEF RemapBlock, Remap, tree, View
<1>2. (MacsMatch /\ AllFull)'
  BY <1>1, SameView DEF IInv, RemapBlock
<1>3. BackupFits'
  BY DEF BackupFits, RemapBlock, Remap, ProperSessions, NoBackup
<1> QED
  BY <1>2, <1>3 DEF IInv

(* What reads, or fails before it writes. *)
LEMMA ReadingInv ==
  ASSUME IInv,
         ReadPathChecked \/ ReadPathRefused \/ StashOverflows \/ UpdateResized
           \/ (StorageGetFails /\ UNCHANGED cloakVars)
  PROVE  IInv'
<1>1. \A location \in Locations : View(location)' = View(location)
  BY ReadView
<1>2. UNCHANGED <<macs, backup>>
  BY DEF ReadPathChecked, ReadPathRefused, StashOverflows, UpdateResized, cloakVars
<1>3. phase \notin {"returned", "remap"} /\ phase' # "returned"
  BY DEF ReadPathChecked, ReadPathRefused, StashOverflows, UpdateOverflows, UpdateResized,
         StorageGetFails, Leave
<1>4. (MacsMatch /\ AllFull)'
  BY <1>1, <1>2, SameView DEF IInv
<1>5. BackupFits'
  BY <1>2, <1>3, InsideCall DEF IInv
<1> QED
  BY <1>4, <1>5 DEF IInv

LEMMA WritePathInv ==
  ASSUME IInv, WritePathMacs
  PROVE  IInv'
<1> DEFINE eligible == {b \in DOMAIN stash : stash[b].size = BlockSize}
<1>1. PICK placed \in [eligible -> Levels \cup {Kept}] :
        LET evict == [b \in DOMAIN stash |-> IF b \in eligible THEN placed[b] ELSE Kept]
        IN  /\ cache' = [location \in DOMAIN cache \cup Path(prev) |->
                           IF location \in Path(prev)
                           THEN WrittenBucket(evict, location) ELSE cache[location]]
            /\ macs' = MacsAfter(evict)
  BY DEF WritePathMacs
<1> DEFINE evict == [b \in DOMAIN stash |-> IF b \in eligible THEN placed[b] ELSE Kept]
<1>2. \A location : Full(WrittenBucket(evict, location))
  <2>1. \A level \in Levels : level # Kept
    BY TreeAssumption DEF Levels, Kept
  <2>2. \A b \in DOMAIN stash, level \in Levels : evict[b] = level => stash[b].size = BlockSize
    BY <2>1
  <2> HIDE DEF evict, eligible
  <2> QED
    BY <2>2 DEF WrittenBucket, Full
<1>3. \A location \in Locations :
        View(location)' = IF location \in Path(prev)
                          THEN WrittenBucket(evict, location) ELSE View(location)
  BY <1>1 DEF WritePathMacs, View
<1>4. AllFull'
  BY <1>2, <1>3 DEF IInv, AllFull
<1>5. \A location \in DOMAIN macs' :
        macs'[location] = IF location \in Path(prev)
                          THEN Mac(WrittenBucket(evict, location)) ELSE macs[location]
  BY <1>1 DEF MacsAfter
<1>6. DOMAIN macs' = DOMAIN macs \cup Path(prev)
  BY <1>1 DEF MacsAfter
<1> HIDE DEF evict, eligible
<1>7. MacsMatch'
  BY <1>3, <1>5, <1>6 DEF IInv, MacsMatch
<1>8. BackupFits'
  BY InsideCall DEF IInv, WritePathMacs
<1> QED
  BY <1>4, <1>7, <1>8 DEF IInv

(* Storing the cache pads nothing. *)
LEMMA SyncView ==
  ASSUME ProperSessions, IInv,
         SyncCache \/ (StorageSetFails /\ UNCHANGED cloakVars)
  PROVE  \A location \in Locations : View(location)' = View(location)
<1>1. \A location \in Locations \cap DOMAIN cache : Pad(cache[location]) = cache[location]
  BY PaddedFull DEF IInv, AllFull, View
<1>2. CASE SyncCache
  <2>1. /\ cache' = Nothing
        /\ storage' = [location \in Locations |->
              IF location \in DOMAIN cache THEN Pad(cache[location]) ELSE storage[location]]
    BY <1>2 DEF SyncCache, Sync, Upload
  <2> QED
    BY <1>1, <2>1 DEF View, Nothing
<1>3. CASE StorageSetFails
  <2>1. /\ cache' = [location \in DOMAIN cache |-> Pad(cache[location])]
        /\ \E locations \in SUBSET DOMAIN cache :
             storage' = [location \in Locations |->
               IF location \in locations THEN Pad(cache[location]) ELSE storage[location]]
    BY <1>3 DEF StorageSetFails, Upload
  <2> QED
    BY <1>1, <2>1 DEF View
<1> QED
  BY <1>2, <1>3

LEMMA SyncInv ==
  ASSUME ProperSessions, IInv,
         SyncCache \/ (StorageSetFails /\ UNCHANGED cloakVars)
  PROVE  IInv'
<1>1. phase = "sync" /\ UNCHANGED cloakVars
  BY DEF SyncCache, Sync, StorageSetFails
<1>2. phase' \in {"returned", "threw"} /\ (phase' = "returned" => cache' = Nothing)
  BY DEF SyncCache, Sync, StorageSetFails, Leave
<1>3. (MacsMatch /\ AllFull)'
  BY <1>1, SyncView, SameView DEF IInv, cloakVars
<1>4. BackupFits'
  BY <1>1, <1>2 DEF IInv, BackupFits, cloakVars
<1> QED
  BY <1>3, <1>4 DEF IInv

LEMMA SessionsInv ==
  ASSUME ProperSessions, IInv, Backup \/ Restart
  PROVE  IInv'
<1>1. CASE Backup
  <2>1. UNCHANGED vars /\ macs' = macs
    BY <1>1 DEF Backup
  <2>2. \A location \in Locations : View(location)' = View(location)
    BY <2>1 DEF vars, tree, View
  <2>3. (MacsMatch /\ AllFull)'
    BY <2>1, <2>2, SameView DEF IInv
  <2>4. phase = "returned" /\ cache = Nothing
    BY <1>1 DEF Backup, IInv, BackupFits
  <2>5. \A location \in DOMAIN macs \cap Locations : macs[location] = Mac(storage[location])
    BY <2>4, NothingViews DEF IInv, MacsMatch
  <2>6. BackupFits'
    BY <1>1, <2>1, <2>4, <2>5 DEF Backup, BackupFits, vars, tree
  <2> QED
    BY <2>3, <2>6 DEF IInv
<1>2. CASE Restart
  <2>1. /\ cache = Nothing /\ cache' = Nothing /\ storage' = storage
        /\ phase' = "returned" /\ UNCHANGED <<backup, expected>>
        /\ backup.saved
    BY <1>2 DEF Restart, ProperSessions, IInv, BackupFits, Leave
  <2>2. \A location \in Locations :
          View(location)' = storage[location] /\ View(location) = storage[location]
    BY <2>1 DEF View, Nothing
  <2>3. AllFull'
    BY <2>2 DEF IInv, AllFull
  <2>4. macs' = backup.macs \/ macs' = Nothing
    BY <1>2 DEF Restart
  <2>5. \A location \in DOMAIN macs' \cap Locations : macs'[location] = Mac(storage[location])
    BY <2>1, <2>4 DEF IInv, BackupFits, Nothing
  <2>6. MacsMatch'
    BY <2>2, <2>5 DEF MacsMatch
  <2>7. BackupFits'
    BY <2>1 DEF IInv, BackupFits
  <2> QED
    BY <2>3, <2>6, <2>7 DEF IInv
<1> QED
  BY <1>1, <1>2

LEMMA StepInv ==
  ASSUME ProperSessions
  PROVE  IInv /\ [CloakNext]_allVars => IInv'
<1> SUFFICES ASSUME IInv, [CloakNext]_allVars PROVE IInv'
  OBVIOUS
<1>1. CASE \/ \E b \in Blocks : GetContainer(b)
           \/ \E b \in Blocks, d \in Containers : PutContainer(b, d)
  BY <1>1, BeginInv DEF GetContainer, PutContainer, Get, Put
<1>2. CASE StorageFails
  BY <1>2, ReadingInv, SyncInv DEF StorageFails
<1>3. CASE UNCHANGED allVars
  BY <1>3 DEF allVars, vars, tree, cloakVars, IInv, MacsMatch, AllFull, BackupFits, View
<1> QED
  BY <1>1, <1>2, <1>3, SetUpInv, RemapInv, ReadingInv, WritePathInv, SyncInv, SessionsInv
     DEF CloakNext

(* For every tree and stash: the MAC of each bucket is that of what was       *)
(* written to it last, also after stores that failed half-way, and after      *)
(* sessions that restored the MACs from a backup or did without, as long as    *)
(* programs save the key of the storage and start from its latest backup.     *)
THEOREM MacsStayInStep == ProperSessions => (CloakSpec => []MacsMatch)
<1> SUFFICES ASSUME ProperSessions PROVE CloakSpec => []MacsMatch
  OBVIOUS
<1>1. IInv /\ [CloakNext]_allVars => IInv'
  BY StepInv
<1>2. IInv => MacsMatch
  BY DEF IInv
<1> QED
  BY InitInv, <1>1, <1>2, PTL DEF CloakSpec

-----------------------------------------------------------------------------
(***************************************************************************)
(* A restored ORAM has every block on its path, whatever the containers.     *)
(***************************************************************************)

(* populateStorage puts blocks where the position map does not have them.     *)
FreshSessions == Populated = FALSE /\ KeepOutdated = FALSE

(* What is needed of the types, and where a call is. *)
Shape ==
  /\ positionMap \in [Blocks -> Leaves]
  /\ DOMAIN stash \subseteq Blocks
  /\ phase # "sync" => next = 1
  /\ phase = "remap" \/ InAccess => DOMAIN requests = {1} /\ Current.block \in Blocks
  /\ InAccess => prev \in Leaves

(* A full stash may turn a PUT down once the path was read: then the tree      *)
(* holds no copy of the block, which is remapped already.                     *)
PathLoaded == phase \in {"update", "write"} => OnPath(prev) \subseteq DOMAIN stash

(* A backup that is there has the position map as it is. *)
BackupMaps ==
  /\ phase = "returned" => cache = Nothing
  /\ backup.saved =>
       /\ phase \in {"returned", "remap"}
       /\ cache = Nothing
       /\ backup.positionMap = positionMap
       /\ DOMAIN backup.stash \subseteq Blocks

OnPathInv == Shape /\ OnMappedPath /\ PathLoaded /\ BackupMaps

(* A step inside a call: no backup is there, and none is made. *)
LEMMA InsideCallMaps ==
  ASSUME BackupMaps, phase \notin {"returned", "remap"}, phase' # "returned", backup' = backup
  PROVE  BackupMaps'
BY DEF BackupMaps

LEMMA InitOnPath == CloakInit => OnPathInv
<1> SUFFICES ASSUME CloakInit PROVE OnPathInv
  OBVIOUS
<1>1. DOMAIN stash = {} /\ \A location \in Locations : DOMAIN View(location) = {}
  BY DEF CloakInit, Init, View, Nothing
<1>2. phase = "returned" /\ next = 1 /\ cache = Nothing /\ ~backup.saved
  BY DEF CloakInit, Init, NoBackup
<1>3. positionMap \in [Blocks -> Leaves]
  BY DEF CloakInit, Init
<1> QED
  BY <1>1, <1>2, <1>3
     DEF OnPathInv, Shape, OnMappedPath, Holds, PathLoaded, BackupMaps, InAccess

(* A step outside of accesses, after which the class sees what it saw before, *)
(* or nothing.                                                              *)
LEMMA OutsideAccess ==
  ASSUME OnPathInv, ~InAccess, ~InAccess', UNCHANGED <<positionMap, damaged>>,
         \A location \in Locations :
           View(location)' = View(location) \/ View(location)' = Nothing
  PROVE  (OnMappedPath /\ PathLoaded)'
<1>1. \A location \in Locations, b \in Blocks : Holds(location, b)' => Holds(location, b)
  BY DEF Holds, Nothing
<1>2. \A b \in Blocks : PositionOf(b) = positionMap[b] /\ PositionOf(b)' = positionMap[b]
  BY DEF PositionOf
<1>3. OnMappedPath'
  BY <1>1, <1>2 DEF OnPathInv, OnMappedPath
<1> QED
  BY <1>3 DEF PathLoaded, InAccess

(* An access that throws while it reads its path. *)
LEMMA ThrowingOnPath ==
  ASSUME OnPathInv, InAccess, ~InAccess', UNCHANGED positionMap,
         damaged \subseteq damaged',
         Current.block \in OnPath(prev) => Current.block \in damaged',
         \A location \in Locations : View(location)' = View(location)
  PROVE  (OnMappedPath /\ PathLoaded)'
<1>1. OnMappedPath'
  <2> SUFFICES ASSUME NEW location \in Locations, NEW b \in Blocks \ damaged',
                      Holds(location, b)
               PROVE  location \in Path(positionMap[b])
    BY DEF OnMappedPath, Holds, PositionOf
  <2>1. location \in Path(PositionOf(b))
    BY DEF OnPathInv, OnMappedPath
  <2>2. b # Current.block
    BY <2>1 DEF PositionOf, OnPath
  <2> QED
    BY <2>1, <2>2 DEF PositionOf
<1> QED
  BY <1>1 DEF PathLoaded, InAccess

(* Resizing its payloads, add still puts all blocks into the stash. *)
LEMMA AddedBlocks ==
  ASSUME NEW ids, AddResized(ids)
  PROVE  DOMAIN stash' = DOMAIN stash \cup ids
<1>1. CASE ids = {}
  BY <1>1 DEF AddResized
<1>2. CASE ids # {}
  BY <1>2 DEF AddResized
<1> QED
  BY <1>1, <1>2

LEMMA SetUpOnPath ==
  ASSUME FreshSessions, OnPathInv, SetUp
  PROVE  OnPathInv'
<1>1. /\ phase \in {"returned", "threw"} /\ cache = Nothing
      /\ UNCHANGED <<positionMap, stash, cache, call, phase, damaged, backup>>
  BY DEF SetUp, Idle
<1>2. \A location \in Locations : View(location)' = View(location)
  BY <1>1 DEF SetUp, FreshSessions, View, Nothing
<1>3. (OnMappedPath /\ PathLoaded)'
  BY <1>1, <1>2, OutsideAccess DEF InAccess
<1>4. Shape' /\ BackupMaps'
  BY <1>1 DEF OnPathInv, Shape, BackupMaps, InAccess, Current, call
<1> QED
  BY <1>3, <1>4 DEF OnPathInv

(* get and put of one block begin. *)
LEMMA BeginOnPath ==
  ASSUME OnPathInv, UNCHANGED cloakVars,
         NEW b \in Blocks, NEW write, NEW data,
         Begin([i \in 1 .. 1 |-> [block |-> b, write |-> write, data |-> data]], "remap")
  PROVE  OnPathInv'
<1>1. /\ phase \in {"returned", "threw"} /\ phase' = "remap"
      /\ UNCHANGED <<positionMap, stash, tree, next, damaged, backup>>
      /\ requests' = [i \in 1 .. 1 |-> [block |-> b, write |-> write, data |-> data]]
  BY DEF Begin, Idle, cloakVars
<1>2. \A location \in Locations : View(location)' = View(location)
  BY <1>1 DEF View, tree
<1>3. (OnMappedPath /\ PathLoaded)'
  BY <1>1, <1>2, OutsideAccess DEF InAccess
<1>4. Shape'
  BY <1>1 DEF OnPathInv, Shape, InAccess, Current
<1>5. BackupMaps'
  BY <1>1 DEF OnPathInv, BackupMaps, tree
<1> QED
  BY <1>3, <1>4, <1>5 DEF OnPathInv

LEMMA RemapOnPath ==
  ASSUME FreshSessions, OnPathInv, RemapBlock
  PROVE  OnPathInv'
<1>1. /\ phase = "remap" /\ phase' = "read" /\ prev' = positionMap[Current.block]
      /\ UNCHANGED <<stash, tree, requests, next, damaged>> /\ Current' = Current
      /\ ~backup'.saved
  BY DEF RemapBlock, Remap, Current, FreshSessions, NoBackup
<1>2. PICK leaf \in Leaves : positionMap' = [positionMap EXCEPT ![Current.block] = leaf]
  BY DEF RemapBlock, Remap
<1>3. Current.block \in Blocks /\ positionMap \in [Blocks -> Leaves]
  BY <1>1 DEF OnPathInv, Shape
<1>4. Shape'
  BY <1>1, <1>2, <1>3 DEF OnPathInv, Shape, InAccess
<1>5. \A b \in Blocks : PositionOf(b)' = PositionOf(b)
  BY <1>1, <1>2, <1>3 DEF PositionOf, InAccess
<1>6. \A location : View(location)' = View(location)
  BY <1>1 DEF View, tree
<1>7. OnMappedPath'
  BY <1>1, <1>5, <1>6 DEF OnPathInv, OnMappedPath, Holds
<1>8. PathLoaded' /\ BackupMaps'
  BY <1>1 DEF PathLoaded, BackupMaps
<1> QED
  BY <1>4, <1>7, <1>8 DEF OnPathInv

(* Reading a path and updating the block leave it where the tree has it. *)
LEMMA ReadOnPath ==
  ASSUME OnPathInv, ReadPathChecked \/ UpdateResized
  PROVE  OnPathInv'
<1>1. /\ phase \in {"read", "update"} /\ phase' \in {"update", "write"}
      /\ UNCHANGED <<positionMap, requests, next, prev, damaged, backup>> /\ Current' = Current
  BY DEF ReadPathChecked, UpdateResized, Current, call, cloakVars
<1>2. \A location \in Locations : View(location)' = View(location)
  BY ReadView
<1>3. Current.block \in Blocks /\ prev \in Leaves
  BY <1>1 DEF OnPathInv, Shape, InAccess
<1>4. \A location \in Path(prev) : location \in Locations
  BY <1>3, TreeAssumption DEF Path
<1>5. OnPath(prev)' = OnPath(prev)
  BY <1>1, <1>2, <1>4 DEF OnPath, Holds
<1>6. DOMAIN stash' \subseteq Blocks /\ PathLoaded'
  <2>1. CASE ReadPathChecked
    <3>1. DOMAIN stash' = DOMAIN stash \cup OnPath(prev)
      BY <2>1, AddedBlocks DEF ReadPathChecked
    <3> QED
      BY <1>1, <1>5, <3>1 DEF OnPathInv, Shape, PathLoaded, OnPath
  <2>2. CASE UpdateResized
    <3>1. DOMAIN stash' \in {DOMAIN stash, DOMAIN stash \cup {Current.block}}
      BY <2>2 DEF UpdateResized
    <3>2. OnPath(prev) \subseteq DOMAIN stash
      BY <2>2 DEF OnPathInv, PathLoaded, UpdateResized
    <3> QED
      BY <1>3, <1>1, <1>5, <3>1, <3>2 DEF OnPathInv, Shape, PathLoaded
  <2> QED
    BY <2>1, <2>2
<1>7. Shape'
  BY <1>1, <1>3, <1>6 DEF OnPathInv, Shape, InAccess
<1>8. \A b : PositionOf(b)' = PositionOf(b)
  BY <1>1 DEF PositionOf, InAccess
<1>9. OnMappedPath'
  BY <1>1, <1>2, <1>8 DEF OnPathInv, OnMappedPath, Holds
<1>10. BackupMaps'
  BY <1>1, InsideCallMaps DEF OnPathInv
<1> QED
  BY <1>6, <1>7, <1>9, <1>10 DEF OnPathInv

(* Exceptions before the path is written. *)
LEMMA ThrowsOnPath ==
  ASSUME OnPathInv,
         ReadPathRefused \/ StashOverflows \/ (StorageGetFails /\ UNCHANGED cloakVars)
  PROVE  OnPathInv'
<1>1. /\ phase \in {"prefetch", "read", "update"} /\ Leave("threw")
      /\ UNCHANGED <<positionMap, backup>>
  BY DEF ReadPathRefused, StashOverflows, UpdateOverflows, StorageGetFails, cloakVars
<1>2. \A location \in Locations : View(location)' = View(location)
  BY ReadView
<1>3. DOMAIN stash' \subseteq Blocks
  <2>1. stash' = stash \/ \E ids \in SUBSET OnPath(prev) : AddResized(ids)
    BY DEF ReadPathRefused, StashOverflows, UpdateOverflows, StorageGetFails
  <2>2. DOMAIN stash \subseteq Blocks /\ OnPath(prev) \subseteq Blocks
    BY DEF OnPathInv, Shape, OnPath
  <2> QED
    BY <2>1, <2>2, AddedBlocks
<1>4. Shape'
  BY <1>1, <1>3 DEF OnPathInv, Shape, Leave, InAccess
<1>5. (OnMappedPath /\ PathLoaded)'
  <2>1. CASE phase = "prefetch"
    <3>1. damaged' = damaged
      BY <2>1 DEF ReadPathRefused, StashOverflows, UpdateOverflows, StorageGetFails
    <3> QED
      BY <1>1, <1>2, <2>1, <3>1, OutsideAccess DEF Leave, InAccess
  <2>2. CASE phase = "read"
    <3>1. Orphan(Current.block)
      BY <2>2 DEF ReadPathRefused, StashOverflows, UpdateOverflows, StorageGetFails
    <3> QED
      BY <1>1, <1>2, <2>2, <3>1, ThrowingOnPath DEF Leave, InAccess, Orphan
  <2>3. CASE phase = "update"
    <3>1. damaged' = damaged /\ Current.block \notin DOMAIN stash
      BY <2>3 DEF ReadPathRefused, StashOverflows, UpdateOverflows, StorageGetFails
    <3>2. Current.block \notin OnPath(prev)
      BY <2>3, <3>1 DEF OnPathInv, PathLoaded
    <3> QED
      BY <1>1, <1>2, <2>3, <3>1, <3>2, ThrowingOnPath DEF Leave, InAccess
  <2> QED
    BY <1>1, <2>1, <2>2, <2>3
<1>6. BackupMaps'
  BY <1>1, InsideCallMaps DEF OnPathInv, Leave
<1> QED
  BY <1>4, <1>5, <1>6 DEF OnPathInv

(* The write of a path puts blocks only into buckets on their own paths, and   *)
(* replaces every old copy of the block that was accessed.                   *)
LEMMA WriteOnPath ==
  ASSUME OnPathInv, WritePathMacs
  PROVE  OnPathInv'
<1> DEFINE eligible == {b \in DOMAIN stash : stash[b].size = BlockSize}
<1>1. PICK placed \in [eligible -> Levels \cup {Kept}] :
        LET evict == [b \in DOMAIN stash |-> IF b \in eligible THEN placed[b] ELSE Kept]
        IN  /\ Greedy(placed, prev)
            /\ cache' = [location \in DOMAIN cache \cup Path(prev) |->
                           IF location \in Path(prev)
                           THEN WrittenBucket(evict, location) ELSE cache[location]]
            /\ stash' = [b \in {x \in DOMAIN stash : evict[x] = Kept} |-> stash[b]]
  BY DEF WritePathMacs
<1> DEFINE evict == [b \in DOMAIN stash |-> IF b \in eligible THEN placed[b] ELSE Kept]
<1>2. /\ phase = "write" /\ phase' = "sync" /\ prev \in Leaves
      /\ UNCHANGED <<positionMap, storage, damaged, backup>>
  BY DEF WritePathMacs, OnPathInv, Shape, InAccess
<1>3. ASSUME NEW b \in DOMAIN stash, NEW level \in Levels, evict[b] = level
      PROVE  CanInclude(positionMap[b], prev, level)
  <2>1. level # Kept
    BY TreeAssumption DEF Levels, Kept
  <2>2. b \in eligible /\ placed[b] = level
    BY <1>3, <2>1
  <2> QED
    BY <1>1, <2>2 DEF Greedy
<1>4. \A location \in Locations :
        View(location)' = IF location \in Path(prev)
                          THEN WrittenBucket(evict, location) ELSE View(location)
  BY <1>1, <1>2 DEF View
<1>5. DOMAIN stash' \subseteq DOMAIN stash
  BY <1>1
<1> HIDE DEF evict, eligible
<1>6. OnMappedPath'
  <2> SUFFICES ASSUME NEW location \in Locations, NEW b \in Blocks \ damaged,
                      Holds(location, b)'
               PROVE  location \in Path(positionMap[b])
    BY <1>2 DEF OnMappedPath, PositionOf, InAccess
  <2>1. CASE location \in Path(prev)
    <3>1. PICK level \in Levels : evict[b] = level /\ BucketFor(level, prev) = location
      BY <1>4, <2>1 DEF Holds, WrittenBucket
    <3>2. b \in DOMAIN stash
      BY <1>4, <2>1 DEF Holds, WrittenBucket
    <3> QED
      BY <1>3, <3>1, <3>2 DEF CanInclude, Path
  <2>2. CASE location \notin Path(prev)
    <3>1. location \in Path(PositionOf(b))
      BY <1>4, <2>2 DEF Holds, OnPathInv, OnMappedPath
    <3> QED
      BY <2>2, <3>1 DEF PositionOf
  <2> QED
    BY <2>1, <2>2
<1>7. Shape' /\ PathLoaded'
  BY <1>2, <1>5 DEF OnPathInv, Shape, PathLoaded, InAccess
<1>8. BackupMaps'
  BY <1>2, InsideCallMaps DEF OnPathInv
<1> QED
  BY <1>6, <1>7, <1>8 DEF OnPathInv

(* The end of a call, whether it stored the cache, or only some of it. *)
LEMMA SyncOnPath ==
  ASSUME OnPathInv, SyncCache \/ (StorageSetFails /\ UNCHANGED cloakVars)
  PROVE  OnPathInv'
<1>1. /\ phase = "sync" /\ phase' \in {"returned", "threw"} /\ next' = 1
      /\ UNCHANGED <<positionMap, stash, damaged, backup>>
      /\ phase' = "returned" => cache' = Nothing
  BY DEF SyncCache, Sync, StorageSetFails, Leave, cloakVars
<1>2. ASSUME NEW location \in Locations
      PROVE  DOMAIN View(location)' = DOMAIN View(location)
  <2>1. CASE SyncCache
    BY <2>1 DEF SyncCache, Sync, Upload, Pad, PadIn, View, Nothing
  <2>2. CASE StorageSetFails
    BY <2>2 DEF StorageSetFails, Upload, Pad, PadIn, View
  <2> QED
    BY <2>1, <2>2
<1>3. OnMappedPath'
  BY <1>1, <1>2 DEF OnPathInv, OnMappedPath, Holds, PositionOf, InAccess
<1>4. Shape' /\ PathLoaded' /\ BackupMaps'
  BY <1>1 DEF OnPathInv, Shape, PathLoaded, BackupMaps, InAccess
<1> QED
  BY <1>3, <1>4 DEF OnPathInv

(* What a session starts from belongs together: no path was read since the     *)
(* position map was saved. It need not even open the storage with its key.    *)
LEMMA SessionOnPath ==
  ASSUME OnPathInv, Backup \/ Restart
  PROVE  OnPathInv'
<1>1. CASE Backup
  <2>1. /\ phase = "returned" /\ cache = Nothing /\ UNCHANGED vars
        /\ backup'.positionMap = positionMap /\ backup'.stash = stash
    BY <1>1 DEF Backup, OnPathInv, BackupMaps
  <2>2. \A location \in Locations : View(location)' = View(location)
    BY <2>1 DEF vars, View
  <2>3. (OnMappedPath /\ PathLoaded)'
    BY <2>1, <2>2, OutsideAccess DEF vars, InAccess
  <2>4. Shape' /\ BackupMaps'
    BY <2>1 DEF OnPathInv, Shape, BackupMaps, InAccess, Current, vars
  <2> QED
    BY <2>3, <2>4 DEF OnPathInv
<1>2. CASE Restart
  <2>1. /\ backup.saved /\ phase \in {"returned", "remap"} /\ cache = Nothing
        /\ positionMap' = positionMap /\ cache' = Nothing
        /\ stash' \in LoadedStash(backup.stash)
        /\ phase' = "returned" /\ next' = 1 /\ UNCHANGED <<damaged, backup>>
    BY <1>2 DEF Restart, LoadedMap, OnPathInv, BackupMaps, Leave
  <2>2. \A location \in Locations :
          View(location)' = View(location) \/ View(location)' = Nothing
    BY <1>2, <2>1 DEF Restart, View, Nothing
  <2>3. (OnMappedPath /\ PathLoaded)'
    BY <2>1, <2>2, OutsideAccess DEF InAccess
  <2>4. DOMAIN stash' \subseteq DOMAIN backup.stash
    BY <2>1 DEF LoadedStash, Nothing
  <2>5. DOMAIN stash' \subseteq Blocks
    BY <2>1, <2>4 DEF OnPathInv, BackupMaps
  <2>6. Shape' /\ BackupMaps'
    BY <2>1, <2>5 DEF OnPathInv, Shape, BackupMaps, InAccess
  <2> QED
    BY <2>3, <2>6 DEF OnPathInv
<1> QED
  BY <1>1, <1>2

LEMMA StepOnPath ==
  ASSUME FreshSessions
  PROVE  OnPathInv /\ [CloakNext]_allVars => OnPathInv'
<1> SUFFICES ASSUME OnPathInv, [CloakNext]_allVars PROVE OnPathInv'
  OBVIOUS
<1>1. CASE \/ \E b \in Blocks : GetContainer(b)
           \/ \E b \in Blocks, d \in Containers : PutContainer(b, d)
  BY <1>1, BeginOnPath DEF GetContainer, PutContainer, Get, Put
<1>2. CASE StorageFails
  BY <1>2, ThrowsOnPath, SyncOnPath DEF StorageFails
<1>3. CASE UNCHANGED allVars
  BY <1>3 DEF allVars, vars, cloakVars, OnPathInv, Shape, OnMappedPath, Holds, View, Current,
              PositionOf, PathLoaded, OnPath, BackupMaps, InAccess
<1> QED
  BY <1>1, <1>2, <1>3, SetUpOnPath, RemapOnPath, ReadOnPath, ThrowsOnPath, WriteOnPath,
     SyncOnPath, SessionOnPath DEF CloakNext

(* For every tree, stash and container, also of sizes that are cut or passed   *)
(* over: every block the tree holds is on the path of its leaf, in the        *)
(* session that wrote it and in those that restored it from the latest        *)
(* backup, unless populateStorage ran, which takes no notice of the leaves.   *)
THEOREM RestoredStaysOnPath == FreshSessions => (CloakSpec => []RestoredOnPath)
<1> SUFFICES ASSUME FreshSessions PROVE CloakSpec => []RestoredOnPath
  OBVIOUS
<1>1. OnPathInv /\ [CloakNext]_allVars => OnPathInv'
  BY StepOnPath
<1>2. OnPathInv => RestoredOnPath
  BY DEF OnPathInv, RestoredOnPath
<1> QED
  BY InitOnPath, <1>1, <1>2, PTL DEF CloakSpec

=============================================================================
