------------------------------- MODULE CloakORAM -------------------------------
(***************************************************************************)
(* The ORAM of path_oram_Cloak_Query: the class of PathORAM with a message   *)
(* authentication code (MAC) per bucket and a stash that forces all its      *)
(* payloads to one size, together with the program around it, which stores   *)
(* containers in a fresh ORAM, backs its client state up, and in later       *)
(* sessions restores it and reads the containers again.                     *)
(*                                                                         *)
(* A payload is a container's value, how many of its bytes are left and its  *)
(* size; resizing one may cut bytes off and they do not come back. What      *)
(* path_oram_Cloak_Query shares with path-oram is taken from PathORAM.       *)
(***************************************************************************)
EXTENDS PathORAM, TreeGeometry

LOCAL INSTANCE Functions

CONSTANTS
  BlockSize,     \* dataSize: what a payload must measure to be written to the tree
  Zeros,         \* the payload populateStorage writes
  Containers,    \* the payloads callers put
  NoContainer,   \* what a block that was never put is expected to hold
  Populated,     \* does the program run populateStorage?
  MacsRestored,  \* which sessions there are: that restore the MACs, that do not
  SameKey,       \* is the key it saves the one the storage was written with?
  KeepOutdated,  \* may a session start from a backup older than an access?
  MaxRestarts    \* bound

ASSUME CloakConstants ==
  /\ BlockSize \in Nat \ {0} /\ MaxRestarts \in Nat
  /\ Containers \subseteq Data /\ NoContainer \notin Data
  /\ Zeros \in Data /\ Zeros.size = BlockSize
  /\ \A d \in Data : /\ d = [value |-> d.value, kept |-> d.kept, size |-> d.size]
                    /\ d.kept \in 0 .. d.size
  /\ {Populated, SameKey, KeepOutdated} \subseteq BOOLEAN
  /\ MacsRestored \subseteq BOOLEAN

VARIABLES
  macs,          \* macMap: location -> MAC, for the buckets it has one of
  initializing,  \* isInitializing: no MAC is checked yet
  backup,        \* the files of the last backup
  session,       \* number of restarts
  expected       \* history: the container each block was last given

cloakVars == <<macs, initializing, backup, session, expected>>
allVars == <<vars, cloakVars>>

NoBackup == [saved |-> FALSE]

(* What a MAC stands for: the payloads of a bucket, but not their blocks. *)
Mac(bucket) ==
  [d \in Range(bucket) |-> Cardinality({b \in DOMAIN bucket : bucket[b] = d})]

(* populateStorage gives bucket i the blocks from i * Z on, wherever the *)
(* position map has them.                                                *)
PopulatedBucket(location) ==
  [b \in {x \in Blocks : Populated /\ x \div Z = location} |-> Zeros]

CloakInit ==
  /\ Init
  /\ macs = Nothing
  /\ initializing = TRUE
  /\ backup = NoBackup
  /\ session = 0
  /\ expected = [b \in Blocks |-> NoContainer]

(* populateStorage, then computeAndStoreAllBucketMACs. Its loop runs one    *)
(* level too far, where it comes by location 0 as well.                     *)
SetUp ==
  /\ Idle /\ initializing /\ session = 0
  /\ cache = Nothing
  /\ \A b \in Blocks : expected[b] = NoContainer
  /\ storage' = [location \in Locations |->
                   IF Populated THEN PopulatedBucket(location) ELSE storage[location]]
  /\ macs' = [location \in Locations \cup {0} |->
                IF location \in Locations
                THEN Mac(storage'[location]) ELSE Mac(PopulatedBucket(location))]
  /\ initializing' = FALSE
  /\ UNCHANGED <<positionMap, stash, cache, call, phase, damaged, backup, session, expected>>

-----------------------------------------------------------------------------
(* Accesses *)

(* The program gets the blocks it has put. *)
GetContainer(b) ==
  /\ expected[b] # NoContainer
  /\ Get(b)
  /\ UNCHANGED cloakVars

PutContainer(b, d) ==
  /\ Put(b, d)
  /\ UNCHANGED cloakVars

RemapBlock ==
  /\ Remap
  /\ backup' = IF KeepOutdated THEN backup ELSE NoBackup
  /\ UNCHANGED <<macs, initializing, session, expected>>

Resize(d, size) ==
  [d EXCEPT !.size = size, !.kept = IF size < d.kept THEN size ELSE d.kept]

(* add and update give a payload the size of the first one in the stash. *)
AddResized(ids) ==
  \E source \in [ids -> Path(prev)] :
    LET found(b) == View(source[b])[b]
        sizes    == IF stash # Nothing THEN {stash[b].size : b \in DOMAIN stash}
                    ELSE {found(b).size : b \in ids}
    IN  /\ \A b \in ids : Holds(source[b], b)
        /\ IF ids = {} THEN stash' = stash
           ELSE \E size \in sizes :
                  stash' = [b \in DOMAIN stash \cup ids |->
                              IF b \in DOMAIN stash THEN stash[b] ELSE Resize(found(b), size)]

(* The bucket whose MAC getCache looks for when it has downloaded one. When *)
(* its search for the level finds none it shifts by a negative count, which *)
(* may lead to any bucket.                                                  *)
CheckedFor(location) ==
  IF DownloadLevels(Height, location) = {} THEN Locations \cup {0}
  ELSE {DownloadChecks(Height, location)}

MacFound(location) == initializing \/ location \in DOMAIN macs

(* getCache has downloaded and checked these buckets. *)
Downloaded(locations) ==
  /\ \A location \in locations \ DOMAIN cache : \E l \in CheckedFor(location) : MacFound(l)
  /\ Fetch(locations)

ReadPathChecked ==
  /\ phase = "read"
  /\ Cardinality(DOMAIN stash \cup OnPath(prev)) <= StashCapacity
  /\ \A location \in Path(prev) : MacFound(location)
  /\ Downloaded(Path(prev))
  /\ AddResized(OnPath(prev))
  /\ phase' = "update"
  /\ UNCHANGED <<positionMap, storage, call, damaged, cloakVars>>

(* A MAC is missing: for a downloaded bucket, with some others in the cache *)
(* already; or for one of the path, with all its blocks in the stash.       *)
ReadPathRefused ==
  /\ phase = "read"
  /\ \/ /\ \E location \in Path(prev) \ DOMAIN cache, l \in Locations \cup {0} :
             l \in CheckedFor(location) /\ ~MacFound(l)
        /\ \E fetched \in SUBSET Path(prev) : fetched # Path(prev) /\ Downloaded(fetched)
        /\ UNCHANGED stash
     \/ /\ \E location \in Path(prev) : ~MacFound(location)
        /\ Cardinality(DOMAIN stash \cup OnPath(prev)) <= StashCapacity
        /\ Downloaded(Path(prev))
        /\ AddResized(OnPath(prev))
  /\ Orphan(Current.block)
  /\ Leave("threw")
  /\ UNCHANGED <<positionMap, storage, cloakVars>>

StashOverflows ==
  /\ \/ UpdateOverflows
     \/ /\ phase = "read"
        /\ Cardinality(DOMAIN stash \cup OnPath(prev)) > StashCapacity
        /\ Downloaded(Path(prev))
        /\ \E ids \in SUBSET (OnPath(prev) \ DOMAIN stash) :
             /\ Cardinality(DOMAIN stash \cup ids) = StashCapacity
             /\ AddResized(ids)
        /\ Orphan(Current.block)
        /\ Leave("threw")
        /\ UNCHANGED <<positionMap, storage>>
  /\ UNCHANGED cloakVars

UpdateResized ==
  /\ phase = "update"
  /\ IF Current.write
     THEN /\ Current.block \in DOMAIN stash \/ Cardinality(DOMAIN stash) < StashCapacity
          /\ \E size \in IF stash = Nothing THEN {Current.data.size}
                         ELSE {stash[b].size : b \in DOMAIN stash} :
               stash' = [b \in DOMAIN stash \cup {Current.block} |->
                           IF b = Current.block THEN Resize(Current.data, size) ELSE stash[b]]
          /\ expected' = [expected EXCEPT ![Current.block] = Current.data]
          /\ response' = stash'[Current.block]
     ELSE /\ response' = IF Current.block \in DOMAIN stash
                         THEN stash[Current.block] ELSE Empty
          /\ UNCHANGED <<stash, expected>>
  /\ phase' = "write"
  /\ UNCHANGED <<positionMap, tree, requests, next, prev, damaged, macs, initializing,
                 backup, session>>

(* Faulty variant: a MAC is only stored for a bucket that has none. *)
MacsAdded(evict) ==
  [location \in DOMAIN macs \cup Path(prev) |->
     IF location \in DOMAIN macs
     THEN macs[location] ELSE Mac(WrittenBucket(evict, location))]

MacsAfter(evict) ==
  [location \in DOMAIN macs \cup Path(prev) |->
     IF location \in Path(prev)
     THEN Mac(WrittenBucket(evict, location)) ELSE macs[location]]

(* Payloads of another size than BlockSize are passed over: they stay. *)
WritePathMacs ==
  /\ phase = "write"
  /\ LET eligible == {b \in DOMAIN stash : stash[b].size = BlockSize} IN
     \E placed \in [eligible -> Levels \cup {Kept}] :
       LET evict == [b \in DOMAIN stash |-> IF b \in eligible THEN placed[b] ELSE Kept] IN
       /\ Greedy(placed, prev)
       /\ cache' = [location \in DOMAIN cache \cup Path(prev) |->
                      IF location \in Path(prev)
                      THEN WrittenBucket(evict, location) ELSE cache[location]]
       /\ macs' = MacsAfter(evict)
       /\ stash' = [b \in {x \in DOMAIN stash : evict[x] = Kept} |-> stash[b]]
  /\ next' = next + 1
  /\ phase' = "sync"
  /\ UNCHANGED <<positionMap, storage, requests, prev, response, damaged,
                 initializing, backup, session, expected>>

SyncCache ==
  /\ Sync
  /\ UNCHANGED cloakVars

(* A storage that fails leaves the MACs as they are, ahead of the storage. *)
StorageFails ==
  /\ StorageGetFails \/ StorageSetFails
  /\ UNCHANGED cloakVars

-----------------------------------------------------------------------------
(* Sessions *)

(* The first session ends with a backup of the client state; the storage's *)
(* file is not copied, later accesses change it.                           *)
Backup ==
  /\ phase = "returned" /\ session = 0 /\ ~backup.saved
  /\ \E b \in Blocks : expected[b] # NoContainer
  /\ backup' = [saved |-> TRUE, positionMap |-> positionMap, stash |-> stash, macs |-> macs]
  /\ UNCHANGED <<vars, macs, initializing, session, expected>>

(* Faulty variant: the map's memory is as it was allocated. *)
AnyMap(saved) == [DOMAIN saved -> Leaves]

LoadedMap(saved) == {saved}

(* loadFromFile reads records of BlockSize. From records of another size it *)
(* makes out at most the first one.                                         *)
LoadedStash(saved) ==
  IF \A b \in DOMAIN saved : saved[b].size = BlockSize THEN {saved}
  ELSE {Nothing} \cup {[x \in {b} |-> [saved[b] EXCEPT !.size = BlockSize]] : b \in DOMAIN saved}

(* A new process opens the storage with the saved key. With another key     *)
(* nothing that was written can be made out any more.                      *)
Restart ==
  /\ session < MaxRestarts
  /\ backup.saved
  /\ positionMap' \in LoadedMap(backup.positionMap)
  /\ stash' \in LoadedStash(backup.stash)
  /\ \E restored \in MacsRestored :
       macs' = IF restored THEN backup.macs ELSE Nothing
  /\ initializing' = FALSE
  /\ cache' = Nothing
  /\ storage' = IF SameKey \/ session > 0 THEN storage
                ELSE [location \in Locations |-> Nothing]
  /\ session' = session + 1
  /\ Leave("returned")
  /\ UNCHANGED <<damaged, backup, expected>>

CloakNext ==
  \/ SetUp
  \/ \E b \in Blocks : GetContainer(b)
  \/ \E b \in Blocks, d \in Containers : PutContainer(b, d)
  \/ RemapBlock
  \/ ReadPathChecked
  \/ ReadPathRefused
  \/ StashOverflows
  \/ UpdateResized
  \/ WritePathMacs
  \/ SyncCache
  \/ StorageFails
  \/ Backup
  \/ Restart

CloakSpec == CloakInit /\ [][CloakNext]_allVars

-----------------------------------------------------------------------------
(* Properties *)

(* Is this what is left of the container? *)
Is(d, container) == d.value = container.value /\ d.kept >= container.size

(* The containers read are those that were put, in the session that put     *)
(* them and in later ones: what GetContainerSingleORAM3 asserts. It does not *)
(* hold of the programs; see the configurations _key, _cut, _populated and   *)
(* _again.                                                                  *)
SharesAreReturned ==
  phase = "write" /\ ~Current.write /\ Current.block \notin damaged =>
    Is(response, expected[Current.block])

(* The MAC of each bucket is that of its latest contents, in the cache or   *)
(* the storage: were MACs compared, no valid bucket would be turned away,   *)
(* also after a store that failed half-way and was repeated.                *)
MacsMatch ==
  \A location \in DOMAIN macs \cap Locations : macs[location] = Mac(View(location))

(* A restored ORAM has every block on its path: position map, stash and the *)
(* storage file, which were saved one by one, belong together.              *)
RestoredOnPath == OnMappedPath

(* A path that passed the check holds the buckets its MACs stand for, also  *)
(* when the session started from a backup that no longer fits the storage.  *)
PathIsVerified ==
  phase = "update" /\ ~initializing =>
    \A location \in Path(prev) \cap DOMAIN macs :
      macs[location] = Mac(View(location))

=============================================================================
