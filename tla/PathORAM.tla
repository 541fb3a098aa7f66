------------------------------- MODULE PathORAM -------------------------------
(***************************************************************************)
(* The ORAM class of path-oram/src/oram.cpp over its three collaborators:   *)
(* the position map (block -> leaf), the stash (blocks held by the client)  *)
(* and the storage (buckets of the tree), with the bucket cache that the    *)
(* class keeps between reading paths and synchronising them.                *)
(*                                                                         *)
(* get, put and multiple run one access per request. An access is split at  *)
(* the four steps the source names: remap, read path, update, write path.   *)
(* Exceptions leave the class in the state of the step that threw: a full   *)
(* stash, a storage that fails on a read or part-way through a write, and a  *)
(* payload the storage rejects.                                             *)
(*                                                                         *)
(* Buckets are functions from the block ids they hold to payloads: dummies  *)
(* are left out and the order of slots, which the code shuffles, is         *)
(* nondeterminism.                                                          *)
(***************************************************************************)
EXTENDS Integers, FiniteSets

CONSTANTS
  Blocks,           \* block identifiers the caller uses
  Data,             \* payloads
  Empty,            \* the payload of no bytes
  Padded(_),        \* a payload after the storage padded it to the block size
  Oversized,        \* payloads larger than a block
  Leaves,           \* leaves of the tree
  Locations,        \* locations of its buckets
  Height,           \* number of levels
  BucketFor(_, _),  \* bucketForLevelLeaf: the bucket of a level on a leaf's path
  Z,                \* blocks per bucket
  StashCapacity,
  BatchSize,        \* most requests multiple() accepts
  StorageFaults,    \* which storage calls may throw: a subset of {"get", "set"}
  NoLeaf,           \* no access in progress
  NoResponse        \* the output parameter before an access has set it

Levels == 0 .. Height - 1

Path(leaf) == {BucketFor(level, leaf) : level \in Levels}

Request == [block : Blocks, write : BOOLEAN, data : Data]

Calls == UNION {[1 .. n -> Request] : n \in 0 .. BatchSize}

Bucket == UNION {[ids -> Data] : ids \in SUBSET Blocks}

(* The function with nothing in it: an empty bucket, stash, cache or call. *)
Nothing == [x \in {} |-> x]

ASSUME TreeAssumption ==
  /\ Height \in Nat \ {0}
  /\ Leaves # {} /\ NoLeaf \notin Leaves
  /\ \A level \in Levels, leaf \in Leaves : BucketFor(level, leaf) \in Locations
  /\ \A l, m \in Levels, x, y \in Leaves : BucketFor(l, x) = BucketFor(m, y) => l = m

ASSUME DataAssumption ==
  /\ Empty \in Data /\ NoResponse \notin Data
  /\ Oversized \subseteq Data
  /\ \A d \in Data : Padded(d) \in Data /\ Padded(Padded(d)) = Padded(d)
  /\ \A d \in Data \ Oversized : Padded(d) \notin Oversized

ASSUME BlocksAssumption == IsFiniteSet(Blocks)

ASSUME SizeAssumption ==
  Z \in Nat \ {0} /\ StashCapacity \in Nat /\ BatchSize \in Nat \ {0}

VARIABLES
  positionMap,  \* the leaf each block is mapped to
  stash,        \* block -> payload, for the blocks the client holds
  cache,        \* location -> bucket, for the buckets not yet synchronised
  storage,      \* location -> bucket
  requests,     \* the requests of the current call
  next,         \* the request being served
  prev,         \* previousPosition: the path the current access reads and writes
  response,     \* the payload the last access has answered
  phase,        \* the step to be taken, or how the last call ended
  damaged       \* history: blocks whose tree copy an exception orphaned

tree == <<cache, storage>>
call == <<requests, next, prev, response>>
vars == <<positionMap, stash, cache, storage, requests, next, prev, response,
          phase, damaged>>

-----------------------------------------------------------------------------
(* Reading the state *)

Idle == phase \in {"returned", "threw"}

InAccess == phase \in {"read", "update", "write"}

Current == requests[next]

(* getCache serves a bucket from the cache if it is there. *)
View(location) ==
  IF location \in DOMAIN cache THEN cache[location] ELSE storage[location]

Holds(location, b) == b \in DOMAIN View(location)

OnPath(leaf) == {b \in Blocks : \E location \in Path(leaf) : Holds(location, b)}

(* Faulty variant: compares the buckets one level too far up. *)
CanIncludeAbove(pathLeaf, blockPosition, level) ==
  level = 0 \/ BucketFor(level - 1, pathLeaf) = BucketFor(level - 1, blockPosition)

CanInclude(pathLeaf, blockPosition, level) ==
  BucketFor(level, pathLeaf) = BucketFor(level, blockPosition)

-----------------------------------------------------------------------------
Init ==
  /\ positionMap \in [Blocks -> Leaves]
  /\ stash = Nothing
  /\ cache = Nothing
  /\ storage = [location \in Locations |-> Nothing]
  /\ requests = Nothing
  /\ next = 1
  /\ prev = NoLeaf
  /\ response = NoResponse
  /\ phase = "returned"
  /\ damaged = {}

-----------------------------------------------------------------------------
(* Entering and leaving a call *)

Begin(batch, firstPhase) ==
  /\ Idle
  /\ requests' = batch
  /\ phase' = firstPhase
  /\ UNCHANGED <<positionMap, stash, tree, next, prev, response, damaged>>

Leave(outcome) ==
  /\ requests' = Nothing
  /\ next' = 1
  /\ prev' = NoLeaf
  /\ response' = NoResponse
  /\ phase' = outcome

Get(b) == Begin([i \in 1 .. 1 |-> [block |-> b, write |-> FALSE, data |-> Empty]], "remap")

Put(b, d) == Begin([i \in 1 .. 1 |-> [block |-> b, write |-> TRUE, data |-> d]], "remap")

(* A larger batch throws before anything happens. A request of multiple is *)
(* a PUT if and only if it carries bytes.                                  *)
Multiple(batch) ==
  /\ \A i \in DOMAIN batch : batch[i].write <=> batch[i].data # Empty
  /\ Begin(batch, "prefetch")

(* Faulty variant: downloads again what the cache holds. *)
FetchAgain(locations) ==
  cache' = [location \in DOMAIN cache \cup locations |->
              IF location \in locations THEN storage[location] ELSE cache[location]]

Fetch(locations) ==
  cache' = [location \in DOMAIN cache \cup locations |-> View(location)]

(* Faulty variant: starts at the second request. *)
PrefetchFromSecond ==
  /\ phase = "prefetch"
  /\ Fetch(UNION {Path(positionMap[requests[i].block]) : i \in DOMAIN requests \ {1}})
  /\ phase' = IF next \in DOMAIN requests THEN "remap" ELSE "sync"
  /\ UNCHANGED <<positionMap, stash, storage, call, damaged>>

(* multiple() downloads the paths of all requests in one go. *)
Prefetch ==
  /\ phase = "prefetch"
  /\ Fetch(UNION {Path(positionMap[requests[i].block]) : i \in DOMAIN requests})
  /\ phase' = IF next \in DOMAIN requests THEN "remap" ELSE "sync"
  /\ UNCHANGED <<positionMap, stash, storage, call, damaged>>

-----------------------------------------------------------------------------
(* One access *)

(* Faulty variant: draws from one leaf too many. *)
RemapBeyond ==
  /\ phase = "remap"
  /\ prev' = positionMap[Current.block]
  /\ \E leaf \in Leaves \cup {NoLeaf} :
       positionMap' = [positionMap EXCEPT ![Current.block] = leaf]
  /\ phase' = "read"
  /\ UNCHANGED <<stash, tree, requests, next, response, damaged>>

Remap ==
  /\ phase = "remap"
  /\ prev' = positionMap[Current.block]
  /\ \E leaf \in Leaves :
       positionMap' = [positionMap EXCEPT ![Current.block] = leaf]
  /\ phase' = "read"
  /\ UNCHANGED <<stash, tree, requests, next, response, damaged>>

(* stash->add keeps what the stash already has. Were a block in several     *)
(* buckets of the path, the one the buckets are visited first would count. *)
AddToStash(ids) ==
  \E source \in [ids -> Path(prev)] :
    /\ \A b \in ids : Holds(source[b], b)
    /\ stash' = [b \in DOMAIN stash \cup ids |->
                   IF b \in DOMAIN stash THEN stash[b] ELSE View(source[b])[b]]

ReadPath ==
  /\ phase = "read"
  /\ Cardinality(DOMAIN stash \cup OnPath(prev)) <= StashCapacity
  /\ Fetch(Path(prev))
  /\ AddToStash(OnPath(prev))
  /\ phase' = "update"
  /\ UNCHANGED <<positionMap, storage, call, damaged>>

(* The block was remapped already: if the tree holds it, it is now off the *)
(* path that the position map gives.                                       *)
Orphan(b) ==
  damaged' = IF b \in OnPath(prev) THEN damaged \cup {b} ELSE damaged

(* add() throws once the stash is full: the blocks before that one are in. *)
ReadPathOverflows ==
  /\ phase = "read"
  /\ Cardinality(DOMAIN stash \cup OnPath(prev)) > StashCapacity
  /\ Fetch(Path(prev))
  /\ \E ids \in SUBSET (OnPath(prev) \ DOMAIN stash) :
       /\ Cardinality(DOMAIN stash \cup ids) = StashCapacity
       /\ AddToStash(ids)
  /\ Orphan(Current.block)
  /\ Leave("threw")
  /\ UNCHANGED <<positionMap, storage>>

(* storage->get throws: nothing of the answer reaches cache or stash. *)
StorageGetFails ==
  /\ "get" \in StorageFaults
  /\ \/ /\ phase = "prefetch"
        /\ ~(UNION {Path(positionMap[requests[i].block]) : i \in DOMAIN requests}
               \subseteq DOMAIN cache)
        /\ UNCHANGED damaged
     \/ phase = "read" /\ ~(Path(prev) \subseteq DOMAIN cache) /\ Orphan(Current.block)
  /\ Leave("threw")
  /\ UNCHANGED <<positionMap, stash, tree>>

(* Faulty variant: a PUT adds its payload, and add() keeps an old one. *)
UpdateKeeps ==
  /\ phase = "update"
  /\ IF Current.write
     THEN /\ Current.block \in DOMAIN stash \/ Cardinality(DOMAIN stash) < StashCapacity
          /\ stash' = [b \in DOMAIN stash \cup {Current.block} |->
                         IF b \in DOMAIN stash THEN stash[b] ELSE Current.data]
          /\ response' = Current.data
     ELSE /\ stash' = stash
          /\ response' = IF Current.block \in DOMAIN stash
                         THEN stash[Current.block] ELSE Empty
  /\ phase' = "write"
  /\ UNCHANGED <<positionMap, tree, requests, next, prev, damaged>>

Update ==
  /\ phase = "update"
  /\ IF Current.write
     THEN /\ Current.block \in DOMAIN stash \/ Cardinality(DOMAIN stash) < StashCapacity
          /\ stash' = [b \in DOMAIN stash \cup {Current.block} |->
                         IF b = Current.block THEN Current.data ELSE stash[b]]
          /\ response' = Current.data
     ELSE /\ stash' = stash
          /\ response' = IF Current.block \in DOMAIN stash
                         THEN stash[Current.block] ELSE Empty
  /\ phase' = "write"
  /\ UNCHANGED <<positionMap, tree, requests, next, prev, damaged>>

UpdateOverflows ==
  /\ phase = "update"
  /\ Current.write
  /\ Current.block \notin DOMAIN stash
  /\ Cardinality(DOMAIN stash) = StashCapacity
  /\ Leave("threw")
  /\ UNCHANGED <<positionMap, stash, tree, damaged>>

(* evict[b] is the level block b is written to, -1 if it stays in the stash. *)
(* From the leaf up, each bucket takes all blocks left that fit, up to Z;    *)
(* which ones, when there are more, the shuffle of the stash decides.        *)
Kept == -1

(* Faulty variant: a bucket takes every block that fits. *)
GreedyUnbounded(evict, leaf) ==
  \A b \in DOMAIN evict :
    LET fitting == {level \in Levels : CanInclude(positionMap[b], leaf, level)}
    IN  evict[b] \in fitting /\ \A level \in fitting : evict[b] >= level

Greedy(evict, leaf) ==
  \A level \in Levels :
    LET fits   == {b \in DOMAIN evict : CanInclude(positionMap[b], leaf, level)}
        chosen == {b \in DOMAIN evict : evict[b] = level}
    IN  /\ chosen \subseteq fits
        /\ Cardinality(chosen) <= Z
        /\ Cardinality(chosen) < Z => \A b \in fits : evict[b] >= level

(* Faulty variant: a bucket that no block goes to is left as it was. *)
WrittenBucketOrOld(evict, location) ==
  LET ids == {b \in DOMAIN stash : \E level \in Levels :
                evict[b] = level /\ BucketFor(level, prev) = location}
  IN  IF ids = {} THEN View(location) ELSE [b \in ids |-> stash[b]]

WrittenBucket(evict, location) ==
  LET ids == {b \in DOMAIN stash : \E level \in Levels :
                evict[b] = level /\ BucketFor(level, prev) = location}
  IN  [b \in ids |-> stash[b]]

WritePath ==
  /\ phase = "write"
  /\ \E evict \in [DOMAIN stash -> Levels \cup {Kept}] :
       /\ Greedy(evict, prev)
       /\ cache' = [location \in DOMAIN cache \cup Path(prev) |->
                      IF location \in Path(prev)
                      THEN WrittenBucket(evict, location) ELSE cache[location]]
       /\ stash' = [b \in {x \in DOMAIN stash : evict[x] = Kept} |-> stash[b]]
  /\ next' = next + 1
  /\ phase' = IF next + 1 \in DOMAIN requests THEN "remap" ELSE "sync"
  /\ UNCHANGED <<positionMap, storage, requests, prev, response, damaged>>

-----------------------------------------------------------------------------
(* syncCache *)

(* storage->set pads the payloads where they are: in the cache. *)
PadIn(bucket, ids) ==
  [b \in DOMAIN bucket |-> IF b \in ids THEN Padded(bucket[b]) ELSE bucket[b]]

Pad(bucket) == PadIn(bucket, DOMAIN bucket)

(* Faulty variant: accepts payloads of any size. *)
AcceptableAlways(location) == location \in Locations

Acceptable(location) ==
  \A b \in DOMAIN cache[location] : cache[location][b] \notin Oversized

Upload(locations) ==
  storage' = [location \in Locations |->
                IF location \in locations THEN Pad(cache[location]) ELSE storage[location]]

Sync ==
  /\ phase = "sync"
  /\ \A location \in DOMAIN cache : Acceptable(location)
  /\ Upload(DOMAIN cache)
  /\ cache' = Nothing
  /\ Leave("returned")
  /\ UNCHANGED <<positionMap, stash, damaged>>

(* storage->set checks the whole batch before it writes any of it; what it  *)
(* visited before the payload it rejects is padded already.                 *)
SyncRejected ==
  /\ phase = "sync"
  /\ \E rejected \in DOMAIN cache, visited \in SUBSET (DOMAIN cache) :
       /\ ~Acceptable(rejected)
       /\ \A location \in visited : Acceptable(location)
       /\ \E ids \in SUBSET {b \in DOMAIN cache[rejected] :
                               cache[rejected][b] \notin Oversized} :
            cache' = [location \in DOMAIN cache |->
                        IF location = rejected THEN PadIn(cache[location], ids)
                        ELSE IF location \in visited THEN Pad(cache[location])
                        ELSE cache[location]]
  /\ Leave("threw")
  /\ UNCHANGED <<positionMap, stash, storage, damaged>>

(* A store that fails part-way has written some buckets; the cache is not  *)
(* cleared, so the next call that synchronises writes them all again.      *)
StorageSetFails ==
  /\ "set" \in StorageFaults
  /\ phase = "sync"
  /\ \A location \in DOMAIN cache : Acceptable(location)
  /\ \E locations \in SUBSET (DOMAIN cache) : Upload(locations)
  /\ cache' = [location \in DOMAIN cache |-> Pad(cache[location])]
  /\ Leave("threw")
  /\ UNCHANGED <<positionMap, stash, damaged>>

-----------------------------------------------------------------------------
Next ==
  \/ \E b \in Blocks : Get(b)
  \/ \E b \in Blocks, d \in Data : Put(b, d)
  \/ \E batch \in Calls : Multiple(batch)
  \/ Prefetch
  \/ Remap
  \/ ReadPath
  \/ ReadPathOverflows
  \/ StorageGetFails
  \/ Update
  \/ UpdateOverflows
  \/ WritePath
  \/ Sync
  \/ SyncRejected
  \/ StorageSetFails

Spec == Init /\ [][Next]_vars

-----------------------------------------------------------------------------
(* Properties *)

(* Every variable has its type. *)
TypeOK ==
  /\ positionMap \in [Blocks -> Leaves]
  /\ stash \in Bucket
  /\ DOMAIN cache \subseteq Locations /\ cache \in [DOMAIN cache -> Bucket]
  /\ storage \in [Locations -> Bucket]
  /\ requests \in Calls
  /\ next \in 1 .. BatchSize + 1
  /\ prev \in Leaves \cup {NoLeaf}
  /\ response \in Data \cup {NoResponse}
  /\ phase \in {"returned", "threw", "prefetch", "remap", "read", "update",
                "write", "sync"}
  /\ damaged \subseteq Blocks

(* The path on which the tree may hold a block: that of its leaf, or while *)
(* it is being accessed the one it was on before it was remapped.          *)
PositionOf(b) ==
  IF InAccess /\ b = Current.block THEN prev ELSE positionMap[b]

(* The ORAM invariant: a block is in the stash or on the path of its leaf, *)
(* so no bucket off that path holds a copy that a later access would miss  *)
(* or, worse, pick up as if it were current. It survives every exception,  *)
(* for all blocks but the one whose access threw while reading the path.   *)
OnMappedPath ==
  \A location \in Locations, b \in Blocks \ damaged :
    Holds(location, b) => location \in Path(PositionOf(b))

(* Exceptions may leave a block both in the stash and in the tree, or in   *)
(* two buckets. All copies of it then agree, up to padding: none is stale. *)
(* A block is exempt only between its update and the write of the path     *)
(* that holds its old copies.                                              *)
BeingReplaced(b) == phase = "write" /\ b = Current.block

CopiesOf(b) ==
  {View(location)[b] : location \in {l \in Locations : Holds(l, b)}}
    \cup (IF b \in DOMAIN stash THEN {stash[b]} ELSE {})

CopiesAgree ==
  \A b \in Blocks \ damaged : ~BeingReplaced(b) =>
    \A d, e \in CopiesOf(b) : Padded(d) = Padded(e)

(* No step makes a bucket or the stash hold more than it has room for: in  *)
(* particular the blocks that find no place on the path are kept, and the  *)
(* blocks of a path are only read when they all fit.                       *)
WithinCapacity ==
  /\ Cardinality(DOMAIN stash) <= StashCapacity
  /\ \A location \in Locations : Cardinality(DOMAIN View(location)) <= Z

(* multiple() finds the path of each access in the cache, because it       *)
(* fetched the paths of all its requests first; only the second request    *)
(* for a block misses, its first request having remapped it.               *)
PrefetchCovers ==
  phase = "read" /\ Cardinality(DOMAIN requests) > 1 =>
    \/ Path(prev) \subseteq DOMAIN cache
    \/ \E i \in 1 .. next - 1 : requests[i].block = Current.block

(* The storage never holds a payload larger than a block, although such a  *)
(* payload is accepted into stash and cache.                               *)
NothingOversizedStored ==
  \A location \in Locations : \A b \in DOMAIN storage[location] :
    storage[location][b] \notin Oversized

(* The buckets that hold a block, where the block should be. *)
HoldersOf(b) == {location \in Path(PositionOf(b)) : Holds(location, b)}

OneOf(holders) == CHOOSE location \in holders : TRUE

(* The value of a block: its copy in the stash, or the one on its path. *)
ValueOf(b) ==
  IF b \in DOMAIN stash THEN stash[b]
  ELSE IF HoldersOf(b) # {} THEN View(OneOf(HoldersOf(b)))[b]
  ELSE Empty

(* An exception costs the block of the request it interrupts, or nothing. *)
TheInterrupted(calls, n) ==
  {{}} \cup {{calls[i].block} : i \in DOMAIN calls \cap {n}}

Promise == INSTANCE BlockStore WITH
  MaxRequests <- BatchSize,
  ThrowCosts  <- TheInterrupted,
  contents    <- [b \in Blocks |-> Padded(ValueOf(b))],
  next        <- IF phase = "write" THEN next + 1 ELSE next,
  status      <- IF Idle THEN phase ELSE "busy"

(* The ORAM is an array of blocks: a GET answers the last PUT whatever was *)
(* remapped, evicted, cached or half-synchronised in between, and an       *)
(* exception costs at most the block whose access threw.                   *)
KeepsPromise == Promise!Spec

=============================================================================
