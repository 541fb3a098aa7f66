---------------------------- MODULE RecursiveMap ----------------------------
(***************************************************************************)
(* An ORAM whose position map is kept in another ORAM: the ORAM class over   *)
(* an ORAMPositionMapAdapter (path-oram/src/position-map-adapter.cpp). The   *)
(* outer ORAM is that of PathORAM; the inner one is what PathORAM is shown    *)
(* to implement, the array of blocks of BlockStore. Each map->get and        *)
(* map->set of the outer ORAM is a whole call of the inner one, which may    *)
(* throw, and then ends the outer call where it is: before the remapping, in  *)
(* the middle of it, or after the path has been read into the stash, when     *)
(* writePath asks for the leaf of each block of the stash.                   *)
(*                                                                         *)
(* An exception of the inner ORAM may damage the entry it was about. The      *)
(* payload read from a damaged entry may be any number, or no bytes at all   *)
(* (get then reads past the end of an empty buffer, which gives any number   *)
(* too). The faults of the outer storage are those of PathORAM and are left   *)
(* out here.                                                                *)
(***************************************************************************)
EXTENDS PathORAM

CONSTANT Batches   \* bound: the calls of multiple() that are made

ASSUME BatchesAssumption == Batches \subseteq Calls

VARIABLES
  mapRequests,   \* the inner ORAM: the request of its current call,
  mapNext,       \*   how far it has got,
  mapResponse,   \*   what it has answered,
  mapStatus,     \*   how the call ended, or that it has not,
  mapDamaged,    \*   and the entries an exception may have damaged
  asked,         \* what this step has asked the map about: the numbers of the
                 \* requests in a prefetch, the blocks of the stash in a write
  paths          \* the leaves the map has given for the requests of a prefetch

mapVars == <<mapRequests, mapNext, mapResponse, mapStatus, mapDamaged>>
outerVars == <<stash, tree, call, phase, damaged>>
recursiveVars == <<vars, mapVars, asked, paths>>

(* An entry of the map holds a leaf, or a number that is none. *)
Positions == Leaves \cup {NoLeaf}

(* Padding leaves the first bytes of a payload alone, and get reads no more. *)
FirstNumber(position) == position

(* positionMap is what the inner ORAM holds. *)
Map == INSTANCE BlockStore WITH
  Data        <- Positions,
  Empty       <- NoLeaf,
  Padded      <- FirstNumber,
  MaxRequests <- 1,
  ThrowCosts  <- TheInterrupted,
  contents    <- positionMap,
  requests    <- mapRequests,
  next        <- mapNext,
  response    <- mapResponse,
  status      <- mapStatus,
  damaged     <- mapDamaged

MapIdle == mapStatus # "busy"

(* The constructor of the outer ORAM has set every entry. *)
InitRecursive ==
  /\ Init
  /\ mapRequests = Nothing
  /\ mapNext = 1
  /\ mapResponse = NoResponse
  /\ mapStatus = "returned"
  /\ mapDamaged = {}
  /\ asked = {}
  /\ paths = {}

-----------------------------------------------------------------------------
(* The inner ORAM *)

CallMap(request) ==
  /\ MapIdle
  /\ mapRequests' = [i \in 1 .. 1 |-> request]
  /\ mapStatus' = "busy"
  /\ UNCHANGED <<positionMap, mapNext, mapResponse, mapDamaged, outerVars, asked, paths>>

GetPosition(b) == CallMap([block |-> b, write |-> FALSE, data |-> NoLeaf])

SetPosition(b, leaf) == CallMap([block |-> b, write |-> TRUE, data |-> leaf])

(* A damaged entry answers whatever it likes, so what it holds is kept as it *)
(* was: nothing depends on it.                                              *)
MapServes ==
  /\ mapStatus = "busy"
  /\ positionMap' \in {positionMap} \cup
       {[positionMap EXCEPT ![mapRequests[1].block] = leaf] : leaf \in Leaves}
  /\ mapResponse' \in Positions
  /\ Map!Serve
  /\ UNCHANGED <<outerVars, asked, paths>>

MapReturns == UNCHANGED positionMap /\ Map!Return

(* Where the exception leaves the outer ORAM: a damaged entry leads nowhere; *)
(* the copy that the tree has of the block of the access is off its path, if *)
(* the block is mapped elsewhere already, and out of date, once the block has *)
(* been updated in the stash.                                               *)
Strands ==
  damaged' = damaged \cup mapDamaged' \cup
    (IF /\ \/ phase = "set" /\ prev # positionMap[Current.block]
           \/ phase = "write"
        /\ prev # NoLeaf
        /\ Current.block \in OnPath(prev)
     THEN {Current.block} ELSE {})

MapThrows ==
  /\ mapStatus = "busy"
  /\ UNCHANGED positionMap
  /\ mapDamaged' \in {mapDamaged \cup lost : lost \in TheInterrupted(mapRequests, mapNext)}
  /\ Map!Throw
  /\ Strands
  /\ Leave("threw")
  /\ asked' = {}
  /\ paths' = {}
  /\ UNCHANGED <<stash, tree>>

-----------------------------------------------------------------------------
(* The outer ORAM, where it uses the map *)

(* Bound: once a block is damaged nothing more is written. The calls that     *)
(* follow only read what the exception has left.                            *)
BeginCall(begin) ==
  /\ begin
  /\ MapIdle
  /\ damaged # {} => \A i \in DOMAIN requests' : ~requests'[i].write
  /\ UNCHANGED <<mapVars, asked, paths>>

(* multiple() asks for the leaves of its requests, one after the other. *)
PrefetchAsks ==
  /\ phase = "prefetch"
  /\ \E i \in DOMAIN requests \ asked :
       /\ 1 .. i - 1 \subseteq asked
       /\ GetPosition(requests[i].block)

PrefetchAnswered ==
  /\ phase = "prefetch"
  /\ MapReturns
  /\ asked' = asked \cup {Cardinality(asked) + 1}
  /\ paths' = paths \cup {mapResponse}
  /\ UNCHANGED outerVars

(* The storage refuses locations that are not there. *)
PathRefused ==
  /\ MapIdle
  /\ \/ phase = "prefetch" /\ asked = DOMAIN requests /\ NoLeaf \in paths
     \/ phase = "read" /\ prev = NoLeaf
  /\ Leave("threw")
  /\ asked' = {}
  /\ paths' = {}
  /\ UNCHANGED <<positionMap, stash, tree, damaged, mapVars>>

PrefetchPaths ==
  /\ phase = "prefetch"
  /\ MapIdle
  /\ asked = DOMAIN requests
  /\ NoLeaf \notin paths
  /\ Fetch(UNION {Path(leaf) : leaf \in paths})
  /\ phase' = IF next \in DOMAIN requests THEN "remap" ELSE "sync"
  /\ asked' = {}
  /\ paths' = {}
  /\ UNCHANGED <<positionMap, stash, storage, call, damaged, mapVars>>

RemapAsks == phase = "remap" /\ GetPosition(Current.block)

RemapAnswered ==
  /\ phase = "remap"
  /\ MapReturns
  /\ prev' = mapResponse
  /\ phase' = "set"
  /\ UNCHANGED <<stash, tree, requests, next, response, damaged, asked, paths>>

RemapSets == phase = "set" /\ \E leaf \in Leaves : SetPosition(Current.block, leaf)

RemapSet ==
  /\ phase = "set"
  /\ MapReturns
  /\ phase' = "read"
  /\ UNCHANGED <<stash, tree, call, damaged, asked, paths>>

ReadPathKnown ==
  /\ phase = "read" /\ prev # NoLeaf
  /\ ReadPath \/ ReadPathOverflows
  /\ UNCHANGED <<mapVars, asked, paths>>

UpdateStash ==
  /\ Update \/ UpdateOverflows
  /\ UNCHANGED <<mapVars, asked, paths>>

(* writePath asks for the leaf of a block on each level it tries to place it *)
(* on. Asked again, an entry that is not damaged gives the same leaf and the *)
(* outer ORAM is as it was, so once per block stands for all of them.        *)
WriteAsks ==
  /\ phase = "write"
  /\ \E b \in DOMAIN stash \ asked : GetPosition(b)

WriteAnswered ==
  /\ phase = "write"
  /\ MapReturns
  /\ asked' = asked \cup {mapRequests[1].block}
  /\ UNCHANGED <<outerVars, paths>>

(* Faulty variant: the leaves are not looked at. *)
GreedyAnyLevel(evict) ==
  \A level \in Levels : Cardinality({b \in DOMAIN evict : evict[b] = level}) <= Z

(* As Greedy, for the blocks whose entries are sound. The entry of any other *)
(* may read differently on each level: its block may go anywhere.           *)
GreedyAsAnswered(evict) ==
  \A level \in Levels :
    LET fits   == {b \in DOMAIN evict \ mapDamaged : CanInclude(positionMap[b], prev, level)}
        chosen == {b \in DOMAIN evict : evict[b] = level}
    IN  /\ chosen \ mapDamaged \subseteq fits
        /\ Cardinality(chosen) <= Z
        /\ Cardinality(chosen) < Z => \A b \in fits : evict[b] >= level

(* Faulty variant: multiple() serves its first request over and over. *)
AdvanceNever == next' = next

Advance == next' = next + 1

WriteAsAnswered ==
  /\ phase = "write"
  /\ MapIdle
  /\ asked = DOMAIN stash
  /\ \E evict \in [DOMAIN stash -> Levels \cup {Kept}] :
       /\ GreedyAsAnswered(evict)
       /\ cache' = [location \in DOMAIN cache \cup Path(prev) |->
                      IF location \in Path(prev)
                      THEN WrittenBucket(evict, location) ELSE cache[location]]
       /\ stash' = [b \in {x \in DOMAIN stash : evict[x] = Kept} |-> stash[b]]
  /\ Advance
  /\ phase' = IF next' \in DOMAIN requests THEN "remap" ELSE "sync"
  /\ asked' = {}
  /\ UNCHANGED <<positionMap, storage, requests, prev, response, damaged, mapVars, paths>>

SyncAll == Sync /\ UNCHANGED <<mapVars, asked, paths>>

-----------------------------------------------------------------------------
(* What the program does by itself, once it has been called *)
RunCall ==
  \/ MapServes
  \/ MapThrows
  \/ PrefetchAsks
  \/ PrefetchAnswered
  \/ PathRefused
  \/ PrefetchPaths
  \/ RemapAsks
  \/ RemapAnswered
  \/ RemapSets
  \/ RemapSet
  \/ ReadPathKnown
  \/ UpdateStash
  \/ WriteAsks
  \/ WriteAnswered
  \/ WriteAsAnswered
  \/ SyncAll

NextRecursive ==
  \/ \E b \in Blocks : BeginCall(Get(b))
  \/ \E b \in Blocks, d \in Data : BeginCall(Put(b, d))
  \/ \E batch \in Batches : BeginCall(Multiple(batch))
  \/ RunCall

(* A call runs on one thread to its end: whatever it can do next, it does. *)
SpecRecursive ==
  InitRecursive /\ [][NextRecursive]_recursiveVars /\ WF_recursiveVars(RunCall)

-----------------------------------------------------------------------------
(* Properties *)

(* The ORAM invariant again, when the leaves come from calls that may fail:  *)
(* a block that no exception has damaged, and whose entry none has, is on    *)
(* the path its entry gives, or on the one that is being accessed.           *)
EntryOf(b) ==
  IF phase \in {"set", "read", "update", "write"} /\ b = Current.block
  THEN prev ELSE positionMap[b]

OnPathOfEntry ==
  \A b \in Blocks \ damaged :
    /\ EntryOf(b) \in Leaves
    /\ \A location \in Locations : Holds(location, b) => location \in Path(EntryOf(b))

StoredIn(b) ==
  IF b \in DOMAIN stash THEN stash[b]
  ELSE IF EntryOf(b) = NoLeaf THEN Empty
  ELSE LET holders == {location \in Path(EntryOf(b)) : Holds(location, b)}
       IN  IF holders = {} THEN Empty ELSE View(OneOf(holders))[b]

(* Besides the block of the access that it interrupts, served or not, an     *)
(* exception costs the block whose entry was being read.                     *)
TheInterruptedAndOne(calls, n) ==
  {lost \in SUBSET Blocks :
     Cardinality(lost \ {calls[i].block : i \in DOMAIN calls \cap {n - 1, n}}) <= 1}

RecursivePromise == INSTANCE BlockStore WITH
  MaxRequests <- BatchSize,
  ThrowCosts  <- TheInterruptedAndOne,
  contents    <- [b \in Blocks |-> Padded(StoredIn(b))],
  next        <- IF phase = "write" THEN next + 1 ELSE next,
  status      <- IF Idle THEN phase ELSE "busy"

(* An ORAM over an ORAM is the same array of blocks, except for the price of *)
(* an exception: two blocks instead of one.                                  *)
KeepsPromiseRecursively == RecursivePromise!Spec

(* Every call returns or throws, however many calls of the inner ORAM it     *)
(* takes and whichever of them fail.                                         *)
CallsEnd == ~Idle ~> Idle

=============================================================================
