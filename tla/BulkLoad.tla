------------------------------- MODULE BulkLoad -------------------------------
(***************************************************************************)
(* ORAM::load: the off-line generation of a storage, which writes buckets   *)
(* and position map directly, followed by ordinary use of the ORAM.         *)
(*                                                                         *)
(* The records are shuffled and dealt Z at a time to locations spread       *)
(* evenly over the tree; each is mapped to a leaf under its location.        *)
(*                                                                         *)
(* Location 2^Height is one beyond the tree. For a record of that bucket the  *)
(* source shifts by a negative count, which is undefined and as built gives   *)
(* a leaf far out of range. Here such a record may or may not go astray: its  *)
(* block is then mapped to a path that the storage refuses to read.           *)
(***************************************************************************)
EXTENDS PathORAM, TreeGeometry, BulkBuckets

CONSTANTS
  StorageCapacity,  \* locations 0 .. StorageCapacity - 1 exist in the storage
  Loadable          \* payloads of the records to load

ASSUME NumberAssumption == NumberRange \in Nat /\ 2 * Z < NumberRange

ASSUME StorageAssumption ==
  /\ StorageCapacity \in Nat
  /\ Loadable \subseteq Data
  /\ Leaves = LeavesOf(Height)
  /\ Locations = 0 .. StorageCapacity - 1
  /\ LocationsOf(Height) \subseteq Locations
  /\ \A level \in Levels, leaf \in Leaves :
       BucketFor(level, leaf) = BucketForLevelLeaf(Height, level, leaf)

(* What the tree needs to know of powers of two: the provers know nothing. *)
ASSUME PowersOfTwo ==
  2^0 = 1 /\ \A n \in 0 .. Height + StorageCapacity : 2^(n + 1) = 2 * 2^n

VARIABLES
  stage,     \* "fresh" until a load was tried, then "open"
  astray,    \* blocks that are mapped to no leaf of the tree
  expected   \* history: what each block was last given, by load or PUT

allVars == <<vars, stage, astray, expected>>

(* Faulty variant: maps records to leaves of the whole tree. *)
LeavesAnywhere(location) ==
  IF location \in Locations THEN Leaves ELSE {}

(* What comes out for a location outside the tree may be any leaf, if it is *)
(* one at all.                                                             *)
LeavesUnder(location) ==
  LET range == LeavesForLocation(Height, location)
  IN  IF location \in LocationsOf(Height) THEN range[1] .. range[2] ELSE Leaves

(* Z records to each bucket, the rest to the last one. *)
IsDeal(deal, count) ==
  \A iteration \in 0 .. count - 2 :
    Cardinality({b \in DOMAIN deal : deal[b] = iteration}) = Z

LoadInit ==
  /\ Init
  /\ stage = "fresh"
  /\ astray = {}
  /\ expected = [b \in Blocks |-> Empty]

(* What load does before it writes: it maps the records, even if the write *)
(* is then refused because a location is beyond the storage's capacity, a   *)
(* payload is too large or a bucket not of Z blocks.                        *)
Load(records) ==
  LET count == BucketCount(Z, Cardinality(DOMAIN records))
  IN
  /\ stage = "fresh"
  /\ stage' = "open"
  /\ count <= maxLocation(Height)
  /\ \E deal \in [DOMAIN records -> 0 .. count - 1],
        leafOf \in [DOMAIN records -> Leaves] :
       LET location == [b \in DOMAIN records |-> LoadLocation(Height, deal[b], count)]
           refused  ==
             \/ \E b \in DOMAIN records :
                  location[b] \notin Locations \/ records[b] \in Oversized
             \/ \E iteration \in 0 .. count - 1 :
                  RequestSize(Z, Cardinality(DOMAIN records), iteration) # Z
       IN
       /\ IsDeal(deal, count)
       /\ \A b \in DOMAIN records : leafOf[b] \in LeavesUnder(location[b])
       /\ positionMap' = [b \in Blocks |-> IF b \in DOMAIN records
                                           THEN leafOf[b] ELSE positionMap[b]]
       /\ astray' \in SUBSET {b \in DOMAIN records : location[b] \notin LocationsOf(Height)}
       /\ IF refused
          THEN UNCHANGED <<storage, expected>>
          ELSE /\ storage' = [l \in Locations |->
                    IF \E b \in DOMAIN records : location[b] = l
                    THEN Pad([b \in {x \in DOMAIN records : location[x] = l} |-> records[b]])
                    ELSE storage[l]]
               /\ expected' = [b \in Blocks |-> IF b \in DOMAIN records
                                                THEN records[b] ELSE expected[b]]
  /\ UNCHANGED <<stash, cache, call, phase, damaged>>

(* More buckets than locations: load throws before anything happens. *)
LoadTooMuch(records) ==
  /\ stage = "fresh"
  /\ stage' = "open"
  /\ BucketCount(Z, Cardinality(DOMAIN records)) > maxLocation(Height)
  /\ UNCHANGED <<vars, astray, expected>>

(* The path that is to be read next is that of a block that went astray. *)
Strays ==
  \/ phase = "prefetch" /\ \E i \in DOMAIN requests : requests[i].block \in astray
  \/ phase = "remap" /\ Current.block \in astray

Use ==
  /\ stage = "open"
  /\ ~Strays
  /\ Next
  /\ expected' = IF phase = "update" /\ phase' = "write" /\ Current.write
                 THEN [expected EXCEPT ![Current.block] = Current.data]
                 ELSE expected
  /\ UNCHANGED <<stage, astray>>

InTree(b) == \E location \in Locations : Holds(location, b)

(* The storage has no such locations and throws. An access has remapped its   *)
(* block by then, to a leaf of the tree: a copy beyond the tree is lost.       *)
UseAstray ==
  /\ stage = "open"
  /\ Strays
  /\ IF phase = "remap"
     THEN /\ \E leaf \in Leaves :
               positionMap' = [positionMap EXCEPT ![Current.block] = leaf]
          /\ astray' = astray \ {Current.block}
          /\ damaged' = IF InTree(Current.block) THEN damaged \cup {Current.block} ELSE damaged
     ELSE UNCHANGED <<positionMap, astray, damaged>>
  /\ Leave("threw")
  /\ UNCHANGED <<stash, tree, stage, expected>>

LoadNext ==
  \/ \E ids \in (SUBSET Blocks) \ {{}} : \E records \in [ids -> Loadable] :
       Load(records) \/ LoadTooMuch(records)
  \/ Use
  \/ UseAstray

LoadSpec == LoadInit /\ [][LoadNext]_allVars

-----------------------------------------------------------------------------
(* load keeps the ORAM invariant, as its documentation says: every record   *)
(* it wrote is on the path of the leaf it was mapped to.                    *)
LoadPreservesInvariant == OnMappedPath

(* A bulk-loaded record is what a GET answers until a PUT replaces it,      *)
(* whichever accesses came in between; a load that threw stored nothing.    *)
LoadedIsServed ==
  phase = "write" /\ ~Current.write /\ Current.block \notin damaged =>
    Padded(response) = Padded(expected[Current.block])

=============================================================================
