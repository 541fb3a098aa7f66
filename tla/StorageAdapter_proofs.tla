------------------------ MODULE StorageAdapter_proofs ------------------------
(***************************************************************************)
(* Proofs about StorageAdapter: what a call writes, answers and reports,      *)
(* for any number of buckets, any batch limit and any back end.              *)
(***************************************************************************)
EXTENDS StorageAdapter, FiniteSetTheorems, WellFoundedInduction, TLAPS

(* Of several indices one is the last: the one from which there is least to go. *)
LEMMA LastOf ==
  ASSUME NEW n \in Nat, NEW S \in SUBSET (1 .. n), S # {}
  PROVE  Max(S) \in S /\ \A j \in S : j <= Max(S)
<1> DEFINE T == {i .. n : i \in S}
           R == StrictSubsetOrdering(1 .. n)
<1>1. IsWellFoundedOn(R, SUBSET (1 .. n))
  <2>1. IsFiniteSet(1 .. n)
    BY FS_Interval
  <2>2. FiniteSubsetsOf(1 .. n) = SUBSET (1 .. n)
    BY <2>1, FS_FiniteSubsetsOfFinite
  <2>3. IsWellFoundedOn(R, FiniteSubsetsOf(1 .. n))
    BY FS_StrictSubsetOrderingWellFounded
  <2> QED
    BY <2>2, <2>3
<1>2. T # {} /\ T \subseteq SUBSET (1 .. n)
  <2>1. \A i \in S : i .. n \subseteq 1 .. n
    OBVIOUS
  <2> QED
    BY <2>1
<1>3. PICK x \in T : \A y \in T : <<y, x>> \notin R
  <2> HIDE DEF T, R
  <2> QED
    BY <1>1, <1>2, WFMin
<1>4. PICK i \in S : x = i .. n
  BY <1>3
<1>5. ASSUME NEW j \in S, i < j PROVE FALSE
  <2>1. j .. n \in T /\ j .. n \subseteq i .. n /\ j .. n # i .. n
    BY <1>5
  <2>2. <<j .. n, i .. n>> \in R
    BY <2>1 DEF StrictSubsetOrdering
  <2> QED
    BY <1>3, <1>4, <2>1, <2>2
<1>6. \A j \in S : j <= i
  BY <1>5
<1> QED
  BY <1>6 DEF Max

-----------------------------------------------------------------------------
(* Types *)

(* What a call that runs has passed, and where its counters stand at each of  *)
(* its steps.                                                               *)
CallOK ==
  status = "busy" =>
    /\ WellFormed(operation, arguments)
    /\ first <= pointer /\ pointer <= until
    /\ step = "cut" => pointer = until /\ (count = 0 \/ pointer < count)
    /\ step = "execute" /\ count # 0 => first < until
    /\ step = "execute" /\ (AsBatch \/ Single) => pointer = first
    /\ step = "recordOne" => ~AsBatch /\ first < pointer
    /\ step = "recordBatch" => pointer = until /\ ~Single
    /\ step = "done" => pointer = count

LEMMA Counters ==
  ASSUME TypeOK
  PROVE  /\ count \in Nat /\ pointer \in Nat /\ first \in Nat /\ until \in Nat
         /\ batchLimit \in Nat
         /\ pointer <= count /\ first <= count /\ until <= count
BY StorageConstants DEF TypeOK

(* A batch is not empty unless the call is, and within the arguments.        *)
LEMMA BatchFits ==
  ASSUME TypeOK
  PROVE  /\ BatchEnd \in pointer .. count
         /\ pointer < count => pointer < BatchEnd
BY Counters DEF BatchEnd

(* So is a request.                                                         *)
LEMMA RequestFits ==
  ASSUME TypeOK, CallOK, Executing
  PROVE  /\ Requested \in 0 .. count - pointer
         /\ Requested \in 0 .. until - pointer
         /\ count # 0 => Requested > 0
         /\ AsBatch => pointer + Requested = until /\ pointer = first
         /\ ~AsBatch => Requested = 1
BY Counters DEF Requested, Executing, CallOK

LEMMA InitType == Init => TypeOK /\ CallOK
<1> SUFFICES ASSUME Init PROVE TypeOK /\ CallOK
  OBVIOUS
<1>1. NoEntries \in [1 .. 0 -> Argument] /\ NoEntries \in [1 .. 0 -> Buckets]
  BY DEF NoEntries
<1>2. [location \in Locations |-> Zeroed] \in [Locations -> Buckets]
  BY StorageConstants
<1>3. /\ arguments \in [1 .. count -> Argument]
      /\ response \in [1 .. (IF operation = "get" THEN pointer ELSE 0) -> Buckets]
  BY <1>1 DEF Init
<1>4. blocks \in [Locations -> Buckets] /\ before \in [Locations -> Buckets]
  BY <1>2 DEF Init
<1>5. /\ supports \in BackEnds /\ batchLimit \in BatchLimits
      /\ operation \in {"get", "set"} /\ status \in {"busy", "returned", "threw"}
      /\ subscribed \in BOOLEAN
  BY DEF Init
<1>6. /\ count \in 0 .. MaxRequests /\ pointer \in 0 .. count
      /\ first \in 0 .. count /\ until \in 0 .. count
      /\ step \in {"cut", "execute", "recordOne", "recordBatch", "done"}
      /\ heard \in [1 .. count -> Nat]
  BY StorageConstants DEF Init, NoEntries
<1>7. TypeOK
  BY <1>3, <1>4, <1>5, <1>6 DEF TypeOK
<1> QED
  BY <1>7 DEF Init, CallOK

LEMMA CallType ==
  ASSUME TypeOK, NEW kind \in {"get", "set"}, NEW n \in 0 .. MaxRequests,
         NEW args \in [1 .. n -> Argument], Call(kind, n, args)
  PROVE  (TypeOK /\ CallOK)'
<1>1. NoEntries \in [1 .. 0 -> Buckets]
  BY DEF NoEntries
<1>2. response' \in [1 .. (IF operation' = "get" THEN pointer' ELSE 0) -> Buckets]
  BY <1>1 DEF Call
<1>3. status' = "busy" => WellFormed(kind, args)
  BY DEF Call
<1>4. CallOK'
  BY <1>3 DEF Call, CallOK, WellFormed
<1>5. heard' \in [1 .. n -> Nat]
  BY DEF Call
<1> QED
  BY <1>2, <1>4, <1>5, StorageConstants DEF Call, TypeOK

LEMMA GetArguments ==
  ASSUME NEW n \in 0 .. MaxRequests, NEW locations \in [1 .. n -> 0 .. Capacity]
  PROVE  [i \in 1 .. n |-> [location |-> locations[i], bucket |-> Zeroed]]
           \in [1 .. n -> Argument]
<1> SUFFICES ASSUME NEW i \in 1 .. n
             PROVE  [location |-> locations[i], bucket |-> Zeroed] \in Argument
  OBVIOUS
<1>1. locations[i] \in Locations \cup {Capacity}
  BY StorageConstants DEF Locations
<1> QED
  BY <1>1, StorageConstants DEF Argument

(* The arguments a request serves, once the call has been checked. *)
LEMMA ServedArguments ==
  ASSUME TypeOK, CallOK, status = "busy", NEW n \in 0 .. count - pointer
  PROVE  /\ Served(n) \subseteq 1 .. count
         /\ \A i \in 1 .. count : arguments[i] \in [location : Locations, bucket : Buckets]
<1>1. count \in Nat /\ pointer \in Nat
  BY StorageConstants DEF TypeOK
<1>2. Served(n) \subseteq 1 .. count
  BY <1>1 DEF Served
<1>3. ASSUME NEW i \in 1 .. count
      PROVE  arguments[i] \in [location : Locations, bucket : Buckets]
  <2>1. arguments[i] \in Argument /\ arguments[i].location \in Locations
    BY DEF TypeOK, CallOK, WellFormed
  <2>2. Capacity \notin Locations
    BY StorageConstants DEF Locations
  <2> QED
    BY <2>1, <2>2 DEF Argument
<1> QED
  BY <1>2, <1>3

(* The bucket of the last of the arguments that write to a location. *)
LEMMA LastWriter ==
  ASSUME TypeOK, CallOK, status = "busy", NEW n \in 0 .. count - pointer, NEW location,
         {i \in Served(n) : arguments[i].location = location} # {}
  PROVE  LET last == Max({i \in Served(n) : arguments[i].location = location})
         IN  /\ last \in Served(n) /\ arguments[last].location = location
             /\ \A i \in Served(n) : arguments[i].location = location => i <= last
<1>1. count \in Nat
  BY StorageConstants DEF TypeOK
<1>2. {i \in Served(n) : arguments[i].location = location} \in SUBSET (1 .. count)
  BY ServedArguments
<1> QED
  BY <1>1, <1>2, LastOf

LEMMA WriteType ==
  ASSUME TypeOK, CallOK, status = "busy", NEW n \in 0 .. count - pointer, Write(n)
  PROVE  blocks' \in [Locations -> Buckets]
<1> DEFINE writers(location) == {i \in Served(n) : arguments[i].location = location}
<1> SUFFICES ASSUME NEW location \in Locations
             PROVE  (IF writers(location) = {} THEN blocks[location]
                     ELSE arguments[Max(writers(location))].bucket) \in Buckets
  BY DEF Write
<1>1. CASE writers(location) = {}
  BY <1>1 DEF TypeOK
<1>2. CASE writers(location) # {}
  <2>1. Max(writers(location)) \in Served(n)
    BY <1>2, LastWriter
  <2>2. arguments[Max(writers(location))] \in [location : Locations, bucket : Buckets]
    BY <2>1, ServedArguments
  <2> QED
    BY <1>2, <2>2
<1> QED
  BY <1>1, <1>2

LEMMA ReadType ==
  ASSUME TypeOK, CallOK, status = "busy", operation = "get",
         NEW n \in 0 .. count - pointer, Read(n)
  PROVE  response' \in [1 .. pointer + n -> Buckets]
<1>1. count \in Nat /\ pointer \in Nat
  BY StorageConstants DEF TypeOK
<1>2. response \in [1 .. pointer -> Buckets]
  BY DEF TypeOK
<1>3. DOMAIN response \cup Served(n) = 1 .. pointer + n
  BY <1>1, <1>2 DEF Served
<1>4. ASSUME NEW i \in 1 .. pointer + n
      PROVE  (IF i \in Served(n) THEN blocks[arguments[i].location] ELSE response[i])
               \in Buckets
  <2>1. CASE i \in Served(n)
    <3>1. arguments[i].location \in Locations
      BY <2>1, ServedArguments
    <3> QED
      BY <2>1, <3>1 DEF TypeOK
  <2>2. CASE i \notin Served(n)
    BY <1>2, <1>3, <2>2
  <2> QED
    BY <2>1, <2>2
<1> QED
  BY <1>3, <1>4 DEF Read

LEMMA TellType ==
  ASSUME TypeOK, NEW from, NEW to, Tell(from, to)
  PROVE  heard' \in [1 .. count -> Nat]
BY DEF TypeOK, Tell

LEMMA StepType == TypeOK /\ CallOK /\ [Next]_vars => (TypeOK /\ CallOK)'
<1> SUFFICES ASSUME TypeOK, CallOK, [Next]_vars PROVE (TypeOK /\ CallOK)'
  OBVIOUS
<1> USE Counters
<1>1. CASE Subscribe
  BY <1>1 DEF Subscribe, progress, TypeOK, CallOK
<1>2. CASE Get
  BY <1>2, CallType, GetArguments DEF Get
<1>3. CASE Set
  BY <1>3, CallType DEF Set
<1>4. CASE Cut
  <2>1. /\ status = "busy" /\ step = "cut" /\ step' = "execute"
        /\ first' = pointer /\ until' = BatchEnd
        /\ UNCHANGED <<callVars, blocks, status, pointer, response, heard>>
    BY <1>4 DEF Cut
  <2>2. CallOK'
    BY <2>1, BatchFits DEF callVars, CallOK, WellFormed, AsBatch, Single
  <2>3. first' \in 0 .. count /\ until' \in 0 .. count
    BY <2>1, BatchFits
  <2> QED
    BY <2>1, <2>2, <2>3 DEF callVars, TypeOK
<1>5. CASE BackEndGets
  <2>1. /\ Executing /\ status = "busy" /\ step = "execute" /\ operation = "get"
        /\ Read(Requested) /\ pointer' = pointer + Requested /\ Executed
        /\ UNCHANGED <<callVars, blocks, status, first, until, heard>>
    BY <1>5 DEF BackEndGets, Executing
  <2>2. response' \in [1 .. pointer' -> Buckets]
    BY <2>1, RequestFits, ReadType
  <2>3. CallOK'
    BY <2>1, RequestFits DEF callVars, CallOK, WellFormed, AsBatch, Single, Executed
  <2>4. pointer' \in 0 .. count
    BY <2>1, RequestFits
  <2> QED
    BY <2>1, <2>2, <2>3, <2>4 DEF callVars, TypeOK, Executed
<1>6. CASE BackEndSets
  <2>1. /\ Executing /\ status = "busy" /\ step = "execute" /\ operation = "set"
        /\ Write(Requested) /\ pointer' = pointer + Requested /\ Executed
        /\ UNCHANGED <<callVars, status, response, first, until, heard>>
    BY <1>6 DEF BackEndSets, Executing
  <2>2. blocks' \in [Locations -> Buckets]
    BY <2>1, RequestFits, WriteType
  <2>3. CallOK'
    BY <2>1, RequestFits DEF callVars, CallOK, WellFormed, AsBatch, Single, Executed
  <2>4. pointer' \in 0 .. count
    BY <2>1, RequestFits
  <2>5. response' \in [1 .. 0 -> Buckets]
    BY <2>1 DEF TypeOK
  <2> QED
    BY <2>1, <2>2, <2>3, <2>4, <2>5 DEF callVars, TypeOK, Executed
<1>7. CASE BackEndFails
  BY <1>7 DEF BackEndFails, callVars, progress, TypeOK, CallOK
<1>8. CASE BatchExecuted
  <2>1. /\ status = "busy" /\ step = "execute" /\ ~AsBatch /\ pointer = until
        /\ step' = "recordBatch"
        /\ UNCHANGED <<callVars, blocks, status, pointer, response, first, until, heard>>
    BY <1>8 DEF BatchExecuted
  <2>2. ~Single
    BY <2>1 DEF CallOK, Single
  <2>3. CallOK'
    BY <2>1, <2>2 DEF callVars, CallOK, WellFormed, AsBatch, Single
  <2> QED
    BY <2>1, <2>3 DEF callVars, TypeOK
<1>9. CASE RecordOne
  <2>1. /\ status = "busy" /\ step = "recordOne"
        /\ step' = IF Single THEN "done" ELSE "execute"
        /\ UNCHANGED <<callVars, blocks, status, pointer, response, first, until>>
    BY <1>9 DEF RecordOne
  <2>2. heard' \in [1 .. count -> Nat]
    BY <1>9, TellType DEF RecordOne, TypeOK
  <2>3. CallOK'
    BY <2>1 DEF callVars, CallOK, WellFormed, AsBatch, Single
  <2> QED
    BY <2>1, <2>2, <2>3 DEF callVars, TypeOK
<1>10. CASE RecordBatch
  <2>1. /\ status = "busy" /\ step = "recordBatch"
        /\ step' = IF until = count THEN "done" ELSE "cut"
        /\ UNCHANGED <<callVars, blocks, status, pointer, response, first, until>>
    BY <1>10 DEF RecordBatch
  <2>2. heard' \in [1 .. count -> Nat]
    BY <1>10, TellType DEF RecordBatch, TypeOK
  <2>3. CallOK'
    BY <2>1 DEF callVars, CallOK, WellFormed, AsBatch, Single
  <2> QED
    BY <2>1, <2>2, <2>3 DEF callVars, TypeOK
<1>11. CASE Return
  BY <1>11 DEF Return, callVars, progress, TypeOK, CallOK
<1>12. CASE UNCHANGED vars
  BY <1>12 DEF vars, TypeOK, CallOK, WellFormed, AsBatch, Single
<1> QED
  BY <1>1, <1>2, <1>3, <1>4, <1>5, <1>6, <1>7, <1>8, <1>9, <1>10, <1>11, <1>12 DEF Next

(* Every variable of the adapter has its type, so every batch of a call lies  *)
(* within its arguments, whatever the batch limit is.                        *)
THEOREM StorageTypeCorrect == Spec => []TypeOK
<1>1. Spec => [](TypeOK /\ CallOK)
  BY InitType, StepType, PTL DEF Spec
<1> QED
  BY <1>1, PTL

-----------------------------------------------------------------------------
(* What is written *)

(* A request to write turns the prefix that is written into a longer one. *)
LEMMA WriteExtends ==
  ASSUME TypeOK, CallOK, status = "busy", NEW n \in 0 .. count - pointer, Write(n),
         NEW location \in Locations, Holds(pointer, location, blocks[location])
  PROVE  Holds(pointer + n, location, blocks'[location])
<1> DEFINE some == {i \in Served(n) : arguments[i].location = location}
           old  == {i \in 1 .. pointer : arguments[i].location = location}
           all  == {i \in 1 .. pointer + n : arguments[i].location = location}
<1>1. pointer \in Nat /\ n \in Nat
  BY StorageConstants DEF TypeOK
<1>2. all = old \cup some
  BY <1>1 DEF Served
<1>3. CASE some = {}
  <2>1. blocks'[location] = blocks[location]
    BY <1>3 DEF Write
  <2>2. all = old
    BY <1>2, <1>3
  <2> QED
    BY <2>1, <2>2 DEF Holds
<1>4. CASE some # {}
  <2> DEFINE last == Max(some)
  <2>1. /\ last \in some
        /\ \A i \in some : i <= last
    BY <1>4, LastWriter
  <2>2. blocks'[location] = arguments[last].bucket
    BY <1>4 DEF Write
  <2> HIDE DEF last
  <2>3. \A i \in all : i <= last
    BY <1>1, <1>2, <2>1 DEF Served
  <2>4. last \in all
    BY <1>2, <2>1
  <2> QED
    BY <2>2, <2>3, <2>4 DEF Holds
<1> QED
  BY <1>3, <1>4

LEMMA InitWrites == Init => WritesPrefix
BY DEF Init, WritesPrefix, Holds

LEMMA StepWrites ==
  TypeOK /\ CallOK /\ WritesPrefix /\ [Next]_vars => WritesPrefix'
<1> SUFFICES ASSUME TypeOK, CallOK, WritesPrefix, [Next]_vars PROVE WritesPrefix'
  OBVIOUS
<1>1. ASSUME NEW kind, NEW n, NEW args, Call(kind, n, args) PROVE WritesPrefix'
  <2>1. \A i : i \notin 1 .. 0
    OBVIOUS
  <2>2. pointer' = 0 /\ before' = blocks /\ blocks' = blocks /\ status' # "returned"
    BY <1>1 DEF Call
  <2> QED
    BY <2>1, <2>2 DEF WritesPrefix, Holds
<1>2. CASE Get \/ Set
  BY <1>1, <1>2 DEF Get, Set
<1>3. CASE BackEndGets
  BY <1>3 DEF BackEndGets, Executing, callVars, WritesPrefix, Holds
<1>4. CASE BackEndSets
  <2>1. /\ Executing /\ status = "busy" /\ operation = "set"
        /\ Write(Requested) /\ pointer' = pointer + Requested
        /\ UNCHANGED <<callVars, status>>
    BY <1>4 DEF BackEndSets, Executing
  <2>2. Requested \in 0 .. count - pointer
    BY <2>1, RequestFits
  <2>3. ASSUME NEW location \in Locations
        PROVE  Holds(pointer, location, blocks[location])'
    <3>1. Holds(pointer, location, blocks[location])
      BY <2>1 DEF WritesPrefix
    <3>2. Holds(pointer + Requested, location, blocks'[location])
      BY <2>1, <2>2, <3>1, WriteExtends
    <3> QED
      BY <2>1, <3>2 DEF Holds, callVars
  <2> QED
    BY <2>1, <2>3 DEF WritesPrefix, callVars
<1>5. CASE Return
  BY <1>5 DEF Return, callVars, WritesPrefix, Holds, CallOK
<1>6. CASE Subscribe \/ BackEndFails
  BY <1>6 DEF Subscribe, BackEndFails, callVars, WritesPrefix, Holds
<1>7. CASE Cut \/ BatchExecuted \/ RecordOne \/ RecordBatch
  BY <1>7 DEF Cut, BatchExecuted, RecordOne, RecordBatch, callVars, WritesPrefix, Holds
<1>8. CASE UNCHANGED vars
  BY <1>8 DEF vars, WritesPrefix, Holds
<1> QED
  BY <1>2, <1>3, <1>4, <1>5, <1>6, <1>7, <1>8 DEF Next

(* For any number of buckets and any batch limit, and wherever a back end     *)
(* fails: what set has written is a prefix of what it was asked to, in that   *)
(* order, and all of it once it has returned.                                *)
THEOREM WritesArePrefixes == Spec => []WritesPrefix
<1>1. Spec => [](TypeOK /\ CallOK /\ WritesPrefix)
  BY InitType, StepType, InitWrites, StepWrites, PTL DEF Spec
<1> QED
  BY <1>1, PTL

-----------------------------------------------------------------------------
(* What is answered *)

(* A request to read appends its answers to those that are there. *)
LEMMA ReadAppends ==
  ASSUME TypeOK, CallOK, NEW n \in 0 .. count - pointer, Read(n),
         response = [i \in 1 .. pointer |-> blocks[arguments[i].location]]
  PROVE  response' = [i \in 1 .. pointer + n |-> blocks[arguments[i].location]]
<1>1. pointer \in Nat /\ n \in Nat
  BY StorageConstants DEF TypeOK
<1>2. DOMAIN response \cup Served(n) = 1 .. pointer + n
  BY <1>1 DEF Served
<1>3. \A i \in (1 .. pointer + n) \ Served(n) :
        response[i] = blocks[arguments[i].location]
  BY <1>1 DEF Served
<1> QED
  BY <1>2, <1>3 DEF Read

LEMMA StepAnswers ==
  TypeOK /\ CallOK /\ AnswersInOrder /\ [Next]_vars => AnswersInOrder'
<1> SUFFICES ASSUME TypeOK, CallOK, AnswersInOrder, [Next]_vars PROVE AnswersInOrder'
  OBVIOUS
<1>1. ASSUME NEW kind, NEW n, NEW args, Call(kind, n, args) PROVE AnswersInOrder'
  <2>1. pointer' = 0 /\ response' = NoEntries
    BY <1>1 DEF Call
  <2>2. NoEntries = [i \in 1 .. pointer' |-> blocks'[arguments'[i].location]]
    BY <2>1 DEF NoEntries
  <2> QED
    BY <2>1, <2>2 DEF AnswersInOrder
<1>2. CASE Get \/ Set
  BY <1>1, <1>2 DEF Get, Set
<1>3. CASE BackEndGets
  <2>1. /\ Executing /\ operation = "get"
        /\ Read(Requested) /\ pointer' = pointer + Requested
        /\ UNCHANGED <<callVars, blocks, status>>
    BY <1>3 DEF BackEndGets
  <2>2. response' = [i \in 1 .. pointer + Requested |-> blocks[arguments[i].location]]
    BY <2>1, RequestFits, ReadAppends DEF AnswersInOrder
  <2> QED
    BY <2>1, <2>2 DEF AnswersInOrder, callVars
<1>4. CASE BackEndSets
  BY <1>4 DEF BackEndSets, callVars, AnswersInOrder
<1>5. CASE Subscribe \/ BackEndFails \/ Return
  BY <1>5 DEF Subscribe, BackEndFails, Return, callVars, AnswersInOrder
<1>6. CASE Cut \/ BatchExecuted \/ RecordOne \/ RecordBatch
  BY <1>6 DEF Cut, BatchExecuted, RecordOne, RecordBatch, callVars, AnswersInOrder
<1>7. CASE UNCHANGED vars
  BY <1>7 DEF vars, AnswersInOrder
<1> QED
  BY <1>2, <1>3, <1>4, <1>5, <1>6, <1>7 DEF Next

(* For any number of locations and any batch limit: get has, at each index up *)
(* to where the back end has come, the bucket of the location asked for there. *)
THEOREM AnswersStayInOrder == Spec => []AnswersInOrder
<1>1. Init => AnswersInOrder
  BY DEF Init, AnswersInOrder
<1>2. Spec => [](TypeOK /\ CallOK /\ AnswersInOrder)
  BY InitType, StepType, <1>1, StepAnswers, PTL DEF Spec
<1> QED
  BY <1>2, PTL

-----------------------------------------------------------------------------
(* What is kept out, and what is reported *)

LEMMA WriteKeepsOut ==
  ASSUME TypeOK, CallOK, status = "busy", operation = "set",
         NEW n \in 0 .. count - pointer, Write(n), NothingMalformedStored
  PROVE  NothingMalformedStored'
<1> SUFFICES ASSUME NEW location \in Locations PROVE blocks'[location] \notin Malformed
  BY DEF NothingMalformedStored
<1> DEFINE writers == {i \in Served(n) : arguments[i].location = location}
<1>1. CASE writers = {}
  BY <1>1 DEF Write, NothingMalformedStored
<1>2. CASE writers # {}
  <2>1. Max(writers) \in 1 .. count
    BY <1>2, LastWriter, ServedArguments
  <2>2. arguments[Max(writers)].bucket \notin Malformed
    BY <2>1 DEF CallOK, WellFormed, TypeOK
  <2> QED
    BY <1>2, <2>2 DEF Write
<1> QED
  BY <1>1, <1>2

LEMMA StepKeepsOut ==
  TypeOK /\ CallOK /\ NothingMalformedStored /\ [Next]_vars => NothingMalformedStored'
<1> SUFFICES ASSUME TypeOK, CallOK, NothingMalformedStored, [Next]_vars
             PROVE  NothingMalformedStored'
  OBVIOUS
<1>1. CASE BackEndSets
  BY <1>1, RequestFits, WriteKeepsOut DEF BackEndSets, Executing
<1>2. CASE blocks' = blocks
  BY <1>2 DEF NothingMalformedStored
<1>3. BackEndSets \/ blocks' = blocks
  BY DEF Next, Subscribe, Get, Set, Call, Cut, BackEndGets, BackEndFails, BatchExecuted,
         RecordOne, RecordBatch, Return, vars
<1> QED
  BY <1>1, <1>2, <1>3

(* A bucket that is too large or not of Z blocks gets into no back end,       *)
(* wherever it stands among those of a call to set.                          *)
THEOREM NothingMalformed == Spec => []NothingMalformedStored
<1>1. Init => NothingMalformedStored
  BY StorageConstants DEF Init, NothingMalformedStored
<1>2. Spec => [](TypeOK /\ CallOK /\ NothingMalformedStored)
  BY InitType, StepType, <1>1, StepKeepsOut, PTL DEF Spec
<1> QED
  BY <1>2, PTL

(* A report of the arguments from one index on, when those before are reported. *)
LEMMA TellOnce ==
  ASSUME TypeOK, NEW m \in 0 .. count, NEW n \in m .. count, Tell(m + 1, n),
         \A i \in 1 .. count : heard[i] = IF i <= m THEN 1 ELSE 0
  PROVE  \A i \in 1 .. count : heard'[i] = IF i <= n THEN 1 ELSE 0
<1> SUFFICES ASSUME NEW i \in 1 .. count
             PROVE  heard'[i] = IF i <= n THEN 1 ELSE 0
  OBVIOUS
<1>1. heard'[i] = IF i \in m + 1 .. n THEN heard[i] + 1 ELSE heard[i]
  BY DEF TypeOK, Tell
<1> QED
  BY <1>1, Counters

LEMMA StepReports ==
  TypeOK /\ CallOK /\ AllTrafficReported /\ [Next]_vars => AllTrafficReported'
<1> SUFFICES ASSUME TypeOK, CallOK, AllTrafficReported, [Next]_vars
             PROVE  AllTrafficReported'
  OBVIOUS
<1> USE Counters
<1>1. ASSUME NEW kind, NEW n, NEW args, Call(kind, n, args) PROVE AllTrafficReported'
  <2>1. /\ step' = "cut" /\ pointer' = 0 /\ count' = n
        /\ heard' = [i \in 1 .. n |-> 0]
    BY <1>1 DEF Call
  <2>2. Accounted' = 0
    BY <2>1 DEF Accounted
  <2> QED
    BY <2>1, <2>2 DEF AllTrafficReported
<1>2. CASE Get \/ Set \/ Subscribe \/ BackEndFails \/ Return
  BY <1>1, <1>2 DEF Get, Set, Subscribe, BackEndFails, Return, AllTrafficReported
<1>3. CASE Cut \/ BatchExecuted
  <2>1. Accounted = pointer /\ Accounted' = pointer
    <3>1. CASE Cut
      BY <3>1 DEF Cut, Accounted
    <3>2. CASE BatchExecuted
      BY <3>2 DEF BatchExecuted, callVars, Accounted, AsBatch, Single
    <3> QED
      BY <1>3, <3>1, <3>2
  <2> QED
    BY <1>3, <2>1 DEF Cut, BatchExecuted, callVars, AllTrafficReported
<1>4. CASE BackEndGets \/ BackEndSets
  <2>1. /\ Executing /\ status = "busy" /\ step = "execute"
        /\ pointer' = pointer + Requested /\ Executed
        /\ UNCHANGED <<callVars, status, first, until, heard>>
    BY <1>4 DEF BackEndGets, BackEndSets, Executing
  <2>2. Accounted = pointer
    BY <2>1 DEF Accounted
  <2>3. Accounted' = pointer
    BY <2>1, RequestFits DEF Accounted, Executed, callVars, AsBatch, Single
  <2> QED
    BY <2>1, <2>2, <2>3 DEF AllTrafficReported, callVars
<1>5. CASE RecordOne
  <2>1. /\ status = "busy" /\ step = "recordOne" /\ step' \in {"done", "execute"}
        /\ UNCHANGED <<callVars, status, pointer>>
        /\ first < pointer
    BY <1>5 DEF RecordOne, CallOK
  <2>2. Accounted = pointer - 1 /\ Accounted' = pointer
    BY <2>1 DEF Accounted
  <2>3. CASE subscribed
    <3>1. Tell(pointer, pointer)
      BY <1>5, <2>3 DEF RecordOne
    <3>2. pointer - 1 \in 0 .. count /\ pointer \in pointer - 1 .. count
          /\ (pointer - 1) + 1 = pointer
      BY <2>1
    <3>3. \A i \in 1 .. count : heard[i] = IF i <= pointer - 1 THEN 1 ELSE 0
      BY <2>1, <2>2, <2>3 DEF AllTrafficReported
    <3>4. \A i \in 1 .. count : heard'[i] = IF i <= pointer THEN 1 ELSE 0
      BY <3>1, <3>2, <3>3, TellOnce
    <3> QED
      BY <2>1, <2>2, <2>3, <3>4 DEF AllTrafficReported, callVars
  <2>4. CASE ~subscribed
    BY <1>5, <2>1, <2>4 DEF RecordOne, AllTrafficReported, callVars
  <2> QED
    BY <2>3, <2>4
<1>6. CASE RecordBatch
  <2>1. /\ status = "busy" /\ step = "recordBatch" /\ step' \in {"done", "cut"}
        /\ UNCHANGED <<callVars, status, pointer>>
        /\ pointer = until /\ first <= until /\ ~Single
    BY <1>6 DEF RecordBatch, CallOK
  <2>2. Accounted = (IF AsBatch THEN first ELSE pointer) /\ Accounted' = pointer
    BY <2>1 DEF Accounted
  <2>3. BatchHeard <=> subscribed /\ AsBatch
    BY <2>1 DEF BatchHeard, AsBatch
  <2>4. CASE BatchHeard
    <3>1. Tell(first + 1, until)
      BY <1>6, <2>4 DEF RecordBatch
    <3>2. \A i \in 1 .. count : heard[i] = IF i <= first THEN 1 ELSE 0
      BY <2>1, <2>2, <2>3, <2>4 DEF AllTrafficReported
    <3>3. \A i \in 1 .. count : heard'[i] = IF i <= until THEN 1 ELSE 0
      BY <2>1, <3>1, <3>2, TellOnce
    <3> QED
      BY <2>1, <2>2, <2>3, <2>4, <3>3 DEF AllTrafficReported, callVars
  <2>5. CASE ~BatchHeard
    BY <1>6, <2>1, <2>2, <2>3, <2>5 DEF RecordBatch, AllTrafficReported, callVars
  <2> QED
    BY <2>4, <2>5
<1>7. CASE UNCHANGED vars
  BY <1>7 DEF vars, AllTrafficReported, Accounted, AsBatch, Single
<1> QED
  BY <1>2, <1>3, <1>4, <1>5, <1>6, <1>7 DEF Next

(* For every back end, batch limit and number of buckets: a handler is told of *)
(* each bucket once, by the report of a batch or by the one within it but not  *)
(* by both, and of none that was not moved.                                  *)
THEOREM TrafficReported == Spec => []AllTrafficReported
<1>1. Init => AllTrafficReported
  BY DEF Init, AllTrafficReported
<1>2. Spec => [](TypeOK /\ CallOK /\ AllTrafficReported)
  BY InitType, StepType, <1>1, StepReports, PTL DEF Spec
<1> QED
  BY <1>2, PTL

-----------------------------------------------------------------------------
(* Progress *)

(* How far a call is from its end at the least: buckets that are left weigh    *)
(* more than all the steps between two requests.                             *)
StepsLeft ==
  IF step = "done" THEN 0
  ELSE IF step = "execute" /\ pointer < until THEN 1
  ELSE IF step = "cut" /\ count # 0 THEN 2
  ELSE IF step = "recordBatch" THEN 3
  ELSE IF step = "execute" THEN 4
  ELSE 5

Left == 6 * (count - pointer) + StepsLeft

StepsAdvance == status = "busy" => status' # "busy" \/ Left' < Left

LEMMA StepAdvances == TypeOK /\ CallOK /\ [Next]_vars => [StepsAdvance]_vars
<1> SUFFICES ASSUME TypeOK, CallOK, Next, status = "busy", status' = "busy"
             PROVE  Left' < Left
  BY DEF StepsAdvance
<1> USE Counters
<1>1. CASE Cut
  BY <1>1, BatchFits DEF Cut, callVars, CallOK, Left, StepsLeft
<1>2. CASE BackEndGets \/ BackEndSets
  <2>1. /\ Executing /\ step = "execute" /\ count' = count
        /\ pointer' = pointer + Requested /\ Executed
    BY <1>2 DEF BackEndGets, BackEndSets, Executing, callVars
  <2>2. step' \in {"recordOne", "recordBatch"}
    BY <2>1 DEF Executed
  <2>3. CASE count = 0
    <3>1. Requested = 0 /\ AsBatch /\ step' = "recordBatch" /\ pointer = 0 /\ until = 0
      BY <2>1, <2>3, RequestFits DEF Executed
    <3> QED
      BY <2>1, <3>1 DEF Left, StepsLeft
  <2>4. CASE count # 0
    <3>1. Requested \in 1 .. count - pointer
      BY <2>1, <2>4, RequestFits
    <3>2. StepsLeft' <= 5 /\ StepsLeft' \in Nat /\ StepsLeft \in Nat /\ StepsLeft >= 1
      BY <2>1, <2>2 DEF StepsLeft
    <3> QED
      BY <2>1, <3>1, <3>2 DEF Left
  <2> QED
    BY <2>3, <2>4
<1>3. CASE BatchExecuted
  BY <1>3 DEF BatchExecuted, callVars, Left, StepsLeft
<1>4. CASE RecordOne
  BY <1>4 DEF RecordOne, callVars, Left, StepsLeft
<1>5. CASE RecordBatch
  BY <1>5 DEF RecordBatch, callVars, CallOK, Left, StepsLeft
<1>6. ~(BackEndFails \/ Return \/ Subscribe \/ Get \/ Set)
  BY DEF BackEndFails, Return, Subscribe, Get, Set, Call
<1> QED
  BY <1>1, <1>2, <1>3, <1>4, <1>5, <1>6 DEF Next

(* The part of CallsEnd that needs no fairness: whatever the batch limit, 0     *)
(* included, and whatever the back end, a call of n buckets is over after       *)
(* 6 n + 6 steps at most.                                                   *)
THEOREM BatchesAdvance == Spec => [][StepsAdvance]_vars
<1>1. Spec => [](TypeOK /\ CallOK)
  BY InitType, StepType, PTL DEF Spec
<1> QED
  BY <1>1, StepAdvances, PTL DEF Spec

=============================================================================
