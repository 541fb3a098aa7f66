---------------------------- MODULE StorageAdapter ----------------------------
(***************************************************************************)
(* AbsStorageAdapter of path-oram/src/storage-adapter.cpp with its three     *)
(* back ends. A call of get or set checks all its arguments, then turns them *)
(* into batches of at most batchLimit buckets. A back end with batch         *)
(* operations (Redis) is asked for a batch at once, one without (memory, file *)
(* system) bucket by bucket. Any request may fail.                           *)
(*                                                                         *)
(* Batches and single buckets both go through RECORD_AND_EXECUTE, which tells *)
(* the handler of onStorageRequest once the request is done: for a back end   *)
(* without batch operations one within the other, and the conditions of the   *)
(* macro decide which of the two tells. The step of a call is what it does    *)
(* next: "cut" the next batch, "execute" a request, report it ("recordOne" or *)
(* "recordBatch"), or return ("done").                                      *)
(*                                                                         *)
(* Encryption is left out: a bucket read is the bucket that was written.    *)
(***************************************************************************)
EXTENDS Integers, FiniteSetsExt

CONSTANTS
  Capacity,       \* number of buckets
  BatchLimits,    \* what batchLimit may be: the largest batch, 0 for no limit
  BackEnds,       \* kinds of back ends: what supportsBatchGet and -Set answer
  Buckets,        \* what a caller may ask to store
  Malformed,      \* those that are refused: a large payload, or not Z blocks
  Zeroed,         \* the bucket fillWithZeroes writes
  MaxRequests     \* bound: most buckets in one call

Locations == 0 .. Capacity - 1

(* Callers may name a location that does not exist. *)
Argument == [location : Locations, bucket : Buckets]
            \cup [location : {Capacity}, bucket : {Zeroed}]

ASSUME StorageConstants ==
  /\ Capacity \in Nat \ {0} /\ BatchLimits \subseteq Nat /\ MaxRequests \in Nat
  /\ BackEnds \subseteq [get : BOOLEAN, set : BOOLEAN]
  /\ Malformed \subseteq Buckets /\ Zeroed \in Buckets \ Malformed

VARIABLES
  supports,    \* which calls the back end has batch operations for
  batchLimit,  \* of this adapter
  blocks,      \* the back end: location -> bucket
  operation,   \* what the current or last call does: "get" or "set"
  status,      \* "busy", or how the last call ended
  count,       \* the number of its arguments
  arguments,   \* index -> argument
  pointer,     \* how many of them the back end has served
  response,    \* index -> bucket, for those a get has read
  subscribed,  \* whether onStorageRequest has a handler
  step,        \* what the call does next
  first,       \* how many were served when the batch in hand was cut
  until,       \* how many are served once it is done
  heard,       \* history: index -> how often the handler was told of that bucket
  before       \* history: the back end when this call began

callVars == <<supports, batchLimit, operation, count, arguments, subscribed, before>>
progress == <<step, first, until, heard>>
vars == <<supports, batchLimit, blocks, operation, status, count, arguments, pointer,
          response, subscribed, step, first, until, heard, before>>

NoEntries == [i \in {} |-> i]

(* The constructors fill the back end, with nobody subscribed yet. *)
Init ==
  /\ supports \in BackEnds
  /\ batchLimit \in BatchLimits
  /\ blocks = [location \in Locations |-> Zeroed]
  /\ operation = "set"
  /\ status = "returned"
  /\ count = 0
  /\ arguments = NoEntries
  /\ pointer = 0
  /\ response = NoEntries
  /\ subscribed = FALSE
  /\ step = "done"
  /\ first = 0
  /\ until = 0
  /\ heard = NoEntries
  /\ before = blocks

Subscribe ==
  /\ status # "busy"
  /\ subscribed' = ~subscribed
  /\ UNCHANGED <<supports, batchLimit, blocks, operation, status, count, arguments,
                 pointer, response, progress, before>>

(* Faulty variant: the payloads are only looked at when there is one bucket. *)
WellFormedSingle(kind, args) ==
  \A i \in DOMAIN args :
    /\ args[i].location \in Locations
    /\ kind = "set" /\ DOMAIN args = {1} => args[i].bucket \notin Malformed

WellFormed(kind, args) ==
  \A i \in DOMAIN args :
    /\ args[i].location \in Locations
    /\ kind = "set" => args[i].bucket \notin Malformed

Call(kind, n, args) ==
  /\ status # "busy"
  /\ status' = IF WellFormed(kind, args) THEN "busy" ELSE "threw"
  /\ operation' = kind
  /\ count' = n
  /\ arguments' = args
  /\ pointer' = 0
  /\ response' = NoEntries
  /\ step' = "cut"
  /\ first' = 0
  /\ until' = 0
  /\ heard' = [i \in 1 .. n |-> 0]
  /\ before' = blocks
  /\ UNCHANGED <<supports, batchLimit, blocks, subscribed>>

Get ==
  \E n \in 0 .. MaxRequests : \E locations \in [1 .. n -> 0 .. Capacity] :
    Call("get", n, [i \in 1 .. n |-> [location |-> locations[i], bucket |-> Zeroed]])

Set ==
  \E n \in 0 .. MaxRequests : \E args \in [1 .. n -> Argument] : Call("set", n, args)

-----------------------------------------------------------------------------
(* Batches *)

(* Faulty variant: a limit of zero is taken for a limit. *)
BatchEndAsLimited ==
  IF count - pointer <= batchLimit THEN count ELSE pointer + batchLimit

(* Faulty variant: the last batch is as long as the others. *)
BatchEndUncut ==
  IF batchLimit = 0 \/ count <= batchLimit THEN count ELSE pointer + batchLimit

BatchEnd ==
  IF batchLimit = 0 \/ count - pointer <= batchLimit THEN count ELSE pointer + batchLimit

Cut ==
  /\ status = "busy" /\ step = "cut"
  /\ step' = "execute"
  /\ first' = pointer
  /\ until' = BatchEnd
  /\ UNCHANGED <<callVars, blocks, status, pointer, response, heard>>

(* A call for one bucket goes past the batches, whatever the back end. *)
Single == count = 1

(* Whether the back end is asked for the batch in hand as a whole. *)
AsBatch == supports[operation] /\ ~Single

-----------------------------------------------------------------------------
(* Requests to the back end *)

Requested == IF AsBatch THEN until - pointer ELSE 1

(* The arguments that a request for n buckets serves. *)
Served(n) == pointer + 1 .. pointer + n

(* Faulty variant: the answers of a request start at index 1 again. *)
ReadFromFirst(n) ==
  response' = [i \in DOMAIN response \cup Served(n) |->
                 IF i <= n THEN blocks[arguments[pointer + i].location]
                 ELSE IF i \in Served(n) THEN Zeroed ELSE response[i]]

Read(n) ==
  response' = [i \in DOMAIN response \cup Served(n) |->
                 IF i \in Served(n) THEN blocks[arguments[i].location]
                 ELSE response[i]]

(* Faulty variant: each request is taken from the first argument on. *)
WriteFromFirst(n) ==
  LET writers(location) == {i \in 1 .. n : arguments[i].location = location}
  IN  blocks' = [location \in Locations |->
                   IF writers(location) = {} THEN blocks[location]
                   ELSE arguments[Max(writers(location))].bucket]

(* Of two buckets for one location the later one stays. *)
Write(n) ==
  LET writers(location) == {i \in Served(n) : arguments[i].location = location}
  IN  blocks' = [location \in Locations |->
                   IF writers(location) = {} THEN blocks[location]
                   ELSE arguments[Max(writers(location))].bucket]

Executing == status = "busy" /\ step = "execute" /\ (AsBatch \/ pointer < until)

Executed == step' = IF AsBatch THEN "recordBatch" ELSE "recordOne"

BackEndGets ==
  /\ Executing /\ operation = "get"
  /\ Read(Requested) /\ pointer' = pointer + Requested /\ Executed
  /\ UNCHANGED <<callVars, blocks, status, first, until, heard>>

BackEndSets ==
  /\ Executing /\ operation = "set"
  /\ Write(Requested) /\ pointer' = pointer + Requested /\ Executed
  /\ UNCHANGED <<callVars, status, response, first, until, heard>>

BackEndFails ==
  /\ Executing
  /\ status' = "threw"
  /\ UNCHANGED <<callVars, blocks, pointer, response, progress>>

(* The requests for single buckets that make up a batch are done. *)
BatchExecuted ==
  /\ status = "busy" /\ step = "execute"
  /\ ~AsBatch /\ pointer = until
  /\ step' = "recordBatch"
  /\ UNCHANGED <<callVars, blocks, status, pointer, response, first, until, heard>>

-----------------------------------------------------------------------------
(* Reports: the second half of RECORD_AND_EXECUTE *)

(* The handler is told of the arguments from one index to another. *)
Tell(from, to) ==
  heard' = [i \in DOMAIN heard |-> IF i \in from .. to THEN heard[i] + 1 ELSE heard[i]]

RecordOne ==
  /\ status = "busy" /\ step = "recordOne"
  /\ IF subscribed THEN Tell(pointer, pointer) ELSE UNCHANGED heard
  /\ step' = IF Single THEN "done" ELSE "execute"
  /\ UNCHANGED <<callVars, blocks, status, pointer, response, first, until>>

(* Faulty variant: batches are reported whatever the back end. *)
BatchHeardAlways == subscribed

BatchHeard == subscribed /\ supports[operation]

RecordBatch ==
  /\ status = "busy" /\ step = "recordBatch"
  /\ IF BatchHeard THEN Tell(first + 1, until) ELSE UNCHANGED heard
  /\ step' = IF until = count THEN "done" ELSE "cut"
  /\ UNCHANGED <<callVars, blocks, status, pointer, response, first, until>>

Return ==
  /\ status = "busy" /\ step = "done"
  /\ status' = "returned"
  /\ UNCHANGED <<callVars, blocks, pointer, response, progress>>

Next ==
  \/ Subscribe
  \/ Get
  \/ Set
  \/ Cut
  \/ BackEndGets
  \/ BackEndSets
  \/ BackEndFails
  \/ BatchExecuted
  \/ RecordOne
  \/ RecordBatch
  \/ Return

(* The thread that runs the call goes on with it. No back end has to fail. *)
Steps == Cut \/ BackEndGets \/ BackEndSets \/ BatchExecuted \/ RecordOne \/ RecordBatch \/ Return

Spec == Init /\ [][Next]_vars /\ WF_vars(Steps)

-----------------------------------------------------------------------------
(* Properties *)

(* Every variable has its type. *)
TypeOK ==
  /\ supports \in BackEnds
  /\ batchLimit \in BatchLimits
  /\ blocks \in [Locations -> Buckets]
  /\ operation \in {"get", "set"}
  /\ status \in {"busy", "returned", "threw"}
  /\ count \in 0 .. MaxRequests
  /\ arguments \in [1 .. count -> Argument]
  /\ pointer \in 0 .. count
  /\ response \in [1 .. (IF operation = "get" THEN pointer ELSE 0) -> Buckets]
  /\ subscribed \in BOOLEAN
  /\ step \in {"cut", "execute", "recordOne", "recordBatch", "done"}
  /\ first \in 0 .. count /\ until \in 0 .. count
  /\ heard \in [1 .. count -> Nat]
  /\ before \in [Locations -> Buckets]

(* What the back end holds once the first n buckets of a set are written. *)
Holds(n, location, bucket) ==
  LET writers == {i \in 1 .. n : arguments[i].location = location}
  IN  \/ writers = {} /\ bucket = before[location]
      \/ \E i \in writers : /\ \A j \in writers : j <= i
                            /\ bucket = arguments[i].bucket

(* However a set is cut into batches and wherever it fails, what is written  *)
(* is a prefix of what was asked, in that order: none of it if an argument   *)
(* was refused or the call is a get, all of it if the call returned.         *)
WritesPrefix ==
  /\ \A location \in Locations :
       Holds(IF operation = "set" THEN pointer ELSE 0, location, blocks[location])
  /\ status = "returned" => pointer = count

(* A get over any number of batches answers each location at its own index,  *)
(* which is what lets the ORAM attribute the blocks to their buckets.        *)
AnswersInOrder ==
  operation = "get" => response = [i \in 1 .. pointer |-> blocks[arguments[i].location]]

(* Nothing the checks refuse gets into the back end, even when the bucket    *)
(* that is refused comes after others that are fine.                         *)
NothingMalformedStored ==
  \A location \in Locations : blocks[location] \notin Malformed

(* Requests that are done and, unless one has yet to be reported, reported. *)
Accounted ==
  CASE step = "recordOne"               -> pointer - 1
    [] step = "recordBatch" /\ AsBatch  -> first
    [] OTHER                            -> pointer

(* A handler hears of every bucket that is moved once: as part of its batch   *)
(* or by itself but not both, for all back ends and however a call is cut,    *)
(* and not of one whose request failed or was not made.                      *)
AllTrafficReported ==
  status = "busy" =>
    \A i \in 1 .. count : heard[i] = IF subscribed /\ i <= Accounted THEN 1 ELSE 0

(* Whatever the batch limit and the number of buckets, every call ends: the   *)
(* loop over the batches moves on with each of them, also when there is no     *)
(* limit (batchLimit 0) and when nothing is asked for.                        *)
CallsEnd == status = "busy" ~> status # "busy"

=============================================================================
