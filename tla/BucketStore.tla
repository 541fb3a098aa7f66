------------------------------ MODULE BucketStore ------------------------------
(***************************************************************************)
(* What a storage of encrypted buckets in a file promises to those who have  *)
(* its key: every read gives the bucket written last, in whatever process or *)
(* adapter it was written. When a process is killed or the device fails, the  *)
(* bucket written last may be what it was before; no other is touched. An     *)
(* adapter with another key, or whose stream has failed, reads noise.         *)
(*                                                                         *)
(* The promise is off while the file is being created, and from the moment    *)
(* that somebody with another key writes to it, until it is created again.    *)
(***************************************************************************)
EXTENDS Naturals, Sequences

CONSTANTS
  Locations,
  Buckets,
  Zeroed,        \* the bucket of a new storage
  Noise,         \* what is read without the key
  MaxRequests    \* most buckets in one call

VARIABLES
  promised,   \* is the promise on?
  contents,   \* location -> bucket
  settled,    \* the same, without the last write if that is not safe yet
  reader,     \* who uses the storage: "nobody", "owner", "stranger"
  answer      \* the buckets last read

vars == <<promised, contents, settled, reader, answer>>

New == [location \in Locations |-> Zeroed]

Calls == UNION {[1 .. n -> Locations] : n \in 0 .. MaxRequests}

(* The last bucket of a new storage may not have got to the file. *)
Create ==
  /\ promised'
  /\ contents' = New
  /\ \E last \in Locations : settled' = [New EXCEPT ![last] = Noise]
  /\ UNCHANGED answer

Break == ~promised'

Write ==
  /\ promised /\ promised' /\ reader = "owner"
  /\ \E location \in Locations, bucket \in Buckets :
       contents' = [contents EXCEPT ![location] = bucket]
  /\ settled' = contents
  /\ UNCHANGED <<reader, answer>>

Read ==
  /\ promised /\ promised'
  /\ reader # "nobody"
  /\ \E locations \in Calls :
       answer' = [i \in DOMAIN locations |->
                    IF reader = "owner" THEN contents[locations[i]] ELSE Noise]
  /\ settled' \in {settled, contents}
  /\ UNCHANGED <<contents, reader>>

(* Adapters come and go, calls begin. *)
Change ==
  /\ promised /\ promised'
  /\ settled' \in {settled, contents}
  /\ answer' = <<>>
  /\ UNCHANGED contents

(* A process is killed, or the device fails. *)
Lose ==
  /\ promised /\ promised'
  /\ reader' # "owner"
  /\ contents' \in {contents, settled}
  /\ settled' \in {settled, contents'}
  /\ answer' \in {answer, <<>>}

Next == Create \/ Break \/ Write \/ Read \/ Change \/ Lose

Spec == ~promised /\ [][Next]_vars

=============================================================================
