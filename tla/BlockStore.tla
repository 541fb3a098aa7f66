------------------------------ MODULE BlockStore ------------------------------
(***************************************************************************)
(* What an ORAM promises its caller, with no tree, stash or cache in sight: *)
(* an array of blocks served by calls of one or more requests, one request  *)
(* at a time and in order.                                                  *)
(*                                                                         *)
(*  - A GET answers what the last PUT to the block stored, up to the        *)
(*    padding the storage adds; a block never written reads as empty.       *)
(*  - A call that returns has served all its requests.                      *)
(*  - A call that throws has served some prefix of them and nothing else,   *)
(*    and damages no more than ThrowCosts says. Nothing is promised about a  *)
(*    damaged block; all others keep their contents.                        *)
(***************************************************************************)
EXTENDS Naturals

CONSTANTS
  Blocks,       \* block identifiers
  Data,         \* payloads
  Empty,        \* the payload of no bytes: what a GET of an unknown block gives
  Padded(_),    \* a payload as it comes back from the storage
  NoResponse,   \* the output parameter before a request has been served
  MaxRequests,  \* most requests in one call
  ThrowCosts(_, _)  \* given the requests of a call and the number of the one
                    \* it was serving, the sets of blocks it may damage

Request == [block : Blocks, write : BOOLEAN, data : Data]

Calls == UNION {[1 .. n -> Request] : n \in 0 .. MaxRequests}

NoRequests == [i \in {} |-> i]

VARIABLES
  contents,   \* contents[b]: what block b holds, padded
  requests,   \* the requests of the current call
  next,       \* the request to be served next
  response,   \* what the last request was answered
  status,     \* "busy" inside a call, else how the last call ended
  damaged     \* blocks an exception may have damaged

vars == <<contents, requests, next, response, status, damaged>>

Init ==
  /\ contents = [b \in Blocks |-> Padded(Empty)]
  /\ requests = NoRequests
  /\ next = 1
  /\ response = NoResponse
  /\ status = "returned"
  /\ damaged = {}

Begin ==
  /\ status # "busy"
  /\ status' = "busy"
  /\ requests' \in Calls
  /\ UNCHANGED <<contents, next, response, damaged>>

(* Whatever happens to a damaged block, the others hold what they held. *)
OthersKeep(blocks) == \A b \in Blocks \ blocks : contents'[b] = contents[b]

Serve ==
  /\ status = "busy"
  /\ next \in DOMAIN requests
  /\ LET r == requests[next] IN
       /\ OthersKeep(damaged \cup {r.block})
       /\ r.write => response' = r.data /\ contents'[r.block] = Padded(r.data)
       /\ ~r.write /\ r.block \notin damaged =>
            /\ Padded(response') = contents[r.block]
            /\ contents'[r.block] = contents[r.block]
  /\ next' = next + 1
  /\ UNCHANGED <<requests, status, damaged>>

End(outcome) ==
  /\ status = "busy"
  /\ status' = outcome
  /\ requests' = NoRequests
  /\ next' = 1
  /\ response' = NoResponse

Return ==
  /\ next \notin DOMAIN requests
  /\ End("returned")
  /\ OthersKeep(damaged)
  /\ UNCHANGED damaged

Throw ==
  /\ End("threw")
  /\ \E lost \in ThrowCosts(requests, next) : damaged' = damaged \cup lost
  /\ OthersKeep(damaged')

(* A damaged block may change at any time: it can be lost, or come back. *)
Decay ==
  /\ OthersKeep(damaged)
  /\ UNCHANGED <<requests, next, response, status, damaged>>

Next == Begin \/ Serve \/ Return \/ Throw \/ Decay

Spec == Init /\ [][Next]_vars

=============================================================================
