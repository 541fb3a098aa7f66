------------------------------ MODULE PureInput ------------------------------
(***************************************************************************)
(* A pure algorithm as a state machine: its state is one input, which never  *)
(* changes, and what is said of its result is an invariant.                 *)
(***************************************************************************)
VARIABLE input

Given(inputs) == input \in inputs /\ [][UNCHANGED input]_input

=============================================================================
