------------------------------- MODULE StashFile -------------------------------
(***************************************************************************)
(* The file of the stash, from stash-adapter.cpp of path-oram: one record    *)
(* per block, its number (one cell here) and its payload (one cell per byte). *)
(* storeToFile takes the size of all payloads from the first one, wherever   *)
(* the hash table has it; loadFromFile is told a size.                      *)
(***************************************************************************)
EXTENDS Integers, Sequences

CONSTANT Unset   \* a cell nothing was written to

(* The cells of a record. *)
Record(id, payload) == <<id>> \o payload

(* Faulty variant: leaves no room for the number. *)
RecordSizeOfPayload(payload) == Len(payload)

RecordSize(payload) == 1 + Len(payload)

(* Records are copied into a buffer one after the other, each at its place;   *)
(* one that is too long reaches into the next, which is copied after it, or    *)
(* past the end of the buffer. A cell holds what was written there last.      *)
storeToFile(stash, order) ==
  LET size          == RecordSize(stash[order[1]])
      record(i)     == Record(order[i], stash[order[i]])
      place(i)      == size * (i - 1)
      writers(cell) == {i \in DOMAIN order : cell - place(i) \in DOMAIN record(i)}
      last(cell)    == CHOOSE i \in writers(cell) : \A j \in writers(cell) : j <= i
  IN  IF Len(order) = 0 THEN <<>>
      ELSE [cell \in 1 .. size * Len(order) |->
              IF writers(cell) = {} THEN Unset
              ELSE record(last(cell))[cell - place(last(cell))]]

(* Of two records with one number, the first one counts. *)
loadFromFile(file, blockSize) ==
  LET size    == 1 + blockSize
      starts  == {at \in 0 .. Len(file) - 1 : at % size = 0}
      cell(i) == IF i \in DOMAIN file THEN file[i] ELSE Unset
      first(id) == CHOOSE at \in starts :
                     cell(at + 1) = id /\ \A other \in starts : cell(other + 1) = id => at <= other
  IN  [id \in {cell(at + 1) : at \in starts} |->
         [i \in 1 .. blockSize |-> cell(first(id) + 1 + i)]]

=============================================================================
