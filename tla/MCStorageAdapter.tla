--------------------------- MODULE MCStorageAdapter ---------------------------
(* Instances of StorageAdapter for TLC. *)
EXTENDS StorageAdapter

(* Redis has batch operations; memory and file system have none. *)
MCBackEnds == {[get |-> both, set |-> both] : both \in BOOLEAN}

=============================================================================
