------------------------------ MODULE FileFormats ------------------------------
(***************************************************************************)
(* The formats in which files, keys and stashes are written, read back: the  *)
(* inputs are what is written, with what its surroundings leave open.        *)
(***************************************************************************)
EXTENDS Splitter, StashFile, FiniteSets, PureInput

CONSTANT BlockSize   \* bytes in the payload of a block

ASSUME BlockAssumption == BlockSize \in Nat

(* Files, with the values ct_empty may have. *)
Files(contents) ==
  UNION {[kind : {"file"}, file : {file}, ct_empty : EmptyCounts(Len(file))] : file \in contents}

(* Keys, with the bytes after them that nobody has set. *)
Keys(bytes, garbage) ==
  [kind : {"key"}, key : [1 .. KeyBytes -> bytes], unset : [1 .. ChunkBytes -> garbage]]

Injections(n, S) ==
  {s \in [1 .. n -> S] : \A i, j \in 1 .. n : s[i] = s[j] => i = j}

(* Payloads, with the blocks the stash holds in an order its hash table may have. *)
Stashes(blocks, bytes) ==
  UNION {[kind : {"stash"}, order : Injections(n, blocks),
          stash : [blocks -> [1 .. BlockSize -> bytes]]] : n \in 0 .. Cardinality(blocks)}

(* The numbers that stand for a file or a key give it back. For a file this  *)
(* is so with its size, wherever it ends in a chunk and in a buffer, and      *)
(* whatever the field is that nobody has set; that may end the program, but   *)
(* only for a file of whole chunks. The unset bytes after a key do not get    *)
(* into the key that is restored.                                           *)
FilesComeBack ==
  /\ input.kind = "file" =>
       LET numbers == read_file(input.file, input.ct_empty)
       IN  IF numbers = Crashes THEN Len(input.file) % ChunkBytes = 0
           ELSE handle_text(numbers) = input.file
  /\ input.kind = "key" => RestoredKey(split_keys(input.key, input.unset)) = input.key

(* A stash whose payloads all have the block size comes back from its file,  *)
(* in whatever order its blocks were written; an empty one comes back empty. *)
StashComesBack ==
  input.kind = "stash" =>
    LET kept == [b \in {input.order[i] : i \in DOMAIN input.order} |-> input.stash[b]]
    IN  loadFromFile(storeToFile(kept, input.order), BlockSize) = kept

=============================================================================
