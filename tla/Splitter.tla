------------------------------- MODULE Splitter -------------------------------
(***************************************************************************)
(* How splitter.cpp and trusted_proxy_layer.cpp of path-oram cut a file and  *)
(* a key into the numbers that are shared, and put them together again. A    *)
(* number holds one chunk of bytes; the first number of a file is its header. *)
(* A number that is shared and restored is taken to be itself.              *)
(***************************************************************************)
EXTENDS Naturals, Sequences

CONSTANTS
  ChunkBytes,    \* bytes in a number: 7
  BufferBytes,   \* CHUNK_SIZE: bytes read at a time, 42000
  MaxByte,       \* the largest number in a byte
  KeyBytes       \* bytes in a key

ASSUME ChunkAssumption ==
  /\ ChunkBytes \in Nat \ {0} /\ BufferBytes \in Nat \ {0}
  /\ BufferBytes % ChunkBytes = 0
  /\ MaxByte \in Nat /\ KeyBytes \in Nat

CHECK_SUM == "6969"

(* No numbers, not even a header: it ran off the end of its buffer. *)
Crashes == <<>>

ChunksOf(bytes) ==
  [i \in 1 .. Len(bytes) \div ChunkBytes |->
     SubSeq(bytes, (i - 1) * ChunkBytes + 1, i * ChunkBytes)]

(* The bytes of numbers, one after the other. *)
BytesOf(numbers) ==
  [i \in 1 .. Len(numbers) * ChunkBytes |->
     numbers[((i - 1) \div ChunkBytes) + 1][((i - 1) % ChunkBytes) + 1]]

Zeros(n) == [i \in 1 .. n |-> 0]

(* The values ct_empty may have: it is left uninitialized if there is nothing *)
(* to fill up.                                                              *)
EmptyCounts(size) ==
  IF size % ChunkBytes # 0 THEN {ChunkBytes - (size % ChunkBytes)} ELSE 0 .. MaxByte

(* The numbers of a file: full buffers are cut into chunks; what remains, if  *)
(* anything, is filled up with ct_empty zeros first. The loop over the chunks *)
(* of a buffer only ends if they come out even.                             *)
read_file(file, ct_empty) ==
  LET remaining == Len(file) % BufferBytes
      size      == remaining + ct_empty
      header    == [tot_sz |-> Len(file), csum |-> CHECK_SUM, emptyct |-> ct_empty]
  IN  IF remaining = 0 THEN <<header>> \o ChunksOf(file)
      ELSE IF size % ChunkBytes # 0 \/ size > BufferBytes THEN Crashes
      ELSE <<header>> \o ChunksOf(file \o Zeros(ct_empty))

(* Faulty variant: writes the last number whole. *)
handle_text_whole(numbers) == BytesOf(Tail(numbers))

(* The file that numbers stand for: as many as the header says, and of the    *)
(* last ones only the bytes it counts. Numbers that are not there are read as *)
(* anything, but no byte of them is used.                                   *)
handle_text(numbers) ==
  LET header == numbers[1]
      blocks == (header.emptyct + header.tot_sz) \div ChunkBytes
      there  == IF blocks < Len(numbers) THEN blocks ELSE Len(numbers) - 1
      bytes  == BytesOf(SubSeq(Tail(numbers), 1, there))
  IN  SubSeq(bytes, 1, header.tot_sz)

(* A key is followed by bytes that nobody has set. *)
split_keys(key, unset) ==
  LET size == (KeyBytes \div ChunkBytes + 1) * ChunkBytes
  IN  ChunksOf(SubSeq(key \o unset, 1, size))

RestoredKey(numbers) == SubSeq(BytesOf(numbers), 1, KeyBytes)

=============================================================================
