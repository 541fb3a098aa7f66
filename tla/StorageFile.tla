------------------------------ MODULE StorageFile ------------------------------
(***************************************************************************)
(* FileSystemStorageAdapter of path_oram_Cloak_Query: encrypted buckets in a  *)
(* file, written and read through an fstream. The stream holds back the bucket *)
(* written last until it seeks again or is closed. A stream that has failed    *)
(* once, or was asked for a bucket past the end of the file, ignores all that  *)
(* follows without a word: get then answers from memory nobody has set.       *)
(* A bucket gets to the file as a whole or not at all.                       *)
(*                                                                         *)
(* The clients are the programs of path_oram_Cloak_Query/test: they create the *)
(* file, keep its key in another file, close the storage or are killed, and    *)
(* open it again; disaster() of test-oram-big.cpp opens it a second time while *)
(* the ORAM still holds the adapter that wrote last, and uses the new adapter  *)
(* once that one is gone.                                                   *)
(***************************************************************************)
EXTENDS Naturals, Sequences, FiniteSets

CONSTANTS
  Capacity,
  Buckets, Zeroed,
  Noise,           \* what comes out of decrypting with another key, or nothing
  Key,             \* the key of the programs
  RandomKeys,      \* those drawn for an adapter that is given no key
  NoKey,           \* bytes(), or any key that is not KEYSIZE long
  Adapters,
  MaxRequests,     \* bound: buckets in one call
  MaxRuns,         \* bound: adapters opened
  DeviceFails      \* may writing to the file fail?

Locations == 0 .. Capacity - 1

Closed == [open |-> FALSE]

(* A call with a location that is not there is refused as a whole. *)
Requests == UNION {[1 .. n -> [location : Locations, bucket : Buckets]] : n \in 1 .. MaxRequests}

VARIABLES
  file,       \* location -> the encrypted bucket; shorter while it is created
  adapter,    \* the adapters: open or not, key, unwritten bucket, failed or not
  queue,      \* what the current set has still to write
  user,       \* the adapter whose constructor or set is running
  phase,      \* what it is doing
  answer,     \* what the last get has answered
  keyFile,    \* the file with the key
  runs,       \* adapters opened so far
  owner       \* history: the key of a file that is complete, else NoKey

vars == <<file, adapter, queue, user, phase, answer, keyFile, runs, owner>>

Nobody == "nobody"
NoWrite == <<>>

ASSUME FileConstants ==
  /\ Capacity \in Nat \ {0} /\ MaxRequests \in Nat
  /\ NoKey \notin RandomKeys \cup {Key}
  /\ Nobody \notin Adapters

Encrypted(key, bucket) == [key |-> key, bucket |-> bucket]

Decrypted(key, cell) == IF cell.key = key THEN cell.bucket ELSE Noise

(* What stands where no bucket has been written. *)
Blank == Encrypted(NoKey, Noise)

(* Faulty variant: the bucket held back is dropped by the next one. *)
FlushedNever(a) == file

(* The file once the stream of an adapter has written what it holds. *)
Flushed(a) ==
  LET pending == adapter[a].pending
  IN  IF pending = NoWrite THEN file
      ELSE [location \in DOMAIN file \cup 0 .. pending[1] |->
              IF location = pending[1] THEN pending[2]
              ELSE IF location \in DOMAIN file THEN file[location] ELSE Blank]

Init ==
  /\ file = [location \in {} |-> Noise]
  /\ adapter = [a \in Adapters |-> Closed]
  /\ queue = <<>>
  /\ user = Nobody
  /\ phase = "idle"
  /\ answer = <<>>
  /\ keyFile = NoKey
  /\ runs = 0
  /\ owner = NoKey

Idle == phase = "idle"

Open(a) == adapter[a].open

-----------------------------------------------------------------------------
(* The constructor *)

KeyOf(key) ==
  IF key # NoKey THEN {key}
  ELSE RandomKeys \ ({adapter[a].key : a \in {b \in Adapters : Open(b)}} \cup {owner})

Construct(a, key, override) ==
  /\ Idle
  /\ ~Open(a)
  /\ runs < MaxRuns
  /\ runs' = runs + 1
  /\ \E k \in KeyOf(key) :
       adapter' = [adapter EXCEPT ![a] =
                     [open |-> TRUE, key |-> k, pending |-> NoWrite, failed |-> FALSE]]
  /\ user' = IF override THEN a ELSE Nobody
  /\ phase' = IF override THEN "placeholders" ELSE "idle"
  /\ file' = IF override THEN [location \in {} |-> Noise] ELSE file
  /\ owner' = IF override THEN NoKey ELSE owner
  /\ answer' = <<>>
  /\ UNCHANGED <<queue, keyFile>>

(* A new file, by a program that uses no other adapter. *)
Create(a) ==
  /\ \A b \in Adapters : ~Open(b)
  /\ \E key \in {Key, NoKey} : Construct(a, key, TRUE)

Reopen(a) ==
  /\ runs > 0
  /\ \E key \in {keyFile, NoKey} : Construct(a, key, FALSE)

(* The file with the first n placeholders. *)
Placeholders(n) == [location \in 0 .. n - 1 |-> Blank]

(* Room for all the buckets, then all of them zeroed by a set. *)
WritePlaceholders ==
  /\ phase = "placeholders"
  /\ phase' = "zeroes"
  /\ \/ file' = Placeholders(Capacity) /\ UNCHANGED adapter
     \/ /\ DeviceFails
        /\ \E n \in Locations : file' = Placeholders(n)
        /\ adapter' = [adapter EXCEPT ![user].failed = TRUE]
  /\ queue' = [i \in 1 .. Capacity |-> [location |-> i - 1, bucket |-> Zeroed]]
  /\ UNCHANGED <<user, answer, keyFile, runs, owner>>

-----------------------------------------------------------------------------
(* get and set *)

(* The adapter that is used: the only one, or the new one once the old one has *)
(* been closed.                                                             *)
InUse(a) == Idle /\ Open(a) /\ \A b \in Adapters \ {a} : ~Open(b)

Set(a, requests) ==
  /\ InUse(a)
  /\ queue' = requests
  /\ user' = a
  /\ phase' = "set"
  /\ answer' = <<>>
  /\ UNCHANGED <<file, adapter, keyFile, runs, owner>>

(* Seeking to the place of a bucket writes the one before. *)
WriteBucket ==
  /\ phase \in {"zeroes", "set"} /\ queue # <<>>
  /\ LET own == adapter[user] IN
       /\ file' = IF own.failed THEN file ELSE Flushed(user)
       /\ adapter' =
            IF own.failed THEN adapter
            ELSE [adapter EXCEPT ![user].pending =
                    <<Head(queue).location, Encrypted(own.key, Head(queue).bucket)>>]
       /\ owner' = IF own.failed \/ owner = own.key THEN owner ELSE NoKey
  /\ queue' = Tail(queue)
  /\ UNCHANGED <<user, phase, answer, keyFile, runs>>

(* The end of a set, and of a constructor, which does not ask whether all the *)
(* buckets have been written.                                               *)
SetReturns ==
  /\ phase \in {"zeroes", "set"} /\ queue = <<>>
  /\ owner' = IF phase = "zeroes" /\ ~adapter[user].failed THEN adapter[user].key ELSE owner
  /\ user' = Nobody
  /\ phase' = "idle"
  /\ UNCHANGED <<file, adapter, queue, answer, keyFile, runs>>

(* The device refuses what the stream has held back; closing the stream may    *)
(* still get it written.                                                    *)
WriteFails ==
  /\ DeviceFails
  /\ \E a \in Adapters :
       /\ Open(a) /\ ~adapter[a].failed /\ adapter[a].pending # NoWrite
       /\ \E kept \in {adapter[a].pending, NoWrite} :
            adapter' = [adapter EXCEPT ![a].pending = kept, ![a].failed = TRUE]
  /\ UNCHANGED <<file, queue, user, phase, answer, keyFile, runs, owner>>

(* Buckets are read up to the first that is not there; the stream fails at    *)
(* that one.                                                                *)
Get(a, locations) ==
  /\ InUse(a)
  /\ LET own == adapter[a]
         now == IF own.failed THEN file ELSE Flushed(a)
         there(i) == ~own.failed /\ \A j \in 1 .. i : locations[j] \in DOMAIN now
     IN  /\ answer' = [i \in DOMAIN locations |->
                         IF there(i) THEN Decrypted(own.key, now[locations[i]]) ELSE Noise]
         /\ adapter' =
              IF own.failed \/ locations = <<>> THEN adapter
              ELSE [adapter EXCEPT ![a].pending = NoWrite, ![a].failed = ~there(Len(locations))]
         /\ file' = IF locations = <<>> THEN file ELSE now
  /\ UNCHANGED <<queue, user, phase, keyFile, runs, owner>>

-----------------------------------------------------------------------------
(* The end of an adapter, and of a process *)

Destroy(a) ==
  /\ Idle /\ Open(a)
  /\ file' = Flushed(a)
  /\ adapter' = [adapter EXCEPT ![a] = Closed]
  /\ answer' = <<>>
  /\ UNCHANGED <<queue, user, phase, keyFile, runs, owner>>

StoreKey ==
  /\ Idle
  /\ keyFile' = Key
  /\ UNCHANGED <<file, adapter, queue, user, phase, answer, runs, owner>>

(* What the stream holds is lost, unless it was too large to be held back. Of *)
(* the placeholders some may be there.                                      *)
Kill ==
  /\ \E a \in Adapters : Open(a)
  /\ \/ phase # "placeholders" /\ file' \in {file} \cup {Flushed(a) : a \in {b \in Adapters : Open(b)}}
     \/ phase = "placeholders" /\ \E n \in 0 .. Capacity : file' = Placeholders(n)
  /\ adapter' = [a \in Adapters |-> Closed]
  /\ queue' = <<>>
  /\ user' = Nobody
  /\ phase' = "idle"
  /\ answer' = <<>>
  /\ UNCHANGED <<keyFile, runs, owner>>

Next ==
  \/ \E a \in Adapters : Create(a) \/ Reopen(a) \/ Destroy(a)
  \/ \E a \in Adapters, requests \in Requests : Set(a, requests)
  \/ \E a \in Adapters, n \in 0 .. MaxRequests :
       \E locations \in [1 .. n -> Locations] : Get(a, locations)
  \/ WritePlaceholders
  \/ WriteBucket
  \/ SetReturns
  \/ WriteFails
  \/ StoreKey
  \/ Kill

Spec == Init /\ [][Next]_vars

-----------------------------------------------------------------------------
(* The file as the stream that still holds a bucket will leave it. *)
Latest ==
  IF \E a \in Adapters : Open(a) /\ adapter[a].pending # NoWrite
  THEN Flushed(CHOOSE a \in Adapters : Open(a) /\ adapter[a].pending # NoWrite)
  ELSE file

AsOwnerSees(cells) ==
  [location \in Locations |->
     IF location \in DOMAIN cells THEN Decrypted(owner, cells[location]) ELSE Noise]

Reader ==
  IF \E a \in Adapters : user = a \/ InUse(a)
  THEN LET a == CHOOSE b \in Adapters : user = b \/ InUse(b)
       IN  IF adapter[a].key = owner /\ ~adapter[a].failed THEN "owner" ELSE "stranger"
  ELSE "nobody"

Promise == INSTANCE BucketStore WITH
  promised <- owner # NoKey,
  contents <- AsOwnerSees(Latest),
  settled <- AsOwnerSees(file),
  reader <- Reader

(* Who has the key of a complete file reads every bucket as it was written      *)
(* last, before and after the storage is closed and opened again, by one set or *)
(* adapter or another. A process that is killed, and a stream that fails, lose   *)
(* at most the bucket written last, and no other key ever shows a bucket.       *)
KeepsBuckets == Promise!Spec

=============================================================================
