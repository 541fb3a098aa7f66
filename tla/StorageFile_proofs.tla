-------------------------- MODULE StorageFile_proofs --------------------------
(***************************************************************************)
(* StorageFile implements BucketStore, for any number of locations, buckets,  *)
(* keys and adapters.                                                       *)
(***************************************************************************)
EXTENDS StorageFile, TLAPS

Keys == RandomKeys \cup {Key}

Cells == [key : Keys, bucket : Buckets \cup {Zeroed}]

Opened ==
  [open : {TRUE}, key : Keys, pending : {NoWrite} \cup (Locations \X Cells),
   failed : BOOLEAN]

Types ==
  /\ adapter \in [Adapters -> Opened \cup {Closed}]
  /\ queue \in Seq([location : Locations, bucket : Buckets \cup {Zeroed}])
  /\ phase \in {"idle", "placeholders", "zeroes", "set"}
  /\ keyFile \in {NoKey, Key}
  /\ owner \in Keys \cup {NoKey}

(* Does the stream of this adapter hold back a bucket? *)
Held(a) == Open(a) /\ adapter[a].pending # NoWrite

(* Whose call it is, and what it may do. Adapters overlap only between calls,  *)
(* and only one of them has something to write.                              *)
Alone ==
  /\ Idle => user = Nobody
  /\ ~Idle => /\ user \in Adapters /\ Open(user)
              /\ \A a \in Adapters \ {user} : ~Open(a)
  /\ \A a, b \in Adapters : Held(a) /\ Held(b) => a = b
  /\ phase \in {"placeholders", "zeroes"} => owner = NoKey
  /\ phase = "set" => \A i \in 1 .. Len(queue) : queue[i].bucket \in Buckets

(* A file that is complete has no other keys in it than its own, but for      *)
(* a placeholder that was not overwritten.                                   *)
Keyed ==
  owner # NoKey =>
    /\ DOMAIN file = Locations
    /\ \A location \in Locations : file[location].key \in {owner, NoKey}
    /\ \A a \in Adapters : Held(a) => adapter[a].pending[2].key = owner

Zeros(n) ==
  [location \in Locations |->
     IF location < n THEN Encrypted(adapter[user].key, Zeroed) ELSE Blank]

(* How far the constructor has come: all but the bucket written last are in    *)
(* the file.                                                                *)
Zeroing ==
  LET written == Capacity - Len(queue)
  IN
  /\ phase = "placeholders" => adapter[user].pending = NoWrite /\ ~adapter[user].failed
  /\ phase = "zeroes" /\ ~adapter[user].failed =>
       /\ Len(queue) <= Capacity
       /\ \A i \in 1 .. Len(queue) :
            queue[i] = [location |-> written + i - 1, bucket |-> Zeroed]
       /\ file = Zeros(written - 1)
       /\ adapter[user].pending =
            IF written = 0 THEN NoWrite
            ELSE <<written - 1, Encrypted(adapter[user].key, Zeroed)>>

IInv == Types /\ Alone /\ Keyed /\ Zeroing

-----------------------------------------------------------------------------
(* Facts about adapters *)

LEMMA OpenType ==
  ASSUME Types, NEW a \in Adapters
  PROVE  /\ Open(a) => adapter[a] \in Opened
         /\ ~Open(a) => adapter[a] = Closed
<1>1. adapter[a] \in Opened \/ adapter[a] = Closed
  BY DEF Types
<1>2. ASSUME adapter[a] \in Opened PROVE adapter[a].open = TRUE
  BY <1>2 DEF Opened
<1>3. ASSUME adapter[a] = Closed PROVE adapter[a].open = FALSE
  BY <1>3 DEF Closed
<1> QED
  BY <1>1, <1>2, <1>3 DEF Open

(* What a change of one adapter makes of all of them. *)
LEMMA ChangedAdapter ==
  ASSUME Types, NEW a \in Adapters, Open(a),
         NEW pending \in {NoWrite} \cup (Locations \X Cells), NEW failed \in BOOLEAN,
         adapter' = [adapter EXCEPT ![a].pending = pending, ![a].failed = failed]
  PROVE  /\ adapter' \in [Adapters -> Opened \cup {Closed}]
         /\ adapter'[a] = [adapter[a] EXCEPT !.pending = pending, !.failed = failed]
         /\ adapter'[a].open /\ adapter'[a].key = adapter[a].key
         /\ adapter'[a].pending = pending /\ adapter'[a].failed = failed
         /\ \A b \in Adapters \ {a} : adapter'[b] = adapter[b]
         /\ \A b \in Adapters : Open(b)' <=> Open(b)
<1>1. adapter[a] \in Opened
  BY OpenType
<1>2. [adapter[a] EXCEPT !.pending = pending, !.failed = failed] \in Opened
  BY <1>1 DEF Opened
<1>3. adapter'[a] = [adapter[a] EXCEPT !.pending = pending, !.failed = failed]
  BY DEF Types
<1>4. \A b \in Adapters \ {a} : adapter'[b] = adapter[b]
  BY DEF Types
<1>5. adapter' \in [Adapters -> Opened \cup {Closed}]
  BY <1>2, <1>3, <1>4 DEF Types
<1>6. /\ adapter'[a].open /\ adapter'[a].key = adapter[a].key
      /\ adapter'[a].pending = pending /\ adapter'[a].failed = failed
  <2> DEFINE old == adapter[a]
             new == [old EXCEPT !.pending = pending, !.failed = failed]
  <2>1. DOMAIN old = {"open", "key", "pending", "failed"} /\ old.open
    BY <1>1 DEF Opened
  <2>2. new.open = old.open /\ new.key = old.key
    BY <2>1
  <2>3. new.pending = pending /\ new.failed = failed
    BY <2>1
  <2> QED
    BY <1>3, <2>1, <2>2, <2>3
<1> QED
  BY <1>3, <1>4, <1>5, <1>6 DEF Open

LEMMA PendingChanged ==
  ASSUME Types, NEW a \in Adapters, Open(a), NEW pending
  PROVE  /\ [adapter EXCEPT ![a].pending = pending]
              = [adapter EXCEPT ![a].pending = pending, ![a].failed = adapter[a].failed]
         /\ [adapter EXCEPT ![a].failed = TRUE]
              = [adapter EXCEPT ![a].pending = adapter[a].pending, ![a].failed = TRUE]
<1>1. adapter[a] \in Opened
  BY OpenType
<1>2. /\ [adapter[a] EXCEPT !.pending = pending]
           = [adapter[a] EXCEPT !.pending = pending, !.failed = adapter[a].failed]
      /\ [adapter[a] EXCEPT !.failed = TRUE]
           = [adapter[a] EXCEPT !.pending = adapter[a].pending, !.failed = TRUE]
  BY <1>1 DEF Opened
<1> QED
  BY <1>2 DEF Types

LEMMA FlushedFile ==
  ASSUME Types, NEW a \in Adapters, Open(a)
  PROVE  /\ ~Held(a) => Flushed(a) = file
         /\ Held(a) => /\ adapter[a].pending \in Locations \X Cells
                       /\ DOMAIN file = Locations =>
                            Flushed(a) = [location \in Locations |->
                               IF location = adapter[a].pending[1] THEN adapter[a].pending[2]
                               ELSE file[location]]
<1>1. adapter[a].pending \in {NoWrite} \cup (Locations \X Cells)
  BY OpenType DEF Opened
<1>2. CASE ~Held(a)
  BY <1>2 DEF Held, Flushed
<1>3. CASE Held(a)
  <2>1. adapter[a].pending \in Locations \X Cells
    BY <1>1, <1>3 DEF Held
  <2>2. adapter[a].pending[1] \in Locations
    BY <2>1
  <2>3. Locations \cup 0 .. adapter[a].pending[1] = Locations
    BY <2>2, FileConstants DEF Locations
  <2> QED
    BY <1>3, <2>1, <2>3 DEF Held, Flushed
<1> QED
  BY <1>2, <1>3

(* A file that has taken what one adapter held back still has only its key.   *)
LEMMA FlushedKeyed ==
  ASSUME Types, Keyed, owner # NoKey, NEW a \in Adapters, Open(a)
  PROVE  /\ DOMAIN Flushed(a) = Locations
         /\ \A location \in Locations : Flushed(a)[location].key \in {owner, NoKey}
<1>1. CASE ~Held(a)
  BY <1>1, FlushedFile DEF Keyed
<1>2. CASE Held(a)
  <2>1. /\ adapter[a].pending[2].key = owner
        /\ Flushed(a) = [location \in Locations |->
                           IF location = adapter[a].pending[1] THEN adapter[a].pending[2]
                           ELSE file[location]]
    BY <1>2, FlushedFile DEF Keyed
  <2> QED
    BY <2>1 DEF Keyed
<1> QED
  BY <1>1, <1>2

-----------------------------------------------------------------------------
(* The invariant *)

LEMMA InitInv == Init => IInv
<1> SUFFICES ASSUME Init PROVE IInv
  OBVIOUS
<1>1. Types
  BY DEF Init, Types
<1>2. \A a \in Adapters : ~Open(a)
  BY DEF Init, Open, Closed
<1> QED
  BY <1>1, <1>2 DEF Init, IInv, Alone, Keyed, Zeroing, Idle, Held

LEMMA ConstructInv ==
  ASSUME IInv, NEW a \in Adapters, NEW key \in {Key, NoKey}, NEW override \in BOOLEAN,
         Construct(a, key, override),
         override => \A b \in Adapters : ~Open(b)
  PROVE  IInv'
<1>1. KeyOf(key) \subseteq Keys
  BY DEF KeyOf, Keys
<1>2. PICK k \in Keys :
        adapter' = [adapter EXCEPT ![a] =
                      [open |-> TRUE, key |-> k, pending |-> NoWrite, failed |-> FALSE]]
  BY <1>1 DEF Construct
<1>3. [open |-> TRUE, key |-> k, pending |-> NoWrite, failed |-> FALSE] \in Opened
  BY DEF Opened
<1>4. /\ adapter' \in [Adapters -> Opened \cup {Closed}]
      /\ adapter'[a] = [open |-> TRUE, key |-> k, pending |-> NoWrite, failed |-> FALSE]
      /\ \A b \in Adapters \ {a} : adapter'[b] = adapter[b]
  BY <1>2, <1>3 DEF IInv, Types
<1>5. Types'
  <2>1. /\ UNCHANGED <<queue, keyFile>> /\ phase' \in {"placeholders", "idle"}
        /\ owner' \in {owner, NoKey}
    BY DEF Construct, Idle
  <2> QED
    BY <1>4, <2>1 DEF IInv, Types
<1>6. Open(a)' /\ ~Held(a)' /\ \A b \in Adapters \ {a} : Open(b)' = Open(b) /\ Held(b)' = Held(b)
  BY <1>4 DEF Open, Held
<1>7. CASE override
  <2>1. user' = a /\ phase' = "placeholders" /\ owner' = NoKey
    BY <1>7 DEF Construct
  <2>2. \A b \in Adapters : ~Held(b)'
    BY <1>6, <1>7 DEF Held
  <2>3. Alone'
    BY <1>6, <1>7, <2>1, <2>2 DEF Alone, Idle
  <2>4. Keyed' /\ Zeroing'
    BY <1>4, <2>1 DEF Keyed, Zeroing
  <2> QED
    BY <1>5, <2>3, <2>4 DEF IInv
<1>8. CASE ~override
  <2>1. user' = Nobody /\ phase' = "idle" /\ UNCHANGED <<file, owner>>
    BY <1>8 DEF Construct
  <2>2. Alone'
    BY <1>6, <2>1 DEF IInv, Alone, Idle
  <2>3. Keyed' /\ Zeroing'
    BY <1>4, <1>6, <2>1 DEF IInv, Keyed, Zeroing
  <2> QED
    BY <1>5, <2>2, <2>3 DEF IInv
<1> QED
  BY <1>7, <1>8

LEMMA PlaceholdersInv ==
  ASSUME IInv, WritePlaceholders
  PROVE  IInv'
<1>1. /\ phase = "placeholders" /\ phase' = "zeroes" /\ owner = NoKey
      /\ user \in Adapters /\ Open(user)
      /\ \A a \in Adapters \ {user} : ~Open(a)
      /\ adapter[user].pending = NoWrite
      /\ UNCHANGED <<user, keyFile, owner>>
      /\ queue' = [i \in 1 .. Capacity |-> [location |-> i - 1, bucket |-> Zeroed]]
  BY DEF WritePlaceholders, IInv, Alone, Zeroing, Idle
<1>2. queue' \in Seq([location : Locations, bucket : Buckets \cup {Zeroed}])
      /\ Len(queue') = Capacity
  <2>1. \A i \in 1 .. Capacity :
          [location |-> i - 1, bucket |-> Zeroed]
            \in [location : Locations, bucket : Buckets \cup {Zeroed}]
    BY FileConstants DEF Locations
  <2> QED
    BY <1>1, <2>1, FileConstants
<1>3. CASE file' = Placeholders(Capacity) /\ UNCHANGED adapter
  <2>1. Types'
    BY <1>1, <1>2, <1>3 DEF IInv, Types
  <2>2. Alone' /\ Keyed'
    BY <1>1, <1>3 DEF IInv, Alone, Keyed, Held, Open, Idle
  <2>3. file' = Zeros(0 - 1)'
    BY <1>3, FileConstants DEF Placeholders, Zeros, Locations
  <2>4. Capacity - Len(queue') = 0
    BY <1>2, FileConstants
  <2>5. Zeroing'
    BY <1>1, <1>2, <1>3, <2>3, <2>4, FileConstants DEF Zeroing
  <2> QED
    BY <2>1, <2>2, <2>5 DEF IInv
<1>4. CASE adapter' = [adapter EXCEPT ![user].failed = TRUE]
  <2>1. adapter' = [adapter EXCEPT ![user].pending = NoWrite, ![user].failed = TRUE]
    BY <1>1, <1>4, PendingChanged DEF IInv
  <2>2. /\ adapter' \in [Adapters -> Opened \cup {Closed}]
        /\ adapter'[user].pending = NoWrite /\ adapter'[user].failed
        /\ \A b \in Adapters : Open(b)' <=> Open(b)
    BY <1>1, <2>1, ChangedAdapter DEF IInv
  <2>3. Types'
    BY <1>1, <1>2, <2>2 DEF IInv, Types
  <2>4. Alone' /\ Keyed' /\ Zeroing'
    BY <1>1, <2>2 DEF Alone, Keyed, Zeroing, Held, Idle
  <2> QED
    BY <2>3, <2>4 DEF IInv
<1> QED
  BY <1>3, <1>4 DEF WritePlaceholders

LEMMA SetInv ==
  ASSUME IInv, NEW a \in Adapters, NEW requests \in Requests, Set(a, requests)
  PROVE  IInv'
<1> DEFINE Item == [location : Locations, bucket : Buckets]
           AnyItem == [location : Locations, bucket : Buckets \cup {Zeroed}]
<1>1. /\ requests \in Seq(Item) /\ requests \in Seq(AnyItem)
      /\ \A i \in 1 .. Len(requests) : requests[i] \in Item
  <2>1. Item \subseteq AnyItem
    OBVIOUS
  <2>2. PICK n \in 1 .. MaxRequests : requests \in [1 .. n -> Item]
    BY DEF Requests
  <2>3. n \in Nat
    BY FileConstants
  <2> HIDE DEF Item, AnyItem
  <2> QED
    BY <2>1, <2>2, <2>3
<1>2. /\ Open(a) /\ \A b \in Adapters \ {a} : ~Open(b)
      /\ queue' = requests /\ user' = a /\ phase' = "set"
      /\ UNCHANGED <<file, adapter, keyFile, owner>>
  BY DEF Set, InUse
<1>3. \A i \in 1 .. Len(requests) : requests[i].bucket \in Buckets
  BY <1>1
<1>4. Types'
  BY <1>1, <1>2 DEF IInv, Types
<1>5. Alone'
  BY <1>2, <1>3 DEF IInv, Alone, Idle, Held, Open
<1>6. Keyed' /\ Zeroing'
  BY <1>2 DEF IInv, Keyed, Zeroing, Held, Open
<1> QED
  BY <1>4, <1>5, <1>6 DEF IInv

(* The next bucket of a set or a constructor. *)
LEMMA HeadType ==
  ASSUME Types, queue # <<>>
  PROVE  /\ Head(queue) \in [location : Locations, bucket : Buckets \cup {Zeroed}]
         /\ Head(queue) = queue[1] /\ Len(queue) \in Nat \ {0}
         /\ Tail(queue) \in Seq([location : Locations, bucket : Buckets \cup {Zeroed}])
         /\ Len(Tail(queue)) = Len(queue) - 1
         /\ \A i \in 1 .. Len(Tail(queue)) : Tail(queue)[i] = queue[i + 1]
<1> DEFINE AnyItem == [location : Locations, bucket : Buckets \cup {Zeroed}]
<1>1. queue \in Seq(AnyItem)
  BY DEF Types
<1> HIDE DEF AnyItem
<1>2. /\ Head(queue) \in AnyItem /\ Head(queue) = queue[1] /\ Len(queue) \in Nat \ {0}
      /\ Tail(queue) \in Seq(AnyItem) /\ Len(Tail(queue)) = Len(queue) - 1
      /\ \A i \in 1 .. Len(Tail(queue)) : Tail(queue)[i] = queue[i + 1]
  BY <1>1, queue # <<>>
<1> QED
  BY <1>2 DEF AnyItem

(* The user of a stream that works puts a bucket into it. *)
LEMMA WriteBucketSteps ==
  ASSUME IInv, WriteBucket, ~adapter[user].failed
  PROVE  LET held == <<Head(queue).location, Encrypted(adapter[user].key, Head(queue).bucket)>>
         IN  /\ user \in Adapters /\ Open(user) /\ user' = user /\ ~Idle
             /\ \A b \in Adapters \ {user} : ~Open(b)
             /\ held \in Locations \X Cells
             /\ file' = Flushed(user)
             /\ adapter' \in [Adapters -> Opened \cup {Closed}]
             /\ adapter'[user].pending = held /\ ~adapter'[user].failed
             /\ adapter'[user].key = adapter[user].key
             /\ adapter[user].key \in Keys
             /\ \A b \in Adapters : Open(b)' <=> Open(b)
             /\ owner' = IF owner = adapter[user].key THEN owner ELSE NoKey
<1> DEFINE held == <<Head(queue).location, Encrypted(adapter[user].key, Head(queue).bucket)>>
<1>1. /\ user \in Adapters /\ Open(user) /\ user' = user /\ ~Idle
      /\ \A b \in Adapters \ {user} : ~Open(b)
  BY DEF WriteBucket, IInv, Alone, Idle
<1>2. adapter[user] \in Opened
  BY <1>1, OpenType DEF IInv
<1>3. held \in Locations \X Cells
  BY <1>2, HeadType DEF WriteBucket, IInv, Opened, Cells, Encrypted
<1>4. /\ file' = Flushed(user)
      /\ adapter' = [adapter EXCEPT ![user].pending = held]
      /\ owner' = IF owner = adapter[user].key THEN owner ELSE NoKey
  BY DEF WriteBucket
<1>5. adapter[user].failed \in BOOLEAN /\ adapter[user].key \in Keys
  BY <1>2 DEF Opened
<1> HIDE DEF held
<1>6. adapter' = [adapter EXCEPT ![user].pending = held, ![user].failed = adapter[user].failed]
  BY <1>1, <1>4, PendingChanged DEF IInv
<1>7. /\ adapter' \in [Adapters -> Opened \cup {Closed}]
      /\ adapter'[user].pending = held /\ adapter'[user].failed = adapter[user].failed
      /\ adapter'[user].key = adapter[user].key
      /\ \A b \in Adapters : Open(b)' <=> Open(b)
  BY <1>1, <1>3, <1>5, <1>6, ChangedAdapter DEF IInv
<1> QED
  BY <1>1, <1>3, <1>4, <1>5, <1>7 DEF held

(* A stream that has failed writes nothing. *)
LEMMA FailedWriteInv ==
  ASSUME IInv, WriteBucket, adapter[user].failed
  PROVE  IInv'
<1>1. /\ UNCHANGED <<file, adapter, owner, user, phase, keyFile>>
      /\ queue' = Tail(queue) /\ queue # <<>> /\ phase \in {"zeroes", "set"}
  BY DEF WriteBucket
<1>2. Types'
  BY <1>1, HeadType DEF IInv, Types
<1>3. phase = "set" => \A i \in 1 .. Len(queue') : queue'[i].bucket \in Buckets
  BY <1>1, HeadType DEF IInv, Alone
<1>4. Alone'
  BY <1>1, <1>3 DEF IInv, Alone, Idle, Held, Open
<1>5. Keyed' /\ Zeroing'
  BY <1>1 DEF IInv, Keyed, Zeroing, Held, Open
<1> QED
  BY <1>2, <1>4, <1>5 DEF IInv

LEMMA WriteBucketZeroing ==
  ASSUME IInv, WriteBucket, ~adapter[user].failed, phase = "zeroes"
  PROVE  Zeroing'
<1> DEFINE written == Capacity - Len(queue)
           key == adapter[user].key
<1>1. /\ queue # <<>> /\ queue' = Tail(queue) /\ phase' = "zeroes"
  BY DEF WriteBucket
<1>2. /\ Len(queue) \in Nat \ {0} /\ Len(queue) <= Capacity /\ Capacity \in Nat
      /\ Len(queue') = Len(queue) - 1
      /\ written \in Nat /\ written \in Locations
      /\ Capacity - Len(queue') = written + 1
  <2>1. Len(queue) \in Nat \ {0} /\ Len(queue') = Len(queue) - 1
    BY <1>1, HeadType DEF IInv
  <2>2. Len(queue) <= Capacity /\ Capacity \in Nat
    BY FileConstants DEF IInv, Zeroing
  <2>3. written \in Nat /\ written <= Capacity - 1 /\ Capacity - Len(queue') = written + 1
    BY <2>1, <2>2
  <2> QED
    BY <2>1, <2>2, <2>3 DEF Locations
<1>3. \A i \in 1 .. Len(queue) : queue[i] = [location |-> written + i - 1, bucket |-> Zeroed]
  BY DEF IInv, Zeroing
<1>4. Head(queue) = [location |-> written, bucket |-> Zeroed]
  BY <1>1, <1>2, <1>3, HeadType DEF IInv
<1>5. \A i \in 1 .. Len(queue') :
        queue'[i] = [location |-> (written + 1) + i - 1, bucket |-> Zeroed]
  <2> SUFFICES ASSUME NEW i \in 1 .. Len(queue')
               PROVE  queue'[i] = [location |-> (written + 1) + i - 1, bucket |-> Zeroed]
    OBVIOUS
  <2>1. queue'[i] = queue[i + 1] /\ i + 1 \in 1 .. Len(queue)
    BY <1>1, <1>2, HeadType DEF IInv
  <2>2. written + (i + 1) - 1 = (written + 1) + i - 1
    BY <1>2
  <2> QED
    BY <1>3, <2>1, <2>2
<1>6. /\ adapter'[user].pending = <<written, Encrypted(key, Zeroed)>>
      /\ adapter'[user].key = key /\ user' = user /\ file' = Flushed(user)
      /\ user \in Adapters /\ Open(user)
  BY <1>4, WriteBucketSteps
<1>7. file' = [location \in Locations |->
                 IF location < written THEN Encrypted(key, Zeroed) ELSE Blank]
  <2>1. /\ file = Zeros(written - 1)
        /\ adapter[user].pending =
             IF written = 0 THEN NoWrite ELSE <<written - 1, Encrypted(key, Zeroed)>>
    BY DEF IInv, Zeroing
  <2>2. \A location \in Locations : location \in Nat
    BY DEF Locations
  <2>3. CASE written = 0
    <3>1. Flushed(user) = file
      BY <1>6, <2>1, <2>3, FlushedFile DEF IInv, Held
    <3> QED
      BY <1>6, <2>1, <2>2, <2>3, <3>1 DEF Zeros
  <2>4. CASE written # 0
    <3>1. Held(user)
      BY <1>6, <2>1, <2>4 DEF Held, NoWrite
    <3>2. Flushed(user) = [location \in Locations |->
                             IF location = written - 1 THEN Encrypted(key, Zeroed)
                             ELSE file[location]]
      BY <1>6, <2>1, <2>4, <3>1, FlushedFile DEF IInv, Zeros
    <3> QED
      BY <1>2, <1>6, <2>1, <2>2, <2>4, <3>2 DEF Zeros
  <2> QED
    BY <2>3, <2>4
<1>8. (file = Zeros((Capacity - Len(queue)) - 1))'
  <2>1. (Capacity - Len(queue')) - 1 = written
    BY <1>2
  <2> QED
    BY <1>6, <1>7, <2>1 DEF Zeros
<1>9. /\ Len(queue') <= Capacity
      /\ \A i \in 1 .. Len(queue') :
           queue'[i] = [location |-> (Capacity - Len(queue')) + i - 1, bucket |-> Zeroed]
  BY <1>2, <1>5
<1>10. adapter'[user'].pending =
         IF Capacity - Len(queue') = 0 THEN NoWrite
         ELSE <<(Capacity - Len(queue')) - 1, Encrypted(adapter'[user'].key, Zeroed)>>
  <2>1. Capacity - Len(queue') # 0 /\ (Capacity - Len(queue')) - 1 = written
    BY <1>2
  <2> QED
    BY <1>6, <2>1
<1> QED
  BY <1>1, <1>8, <1>9, <1>10 DEF Zeroing

LEMMA WriteBucketInv ==
  ASSUME IInv, WriteBucket
  PROVE  IInv'
<1>1. CASE adapter[user].failed
  BY <1>1, FailedWriteInv
<1>2. CASE ~adapter[user].failed
  <2>1. /\ phase \in {"zeroes", "set"} /\ queue # <<>> /\ queue' = Tail(queue)
        /\ UNCHANGED <<user, phase, keyFile>>
    BY DEF WriteBucket
  <2> DEFINE held == <<Head(queue).location, Encrypted(adapter[user].key, Head(queue).bucket)>>
  <2>2. /\ user \in Adapters /\ Open(user) /\ ~Idle
        /\ \A b \in Adapters \ {user} : ~Open(b)
        /\ held \in Locations \X Cells
        /\ file' = Flushed(user)
        /\ adapter' \in [Adapters -> Opened \cup {Closed}]
        /\ adapter'[user].pending = held /\ adapter[user].key \in Keys
        /\ \A b \in Adapters : Open(b)' <=> Open(b)
        /\ owner' = IF owner = adapter[user].key THEN owner ELSE NoKey
    BY <1>2, WriteBucketSteps
  <2>3. Types'
    BY <2>1, <2>2, HeadType DEF IInv, Types
  <2>4. phase = "set" => \A i \in 1 .. Len(queue') : queue'[i].bucket \in Buckets
    BY <2>1, HeadType DEF IInv, Alone
  <2>5. phase = "zeroes" => owner' = NoKey
    BY <2>2 DEF IInv, Alone
  <2>6. \A b \in Adapters : Held(b)' => b = user
    BY <2>2 DEF Held
  <2>7. Alone'
    BY <2>1, <2>2, <2>4, <2>5, <2>6 DEF Alone, Idle
  <2>8. Keyed'
    <3> SUFFICES ASSUME owner' # NoKey PROVE Keyed'
      BY DEF Keyed
    <3>1. owner' = owner /\ owner = adapter[user].key
      BY <2>2
    <3>2. held[2].key = owner
      BY <3>1 DEF Encrypted
    <3>3. /\ DOMAIN file' = Locations
          /\ \A location \in Locations : file'[location].key \in {owner, NoKey}
      BY <2>2, <3>1, FlushedKeyed DEF IInv
    <3> QED
      BY <2>2, <2>6, <3>1, <3>2, <3>3 DEF Keyed
  <2>9. Zeroing'
    <3>1. CASE phase = "zeroes"
      BY <1>2, <3>1, WriteBucketZeroing
    <3>2. CASE phase = "set"
      BY <2>1, <3>2 DEF Zeroing
    <3> QED
      BY <2>1, <3>1, <3>2
  <2> QED
    BY <2>3, <2>7, <2>8, <2>9 DEF IInv
<1> QED
  BY <1>1, <1>2

(* What the constructor of a new file leaves, if its stream works. *)
LEMMA Created ==
  ASSUME IInv, SetReturns, phase = "zeroes", ~adapter[user].failed
  PROVE  /\ owner' = adapter[user].key /\ owner' \in Keys
         /\ user \in Adapters /\ Open(user)
         /\ \A a \in Adapters \ {user} : ~Open(a)
         /\ file = [location \in Locations |->
                     IF location < Capacity - 1 THEN Encrypted(owner', Zeroed) ELSE Blank]
         /\ adapter[user].pending = <<Capacity - 1, Encrypted(owner', Zeroed)>>
<1>1. /\ user \in Adapters /\ Open(user) /\ owner' = adapter[user].key
      /\ \A a \in Adapters \ {user} : ~Open(a)
  BY DEF SetReturns, IInv, Alone, Idle
<1>2. owner' \in Keys
  BY <1>1, OpenType DEF IInv, Opened
<1>3. Capacity - Len(queue) = Capacity /\ Capacity # 0
  BY FileConstants DEF SetReturns
<1>4. file = Zeros(Capacity - 1) /\ adapter[user].pending = <<Capacity - 1, Encrypted(owner', Zeroed)>>
  BY <1>1, <1>3 DEF IInv, Zeroing
<1> QED
  BY <1>1, <1>2, <1>4 DEF Zeros

LEMMA SetReturnsInv ==
  ASSUME IInv, SetReturns
  PROVE  IInv'
<1>1. /\ user' = Nobody /\ phase' = "idle" /\ phase \in {"zeroes", "set"}
      /\ UNCHANGED <<file, adapter, queue, keyFile>>
      /\ user \in Adapters /\ \A a \in Adapters \ {user} : ~Open(a)
  BY DEF SetReturns, IInv, Alone, Idle
<1>2. Alone' /\ Zeroing'
  BY <1>1 DEF IInv, Alone, Zeroing, Held, Open, Idle
<1>3. CASE phase = "zeroes" /\ ~adapter[user].failed
  <2>1. /\ owner' = adapter[user].key /\ owner' \in Keys
        /\ file = [location \in Locations |->
                     IF location < Capacity - 1 THEN Encrypted(owner', Zeroed) ELSE Blank]
        /\ adapter[user].pending = <<Capacity - 1, Encrypted(owner', Zeroed)>>
    BY <1>3, Created
  <2>2. Types'
    BY <1>1, <2>1 DEF IInv, Types
  <2>3. \A location \in Locations : file[location].key \in {owner', NoKey}
    BY <2>1 DEF Encrypted, Blank
  <2>4. adapter[user].pending[2].key = owner'
    BY <2>1 DEF Encrypted
  <2>5. Keyed'
    BY <1>1, <2>1, <2>3, <2>4 DEF Keyed, Held, Open
  <2> QED
    BY <1>2, <2>2, <2>5 DEF IInv
<1>4. CASE ~(phase = "zeroes" /\ ~adapter[user].failed)
  <2>1. owner' = owner
    BY <1>4 DEF SetReturns
  <2>2. Types' /\ Keyed'
    BY <1>1, <2>1 DEF IInv, Types, Keyed, Held, Open
  <2> QED
    BY <1>2, <2>2 DEF IInv
<1> QED
  BY <1>3, <1>4

(* The stream of an adapter changes: it fails, or drops or writes what it held. *)
StreamChanges(a) ==
  /\ Open(a)
  /\ \E pending \in {adapter[a].pending, NoWrite}, failed \in BOOLEAN :
       /\ adapter' = [adapter EXCEPT ![a].pending = pending, ![a].failed = failed]
       /\ Idle \/ (failed /\ Held(a))
  /\ file' \in {file, Flushed(a)}
  /\ UNCHANGED <<queue, user, phase, keyFile, owner>>

LEMMA StreamInv ==
  ASSUME IInv, NEW a \in Adapters, StreamChanges(a)
  PROVE  IInv'
<1> PICK pending \in {adapter[a].pending, NoWrite}, failed \in BOOLEAN :
      /\ adapter' = [adapter EXCEPT ![a].pending = pending, ![a].failed = failed]
      /\ Idle \/ (failed /\ Held(a))
  BY DEF StreamChanges
<1> Open(a) /\ file' \in {file, Flushed(a)} /\ UNCHANGED <<queue, user, phase, keyFile, owner>>
  BY DEF StreamChanges
<1>1. pending \in {NoWrite} \cup (Locations \X Cells)
  BY OpenType DEF IInv, Opened
<1>2. /\ adapter' \in [Adapters -> Opened \cup {Closed}]
      /\ adapter'[a].pending = pending /\ adapter'[a].failed = failed
      /\ \A b \in Adapters \ {a} : adapter'[b] = adapter[b]
      /\ \A b \in Adapters : Open(b)' <=> Open(b)
  BY <1>1, ChangedAdapter DEF IInv
<1>3. \A b \in Adapters : Held(b)' => Held(b) /\ adapter'[b].pending = adapter[b].pending
  BY <1>2 DEF Held
<1>4. Types'
  BY <1>2 DEF IInv, Types
<1>5. Alone'
  BY <1>2, <1>3 DEF IInv, Alone, Idle
<1>6. Keyed'
  <2> SUFFICES ASSUME owner # NoKey PROVE Keyed'
    BY DEF Keyed
  <2>1. /\ DOMAIN file' = Locations
        /\ \A location \in Locations : file'[location].key \in {owner, NoKey}
    BY FlushedKeyed DEF IInv, Keyed
  <2> QED
    BY <1>3, <2>1 DEF IInv, Keyed
<1>7. Zeroing'
  <2>1. CASE Idle
    BY <2>1 DEF Zeroing, Idle
  <2>2. CASE ~Idle
    <3>1. user = a /\ failed /\ Held(a)
      BY <2>2 DEF IInv, Alone
    <3>2. CASE phase = "placeholders"
      <4>1. adapter[a].pending = NoWrite
        BY <3>1, <3>2 DEF IInv, Zeroing
      <4> QED
        BY <3>1, <4>1 DEF Held
    <3>3. CASE phase # "placeholders"
      BY <1>2, <3>1, <3>3 DEF Zeroing
    <3> QED
      BY <3>2, <3>3
  <2> QED
    BY <2>1, <2>2
<1> QED
  BY <1>4, <1>5, <1>6, <1>7 DEF IInv

LEMMA WriteFailsInv ==
  ASSUME IInv, WriteFails
  PROVE  IInv'
<1>1. PICK a \in Adapters : StreamChanges(a)
  BY DEF WriteFails, Held, StreamChanges
<1> QED
  BY <1>1, StreamInv

LEMMA GetInv ==
  ASSUME IInv, NEW a \in Adapters, NEW locations, Get(a, locations)
  PROVE  IInv'
<1>1. /\ Idle /\ Open(a) /\ UNCHANGED <<queue, user, phase, keyFile, owner>>
      /\ file' \in {file, Flushed(a)}
  BY DEF Get, InUse
<1>2. \/ adapter' = adapter /\ file' = file
      \/ \E failed \in BOOLEAN :
           adapter' = [adapter EXCEPT ![a].pending = NoWrite, ![a].failed = failed]
  BY DEF Get
<1>3. CASE adapter' = adapter /\ file' = file
  <2>1. Types' /\ Alone' /\ Keyed'
    BY <1>1, <1>3 DEF IInv, Types, Alone, Keyed, Held, Open, Idle
  <2>2. Zeroing'
    BY <1>1 DEF Zeroing, Idle
  <2> QED
    BY <2>1, <2>2 DEF IInv
<1>4. CASE \E failed \in BOOLEAN :
             adapter' = [adapter EXCEPT ![a].pending = NoWrite, ![a].failed = failed]
  <2>1. PICK failed \in BOOLEAN :
          adapter' = [adapter EXCEPT ![a].pending = NoWrite, ![a].failed = failed]
    BY <1>4
  <2>2. \E pending \in {adapter[a].pending, NoWrite}, f \in BOOLEAN :
          /\ adapter' = [adapter EXCEPT ![a].pending = pending, ![a].failed = f]
          /\ Idle \/ (f /\ Held(a))
    <3> WITNESS NoWrite \in {adapter[a].pending, NoWrite}, failed \in BOOLEAN
    <3> QED
      BY <1>1, <2>1
  <2>3. StreamChanges(a)
    BY <1>1, <2>2 DEF StreamChanges
  <2> QED
    BY <2>3, StreamInv
<1> QED
  BY <1>2, <1>3, <1>4

(* Some adapters are closed, and what one of them held may be written. *)
LEMMA ClosingInv ==
  ASSUME IInv, NEW closed \in SUBSET Adapters,
         adapter' = [a \in Adapters |-> IF a \in closed THEN Closed ELSE adapter[a]],
         UNCHANGED <<keyFile, owner>>,
         owner # NoKey => \/ file' = file
                          \/ \E a \in closed : Open(a) /\ file' = Flushed(a),
         phase' = "idle", user' = Nobody,
         queue' \in Seq([location : Locations, bucket : Buckets \cup {Zeroed}])
  PROVE  IInv'
<1>1. Types'
  BY DEF IInv, Types
<1>2. \A a \in Adapters : Held(a)' => Held(a) /\ adapter'[a] = adapter[a]
  BY DEF Held, Open, Closed
<1>3. Alone' /\ Zeroing'
  BY <1>2 DEF IInv, Alone, Zeroing, Idle
<1>4. Keyed'
  <2> SUFFICES ASSUME owner # NoKey PROVE Keyed'
    BY DEF Keyed
  <2>1. /\ DOMAIN file' = Locations
        /\ \A location \in Locations : file'[location].key \in {owner, NoKey}
    BY FlushedKeyed DEF IInv, Keyed
  <2> QED
    BY <1>2, <2>1 DEF IInv, Keyed
<1> QED
  BY <1>1, <1>3, <1>4 DEF IInv

LEMMA DestroyInv ==
  ASSUME IInv, NEW a \in Adapters, Destroy(a)
  PROVE  IInv'
<1>1. /\ adapter' = [b \in Adapters |-> IF b \in {a} THEN Closed ELSE adapter[b]]
      /\ file' = Flushed(a) /\ Open(a) /\ Idle /\ {a} \in SUBSET Adapters
      /\ UNCHANGED <<keyFile, owner, queue, user, phase>>
  BY DEF Destroy, IInv, Types
<1>2. /\ user' = Nobody /\ phase' = "idle"
      /\ queue' \in Seq([location : Locations, bucket : Buckets \cup {Zeroed}])
  BY <1>1 DEF IInv, Alone, Types, Idle
<1> QED
  BY <1>1, <1>2, ClosingInv

LEMMA KillInv ==
  ASSUME IInv, Kill
  PROVE  IInv'
<1>1. /\ adapter' = [b \in Adapters |-> IF b \in Adapters THEN Closed ELSE adapter[b]]
      /\ UNCHANGED <<keyFile, owner>> /\ user' = Nobody /\ phase' = "idle"
      /\ queue' \in Seq([location : Locations, bucket : Buckets \cup {Zeroed}])
  BY DEF Kill
<1>2. owner # NoKey => \/ file' = file
                      \/ \E a \in Adapters : Open(a) /\ file' = Flushed(a)
  BY DEF Kill, IInv, Alone
<1> QED
  BY <1>1, <1>2, ClosingInv

LEMMA StepInv == IInv /\ [Next]_vars => IInv'
<1> SUFFICES ASSUME IInv, [Next]_vars PROVE IInv'
  OBVIOUS
<1>1. ASSUME NEW a \in Adapters, Create(a) PROVE IInv'
  BY <1>1, ConstructInv DEF Create
<1>2. ASSUME NEW a \in Adapters, Reopen(a) PROVE IInv'
  BY <1>2, ConstructInv DEF Reopen, IInv, Types
<1>3. CASE StoreKey \/ UNCHANGED vars
  BY <1>3 DEF StoreKey, vars, IInv, Types, Alone, Keyed, Zeroing, Zeros, Held, Open, Idle
<1>4. CASE \E a \in Adapters, n \in 0 .. MaxRequests :
             \E locations \in [1 .. n -> Locations] : Get(a, locations)
  BY <1>4, GetInv
<1>5. CASE \E a \in Adapters, requests \in Requests : Set(a, requests)
  BY <1>5, SetInv
<1> QED
  BY <1>1, <1>2, <1>3, <1>4, <1>5, DestroyInv, PlaceholdersInv, WriteBucketInv,
     SetReturnsInv, WriteFailsInv, KillInv DEF Next

-----------------------------------------------------------------------------
(* What the storage promises, in terms of the one stream that holds a bucket   *)

LatestKnown ==
  /\ \A a \in Adapters : Held(a) => Latest = Flushed(a)
  /\ (\A a \in Adapters : ~Held(a)) => Latest = file

ReaderKnown ==
  /\ \A a \in Adapters : user = a \/ InUse(a) =>
       Reader = IF adapter[a].key = owner /\ ~adapter[a].failed THEN "owner" ELSE "stranger"
  /\ (\A a \in Adapters : ~(user = a \/ InUse(a))) => Reader = "nobody"

LEMMA LatestIsKnown == IInv => LatestKnown
<1> SUFFICES ASSUME IInv PROVE LatestKnown
  OBVIOUS
<1>1. ASSUME NEW a \in Adapters, Held(a) PROVE Latest = Flushed(a)
  <2> DEFINE holder == CHOOSE b \in Adapters : Open(b) /\ adapter[b].pending # NoWrite
  <2>1. holder \in Adapters /\ Held(holder)
    BY <1>1 DEF Held
  <2>2. holder = a
    BY <1>1, <2>1 DEF IInv, Alone
  <2>3. Latest = Flushed(holder)
    BY <1>1 DEF Latest, Held
  <2> QED
    BY <2>2, <2>3
<1>2. ASSUME \A a \in Adapters : ~Held(a) PROVE Latest = file
  BY <1>2 DEF Latest, Held
<1> QED
  BY <1>1, <1>2 DEF LatestKnown

LEMMA ReaderIsKnown == IInv => ReaderKnown
<1> SUFFICES ASSUME IInv PROVE ReaderKnown
  OBVIOUS
<1>1. ASSUME NEW a \in Adapters, user = a \/ InUse(a)
      PROVE  Reader = IF adapter[a].key = owner /\ ~adapter[a].failed THEN "owner" ELSE "stranger"
  <2> DEFINE one == CHOOSE b \in Adapters : user = b \/ InUse(b)
  <2>1. one \in Adapters /\ (user = one \/ InUse(one))
    BY <1>1
  <2>2. one = a
    BY <1>1, <2>1, FileConstants DEF IInv, Alone, InUse
  <2>3. Reader = IF adapter[one].key = owner /\ ~adapter[one].failed THEN "owner" ELSE "stranger"
    BY <1>1 DEF Reader
  <2> QED
    BY <2>2, <2>3
<1>2. ASSUME \A a \in Adapters : ~(user = a \/ InUse(a)) PROVE Reader = "nobody"
  BY <1>2 DEF Reader
<1> QED
  BY <1>1, <1>2 DEF ReaderKnown

Known == IInv /\ LatestKnown /\ ReaderKnown

(* A step that touches neither the file nor what is held back. *)
LEMMA LatestKept ==
  ASSUME Known, Known', file' = file,
         \A a \in Adapters : /\ Held(a)' <=> Held(a)
                             /\ Held(a) => adapter'[a].pending = adapter[a].pending
  PROVE  Latest' = Latest
<1>1. CASE \A a \in Adapters : ~Held(a)
  BY <1>1 DEF Known, LatestKnown
<1>2. ASSUME NEW a \in Adapters, Held(a) PROVE Latest' = Latest
  <2>1. Latest = Flushed(a) /\ Latest' = Flushed(a)'
    BY <1>2 DEF Known, LatestKnown
  <2>2. adapter'[a].pending = adapter[a].pending
    BY <1>2
  <2> QED
    BY <2>1, <2>2 DEF Flushed
<1> QED
  BY <1>1, <1>2

(* A step after which nothing is held back. *)
LEMMA LatestWritten ==
  ASSUME Known, Known', \A a \in Adapters : ~Held(a)',
         file' = file \/ \E a \in Adapters : Open(a) /\ file' = Flushed(a)
  PROVE  Latest' = file' /\ file' \in {file, Latest}
<1>1. Latest' = file'
  BY DEF Known, LatestKnown
<1>2. ASSUME NEW a \in Adapters, Open(a), file' = Flushed(a) PROVE file' \in {file, Latest}
  <2>1. CASE Held(a)
    BY <1>2, <2>1 DEF Known, LatestKnown
  <2>2. CASE ~Held(a)
    BY <1>2, <2>2, FlushedFile DEF Known, IInv
  <2> QED
    BY <2>1, <2>2
<1> QED
  BY <1>1, <1>2

(* Where only one adapter is open, the file is what its stream makes of it. *)
LEMMA LatestOfOne ==
  ASSUME Known, NEW a \in Adapters, Open(a), \A b \in Adapters \ {a} : ~Open(b)
  PROVE  Latest = Flushed(a)
<1>1. CASE Held(a)
  BY <1>1 DEF Known, LatestKnown
<1>2. CASE ~Held(a)
  <2>1. \A b \in Adapters : ~Held(b)
    BY <1>2 DEF Held
  <2> QED
    BY <1>2, <2>1, FlushedFile DEF Known, LatestKnown, IInv
<1> QED
  BY <1>1, <1>2

-----------------------------------------------------------------------------
(* Every step is one of the promise's, or none *)

LEMMA DestroyRefines ==
  ASSUME Known, Known', owner # NoKey, NEW a \in Adapters, Destroy(a)
  PROVE  Promise!Change
<1>1. /\ file' = Flushed(a) /\ Open(a) /\ answer' = <<>> /\ owner' = owner
      /\ ~Open(a)' /\ \A b \in Adapters \ {a} : adapter'[b] = adapter[b]
  BY DEF Destroy, Known, IInv, Types, Open, Closed
<1>2. Latest' = Latest /\ file' \in {file, Latest}
  <2>1. CASE Held(a)
    <3>1. \A b \in Adapters : ~Held(b)'
      BY <1>1, <2>1 DEF Known, IInv, Alone, Held, Open
    <3>2. Latest' = file' /\ Latest = Flushed(a)
      BY <1>1, <2>1, <3>1, LatestWritten DEF Known, LatestKnown
    <3> QED
      BY <1>1, <3>2
  <2>2. CASE ~Held(a)
    <3>1. file' = file
      BY <1>1, <2>2, FlushedFile DEF Known, IInv
    <3>2. \A b \in Adapters : /\ Held(b)' <=> Held(b)
                              /\ Held(b) => adapter'[b].pending = adapter[b].pending
      BY <1>1, <2>2 DEF Held, Open
    <3> QED
      BY <3>1, <3>2, LatestKept
  <2> QED
    BY <2>1, <2>2
<1>3. AsOwnerSees(Latest)' = AsOwnerSees(Latest)
  BY <1>1, <1>2 DEF AsOwnerSees
<1>4. AsOwnerSees(file)' \in {AsOwnerSees(file), AsOwnerSees(Latest)}
  BY <1>1, <1>2 DEF AsOwnerSees
<1> QED
  BY <1>1, <1>3, <1>4 DEF Promise!Change

(* An adapter is opened, or a set begins: nothing of the file changes. *)
LEMMA BeginningRefines ==
  ASSUME Known, Known', owner # NoKey, owner' = owner, file' = file, answer' = <<>>,
         \A a \in Adapters : \/ adapter'[a] = adapter[a]
                             \/ ~Open(a) /\ adapter'[a].pending = NoWrite
  PROVE  Promise!Change
<1>1. \A a \in Adapters : /\ Held(a)' <=> Held(a)
                          /\ Held(a) => adapter'[a].pending = adapter[a].pending
  BY DEF Held, Open
<1>2. Latest' = Latest
  BY <1>1, LatestKept
<1> QED
  BY <1>2 DEF Promise!Change, AsOwnerSees

LEMMA ReopenRefines ==
  ASSUME Known, Known', owner # NoKey, NEW a \in Adapters, Reopen(a)
  PROVE  Promise!Change
<1>1. PICK key \in {keyFile, NoKey} : Construct(a, key, FALSE)
  BY DEF Reopen
<1>2. PICK k \in KeyOf(key) :
        adapter' = [adapter EXCEPT ![a] =
                      [open |-> TRUE, key |-> k, pending |-> NoWrite, failed |-> FALSE]]
  BY <1>1 DEF Construct
<1>3. ~Open(a) /\ owner' = owner /\ file' = file /\ answer' = <<>>
  BY <1>1 DEF Construct
<1>4. /\ adapter'[a] = [open |-> TRUE, key |-> k, pending |-> NoWrite, failed |-> FALSE]
      /\ \A b \in Adapters \ {a} : adapter'[b] = adapter[b]
  BY <1>2 DEF Known, IInv, Types
<1>5. adapter'[a].pending = NoWrite
  BY <1>4
<1> QED
  BY <1>3, <1>4, <1>5, BeginningRefines

LEMMA WriteBucketRefines ==
  ASSUME Known, Known', owner # NoKey, owner' # NoKey, WriteBucket
  PROVE  [Promise!Write]_Promise!vars
<1> DEFINE own == adapter[user]
           request == Head(queue)
<1>1. /\ phase = "set" /\ queue # <<>> /\ user \in Adapters /\ Open(user)
      /\ \A a \in Adapters \ {user} : ~Open(a)
  BY DEF WriteBucket, Known, IInv, Alone, Idle
<1>2. UNCHANGED <<user, phase, answer>>
  BY DEF WriteBucket
<1>3. Reader = IF own.key = owner /\ ~own.failed THEN "owner" ELSE "stranger"
  BY <1>1 DEF Known, ReaderKnown
<1>4. CASE own.failed
  <2>1. UNCHANGED <<file, adapter, owner>>
    BY <1>4 DEF WriteBucket
  <2>2. Latest' = Latest
    BY <2>1, LatestKept DEF Held, Open
  <2>3. Reader' = Reader
    BY <1>1, <1>2, <1>3, <2>1 DEF Known, ReaderKnown
  <2> QED
    BY <1>2, <2>1, <2>2, <2>3 DEF Promise!vars, AsOwnerSees
<1>5. CASE ~own.failed
  <2>1. /\ file' = Flushed(user) /\ own.key = owner /\ owner' = owner
        /\ adapter'[user].pending = <<request.location, Encrypted(owner, request.bucket)>>
        /\ adapter'[user].key = owner /\ ~adapter'[user].failed
        /\ Open(user)' <=> Open(user)
    BY <1>1, <1>2, <1>5, WriteBucketSteps DEF WriteBucket, Known
  <2>2. request.location \in Locations /\ request.bucket \in Buckets
    <3>1. request \in [location : Locations, bucket : Buckets \cup {Zeroed}]
      BY <1>1, HeadType DEF Known, IInv
    <3>2. request = queue[1] /\ Len(queue) \in Nat \ {0}
      BY <1>1, HeadType DEF Known, IInv
    <3>3. request.bucket \in Buckets
      BY <1>1, <3>2 DEF Known, IInv, Alone
    <3> QED
      BY <3>1, <3>3
  <2>3. PICK u \in Adapters : u = user /\ u = user'
    BY <1>1, <1>2
  <2>4. adapter'[u].pending \in Locations \X Cells
    BY <1>5, <2>3, WriteBucketSteps DEF Known
  <2>5. Held(u)'
    <3>1. adapter'[u].open
      BY <1>1, <2>1, <2>3, <1>2 DEF Open
    <3>2. adapter'[u].pending # NoWrite
      BY <2>4 DEF NoWrite
    <3> QED
      BY <3>1, <3>2 DEF Held, Open
  <2>6. Latest = Flushed(user)
    BY <1>1, LatestOfOne
  <2>7. DOMAIN file' = Locations
    BY <2>1 DEF Known, IInv, Keyed
  <2>8. Latest' = [location \in Locations |->
                     IF location = request.location THEN Encrypted(owner, request.bucket)
                     ELSE file'[location]]
    <3>1. Latest' = Flushed(u)'
      BY <2>5 DEF Known, LatestKnown
    <3>2. Locations \cup 0 .. request.location = Locations
      BY <2>2, FileConstants DEF Locations
    <3>3. adapter'[u].pending = <<request.location, Encrypted(owner, request.bucket)>>
      BY <2>1, <2>3
    <3>4. adapter'[u].pending # NoWrite
      BY <2>4 DEF NoWrite
    <3> QED
      BY <2>7, <3>1, <3>2, <3>3, <3>4 DEF Flushed
  <2>9. AsOwnerSees(Latest)'
          = [AsOwnerSees(Latest) EXCEPT ![request.location] = request.bucket]
    BY <2>1, <2>2, <2>6, <2>7, <2>8 DEF AsOwnerSees, Decrypted, Encrypted
  <2>10. AsOwnerSees(file)' = AsOwnerSees(Latest)
    BY <2>1, <2>6 DEF AsOwnerSees
  <2>11. Reader = "owner" /\ Reader' = "owner"
    BY <1>1, <1>2, <1>3, <1>5, <2>1 DEF Known, ReaderKnown
  <2>12. \E location \in Locations, bucket \in Buckets :
           AsOwnerSees(Latest)' = [AsOwnerSees(Latest) EXCEPT ![location] = bucket]
    BY <2>2, <2>9
  <2> QED
    BY <1>2, <2>1, <2>10, <2>11, <2>12 DEF Promise!Write
<1> QED
  BY <1>4, <1>5

(* The end of a set is not seen: its adapter stays the one in use. *)
LEMMA SetReturnsRefines ==
  ASSUME Known, Known', owner # NoKey, SetReturns
  PROVE  UNCHANGED Promise!vars
<1>1. /\ user \in Adapters /\ Open(user) /\ owner' = owner
      /\ \A a \in Adapters \ {user} : ~Open(a)
      /\ UNCHANGED <<file, adapter, answer>> /\ Idle'
  BY DEF SetReturns, Known, IInv, Alone, Idle
<1>2. Latest' = Latest
  BY <1>1, LatestKept DEF Held, Open
<1>3. PICK u \in Adapters : u = user
  BY <1>1
<1>4. InUse(u)'
  BY <1>1, <1>3 DEF InUse, Open
<1>5. Reader' = Reader
  BY <1>1, <1>3, <1>4 DEF Known, ReaderKnown
<1> QED
  BY <1>1, <1>2, <1>5 DEF Promise!vars, AsOwnerSees

LEMMA StoreKeyRefines ==
  ASSUME Known, Known', owner # NoKey, StoreKey \/ UNCHANGED vars
  PROVE  UNCHANGED Promise!vars
<1>1. UNCHANGED <<file, adapter, answer, user, phase, owner>>
  BY DEF StoreKey, vars
<1>2. Latest' = Latest
  BY <1>1, LatestKept DEF Held, Open
<1>3. Reader' = Reader
  BY <1>1 DEF Reader, InUse, Open, Idle
<1> QED
  BY <1>1, <1>2, <1>3 DEF Promise!vars, AsOwnerSees

LEMMA LoseRefines ==
  ASSUME Known, Known', owner # NoKey, owner' = owner, Reader' # "owner",
         Latest' \in {Latest, file}, file' \in {file, Latest'}, answer' \in {answer, <<>>}
  PROVE  Promise!Lose
<1>1. AsOwnerSees(Latest)' \in {AsOwnerSees(Latest), AsOwnerSees(file)}
  BY DEF AsOwnerSees
<1>2. AsOwnerSees(file)' \in {AsOwnerSees(file), AsOwnerSees(Latest)'}
  BY DEF AsOwnerSees
<1> QED
  BY <1>1, <1>2 DEF Promise!Lose

LEMMA KillRefines ==
  ASSUME Known, Known', owner # NoKey, Kill
  PROVE  Promise!Lose
<1>1. phase # "placeholders"
  BY DEF Known, IInv, Alone
<1>2. /\ file' = file \/ \E a \in Adapters : Open(a) /\ file' = Flushed(a)
      /\ \A a \in Adapters : ~Open(a)'
      /\ user' = Nobody /\ owner' = owner /\ answer' = <<>>
  BY <1>1 DEF Kill, Open, Closed
<1>3. \A a \in Adapters : ~Held(a)'
  BY <1>2 DEF Held
<1>4. Latest' = file' /\ file' \in {file, Latest}
  BY <1>2, <1>3, LatestWritten
<1>5. Reader' = "nobody"
  BY <1>2, FileConstants DEF Known, ReaderKnown, InUse
<1> QED
  BY <1>2, <1>4, <1>5, LoseRefines

LEMMA WriteFailsRefines ==
  ASSUME Known, Known', owner # NoKey, WriteFails
  PROVE  Promise!Lose
<1> PICK a \in Adapters :
      /\ Held(a)
      /\ \E kept \in {adapter[a].pending, NoWrite} :
           adapter' = [adapter EXCEPT ![a].pending = kept, ![a].failed = TRUE]
  BY DEF WriteFails, Held
<1>1. PICK kept \in {adapter[a].pending, NoWrite} :
        adapter' = [adapter EXCEPT ![a].pending = kept, ![a].failed = TRUE]
  OBVIOUS
<1>2. UNCHANGED <<file, user, phase, answer, owner>>
  BY DEF WriteFails
<1>3. kept \in {NoWrite} \cup (Locations \X Cells)
  BY <1>1, OpenType DEF Known, IInv, Opened, Held
<1>4. /\ adapter'[a].pending = kept /\ adapter'[a].failed
      /\ \A b \in Adapters \ {a} : adapter'[b] = adapter[b]
      /\ \A b \in Adapters : Open(b)' <=> Open(b)
  BY <1>1, <1>3, ChangedAdapter DEF Known, IInv, Held
<1>5. \A b \in Adapters \ {a} : ~Held(b)
  BY <1>1 DEF Known, IInv, Alone
<1>6. Latest' \in {Latest, file}
  <2>1. CASE kept = NoWrite
    <3>1. \A b \in Adapters : ~Held(b)'
      BY <1>4, <1>5, <2>1 DEF Held
    <3> QED
      BY <1>2, <3>1 DEF Known, LatestKnown
  <2>2. CASE kept = adapter[a].pending
    <3>1. \A b \in Adapters : /\ Held(b)' <=> Held(b)
                              /\ Held(b) => adapter'[b].pending = adapter[b].pending
      BY <1>4, <2>2 DEF Held
    <3> QED
      BY <1>2, <3>1, LatestKept
  <2> QED
    BY <2>1, <2>2
<1>7. Reader' # "owner"
  <2>1. CASE \A b \in Adapters : ~(user = b \/ InUse(b))'
    BY <2>1 DEF Known, ReaderKnown
  <2>2. ASSUME NEW b \in Adapters, (user = b \/ InUse(b))'
        PROVE  Reader' = "stranger"
    <3>1. Open(b) /\ \A c \in Adapters \ {b} : ~Open(c)
      BY <1>2, <1>4, <2>2, FileConstants DEF InUse, Known, IInv, Alone
    <3>2. b = a
      BY <1>1, <3>1 DEF Held
    <3> QED
      BY <1>4, <2>2, <3>2 DEF Known, ReaderKnown
  <2> QED
    BY <2>1, <2>2
<1> QED
  BY <1>2, <1>6, <1>7, LoseRefines

LEMMA GetRefines ==
  ASSUME Known, Known', owner # NoKey, NEW a \in Adapters,
         NEW n \in 0 .. MaxRequests, NEW locations \in [1 .. n -> Locations],
         Get(a, locations)
  PROVE  Promise!Read
<1> DEFINE own == adapter[a]
           now == IF own.failed THEN file ELSE Flushed(a)
           there(i) == ~own.failed /\ \A j \in 1 .. i : locations[j] \in DOMAIN now
<1>1. /\ Idle /\ Open(a) /\ InUse(a) /\ \A b \in Adapters \ {a} : ~Open(b)
      /\ UNCHANGED <<user, phase, owner>>
  BY DEF Get, InUse
<1>2. own \in Opened
  BY <1>1, OpenType DEF Known, IInv
<1>3. /\ answer' = [i \in DOMAIN locations |->
                      IF there(i) THEN Decrypted(own.key, now[locations[i]]) ELSE Noise]
      /\ adapter' = IF own.failed \/ locations = <<>> THEN adapter
                    ELSE [adapter EXCEPT ![a].pending = NoWrite,
                                         ![a].failed = ~there(Len(locations))]
      /\ file' = IF locations = <<>> THEN file ELSE now
  BY DEF Get
<1>4. DOMAIN now = Locations
  BY <1>1, FlushedKeyed DEF Known, IInv, Keyed
<1>5. DOMAIN locations = 1 .. n /\ Len(locations) = n
  OBVIOUS
<1>6. \A i \in 1 .. n : there(i) <=> ~own.failed
  BY <1>4
<1>7. there(Len(locations)) <=> ~own.failed
  BY <1>4, <1>5
<1>8. Latest = Flushed(a)
  BY <1>1, LatestOfOne
<1>9. Reader = IF own.key = owner /\ ~own.failed THEN "owner" ELSE "stranger"
  BY <1>1 DEF Known, ReaderKnown
<1>10. answer' = [i \in DOMAIN locations |->
                    IF Reader = "owner" THEN AsOwnerSees(Latest)[locations[i]] ELSE Noise]
  <2>1. ASSUME NEW i \in 1 .. n
        PROVE  (IF there(i) THEN Decrypted(own.key, now[locations[i]]) ELSE Noise)
                 = IF Reader = "owner" THEN AsOwnerSees(Latest)[locations[i]] ELSE Noise
    <3>1. CASE own.failed
      BY <1>6, <1>9, <3>1
    <3>2. CASE ~own.failed /\ own.key = owner
      BY <1>4, <1>6, <1>8, <1>9, <3>2 DEF AsOwnerSees
    <3>3. CASE ~own.failed /\ own.key # owner
      <4>1. now[locations[i]].key \in {owner, NoKey}
        BY <1>1, <3>3, FlushedKeyed DEF Known, IInv
      <4>2. own.key # NoKey
        BY <1>2, FileConstants DEF Opened, Keys
      <4>3. Decrypted(own.key, now[locations[i]]) = Noise
        BY <3>3, <4>1, <4>2 DEF Decrypted
      <4> QED
        BY <1>6, <1>9, <3>3, <4>3
    <3> QED
      BY <3>1, <3>2, <3>3
  <2> QED
    BY <1>3, <1>5, <2>1
<1>11. Latest' = Latest /\ file' \in {file, Latest} /\ Reader' = Reader
  <2>1. CASE own.failed \/ locations = <<>>
    <3>1. adapter' = adapter /\ file' = file
      BY <1>3, <2>1
    <3>2. Latest' = Latest
      BY <3>1, LatestKept DEF Held, Open
    <3>3. Reader' = Reader
      BY <1>1, <3>1 DEF Reader, InUse, Open, Idle
    <3> QED
      BY <3>1, <3>2, <3>3
  <2>2. CASE ~(own.failed \/ locations = <<>>)
    <3>1. /\ file' = Flushed(a)
          /\ adapter' = [adapter EXCEPT ![a].pending = NoWrite, ![a].failed = FALSE]
      BY <1>3, <1>7, <2>2
    <3>2. /\ adapter'[a].pending = NoWrite /\ ~adapter'[a].failed
          /\ adapter'[a].key = own.key
          /\ \A b \in Adapters : Open(b)' <=> Open(b)
      BY <1>1, <3>1, ChangedAdapter DEF Known, IInv
    <3>3. \A b \in Adapters : ~Held(b)'
      BY <1>1, <3>2 DEF Held
    <3>4. Latest' = file' /\ file' = Latest
      BY <1>1, <1>8, <3>1, <3>3, LatestWritten
    <3>5. InUse(a)'
      BY <1>1, <3>2 DEF InUse, Idle
    <3>6. Reader' = Reader
      BY <1>1, <1>9, <2>2, <3>2, <3>5 DEF Known, ReaderKnown
    <3> QED
      BY <3>4, <3>6
  <2> QED
    BY <2>1, <2>2
<1>12. AsOwnerSees(Latest)' = AsOwnerSees(Latest)
  BY <1>1, <1>11 DEF AsOwnerSees
<1>13. AsOwnerSees(file)' \in {AsOwnerSees(file), AsOwnerSees(Latest)}
  BY <1>1, <1>11 DEF AsOwnerSees
<1>14. locations \in Promise!Calls
  BY DEF Promise!Calls
<1>15. Reader # "nobody"
  BY <1>9
<1> QED
  BY <1>1, <1>10, <1>11, <1>12, <1>13, <1>14, <1>15 DEF Promise!Read

(* The promise begins when all is zeroed and the last bucket is still held back. *)
LEMMA CreateRefines ==
  ASSUME Known, Known', SetReturns, owner = NoKey, owner' # NoKey
  PROVE  Promise!Create
<1> DEFINE last == Capacity - 1
<1>1. phase = "zeroes" /\ ~adapter[user].failed /\ UNCHANGED <<file, adapter, answer>>
  BY DEF SetReturns
<1>2. PICK u \in Adapters : u = user
  BY <1>1, Created DEF Known
<1>3. /\ owner' \in Keys /\ Open(u)
      /\ file = [location \in Locations |->
                   IF location < last THEN Encrypted(owner', Zeroed) ELSE Blank]
      /\ adapter[u].pending = <<last, Encrypted(owner', Zeroed)>>
  BY <1>1, <1>2, Created DEF Known
<1>4. last \in Locations
  BY FileConstants DEF Locations
<1>5. \A location \in Locations : location < last \/ location = last
  BY FileConstants DEF Locations
<1>6. adapter[u].pending # NoWrite
  BY <1>3 DEF NoWrite
<1>7. Latest' = [location \in Locations |-> Encrypted(owner', Zeroed)]
  <2>1. Latest' = Flushed(u)'
    BY <1>1, <1>3, <1>6 DEF Known, LatestKnown, Held, Open
  <2>2. Locations \cup 0 .. last = Locations
    BY FileConstants DEF Locations
  <2>3. Flushed(u)' = [location \in Locations |->
                         IF location = last THEN Encrypted(owner', Zeroed) ELSE file[location]]
    BY <1>1, <1>3, <1>6, <2>2 DEF Flushed
  <2> QED
    BY <1>3, <1>5, <2>1, <2>3
<1>8. AsOwnerSees(Latest)' = Promise!New
  BY <1>7 DEF AsOwnerSees, Promise!New, Decrypted, Encrypted
<1>9. AsOwnerSees(file)' = [Promise!New EXCEPT ![last] = Noise]
  <2>1. AsOwnerSees(file)' = [location \in Locations |-> Decrypted(owner', file[location])]
    BY <1>1, <1>3 DEF AsOwnerSees, Decrypted
  <2>2. ASSUME NEW location \in Locations
        PROVE  Decrypted(owner', file[location]) = IF location = last THEN Noise ELSE Zeroed
    <3>1. Encrypted(owner', Zeroed).key = owner' /\ Encrypted(owner', Zeroed).bucket = Zeroed
      BY DEF Encrypted
    <3>2. Blank.key # owner'
      BY DEF Blank, Encrypted
    <3>3. file[location] = IF location < last THEN Encrypted(owner', Zeroed) ELSE Blank
      BY <1>3
    <3>4. location = last <=> ~(location < last)
      BY <1>5, FileConstants DEF Locations
    <3> QED
      BY <3>1, <3>2, <3>3, <3>4 DEF Decrypted
  <2>3. Promise!New = [location \in Locations |-> Zeroed]
    BY DEF Promise!New
  <2> QED
    BY <1>4, <2>1, <2>2, <2>3
<1> QED
  BY <1>1, <1>4, <1>8, <1>9 DEF Promise!Create

LEMMA StepRefines == Known /\ Known' /\ [Next]_vars => [Promise!Next]_Promise!vars
<1> SUFFICES ASSUME Known, Known', [Next]_vars PROVE [Promise!Next]_Promise!vars
  OBVIOUS
<1>1. CASE owner' = NoKey
  BY <1>1 DEF Promise!Next, Promise!Break
<1>2. CASE owner = NoKey /\ owner' # NoKey
  <2>1. SetReturns
    BY <1>2 DEF Next, vars, Create, Reopen, Construct, Set, WritePlaceholders, WriteBucket,
                WriteFails, Get, Destroy, StoreKey, Kill
  <2> QED
    BY <1>2, <2>1, CreateRefines DEF Promise!Next
<1>3. CASE owner # NoKey /\ owner' # NoKey
  <2>1. ASSUME NEW a \in Adapters, Create(a) PROVE FALSE
    BY <1>3, <2>1 DEF Create, Construct
  <2>2. CASE WritePlaceholders
    BY <1>3, <2>2 DEF WritePlaceholders, Known, IInv, Alone
  <2>3. ASSUME NEW a \in Adapters, NEW requests \in Requests, Set(a, requests)
        PROVE  Promise!Change
    BY <1>3, <2>3, BeginningRefines DEF Set
  <2>4. ASSUME NEW a \in Adapters, NEW n \in 0 .. MaxRequests,
               NEW locations \in [1 .. n -> Locations], Get(a, locations)
        PROVE  Promise!Read
    BY <1>3, <2>4, GetRefines
  <2>5. ASSUME NEW a \in Adapters, Reopen(a) \/ Destroy(a) PROVE Promise!Change
    BY <1>3, <2>5, ReopenRefines, DestroyRefines
  <2>6. CASE WriteFails \/ Kill
    BY <1>3, <2>6, WriteFailsRefines, KillRefines DEF Promise!Next
  <2>7. CASE SetReturns \/ StoreKey \/ UNCHANGED vars
    BY <1>3, <2>7, SetReturnsRefines, StoreKeyRefines
  <2>8. CASE WriteBucket
    BY <1>3, <2>8, WriteBucketRefines DEF Promise!Next
  <2> QED
    BY <2>1, <2>2, <2>3, <2>4, <2>5, <2>6, <2>7, <2>8 DEF Next, Promise!Next
<1> QED
  BY <1>1, <1>2, <1>3

-----------------------------------------------------------------------------
(* Whatever the number of buckets, keys and adapters: FileSystemStorageAdapter  *)
(* gives who has the key of a complete file every bucket as it was written last, *)
(* through closing and opening, kills and streams that fail; these lose at most  *)
(* the one bucket that the stream still held back, and nobody else reads any.    *)
THEOREM FileKeepsBuckets == Spec => KeepsBuckets
<1>1. Init => ~(owner # NoKey)
  BY DEF Init
<1>2. IInv => Known
  BY LatestIsKnown, ReaderIsKnown DEF Known
<1> QED
  BY InitInv, StepInv, <1>1, <1>2, StepRefines, PTL DEF Spec, KeepsBuckets, Promise!Spec

=============================================================================
