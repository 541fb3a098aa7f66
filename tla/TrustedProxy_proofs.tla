------------------------- MODULE TrustedProxy_proofs -------------------------
(***************************************************************************)
(* Proofs about TrustedProxy: what its runs make of the share files, for any  *)
(* numbers of shares, generations and kills; and about FileFormats: whatever   *)
(* is written, and in chunks of whatever size, comes back.                   *)
(***************************************************************************)
EXTENDS TrustedProxy, FileFormats, SequenceTheorems, FiniteSetTheorems, TLAPS

Loops == {"readKeys", "readSplits"}

Decrypting ==
  pc \in {"readKeys", "handle_text", "readSplits", "removeCombined", "combine",
          "decrypt", "finish", "exit"}

(* Where a run can be; a loop starts at the first share. *)
TypeOK ==
  /\ key \in ShareFiles /\ splits \in ShareFiles
  /\ Decrypting \/ Idle
  /\ share \in Shares
  /\ pc \notin Loops => share = 1
  /\ begun.key \in ShareFiles /\ begun.splits \in ShareFiles
  /\ Decrypting => begun.decrypts

LEMMA SharesType == Shares = 1 .. nSharesTotal /\ nSharesTotal \in Nat /\ 1 \in Shares
BY ShareAssumption DEF Shares

(* One more share in a loop, or the first one of the next. *)
LEMMA EachShareType ==
  ASSUME NEW at, NEW to, EachShare(at, to), share \in Shares
  PROVE  /\ pc = at
         /\ share' \in Shares
         /\ \/ share < nSharesTotal /\ share' = share + 1 /\ pc' = at
            \/ share = nSharesTotal /\ share' = 1 /\ pc' = to
BY SharesType DEF EachShare

LEMMA InitType == Init => TypeOK
BY SharesType DEF Init, TypeOK, Idle, Decrypting, ShareFiles

LEMMA BeginType ==
  ASSUME TypeOK, Begin
  PROVE  TypeOK'
<1>1. share = 1
  BY DEF TypeOK, Begin, Idle, Loops
<1> QED
  BY <1>1 DEF TypeOK, Begin, Idle, Decrypting, Loops

LEMMA ExchangeType ==
  ASSUME TypeOK, Exchange
  PROVE  TypeOK'
<1>1. ASSUME NEW i \in Shares, NEW contents \in Generations \cup {NoFile, Cut},
             NEW file \in ShareFiles
      PROVE  [file EXCEPT ![i] = contents] \in ShareFiles
  BY DEF ShareFiles
<1>2. key' \in ShareFiles /\ splits' \in ShareFiles
  BY <1>1 DEF TypeOK, Exchange, Replaced
<1>3. share = 1
  BY DEF TypeOK, Exchange, Idle, Loops
<1> QED
  BY <1>2, <1>3 DEF TypeOK, Exchange, Idle, Decrypting

LEMMA DecryptLoopType ==
  ASSUME TypeOK, ReadKey \/ ReadSplit
  PROVE  TypeOK'
<1>1. \A file \in ShareFiles : [file EXCEPT ![share] = NoFile] \in ShareFiles
  BY DEF ShareFiles
<1>2. Decrypting
  BY DEF ReadKey, ReadSplit, EachShare, Decrypting
<1>3. begun.decrypts
  BY <1>2 DEF TypeOK
<1>4. key' \in ShareFiles /\ splits' \in ShareFiles
  BY <1>1 DEF TypeOK, ReadKey, ReadSplit
<1>5. /\ begun' = begun
      /\ share' \in Shares
      /\ Decrypting' \/ Idle'
      /\ pc' \notin Loops => share' = 1
  BY EachShareType DEF TypeOK, ReadKey, ReadSplit, Decrypting, Idle, Loops
<1> QED
  BY <1>3, <1>4, <1>5 DEF TypeOK

(* The steps outside of loops. *)
LEMMA StraightType ==
  ASSUME TypeOK,
         \/ HandleText \/ HeaderUnusable \/ RemoveCombined \/ Combine
         \/ DecryptSecretSharedData \/ DecryptMismatch \/ DecryptNothing \/ Finish \/ Exit
  PROVE  TypeOK'
<1>1. CASE HandleText \/ HeaderUnusable
  BY <1>1 DEF HandleText, HeaderUnusable, Step, files, TypeOK, Decrypting, Idle, Loops
<1>2. CASE RemoveCombined \/ Combine \/ Finish \/ Exit
  BY <1>2 DEF RemoveCombined, Combine, Finish, Exit, Step, TypeOK, Decrypting, Idle, Loops
<1>3. CASE DecryptSecretSharedData \/ DecryptMismatch \/ DecryptNothing
  BY <1>3 DEF DecryptSecretSharedData, DecryptMismatch, DecryptNothing, Step, TypeOK,
              Decrypting, Idle, Loops
<1> QED
  BY <1>1, <1>2, <1>3

LEMMA KilledType ==
  ASSUME TypeOK, Killed
  PROVE  TypeOK'
<1>1. key' = key /\ splits' = splits
  BY DEF Killed, CutShort, files
<1> QED
  BY <1>1, SharesType DEF Killed, TypeOK, Decrypting, Idle

LEMMA StepType == TypeOK /\ [Next]_vars => TypeOK'
<1> SUFFICES ASSUME TypeOK, [Next]_vars PROVE TypeOK'
  OBVIOUS
<1>1. CASE Next
  BY <1>1, BeginType, ExchangeType, DecryptLoopType, StraightType, KilledType DEF Next
<1>2. CASE UNCHANGED vars
  BY <1>2 DEF vars, files, TypeOK, Decrypting, Idle, Loops
<1> QED
  BY <1>1, <1>2

-----------------------------------------------------------------------------
(* Too few data files *)

(* Where a run that began with too few data files can be. *)
ShortageSeen ==
  begun.decrypts /\ Cardinality(Present(begun.splits)) < minShares =>
    /\ splits = begun.splits
    /\ pc \in {"readKeys", "handle_text", "decrypt", "finish", "exit", "returned", "killed"}

LEMMA StepShortage == ShortageSeen /\ [Next]_vars => ShortageSeen'
<1> SUFFICES ASSUME ShortageSeen, [Next]_vars,
                    begun'.decrypts, Cardinality(Present(begun'.splits)) < minShares
             PROVE  /\ splits' = begun'.splits
                    /\ pc' \in {"readKeys", "handle_text", "decrypt", "finish", "exit",
                                "returned", "killed"}
  BY DEF ShortageSeen
<1>1. CASE Begin
  BY <1>1 DEF Begin
<1>2. CASE Exchange
  BY <1>2 DEF Exchange
<1> SUFFICES ASSUME UNCHANGED begun PROVE
                    /\ splits' = begun'.splits
                    /\ pc' \in {"readKeys", "handle_text", "decrypt", "finish", "exit",
                                "returned", "killed"}
  BY <1>1, <1>2
     DEF Next, ReadKey, HandleText, HeaderUnusable, ReadSplit, RemoveCombined, Combine,
         DecryptSecretSharedData, DecryptMismatch, DecryptNothing, Finish, Exit, Killed, vars
<1>3. /\ splits = begun.splits
      /\ Cardinality(Present(splits)) < minShares
      /\ pc \in {"readKeys", "handle_text", "decrypt", "finish", "exit", "returned", "killed"}
  BY DEF ShortageSeen, Present
<1>4. CASE ReadKey
  BY <1>3, <1>4 DEF ReadKey, EachShare
<1>5. CASE HandleText \/ HeaderUnusable
  BY <1>3, <1>5 DEF HandleText, HeaderUnusable, Step, files
<1>6. CASE DecryptSecretSharedData \/ DecryptMismatch \/ DecryptNothing \/ Finish \/ Exit
  BY <1>3, <1>6
     DEF DecryptSecretSharedData, DecryptMismatch, DecryptNothing, Finish, Exit, Step
<1>7. CASE Killed
  BY <1>3, <1>7 DEF Killed, CutShort, files
<1>8. CASE UNCHANGED vars
  BY <1>3, <1>8 DEF vars, files
<1> QED
  BY <1>1, <1>2, <1>3, <1>4, <1>5, <1>6, <1>7, <1>8
     DEF Next, ReadSplit, RemoveCombined, Combine, Step, EachShare

(* For any number of shares: handle_text counts the data files before it      *)
(* takes them away, so that a run that has too few leaves them.               *)
THEOREM ShortageLeavesData == Spec => []ShortageKeepsData
<1>1. Init => ShortageSeen
  BY DEF Init, ShortageSeen
<1>2. ShortageSeen => ShortageKeepsData
  BY DEF ShortageSeen, ShortageKeepsData
<1> QED
  BY <1>1, StepShortage, <1>2, PTL DEF Spec

-----------------------------------------------------------------------------
(* What a run makes of enough shares *)

(* Enough shares of one generation were there when the run began. *)
Enough(g) ==
  begun.decrypts /\ Sufficient(begun.key, g) /\ Sufficient(begun.splits, g)

PresentBelow(shareFiles, n) == {i \in Shares : i < n /\ shareFiles[i] # NoFile}

(* What a loop over these files has found: one content, once for each file.   *)
FoundSoFar(shareFiles, g) ==
  /\ found \in Seq({g})
  /\ Len(found) = Cardinality(PresentBelow(shareFiles, share))

(* The files that a loop has not come to yet are as they were. *)
Unread(shareFiles, atBegin) == \A i \in Shares : i >= share => shareFiles[i] = atBegin[i]

(* How far the file of generation g is restored. *)
Restoring(g) ==
  Enough(g) =>
    /\ pc = "readKeys" => FoundSoFar(begun.key, g) /\ Unread(key, begun.key)
    /\ pc \in {"readKeys", "handle_text"} => splits = begun.splits
    /\ pc = "handle_text" => found = <<>>
    /\ pc = "readSplits" => FoundSoFar(begun.splits, g) /\ Unread(splits, begun.splits)
    /\ pc \in {"removeCombined", "combine"} => Restored(found) = g
    /\ pc = "combine" => combined = <<>>
    /\ pc = "decrypt" => combined = <<g>>
    /\ pc \in {"handle_text", "readSplits", "removeCombined", "combine", "decrypt",
               "finish", "exit"} => secret = g
    /\ pc = "returned" => output = g

LEMMA FiniteBelow ==
  ASSUME NEW file, NEW n
  PROVE  IsFiniteSet(PresentBelow(file, n)) /\ Cardinality(PresentBelow(file, n)) \in Nat
<1>1. IsFiniteSet(Shares)
  BY SharesType, FS_Interval
<1>2. PresentBelow(file, n) \in SUBSET Shares
  BY DEF PresentBelow
<1>3. IsFiniteSet(PresentBelow(file, n))
  BY <1>1, <1>2, FS_Subset
<1> QED
  BY <1>3, FS_CardinalityType

LEMMA NothingBelow ==
  ASSUME NEW file
  PROVE  Cardinality(PresentBelow(file, 1)) = 0
<1>1. PresentBelow(file, 1) = {}
  BY SharesType DEF PresentBelow
<1> QED
  BY <1>1, FS_EmptySet

(* One share more, if its file is there. *)
LEMMA FoundNext ==
  ASSUME NEW file, NEW g, Sufficient(file, g), FoundSoFar(file, g), share \in Shares
  PROVE  /\ FoundWith(file[share]) \in Seq({g})
         /\ Len(FoundWith(file[share])) = Cardinality(PresentBelow(file, share + 1))
<1>1. CASE file[share] = NoFile
  <2>1. PresentBelow(file, share + 1) = PresentBelow(file, share)
    BY <1>1, SharesType DEF PresentBelow
  <2> QED
    BY <1>1, <2>1 DEF FoundWith, FoundSoFar
<1>2. CASE file[share] # NoFile
  <2>1. PresentBelow(file, share + 1) = PresentBelow(file, share) \cup {share}
    BY <1>2, SharesType DEF PresentBelow
  <2>2. share \notin PresentBelow(file, share)
    BY SharesType DEF PresentBelow
  <2>3. Cardinality(PresentBelow(file, share + 1)) = Cardinality(PresentBelow(file, share)) + 1
    BY <2>1, <2>2, FiniteBelow, FS_AddElement
  <2>4. file[share] = g
    BY <1>2 DEF Sufficient, Present
  <2> QED
    BY <1>2, <2>3, <2>4 DEF FoundWith, FoundSoFar
<1> QED
  BY <1>1, <1>2

(* At the last share a loop has found enough to restore what they hold. *)
LEMMA FoundAll ==
  ASSUME NEW file, NEW g \in Generations, Sufficient(file, g), FoundSoFar(file, g),
         share = nSharesTotal
  PROVE  /\ Len(FoundWith(file[share])) >= minShares
         /\ Restored(FoundWith(file[share])) = g
<1>1. share \in Shares
  BY SharesType, ShareAssumption DEF Shares
<1>2. PresentBelow(file, share + 1) = Present(file)
  BY SharesType DEF PresentBelow, Present
<1> DEFINE now == FoundWith(file[share])
<1>3. now \in Seq({g}) /\ Len(now) = Cardinality(Present(file))
  BY <1>1, <1>2, FoundNext
<1>4. Len(now) >= minShares
  BY <1>3 DEF Sufficient
<1>5. now # <<>> /\ now[1] = g /\ \A i \in DOMAIN now : now[i] = g
  BY <1>3, <1>4, ShareAssumption
<1> HIDE DEF now
<1>6. Restored(now) = g
  BY <1>5 DEF Restored
<1> QED
  BY <1>4, <1>6 DEF now

LEMMA StepRestoring ==
  ASSUME TypeOK, NEW g \in Generations, Restoring(g), [Next]_vars
  PROVE  Restoring(g)'
<1> SUFFICES ASSUME Enough(g)' PROVE Restoring(g)'
  BY DEF Restoring
<1>1. CASE Begin
  <2>1. /\ pc' = "readKeys" /\ found' = <<>> /\ UNCHANGED <<key, splits, share>>
        /\ begun'.key = key /\ begun'.splits = splits
    BY <1>1 DEF Begin
  <2>2. share = 1
    BY <1>1 DEF Begin, TypeOK, Idle, Loops
  <2>3. FoundSoFar(begun.key, g)'
    BY <2>1, <2>2, NothingBelow DEF FoundSoFar, PresentBelow
  <2> QED
    BY <2>1, <2>3 DEF Restoring, Unread
<1>2. CASE Exchange
  BY <1>2 DEF Exchange, Enough
<1>3. CASE UNCHANGED vars
  BY <1>3 DEF vars, files, locals, Restoring, Enough, FoundSoFar, PresentBelow, Unread
<1> SUFFICES ASSUME UNCHANGED begun, Next PROVE Restoring(g)'
  BY <1>1, <1>2, <1>3
     DEF Next, ReadKey, HandleText, HeaderUnusable, ReadSplit, RemoveCombined, Combine,
         DecryptSecretSharedData, DecryptMismatch, DecryptNothing, Finish, Exit, Killed
<1>4. Enough(g)
  BY DEF Enough, Sufficient, Present
<1>5. secret = g => secret # Garbage
  BY ShareAssumption
<1>6. CASE ReadKey
  <2>1. /\ pc = "readKeys" /\ FoundSoFar(begun.key, g) /\ key[share] = begun.key[share]
        /\ splits' = begun'.splits
    BY <1>4, <1>6, SharesType DEF ReadKey, EachShare, Restoring, Unread, TypeOK
  <2>2. CASE share < nSharesTotal
    <3>1. pc' = "readKeys" /\ share' = share + 1 /\ found' = FoundWith(begun.key[share])
      BY <1>6, <2>1, <2>2, SharesType DEF ReadKey, EachShare, TypeOK
    <3>2. FoundSoFar(begun.key, g)'
      BY <1>4, <2>1, <3>1, FoundNext DEF FoundSoFar, PresentBelow, Enough, TypeOK
    <3>3. Unread(key, begun.key)'
      <4>1. \A i \in Shares : i >= share + 1 => i >= share /\ key'[i] = key[i]
        BY <1>6, SharesType DEF ReadKey, TypeOK, ShareFiles
      <4> QED
        BY <1>4, <2>1, <3>1, <4>1 DEF Unread, Restoring
    <3> QED
      BY <2>1, <3>1, <3>2, <3>3 DEF Restoring
  <2>3. CASE ~ share < nSharesTotal
    <3>1. share = nSharesTotal
      BY <2>3, SharesType DEF TypeOK
    <3>2. /\ Len(FoundWith(key[share])) >= minShares
          /\ Restored(FoundWith(key[share])) = g
      BY <1>4, <2>1, <3>1, FoundAll DEF Enough
    <3>3. Len(FoundWith(key[share])) \in Nat /\ minShares \in Nat
      BY <1>4, <2>1, FoundNext, ShareAssumption DEF Enough, TypeOK
    <3>4. pc' = "handle_text" /\ secret' = g /\ found' = <<>>
      BY <1>6, <2>3, <3>1, <3>2, <3>3 DEF ReadKey, EachShare
    <3> QED
      BY <2>1, <3>4 DEF Restoring
  <2> QED
    BY <2>2, <2>3
<1>7. CASE HandleText
  <2>1. /\ pc = "handle_text" /\ splits = begun.splits /\ found = <<>> /\ secret = g
        /\ UNCHANGED <<splits, found, secret, share>>
    BY <1>4, <1>7 DEF HandleText, Step, Restoring, files, locals
  <2>2. Cardinality(Present(splits)) >= minShares /\ Cardinality(Present(splits)) \in Nat
    <3>1. IsFiniteSet(Shares) /\ Present(splits) \in SUBSET Shares
      BY SharesType, FS_Interval DEF Present
    <3>2. Cardinality(Present(splits)) \in Nat
      BY <3>1, FS_Subset, FS_CardinalityType
    <3> QED
      BY <1>4, <2>1, <3>2 DEF Enough, Sufficient
  <2>3. pc' = "readSplits"
    BY <1>7, <2>2, ShareAssumption DEF HandleText, Step
  <2>4. share = 1
    BY <2>1 DEF TypeOK, Loops
  <2>5. FoundSoFar(begun.splits, g)'
    BY <2>1, <2>4, NothingBelow DEF FoundSoFar, PresentBelow
  <2> QED
    BY <2>1, <2>3, <2>5 DEF Restoring, Unread
<1>8. CASE ReadSplit
  <2>1. /\ pc = "readSplits" /\ FoundSoFar(begun.splits, g)
        /\ splits[share] = begun.splits[share]
        /\ secret' = g /\ found' = FoundWith(begun.splits[share])
    BY <1>4, <1>8, SharesType DEF ReadSplit, EachShare, Restoring, Unread, TypeOK
  <2>2. CASE share < nSharesTotal
    <3>1. pc' = "readSplits" /\ share' = share + 1
      BY <1>8, <2>1, <2>2 DEF ReadSplit, EachShare
    <3>2. FoundSoFar(begun.splits, g)'
      BY <1>4, <2>1, <3>1, FoundNext DEF FoundSoFar, PresentBelow, Enough, TypeOK
    <3>3. Unread(splits, begun.splits)'
      <4>1. \A i \in Shares : i >= share + 1 => i >= share /\ splits'[i] = splits[i]
        BY <1>8, SharesType DEF ReadSplit, TypeOK, ShareFiles
      <4> QED
        BY <1>4, <2>1, <3>1, <4>1 DEF Unread, Restoring
    <3> QED
      BY <2>1, <3>1, <3>2, <3>3 DEF Restoring
  <2>3. CASE ~ share < nSharesTotal
    <3>1. share = nSharesTotal
      BY <2>3, SharesType DEF TypeOK
    <3>2. Restored(found') = g
      BY <1>4, <2>1, <3>1, FoundAll DEF Enough
    <3>3. Restored(found)' = g
      BY <3>2 DEF Restored
    <3>4. pc' = "removeCombined"
      BY <1>8, <2>3 DEF ReadSplit, EachShare
    <3> QED
      BY <2>1, <3>3, <3>4 DEF Restoring
  <2> QED
    BY <2>2, <2>3
<1>9. CASE RemoveCombined
  BY <1>4, <1>9 DEF RemoveCombined, Step, Restoring, locals, Restored
<1>10. CASE Combine
  <2>1. combined' = <<g>> /\ secret' = g /\ pc' = "decrypt"
    BY <1>4, <1>10 DEF Combine, Step, Restoring
  <2> QED
    BY <2>1 DEF Restoring
<1>11. CASE DecryptSecretSharedData \/ Finish \/ Exit
  BY <1>4, <1>5, <1>11
     DEF DecryptSecretSharedData, Finish, Exit, Step, Restoring, locals
<1>12. CASE DecryptMismatch \/ DecryptNothing
  BY <1>4, <1>5, <1>12 DEF DecryptMismatch, DecryptNothing, Step, Restoring
<1>13. CASE HeaderUnusable \/ Killed
  BY <1>13 DEF HeaderUnusable, Killed, Step, Restoring
<1> QED
  BY <1>1, <1>2, <1>6, <1>7, <1>8, <1>9, <1>10, <1>11, <1>12, <1>13 DEF Next

(* For any number of shares, generations and kills: if at least minShares key *)
(* files and data files are there when a run starts, and all that are there    *)
(* belong to one encryption, it ends with the file that was encrypted,       *)
(* whatever earlier runs have left in the directory.                        *)
THEOREM EnoughSharesSuffice == Spec => []EnoughSharesRecover
<1> DEFINE All == \A g \in Generations : Restoring(g)
<1>1. Init => All
  BY DEF Init, Restoring, Enough
<1>2. TypeOK /\ All /\ [Next]_vars => All'
  BY StepRestoring
<1>3. All => EnoughSharesRecover
  BY DEF EnoughSharesRecover, Restoring, Enough
<1> HIDE DEF All
<1>4. Spec => [](TypeOK /\ All)
  BY InitType, StepType, <1>1, <1>2, PTL DEF Spec
<1> QED
  BY <1>3, <1>4, PTL

-----------------------------------------------------------------------------
(* The formats *)

(* What dividing gives, and that nothing else does. *)
LEMMA Division ==
  ASSUME NEW d \in Nat \ {0}
  PROVE  /\ \A x \in Nat : /\ x \div d \in Nat /\ x % d \in 0 .. d - 1
                           /\ x = (x \div d) * d + (x % d)
         /\ \A q \in Nat, r \in 0 .. d - 1 : (q * d + r) \div d = q /\ (q * d + r) % d = r
  OBVIOUS

(* Whole numbers of pieces fit into a length in as many ways as it is divided. *)
LEMMA Pieces ==
  ASSUME NEW d \in Nat \ {0}, NEW n \in Nat, NEW i \in 1 .. n * d
  PROVE  /\ ((i - 1) \div d) + 1 \in 1 .. n
         /\ ((i - 1) % d) + 1 \in 1 .. d
         /\ ((i - 1) \div d) * d + 1 \in Nat \ {0}
         /\ (((i - 1) \div d) + 1) * d \in Nat /\ (((i - 1) \div d) + 1) * d <= n * d
         /\ (((i - 1) \div d) + 1) * d = ((i - 1) \div d) * d + d
         /\ i = ((i - 1) \div d) * d + (((i - 1) % d) + 1)
<1> DEFINE q == (i - 1) \div d
           r == (i - 1) % d
<1>1. n * d \in Nat /\ i \in Nat /\ i - 1 \in Nat
  OBVIOUS
<1>2. q \in Nat /\ r \in 0 .. d - 1 /\ i - 1 = q * d + r
  BY <1>1, Division
<1> HIDE DEF q, r
<1>3. q * d < n * d /\ q * d \in Nat
  BY <1>1, <1>2
<1>4. q < n
  <2> SUFFICES ASSUME n <= q PROVE n * d <= q * d
    BY <1>1, <1>2, <1>3
  <2>1. q - n \in Nat
    BY <1>2
  <2>2. (q - n) * d >= 0 /\ (q - n) * d = q * d - n * d
    BY <1>2, <2>1
  <2> QED
    BY <1>1, <1>3, <2>2
<1>5. (q + 1) * d <= n * d /\ (q + 1) * d = q * d + d
  <2>1. n - (q + 1) \in Nat
    BY <1>2, <1>4
  <2>2. (n - (q + 1)) * d >= 0 /\ (n - (q + 1)) * d = n * d - (q * d + d)
    BY <1>2, <2>1
  <2> QED
    BY <1>1, <1>2, <1>3, <2>2
<1> QED
  BY <1>1, <1>2, <1>3, <1>4, <1>5 DEF q, r

(* A sequence in front of others, and what is left without it. *)
LEMMA HeaderOff ==
  ASSUME NEW S, NEW chunks \in Seq(S), NEW h
  PROVE  /\ (<<h>> \o chunks)[1] = h
         /\ Tail(<<h>> \o chunks) = chunks
         /\ Len(<<h>> \o chunks) = Len(chunks) + 1
         /\ <<h>> \o chunks # <<>>
<1> DEFINE T == S \cup {h}
           all == <<h>> \o chunks
<1>1. all \in Seq(T) /\ Len(all) = Len(chunks) + 1
  OBVIOUS
<1>2. all[1] = h /\ \A i \in 1 .. Len(chunks) : all[i + 1] = chunks[i]
  OBVIOUS
<1>3. all # <<>>
  BY <1>1
<1>4. Tail(all) = chunks
  <2>1. /\ Tail(all) \in Seq(T) /\ Len(Tail(all)) = Len(chunks)
        /\ \A i \in 1 .. Len(Tail(all)) : Tail(all)[i] = all[i + 1]
    <3> HIDE DEF all
    <3> QED
      BY <1>1, <1>3, HeadTailProperties
  <2>2. chunks \in Seq(T)
    OBVIOUS
  <2> HIDE DEF all, T
  <2>3. \A i \in 1 .. Len(chunks) : Tail(all)[i] = chunks[i]
    BY <1>2, <2>1
  <2> QED
    BY <2>1, <2>2, <2>3, SeqEqual
<1> QED
  BY <1>1, <1>2, <1>3, <1>4

(* Bytes that are cut into chunks are there again when these are joined. *)
LEMMA ChunksJoined ==
  ASSUME NEW S, NEW bytes \in Seq(S)
  PROVE  LET n == Len(bytes) \div ChunkBytes
         IN  /\ n \in Nat /\ n * ChunkBytes \in Nat /\ n * ChunkBytes <= Len(bytes)
             /\ ChunksOf(bytes) \in Seq(Seq(S)) /\ Len(ChunksOf(bytes)) = n
             /\ BytesOf(ChunksOf(bytes)) \in Seq(S)
             /\ Len(BytesOf(ChunksOf(bytes))) = n * ChunkBytes
             /\ \A i \in 1 .. n * ChunkBytes : BytesOf(ChunksOf(bytes))[i] = bytes[i]
<1> DEFINE d == ChunkBytes
           n == Len(bytes) \div d
           chunks == ChunksOf(bytes)
           chunk(j) == SubSeq(bytes, (j - 1) * d + 1, j * d)
<1>1. d \in Nat \ {0}
  BY ChunkAssumption
<1>2. n \in Nat /\ n * d \in Nat /\ n * d <= Len(bytes)
  <2>1. Len(bytes) \in Nat
    OBVIOUS
  <2>2. n \in Nat /\ Len(bytes) % d \in 0 .. d - 1 /\ Len(bytes) = n * d + (Len(bytes) % d)
    BY <1>1, <2>1, Division
  <2> HIDE DEF n, d
  <2> QED
    BY <1>1, <2>1, <2>2
<1>3. chunks = [j \in 1 .. n |-> chunk(j)]
  BY DEF ChunksOf
<1>4. ASSUME NEW j \in 1 .. n
      PROVE  /\ chunk(j) \in Seq(S)
             /\ \A r \in 1 .. d : chunk(j)[r] = bytes[(j - 1) * d + r]
  <2> HIDE DEF n
  <2>1. (j - 1) * d \in Nat /\ j * d = (j - 1) * d + d /\ j * d <= n * d
    <3>1. j - 1 \in Nat /\ n - j \in Nat
      BY <1>2
    <3>2. (n - j) * d >= 0 /\ (n - j) * d = n * d - j * d
      BY <1>1, <1>2, <3>1
    <3> QED
      BY <1>1, <1>2, <3>1, <3>2
  <2> DEFINE a == (j - 1) * d + 1
             b == j * d
  <2>2. a \in Int /\ b \in Int /\ a \in Nat \ {0} /\ b <= Len(bytes) /\ b - a + 1 = d
    BY <1>1, <1>2, <2>1
  <2> HIDE DEF a, b
  <2>3. \A i \in a .. b : bytes[i] \in S
    BY <2>2
  <2>4. /\ SubSeq(bytes, a, b) \in Seq(S)
        /\ \A i \in 1 .. b - a + 1 : SubSeq(bytes, a, b)[i] = bytes[a + i - 1]
    BY <2>2, <2>3, SubSeqProperties
  <2>5. \A r \in 1 .. d : a + r - 1 = (j - 1) * d + r
    BY <2>1, <1>1 DEF a
  <2> QED
    BY <2>2, <2>4, <2>5 DEF a, b
<1> HIDE DEF n, chunk
<1>5. chunks \in Seq(Seq(S)) /\ Len(chunks) = n
  <2> DEFINE T == Seq(S)
  <2>1. \A j \in 1 .. n : chunk(j) \in T
    BY <1>4
  <2> HIDE DEF T, chunks
  <2>2. chunks \in [1 .. n -> T]
    BY <1>3, <2>1
  <2>3. chunks \in Seq(T) /\ Len(chunks) = n
    BY <1>2, <2>2
  <2> QED
    BY <2>3 DEF T
<1>6. BytesOf(chunks)
        = [i \in 1 .. n * d |-> chunks[((i - 1) \div d) + 1][((i - 1) % d) + 1]]
  BY <1>5 DEF BytesOf
<1>7. ASSUME NEW i \in 1 .. n * d
      PROVE  /\ chunks[((i - 1) \div d) + 1][((i - 1) % d) + 1] = bytes[i]
             /\ bytes[i] \in S
  <2> DEFINE j == ((i - 1) \div d) + 1
             r == ((i - 1) % d) + 1
  <2>1. j \in 1 .. n /\ r \in 1 .. d /\ i = ((i - 1) \div d) * d + r
    BY <1>1, <1>2, Pieces
  <2>2. j - 1 = (i - 1) \div d
    <3>1. (i - 1) \div d \in Int
      BY <1>1, <1>2
    <3> QED
      BY <3>1
  <2>3. i = (j - 1) * d + r
    BY <2>1, <2>2
  <2> HIDE DEF j, r
  <2>4. chunks[j][r] = bytes[i]
    BY <1>3, <1>4, <2>1, <2>3
  <2>5. i \in 1 .. Len(bytes)
    BY <1>2
  <2> QED
    BY <2>4, <2>5 DEF j, r
<1> HIDE DEF chunks, d
<1>8. BytesOf(chunks) \in Seq(S) /\ Len(BytesOf(chunks)) = n * d
      /\ \A i \in 1 .. n * d : BytesOf(chunks)[i] = bytes[i]
  <2> DEFINE f == [i \in 1 .. n * d |-> chunks[((i - 1) \div d) + 1][((i - 1) % d) + 1]]
  <2>1. \A i \in 1 .. n * d : f[i] = bytes[i] /\ f[i] \in S
    BY <1>7
  <2>2. f \in [1 .. n * d -> S]
    BY <1>7
  <2> HIDE DEF f
  <2>3. f \in Seq(S) /\ Len(f) = n * d
    BY <1>2, <2>2
  <2> QED
    BY <1>6, <2>1, <2>3 DEF f
<1> QED
  BY <1>2, <1>5, <1>8 DEF n, chunks, d

(* What handle_text makes of a header and the chunks of some bytes: as many of  *)
(* them as the header says.                                                  *)
LEMMA TextHandled ==
  ASSUME NEW S, NEW bytes \in Seq(S), NEW header, header.tot_sz \in Nat, header.emptyct \in Nat,
         NEW n \in Nat, n = Len(bytes) \div ChunkBytes, header.tot_sz <= n * ChunkBytes,
         n <= (header.emptyct + header.tot_sz) \div ChunkBytes
  PROVE  /\ handle_text(<<header>> \o ChunksOf(bytes)) \in Seq(S)
         /\ Len(handle_text(<<header>> \o ChunksOf(bytes))) = header.tot_sz
         /\ \A i \in 1 .. header.tot_sz : handle_text(<<header>> \o ChunksOf(bytes))[i] = bytes[i]
<1> DEFINE chunks == ChunksOf(bytes)
           numbers == <<header>> \o chunks
           blocks == (header.emptyct + header.tot_sz) \div ChunkBytes
           there == IF blocks < Len(numbers) THEN blocks ELSE Len(numbers) - 1
           size == header.tot_sz
<1>1. /\ chunks \in Seq(Seq(S)) /\ Len(chunks) = n
      /\ BytesOf(chunks) \in Seq(S) /\ Len(BytesOf(chunks)) = n * ChunkBytes
      /\ \A i \in 1 .. n * ChunkBytes : BytesOf(chunks)[i] = bytes[i]
  BY ChunksJoined
<1>2. numbers[1] = header /\ Tail(numbers) = chunks /\ Len(numbers) = n + 1
  <2> DEFINE T == Seq(S)
  <2>1. chunks \in Seq(T)
    BY <1>1
  <2> HIDE DEF T, chunks
  <2> QED
    BY <1>1, <2>1, HeaderOff
<1>3. there = n
  <2>1. blocks \in Int
    <3>1. header.emptyct + header.tot_sz \in Int /\ ChunkBytes \in Nat \ {0}
      BY ChunkAssumption
    <3> QED
      BY <3>1
  <2> HIDE DEF blocks, numbers
  <2> QED
    BY <1>2, <2>1 DEF blocks
<1>4. SubSeq(Tail(numbers), 1, there) = chunks
  <2> DEFINE T == Seq(S)
  <2>1. chunks \in Seq(T)
    BY <1>1
  <2> HIDE DEF T, chunks, there, numbers
  <2> QED
    BY <1>1, <1>2, <1>3, <2>1, SubSeqFull
<1>5. handle_text(numbers) = SubSeq(BytesOf(chunks), 1, size)
  <2> HIDE DEF numbers, chunks
  <2> QED
    BY <1>2, <1>4 DEF handle_text, there, blocks
<1> DEFINE joined == BytesOf(chunks)
<1>6. 1 \in Int /\ size \in Int /\ \A i \in 1 .. size : joined[i] \in S /\ joined[i] = bytes[i]
  <2>1. \A i \in 1 .. size : i \in 1 .. n * ChunkBytes
    <3>1. n * ChunkBytes \in Nat
      BY ChunkAssumption
    <3> QED
      BY <3>1
  <2> HIDE DEF joined, chunks
  <2> QED
    BY <1>1, <2>1 DEF joined
<1>7. /\ SubSeq(joined, 1, size) \in Seq(S)
      /\ Len(SubSeq(joined, 1, size)) = size
      /\ \A i \in 1 .. size : SubSeq(joined, 1, size)[i] = joined[i]
  <2> HIDE DEF joined
  <2>1. /\ SubSeq(joined, 1, size) \in Seq(S)
        /\ Len(SubSeq(joined, 1, size)) = IF 1 <= size THEN size - 1 + 1 ELSE 0
        /\ \A i \in 1 .. size - 1 + 1 : SubSeq(joined, 1, size)[i] = joined[1 + i - 1]
    BY <1>6, SubSeqProperties
  <2>2. size - 1 + 1 = size /\ \A i \in 1 .. size : 1 + i - 1 = i
    BY <1>6
  <2> QED
    BY <2>1, <2>2
<1> HIDE DEF joined, size
<1> QED
  BY <1>5, <1>6, <1>7 DEF joined, size

(* Full buffers hold whole chunks: what is left of a file after its buffers     *)
(* ends in a chunk where the file does.                                       *)
LEMMA WholeChunks ==
  ASSUME NEW size \in Nat
  PROVE  LET remaining == size % BufferBytes
         IN  /\ remaining \in 0 .. BufferBytes - 1
             /\ \E full \in Nat : size = full * ChunkBytes + remaining
             /\ \E room \in Nat : BufferBytes = room * ChunkBytes
<1> DEFINE d == ChunkBytes
           B == BufferBytes
           room == B \div d
           q == size \div B
<1>1. d \in Nat \ {0} /\ B \in Nat \ {0} /\ B % d = 0
  BY ChunkAssumption
<1>2. room \in Nat /\ B = room * d + (B % d)
  BY <1>1, Division
<1>3. q \in Nat /\ size % B \in 0 .. B - 1 /\ size = q * B + (size % B)
  BY <1>1, Division
<1>4. B = room * d
  <2> HIDE DEF room
  <2> QED
    BY <1>1, <1>2
<1> HIDE DEF room, q, d, B
<1>5. q * room \in Nat /\ q * B = (q * room) * d
  BY <1>1, <1>2, <1>3, <1>4
<1> QED
  BY <1>2, <1>3, <1>4, <1>5 DEF d, B

(* A file comes back from its numbers, unless these are none. *)
LEMMA FileComesBack ==
  ASSUME NEW S, NEW file \in Seq(S), NEW ct_empty \in EmptyCounts(Len(file))
  PROVE  IF read_file(file, ct_empty) = Crashes THEN Len(file) % ChunkBytes = 0
         ELSE handle_text(read_file(file, ct_empty)) = file
<1> DEFINE d == ChunkBytes
           N == Len(file)
           remaining == N % BufferBytes
           size == remaining + ct_empty
           header == [tot_sz |-> N, csum |-> CHECK_SUM, emptyct |-> ct_empty]
<1>1. d \in Nat \ {0} /\ BufferBytes \in Nat \ {0} /\ N \in Nat
  BY ChunkAssumption
<1>2. N % d \in 0 .. d - 1
  BY <1>1, Division
<1>3. ct_empty \in Nat /\ (N % d # 0 => ct_empty = d - (N % d))
  <2> HIDE DEF d, N
  <2>1. ct_empty \in IF N % d # 0 THEN {d - (N % d)} ELSE 0 .. MaxByte
    BY DEF EmptyCounts, d, N
  <2> QED
    BY <1>1, <1>2, <2>1, ChunkAssumption
<1>4. /\ remaining \in 0 .. BufferBytes - 1
      /\ \E full \in Nat : N = full * d + remaining
      /\ \E room \in Nat : BufferBytes = room * d
  BY <1>1, WholeChunks
<1>5. PICK full \in Nat : N = full * d + remaining
  BY <1>4
<1>6. PICK room \in Nat : BufferBytes = room * d
  BY <1>4
<1>7. header.tot_sz = N /\ header.emptyct = ct_empty
  OBVIOUS
<1>8. read_file(file, ct_empty)
        = IF remaining = 0 THEN <<header>> \o ChunksOf(file)
          ELSE IF size % d # 0 \/ size > BufferBytes THEN Crashes
          ELSE <<header>> \o ChunksOf(file \o Zeros(ct_empty))
  BY DEF read_file
<1>9. \A k \in Nat : (k * d) \div d = k /\ (k * d) % d = 0
  <2>1. \A k \in Nat : k * d + 0 = k * d
    BY <1>1
  <2>2. 0 \in 0 .. d - 1
    BY <1>1
  <2>3. \A k \in Nat : (k * d + 0) \div d = k /\ (k * d + 0) % d = 0
    BY <1>1, <2>2, Division
  <2> QED
    BY <2>1, <2>3
<1>10. CASE remaining = 0
  <2>1. N = full * d
    <3>1. full * d \in Nat
      BY <1>1
    <3> HIDE DEF N, d, remaining
    <3> QED
      BY <1>5, <1>10, <3>1
  <2>2. N \div d = full
    BY <1>9, <2>1
  <2>3. full <= (ct_empty + N) \div d
    <3> DEFINE b == (ct_empty + N) \div d
    <3>1. b \in Nat /\ (ct_empty + N) % d \in 0 .. d - 1 /\ ct_empty + N = b * d + ((ct_empty + N) % d)
      <4>1. ct_empty + N \in Nat
        BY <1>1, <1>3
      <4> QED
        BY <1>1, <4>1, Division
    <3> HIDE DEF b, d, N
    <3> SUFFICES ASSUME b < full PROVE FALSE
      BY <3>1 DEF b
    <3>2. full - (b + 1) \in Nat
      BY <3>1
    <3>3. (full - (b + 1)) * d >= 0 /\ (full - (b + 1)) * d = full * d - (b * d + d)
      BY <1>1, <3>1, <3>2
    <3>4. b * d \in Nat
      BY <1>1, <3>1
    <3> QED
      BY <1>1, <1>3, <2>1, <3>1, <3>3, <3>4
  <2> DEFINE text == handle_text(<<header>> \o ChunksOf(file))
  <2>4. /\ text \in Seq(S) /\ Len(text) = N
        /\ \A i \in 1 .. N : text[i] = file[i]
    <3>1. full = Len(file) \div ChunkBytes /\ header.tot_sz <= full * ChunkBytes
      BY <1>1, <1>7, <2>1, <2>2
    <3>2. /\ full <= (header.emptyct + header.tot_sz) \div ChunkBytes
          /\ header.tot_sz \in Nat /\ header.emptyct \in Nat
      BY <1>1, <1>3, <1>7, <2>3
    <3> HIDE DEF header
    <3>3. /\ text \in Seq(S) /\ Len(text) = header.tot_sz
          /\ \A i \in 1 .. header.tot_sz : text[i] = file[i]
      BY <3>1, <3>2, TextHandled
    <3> QED
      BY <1>7, <3>3
  <2>5. text = file
    <3> HIDE DEF text
    <3> QED
      BY <2>4, SeqEqual
  <2>6. <<header>> \o ChunksOf(file) # Crashes
    <3>1. ChunksOf(file) \in Seq(Seq(S))
      BY ChunksJoined
    <3> DEFINE T == Seq(S)
    <3> HIDE DEF T, header
    <3> QED
      BY <3>1, HeaderOff DEF Crashes, T
  <2> HIDE DEF header
  <2> QED
    BY <1>8, <1>10, <2>5, <2>6
<1>11. CASE remaining # 0 /\ (size % d # 0 \/ size > BufferBytes)
  <2> SUFFICES ASSUME N % d # 0 PROVE FALSE
    <3> HIDE DEF header
    <3> QED
      BY <1>8, <1>11
  <2> DEFINE k == remaining \div d
             r == remaining % d
  <2>1. k \in Nat /\ r \in 0 .. d - 1 /\ remaining = k * d + r /\ remaining \in Nat
    <3>1. remaining \in Nat
      BY <1>1, <1>4
    <3> QED
      BY <1>1, <3>1, Division
  <2> HIDE DEF k, r
  <2>2. N % d = r
    <3>1. N = (full + k) * d + r
      <4> HIDE DEF N, d, remaining
      <4> QED
        BY <1>1, <1>5, <2>1
    <3>2. ((full + k) * d + r) % d = r
      <4>1. full + k \in Nat
        BY <2>1
      <4> QED
        BY <1>1, <2>1, <4>1, Division
    <3> QED
      BY <3>1, <3>2
  <2>3. size = (k + 1) * d
    <3> HIDE DEF N, d, remaining
    <3>1. ct_empty = d - r
      BY <1>3, <2>2
    <3> QED
      BY <1>1, <2>1, <3>1
  <2>4. size % d = 0
    <3>1. k + 1 \in Nat
      BY <2>1
    <3> QED
      BY <1>9, <2>3, <3>1
  <2>5. size <= BufferBytes
    <3> HIDE DEF d, remaining, N, size
    <3>1. k < room
      <4> SUFFICES ASSUME room <= k PROVE FALSE
        BY <2>1
      <4>1. k - room \in Nat
        BY <2>1
      <4>2. (k - room) * d >= 0 /\ (k - room) * d = k * d - room * d
        BY <1>1, <2>1, <4>1
      <4>3. k * d \in Nat /\ room * d \in Nat
        BY <1>1, <2>1
      <4> QED
        BY <1>1, <1>4, <1>6, <2>1, <4>2, <4>3
    <3>2. room - (k + 1) \in Nat
      BY <2>1, <3>1
    <3>3. (room - (k + 1)) * d >= 0 /\ (room - (k + 1)) * d = room * d - (k + 1) * d
      BY <1>1, <2>1, <3>2
    <3>4. (k + 1) * d \in Nat /\ room * d \in Nat
      BY <1>1, <2>1
    <3> QED
      BY <1>6, <2>3, <3>3, <3>4
  <2>6. size \in Nat
    BY <1>1, <1>3, <1>4
  <2> QED
    BY <1>1, <1>11, <2>4, <2>5, <2>6
<1>12. CASE remaining # 0 /\ ~(size % d # 0 \/ size > BufferBytes)
  <2> DEFINE bytes == file \o Zeros(ct_empty)
             n == full + (size \div d)
             T == S \cup {0}
  <2>1. Zeros(ct_empty) \in Seq({0}) /\ Len(Zeros(ct_empty)) = ct_empty
    BY <1>3 DEF Zeros
  <2>2. /\ bytes \in Seq(T) /\ Len(bytes) = N + ct_empty
        /\ \A i \in 1 .. N : bytes[i] = file[i]
    BY <2>1
  <2>3. size \div d \in Nat /\ size = (size \div d) * d /\ n \in Nat
    <3>1. size \in Nat
      BY <1>1, <1>3, <1>4
    <3>2. size \div d \in Nat /\ size = (size \div d) * d + (size % d)
      BY <1>1, <3>1, Division
    <3>3. size % d = 0
      BY <1>12
    <3> DEFINE s == size \div d
    <3> HIDE DEF s, size
    <3> QED
      BY <1>1, <3>2, <3>3 DEF s
  <2>4. N + ct_empty = n * d
    <3> DEFINE s == size \div d
    <3>1. s \in Nat /\ remaining + ct_empty = s * d /\ n = full + s
      BY <2>3
    <3>2. remaining \in Nat
      BY <1>1, <1>4
    <3> HIDE DEF s, remaining, n, N, d
    <3> QED
      BY <1>1, <1>3, <1>5, <3>1, <3>2
  <2> HIDE DEF n
  <2>5. (N + ct_empty) \div d = n /\ ct_empty + N = N + ct_empty
    <3>1. (n * d) \div d = n
      BY <1>9, <2>3
    <3> HIDE DEF N, d
    <3> QED
      BY <1>1, <1>3, <2>4, <3>1
  <2> DEFINE text == handle_text(<<header>> \o ChunksOf(bytes))
  <2>6. /\ text \in Seq(T) /\ Len(text) = N
        /\ \A i \in 1 .. N : text[i] = bytes[i]
    <3>1. /\ n = Len(bytes) \div ChunkBytes /\ header.tot_sz <= n * ChunkBytes
          /\ n <= (header.emptyct + header.tot_sz) \div ChunkBytes
          /\ header.tot_sz \in Nat /\ header.emptyct \in Nat
      <4> HIDE DEF bytes, header
      <4>1. N <= n * d
        BY <1>1, <1>3, <2>4
      <4>2. ct_empty + N = n * d /\ (ct_empty + N) \div d = n /\ n <= n
        BY <2>3, <2>4, <2>5
      <4> QED
        BY <1>1, <1>3, <1>7, <2>2, <2>5, <4>1, <4>2
    <3>2. bytes \in Seq(T) /\ n \in Nat
      BY <2>2, <2>3
    <3> HIDE DEF header, bytes, T, N, d, size, remaining
    <3>3. /\ text \in Seq(T) /\ Len(text) = header.tot_sz
          /\ \A i \in 1 .. header.tot_sz : text[i] = bytes[i]
      BY <3>1, <3>2, TextHandled
    <3> QED
      BY <1>7, <3>3
  <2>7. text = file
    <3>1. file \in Seq(T)
      OBVIOUS
    <3> HIDE DEF text, bytes, T
    <3> QED
      BY <2>2, <2>6, <3>1, SeqEqual
  <2>8. <<header>> \o ChunksOf(bytes) # Crashes
    <3>1. ChunksOf(bytes) \in Seq(Seq(T))
      BY <2>2, ChunksJoined
    <3> DEFINE U == Seq(T)
    <3> HIDE DEF U, header, bytes
    <3> QED
      BY <3>1, HeaderOff DEF Crashes, U
  <2> HIDE DEF header
  <2> QED
    BY <1>8, <1>12, <2>7, <2>8
<1> QED
  BY <1>10, <1>11, <1>12

(* A key comes back from its numbers, whatever follows it in memory. *)
LEMMA KeyComesBack ==
  ASSUME NEW bytes, NEW garbage, NEW secret_key \in [1 .. KeyBytes -> bytes],
         NEW unset \in [1 .. ChunkBytes -> garbage]
  PROVE  RestoredKey(split_keys(secret_key, unset)) = secret_key
<1> DEFINE d == ChunkBytes
           S == bytes \cup garbage
           all == secret_key \o unset
           q == KeyBytes \div d
           size == (q + 1) * d
           cut == SubSeq(all, 1, size)
           joined == BytesOf(ChunksOf(cut))
           restored == SubSeq(joined, 1, KeyBytes)
<1>1. d \in Nat \ {0} /\ KeyBytes \in Nat
  BY ChunkAssumption
<1>2. /\ q \in Nat /\ q + 1 \in Nat /\ q * d \in Nat /\ q * d <= KeyBytes /\ KeyBytes < q * d + d
      /\ size = q * d + d /\ size \in Nat \ {0}
  <2>1. q \in Nat /\ KeyBytes % d \in 0 .. d - 1 /\ KeyBytes = q * d + (KeyBytes % d)
    BY <1>1, Division
  <2> HIDE DEF q, d
  <2> QED
    BY <1>1, <2>1
<1>3. size \div d = q + 1
  <2>1. 0 \in 0 .. d - 1
    BY <1>1
  <2>2. ((q + 1) * d + 0) \div d = q + 1
    BY <1>1, <1>2, <2>1, Division
  <2> DEFINE p == (q + 1) * d
  <2>3. p + 0 = p
    <3>1. p \in Nat
      BY <1>2
    <3> QED
      BY <3>1
  <2> QED
    BY <2>2, <2>3
<1>4. /\ all \in Seq(S) /\ Len(all) = KeyBytes + d
      /\ \A i \in 1 .. KeyBytes : all[i] = secret_key[i]
      /\ secret_key \in Seq(S) /\ Len(secret_key) = KeyBytes
  <2>1. secret_key \in Seq(S) /\ Len(secret_key) = KeyBytes
    BY <1>1
  <2>2. unset \in Seq(S) /\ Len(unset) = d
    BY <1>1
  <2> HIDE DEF S, d
  <2> QED
    BY <2>1, <2>2
<1> HIDE DEF d, q, size, all, S
<1>5. /\ cut \in Seq(S) /\ Len(cut) = size
      /\ \A i \in 1 .. KeyBytes : cut[i] = secret_key[i]
  <2>1. size <= Len(all) /\ 1 <= size /\ size \in Int /\ 1 \in Int /\ KeyBytes <= size
    BY <1>1, <1>2, <1>4
  <2>2. \A i \in 1 .. size : all[i] \in S
    BY <1>4, <2>1
  <2>3. /\ cut \in Seq(S) /\ Len(cut) = size - 1 + 1
        /\ \A i \in 1 .. size - 1 + 1 : cut[i] = all[1 + i - 1]
    <3>1. /\ cut \in Seq(S)
          /\ Len(cut) = IF 1 <= size THEN size - 1 + 1 ELSE 0
          /\ \A i \in 1 .. size - 1 + 1 : cut[i] = all[1 + i - 1]
      BY <2>1, <2>2, SubSeqProperties
    <3> QED
      BY <2>1, <3>1
  <2>4. size - 1 + 1 = size /\ \A i \in 1 .. KeyBytes : i \in 1 .. size /\ 1 + i - 1 = i
    BY <1>1, <2>1
  <2> HIDE DEF cut
  <2> QED
    BY <1>4, <2>3, <2>4
<1> HIDE DEF cut
<1>6. /\ joined \in Seq(S) /\ Len(joined) = (q + 1) * d
      /\ \A i \in 1 .. (q + 1) * d : joined[i] = cut[i]
  <2>1. Len(cut) \div ChunkBytes = q + 1
    BY <1>3, <1>5 DEF d
  <2> QED
    BY <1>5, <2>1, ChunksJoined DEF d
<1> HIDE DEF joined
<1>7. /\ restored \in Seq(S) /\ Len(restored) = KeyBytes
      /\ \A i \in 1 .. KeyBytes : restored[i] = joined[i]
  <2>1. \A i \in 1 .. KeyBytes : i \in 1 .. (q + 1) * d
    BY <1>1, <1>2 DEF size
  <2>2. \A i \in 1 .. KeyBytes : joined[i] \in S
    BY <1>6, <2>1
  <2>3. /\ restored \in Seq(S)
        /\ Len(restored) = IF 1 <= KeyBytes THEN KeyBytes - 1 + 1 ELSE 0
        /\ \A i \in 1 .. KeyBytes - 1 + 1 : restored[i] = joined[1 + i - 1]
    BY <1>1, <2>2, SubSeqProperties
  <2>4. KeyBytes - 1 + 1 = KeyBytes /\ \A i \in 1 .. KeyBytes : 1 + i - 1 = i
    BY <1>1
  <2> HIDE DEF restored
  <2> QED
    BY <1>1, <2>3, <2>4
<1> HIDE DEF restored
<1>8. restored = secret_key
  <2>1. \A i \in 1 .. KeyBytes : restored[i] = secret_key[i]
    <3>1. \A i \in 1 .. KeyBytes : i \in 1 .. (q + 1) * d
      BY <1>1, <1>2 DEF size
    <3> QED
      BY <1>5, <1>6, <1>7, <3>1
  <2> QED
    BY <1>4, <1>7, <2>1, SeqEqual
<1>9. RestoredKey(split_keys(secret_key, unset)) = restored
  BY DEF RestoredKey, split_keys, restored, joined, cut, all, size, q, d
<1> QED
  BY <1>8, <1>9

(* For files and keys of any size, any size of chunks, and buffers that hold     *)
(* whole chunks: what was cut into numbers is there again when they are put     *)
(* together; a file that does not become numbers ends with a chunk.             *)
THEOREM FilesAndKeysComeBack ==
  ASSUME NEW Bytes, NEW contents, \A file \in contents : file \in Seq(Bytes),
         NEW bytes, NEW garbage,
         NEW Others, \A other \in Others : other.kind \notin {"file", "key"}
  PROVE  Given(Files(contents) \cup Keys(bytes, garbage) \cup Others) => []FilesComeBack
<1> DEFINE inputs == Files(contents) \cup Keys(bytes, garbage) \cup Others
<1>1. input \in inputs => FilesComeBack
  <2> SUFFICES ASSUME input \in inputs PROVE FilesComeBack
    OBVIOUS
  <2>1. CASE input \in Files(contents)
    <3>1. PICK file \in contents :
            input \in [kind : {"file"}, file : {file}, ct_empty : EmptyCounts(Len(file))]
      BY <2>1 DEF Files
    <3>2. input.kind = "file" /\ input.file = file /\ input.ct_empty \in EmptyCounts(Len(file))
      BY <3>1
    <3>3. file \in Seq(Bytes)
      OBVIOUS
    <3>4. IF read_file(input.file, input.ct_empty) = Crashes THEN Len(input.file) % ChunkBytes = 0
          ELSE handle_text(read_file(input.file, input.ct_empty)) = input.file
      BY <3>2, <3>3, FileComesBack
    <3> QED
      BY <3>2, <3>4 DEF FilesComeBack
  <2>2. CASE input \in Keys(bytes, garbage)
    <3>1. /\ input.kind = "key" /\ input.key \in [1 .. KeyBytes -> bytes]
          /\ input.unset \in [1 .. ChunkBytes -> garbage]
      BY <2>2 DEF Keys
    <3>2. RestoredKey(split_keys(input.key, input.unset)) = input.key
      BY <3>1, KeyComesBack
    <3> QED
      BY <3>1, <3>2 DEF FilesComeBack
  <2>3. CASE input \in Others
    BY <2>3 DEF FilesComeBack
  <2> QED
    BY <2>1, <2>2, <2>3
<1>2. input \in inputs /\ [UNCHANGED input]_input => (input \in inputs)'
  OBVIOUS
<1> QED
  BY <1>1, <1>2, PTL DEF Given

(* The records of n blocks, with the payloads a stash has for them, are in a      *)
(* file, one after the other and whole.                                        *)
Stored(file, order, n, stash) ==
  LET size == 1 + BlockSize
  IN  /\ size * n \in Nat /\ Len(file) = size * n /\ DOMAIN file = 1 .. size * n
      /\ \A i \in 1 .. n :
           /\ size * (i - 1) + 1 \in 1 .. size * n
           /\ file[size * (i - 1) + 1] = order[i]
           /\ \A k \in 1 .. BlockSize :
                /\ size * (i - 1) + 1 + k \in 1 .. size * n
                /\ file[size * (i - 1) + 1 + k] = stash[order[i]][k]

(* What a stash has of the first n blocks. *)
HeldOf(order, n, stash) ==
  [id \in {order[i] : i \in 1 .. n} |-> [k \in 1 .. BlockSize |-> stash[id][k]]]

(* What storeToFile makes of payloads of one size. *)
LEMMA RecordsStored ==
  ASSUME NEW blocks, NEW bytes, NEW n \in Nat, NEW order \in Injections(n, blocks),
         NEW stash, \A i \in 1 .. n : stash[order[i]] \in [1 .. BlockSize -> bytes]
  PROVE  Stored(storeToFile(stash, order), order, n, stash)
<1> DEFINE file == storeToFile(stash, order)
           size == 1 + BlockSize
           record(i) == Record(order[i], stash[order[i]])
           place(i) == size * (i - 1)
           writers(cell) == {i \in DOMAIN order : cell - place(i) \in DOMAIN record(i)}
           last(cell) == CHOOSE i \in writers(cell) : \A j \in writers(cell) : j <= i
<1>1. BlockSize \in Nat /\ size \in Nat \ {0}
  BY BlockAssumption
<1>2. /\ order \in [1 .. n -> blocks] /\ DOMAIN order = 1 .. n /\ Len(order) = n
      /\ \A i, j \in 1 .. n : order[i] = order[j] => i = j
  <2>1. order \in [1 .. n -> blocks] /\ \A i, j \in 1 .. n : order[i] = order[j] => i = j
    BY DEF Injections
  <2> QED
    BY <2>1
<1>3. ASSUME NEW i \in 1 .. n
      PROVE  /\ RecordSize(stash[order[i]]) = size
             /\ DOMAIN record(i) = 1 .. size
             /\ record(i)[1] = order[i]
             /\ \A k \in 1 .. BlockSize : record(i)[1 + k] = stash[order[i]][k]
  <2> DEFINE id == order[i]
             payload == stash[id]
  <2>1. payload \in Seq(bytes) /\ Len(payload) = BlockSize
    <3>1. payload \in [1 .. BlockSize -> bytes]
      OBVIOUS
    <3> HIDE DEF payload
    <3> QED
      BY <1>1, <3>1
  <2> HIDE DEF payload, id
  <2>2. /\ Len(<<id>> \o payload) = 1 + BlockSize /\ DOMAIN (<<id>> \o payload) = 1 .. 1 + BlockSize
        /\ (<<id>> \o payload)[1] = id
        /\ \A k \in 1 .. BlockSize : (<<id>> \o payload)[1 + k] = payload[k]
    BY <1>1, <2>1
  <2> QED
    BY <2>1, <2>2 DEF Record, RecordSize, payload, id
<1> HIDE DEF record, size
<1>4. ASSUME NEW i \in 1 .. n
      PROVE  /\ place(i) \in Nat /\ place(i) + size <= size * n
             /\ \A k \in 1 .. size : place(i) + k \in 1 .. size * n
  <2>1. i - 1 \in Nat /\ n - i \in Nat
    OBVIOUS
  <2>2. size * (i - 1) \in Nat /\ size * (n - i) \in Nat /\ size * n \in Nat
    BY <1>1, <2>1
  <2>3. size * n = size * (i - 1) + size + size * (n - i)
    BY <1>1, <2>1
  <2> QED
    BY <1>1, <2>2, <2>3
<1>5. size * n \in Nat
  BY <1>1
<1>6. ASSUME NEW cell \in 1 .. size * n
      PROVE  \A i, j \in writers(cell) : i = j
  <2>1. ASSUME NEW i \in 1 .. n, NEW j \in 1 .. n, i < j,
               cell - place(i) \in 1 .. size, cell - place(j) \in 1 .. size
        PROVE  FALSE
    <3> DEFINE between == size * (j - (i + 1))
    <3>1. i \in Int /\ j \in Int /\ j - (i + 1) \in Nat
      BY <2>1
    <3>2. between \in Nat /\ place(j) = place(i) + size + between
      BY <1>1, <3>1
    <3>3. place(i) \in Nat /\ place(j) \in Nat /\ cell \in Int
      BY <1>4, <1>5
    <3> HIDE DEF place, between
    <3> QED
      BY <1>1, <2>1, <3>2, <3>3
  <2>2. \A i \in writers(cell) : i \in 1 .. n /\ cell - place(i) \in 1 .. size
    <3> HIDE DEF place
    <3> QED
      BY <1>2, <1>3
  <2>3. \A i, j \in 1 .. n : i < j \/ j < i \/ i = j
    OBVIOUS
  <2> HIDE DEF writers, place
  <2> QED
    BY <2>1, <2>2, <2>3
<1>7. ASSUME NEW cell \in 1 .. size * n, NEW i \in writers(cell)
      PROVE  last(cell) = i /\ writers(cell) # {}
  <2>1. \A j \in writers(cell) : j <= i
    <3>1. i \in Int
      BY <1>2
    <3> HIDE DEF writers
    <3> QED
      BY <1>6, <3>1
  <2> HIDE DEF writers
  <2> QED
    BY <1>6, <2>1
<1>8. file = IF n = 0 THEN <<>>
             ELSE [cell \in 1 .. size * n |->
                     IF writers(cell) = {} THEN Unset ELSE record(last(cell))[cell - place(last(cell))]]
  <2>1. n # 0 => RecordSize(stash[order[1]]) = size
    BY <1>3
  <2>2. CASE n = 0
    BY <1>2, <2>2 DEF storeToFile
  <2>3. CASE n # 0
    <3> DEFINE sz == RecordSize(stash[order[1]])
               at(i) == sz * (i - 1)
               ws(cell) == {i \in DOMAIN order : cell - at(i) \in DOMAIN record(i)}
               l(cell) == CHOOSE i \in ws(cell) : \A j \in ws(cell) : j <= i
    <3>1. file = [cell \in 1 .. sz * Len(order) |->
                    IF ws(cell) = {} THEN Unset ELSE record(l(cell))[cell - at(l(cell))]]
      BY <1>2, <2>3 DEF storeToFile, record
    <3>2. sz = size
      BY <2>1, <2>3
    <3> QED
      BY <1>2, <2>3, <3>1, <3>2
  <2> QED
    BY <2>2, <2>3
<1> HIDE DEF file, writers, last, place
<1>9. Len(file) = size * n /\ DOMAIN file = 1 .. size * n
  <2>1. CASE n = 0
    <3>1. size * n = 0
      BY <1>1, <2>1
    <3> QED
      BY <1>8, <2>1, <3>1
  <2>2. CASE n # 0
    BY <1>5, <1>8, <2>2
  <2> QED
    BY <2>1, <2>2
<1>10. ASSUME NEW i \in 1 .. n, NEW k \in 1 .. size
       PROVE  place(i) + k \in 1 .. size * n /\ file[place(i) + k] = record(i)[k]
  <2> DEFINE cell == place(i) + k
  <2>1. cell \in 1 .. size * n /\ cell - place(i) = k
    BY <1>1, <1>4
  <2> HIDE DEF cell
  <2>2. i \in writers(cell)
    BY <1>2, <1>3, <2>1 DEF writers
  <2>3. last(cell) = i /\ writers(cell) # {}
    BY <1>7, <2>1, <2>2
  <2>4. n # 0
    OBVIOUS
  <2>5. file[cell] = IF writers(cell) = {} THEN Unset
                     ELSE record(last(cell))[cell - place(last(cell))]
    BY <1>8, <2>1, <2>4
  <2>6. file[cell] = record(i)[k]
    BY <2>1, <2>3, <2>5
  <2> QED
    BY <2>1, <2>6 DEF cell
<1>11. ASSUME NEW i \in 1 .. n
       PROVE  /\ place(i) + 1 \in 1 .. size * n /\ file[place(i) + 1] = order[i]
              /\ \A k \in 1 .. BlockSize : /\ place(i) + 1 + k \in 1 .. size * n
                                           /\ file[place(i) + 1 + k] = stash[order[i]][k]
  <2>1. 1 \in 1 .. size
    BY <1>1
  <2>2. \A k \in 1 .. BlockSize : 1 + k \in 1 .. size /\ place(i) + 1 + k = place(i) + (1 + k)
    BY <1>1, <1>4 DEF size
  <2> QED
    BY <1>3, <1>10, <2>1, <2>2
<1> QED
  BY <1>5, <1>9, <1>11 DEF Stored, file, size, place

(* What loadFromFile makes of such records: their blocks, and what each held.     *)
LEMMA RecordsLoaded ==
  ASSUME NEW blocks, NEW n \in Nat, NEW order \in Injections(n, blocks), NEW held, NEW file,
         Stored(file, order, n, held)
  PROVE  loadFromFile(file, BlockSize) = HeldOf(order, n, held)
<1> DEFINE size == 1 + BlockSize
           place(i) == size * (i - 1)
           starts == {at \in 0 .. Len(file) - 1 : at % size = 0}
           cell(i) == IF i \in DOMAIN file THEN file[i] ELSE Unset
           first(id) == CHOOSE at \in starts :
                          cell(at + 1) = id /\ \A other \in starts : cell(other + 1) = id => at <= other
           ids == {order[i] : i \in 1 .. n}
<1>1. BlockSize \in Nat /\ size \in Nat \ {0}
  BY BlockAssumption
<1>2. \A i, j \in 1 .. n : order[i] = order[j] => i = j
  BY DEF Injections
<1>3. /\ size * n \in Nat /\ Len(file) = size * n /\ DOMAIN file = 1 .. size * n
      /\ \A i \in 1 .. n : /\ place(i) + 1 \in 1 .. size * n /\ file[place(i) + 1] = order[i]
                           /\ \A k \in 1 .. BlockSize :
                                /\ place(i) + 1 + k \in 1 .. size * n
                                /\ file[place(i) + 1 + k] = held[order[i]][k]
  BY DEF Stored
<1> HIDE DEF size
<1>4. starts = {place(i) : i \in 1 .. n}
  <2>1. ASSUME NEW i \in 1 .. n
        PROVE  place(i) \in starts
    <3>1. i - 1 \in Nat /\ 0 \in 0 .. size - 1
      BY <1>1
    <3>2. (i - 1) * size + 0 = place(i) /\ place(i) \in Nat
      BY <1>1, <3>1
    <3>3. ((i - 1) * size + 0) % size = 0
      BY <1>1, <3>1, Division
    <3>4. place(i) % size = 0
      BY <3>2, <3>3
    <3>5. place(i) \in 0 .. Len(file) - 1
      <4>1. place(i) + 1 \in 1 .. size * n
        BY <1>3
      <4> HIDE DEF place
      <4> QED
        BY <1>3, <3>2, <4>1
    <3> QED
      BY <3>4, <3>5
  <2>2. ASSUME NEW at \in starts
        PROVE  \E i \in 1 .. n : at = place(i)
    <3> DEFINE q == at \div size
    <3>1. at \in Nat /\ at < size * n /\ at % size = 0
      BY <1>3
    <3>2. q \in Nat /\ at = q * size + (at % size)
      BY <1>1, <3>1, Division
    <3> HIDE DEF q
    <3>3. at = size * q
      BY <1>1, <3>1, <3>2
    <3>4. q < n
      <4> SUFFICES ASSUME n <= q PROVE size * n <= size * q
        BY <1>1, <3>1, <3>2, <3>3
      <4>1. q - n \in Nat
        BY <3>2
      <4>2. size * (q - n) >= 0 /\ size * (q - n) = size * q - size * n
        BY <1>1, <3>2, <4>1
      <4>3. size * q \in Nat /\ size * n \in Nat
        BY <1>1, <3>2
      <4> QED
        BY <4>2, <4>3
    <3>5. q + 1 \in 1 .. n /\ place(q + 1) = at
      <4>1. q + 1 \in 1 .. n /\ (q + 1) - 1 = q
        BY <3>2, <3>4
      <4> QED
        BY <3>3, <4>1
    <3> QED
      BY <3>5
  <2> HIDE DEF starts, place
  <2> QED
    BY <2>1, <2>2
<1>5. \A i \in 1 .. n : cell(place(i) + 1) = order[i]
  <2> HIDE DEF place
  <2> QED
    BY <1>3
<1>6. \A i \in 1 .. n : \A k \in 1 .. BlockSize : cell(place(i) + 1 + k) = held[order[i]][k]
  <2> HIDE DEF place
  <2> QED
    BY <1>3
<1>7. \A i \in 1 .. n : place(i) \in Nat
  BY <1>1
<1>8. ASSUME NEW i \in 1 .. n
      PROVE  first(order[i]) = place(i)
  <2>1. place(i) \in starts /\ cell(place(i) + 1) = order[i] /\ place(i) \in Nat
    BY <1>4, <1>5, <1>7
  <2>2. \A other \in starts : cell(other + 1) = order[i] => other = place(i)
    <3> HIDE DEF starts, cell, place
    <3> QED
      BY <1>2, <1>4, <1>5
  <2>3. place(i) <= place(i)
    BY <2>1
  <2> HIDE DEF starts, cell, place
  <2> QED
    BY <2>1, <2>2, <2>3
<1>9. {cell(at + 1) : at \in starts} = ids
  <2> HIDE DEF starts, cell, place
  <2>1. \A at \in starts : cell(at + 1) \in ids
    BY <1>4, <1>5
  <2>2. \A id \in ids : \E at \in starts : cell(at + 1) = id
    <3> SUFFICES ASSUME NEW i \in 1 .. n PROVE \E at \in starts : cell(at + 1) = order[i]
      OBVIOUS
    <3>1. place(i) \in starts /\ cell(place(i) + 1) = order[i]
      BY <1>4, <1>5
    <3> QED
      BY <3>1
  <2> HIDE DEF ids
  <2> QED
    BY <2>1, <2>2
<1>10. loadFromFile(file, BlockSize)
         = [id \in {cell(at + 1) : at \in starts} |->
              [k \in 1 .. BlockSize |-> cell(first(id) + 1 + k)]]
  BY DEF loadFromFile, size
<1> HIDE DEF starts, cell, place, first
<1>11. ASSUME NEW id \in ids
       PROVE  [k \in 1 .. BlockSize |-> cell(first(id) + 1 + k)]
                = [k \in 1 .. BlockSize |-> held[id][k]]
  <2>1. PICK i \in 1 .. n : id = order[i]
    OBVIOUS
  <2>2. \A k \in 1 .. BlockSize : cell(first(id) + 1 + k) = held[id][k]
    BY <1>6, <1>8, <2>1
  <2> QED
    BY <2>2
<1> HIDE DEF ids
<1> QED
  BY <1>9, <1>10, <1>11 DEF HeldOf, ids

(* For any blocks and payloads, if these have the block size: the stash that      *)
(* storeToFile wrote is the one loadFromFile reads, in whatever order the blocks    *)
(* were written; an empty one comes back empty.                                *)
THEOREM StashesComeBack ==
  ASSUME NEW blocks, IsFiniteSet(blocks), NEW bytes,
         NEW Others, \A other \in Others : other.kind # "stash"
  PROVE  Given(Stashes(blocks, bytes) \cup Others) => []StashComesBack
<1> DEFINE inputs == Stashes(blocks, bytes) \cup Others
<1>1. input \in inputs => StashComesBack
  <2> SUFFICES ASSUME input \in inputs, input.kind = "stash" PROVE StashComesBack
    BY DEF StashComesBack
  <2>1. PICK n \in 0 .. Cardinality(blocks) :
          input \in [kind : {"stash"}, order : Injections(n, blocks),
                     stash : [blocks -> [1 .. BlockSize -> bytes]]]
    BY DEF Stashes
  <2> Cardinality(blocks) \in Nat
    BY FS_CardinalityType
  <2> DEFINE order == input.order
             held == [b \in {order[i] : i \in DOMAIN order} |-> input.stash[b]]
             file == storeToFile(held, order)
  <2>2. /\ n \in Nat /\ order \in Injections(n, blocks) /\ order \in [1 .. n -> blocks]
        /\ input.stash \in [blocks -> [1 .. BlockSize -> bytes]]
    BY <2>1 DEF Injections
  <2>3. DOMAIN order = 1 .. n /\ DOMAIN held = {order[i] : i \in 1 .. n}
    BY <2>2
  <2>4. \A id \in DOMAIN held : held[id] \in [1 .. BlockSize -> bytes]
    BY <2>2, <2>3
  <2> HIDE DEF order, held
  <2>5. Stored(file, order, n, held)
    <3>1. \A i \in 1 .. n : held[order[i]] \in [1 .. BlockSize -> bytes]
      BY <2>3, <2>4
    <3> QED
      BY <2>2, <3>1, RecordsStored
  <2>6. loadFromFile(file, BlockSize) = HeldOf(order, n, held)
    <3> HIDE DEF file
    <3> QED
      BY <2>2, <2>5, RecordsLoaded
  <2>7. \A id \in DOMAIN held : [k \in 1 .. BlockSize |-> held[id][k]] = held[id]
    BY <2>4
  <2>8. loadFromFile(file, BlockSize) = held
    <3>1. held = [id \in DOMAIN held |-> held[id]]
      BY DEF held
    <3> DEFINE ids == DOMAIN held
    <3>2. [id \in ids |-> [k \in 1 .. BlockSize |-> held[id][k]]] = [id \in ids |-> held[id]]
      <4> HIDE DEF ids
      <4> QED
        BY <2>7 DEF ids
    <3> QED
      BY <2>3, <2>6, <3>1, <3>2 DEF HeldOf
  <2> QED
    BY <2>8 DEF StashComesBack, file, held, order
<1>2. input \in inputs /\ [UNCHANGED input]_input => (input \in inputs)'
  OBVIOUS
<1> QED
  BY <1>1, <1>2, PTL DEF Given

=============================================================================
