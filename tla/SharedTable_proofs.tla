--------------------------- MODULE SharedTable_proofs ---------------------------
(***************************************************************************)
(* Proofs about SharedTable, for any numbers of servers, rows and faults and   *)
(* any scheme of sharing by K shares: what of the files stays aligned with the *)
(* table, what the sessions count and select, and what decrypting the files    *)
(* and the results gives back.                                              *)
(***************************************************************************)
EXTENDS SharedTable, FiniteSetTheorems, WellFoundedInduction, TLAPS

(* Facts about Append that the steps below rest on. *)
LEMMA AppendFacts ==
  ASSUME NEW S, NEW seq \in Seq(S), NEW e \in S
  PROVE  /\ Append(seq, e) \in Seq(S)
         /\ Len(Append(seq, e)) = Len(seq) + 1
         /\ Append(seq, e)[Len(seq) + 1] = e
         /\ \A i \in 1 .. Len(seq) : Append(seq, e)[i] = seq[i]
  OBVIOUS

(* What keeps a line that is saved late from landing on a sound place, and   *)
(* a session from holding lines that are yet to be written.                 *)
Bounded ==
  \A s \in Servers :
    /\ sound[s] <= Offered(s)
    /\ loaded[s] # NotLoaded => Len(loaded[s]) <= Len(shares[s])

IInv == TypeOK /\ Aligned /\ FilesInStep /\ Bounded

LEMMA InitInv == Init => IInv
<1> SUFFICES ASSUME Init
             PROVE  IInv
  OBVIOUS
<1> USE DEF Init
<1>1. TypeOK
  BY TableConstants DEF TypeOK
<1>2. Aligned /\ FilesInStep /\ Bounded
  BY DEF Aligned, FilesInStep, Bounded, Offered
<1> QED
  BY <1>1, <1>2 DEF IInv

-----------------------------------------------------------------------------
(* The steps of the parser *)

(* The rows of the parser that has taken one up. *)
LEMMA CurrentRow ==
  ASSUME TypeOK, saving # 0
  PROVE  /\ Len(table) \in Nat \ {0} /\ table[Len(table)] \in Rows
         /\ saving \in Servers
         /\ \A s \in Servers : SharedRow[s][table[Len(table)]] \in Lines[s]
BY TableConstants DEF TypeOK, Lines, Servers

(* Where the loop of saveAllShares goes next. *)
LEMMA NextServerFacts ==
  ASSUME TypeOK, saving # 0
  PROVE  /\ NextServer \in 0 .. NumServers
         /\ NextServer = saving + 1 \/ (NextServer = 0 /\ saving = NumServers)
BY TableConstants DEF TypeOK, NextServer

(* Taking up a row changes no file and offers none. *)
LEMMA EncryptInv ==
  ASSUME IInv, NEW row \in Rows, Encrypt(row), UNCHANGED sessionVars
  PROVE  IInv'
<1>1. /\ table' \in Seq(Rows) /\ Len(table') = Len(table) + 1
      /\ \A i \in 1 .. Len(table) : table'[i] = table[i]
  BY AppendFacts DEF IInv, TypeOK, Encrypt
<1>2. /\ saving = 0 /\ saving' = 1 /\ Len(table) < MaxRows
      /\ UNCHANGED <<shares, faults, sound, loaded, query, answers>>
  BY DEF Encrypt, sessionVars
<1>3. TypeOK'
  BY <1>1, <1>2, TableConstants DEF IInv, TypeOK
<1>4. \A s \in Servers : Offered(s)' = Offered(s)
  BY <1>1, <1>2 DEF IInv, Offered, TypeOK, Servers
<1>5. \A s \in Servers : \A i \in 1 .. sound[s] : table'[i] = table[i]
  BY <1>1, <1>2 DEF IInv, TypeOK, Bounded, Offered
<1>6. Aligned'
  BY <1>2, <1>5 DEF IInv, Aligned
<1>7. FilesInStep' /\ Bounded'
  BY <1>2, <1>4 DEF IInv, FilesInStep, Bounded
<1> QED
  BY <1>3, <1>6, <1>7 DEF IInv

(* Saving puts the shares of the row in hand at its place if the file has    *)
(* missed none, and after its last sound line otherwise.                    *)
LEMMA SaveShareInv ==
  ASSUME IInv, SaveShare, UNCHANGED sessionVars
  PROVE  IInv'
<1> DEFINE line == SharedRow[saving][table[Len(table)]]
<1>1. /\ saving \in Servers /\ saving # 0 /\ Len(table) \in Nat \ {0}
      /\ line \in Lines[saving] /\ shares[saving] \in Seq(Lines[saving])
      /\ Len(shares[saving]) \in Nat
  BY CurrentRow DEF IInv, TypeOK, SaveShare
<1>2. /\ saving' = NextServer
      /\ UNCHANGED <<table, faults, loaded, query, answers>>
  BY DEF SaveShare, sessionVars
<1>3. /\ DOMAIN shares' = Servers
      /\ shares'[saving] = Append(shares[saving], line)
      /\ \A s \in Servers \ {saving} : shares'[s] = shares[s]
  BY <1>1 DEF IInv, TypeOK, SaveShare
<1> HIDE DEF line
<1>4. /\ shares'[saving] \in Seq(Lines[saving])
      /\ Len(shares'[saving]) = Len(shares[saving]) + 1
      /\ shares'[saving][Len(shares[saving]) + 1] = line
      /\ \A i \in 1 .. Len(shares[saving]) : shares'[saving][i] = shares[saving][i]
  <2>1. ASSUME NEW seq, seq = shares[saving]
        PROVE  /\ Append(seq, line) \in Seq(Lines[saving])
               /\ Len(Append(seq, line)) = Len(seq) + 1
               /\ Append(seq, line)[Len(seq) + 1] = line
               /\ \A i \in 1 .. Len(seq) : Append(seq, line)[i] = seq[i]
    <3>1. seq \in Seq(Lines[saving]) /\ line \in Lines[saving]
      BY <1>1, <2>1
    <3> QED
      BY <3>1, AppendFacts
  <2> QED
    BY <2>1, <1>3, Zenon
<1>5. /\ sound' \in [Servers -> Nat]
      /\ \A s \in Servers \ {saving} : sound'[s] = sound[s]
      /\ \/ sound[saving] = Len(table) - 1 /\ sound'[saving] = Len(table)
         \/ sound[saving] # Len(table) - 1 /\ sound'[saving] = sound[saving]
  BY <1>1 DEF IInv, TypeOK, SaveShare
<1>6. TypeOK'
  BY <1>1, <1>2, <1>3, <1>4, <1>5, NextServerFacts DEF IInv, TypeOK
<1>7. \A s \in Servers :
        /\ s = saving => Offered(s) = Len(table) - 1 /\ Offered(s)' = Len(table)
        /\ s # saving => Offered(s)' = Offered(s)
  BY <1>1, <1>2, NextServerFacts, TableConstants DEF IInv, TypeOK, Offered, Servers
<1>8. \A s \in Servers : Offered(s) \in Int /\ Len(shares[s]) \in Nat /\ sound[s] \in Nat
  BY <1>1 DEF IInv, TypeOK, Offered
<1>9. FilesInStep'
  <2> SUFFICES ASSUME NEW s \in Servers
               PROVE  Offered(s)' - faults' <= Len(shares'[s]) /\ Len(shares'[s]) <= Offered(s)'
    BY DEF FilesInStep
  <2>1. /\ faults \in Nat /\ faults' = faults
        /\ Offered(s) - faults <= Len(shares[s]) /\ Len(shares[s]) <= Offered(s)
    BY <1>2, TableConstants DEF IInv, FilesInStep, TypeOK
  <2>2. CASE s = saving
    BY <2>1, <2>2, <1>1, <1>4, <1>7, <1>8
  <2>3. CASE s # saving
    BY <2>1, <2>3, <1>3, <1>7, <1>8
  <2> QED
    BY <2>2, <2>3
<1>10. Bounded'
  <2>1. \A s \in Servers : sound'[s] <= Offered(s)'
    BY <1>1, <1>5, <1>7, <1>8 DEF IInv, Bounded
  <2>2. ASSUME NEW s \in Servers, loaded[s] # NotLoaded
        PROVE  Len(loaded[s]) <= Len(shares'[s])
    <3>1. Len(loaded[s]) \in Nat /\ Len(loaded[s]) <= Len(shares[s])
      BY <2>2 DEF IInv, TypeOK, Bounded
    <3> QED
      BY <3>1, <1>1, <1>3, <1>4, <1>8
  <2> QED
    BY <2>1, <2>2, <1>2 DEF Bounded
<1>11. Aligned'
  <2> SUFFICES ASSUME NEW s \in Servers
               PROVE  /\ sound'[s] <= Len(shares'[s])
                      /\ \A i \in 1 .. sound'[s] :
                           /\ shares'[s][i] = SharedRow[s][table[i]]
                           /\ loaded[s] # NotLoaded /\ i <= Len(loaded[s])
                                => loaded[s][i] = shares'[s][i]
    BY <1>2 DEF Aligned
  <2>1. CASE s # saving \/ sound[saving] # Len(table) - 1
    <3>1. sound'[s] = sound[s] /\ sound[s] \in Nat
      BY <2>1, <1>5, <1>8
    <3>2. /\ Len(shares[s]) <= Len(shares'[s]) /\ Len(shares'[s]) \in Nat
          /\ \A i \in 1 .. Len(shares[s]) : shares'[s][i] = shares[s][i]
      BY <1>1, <1>3, <1>4, <1>8
    <3> QED
      BY <3>1, <3>2, <1>8 DEF IInv, Aligned
  <2>2. CASE s = saving /\ sound[saving] = Len(table) - 1
    <3>1. Len(shares[s]) = Len(table) - 1 /\ sound'[s] = Len(table)
      BY <2>2, <1>1, <1>5, <1>7, <1>8 DEF IInv, Aligned, FilesInStep
    <3>2. shares'[s][Len(table)] = SharedRow[s][table[Len(table)]]
      BY <2>2, <3>1, <1>1, <1>4 DEF line
    <3>3. loaded[s] # NotLoaded
            => Len(loaded[s]) \in Nat /\ Len(loaded[s]) <= Len(table) - 1
      BY <3>1 DEF IInv, TypeOK, Bounded
    <3>4. \A i \in 1 .. Len(table) - 1 :
            /\ shares'[s][i] = SharedRow[s][table[i]]
            /\ loaded[s] # NotLoaded /\ i <= Len(loaded[s]) => loaded[s][i] = shares'[s][i]
      BY <2>2, <3>1, <1>1, <1>4 DEF IInv, Aligned
    <3>5. \A i \in 1 .. sound'[s] : i = Len(table) \/ i \in 1 .. Len(table) - 1
      BY <3>1, <1>1
    <3>6. sound'[s] <= Len(shares'[s])
      BY <2>2, <3>1, <1>1, <1>4
    <3> QED
      BY <3>2, <3>3, <3>4, <3>5, <3>6, <1>1
  <2> QED
    BY <2>1, <2>2
<1> QED
  BY <1>6, <1>9, <1>10, <1>11 DEF IInv

(* A file that does not open, and a run that dies, leave the files as they   *)
(* are and offer the row to more of them, none twice.                       *)
LEMMA FaultInv ==
  ASSUME IInv, SaveFails \/ Crash, UNCHANGED sessionVars
  PROVE  IInv'
<1> USE DEF IInv, sessionVars
<1>1. /\ UNCHANGED <<table, shares, sound>> /\ faults' = faults + 1 /\ faults < MaxFaults
      /\ saving # 0 /\ saving' \in 0 .. NumServers
      /\ saving' = 0 \/ saving' = saving + 1
  BY NextServerFacts, TableConstants DEF SaveFails, Crash
<1>2. TypeOK'
  BY <1>1, TableConstants DEF TypeOK
<1>3. \A s \in Servers : Offered(s) <= Offered(s)' /\ Offered(s)' <= Offered(s) + 1
  BY <1>1, CurrentRow DEF Offered, Servers, TypeOK
<1>4. Aligned'
  BY <1>1 DEF Aligned
<1>5. FilesInStep' /\ Bounded'
  <2>1. \A s \in Servers : Offered(s) \in Int /\ Offered(s)' \in Int
    BY <1>1, <1>2 DEF Offered, TypeOK
  <2>2. \A s \in Servers : Len(shares[s]) \in Nat /\ sound[s] \in Nat
    BY DEF TypeOK
  <2>3. FilesInStep'
    BY <1>1, <1>3, <2>1, <2>2 DEF FilesInStep, TypeOK
  <2>4. Bounded'
    BY <1>1, <1>3, <2>1, <2>2 DEF Bounded
  <2> QED
    BY <2>3, <2>4
<1> QED
  BY <1>2, <1>4, <1>5

-----------------------------------------------------------------------------
(* The steps of the sessions *)

(* Loading copies the file as it is, answering changes no line. *)
LEMMA SessionInv ==
  ASSUME IInv, NEW s \in Servers, Load(s) \/ Answer(s), UNCHANGED writerVars
  PROVE  IInv'
<1> USE DEF IInv, writerVars
<1>1. /\ DOMAIN loaded' = Servers /\ DOMAIN answers' = Servers /\ query' = query
      /\ \A t \in Servers : loaded'[t] = loaded[t] \/ loaded'[t] = shares[t]
  BY DEF Load, Answer, TypeOK
<1>2. TypeOK'
  BY <1>1 DEF TypeOK
<1>3. \A t \in Servers : Offered(t)' = Offered(t)
  BY DEF Offered
<1>4. FilesInStep'
  BY <1>3 DEF FilesInStep
<1>5. Bounded'
  BY <1>1, <1>3 DEF Bounded, TypeOK
<1>6. Aligned'
  BY <1>1 DEF Aligned
<1> QED
  BY <1>2, <1>4, <1>5, <1>6

-----------------------------------------------------------------------------
(* Theorems *)

LEMMA StepInv ==
  ASSUME IInv, [Next]_vars
  PROVE  IInv'
<1>1. ASSUME NEW row \in Rows, Encrypt(row), UNCHANGED sessionVars
      PROVE  IInv'
  BY <1>1, EncryptInv
<1>2. CASE SaveShare /\ UNCHANGED sessionVars
  BY <1>2, SaveShareInv
<1>3. CASE (SaveFails \/ Crash) /\ UNCHANGED sessionVars
  BY <1>3, FaultInv
<1>4. ASSUME NEW s \in Servers, Load(s) \/ Answer(s), UNCHANGED writerVars
      PROVE  IInv'
  BY <1>4, SessionInv
<1>5. CASE UNCHANGED vars
  BY <1>5 DEF IInv, TypeOK, Aligned, FilesInStep, Bounded, Offered, vars
<1> QED
  BY <1>1, <1>2, <1>3, <1>4, <1>5 DEF Next

(* The files and what sessions hold of them stay aligned with the table      *)
(* through faults, repeated runs and early sessions, and no file falls       *)
(* further behind than there were faults.                                   *)
THEOREM FilesAligned == Spec => [](TypeOK /\ Aligned /\ FilesInStep)
<1>1. Init => IInv
  BY InitInv
<1>2. IInv /\ [Next]_vars => IInv'
  BY StepInv
<1>3. IInv => TypeOK /\ Aligned /\ FilesInStep
  BY DEF IInv
<1> QED
  BY <1>1, <1>2, <1>3, PTL DEF Spec

(* The variables keep their types, and a session holds lines of its own server. *)
COROLLARY TypeCorrect == Spec => []TypeOK
BY FilesAligned, PTL

(* No file is longer than the table, and none lacks more lines than there were  *)
(* faults, whatever was interrupted and repeated.                            *)
COROLLARY FilesKeepStep == Spec => []FilesInStep
BY FilesAligned, PTL

-----------------------------------------------------------------------------
(* Collecting lines *)

(* A set of numbers has a least one. *)
LEMMA Least ==
  ASSUME NEW n \in Nat, NEW S \in SUBSET (0 .. n), S # {}
  PROVE  \E m \in S : \A k \in S : m <= k
<1> DEFINE T == {0 .. i : i \in S}
           R == StrictSubsetOrdering(0 .. n)
<1>1. IsWellFoundedOn(R, SUBSET (0 .. n))
  <2>1. IsFiniteSet(0 .. n)
    BY FS_Interval
  <2>2. FiniteSubsetsOf(0 .. n) = SUBSET (0 .. n)
    BY <2>1, FS_FiniteSubsetsOfFinite
  <2>3. IsWellFoundedOn(R, FiniteSubsetsOf(0 .. n))
    BY FS_StrictSubsetOrderingWellFounded
  <2> QED
    BY <2>2, <2>3
<1>2. T # {} /\ T \subseteq SUBSET (0 .. n)
  <2>1. \A i \in S : i \in 0 .. n
    OBVIOUS
  <2>2. \A i \in S : 0 .. i \subseteq 0 .. n
    BY <2>1
  <2> QED
    BY <2>2
<1>3. PICK x \in T : \A y \in T : <<y, x>> \notin R
  <2> HIDE DEF T, R
  <2> QED
    BY <1>1, <1>2, WFMin
<1>4. PICK m \in S : x = 0 .. m
  BY <1>3
<1>5. ASSUME NEW k \in S, k < m
      PROVE  FALSE
  <2>1. m \in 0 .. m /\ m \notin 0 .. k /\ 0 .. k \subseteq 0 .. m
    BY <1>4, <1>5
  <2>2. <<0 .. k, 0 .. m>> \in R
    BY <2>1 DEF StrictSubsetOrdering
  <2> QED
    BY <1>3, <1>4, <2>2
<1> QED
  BY <1>4, <1>5

(* How many of the numbers come no later than i. *)
UpToCount(numbers, i) == Cardinality({j \in numbers : j <= i})

LEMMA CountFacts ==
  ASSUME NEW n \in Nat, NEW P, \A j \in P : j \in 1 .. n
  PROVE  /\ IsFiniteSet(P) /\ Cardinality(P) \in Nat
         /\ \A i \in Nat : UpToCount(P, i) \in Nat
         /\ UpToCount(P, 0) = 0 /\ UpToCount(P, n) = Cardinality(P)
         /\ \A i \in 1 .. n :
              UpToCount(P, i) = IF i \in P THEN UpToCount(P, i - 1) + 1 ELSE UpToCount(P, i - 1)
         /\ \A i, j \in P : i < j => UpToCount(P, i) < UpToCount(P, j)
<1> DEFINE C(i) == {j \in P : j <= i}
<1>1. IsFiniteSet(P) /\ \A i : IsFiniteSet(C(i)) /\ Cardinality(C(i)) \in Nat
  <2>1. IsFiniteSet(1 .. n)
    BY FS_Interval
  <2>2. IsFiniteSet(P)
    <3>1. P \subseteq 1 .. n
      OBVIOUS
    <3> QED
      BY <2>1, <3>1, FS_Subset
  <2>3. \A i : IsFiniteSet(C(i))
    BY <2>2, FS_Subset
  <2> QED
    BY <2>2, <2>3, FS_CardinalityType
<1>2. Cardinality(C(0)) = 0
  <2>1. C(0) = {}
    OBVIOUS
  <2> QED
    BY <2>1, FS_EmptySet
<1>3. Cardinality(C(n)) = Cardinality(P) /\ Cardinality(P) \in Nat
  <2>1. C(n) = P
    OBVIOUS
  <2> QED
    BY <1>1, <2>1
<1>4. ASSUME NEW i \in 1 .. n
      PROVE  Cardinality(C(i)) = IF i \in P THEN Cardinality(C(i - 1)) + 1 ELSE Cardinality(C(i - 1))
  <2>1. CASE i \in P
    <3>0. /\ \A j \in P : j <= i <=> j <= i - 1 \/ j = i
          /\ ~(i <= i - 1)
      OBVIOUS
    <3>1. C(i) = C(i - 1) \cup {i} /\ i \notin C(i - 1)
      BY <2>1, <3>0, Zenon
    <3> HIDE DEF C
    <3>2. IsFiniteSet(C(i - 1))
      BY <1>1
    <3>3. Cardinality(C(i - 1) \cup {i}) = Cardinality(C(i - 1)) + 1
      BY <3>1, <3>2, FS_AddElement
    <3> QED
      BY <2>1, <3>1, <3>3
  <2>2. CASE i \notin P
    <3>1. C(i) = C(i - 1)
      BY <2>2
    <3> HIDE DEF C
    <3> QED
      BY <2>2, <3>1
  <2> QED
    BY <2>1, <2>2
<1>5. ASSUME NEW i \in P, NEW j \in P, i < j
      PROVE  Cardinality(C(i)) < Cardinality(C(j))
  <2>1. C(i) \subseteq C(j) /\ j \in C(j) /\ j \notin C(i)
    BY <1>5
  <2>2. IsFiniteSet(C(j)) /\ IsFiniteSet(C(i))
    BY <1>1
  <2> HIDE DEF C
  <2>3. C(i) # C(j)
    BY <2>1
  <2>4. Cardinality(C(i)) <= Cardinality(C(j)) /\ Cardinality(C(i)) # Cardinality(C(j))
    BY <2>1, <2>2, <2>3, FS_Subset
  <2> QED
    BY <1>1, <2>4
<1> QED
  BY <1>1, <1>2, <1>3, <1>4, <1>5 DEF UpToCount

(* The k-th number is one of them, and k is its place. *)
LEMMA NthFacts ==
  ASSUME NEW n \in Nat, NEW P, \A j \in P : j \in 1 .. n, NEW k \in 1 .. Cardinality(P)
  PROVE  /\ Nth(P, k) \in P /\ UpToCount(P, Nth(P, k)) = k
         /\ \A i \in P : UpToCount(P, i) = k => i = Nth(P, k)
<1> DEFINE S == {i \in 0 .. n : k <= UpToCount(P, i)}
<1>1. k \in Nat \ {0} /\ Cardinality(P) \in Nat /\ k <= Cardinality(P)
  BY CountFacts
<1>2. n \in S
  BY <1>1, CountFacts
<1>3. PICK m \in S : \A i \in S : m <= i
  <2>1. S \in SUBSET (0 .. n) /\ S # {}
    BY <1>2
  <2> HIDE DEF S
  <2> QED
    BY <2>1, Least
<1>4. m \in 1 .. n
  BY <1>1, <1>3, CountFacts
<1>5. /\ m - 1 \in 0 .. n /\ m - 1 \notin S
  BY <1>3, <1>4
<1>6. UpToCount(P, m - 1) < k /\ k <= UpToCount(P, m)
      /\ UpToCount(P, m - 1) \in Nat /\ UpToCount(P, m) \in Nat
  <2>1. m - 1 \in Nat /\ m \in Nat
    BY <1>4
  <2>2. UpToCount(P, m - 1) \in Nat /\ UpToCount(P, m) \in Nat
    BY <2>1, CountFacts
  <2> QED
    BY <1>1, <1>3, <1>5, <2>2
<1>7. m \in P /\ UpToCount(P, m) = k
  <2>1. UpToCount(P, m) = IF m \in P THEN UpToCount(P, m - 1) + 1 ELSE UpToCount(P, m - 1)
    BY <1>4, CountFacts
  <2> HIDE DEF S
  <2> QED
    BY <1>1, <1>6, <2>1
<1>8. Nth(P, k) \in P /\ UpToCount(P, Nth(P, k)) = k
  BY <1>7 DEF Nth, UpToCount
<1>9. ASSUME NEW i \in P, UpToCount(P, i) = k, i # Nth(P, k)
      PROVE  FALSE
  <2>1. i < Nth(P, k) \/ Nth(P, k) < i
    BY <1>8, <1>9
  <2>2. \A x, y \in P : x < y => UpToCount(P, x) < UpToCount(P, y)
    BY CountFacts
  <2>3. UpToCount(P, i) < UpToCount(P, Nth(P, k)) \/ UpToCount(P, Nth(P, k)) < UpToCount(P, i)
    BY <1>8, <1>9, <2>1, <2>2
  <2> QED
    BY <1>1, <1>8, <1>9, <2>3
<1> QED
  BY <1>8, <1>9

(* More numbers, all of them larger, do not change which is the k-th. *)
LEMMA NthOfMore ==
  ASSUME NEW n \in Nat, NEW Q, \A j \in Q : j \in 1 .. n,
         NEW P, \A i \in P : i \in Q, \A j \in Q, i \in P : j \in P \/ i < j,
         NEW k \in 1 .. Cardinality(P)
  PROVE  Nth(Q, k) = Nth(P, k)
<1>1. Nth(P, k) \in P /\ UpToCount(P, Nth(P, k)) = k
  BY NthFacts
<1>2. {j \in Q : j <= Nth(P, k)} = {j \in P : j <= Nth(P, k)}
  <2>1. \A j \in Q : ~(j <= Nth(P, k) /\ Nth(P, k) < j)
    BY <1>1
  <2> QED
    BY <1>1, <2>1, Zenon
<1>3. UpToCount(Q, Nth(P, k)) = k /\ Nth(P, k) \in Q
  BY <1>1, <1>2 DEF UpToCount
<1>4. k \in 1 .. Cardinality(Q)
  <2>1. P \subseteq Q /\ IsFiniteSet(Q) /\ Cardinality(Q) \in Nat /\ Cardinality(P) \in Nat
    BY CountFacts
  <2>2. Cardinality(P) <= Cardinality(Q)
    BY <2>1, FS_Subset
  <2> QED
    BY <2>1, <2>2
<1> QED
  BY <1>3, <1>4, NthFacts

(* What is collected: as many elements as there are positions. *)
LEMMA CollectFacts ==
  ASSUME NEW n \in Nat, NEW P, \A j \in P : j \in 1 .. n, NEW seq
  PROVE  /\ Cardinality(P) \in Nat
         /\ DOMAIN Collect(seq, P) = 1 .. Cardinality(P)
         /\ Len(Collect(seq, P)) = Cardinality(P)
         /\ \A k \in 1 .. Cardinality(P) : Collect(seq, P)[k] = seq[Nth(P, k)]
<1>1. Cardinality(P) \in Nat
  BY CountFacts
<1>2. /\ DOMAIN Collect(seq, P) = 1 .. Cardinality(P)
      /\ \A k \in 1 .. Cardinality(P) : Collect(seq, P)[k] = seq[Nth(P, k)]
  BY DEF Collect
<1>3. Len(Collect(seq, P)) = Cardinality(P)
  <2> DEFINE S == {seq[Nth(P, k)] : k \in 1 .. Cardinality(P)}
  <2>1. Collect(seq, P) \in [1 .. Cardinality(P) -> S]
    BY DEF Collect
  <2> HIDE DEF S
  <2> QED
    BY <1>1, <2>1
<1> QED
  BY <1>1, <1>2, <1>3

-----------------------------------------------------------------------------
(* Answers *)

(* A session answers once, from the lines it has loaded once. *)
Answered ==
  \A s \in Servers :
    answers[s] # NotAnswered =>
      loaded[s] # NotLoaded /\ answers[s] = Collect(loaded[s], Selected(loaded[s], s))

(* What a session selects depends on its lines and the query only. *)
LEMMA AnsweredStep == IInv /\ Answered /\ [Next]_vars => Answered'
<1> SUFFICES ASSUME IInv, Answered, [Next]_vars, NEW t \in Servers,
                    answers'[t] # NotAnswered
             PROVE  /\ loaded'[t] # NotLoaded
                    /\ answers'[t] = Collect(loaded[t], Selected(loaded[t], t))'
  BY DEF Answered
<1>1. query' = query
  BY DEF Next, vars, sessionVars, Load, Answer
<1>2. ASSUME loaded'[t] = loaded[t]
      PROVE  Collect(loaded[t], Selected(loaded[t], t))' = Collect(loaded[t], Selected(loaded[t], t))
  BY <1>2, <1>1 DEF Collect, Selected, Selects, FilterShare, ShareID
<1>3. CASE UNCHANGED sessionVars \/ UNCHANGED vars
  <2>1. loaded'[t] = loaded[t] /\ answers'[t] = answers[t]
    BY <1>3 DEF sessionVars, vars
  <2> QED
    BY <1>2, <2>1 DEF Answered
<1>4. ASSUME NEW s \in Servers, Load(s)
      PROVE  /\ loaded'[t] # NotLoaded
             /\ answers'[t] = Collect(loaded[t], Selected(loaded[t], t))'
  <2>1. answers[t] # NotAnswered /\ loaded[t] # NotLoaded /\ loaded[s] = NotLoaded
    BY <1>4 DEF Load, Answered
  <2>2. loaded'[t] = loaded[t] /\ answers'[t] = answers[t]
    BY <1>4, <2>1 DEF Load, IInv, TypeOK
  <2> QED
    BY <1>2, <2>1, <2>2 DEF Answered
<1>5. ASSUME NEW s \in Servers, Answer(s)
      PROVE  /\ loaded'[t] # NotLoaded
             /\ answers'[t] = Collect(loaded[t], Selected(loaded[t], t))'
  <2>1. loaded'[t] = loaded[t]
    BY <1>5 DEF Answer
  <2>2. CASE t # s
    <3>1. answers'[t] = answers[t]
      BY <1>5, <2>2 DEF Answer, IInv, TypeOK
    <3> QED
      BY <1>2, <2>1, <3>1 DEF Answered
  <2>3. CASE t = s
    <3>1. loaded[t] # NotLoaded /\ answers'[t] = Collect(loaded[t], Selected(loaded[t], t))
      BY <1>5, <2>3 DEF Answer, IInv, TypeOK
    <3> QED
      BY <1>2, <2>1, <3>1
  <2> QED
    BY <2>2, <2>3
<1> QED
  BY <1>3, <1>4, <1>5 DEF Next

AInv == IInv /\ Answered

LEMMA AnswersInv ==
  /\ Init => AInv
  /\ AInv /\ [Next]_vars => AInv'
<1>1. Init => Answered
  BY DEF Init, Answered
<1> QED
  BY <1>1, InitInv, StepInv, AnsweredStep DEF AInv

-----------------------------------------------------------------------------
(* What sessions select *)

(* The lines a session loaded from a file that missed no row before. *)
LEMMA UndisturbedLines ==
  ASSUME IInv, NEW s \in Servers, Undisturbed(s)
  PROVE  /\ Len(loaded[s]) \in 0 .. Len(table) /\ Len(table) \in Nat
         /\ DOMAIN loaded[s] = 1 .. Len(loaded[s])
         /\ \A i \in 1 .. Len(loaded[s]) :
              table[i] \in Rows /\ loaded[s][i] = SharedRow[s][table[i]]
<1>1. /\ loaded[s] \in Seq(Lines[s]) /\ Len(loaded[s]) <= sound[s] /\ sound[s] \in Nat
      /\ loaded[s] # NotLoaded /\ table \in Seq(Rows)
  BY DEF IInv, TypeOK, Undisturbed
<1>2. sound[s] <= Len(table) /\ Len(table) \in Nat /\ Len(loaded[s]) \in Nat
  BY <1>1 DEF IInv, Bounded, Offered
<1>3. DOMAIN loaded[s] = 1 .. Len(loaded[s])
  BY <1>1
<1>4. ASSUME NEW i \in 1 .. Len(loaded[s])
      PROVE  table[i] \in Rows /\ loaded[s][i] = SharedRow[s][table[i]]
  <2>1. i \in 1 .. sound[s] /\ i \in 1 .. Len(table)
    BY <1>1, <1>2
  <2> QED
    BY <1>1, <2>1 DEF IInv, Aligned
<1> QED
  BY <1>1, <1>2, <1>3, <1>4

(* A session that compares with shares of its own selects the rows that match. *)
LEMMA SelectsMatching ==
  ASSUME query \in Queries, NEW s \in Servers, ShareID(s) = s, NEW row \in Rows
  PROVE  Selects(SharedRow[s][row], s) <=> Matches(row)
<1>1. ASSUME NEW filter \in query.filters
      PROVE  SharedRow[s][row][filter.attribute] = FilterShare(filter, ShareID(s))
               <=> row[filter.attribute] = filter.condition
  <2>1. filter.attribute \in Attributes
    BY TableConstants
  <2>2. SharedRow[s][row][filter.attribute] = Share(row[filter.attribute], s)
    BY <2>1 DEF SharedRow
  <2>3. Share(row[filter.attribute], s) = Share(filter.condition, s)
          => row[filter.attribute] = filter.condition
    BY NoCollisions
  <2> QED
    BY <2>2, <2>3 DEF FilterShare
<1> QED
  BY <1>1 DEF Selects, Matches

LEMMA SelectedAreMatching ==
  ASSUME IInv, NEW s \in Servers, Undisturbed(s), ShareID(s) = s
  PROVE  Selected(loaded[s], s) = Matching(Len(loaded[s]))
<1>1. query \in Queries
  BY DEF IInv, TypeOK
<1>2. /\ DOMAIN loaded[s] = 1 .. Len(loaded[s])
      /\ \A i \in 1 .. Len(loaded[s]) : Selects(loaded[s][i], s) <=> Matches(table[i])
  BY <1>1, UndisturbedLines, SelectsMatching
<1> QED
  BY <1>2, Zenon DEF Selected, Matching

(* Positions of rows among the first n. *)
LEMMA MatchingRange ==
  ASSUME NEW n \in Nat
  PROVE  \A j \in Matching(n) : j \in 1 .. n
BY DEF Matching

(* Whatever faults the files had and whenever the sessions loaded them: every   *)
(* session but that of server 2 counts exactly the rows that match, of those it *)
(* loaded, as long as these are where they belong.                            *)
THEOREM CountsHold == Spec => []CountsAreExact
<1>1. AInv => CountsAreExact
  <2> SUFFICES ASSUME AInv, query.type = "COUNT", NEW s \in Servers \ {2},
                      answers[s] # NotAnswered, Undisturbed(s)
               PROVE  Len(answers[s]) = Cardinality(Matching(Len(loaded[s])))
    BY DEF CountsAreExact
  <2>1. answers[s] = Collect(loaded[s], Selected(loaded[s], s))
    BY DEF AInv, Answered
  <2>2. Selected(loaded[s], s) = Matching(Len(loaded[s])) /\ Len(loaded[s]) \in Nat
    BY SelectedAreMatching, UndisturbedLines DEF ShareID, AInv
  <2> QED
    BY <2>1, <2>2, MatchingRange, CollectFacts
<1> QED
  BY <1>1, AnswersInv, PTL DEF Spec

-----------------------------------------------------------------------------
(* What is reconstructed *)

(* The servers that have an i-th line. *)
HoldersOf(files, i) == {s \in Servers : i <= Len(files[s])}

LEMMA HolderFacts ==
  ASSUME NEW files, NEW i
  PROVE  /\ NumServers \in Nat /\ K \in Nat \ {0} /\ K < NumServers
         /\ \A s \in HoldersOf(files, i) : s \in 1 .. NumServers /\ i <= Len(files[s])
         /\ Cardinality(HoldersOf(files, i)) \in Nat
         /\ DOMAIN Holders(files, i) = 1 .. Cardinality(HoldersOf(files, i))
         /\ Len(Holders(files, i)) = Cardinality(HoldersOf(files, i))
         /\ \A k \in 1 .. Cardinality(HoldersOf(files, i)) :
              /\ Holders(files, i)[k] \in HoldersOf(files, i)
              /\ \A l \in 1 .. Cardinality(HoldersOf(files, i)) :
                   Holders(files, i)[k] = Holders(files, i)[l] => k = l
<1> DEFINE H == HoldersOf(files, i)
           ids == [s \in Servers |-> s]
<1>1. NumServers \in Nat /\ K \in Nat \ {0} /\ K < NumServers
  BY TableConstants
<1>2. \A s \in H : s \in 1 .. NumServers /\ i <= Len(files[s])
  BY DEF HoldersOf, Servers
<1>3. Holders(files, i) = Collect(ids, H)
  BY DEF Holders, HoldersOf
<1>4. \A s \in H : ids[s] = s
  BY <1>2 DEF Servers
<1> HIDE DEF H, ids
<1>5. /\ Cardinality(H) \in Nat
      /\ DOMAIN Collect(ids, H) = 1 .. Cardinality(H)
      /\ Len(Collect(ids, H)) = Cardinality(H)
      /\ \A k \in 1 .. Cardinality(H) : Collect(ids, H)[k] = ids[Nth(H, k)]
  BY <1>1, <1>2, CollectFacts
<1>6. ASSUME NEW k \in 1 .. Cardinality(H)
      PROVE  Nth(H, k) \in H /\ UpToCount(H, Nth(H, k)) = k
  BY <1>1, <1>2, NthFacts
<1>7. \A k \in 1 .. Cardinality(H) : Holders(files, i)[k] = Nth(H, k)
  BY <1>3, <1>4, <1>5, <1>6
<1>8. \A k, l \in 1 .. Cardinality(H) : Nth(H, k) = Nth(H, l) => k = l
  <2>1. \A k \in 1 .. Cardinality(H) : UpToCount(H, Nth(H, k)) = k
    BY <1>6
  <2> QED
    BY <2>1, Zenon
<1> QED
  BY <1>1, <1>2, <1>3, <1>5, <1>6, <1>7, <1>8 DEF H

(* A row comes back if enough servers have an i-th line and that of the first K *)
(* of them holds its shares.                                                 *)
LEMMA RowRestored ==
  ASSUME NEW files, NEW i, NEW row \in Rows, K <= Len(Holders(files, i)),
         \A k \in 1 .. K :
           files[Holders(files, i)[k]][i] = SharedRow[Holders(files, i)[k]][row]
  PROVE  [a \in Attributes |-> Reconstruct(Pairs(files, i, a))] = row
<1> DEFINE n == Len(Holders(files, i))
<1>1. /\ n \in Nat /\ K \in Nat /\ K <= n /\ DOMAIN Holders(files, i) = 1 .. n
      /\ \A k \in 1 .. n : /\ Holders(files, i)[k] \in Servers
                           /\ \A l \in 1 .. n :
                                Holders(files, i)[k] = Holders(files, i)[l] => k = l
  BY HolderFacts DEF Servers
<1> HIDE DEF n
<1>2. ASSUME NEW a \in Attributes
      PROVE  Reconstruct(Pairs(files, i, a)) = row[a]
  <2> DEFINE pair(k) == <<Holders(files, i)[k], files[Holders(files, i)[k]][i][a]>>
             servers == [k \in 1 .. K |-> Holders(files, i)[k]]
  <2>1. Pairs(files, i, a) = [k \in 1 .. n |-> pair(k)]
    BY <1>1 DEF Pairs
  <2>2. SubSeq(Pairs(files, i, a), 1, K) = [k \in 1 .. K |-> pair(k)]
    <3> DEFINE S == {pair(k) : k \in 1 .. n}
    <3>1. [k \in 1 .. n |-> pair(k)] \in [1 .. n -> S]
      OBVIOUS
    <3> HIDE DEF pair, S
    <3>2. [k \in 1 .. n |-> pair(k)] \in Seq(S) /\ Len([k \in 1 .. n |-> pair(k)]) = n
      BY <1>1, <3>1
    <3>3. SubSeq([k \in 1 .. n |-> pair(k)], 1, K) = [k \in 1 .. K |-> [j \in 1 .. n |-> pair(j)][k]]
      BY <1>1, <3>2
    <3>4. \A k \in 1 .. K : [j \in 1 .. n |-> pair(j)][k] = pair(k)
      BY <1>1
    <3> QED
      BY <2>1, <3>3, <3>4
  <2>3. /\ servers \in [1 .. K -> Servers]
        /\ \A k, l \in 1 .. K : servers[k] = servers[l] => k = l
    <3>1. \A k \in 1 .. K : k \in 1 .. n
      BY <1>1
    <3> QED
      BY <1>1, <3>1
  <2>4. \A k \in 1 .. K : pair(k) = <<servers[k], Share(row[a], servers[k])>>
    <3>1. \A s \in Servers : SharedRow[s][row][a] = Share(row[a], s)
      BY DEF SharedRow
    <3> QED
      BY <2>3, <3>1
  <2> HIDE DEF pair, servers
  <2>5. [k \in 1 .. K |-> pair(k)]
          = [k \in 1 .. K |-> <<servers[k], Share(row[a], servers[k])>>]
    BY <2>4
  <2>6. Interpolated([k \in 1 .. K |-> <<servers[k], Share(row[a], servers[k])>>]) = row[a]
    BY <2>3, SharesRestore
  <2> QED
    BY <2>2, <2>5, <2>6 DEF Reconstruct
<1>3. row = [a \in Attributes |-> row[a]]
  BY TableConstants
<1> QED
  BY <1>2, <1>3

(* Of the servers that are read, the last is none. *)
LEMMA ReadServers ==
  ASSUME NEW files, NEW i \in Nat \ {0}
  PROVE  \A s \in HoldersOf(LoadAllShares(files), i) :
           s \in 1 .. NumServers - 1 /\ LoadAllShares(files)[s] = files[s]
<1> SUFFICES ASSUME NEW s \in Servers, i <= Len(LoadAllShares(files)[s])
             PROVE  s \in 1 .. NumServers - 1 /\ LoadAllShares(files)[s] = files[s]
  BY DEF HoldersOf
<1>1. LoadAllShares(files)[s] = IF s < NumServers THEN files[s] ELSE <<>>
  BY DEF LoadAllShares
<1>2. Len(<<>>) = 0
  OBVIOUS
<1> QED
  BY <1>1, <1>2, TableConstants DEF Servers

(* Whatever faults the runs of the parser had, decrypting gives back every row   *)
(* of which enough files have the line, and those that are used missed none     *)
(* before: in particular every row before the first fault.                    *)
THEOREM RowsComeBack == Spec => []RowsSurvive
<1>1. IInv => RowsSurvive
  <2> DEFINE files == LoadAllShares(shares)
  <2> SUFFICES ASSUME IInv, NEW i \in DOMAIN Decrypt(files),
                      Len(Holders(files, i)) >= K,
                      \A k \in 1 .. K : i <= sound[Holders(files, i)[k]]
               PROVE  Decrypt(files)[i] = table[i]
    BY DEF RowsSurvive
  <2>1. files[1] = shares[1] /\ shares[1] \in Seq(Lines[1]) /\ 1 \in Servers
    <3>1. 1 \in Servers /\ 1 < NumServers
      BY TableConstants DEF Servers
    <3> QED
      BY <3>1 DEF LoadAllShares, IInv, TypeOK
  <2>2. i \in Nat \ {0} /\ i \in DOMAIN files[1]
    BY <2>1 DEF Decrypt
  <2> HIDE DEF files
  <2>3. ASSUME NEW k \in 1 .. K
        PROVE  /\ Holders(files, i)[k] \in Servers
               /\ files[Holders(files, i)[k]] = shares[Holders(files, i)[k]]
               /\ i \in 1 .. sound[Holders(files, i)[k]]
    <3>1. k \in 1 .. Cardinality(HoldersOf(files, i))
      BY HolderFacts
    <3>2. Holders(files, i)[k] \in HoldersOf(files, i)
      BY <3>1, HolderFacts
    <3>3. \A s \in HoldersOf(files, i) : files[s] = shares[s]
      BY <2>2, ReadServers DEF files
    <3>4. Holders(files, i)[k] \in Servers /\ sound \in [Servers -> Nat]
      BY <3>2 DEF HoldersOf, IInv, TypeOK
    <3> QED
      BY <2>2, <3>2, <3>3, <3>4
  <2>4. table[i] \in Rows
    <3>1. 1 \in 1 .. K
      BY TableConstants
    <3>2. PICK s \in Servers : i \in 1 .. sound[s]
      BY <2>3, <3>1
    <3>3. sound[s] \in Nat /\ sound[s] <= Len(table) /\ Len(table) \in Nat /\ table \in Seq(Rows)
      BY DEF IInv, TypeOK, Bounded, Offered
    <3> QED
      BY <3>2, <3>3
  <2>5. \A k \in 1 .. K : files[Holders(files, i)[k]][i] = SharedRow[Holders(files, i)[k]][table[i]]
    BY <2>3 DEF IInv, Aligned
  <2>6. [a \in Attributes |-> Reconstruct(Pairs(files, i, a))] = table[i]
    <3>1. K <= Len(Holders(files, i))
      BY HolderFacts
    <3> QED
      BY <2>4, <2>5, <3>1, RowRestored
  <2>7. ~(Len(Holders(files, i)) < K)
    BY HolderFacts
  <2> QED
    BY <2>2, <2>6, <2>7 DEF Decrypt
<1>2. Init => IInv
  BY InitInv
<1>3. IInv /\ [Next]_vars => IInv'
  BY StepInv
<1> QED
  BY <1>1, <1>2, <1>3, PTL DEF Spec

(* The lines a session answers with are shares of the matching rows, in order. *)
LEMMA AnswerLines ==
  ASSUME AInv, NEW s \in Servers, answers[s] # NotAnswered, Undisturbed(s), ShareID(s) = s
  PROVE  /\ Cardinality(Matching(Len(loaded[s]))) \in Nat
         /\ DOMAIN answers[s] = 1 .. Cardinality(Matching(Len(loaded[s])))
         /\ Len(answers[s]) = Cardinality(Matching(Len(loaded[s])))
         /\ \A i \in 1 .. Cardinality(Matching(Len(loaded[s]))) :
              /\ Collect(table, Matching(Len(table)))[i] \in Rows
              /\ answers[s][i] = SharedRow[s][Collect(table, Matching(Len(table)))[i]]
<1> DEFINE P == Matching(Len(loaded[s]))
           Q == Matching(Len(table))
<1>1. /\ answers[s] = Collect(loaded[s], P)
      /\ Len(loaded[s]) \in Nat /\ Len(table) \in Nat /\ Len(loaded[s]) <= Len(table)
      /\ \A i \in 1 .. Len(loaded[s]) :
           table[i] \in Rows /\ loaded[s][i] = SharedRow[s][table[i]]
  <2>1. IInv /\ answers[s] = Collect(loaded[s], Selected(loaded[s], s))
    BY DEF AInv, Answered
  <2> QED
    BY <2>1, SelectedAreMatching, UndisturbedLines
<1>2. /\ \A j \in P : j \in 1 .. Len(loaded[s])
      /\ \A j \in Q : j \in 1 .. Len(table)
      /\ \A j \in P : j \in Q
      /\ \A j \in Q, i \in P : j \in P \/ i < j
  BY <1>1 DEF Matching
<1> HIDE DEF P, Q
<1>3. /\ Cardinality(P) \in Nat
      /\ DOMAIN Collect(loaded[s], P) = 1 .. Cardinality(P)
      /\ Len(Collect(loaded[s], P)) = Cardinality(P)
      /\ \A i \in 1 .. Cardinality(P) : Collect(loaded[s], P)[i] = loaded[s][Nth(P, i)]
  BY <1>1, <1>2, CollectFacts
<1>4. Cardinality(P) <= Cardinality(Q) /\ Cardinality(Q) \in Nat
  <2>1. P \subseteq Q /\ IsFiniteSet(Q) /\ Cardinality(Q) \in Nat
    BY <1>1, <1>2, CountFacts
  <2> QED
    BY <2>1, FS_Subset
<1>5. ASSUME NEW i \in 1 .. Cardinality(P)
      PROVE  /\ Nth(P, i) \in 1 .. Len(loaded[s]) /\ Nth(Q, i) = Nth(P, i)
             /\ Collect(table, Q)[i] = table[Nth(Q, i)]
  <2>1. Nth(P, i) \in P
    BY <1>1, <1>2, NthFacts
  <2>2. Nth(Q, i) = Nth(P, i)
    BY <1>1, <1>2, NthOfMore
  <2>3. i \in 1 .. Cardinality(Q)
    BY <1>3, <1>4
  <2>4. Collect(table, Q)[i] = table[Nth(Q, i)]
    BY <1>1, <1>2, <2>3, CollectFacts
  <2> QED
    BY <1>2, <2>1, <2>2, <2>4
<1>6. ASSUME NEW i \in 1 .. Cardinality(P)
      PROVE  /\ Collect(table, Q)[i] \in Rows
             /\ answers[s][i] = SharedRow[s][Collect(table, Q)[i]]
  BY <1>1, <1>3, <1>5
<1> QED
  BY <1>1, <1>3, <1>6 DEF P, Q

(* Whenever the sessions loaded their files: from the results of those whose    *)
(* lines are where they belong, MIN and MAX reconstruct the matching rows in     *)
(* order, as far as enough sessions had loaded them, and no other row.        *)
THEOREM ResultsComeBack == Spec => []ResultsReconstruct
<1>1. AInv => ResultsReconstruct
  <2> DEFINE found(s) == Cardinality(Matching(Len(loaded[s])))
             files == LoadAllShares(answers)
             matching == Collect(table, Matching(Len(table)))
  <2> SUFFICES ASSUME AInv, AllAnswered, query.type = "MIN", \A s \in Servers : Undisturbed(s)
               PROVE  /\ Len(Decrypt(files)) = found(1)
                      /\ \A i \in DOMAIN Decrypt(files) :
                           Cardinality({s \in 1 .. NumServers - 1 : i <= found(s)}) >= K
                             => Decrypt(files)[i] = matching[i]
    BY DEF ResultsReconstruct
  <2>1. ASSUME NEW s \in Servers
        PROVE  /\ found(s) \in Nat /\ DOMAIN answers[s] = 1 .. found(s)
               /\ Len(answers[s]) = found(s)
               /\ \A i \in 1 .. found(s) :
                    matching[i] \in Rows /\ answers[s][i] = SharedRow[s][matching[i]]
    <3>1. ShareID(s) = s /\ answers[s] # NotAnswered /\ Undisturbed(s)
      BY DEF ShareID, AllAnswered
    <3> QED
      BY <3>1, AnswerLines
  <2>2. NumServers \in Nat /\ K \in Nat \ {0} /\ K < NumServers /\ 1 \in Servers
    BY TableConstants DEF Servers
  <2>3. \A s \in 1 .. NumServers - 1 : s \in Servers /\ files[s] = answers[s]
    BY <2>2 DEF LoadAllShares, Servers
  <2>4. files[1] = answers[1]
    BY <2>2, <2>3
  <2> HIDE DEF files, matching, found
  <2>5. DOMAIN Decrypt(files) = 1 .. found(1)
    BY <2>1, <2>2, <2>4 DEF Decrypt
  <2>6. Len(Decrypt(files)) = found(1)
    <3> DEFINE S == {Decrypt(files)[i] : i \in 1 .. found(1)}
    <3>1. Decrypt(files) = [i \in 1 .. found(1) |-> Decrypt(files)[i]]
      BY <2>1, <2>2, <2>4, <2>5 DEF Decrypt
    <3>2. Decrypt(files) \in [1 .. found(1) -> S]
      BY <3>1
    <3> HIDE DEF S
    <3> QED
      BY <2>1, <2>2, <3>2
  <2>7. ASSUME NEW i \in 1 .. found(1),
               Cardinality({s \in 1 .. NumServers - 1 : i <= found(s)}) >= K
        PROVE  Decrypt(files)[i] = matching[i]
    <3>1. i \in Nat \ {0} /\ i \in DOMAIN files[1]
      BY <2>1, <2>2, <2>4
    <3>2. HoldersOf(files, i) = {s \in 1 .. NumServers - 1 : i <= found(s)}
      <4>1. \A s \in HoldersOf(files, i) :
              s \in 1 .. NumServers - 1 /\ files[s] = answers[s]
        BY <3>1, ReadServers DEF files
      <4>2. \A s \in 1 .. NumServers - 1 : s \in HoldersOf(files, i) <=> i <= found(s)
        BY <2>1, <2>3 DEF HoldersOf
      <4> QED
        BY <4>1, <4>2
    <3>3. Len(Holders(files, i)) \in Nat /\ K <= Len(Holders(files, i))
      BY <2>7, <3>2, HolderFacts
    <3>4. ASSUME NEW k \in 1 .. K
          PROVE  files[Holders(files, i)[k]][i] = SharedRow[Holders(files, i)[k]][matching[i]]
      <4>1. k \in 1 .. Cardinality(HoldersOf(files, i))
        BY <3>3, HolderFacts
      <4>2. Holders(files, i)[k] \in HoldersOf(files, i)
        BY <4>1, HolderFacts
      <4>3. Holders(files, i)[k] \in 1 .. NumServers - 1 /\ i <= found(Holders(files, i)[k])
        BY <4>2, <3>2
      <4>4. Holders(files, i)[k] \in Servers /\ files[Holders(files, i)[k]] = answers[Holders(files, i)[k]]
        BY <4>3, <2>3
      <4>5. i \in 1 .. found(Holders(files, i)[k])
        BY <4>3, <4>4, <2>1, <3>1
      <4> QED
        BY <4>4, <4>5, <2>1
    <3>5. matching[i] \in Rows
      BY <2>1, <2>2
    <3>6. [a \in Attributes |-> Reconstruct(Pairs(files, i, a))] = matching[i]
      BY <3>3, <3>4, <3>5, RowRestored
    <3>7. ~(Len(Holders(files, i)) < K)
      BY <3>3, <2>2
    <3> QED
      BY <3>1, <3>6, <3>7 DEF Decrypt
  <2> QED
    BY <2>5, <2>6, <2>7
<1> QED
  BY <1>1, AnswersInv, PTL DEF Spec

(* The lines a session answers with are shares of the rows that match, of those  *)
(* it loaded.                                                                *)
LEMMA AnswerRows ==
  ASSUME AInv, NEW s \in Servers, answers[s] # NotAnswered, Undisturbed(s), ShareID(s) = s
  PROVE  LET rows == Collect(table, Matching(Len(loaded[s])))
         IN  \E n \in 0 .. MaxRows :
               /\ DOMAIN answers[s] = 1 .. n /\ DOMAIN rows = 1 .. n
               /\ \A i \in 1 .. n : rows[i] \in Rows /\ answers[s][i] = SharedRow[s][rows[i]]
<1> DEFINE m == Len(loaded[s])
           P == Matching(m)
           n == Cardinality(P)
<1>1. /\ answers[s] = Collect(loaded[s], P)
      /\ m \in Nat /\ Len(table) \in Nat /\ m <= Len(table)
      /\ \A i \in 1 .. m : table[i] \in Rows /\ loaded[s][i] = SharedRow[s][table[i]]
  <2>1. IInv /\ answers[s] = Collect(loaded[s], Selected(loaded[s], s))
    BY DEF AInv, Answered
  <2> QED
    BY <2>1, SelectedAreMatching, UndisturbedLines
<1>2. \A j \in P : j \in 1 .. m
  BY <1>1, MatchingRange
<1>3. m <= MaxRows /\ MaxRows \in Nat
  BY <1>1, TableConstants DEF AInv, IInv, TypeOK
<1> HIDE DEF m, P
<1>4. n \in 0 .. MaxRows
  <2>1. IsFiniteSet(1 .. m) /\ Cardinality(1 .. m) = m
    <3>1. 1 \in Int /\ m \in Int /\ (1 > m <=> m = 0) /\ m - 1 + 1 = m
      BY <1>1
    <3> QED
      BY <3>1, FS_Interval
  <2>2. n \in Nat /\ P \in SUBSET (1 .. m)
    BY <1>1, <1>2, CountFacts
  <2>3. n <= m
    BY <2>1, <2>2, FS_Subset
  <2> HIDE DEF n
  <2> QED
    BY <1>1, <1>3, <2>2, <2>3
<1>5. ASSUME NEW seq
      PROVE  /\ DOMAIN Collect(seq, P) = 1 .. n
             /\ \A i \in 1 .. n : Collect(seq, P)[i] = seq[Nth(P, i)]
  BY <1>1, <1>2, CollectFacts
<1>6. \A i \in 1 .. n : Nth(P, i) \in 1 .. m
  BY <1>1, <1>2, NthFacts
<1> HIDE DEF n
<1>7. /\ DOMAIN Collect(table, P) = 1 .. n /\ DOMAIN answers[s] = 1 .. n
      /\ \A i \in 1 .. n : /\ Collect(table, P)[i] \in Rows
                           /\ answers[s][i] = SharedRow[s][Collect(table, P)[i]]
  BY <1>1, <1>5, <1>6
<1> QED
  BY <1>4, <1>7 DEF P, m

(* Whenever the sessions loaded their files, if the first K loaded the same rows *)
(* and their lines are where they belong: the sums they answer with restore the  *)
(* sum of the rows that match.                                               *)
THEOREM SumsComeBack == Spec => []SumReconstructs
<1>1. AInv => SumReconstructs
  <2> DEFINE rows == Collect(table, Matching(Len(loaded[1])))
             a == query.select
  <2> SUFFICES ASSUME AInv, AllAnswered, query.type = "SUM",
                      \A s \in 1 .. K : Undisturbed(s) /\ Len(loaded[s]) = Len(loaded[1])
               PROVE  Reconstruct(ServerSums) = SumOf(Column(rows))
    BY DEF SumReconstructs
  <2>1. NumServers \in Nat /\ K \in Nat \ {0} /\ K < NumServers /\ a \in Attributes
    BY TableConstants DEF AInv, IInv, TypeOK
  <2>2. \A s \in 1 .. K : s \in Servers
    BY <2>1 DEF Servers
  <2>3. ASSUME NEW s \in 1 .. K
        PROVE  \E n \in 0 .. MaxRows :
                 /\ DOMAIN answers[s] = 1 .. n /\ DOMAIN rows = 1 .. n
                 /\ \A i \in 1 .. n : rows[i] \in Rows /\ answers[s][i] = SharedRow[s][rows[i]]
    <3>1. s \in Servers /\ ShareID(s) = s /\ answers[s] # NotAnswered /\ Undisturbed(s)
      BY <2>2 DEF ShareID, AllAnswered
    <3>2. Len(loaded[s]) = Len(loaded[1])
      OBVIOUS
    <3> QED
      BY <3>1, <3>2, AnswerRows
  <2> HIDE DEF rows
  <2>4. PICK n \in 0 .. MaxRows : DOMAIN rows = 1 .. n /\ \A i \in 1 .. n : rows[i] \in Rows
    <3>1. 1 \in 1 .. K
      BY <2>1
    <3> QED
      BY <2>3, <3>1
  <2> DEFINE values == [i \in 1 .. n |-> rows[i]]
             pairs == [k \in 1 .. K |-> <<k, SumOf([i \in 1 .. n |-> Share(values[i][a], k)])>>]
  <2>5. values \in [1 .. n -> Rows]
    BY <2>4
  <2>6. Interpolated(pairs) = SumOf([i \in 1 .. n |-> values[i][a]])
    <3> HIDE DEF values
    <3> QED
      BY <2>1, <2>4, <2>5, SumsRestore
  <2>7. Column(rows) = [i \in 1 .. n |-> values[i][a]]
    BY <2>4 DEF Column
  <2>8. ASSUME NEW s \in 1 .. K
        PROVE  Column(answers[s]) = [i \in 1 .. n |-> Share(values[i][a], s)]
    <3>1. PICK l \in 0 .. MaxRows :
            /\ DOMAIN answers[s] = 1 .. l /\ DOMAIN rows = 1 .. l
            /\ \A i \in 1 .. l : rows[i] \in Rows /\ answers[s][i] = SharedRow[s][rows[i]]
      BY <2>3
    <3>2. /\ DOMAIN answers[s] = 1 .. n
          /\ \A i \in 1 .. n : rows[i] \in Rows /\ answers[s][i] = SharedRow[s][rows[i]]
      BY <2>4, <3>1
    <3>3. \A i \in 1 .. n : answers[s][i][a] = Share(values[i][a], s)
      <4> SUFFICES ASSUME NEW i \in 1 .. n PROVE answers[s][i][a] = Share(values[i][a], s)
        OBVIOUS
      <4>1. values[i] = rows[i] /\ rows[i] \in Rows /\ answers[s][i] = SharedRow[s][rows[i]]
        BY <3>2
      <4>2. \A row \in Rows : SharedRow[s][row] = [b \in Attributes |-> Share(row[b], s)]
        BY <2>2 DEF SharedRow
      <4>3. answers[s][i] = [b \in Attributes |-> Share(rows[i][b], s)]
        BY <4>1, <4>2
      <4> HIDE DEF values, a
      <4>4. answers[s][i][a] = Share(rows[i][a], s)
        BY <2>1, <4>3
      <4> QED
        BY <4>1, <4>4, Zenon
    <3> QED
      BY <3>2, <3>3 DEF Column
  <2>9. SubSeq(ServerSums, 1, K) = pairs
    <3>1. \A k \in 1 .. K : ServerSums[k] = pairs[k]
      BY <2>2, <2>8 DEF ServerSums
    <3> DEFINE S == {ServerSums[k] : k \in Servers}
    <3>2. ServerSums \in Seq(S) /\ Len(ServerSums) = NumServers
      <4>1. ServerSums \in [1 .. NumServers -> S]
        BY DEF ServerSums, Servers
      <4> HIDE DEF S
      <4> QED
        BY <2>1, <4>1
    <3>3. \A k \in 1 .. K : ServerSums[k] \in S
      BY <2>2
    <3> HIDE DEF S, pairs
    <3>4. SubSeq(ServerSums, 1, K) = [k \in 1 .. K |-> ServerSums[k]]
      BY <2>1, <3>2
    <3>5. [k \in 1 .. K |-> ServerSums[k]] = [k \in 1 .. K |-> pairs[k]]
      BY <3>1
    <3> QED
      BY <3>4, <3>5 DEF pairs
  <2> HIDE DEF pairs, values
  <2> QED
    BY <2>6, <2>7, <2>9 DEF Reconstruct
<1> QED
  BY <1>1, AnswersInv, PTL DEF Spec

=============================================================================
