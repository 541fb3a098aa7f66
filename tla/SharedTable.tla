------------------------------ MODULE SharedTable ------------------------------
(***************************************************************************)
(* A table of line items as secret shares: the Shamir parser appends one    *)
(* line per row to the file of each server; a session of a server loads its *)
(* file (into an ORAM: CloakORAM), answers a query by comparing shares, and  *)
(* writes the lines it selected; other programs reconstruct the table from  *)
(* the files, or rows and sums from the results.                            *)
(*                                                                         *)
(* The parser and the sessions are separate programs: they run in any       *)
(* order, and a run of the parser may be cut short and repeated.            *)
(***************************************************************************)
EXTENDS Sequences, FiniteSets, Sharing

LOCAL Sets == INSTANCE FiniteSetsExt

CONSTANTS
  NumServers,   \* numServers
  Attributes,   \* columns of a line item
  Rows,         \* line items: attribute -> the integer it is converted to
  Queries,      \* shipped queries, conditions converted as the rows are
  MaxRows,      \* bound: rows the parser is given, over all its runs
  MaxFaults,    \* bound: files that do not open, runs that are cut short
  NotLoaded,    \* the session has not loaded its file
  NotAnswered,  \* the session has not answered
  NoRow         \* what is reconstructed of a row with too few shares: anything

Servers == 1 .. NumServers

ASSUME TableConstants ==
  /\ K \in Nat \ {0} /\ NumServers \in Nat /\ K < NumServers
  /\ MaxRows \in Nat /\ MaxFaults \in Nat
  /\ Rows \subseteq [Attributes -> Int]
  /\ \A query \in Queries :
       /\ \A filter \in query.filters : filter.attribute \in Attributes
       /\ query.type = "SUM" => query.select \in Attributes

(* No share of a condition is that of another value in its column, at any    *)
(* server. (Which values collide depends on the random coefficients; those   *)
(* of the queries do not.)                                                  *)
ASSUME NoCollisions ==
  \A query \in Queries, row \in Rows, s \in Servers : \A filter \in query.filters :
    Share(row[filter.attribute], s) = Share(filter.condition, s)
      => row[filter.attribute] = filter.condition

(* Any K shares of a value restore it, which is what Lagrange interpolation   *)
(* is for.                                                                  *)
ASSUME SharesRestore ==
  \A row \in Rows, a \in Attributes, servers \in [1 .. K -> Servers] :
    (\A i, j \in 1 .. K : servers[i] = servers[j] => i = j)
      => Interpolated([k \in 1 .. K |-> <<servers[k], Share(row[a], servers[k])>>]) = row[a]

(* The sum of a sequence of numbers. *)
SumOf(numbers) == Sets!MapThenSumSet(LAMBDA i : numbers[i], DOMAIN numbers)

(* And the sums of the shares of several rows restore the sum of their values, *)
(* which is what is linear about it.                                        *)
ASSUME SumsRestore ==
  \A n \in 0 .. MaxRows : \A rows \in [1 .. n -> Rows], a \in Attributes :
    Interpolated([k \in 1 .. K |-> <<k, SumOf([i \in 1 .. n |-> Share(rows[i][a], k)])>>])
      = SumOf([i \in 1 .. n |-> rows[i][a]])

VARIABLES
  table,    \* history: the rows the parser was given so far
  shares,   \* server -> its file, a sequence of lines
  saving,   \* the server whose file is next, 0 between rows
  faults,   \* number of faults so far
  sound,    \* history: server -> lines before the first one that it missed
  loaded,   \* server -> the lines its session holds
  query,    \* the query the sessions answer
  answers   \* server -> the lines it selected

vars == <<table, shares, saving, faults, sound, loaded, query, answers>>

writerVars == <<table, shares, saving, faults, sound>>
sessionVars == <<loaded, query, answers>>

Init ==
  /\ table = <<>>
  /\ shares = [s \in Servers |-> <<>>]
  /\ saving = 0
  /\ faults = 0
  /\ sound = [s \in Servers |-> 0]
  /\ loaded = [s \in Servers |-> NotLoaded]
  /\ query \in Queries
  /\ answers = [s \in Servers |-> NotAnswered]

(* The k-th of a set of numbers. *)
Nth(numbers, k) == CHOOSE i \in numbers : Cardinality({j \in numbers : j <= i}) = k

(* What a loop over a sequence collects that skips all but some positions. *)
Collect(seq, positions) == [k \in 1 .. Cardinality(positions) |-> seq[Nth(positions, k)]]

-----------------------------------------------------------------------------
(* The parser *)

(* The line for a row in the file of server s. *)
SharedRow == [s \in Servers |-> [row \in Rows |-> [a \in Attributes |-> Share(row[a], s)]]]

(* The parser takes up the next row. *)
Encrypt(row) ==
  /\ saving = 0 /\ Len(table) < MaxRows
  /\ table' = Append(table, row)
  /\ saving' = 1
  /\ UNCHANGED <<shares, faults, sound>>

(* Faulty variant: the loop does not end at the last server. *)
NextServerBeyond == saving + 1

(* The loop over the servers. *)
NextServer == IF saving < NumServers THEN saving + 1 ELSE 0

(* Faulty variant: opens the file without ios::app. *)
SaveShareOver ==
  /\ saving # 0
  /\ shares' = [shares EXCEPT ![saving] = <<SharedRow[saving][table[Len(table)]]>>]
  /\ sound' = IF sound[saving] = Len(table) - 1
              THEN [sound EXCEPT ![saving] = Len(table)] ELSE sound
  /\ saving' = NextServer
  /\ UNCHANGED <<table, faults>>

(* Faulty variant: a line for each attribute. *)
SaveShareLines ==
  /\ saving # 0
  /\ shares' = [shares EXCEPT ![saving] =
                  @ \o [i \in 1 .. Cardinality(Attributes) |-> SharedRow[saving][table[Len(table)]]]]
  /\ sound' = IF sound[saving] = Len(table) - 1
              THEN [sound EXCEPT ![saving] = Len(table)] ELSE sound
  /\ saving' = NextServer
  /\ UNCHANGED <<table, faults>>

(* One turn of the loop of saveAllShares. *)
SaveShare ==
  /\ saving # 0
  /\ shares' = [shares EXCEPT ![saving] = Append(@, SharedRow[saving][table[Len(table)]])]
  /\ sound' = IF sound[saving] = Len(table) - 1
              THEN [sound EXCEPT ![saving] = Len(table)] ELSE sound
  /\ saving' = NextServer
  /\ UNCHANGED <<table, faults>>

(* A file that does not open is passed over in silence. *)
SaveFails ==
  /\ saving # 0 /\ faults < MaxFaults
  /\ saving' = NextServer
  /\ faults' = faults + 1
  /\ UNCHANGED <<table, shares, sound>>

(* The parser dies between two files. *)
Crash ==
  /\ saving # 0 /\ faults < MaxFaults
  /\ saving' = 0
  /\ faults' = faults + 1
  /\ UNCHANGED <<table, shares, sound>>

-----------------------------------------------------------------------------
(* The sessions *)

(* loadSecretShares, the containers and back: the lines as the file has them *)
(* when the session is set up. Files of other servers do not matter.         *)
Load(s) ==
  /\ loaded[s] = NotLoaded
  /\ loaded' = [loaded EXCEPT ![s] = shares[s]]
  /\ UNCHANGED <<query, answers>>

(* Faulty variant: all programs take id_0. *)
ShareIDZero(s) == 1

(* Which of the shares of a condition the program of server s compares with.  *)
(* The COUNT queries of server 2 (test-sss.cpp) take id_0, that of server 1.  *)
ShareID(s) == IF s = 2 /\ query.type = "COUNT" THEN 1 ELSE s

(* The share the appender writes into the query file as id_(s - 1). *)
FilterShare(filter, s) == Share(filter.condition, s)

(* Faulty variant: the comparisons of an OR, whatever the clause. *)
SelectsAny(line, s) ==
  \E filter \in query.filters : line[filter.attribute] = FilterShare(filter, ShareID(s))

(* The comparisons of a query. *)
Selects(line, s) ==
  LET found(filter) == line[filter.attribute] = FilterShare(filter, ShareID(s))
  IN  IF query.whereClause = "OR" THEN \E filter \in query.filters : found(filter)
                                  ELSE \A filter \in query.filters : found(filter)

Selected(lines, s) == {i \in DOMAIN lines : Selects(lines[i], s)}

(* A session answers the query and writes the result file. *)
Answer(s) ==
  /\ loaded[s] # NotLoaded /\ answers[s] = NotAnswered
  /\ answers' = [answers EXCEPT ![s] = Collect(loaded[s], Selected(loaded[s], s))]
  /\ UNCHANGED <<loaded, query>>

Next ==
  \/ /\ \/ \E row \in Rows : Encrypt(row)
        \/ SaveShare \/ SaveFails \/ Crash
     /\ UNCHANGED sessionVars
  \/ /\ \E s \in Servers : Load(s) \/ Answer(s)
     /\ UNCHANGED writerVars

Spec == Init /\ [][Next]_vars

-----------------------------------------------------------------------------
(* Reconstruction, by programs that change nothing *)

(* The files of all servers but the last, which the loop leaves out. *)
LoadAllShares(files) == [s \in Servers |-> IF s < NumServers THEN files[s] ELSE <<>>]

(* The servers whose file has an i-th line, in order. *)
Holders(files, i) ==
  Collect([s \in Servers |-> s], {s \in Servers : i <= Len(files[s])})

(* Faulty variant: numbers the shares by their position. *)
PairsByPosition(files, i, a) ==
  LET holders == Holders(files, i)
  IN  [k \in DOMAIN holders |-> <<k, files[holders[k]][i][a]>>]

(* transformShares: the shares of attribute a of the i-th row. *)
Pairs(files, i, a) ==
  LET holders == Holders(files, i)
  IN  [k \in DOMAIN holders |-> <<holders[k], files[holders[k]][i][a]>>]

(* The loop of main, which takes the number of rows from the first server. *)
Decrypt(files) ==
  [i \in DOMAIN files[1] |->
     IF Len(Holders(files, i)) < K THEN NoRow
     ELSE [a \in Attributes |-> Reconstruct(Pairs(files, i, a))]]

AllAnswered == \A s \in Servers : answers[s] # NotAnswered

(* The selected column of lines or rows. *)
Column(lines) == [i \in DOMAIN lines |-> lines[i][query.select]]

(* Faulty variant: servers counted from 0. *)
ServerSumsFromZero == [s \in Servers |-> <<s - 1, SumOf(Column(answers[s]))>>]

(* What each server's selected lines add up to. *)
ServerSums == [s \in Servers |-> <<s, SumOf(Column(answers[s]))>>]

-----------------------------------------------------------------------------
(* Properties *)

(* Lines for server s. *)
Lines == [s \in Servers |-> {SharedRow[s][row] : row \in Rows}]

(* Type correctness; a file and its session hold lines for their own server. *)
TypeOK ==
  /\ table \in Seq(Rows) /\ Len(table) <= MaxRows
  /\ DOMAIN shares = Servers /\ \A s \in Servers : shares[s] \in Seq(Lines[s])
  /\ saving \in 0 .. NumServers /\ (saving # 0 => table # <<>>)
  /\ faults \in 0 .. MaxFaults
  /\ sound \in [Servers -> Nat]
  /\ DOMAIN loaded = Servers
  /\ \A s \in Servers : loaded[s] \in Seq(Lines[s]) \cup {NotLoaded}
  /\ query \in Queries
  /\ DOMAIN answers = Servers

(* The i-th line of a file, and of a session that has loaded it, holds the   *)
(* server's shares of the i-th row, up to the first row the file missed,     *)
(* whatever else was interrupted, repeated or loaded early.                  *)
Aligned ==
  \A s \in Servers :
    /\ sound[s] <= Len(shares[s])
    /\ \A i \in 1 .. sound[s] :
         /\ shares[s][i] = SharedRow[s][table[i]]
         /\ loaded[s] # NotLoaded /\ i <= Len(loaded[s]) => loaded[s][i] = shares[s][i]

(* How many rows have been offered to the file of server s. *)
Offered(s) == IF saving # 0 /\ s >= saving THEN Len(table) - 1 ELSE Len(table)

(* No file is longer than the table, and none lacks more lines than there   *)
(* were faults: a file that fails keeps its distance, and does not fall back *)
(* further with every row.                                                  *)
FilesInStep ==
  \A s \in Servers : Offered(s) - faults <= Len(shares[s]) /\ Len(shares[s]) <= Offered(s)

(* Decrypting gives back every row of which the first K servers that have a  *)
(* line at its place missed none before: rows before a fault, and a row      *)
(* whose saving was cut short after K servers.                              *)
RowsSurvive ==
  LET files == LoadAllShares(shares)
      rows == Decrypt(files)
  IN  \A i \in DOMAIN rows :
        LET holders == Holders(files, i)
        IN  Len(holders) >= K /\ (\A k \in 1 .. K : i <= sound[holders[k]])
              => rows[i] = table[i]

(* The condition of the query on rows. *)
Matches(row) ==
  LET holds(filter) == row[filter.attribute] = filter.condition
  IN  IF query.whereClause = "OR" THEN \E filter \in query.filters : holds(filter)
                                  ELSE \A filter \in query.filters : holds(filter)

(* The positions of the rows that match, of the first n. *)
Matching(n) == {i \in 1 .. n : Matches(table[i])}

(* A session holds only lines that are where they belong. *)
Undisturbed(s) == loaded[s] # NotLoaded /\ Len(loaded[s]) <= sound[s]

(* From the result files of sessions that loaded undisturbed lines, MIN and  *)
(* MAX reconstruct the rows that match, in order, as far as K of the servers *)
(* they read had them, and no other row, no matter when each session loaded  *)
(* its file.                                                                *)
ResultsReconstruct ==
  AllAnswered /\ query.type = "MIN" /\ (\A s \in Servers : Undisturbed(s))
    => LET found(s) == Cardinality(Matching(Len(loaded[s])))
           rows == Decrypt(LoadAllShares(answers))
       IN  /\ Len(rows) = found(1)
           /\ \A i \in DOMAIN rows :
                Cardinality({s \in 1 .. NumServers - 1 : i <= found(s)}) >= K
                  => rows[i] = Collect(table, Matching(Len(table)))[i]

(* From sessions that loaded the same rows, SUM reconstructs their sum: the  *)
(* sums of shares are the shares of the sum.                                *)
SumReconstructs ==
  /\ AllAnswered /\ query.type = "SUM"
  /\ \A s \in 1 .. K : Undisturbed(s) /\ Len(loaded[s]) = Len(loaded[1])
  => Reconstruct(ServerSums) = SumOf(Column(Collect(table, Matching(Len(loaded[1])))))

(* Every server counts the rows that match, server 2 excepted (ShareID). *)
CountsAreExact ==
  query.type = "COUNT"
    => \A s \in Servers \ {2} :
         answers[s] # NotAnswered /\ Undisturbed(s)
           => Len(answers[s]) = Cardinality(Matching(Len(loaded[s])))

=============================================================================
