----------------------------- MODULE MCSharedTable -----------------------------
(* Instances of SharedTable for TLC: two filtered columns and one to be       *)
(* aggregated. Conditions are 8 on ship mode and 5 on line status. One      *)
(* coefficient per secret; those of quantities 1 and 2 make their shares     *)
(* collide at server 1.                                                     *)
EXTENDS SharedTable

MCCoefficient(secret, i) == CASE secret = 8 -> 4
                              [] secret = 5 -> 3
                              [] secret = 2 -> 6
                              [] OTHER -> 7

Row(mode, status, quantity) == [mode |-> mode, status |-> status, quantity |-> quantity]

MCRows == {Row(8, 5, 1), Row(8, 0, 2), Row(0, 0, 1)}

Query(type, clause) ==
  [type |-> type, select |-> "quantity", whereClause |-> clause,
   filters |-> {[attribute |-> "mode", condition |-> 8],
                [attribute |-> "status", condition |-> 5]}]

MCQueries ==
  {Query("COUNT", "AND"), Query("SUM", "AND"), Query("MIN", "OR")}

=============================================================================
