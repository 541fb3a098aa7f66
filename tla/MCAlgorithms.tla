---------------------------- MODULE MCAlgorithms ----------------------------
(***************************************************************************)
(* The pure algorithms of path-oram over all small inputs: the index          *)
(* arithmetic of the tree against the tree it stands for, the buckets of a     *)
(* bulk load against what the storage takes, and the formats in which          *)
(* secrets, files, keys and stashes are written, where what is read back must  *)
(* be what was written.                                                     *)
(***************************************************************************)
EXTENDS LoadPlans, FileFormats, ModularSharing

CONSTANTS
  minShares, nSharesTotal,
  MaxFileSize,
  Blocks

(* Shares are few enough for the products to fit a word. With PRIME =        *)
(* 992429121339693967 and words of 64 bits that is up to 9 shares.          *)
ASSUME RoomInWord == nSharesTotal * PRIME < 2^(Width - 1)

Secrets ==
  [kind : {"secret"}, secret : 0 .. PRIME - 1,
   coefficients : [1 .. minShares - 1 -> 1 .. PRIME - 1],
   holders : {S \in SUBSET (1 .. nSharesTotal) : Cardinality(S) >= minShares}]

Inputs ==
  Trees \cup Loads \cup Secrets \cup Files({[i \in 1 .. size |-> i] : size \in 0 .. MaxFileSize})
    \cup Keys({1, 2}, {0, 3}) \cup Stashes(Blocks, {1, 2})

Init == input \in Inputs

(* Nothing happens: the states are the inputs. *)
Next == UNCHANGED input

Spec == Init /\ [][Next]_input

-----------------------------------------------------------------------------
(* Any minShares shares restore the secret, and so do more: restore() takes  *)
(* all that were found, whatever it is told. Signs and remainders of C++,    *)
(* negative products and inverses come out right.                           *)
SharesRestore ==
  input.kind = "secret" =>
    LET coefficients == [i \in 0 .. minShares - 1 |->
                           IF i = 0 THEN input.secret ELSE input.coefficients[i]]
        all  == calculateSecretPairs(nSharesTotal, coefficients)
        mine == SelectSeq(all, LAMBDA pair : pair.x \in input.holders)
    IN  restore(minShares, mine) = input.secret

=============================================================================
