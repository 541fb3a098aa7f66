-------------------------------- MODULE Sharing --------------------------------
(***************************************************************************)
(* Shamir's scheme as shamir_parser.cpp, sql_handler.cpp and the programs    *)
(* that reconstruct results use it: over the integers, not modulo a prime,  *)
(* and with coefficients drawn from a generator that is seeded with the     *)
(* secret, so that equal secrets have equal shares.                         *)
(*                                                                         *)
(* The code computes with doubles. Here numbers are exact, as they are      *)
(* there for values below 2^53.                                             *)
(***************************************************************************)
EXTENDS Integers, Sequences

LOCAL Sets == INSTANCE FiniteSetsExt

CONSTANTS
  K,                  \* how many shares restore a secret
  Coefficient(_, _)   \* the i-th coefficient for a secret

(* The share of server x: the value of the polynomial at x. *)
Share(secret, x) ==
  secret + Sets!MapThenSumSet(LAMBDA i : Coefficient(secret, i) * x ^ i, 1 .. K - 1)

LOCAL Product(factor(_), S) ==
  Sets!MapThenFoldSet(LAMBDA p, q : p * q, 1, factor, LAMBDA T : CHOOSE t \in T : TRUE, S)

(* The Lagrange coefficient of the i-th of the first K pairs <<x, y>>, as a  *)
(* fraction.                                                                *)
Numerator(pairs, i) == Product(LAMBDA j : -pairs[j][1], (1 .. K) \ {i})

Denominator(pairs, i) == Product(LAMBDA j : pairs[i][1] - pairs[j][1], (1 .. K) \ {i})

(* std::round of a fraction: to the nearest integer, halves away from zero. *)
Rounded(n, d) ==
  LET magnitude == (2 * (IF n < 0 THEN -n ELSE n) + d) \div (2 * d)
  IN  IF n < 0 THEN -magnitude ELSE magnitude

(* What K pairs interpolate at 0. *)
Interpolated(pairs) ==
  LET scale == Product(LAMBDA i : Denominator(pairs, i) * Denominator(pairs, i), 1 .. K)
      term(i) == pairs[i][2] * Numerator(pairs, i) * (scale \div Denominator(pairs, i))
  IN  Rounded(Sets!MapThenSumSet(term, 1 .. K), scale)

(* The code is given any number of pairs and uses the first K. *)
Reconstruct(pairs) == Interpolated(SubSeq(pairs, 1, K))

=============================================================================
