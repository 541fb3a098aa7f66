---------------------------- MODULE ModularSharing ----------------------------
(***************************************************************************)
(* Shamir's scheme as the trusted proxy uses it, from helpers.cpp and         *)
(* shamir.cpp of path-oram: over the integers modulo a prime, in signed words *)
(* of the machine, with the remainder of C++, which takes the sign of the     *)
(* dividend. A product that does not fit a word wraps around.                *)
(***************************************************************************)
EXTENDS Integers, Sequences

CONSTANTS
  PRIME,
  Width      \* bits of a word

Word(x) == ((x + 2^(Width - 1)) % 2^Width) - 2^(Width - 1)

Rem(a) == IF a >= 0 THEN a % PRIME ELSE -((-a) % PRIME)

(* a * b by doubling a once for each bit of b. *)
modmult(a, b) ==
  LET doubled[i \in 0 .. Width] ==
        IF i = 0 THEN Rem(a) ELSE Rem(Word(2 * doubled[i - 1]))
      sum[i \in 0 .. Width] ==
        IF i = 0 THEN 0
        ELSE IF (b \div 2^(i - 1)) % 2 = 1 THEN Rem(Word(sum[i - 1] + doubled[i - 1]))
        ELSE sum[i - 1]
  IN  sum[Width]

(* The polynomials of degree k - 1 that are the secret at 0. *)
generateCoefficients(k, secret) ==
  {c \in [0 .. k - 1 -> 0 .. PRIME - 1] :
     c[0] = secret /\ \A i \in 1 .. k - 1 : c[i] # 0}

Power(number, exponent) ==
  LET current[i \in 0 .. exponent] ==
        IF i = 0 THEN 1 ELSE Rem(Word(current[i - 1] * number))
  IN  current[exponent]

(* The n pairs of a polynomial, in the order of x. *)
calculateSecretPairs(n, coefficients) ==
  LET value(number) ==
        LET sum[e \in DOMAIN coefficients] ==
              IF e = 0 THEN coefficients[0]
              ELSE Rem(Rem(sum[e - 1]) + modmult(Power(number, e), Rem(coefficients[e])))
        IN  sum[CHOOSE last \in DOMAIN coefficients : last + 1 \notin DOMAIN coefficients]
  IN  [number \in 1 .. n |-> [x |-> number, y |-> value(number)]]

(* With fewer shares than restore a secret, there are none. *)
split(secret, n, k) ==
  IF n < k THEN {<<>>} ELSE {calculateSecretPairs(n, c) : c \in generateCoefficients(k, secret)}

(* <<x, y>> with a * x + b * y = gcd(a, b) *)
gcdExtended[a \in 0 .. PRIME, b \in 0 .. PRIME] ==
  IF b = 0 THEN <<1, 0>>
  ELSE LET rest == gcdExtended[b, a % b]
       IN  <<rest[2], rest[1] - rest[2] * (a \div b)>>

(* Faulty variant: takes a negative number for its absolute value. *)
InverseUnsigned(lower) ==
  LET y == gcdExtended[PRIME, IF lower < 0 THEN -lower ELSE lower][2]
  IN  Rem(y + PRIME)

(* The inverse of a remainder, which may be negative. *)
Inverse(lower) ==
  LET y == gcdExtended[PRIME, IF lower < 0 THEN -lower ELSE lower][2]
  IN  Rem((IF lower < 0 THEN -y ELSE y) + PRIME)

(* What all the pairs given interpolate at 0. *)
reconstructSecret(pairs) ==
  LET product(i, factor(_)) ==
        LET sofar[j \in 0 .. Len(pairs)] ==
              IF j = 0 THEN 1
              ELSE IF j = i THEN sofar[j - 1]
              ELSE Rem(Word(sofar[j - 1] * factor(j)))
        IN  sofar[Len(pairs)]
      upper(i) == product(i, LAMBDA j : -pairs[j].x)
      lower(i) == product(i, LAMBDA j : pairs[i].x - pairs[j].x)
      term(i)  == modmult(modmult(upper(i), Inverse(lower(i))), Rem(pairs[i].y))
      secret[i \in 0 .. Len(pairs)] ==
        IF i = 0 THEN 0 ELSE Rem(Word(PRIME + secret[i - 1] + term(i)))
  IN  secret[Len(pairs)]

(* k is not looked at: all the shares there are count. *)
restore(k, pairs) == reconstructSecret(pairs)

=============================================================================
