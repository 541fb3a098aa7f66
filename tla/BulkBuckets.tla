------------------------------ MODULE BulkBuckets ------------------------------
(***************************************************************************)
(* How ORAM::load of path-oram/src/oram.cpp makes buckets out of n records:   *)
(* how many, of which size and for which locations of a tree of h levels.     *)
(* Records are dealt z at a time, and a loop fills what is left of the last    *)
(* bucket with dummies. The source computes the spacing in floating point;    *)
(* here it is exact.                                                        *)
(***************************************************************************)
EXTENDS Integers

CONSTANT NumberRange   \* how many values the type number has: 2^64

maxLocation(h) == 2^h

BucketCount(z, n) == (n + z - 1) \div z

(* Faulty variant: starts at location 0, which no path visits. *)
LoadLocationFromZero(h, iteration, count) == (iteration * maxLocation(h)) \div count

LoadLocation(h, iteration, count) == 1 + (iteration * maxLocation(h)) \div count

(* A difference of two numbers that are less than that. *)
Unsigned(difference) == IF difference < 0 THEN difference + NumberRange ELSE difference

(* Faulty variant: compares numbers with a sign. *)
DummiesSigned(z, size) ==
  CHOOSE i \in 0 .. z :
    /\ ~(i < size + i - z)
    /\ \A j \in 0 .. i - 1 : j < size + j - z

(* The loop that adds dummies to a bucket of that size counts up to what its    *)
(* condition takes for the room left, although that is a negative number.      *)
Dummies(z, size) ==
  CHOOSE i \in 0 .. z :
    /\ ~(i < Unsigned(size + i - z))
    /\ \A j \in 0 .. i - 1 : j < Unsigned(size + j - z)

(* The buckets that load hands to the storage: the full ones, and one of the    *)
(* records that are left, if any are.                                        *)
RequestCount(z, n) == n \div z + (IF n % z = 0 THEN 0 ELSE 1)

RequestSize(z, n, iteration) ==
  IF iteration < n \div z THEN z ELSE (n % z) + Dummies(z, n % z)

=============================================================================
