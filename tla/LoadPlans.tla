------------------------------- MODULE LoadPlans -------------------------------
(***************************************************************************)
(* The buckets of BulkBuckets against what the storage takes: the inputs are   *)
(* trees, sizes of buckets and numbers of records that load does not refuse.   *)
(***************************************************************************)
EXTENDS BulkBuckets, TreePaths

CONSTANT MaxZ   \* most blocks per bucket

ASSUME LoadAssumption == MaxZ \in Nat /\ NumberRange \in Nat /\ 2 * MaxZ < NumberRange

Loads ==
  {load \in [kind : {"load"}, height : 1 .. MaxHeight, Z : 1 .. MaxZ,
             records : 1 .. MaxZ * maxLocation(MaxHeight)] :
     load.records <= load.Z * maxLocation(load.height)}

(* load makes as many buckets as it has counted, and each of exactly Z blocks,  *)
(* which is all that the storage accepts: the loop that pads the last one       *)
(* compares with a negative difference of unsigned numbers, and still stops     *)
(* where it should. No two buckets go to the same location, so none writes      *)
(* over the records of another, and none to one beyond the limit.             *)
LoadFillsBuckets ==
  input.kind = "load" =>
    LET count == BucketCount(input.Z, input.records)
        location(iteration) == LoadLocation(input.height, iteration, count)
    IN  /\ RequestCount(input.Z, input.records) = count
        /\ \A iteration \in 0 .. count - 1 :
             /\ RequestSize(input.Z, input.records, iteration) = input.Z
             /\ location(iteration) \in 1 .. maxLocation(input.height)
        /\ \A i, j \in 0 .. count - 1 : i < j => location(i) < location(j)

=============================================================================
