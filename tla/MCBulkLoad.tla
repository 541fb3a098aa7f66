------------------------------ MODULE MCBulkLoad ------------------------------
(* Instances of BulkLoad for TLC. *)
EXTENDS BulkLoad, TLC

MCLeaves == LeavesOf(Height)

MCLocations == 0 .. StorageCapacity - 1

BucketTable ==
  [level \in LevelsOf(Height), leaf \in LeavesOf(Height) |->
     BucketForLevelLeaf(Height, level, leaf)]

MCBucketFor(level, leaf) == BucketTable[level, leaf]

MCPadded(d) == IF d = "empty" THEN "zeros" ELSE d

Symmetry == Permutations(Blocks)

=============================================================================
