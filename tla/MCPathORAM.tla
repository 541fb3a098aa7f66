----------------------------- MODULE MCPathORAM -----------------------------
(***************************************************************************)
(* Instances of PathORAM for TLC: the tree of TreeGeometry, payloads        *)
(* "zeros" and "v" (whole blocks), "empty" (no bytes: padded to zeros), and  *)
(* "big" (more than a block).                                               *)
(***************************************************************************)
EXTENDS PathORAM, TreeGeometry, TLC

MCLeaves == LeavesOf(Height)

MCLocations == LocationsOf(Height)

BucketTable ==
  [level \in LevelsOf(Height), leaf \in LeavesOf(Height) |->
     BucketForLevelLeaf(Height, level, leaf)]

MCBucketFor(level, leaf) == BucketTable[level, leaf]

MCPadded(d) == IF d = "empty" THEN "zeros" ELSE d

Symmetry == Permutations(Blocks)

=============================================================================
