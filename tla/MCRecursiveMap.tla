--------------------------- MODULE MCRecursiveMap ---------------------------
(* Instances of RecursiveMap for TLC: the trees and payloads of MCPathORAM. *)
EXTENDS RecursiveMap, TreeGeometry

MCLeaves == LeavesOf(Height)

MCLocations == LocationsOf(Height)

BucketTable ==
  [level \in LevelsOf(Height), leaf \in LeavesOf(Height) |->
     BucketForLevelLeaf(Height, level, leaf)]

MCBucketFor(level, leaf) == BucketTable[level, leaf]

MCPadded(d) == d

(* Nothing, and a GET of one block with a PUT of another, in one call. *)
MCBatches ==
  {<<>>, <<[block |-> CHOOSE b \in Blocks : TRUE, write |-> FALSE, data |-> Empty],
           [block |-> CHOOSE b \in Blocks : b # (CHOOSE c \in Blocks : TRUE),
            write |-> TRUE, data |-> "v"]>>}

=============================================================================
