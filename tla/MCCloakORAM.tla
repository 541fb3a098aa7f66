------------------------------ MODULE MCCloakORAM ------------------------------
(* Instances of CloakORAM for TLC: containers "v" and "w" of two bytes, as   *)
(* long as a block, and "s" of one byte.                                     *)
EXTENDS CloakORAM, TLC

MCLeaves == LeavesOf(Height)

MCLocations == LocationsOf(Height)

BucketTable ==
  [level \in LevelsOf(Height), leaf \in LeavesOf(Height) |->
     BucketForLevelLeaf(Height, level, leaf)]

MCBucketFor(level, leaf) == BucketTable[level, leaf]

Payload(value, kept, size) == [value |-> value, kept |-> kept, size |-> size]

MCEmpty == Payload("none", 0, 0)

MCZeros == Payload("zeros", 2, 2)

FullContainers == {Payload("v", 2, 2), Payload("w", 2, 2)}

OneContainer == {Payload("v", 2, 2)}

MixedContainers == {Payload("v", 2, 2), Payload("s", 1, 1)}

MCData ==
  {d \in [value : {"none", "zeros", "v", "w", "s"}, kept : 0 .. 2, size : 0 .. 2] :
     d.kept <= d.size}

MCPadded(d) == IF d.size < BlockSize THEN [d EXCEPT !.size = BlockSize] ELSE d

Symmetry == Permutations(Blocks)

=============================================================================
