------------------------------ MODULE TreePaths ------------------------------
(***************************************************************************)
(* The index arithmetic of TreeGeometry against the tree it stands for: the  *)
(* inputs are trees with a path, another one and a location.                 *)
(***************************************************************************)
EXTENDS TreeGeometry, FiniteSets, PureInput

CONSTANT MaxHeight   \* height of the highest tree

ASSUME HeightAssumption == MaxHeight \in Nat

Trees ==
  UNION {[kind : {"tree"}, height : {h}, leaf : LeavesOf(h), other : LeavesOf(h),
          location : LocationsOf(h)] : h \in 1 .. MaxHeight}

(* The tree itself: the root is 1, and n is the parent of 2n and 2n + 1. *)

IsBranch(path, lowest) ==
  /\ 1 \in path /\ lowest \in path
  /\ \A n \in path \ {1} : \E p \in path : n \in {2 * p, 2 * p + 1}
  /\ \A n \in path \ {lowest} : \E c \in path : c \in {2 * n, 2 * n + 1}

LeafLocations(h) == {n \in LocationsOf(h) : 2 * n \notin LocationsOf(h)}

(* The buckets bucketForLevelLeaf gives over all levels form the branch      *)
(* from the root to the leaf, one bucket per level, and the leaves are       *)
(* numbered from left to right.                                              *)
PathIsBranch ==
  input.kind = "tree" =>
    LET h    == input.height
        path == ReadPathLocations(h, input.leaf)
    IN  \E lowest \in LeafLocations(h) :
          /\ IsBranch(path, lowest)
          /\ Cardinality(path) = h
          /\ Cardinality({n \in LeafLocations(h) : n < lowest}) = input.leaf

(* Two paths share a bucket exactly down to the level where they part: once  *)
(* canInclude refuses a level it refuses all below, and the buckets shared   *)
(* are those of the levels it accepts. Eviction relies on this: a block       *)
(* accepted on a level lies in a bucket of its own path.                      *)
CanIncludeIsShared ==
  input.kind = "tree" =>
    LET h       == input.height
        shared  == ReadPathLocations(h, input.leaf) \cap ReadPathLocations(h, input.other)
        accepts == {level \in LevelsOf(h) : CanIncludeAt(h, input.leaf, input.other, level)}
    IN  /\ shared = {BucketForLevelLeaf(h, level, input.leaf) : level \in accepts}
        /\ \A level \in accepts, above \in LevelsOf(h) : above <= level => above \in accepts

(* leavesForLocation gives exactly the leaves whose path goes through the    *)
(* location: load() may map a block of that bucket to any of them and to no  *)
(* other.                                                                    *)
LeavesAreThoseBelow ==
  input.kind = "tree" =>
    LET range == LeavesForLocation(input.height, input.location)
    IN  range[1] .. range[2] =
          {x \in LeavesOf(input.height) : input.location \in ReadPathLocations(input.height, x)}

=============================================================================
