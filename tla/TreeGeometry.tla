----------------------------- MODULE TreeGeometry -----------------------------
(***************************************************************************)
(* The bucket tree of Path ORAM, as path-oram/src/oram.cpp numbers it: a    *)
(* complete binary tree of h levels in heap order. Location 1 is the root, *)
(* the children of location n are 2n and 2n + 1, locations 1 .. 2^h - 1     *)
(* hold a bucket and location 0 is never used. A leaf is named by its       *)
(* position in the last level, 0 .. 2^(h-1) - 1.                            *)
(*                                                                         *)
(* All operators are pure and take the height as an argument, so a run can  *)
(* compare them over several heights at once.                               *)
(***************************************************************************)
EXTENDS Naturals

LOCAL Sets == INSTANCE FiniteSetsExt

LeavesOf(h) == 0 .. 2^(h - 1) - 1

LocationsOf(h) == 1 .. 2^h - 1

LevelsOf(h) == 0 .. h - 1

(* Faulty variant: shifts once too often. *)
BucketForLevelShifted(h, level, leaf) ==
  (leaf + 2^(h - 1)) \div 2^(h - level)

(* oram.cpp adds 2^(h-1) to a leaf, which gives the leaf's own location, and *)
(* shifts right once for each level between the leaf and the one asked for. *)
BucketForLevelLeaf(h, level, leaf) ==
  (leaf + 2^(h - 1)) \div 2^(h - 1 - level)

ReadPathLocations(h, leaf) ==
  {BucketForLevelLeaf(h, level, leaf) : level \in LevelsOf(h)}

(* Faulty variant: compares one level too far up. *)
CanIncludeOneAbove(h, pathLeaf, blockPosition, level) ==
  level = 0 \/ BucketForLevelLeaf(h, level - 1, pathLeaf)
               = BucketForLevelLeaf(h, level - 1, blockPosition)

(* Do the paths to two leaves share their bucket on a level? *)
CanIncludeAt(h, pathLeaf, blockPosition, level) ==
  BucketForLevelLeaf(h, level, pathLeaf) = BucketForLevelLeaf(h, level, blockPosition)

(* floor(log2(location)) *)
LevelOfLocation(location) ==
  CHOOSE level \in 0 .. location : 2^level <= location /\ location < 2^(level + 1)

(* Faulty variant: forgets that the upper end is inclusive. *)
LeavesForLocationOneMore(h, location) ==
  LET below == 2^(h - LevelOfLocation(location) - 1)
  IN  <<location * below - 2^(h - 1), (location + 1) * below - 2^(h - 1)>>

(* The range of leaves under a location, as load() uses it. *)
LeavesForLocation(h, location) ==
  LET below == 2^(h - LevelOfLocation(location) - 1)
  IN  <<location * below - 2^(h - 1), (location + 1) * below - 1 - 2^(h - 1)>>

(* The search of path_oram_Cloak_Query/src/oram.cpp for the level of a     *)
(* bucket it has downloaded: it takes the location for a leaf and stops on  *)
(* the first level whose bucket on that path is the location.               *)
DownloadLevels(h, location) ==
  {level \in LevelsOf(h) : BucketForLevelLeaf(h, level, location) = location}

(* The bucket whose MAC it then checks, if the search finds a level. *)
DownloadChecks(h, location) ==
  LET level == Sets!Min(DownloadLevels(h, location))
      leaf  == IF level = 0 THEN 0 ELSE location * 2^(h - level - 1)
  IN  BucketForLevelLeaf(h, level, leaf)

=============================================================================
