CONSTANTS
  nSharesTotal = 3
  minShares = 2
  MaxGenerations = 2
  MaxKills = 2
  NoFile = NoFile
  Cut = Cut
  Garbage = Garbage
SPECIFICATION Spec
INVARIANTS
  EnoughSharesRecover
  ShortageKeepsData
