SPECIFICATION FairSpec
CONSTANTS
  Symbols = {sym1, sym2}
  AutoCycles = {auto}
  LiveCycles = {live}
  Syncs = {sync}
  Reconciles = {recon}
  EntrySides = {1}
  MaxOpen = 1
  MaxRows = 2
  MaxTrades = 1
  MaxFailures = 1
INVARIANTS
  TypeOK
  RowsCapped
  LoopTracksItsEntries
  AlarmExplained
PROPERTIES
  DriftSettles
