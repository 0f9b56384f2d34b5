SPECIFICATION SSpec
CONSTANTS
  s1 = s1
  s2 = s2
  Sessions = {s1, s2}
  tab = tab
  twin = twin
  stamp = stamp
  tabs = tabs
  stamps = stamps
  Paths = {tab, twin, stamp}
  Stamps = {stamp}
  Names = {tabs, stamps}
  Flat <- FlatNames
  MaxVersion <- Bounds
  MaxClock = 2
  Units <- MCUnits
  Canonical <- MCCanonical
  Chunk = 2
  Machines <- MCMachines
  MaxFaults = 2
  MaxChanges = 1
  Texts = {"a", "b"}
  MaxOps = 2
  MaxBreaks = 2
  MaxWrites = 1
SYMMETRY Alike
INVARIANT
  StampsAreBackedUp
