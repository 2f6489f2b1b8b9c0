CONSTANTS
  Names = {"A", "B"}
  Geometries <- MCGeometries
  RingSizes = {80, 180, 440}
  Counts = {4, 6}
  Margins = {0, 30}
  Spreads = {0, 65}
  FontScales = {100, 150}
  Cores = {7, 24, 64}
  Stored <- MCStored
  Platforms = {"x11", "wayland"}
  MaxChanges = 3
  Disks <- MCDisks
  Rates <- MCRates
  Records <- MCRecords
  Limit = 2
  MaxRecords = 3
SPECIFICATION DisplaySpec
INVARIANTS
  RingsAtMargin
  HaloUncut
  RingsFit
  ReadoutsAgree
CHECK_DEADLOCK FALSE
