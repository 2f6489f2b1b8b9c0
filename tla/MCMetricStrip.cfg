SPECIFICATION StripSpec
CONSTANTS
  METRIC_IDS <- MCIds
  SavedOrders <- MCSaved
  Height <- MCHeight
  Spacing = 1
INVARIANTS
  ShownOnce
  DropLandsAsShown
