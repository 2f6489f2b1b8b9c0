SPECIFICATION Spec
CONSTANTS
  Chips = {"cpu", "nvme1", "nvme2", "acpi"}
  Zones = {"zone1", "zone2", "zone3"}
  Cards = {"nv", "amd"}
  Machines <- MCMachines
  Name <- MCName
  Device <- MCDevice
  Mirrors <- MCMirrors
  Label <- MCLabel
  Vendor <- MCVendor
  LabelRank <- MCRank
  CpuNames <- MCCpuNames
  CpuTypes <- MCCpuTypes
  MaxTries = 2
  MaxBoots = 2
  MaxChanges = 2
INVARIANTS
  PickedSensorShown
  PickerUnambiguous
  GpuRowsOneCard
PROPERTIES
  LateSourceFound
CHECK_DEADLOCK FALSE
