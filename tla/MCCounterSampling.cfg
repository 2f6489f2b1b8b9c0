SPECIFICATION Spec
CONSTANTS
  Cpus = {0, 1, 2}
  Whole = {"sda", "sdb"}
  Virtual = {"dm-0"}
  BaseOf <- MCBaseOf
  Pids = {7, 8, 9}
  Limit = 2
  PEAK_FLOOR = 1
  PEAK_DECAY = 50
  MaxWork = 3
  MaxChanges = 3
INVARIANTS
  CpuUsageExact
  NoSpuriousBurst
  OwnShareOnly
CHECK_DEADLOCK FALSE
