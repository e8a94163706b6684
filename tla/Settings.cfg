SPECIFICATION SettingsSpec
CONSTANTS
  left = left
  right = right
  high = high
  low = low
  d1 = d1
  d2 = d2
  k1 = k1
  star = star
  s0 = s0
  s1 = s1
  mon = mon
  unset = unset
  \* OutputConfig
  Outputs <- MCOutputs
  Modes <- MCModes
  Formats <- MCFormats
  Works <- MCWorks
  Cost <- MCCost
  Budgets = {2, 3}
  Commands <- MCCommands
  MaxCommands = 2
  MaxPlugs = 2
  NotSet = NotSet
  Off = Off
  Failed = Failed
  \* InputConfig
  Devices = {d1, d2}
  Kinds = {k1}
  KindOf <- MCKind
  Star = star
  SeatNames = {s0, s1}
  Seat0 = s0
  Screens = {mon}
  Compiles <- MCCompiles
  InputLines <- MCInputLines
  SeatLines <- MCSeatLines
  Scripts <- MCScripts
  MaxLines = 3
  MaxFound = 2
  Unset = unset
  NoConfig = NoConfig
INVARIANTS
  OutputsObey
  SearchIsComplete
  DevicesObey
  KeymapsCompile
PROPERTIES
  HotplugKeepsLit
\* Behaviours end when the bounds are used up.
CHECK_DEADLOCK FALSE
