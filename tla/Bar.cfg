SPECIFICATION BarSpec
CONSTANTS
  \* Swaybar
  Outputs = {"DP-1"}
  Configs <- MCConfigs
  NoCommand = NoCommand
  \* Tray
  Bars = {b1, b2}
  Apps = {a1}
  Nobody = Nobody
  MaxStarts = 5
  MaxQueue = 2
INVARIANTS
  LayersFollow
  
  CommandInStep
  BarsAgree
PROPERTIES
  ItemShown
\* The bar may end (a lost connection, or a status command it waits for), and
\* trays and applications stop once MaxStarts is used up.
CHECK_DEADLOCK FALSE
