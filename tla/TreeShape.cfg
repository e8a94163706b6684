\* The shape of the tree under every command, request and operation of the
\* pointer, without global fullscreen.
SPECIFICATION TreeSpec
CONSTANTS
  Views = {v1, v2, v3}
  Splits = {p1, p2}
  Workspaces = {w1, w2}
  Layouts = {"horiz", "vert"}
  None = None
  Modes = {"none", "workspace"}
  ToOutput = FALSE
  MaxSteps = 5
  DragSteps = 4
SYMMETRY Symmetry
INVARIANTS
  WellPlaced
  NoLostWindow
  ScratchpadHoldsTrees
  TreeSurvivesDrag
CHECK_DEADLOCK FALSE
