SPECIFICATION LayoutSpec
CONSTANTS
  v1 = v1
  v2 = v2
  v3 = v3
  v4 = v4
  outer = outer
  inner = inner
  c1 = c1
  c2 = c2
  c3 = c3
  \* Arranging
  Views = {v1, v2, v3, v4}
  Splits <- MCSplits
  Kids <- MCKids
  Layouts = {"horiz", "vert", "tabbed"}
  Areas <- MCAreas
  Gaps = {0, 7}
  Outer = 2
  MinSane <- MCMinSane
  Tiny = 10
  Titlebar = 24
  Amounts = {15}
  Percents = {10}
  Sizes = {0, 300}
  MaxSteps = 2
  \* Floating
  Screens <- MCScreens
  WsGap = 4
  Border = 2
  FloatMin <- MCMin
  FloatMax <- MCMax
  ViewMin <- MCViewMin
  ViewMax <- MCViewMax
  Natural <- MCNatural
  Contents <- MCContents
  Cursors <- MCCursors
  Amount = 15
  Wants = {0, 301}
  Spots <- MCSpots
  MaxMoves = 4
  \* ScrollLayout
  Columns = {c1, c2, c3}
  NoColumn = NoColumn
  Boxes = {4, 2}
  Lefts = {2}
  ColumnGap = 0
  MinColumn = 1
  Whole = 4
  Usual = 2
  Fractions = {2, 3}
  Moves = {1}
  Animated = TRUE
  MaxInputs = 3
INVARIANTS
  TilesParent
  CameraShowsFocus
PROPERTIES
  ResizesExactly
  OppositeEdgeStays
  UnmaximizeRestores
  EdgeHandoff
\* Behaviours end when the bounds are used up.
CHECK_DEADLOCK FALSE
