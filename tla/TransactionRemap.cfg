\* An xdg window mapped, unmapped and mapped again, an Xwayland one, and a node
\* without a view.
CONSTANTS
  c1 = c1
  c2 = c2
  c3 = c3
  w1 = w1
  v1 = v1
  v2 = v2
  NoContainer = NoContainer
  Containers = {c1, c2, c3}
  Others = {w1}
  Views = {v1, v2}
  ViewOf <- MCViewOf
  Xwayland = {v2}
  Floating = {c1, c3}
  Pos = {1}
  Size = {1, 2}
  CloseAnimation = TRUE
  MaxChanges = 3

SPECIFICATION FairSpec
INVARIANTS
  NodesLive
  QueueMoves
PROPERTIES
  LayoutIsAtomic
  LayoutSettles
CHECK_DEADLOCK FALSE
