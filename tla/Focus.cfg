SPECIFICATION AllSpec
CONSTANTS
  \* KeyboardFocus
  v1 = v1
  v2 = v2
  panel = panel
  menu = menu
  popup = popup
  t1 = t1
  Nothing = Nothing
  Desktop = Desktop
  Views = {v1, v2}
  Layers = {panel, menu}
  Unmanaged = {popup}
  Constrained = {v1}
  t2 = t2
  TextInputs = {t1, t2}
  Modes <- LayerModes
  Levels <- LayerLevels
  OutputsOf <- LayerOutputs
  Client <- ClientOf
  \* SessionLock
  Outputs = {o1, o2, o3}
  Surfaces = {f1, f2, f3}
  Locks = {l1, l2, l3}
  None = None
  \* Xwayland
  Windows = {w1, w2}
  Owners = {m1, m2}
  NoOwner = NoOwner
  NoWindow = NoWindow
INVARIANTS
  
  
  LockHolds
  OwnerFollowsWindow
  NothingRunsForTheDead
PROPERTIES
  LockedUntilUnlocked
\* Some locks and windows may stop for good.
CHECK_DEADLOCK FALSE
