SPECIFICATION Spec
CONSTANTS
  A = A
  B = B
  Outputs = {A, B}
  Noop = Noop
  Ids = {w1, w2, w3}
  Windows = {c1}
  Numbers = {1, 2, 3}
  Assigned <- MCAssigned
  Bindings <- MCBindings
  Startup <- MCStartup
  MaxEvents = 2
  None = None
SYMMETRY Symmetry
INVARIANTS
  WorkspacesConsistent
PROPERTIES
  NoneLeftIdle
  HotplugRestores
CHECK_DEADLOCK FALSE
