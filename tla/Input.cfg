SPECIFICATION InputSpec
CONSTANTS
  k1 = k1
  k2 = k2
  plain = plain
  custom = custom
  a = a
  shift = shift
  default = default
  \* Bindings
  AnyInput = AnyInput
  AnyGroup = AnyGroup
  NoBinding = NoBinding
  NoKey = NoKey
  Nobody = Nobody
  Keyboards = {k1, k2}
  Virtuals = {}
  Classes = {plain, custom}
  DefaultClass = plain
  Keys = {a, shift}
  ModKeys = {shift}
  Surfaces = {w1}
  Inhibiting = {}
  BindingModes = {default}
  DefaultMode = default
  ConfigFiles <- TwoFiles
  MaxReloads = 1
  Reconfigured = {k2}
  \* Pointer
  b1 = b1
  b2 = b2
  f1 = f1
  swipe = swipe
  pinch = pinch
  NoGesture = NoGesture
  Buttons = {b1, b2}
  Fingers = {f1}
  Gestures = {swipe, pinch}
  ToolButtons = 2
INVARIANTS
  KeysInStep
  RepeatLive
  
  
\* With a binding of an older configuration the program is over.
CHECK_DEADLOCK FALSE
