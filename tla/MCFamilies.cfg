CONSTANTS
  note = note
  window = window
  Slots = {note, window}
  Family <- MCFamily
  MaxHandles = 2
  MaxLives <- MCLives
  Nothing = Nothing
  Keys = {gaps}
  Outputs = {dp}
  Devices = {pad}
  Names = {ease}
  Fields = {scale, reserved}
  Gaps = {reserved}
  Good = {1, 2}
  Bad = {0}
  Leaves = {windows}
  MaxFields = 2
  None = None
  MaxWindows = 2
  Focused <- MCFocused
  Ops = {float, tag}
  Toggles = {float}
  FullModes = {0, 1, 2}
  NoMode = 0
  MaxGroups = 2
  Spaces = {one, two, scratchpad}
  Specials = {scratchpad}
  Monitors = {left, right}
  NoSpace = NoSpace
  Gone = Gone
  MaxCalls = 2
  MaxPlaced = 1
  swipe = swipe
  up = up
  Shapes = {swipe, up}
  Shadows <- MCShadows
  Scales = {1, 2}
  Thunks = {thunk}
  NoThunk = NoThunk
  MaxGestures = 2
  shift = shift
  altgr = altgr
  super = super
  five = five
  percent = percent
  keypad = keypad
  sign = sign
  enter = enter
  capital = capital
  code = code
  esc = esc
  Characters = {five, percent, keypad}
  NamedKeys = {enter}
  Printed <- MCPrinted
  Typed <- MCTyped
  Folded <- MCFolded
  Events = {code}
  Unknown = {esc}
  NoKey = NoKey
  Aliases <- MCAliases
  Lower <- MCLower
  Types <- MCTypes
  Leftovers = {"another"}
SPECIFICATION Spec
INVARIANTS TypeOK LocksAreThePauses WrittenAsAsked RaisedIsOwn LockIsDrawn CallsOutlastHandlers ThunksLocked KeysRoundTrip
PROPERTY CallsAsAsked
CHECK_DEADLOCK FALSE
