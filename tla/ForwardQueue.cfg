SPECIFICATION Spec
CONSTANTS
  Producer = {p1, p2}
  Worker = {w1, w2}
  Item = {i1, i2, i3, i4}
  Direct = {i1, i2, i3}
  Notified = {i1, i2}
  MaxDepth = 1
  Enabled = TRUE
  NoItem = NoItem
INVARIANTS
  TypeOK
  ExactlyOnePlace
  CallbackOnce
  DepthBounded
  NoLostWakeup
PROPERTIES
  ImplementsService
