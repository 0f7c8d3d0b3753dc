SPECIFICATION Spec
CONSTANTS
  Ports = {p1, p2}
  Connected <- Partners
  Callbacks = {c10, c11}
  Callbacks_1_1 = {c11}
  MaxUevents = 1
  None = None
SYMMETRY Symmetry
INVARIANTS SettledStatus QuietReadIsExact NeverHalfConnected
