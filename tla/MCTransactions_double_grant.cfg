\* Two database threads: two recipients grant the same third one access.
SPECIFICATION Spec
CONSTANTS
  Users = {u1, u2, u3}
  Files = {f1}
  Tips = {x1, x2, x3, x4}
  FirstTips = {x1, x2}
  Threads = {t1, t2}
  CanGrant = {u1, u2, u3}
  CanTransfer = {u1, u2, u3}
  Unused = Unused
  Gone = Gone
  Nobody = Nobody
  NoTip = NoTip
CHECK_DEADLOCK FALSE
SYMMETRY Symmetric
INVARIANTS
  OneTipEach
