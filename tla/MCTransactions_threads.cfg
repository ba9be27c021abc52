\* Two database threads: what the foreign keys and the write lock keep, and
\* which meetings of two transactions break the rest.
SPECIFICATION Spec
CONSTANTS
  Users = {u1, u2}
  Files = {f1, f2}
  Tips = {x1, x2, x3, x4}
  FirstTips = {x1, x2}
  Threads = {t1, t2}
  CanGrant = {u1, u2}
  CanTransfer = {u1, u2}
  Unused = Unused
  Gone = Gone
  Nobody = Nobody
  NoTip = NoTip
CHECK_DEADLOCK FALSE
SYMMETRY Symmetric
INVARIANTS
  Referential
  FirstHoldersSeeAll
PROPERTIES
  DoubleTipNeedsRace
  HoleNeedsRace
  AbandonNeedsRace
  LateFileNeedsRace
  EarlyRemovalNeedsRace
