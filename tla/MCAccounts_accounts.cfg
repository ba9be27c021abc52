\* Keys, sessions, questionnaires and identities, each in instances of its own.
SPECIFICATION Accounts
CONSTANTS
  a1 = a1
  a2 = a2
  a3 = a3
  b1 = b1
  b2 = b2
  c1 = c1
  c2 = c2
  d1 = d1
  d2 = d2
  adm = adm
  usr = usr
  oth = oth
  rcp = rcp
  r1 = r1
  l1 = l1
  Identity = Identity
  None = None
  Gone = Gone
  Recipients = {rcp}
  Custodians = {adm, usr}
  MaxRequests = 2
  Nobody = None
VIEW Relevant
SYMMETRY Symmetric
INVARIANTS
  SessionsSound
  FormsHold
PROPERTIES
  KeysOpen
  IdentityGuarded
CHECK_DEADLOCK FALSE
