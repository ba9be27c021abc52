\* Mails, shared reports, redactions and cached answers, each in instances of its own.
SPECIFICATION Disclosure
CONSTANTS
  c1 = c1
  c2 = c2
  d1 = d1
  d2 = d2
  u1 = u1
  u2 = u2
  r1 = r1
  None = None
  Sites = {"root", "second"}
  Root = "root"
  Names = {"name 1", "name 2", "name 3"}
  HomeName <- FirstName
  Requests = {c1, c2}
  Refreshers = {d1, d2}
  Disconnects = TRUE
  DiskFills = TRUE
  MaxWrites = 4
VIEW Lasting
SYMMETRY Symmetric
INVARIANTS
  CopiesFollow
  NamesLeadHome
PROPERTIES
  NewsReachOnce
  BulkKept
  RedactionsHold
CHECK_DEADLOCK FALSE
