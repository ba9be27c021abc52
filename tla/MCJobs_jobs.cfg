\* The spool of mails and the daily job of the sites, with fairness.
SPECIFICATION Jobs
CONSTANTS
  Mails = {"first", "second", "third"}
  Sites = {"home", "acme"}
  Site <- MCSite
  Batch = 2
  Faults = 2
  Removable = {"home", "acme"}
  None = None
INVARIANT
  NothingIsLost
PROPERTY
  JobsGoOn
CHECK_DEADLOCK FALSE
