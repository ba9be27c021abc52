\* Deadlines: one report, one recipient, a clock of seven ticks (three days
\* and a half), a channel that keeps reports for two days and a substatus
\* that keeps them for one; an administrator has added a status.
SPECIFICATION FairSpec
CONSTANTS
  Users = {u1}
  Reports = {r1}
  Files = {}
  NoReport = NoReport
  CanGrant = {}
  CanTransfer = {}
  CanDelete = {u1}
  CanPostpone = {u1}
  CanRedact = {u1}
  CustomStatuses = {waiting}
  Substatuses = {archived}
  NoSubstatus = NoSubstatus
  SubstatusTTL <- ShortSubstatusTTL
  ContextTTL = 4
  ContextReminder = 2
  HasAdditional = TRUE
  MaxSelectable = 0
  Day = 2
  MinAhead = 4
  MaxAhead = 8
  DeliveryLimit = 1
  Dates = {0, 5, 20}
  Never = 99
  MaxNow = 6
INVARIANTS
  OpenKeepsChannelRetention
  RemovalIsLogged
PROPERTIES
  RetentionKept
  ExpiredReportsGo
