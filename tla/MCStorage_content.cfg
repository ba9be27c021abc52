\* The content of one attachment of two chunks, with restarts and failing writes.
SPECIFICATION FairStorageSpec
CONSTANTS
  Users = {u1}
  Reports = {r1}
  Files = {f1}
  NoReport = NoReport
  CanGrant = {}
  CanTransfer = {}
  CanDelete = {u1}
  CanPostpone = {}
  CanRedact = {u1}
  CustomStatuses = {}
  Substatuses = {}
  NoSubstatus = NoSubstatus
  SubstatusTTL <- NoSubstatusTTL
  ContextTTL = 0
  ContextReminder = 0
  HasAdditional = FALSE
  MaxSelectable = 0
  Day = 2
  MinAhead = 4
  MaxAhead = 8
  DeliveryLimit = 2
  Dates = {}
  Never = 99
  MaxNow = 0
  Parts = 2
  Faults = {"restart", "write"}
INVARIANTS
  DeliveredIsStored
PROPERTIES
  ContentStays
  DeletedContentGoes
