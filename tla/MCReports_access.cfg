\* Who holds a report and sees its files: three recipients, of which one may
\* not grant access, one report, two files, the clock standing still and
\* reports without retention.
SPECIFICATION Spec
CONSTANTS
  Users = {u1, u2, u3}
  Reports = {r1}
  Files = {f1, f2}
  NoReport = NoReport
  CanGrant = {u1, u2}
  CanTransfer = {u1, u2, u3}
  CanDelete = {u1, u2, u3}
  CanPostpone = {}
  CanRedact = {u1, u2, u3}
  CustomStatuses = {}
  Substatuses = {}
  NoSubstatus = NoSubstatus
  SubstatusTTL <- ShortSubstatusTTL
  ContextTTL = 0
  ContextReminder = 0
  HasAdditional = TRUE
  MaxSelectable = 2
  Day = 2
  MinAhead = 4
  MaxAhead = 8
  DeliveryLimit = 1
  Dates = {}
  Never = 99
  MaxNow = 0
SYMMETRY SymmetricAccess
INVARIANTS
  TypeOK
  RowsHaveParents
  KeyCustody
  SealedByDefault
  HoldersSeeSameFiles
PROPERTIES
  OnlySoleHolderAbandons
  NewsReachTheOthers
  ClosedIsFrozen
