------------------------------- MODULE Reports -------------------------------
(***************************************************************************)
(* The life of a report in the database of GlobaLeaks: submission by a     *)
(* whistleblower, the tip of every recipient that holds it, the case       *)
(* status and the retention date that follows from it, the attachments     *)
(* each recipient sees, and the ways a report goes away.                   *)
(*                                                                         *)
(* Every action is one transaction of the code (orm.transact): the body of *)
(* a @transact function commits as a whole or, when it raises, not at all, *)
(* so the conditions that make it raise are guards here.  The interleaving *)
(* of recipients, whistleblower, administrator and jobs is the             *)
(* interleaving of these transactions.                                     *)
(*                                                                         *)
(* An operator whose name ends in Mutant is the definition after it with a *)
(* plausible slip: it is no part of the specification and serves to show   *)
(* that a property notices the slip.                                       *)
(***************************************************************************)
EXTENDS Integers, FiniteSets

CONSTANTS
  Users,           (* Recipients that have an account at the start.        *)
  Reports,         (* Identifiers of InternalTips (UUIDs, never reused).   *)
  Files,           (* Identifiers of InternalFiles (UUIDs, never reused).  *)
  NoReport,
  CanGrant, CanTransfer, CanDelete, CanPostpone, CanRedact,
                   (* Users with the permission of that name.              *)
  CustomStatuses,  (* Statuses an administrator added to new/opened/closed.*)
  Substatuses,     (* Substatuses that can be given to a report.           *)
  NoSubstatus,
  SubstatusTTL,    (* Substatus |-> retention in ticks, <= 0 for none.     *)
  ContextTTL,      (* Retention of the channel in ticks, <= 0 for none.    *)
  ContextReminder, (* Reminder of the channel in ticks, <= 0 for none.     *)
  HasAdditional,   (* The channel has an additional questionnaire.         *)
  MaxSelectable,   (* maximum_selectable_receivers of the channel, 0: any. *)
  Day,             (* Ticks in a day.                                      *)
  MinAhead,        (* 91 days: how near a deadline may be anticipated.     *)
  MaxAhead,        (* max(365, 2 * policy) + 1 days: how far postponed.    *)
  DeliveryLimit,   (* Files handled by one round of the delivery job: 20.  *)
  Dates,           (* The dates a recipient may ask for.                   *)
  Never,           (* datetime_never(), the 1st of January 3000.           *)
  MaxNow           (* Bound of the clock.                                  *)

ASSUME ClockAssumption ==
  /\ Day \in Nat \ {0}
  /\ MaxNow \in Nat
  /\ Never \in Nat /\ MaxNow < Never
  /\ MinAhead \in Nat /\ MaxAhead \in Nat /\ MinAhead <= MaxAhead
  /\ Dates \subseteq 0 .. Never

ASSUME PolicyAssumption ==
  /\ ContextTTL \in Int /\ ContextReminder \in Int
  /\ SubstatusTTL \in [Substatuses -> Int]
  /\ NoSubstatus \notin Substatuses
  /\ MaxSelectable \in Nat /\ HasAdditional \in BOOLEAN
  /\ DeliveryLimit \in Nat \ {0}

ASSUME NameAssumption ==
  /\ NoReport \notin Reports
  /\ "system" \notin Users
  /\ CustomStatuses \cap {"unsent", "deleted", "new", "opened", "closed"} = {}

VARIABLES
  now,         (* The clock.                                               *)
  users,       (* Accounts that exist.                                     *)
  keyed,       (* Accounts with a key pair (crypto_pub_key).               *)
  encryption,  (* "builtin": on and never changed, else "off" or "enabled".*)
  status,      (* InternalTip.status; "unsent"/"deleted": no such row.     *)
  substatus,   (* InternalTip.substatus.                                   *)
  expiration,  (* InternalTip.expiration_date.                             *)
  source,      (* History: what last decided the expiration date;          *)
               (* "carried" if a substatus of closed did, and the report   *)
               (* left closed for a status an administrator added.         *)
  reminder,    (* InternalTip.reminder_date.                               *)
  sealed,      (* The report has a key of its own (crypto_tip_pub_key).    *)
  supplied,    (* Identity and additional answers given after submission.  *)
  holders,     (* report |-> recipients with a ReceiverTip row.            *)
  unread,      (* report |-> holders with last_access < update_date.       *)
  ifile,       (* InternalFile: "none", "new", "delivered" or "deleted".   *)
  home,        (* InternalFile.internaltip_id.                             *)
  wbfile,      (* WhistleblowerFile rows, <<holder, file>>.                *)
  audit        (* Deletions in the audit log: <<type, who, report>>.       *)

accountVars == <<users, keyed, encryption>>
caseVars    == <<status, substatus, expiration, source, reminder>>
accessVars  == <<holders, unread>>
fileVars    == <<ifile, home, wbfile>>
contentVars == <<sealed, supplied>>
vars == <<now, accountVars, caseVars, contentVars, accessVars, fileVars, audit>>

CaseStatuses == {"new", "opened", "closed"} \cup CustomStatuses
Live(r)      == status[r] \in CaseStatuses
LiveReports  == {r \in Reports : Live(r)}
NewFiles     == {f \in Files : ifile[f] = "new"}

(* The access check of every recipient's operation. *)
Holds(u, r) == Live(r) /\ u \in holders[r]

-----------------------------------------------------------------------------
(* Dates. *)

Min2(a, b) == IF a <= b THEN a ELSE b
Midnight(t) == t - (t % Day)

(* The last instant of the day that is ttl after today. *)
Expiry(ttl) == Midnight(now) + Day - 1 + ttl

(* A policy of zero or less days means that reports are kept. *)
Policy(ttl) == IF ttl > 0 THEN Expiry(ttl) ELSE Never

ClampExpirationMutant(r, date) == Min2(date, Midnight(now + MaxAhead))

(* A deadline may be anticipated to 91 days from now, or kept if it is     *)
(* nearer, and postponed up to the limit.                                  *)
ClampExpiration(r, date) ==
  LET floor == Min2(expiration[r], Midnight(now + MinAhead))
      ceil  == Midnight(now + MaxAhead)
  IN  IF date <= floor THEN floor ELSE Min2(date, ceil)

-----------------------------------------------------------------------------
(* Submission. *)

EligibleMutant(R) == R \cap users

(* The recipients of the request that can receive the report: with         *)
(* encryption that was never changed those that have keys, else all.       *)
Eligible(R) == IF encryption = "builtin" THEN R \cap keyed ELSE R \cap users

(* Recipients without keys make a report plain text, where encryption was  *)
(* enabled later.                                                          *)
Sealable(R) == encryption # "off" /\ Eligible(R) \subseteq keyed

Submit(r, R, F) ==
  /\ status[r] = "unsent"
  /\ Eligible(R) # {}
  /\ MaxSelectable = 0 \/ Cardinality(R) <= MaxSelectable
  /\ \A f \in F : ifile[f] = "none"
  /\ status' = [status EXCEPT ![r] = "new"]
  /\ expiration' = [expiration EXCEPT ![r] = Policy(ContextTTL)]
  /\ reminder' = [reminder EXCEPT ![r] = Policy(ContextReminder)]
  /\ sealed' = [sealed EXCEPT ![r] = Sealable(R)]
  /\ holders' = [holders EXCEPT ![r] = Eligible(R)]
  /\ unread' = [unread EXCEPT ![r] = Eligible(R)]
  /\ ifile' = [f \in Files |-> IF f \in F THEN "new" ELSE ifile[f]]
  /\ home' = [f \in Files |-> IF f \in F THEN r ELSE home[f]]
  /\ UNCHANGED <<now, accountVars, substatus, source, supplied, wbfile, audit>>

-----------------------------------------------------------------------------
(* The case: status and retention. *)

NewsForMutant(r, author) == unread' = [unread EXCEPT ![r] = {}]

(* update_date moves: everybody but the author, if a recipient, has news. *)
NewsFor(r, author) == unread' = [unread EXCEPT ![r] = holders[r] \ {author}]
NewsForAll(r)      == unread' = [unread EXCEPT ![r] = holders[r]]
SeenBy(r, u)       == unread' = [unread EXCEPT ![r] = @ \ {u}]

Carried(r, s) ==
  IF status[r] = "closed" /\ s \in CustomStatuses /\ source[r] = "substatus"
  THEN "carried" ELSE source[r]

RecalculateDataRetentionMutant(r, s, sub) ==
  IF s = "closed" /\ sub # NoSubstatus /\ SubstatusTTL[sub] > 0
  THEN /\ expiration' = [expiration EXCEPT ![r] = Policy(SubstatusTTL[sub])]
       /\ source' = [source EXCEPT ![r] = "substatus"]
  ELSE /\ source' = [source EXCEPT ![r] = Carried(r, s)]
       /\ UNCHANGED expiration

(* Reopening restores the retention of the channel; a substatus of the     *)
(* closed status may have a retention of its own.                          *)
RecalculateDataRetention(r, s, sub) ==
  IF status[r] = "closed" /\ s = "opened"
  THEN /\ expiration' = [expiration EXCEPT ![r] = Policy(ContextTTL)]
       /\ source' = [source EXCEPT ![r] = "channel"]
  ELSE IF s = "closed" /\ sub # NoSubstatus /\ SubstatusTTL[sub] > 0
  THEN /\ expiration' = [expiration EXCEPT ![r] = Policy(SubstatusTTL[sub])]
       /\ source' = [source EXCEPT ![r] = "substatus"]
  ELSE /\ source' = [source EXCEPT ![r] = Carried(r, s)]
       /\ UNCHANGED expiration

(* No report goes back to new; closing a report cancels its reminder. *)
DbUpdateSubmissionStatus(r, s, sub) ==
  IF s = "new" THEN UNCHANGED caseVars
  ELSE /\ status' = [status EXCEPT ![r] = s]
       /\ substatus' = [substatus EXCEPT ![r] = sub]
       /\ reminder' = IF status[r] # "closed" /\ s = "closed"
                      THEN [reminder EXCEPT ![r] = Never] ELSE reminder
       /\ RecalculateDataRetention(r, s, sub)

(* The empty substatus of a request never equals the null of the row. *)
UpdateStatus(u, r, s, sub) ==
  /\ Holds(u, r)
  /\ DbUpdateSubmissionStatus(r, s, sub)
  /\ IF status[r] = s /\ substatus[r] = sub /\ sub # NoSubstatus
     THEN UNCHANGED unread ELSE NewsFor(r, u)
  /\ UNCHANGED <<now, accountVars, contentVars, holders, fileVars, audit>>

(* A recipient opens a report: the first to do so moves it out of new, a   *)
(* reminder that has passed is cleared.                                    *)
OpenReport(u, r) ==
  /\ Holds(u, r)
  /\ status' = [status EXCEPT ![r] = IF @ = "new" THEN "opened" ELSE @]
  /\ substatus' = [substatus EXCEPT ![r] = IF status[r] = "new" THEN NoSubstatus ELSE @]
  /\ reminder' = [reminder EXCEPT ![r] = IF @ < now THEN Never ELSE @]
  /\ IF status[r] = "new" THEN NewsFor(r, u) ELSE SeenBy(r, u)
  /\ UNCHANGED <<now, accountVars, expiration, source, contentVars, holders,
                 fileVars, audit>>

(* The export opens a new report as well, but neither clears a reminder    *)
(* nor gives the other recipients news.                                    *)
ExportReport(u, r) ==
  /\ Holds(u, r)
  /\ status' = [status EXCEPT ![r] = IF @ = "new" THEN "opened" ELSE @]
  /\ substatus' = [substatus EXCEPT ![r] = IF status[r] = "new" THEN NoSubstatus ELSE @]
  /\ SeenBy(r, u)
  /\ UNCHANGED <<now, accountVars, expiration, source, reminder, contentVars,
                 holders, fileVars, audit>>

PostponeExpiration(u, r, date) ==
  /\ Holds(u, r)
  /\ u \in CanPostpone
  /\ expiration' = [expiration EXCEPT ![r] = ClampExpiration(r, date)]
  /\ source' = [source EXCEPT ![r] = "recipient"]
  /\ NewsForAll(r)
  /\ UNCHANGED <<now, accountVars, status, substatus, reminder, contentVars,
                 holders, fileVars, audit>>

SetReminder(u, r, date) ==
  /\ Holds(u, r)
  /\ reminder' = [reminder EXCEPT ![r] = date]
  /\ UNCHANGED <<now, accountVars, status, substatus, expiration, source,
                 contentVars, accessVars, fileVars, audit>>

-----------------------------------------------------------------------------
(* Access: grant, revoke, transfer, one report at a time or in bulk. *)

GrantableMutant(r, v)        == v \in users /\ v \notin holders[r]
GrantableToGoneMutant(r, v)  == v \notin holders[r] /\ (sealed[r] => v \in keyed)

(* The conditions under which db_grant_tip_access yields a new tip: when   *)
(* they do not hold it returns None, its callers fail to unpack that and   *)
(* the whole transaction is rolled back.                                   *)
Grantable(r, v) ==
  /\ v \in users
  /\ v \notin holders[r]
  /\ sealed[r] => v \in keyed

CopyFilesMutant(u, S, v) == {}

(* v gets a tip with a copy of the attachments u sees. *)
CopyFiles(u, S, v) == {<<v, f>> : f \in {g \in Files : home[g] \in S /\ <<u, g>> \in wbfile}}
FilesSeenBy(v, S)  == {w \in wbfile : w[1] = v /\ home[w[2]] \in S}

Grant(u, S, v) ==
  /\ \A r \in S : Holds(u, r) /\ Grantable(r, v)
  /\ u \in CanGrant
  /\ holders' = [r \in Reports |-> IF r \in S THEN holders[r] \cup {v} ELSE holders[r]]
  /\ unread' = [r \in Reports |-> IF r \in S THEN unread[r] \cup {v} ELSE unread[r]]
  /\ wbfile' = wbfile \cup CopyFiles(u, S, v)
  /\ UNCHANGED <<now, accountVars, caseVars, contentVars, ifile, home, audit>>

(* The row of v goes, and with it the attachments v sees. *)
DropTips(S, v) ==
  /\ holders' = [r \in Reports |-> IF r \in S THEN holders[r] \ {v} ELSE holders[r]]
  /\ unread' = [r \in Reports |-> IF r \in S THEN unread[r] \ {v} ELSE unread[r]]
  /\ wbfile' = wbfile \ FilesSeenBy(v, S)
  /\ UNCHANGED <<now, accountVars, caseVars, contentVars, ifile, home, audit>>

RevokeAccessMutant(u, r, v) ==
  /\ Live(r)
  /\ u # v /\ u \in CanGrant
  /\ DropTips({r}, v)

RevokeAccess(u, r, v) ==
  /\ Holds(u, r)
  /\ u # v /\ u \in CanGrant
  /\ DropTips({r}, v)

(* The operation on a list of reports does not exclude the caller. *)
RevokeAccessInBulk(u, S, v) ==
  /\ \A r \in S : Holds(u, r)
  /\ u \in CanGrant
  /\ DropTips(S, v)

TransferAccess(u, r, v) ==
  /\ Holds(u, r) /\ Grantable(r, v)
  /\ u \in CanTransfer
  /\ holders' = [holders EXCEPT ![r] = (@ \cup {v}) \ {u}]
  /\ unread' = [unread EXCEPT ![r] = (@ \cup {v}) \ {u}]
  /\ wbfile' = (wbfile \cup CopyFiles(u, {r}, v)) \ FilesSeenBy(u, {r})
  /\ UNCHANGED <<now, accountVars, caseVars, contentVars, ifile, home, audit>>

-----------------------------------------------------------------------------
(* What the parties add to a report. *)

TakesMoreMutant(r) == Live(r)

(* The whistleblower may add to a report until it is closed. *)
TakesMore(r) == Live(r) /\ status[r] # "closed"

(* Comments of the whistleblower are taken in every status. *)
WhistleblowerComment(r) ==
  /\ Live(r)
  /\ NewsForAll(r)
  /\ UNCHANGED <<now, accountVars, caseVars, contentVars, holders, fileVars, audit>>

(* A comment or a file of a recipient: news to the others if it is public. *)
(* A mask laid over a part of the report is such news as well.             *)
RecipientContribution(u, r, visibility) ==
  /\ Holds(u, r)
  /\ IF visibility = "public" THEN NewsFor(r, u) ELSE SeenBy(r, u)
  /\ UNCHANGED <<now, accountVars, caseVars, contentVars, holders, fileVars, audit>>

(* The identity and the additional answers are stored once, the first time. *)
ProvideIdentity(r) ==
  /\ TakesMore(r)
  /\ supplied' = [supplied EXCEPT ![r] = @ \cup {"identity"}]
  /\ NewsForAll(r)
  /\ UNCHANGED <<now, accountVars, caseVars, sealed, holders, fileVars, audit>>

AnswerAdditionalQuestionnaire(r) ==
  /\ TakesMore(r)
  /\ HasAdditional
  /\ supplied' = [supplied EXCEPT ![r] = @ \cup {"answers"}]
  /\ UNCHANGED <<now, accountVars, caseVars, sealed, accessVars, fileVars, audit>>

RegisterIfile(r, f) ==
  /\ TakesMore(r)
  /\ ifile[f] = "none"
  /\ ifile' = [ifile EXCEPT ![f] = "new"]
  /\ home' = [home EXCEPT ![f] = r]
  /\ NewsForAll(r)
  /\ UNCHANGED <<now, accountVars, caseVars, contentVars, holders, wbfile, audit>>

(* One round of the delivery job: a limited batch of new files gets a row  *)
(* for each holder of its report.                                          *)
FileDelivery(B) ==
  /\ B \subseteq NewFiles
  /\ B # {}
  /\ Cardinality(B) = Min2(Cardinality(NewFiles), DeliveryLimit)
  /\ ifile' = [f \in Files |-> IF f \in B THEN "delivered" ELSE ifile[f]]
  /\ wbfile' = wbfile \cup {w \in Users \X B : w[1] \in holders[home[w[2]]]}
  /\ UNCHANGED <<now, accountVars, caseVars, contentVars, accessVars, home, audit>>

(* A file whose mask covers all of it is redacted by deleting it, for      *)
(* everybody.                                                              *)
RedactFile(u, f) ==
  /\ <<u, f>> \in wbfile
  /\ u \in CanRedact
  /\ ifile' = [ifile EXCEPT ![f] = "deleted"]
  /\ wbfile' = {w \in wbfile : w[2] # f}
  /\ UNCHANGED <<now, accountVars, caseVars, contentVars, accessVars, home, audit>>

-----------------------------------------------------------------------------
(* Deletion: the foreign keys of the schema remove what belongs to a       *)
(* report together with it.                                                *)

DeleteReports(D) ==
  /\ status' = [r \in Reports |-> IF r \in D THEN "deleted" ELSE status[r]]
  /\ holders' = [r \in Reports |-> IF r \in D THEN {} ELSE holders[r]]
  /\ unread' = [r \in Reports |-> IF r \in D THEN {} ELSE unread[r]]
  /\ ifile' = [f \in Files |-> IF home[f] \in D THEN "deleted" ELSE ifile[f]]
  /\ wbfile' = {w \in wbfile : home[w[2]] \notin D}
  /\ UNCHANGED <<now, accountVars, substatus, expiration, source, reminder,
                 contentVars, home>>

LoggedMutant(type, who, R) == audit' = audit

(* The deletion of each of R is in the audit log, in the same transaction. *)
Logged(type, who, R) == audit' = audit \cup {<<type, who, r>> : r \in R}

DeleteReport(u, r) ==
  /\ Holds(u, r)
  /\ u \in CanDelete
  /\ DeleteReports({r})
  /\ Logged("delete_report", u, {r})

ExpiredReportsMutant == {r \in Reports : status[r] = "closed" /\ expiration[r] < now}

ExpiredReports == {r \in LiveReports : expiration[r] < now}

CleanExpiredReports ==
  /\ ExpiredReports # {}
  /\ DeleteReports(ExpiredReports)
  /\ Logged("delete_report", "system", ExpiredReports)

ResetReports ==
  /\ DeleteReports(LiveReports)
  /\ Logged("reset_reports", "admin", {NoReport})

-----------------------------------------------------------------------------
(* Accounts. *)

FirstLoginMutant(u) ==
  /\ encryption # "off"
  /\ keyed' = keyed \cup {u}
  /\ UNCHANGED <<now, users, encryption, caseVars, contentVars, accessVars,
                 fileVars, audit>>

(* The key pair of a user is made at the first login with encryption on. *)
FirstLogin(u) ==
  /\ u \in users \ keyed
  /\ encryption # "off"
  /\ keyed' = keyed \cup {u}
  /\ UNCHANGED <<now, users, encryption, caseVars, contentVars, accessVars,
                 fileVars, audit>>

(* Saving the settings of the site may switch encryption off.              *)
DisableEncryption ==
  /\ encryption # "off"
  /\ encryption' = "off"
  /\ UNCHANGED <<now, users, keyed, caseVars, contentVars, accessVars, fileVars, audit>>

(* So may it be switched on, as by the operation of that name.             *)
EnableEncryption ==
  /\ encryption = "off"
  /\ encryption' = "enabled"
  /\ UNCHANGED <<now, users, keyed, caseVars, contentVars, accessVars, fileVars, audit>>

(* An administrator deletes an account: its tips go, the reports stay. *)
DeleteUser(u) ==
  /\ u \in users
  /\ users' = users \ {u}
  /\ keyed' = keyed \ {u}
  /\ holders' = [r \in Reports |-> holders[r] \ {u}]
  /\ unread' = [r \in Reports |-> unread[r] \ {u}]
  /\ wbfile' = {w \in wbfile : w[1] # u}
  /\ UNCHANGED <<now, encryption, caseVars, contentVars, ifile, home, audit>>

Tick ==
  /\ now < MaxNow
  /\ now' = now + 1
  /\ UNCHANGED <<accountVars, caseVars, contentVars, accessVars, fileVars, audit>>

-----------------------------------------------------------------------------
Init ==
  /\ now = 0
  /\ users = Users
  /\ encryption \in {"builtin", "off"}
  /\ keyed \in IF encryption = "off" THEN {{}} ELSE SUBSET Users
  /\ status = [r \in Reports |-> "unsent"]
  /\ substatus = [r \in Reports |-> NoSubstatus]
  /\ expiration = [r \in Reports |-> Never]
  /\ source = [r \in Reports |-> "channel"]
  /\ reminder = [r \in Reports |-> Never]
  /\ sealed = [r \in Reports |-> FALSE]
  /\ supplied = [r \in Reports |-> {}]
  /\ holders = [r \in Reports |-> {}]
  /\ unread = [r \in Reports |-> {}]
  /\ ifile = [f \in Files |-> "none"]
  /\ home = [f \in Files |-> NoReport]
  /\ wbfile = {}
  /\ audit = {}

WhistleblowerStep ==
  \E r \in Reports :
    \/ \E R \in SUBSET Users, F \in SUBSET Files : Submit(r, R, F)
    \/ WhistleblowerComment(r)
    \/ ProvideIdentity(r)
    \/ AnswerAdditionalQuestionnaire(r)
    \/ \E f \in Files : RegisterIfile(r, f)

CaseStep ==
  \E u \in Users, r \in Reports :
    \/ OpenReport(u, r)
    \/ ExportReport(u, r)
    \/ \E s \in CaseStatuses, sub \in Substatuses \cup {NoSubstatus} :
         UpdateStatus(u, r, s, sub)
    \/ \E date \in Dates : PostponeExpiration(u, r, date) \/ SetReminder(u, r, date)
    \/ \E visibility \in {"public", "internal", "personal"} :
         RecipientContribution(u, r, visibility)
    \/ \E f \in Files : RedactFile(u, f)
    \/ DeleteReport(u, r)

AccessStep ==
  \E u, v \in Users :
    \/ \E S \in SUBSET Reports \ {{}} : Grant(u, S, v) \/ RevokeAccessInBulk(u, S, v)
    \/ \E r \in Reports : RevokeAccess(u, r, v) \/ TransferAccess(u, r, v)

SystemStep ==
  \/ \E B \in SUBSET Files : FileDelivery(B)
  \/ CleanExpiredReports
  \/ Tick

AdminStep ==
  \/ ResetReports
  \/ DisableEncryption
  \/ EnableEncryption
  \/ \E u \in Users : FirstLogin(u) \/ DeleteUser(u)

Next == WhistleblowerStep \/ CaseStep \/ AccessStep \/ SystemStep \/ AdminStep

Spec == Init /\ [][Next]_vars

(* The cleaning job runs every day, whatever happened the day before. *)
FairSpec == Spec /\ WF_vars(CleanExpiredReports)

-----------------------------------------------------------------------------
(* Properties. *)

(* Type invariant: the shape of every table and column of the model. *)
TypeOK ==
  /\ now \in 0 .. MaxNow
  /\ users \subseteq Users /\ keyed \subseteq users
  /\ encryption \in {"builtin", "off", "enabled"}
  /\ status \in [Reports -> CaseStatuses \cup {"unsent", "deleted"}]
  /\ substatus \in [Reports -> Substatuses \cup {NoSubstatus}]
  /\ expiration \in [Reports -> Nat]
  /\ source \in [Reports -> {"channel", "substatus", "recipient", "carried"}]
  /\ reminder \in [Reports -> Nat]
  /\ sealed \in [Reports -> BOOLEAN]
  /\ supplied \in [Reports -> SUBSET {"identity", "answers"}]
  /\ holders \in [Reports -> SUBSET Users]
  /\ unread \in [Reports -> SUBSET Users]
  /\ ifile \in [Files -> {"none", "new", "delivered", "deleted"}]
  /\ home \in [Files -> Reports \cup {NoReport}]
  /\ wbfile \subseteq Users \X Files
  /\ audit \subseteq {"delete_report", "reset_reports"}
                     \X (Users \cup {"system", "admin"}) \X (Reports \cup {NoReport})

(* The rows follow their parents, as the foreign keys of the schema ask:   *)
(* tips belong to accounts and to reports that exist, files to reports.    *)
RowsHaveParents ==
  /\ \A r \in Reports : unread[r] \subseteq holders[r] /\ holders[r] \subseteq users
  /\ \A r \in Reports : ~Live(r) => holders[r] = {}
  /\ \A f \in Files : ifile[f] \in {"new", "delivered"} => Live(home[f])
  /\ \A f \in Files : ifile[f] = "none" <=> home[f] = NoReport

(* Whoever holds an encrypted report can decrypt it: submission, grant and *)
(* transfer never make a tip for an account that has no key pair           *)
(* (db_create_submission, db_grant_tip_access).                            *)
KeyCustody ==
  \A r \in Reports : Live(r) /\ sealed[r] => holders[r] \subseteq keyed

(* Until somebody saves settings that change encryption, a site that was   *)
(* set up with it has no report in clear, whatever recipients a            *)
(* whistleblower selects and whoever has keys (db_create_submission).      *)
SealedByDefault ==
  encryption = "builtin" => \A r \in Reports : Live(r) => sealed[r]

(* All the holders of a report see the same attachments, all those that    *)
(* were delivered, however deliveries, grants, transfers, revocations and  *)
(* redactions interleave; and nobody else sees them (file_delivery,        *)
(* db_grant_tip_access, db_revoke_tip_access).                             *)
HoldersSeeSameFiles ==
  /\ \A u \in Users, f \in Files : <<u, f>> \in wbfile =>
       ifile[f] = "delivered" /\ u \in holders[home[f]]
  /\ \A f \in Files : ifile[f] = "delivered" =>
       \A u \in holders[home[f]] : <<u, f>> \in wbfile

(* A report never ends up without recipients because recipients revoke     *)
(* each other or transfer it.  Only a sole holder that may grant access,   *)
(* giving up its own tip with the bulk operation, does that, or the        *)
(* deletion of that holder's account.                                      *)
AbandonedBySoleHolder ==
  \A r \in Reports :
    /\ Live(r) /\ holders[r] # {}
    /\ Live(r)' /\ holders'[r] = {}
    => \E u \in Users : holders[r] = {u} /\ (u \in CanGrant \/ u \notin users')

OnlySoleHolderAbandons == [][AbandonedBySoleHolder]_vars

(* A case that is open is kept for as long as its channel or a recipient   *)
(* said: the retention of a substatus of "closed" ends with the reopening, *)
(* unless the report left "closed" for a status that an administrator      *)
(* added, which the code does not take for a reopening                     *)
(* (db_update_submission_status, db_recalculate_data_retention).           *)
OpenKeepsChannelRetention ==
  \A r \in Reports : status[r] \in {"new", "opened"} => source[r] # "substatus"

(* A closed report takes no more attachments, identity or answers from the *)
(* whistleblower (the filters on status in register_ifile_on_db,           *)
(* update_identity_information, store_additional_questionnaire_answers).   *)
ClosedIsFrozen ==
  [][\A r \in Reports : status[r] = "closed" =>
       /\ supplied'[r] = supplied[r]
       /\ \A f \in Files : home'[f] = r => home[f] = r]_vars

(* Two holders never lose the news of a report in one step: what one does  *)
(* is not what the other has seen; and a change of status is news for all  *)
(* but its author, but for the first opening, which an export makes        *)
(* silently (update_tip_submission_status, create_comment, get_tip_export).*)
NewsReachTheOthers ==
  [][\A r \in Reports : \A u, v \in holders'[r] :
       /\ u # v
       /\ \/ {u, v} \subseteq unread[r]
          \/ status'[r] # status[r] /\ <<status[r], status'[r]>> # <<"new", "opened">>
       => {u, v} \cap unread'[r] # {}]_vars

(* Every removal of a report is in the audit log. *)
RemovalIsLogged ==
  \A r \in Reports : status[r] = "deleted" =>
    \/ \E who \in Users \cup {"system"} : <<"delete_report", who, r>> \in audit
    \/ <<"reset_reports", "admin", NoReport>> \in audit

(* A report whose deadline has passed is removed, unless a recipient       *)
(* postpones the deadline before the daily cleaning comes.                 *)
ExpiredReportsGo ==
  \A r \in Reports :
    (Live(r) /\ expiration[r] < now) ~> (~Live(r) \/ expiration[r] >= now)

(* The promise of retention that this module keeps: see Retention.         *)
PhaseOf(r) ==
  CASE status[r] = "unsent"  -> "unsent"
    [] status[r] = "deleted" -> "gone"
    [] status[r] = "closed"  -> "closed"
    [] OTHER                 -> "open"

RemovedBy(r) ==
  IF status[r] # "deleted" THEN "nobody"
  ELSE IF <<"delete_report", "system", r>> \in audit THEN "system"
  ELSE IF \/ \E u \in Users : <<"delete_report", u, r>> \in audit
          \/ <<"reset_reports", "admin", NoReport>> \in audit
  THEN "person" ELSE "nobody"

Promise == INSTANCE Retention WITH
  phase     <- [r \in Reports |-> PhaseOf(r)],
  deadline  <- expiration,
  removedBy <- [r \in Reports |-> RemovedBy(r)]

(* Implementation: the transactions of the code keep the retention promise.*)
RetentionKept == Promise!Spec

=============================================================================
