---------------------------- MODULE Notification ----------------------------
(***************************************************************************)
(* Which mails are written, and about what: MailGenerator.generate, the    *)
(* mails that handlers write themselves, and the alert of expiring reports *)
(* of the daily cleaning.  What becomes of a mail then is in MailSpool.    *)
(*                                                                         *)
(* generate is one transaction of three queries.  SQLite takes its lock    *)
(* with the first write, which SQLAlchemy sends before the next query, so  *)
(* handlers may still commit before; what the generator has read of a row  *)
(* is not read again.  Dates are kept as the relations the code tests:     *)
(* the last of last_notification and last_access, or neither was set.      *)
(***************************************************************************)
EXTENDS Naturals, FiniteSets

CONSTANTS
  Users,      (* Recipients of one site. *)
  Reports,
  enabled,    (* The setting enable_receiver_notification_emails of the site. *)
  Choosers,   (* Recipients who switch their mails off and on: a bound.       *)
  Reminded,   (* Rows that may be unseen for long or have a reminder due.     *)
  None

NotificationAssumption ==
  /\ enabled \in BOOLEAN /\ None \notin Users /\ Choosers \subseteq Users
  /\ Reminded \subseteq Users \X Reports

Rtips == Users \X Reports

(* Authors of comments: None is the whistleblower. *)
Remarks == [author : Users \cup {None}, personal : BOOLEAN]

VARIABLES
  wants,     (* The recipients who have mail notifications on.             *)
  row,       (* ReceiverTips: None, or new, and what was last.             *)
  remarks,   (* For each report, its comments that are new.                *)
  files,     (* Rows with a WhistleblowerFile that is new.                 *)
  gen,       (* What generate is doing.                                    *)
  mails,     (* What the last step wrote: kinds and recipients.            *)
  owed,      (* History: rows with news since the recipient's last visit.  *)
  written,   (* History: rows with a mail of generate since then.          *)
  dropped,   (* History: ... or with news discarded as unwanted.           *)
  slipped,   (* History: ... or passed over on a date from before it.      *)
  raced      (* History: rows with a mail of a run that the visit was in.  *)

vars == <<wants, row, remarks, files, gen, mails,
          owed, written, dropped, slipped, raced>>

Quiet    == [step |-> "idle", dirty |-> FALSE, locked |-> FALSE, seen |-> {}, before |-> {},
             handled |-> {}, mailed |-> {}, visited |-> {},
             new |-> {}, about |-> [r \in Reports |-> {}], files |-> {}]
Existing == {a \in Rtips : row[a] # None}
Told     == {a \in Existing : row[a].last = "mail"}

(* A comment is news for the others who may read it. *)
Concerns(c, a) == c.author # a[1] /\ ~c.personal
About(r)       == {a \in Existing : a[2] = r}
Seen(r)        == {a \in About(r) : row[a].last = "visit"}

(* Only the owner of the lock writes. *)
Writable == ~gen.locked

-----------------------------------------------------------------------------
(* What recipients and whistleblowers do. *)

Submission(r, us) ==
  /\ Writable /\ About(r) = {} /\ us # {}
  /\ row' = [a \in Rtips |-> IF a \in us \X {r} THEN [new |-> TRUE, last |-> "never"] ELSE row[a]]
  /\ owed' = owed \cup (us \X {r})
  /\ mails' = {}
  /\ UNCHANGED <<wants, remarks, files, gen, written, dropped, slipped, raced>>

Visiting(a) == [gen EXCEPT !.visited = IF gen.step = "idle" THEN {} ELSE @ \cup {a}]

(* The report is opened, or the recipient changes it: last_access is now.  *)
Visit(a) ==
  /\ row' = [row EXCEPT ![a].last = "visit"]
  /\ written' = written \ {a}
  /\ dropped' = dropped \ {a}
  /\ slipped' = slipped \ {a}
  /\ raced' = raced \ {a}

Open(a) ==
  /\ Writable /\ a \in Existing
  /\ Visit(a)
  /\ gen' = Visiting(a)
  /\ owed' = owed \ {a}
  /\ mails' = {}
  /\ UNCHANGED <<wants, remarks, files>>

(* A comment like one that the run has read is another one. *)
WhistleblowerComments(r) ==
  /\ Writable /\ About(r) # {}
  /\ LET c == [author |-> None, personal |-> FALSE] IN
     /\ remarks' = [remarks EXCEPT ![r] = @ \cup {c}]
     /\ gen' = [gen EXCEPT !.about[r] = @ \ {c}]
  /\ owed' = owed \cup About(r)
  /\ mails' = {}
  /\ UNCHANGED <<wants, row, files, written, dropped, slipped, raced>>

(* A recipient's comment: public, or among recipients, or personal. *)
RecipientComments(a, personal, public) ==
  /\ Writable /\ a \in Existing
  /\ ~(personal /\ public)
  /\ LET c == [author |-> a[1], personal |-> personal] IN
     /\ remarks' = [remarks EXCEPT ![a[2]] = @ \cup {c}]
     /\ gen' = [Visiting(a) EXCEPT !.about[a[2]] = @ \ {c}]
     /\ owed' = {b \in About(a[2]) : Concerns(c, b)} \cup (owed \ {a})
  /\ Visit(a)
  /\ mails' = {}
  /\ UNCHANGED <<wants, files>>

(* A file uploaded after the submission has been prepared for every row. *)
FileDelivered(r) ==
  /\ Writable /\ About(r) # {}
  /\ files' = files \cup About(r)
  /\ owed' = owed \cup About(r)
  /\ mails' = {}
  /\ gen' = [gen EXCEPT !.files = {}]
  /\ UNCHANGED <<wants, row, remarks, written, dropped, slipped, raced>>

(* A change of status: the others who have opened the report since their   *)
(* last mail are written to at once.                                       *)
StatusUpdate(a) ==
  /\ Writable /\ a \in Existing
  /\ Visit(a)
  /\ gen' = Visiting(a)
  /\ owed' = owed \ {a}
  /\ mails' = {[kind |-> "tip_update", to |-> b] : b \in Seen(a[2]) \ {a}}
  /\ UNCHANGED <<wants, remarks, files>>

(* The whistleblower provides the identity: so is everyone.                *)
IdentityProvided(r) ==
  /\ Writable /\ About(r) # {}
  /\ mails' = {[kind |-> "tip_update", to |-> b] : b \in Seen(r)}
  /\ UNCHANGED <<wants, row, remarks, files, gen, owed, written, dropped, slipped, raced>>

(* Access is granted by another recipient, with a mail. *)
GrantAccess(a) ==
  /\ Writable /\ a \notin Existing /\ About(a[2]) # {}
  /\ row' = [row EXCEPT ![a] = [new |-> FALSE, last |-> "never"]]
  /\ mails' = {[kind |-> "tip_access", to |-> a]}
  /\ UNCHANGED <<wants, remarks, files, gen, owed, written, dropped, slipped, raced>>

SetPreference(u) ==
  /\ Writable
  /\ wants' = IF u \in wants THEN wants \ {u} ELSE wants \cup {u}
  /\ mails' = {}
  /\ UNCHANGED <<row, remarks, files, gen, owed, written, dropped, slipped, raced>>

-----------------------------------------------------------------------------
(* generate: gen.before are the rows that were told when they were read,   *)
(* handled those that count as told now, and mailed those who wanted that. *)

(* What the cache answers for a setting of the site: nothing, when it is   *)
(* not one of the configuration.                                           *)
Cached(setting) == setting = "enable_receiver_notification_emails" /\ enabled

Silent == Cached("enable_notification_emails_recipient")

(* A mail is made only for those who have them on. *)
Wanted(as) == {a \in as : a[1] \in wants}

ReadMutant(step, rows, news) ==
  LET before == gen.before \cup (Told \cap (rows \ gen.seen))
      due    == IF Silent THEN {} ELSE news \ gen.handled
  IN [gen EXCEPT !.step = step, !.locked = gen.dirty, !.dirty = @ \/ rows # {},
                 !.seen = @ \cup rows, !.before = before,
                 !.handled = @ \cup due, !.mailed = @ \cup Wanted(due)]

(* A query returned these rows, some for what is news to them. *)
Read(step, rows, news) ==
  LET before == gen.before \cup (Told \cap (rows \ gen.seen))
      due    == IF Silent THEN {} ELSE news \ (gen.handled \cup before)
  IN [gen EXCEPT !.step = step, !.locked = gen.dirty, !.dirty = @ \/ rows # {},
                 !.seen = @ \cup rows, !.before = before,
                 !.handled = @ \cup due, !.mailed = @ \cup Wanted(due)]

(* Rows that were told when they were read and visited since are passed    *)
(* over with what is news to them now.                                     *)
Generating(news) ==
  /\ slipped' = slipped \cup (news \cap gen.before \cap gen.visited)
  /\ mails' = {}
  /\ UNCHANGED <<wants, row, remarks, files, owed, written, dropped, raced>>

ReadReports ==
  /\ gen.step = "idle"
  /\ LET new == {a \in Existing : row[a].new} IN
     gen' = [Read("reports", new, new) EXCEPT !.new = new]
  /\ Generating({})

(* The writes so far are sent, and then the new comments are read.         *)
ReadComments ==
  /\ gen.step = "reports"
  /\ LET rows == {a \in Existing : remarks[a[2]] # {}}
         news == {a \in rows : \E c \in remarks[a[2]] : Concerns(c, a)}
     IN /\ gen' = [Read("comments", rows, news) EXCEPT !.about = remarks]
        /\ Generating(news)

ReadFiles ==
  /\ gen.step = "comments"
  /\ gen' = [Read("files", files, files) EXCEPT !.files = files]
  /\ Generating(files)

(* The end: what was read is not new any more, and handled rows are told,  *)
(* as of the start of the run.  Once a day those who want mails are        *)
(* reminded: of reports unseen for long, and of those with a reminder due. *)
GenerateCommits(unseen, due) ==
  /\ gen.step = "files"
  /\ row' = [a \in Rtips |-> IF row[a] = None THEN None
               ELSE [new  |-> row[a].new /\ a \notin gen.new,
                     last |-> IF a \in gen.handled \ gen.visited THEN "mail" ELSE row[a].last]]
  /\ remarks' = [r \in Reports |-> remarks[r] \ gen.about[r]]
  /\ files' = files \ gen.files
  /\ mails' = {[kind |-> "tip", to |-> a] : a \in gen.mailed}
                \cup {[kind |-> "unread_tips",  to |-> a] : a \in Wanted(unseen)}
                \cup {[kind |-> "tip_reminder", to |-> a] : a \in Wanted(due)}
  /\ written' = written \cup gen.mailed
  /\ dropped' = dropped \cup (gen.handled \ gen.mailed)
  /\ raced' = (raced \ gen.mailed) \cup (gen.mailed \cap gen.visited)
  /\ gen' = Quiet
  /\ UNCHANGED <<wants, owed, slipped>>

(* The daily cleaning goes over the recipients of expiring reports, in any *)
(* order, and stops at the first who does not want mails.                  *)
ExpiryAlert(expiring) ==
  /\ Writable
  /\ LET us == {a[1] : a \in expiring} IN
     \E alerted \in SUBSET (us \cap wants) :
        /\ us \subseteq wants => alerted = us
        /\ mails' = {[kind |-> "tip_expiration_summary", to |-> a] :
                        a \in {b \in expiring : b[1] \in alerted}}
  /\ UNCHANGED <<wants, row, remarks, files, gen, owed, written, dropped, slipped, raced>>

-----------------------------------------------------------------------------
Init ==
  /\ wants = Users
  /\ row = [a \in Rtips |-> None]
  /\ files = {} /\ mails = {}
  /\ remarks = [r \in Reports |-> {}]
  /\ gen = Quiet
  /\ owed = {} /\ written = {} /\ dropped = {} /\ slipped = {} /\ raced = {}

Next ==
  \/ \E r \in Reports : \/ \E us \in SUBSET Users : Submission(r, us)
                        \/ WhistleblowerComments(r)
                        \/ FileDelivered(r)
                        \/ IdentityProvided(r)
                        \/ \E as \in SUBSET About(r) : as # {} /\ ExpiryAlert(as)
  \/ \E a \in Rtips : \/ Open(a)
                      \/ \E personal, public \in BOOLEAN : RecipientComments(a, personal, public)
                      \/ StatusUpdate(a)
                      \/ GrantAccess(a)
  \/ \E u \in Choosers : SetPreference(u)
  \/ ReadReports \/ ReadComments \/ ReadFiles
  \/ \E unseen \in SUBSET (Existing \cap Reminded) :
       \E due \in SUBSET (Existing \cap Reminded) : GenerateCommits(unseen, due)

Spec == Init /\ [][Next]_vars

-----------------------------------------------------------------------------
TypeOK ==
  /\ wants \subseteq Users
  /\ row \in [Rtips -> [new : BOOLEAN, last : {"never", "mail", "visit"}] \cup {None}]
  /\ files \cup owed \cup written \cup dropped \cup slipped \cup raced \subseteq Existing
  /\ remarks \in [Reports -> SUBSET Remarks]
  /\ gen.handled \cup gen.before \subseteq gen.seen /\ gen.mailed \subseteq gen.handled

(* News that generate has dealt with are covered by a mail since the       *)
(* recipient's last visit, however comments, files and visits come between *)
(* the queries of a run.  Two exceptions: a run found the recipient with   *)
(* mails off, or had read the row as told before a visit, and passed over  *)
(* what came after the visit on that stale date (last_access).             *)
NewsReach ==
  gen.step = "idle" =>
    \A a \in owed : \/ a \in written \cup dropped \cup slipped
                    \/ row[a].new \/ a \in files
                    \/ \E c \in remarks[a[2]] : Concerns(c, a)

(* The date of the last notification stands for a mail of generate since   *)
(* the last visit, or for one that was not wanted.                         *)
ToldIsWritten == Told \subseteq written \cup dropped

(* The antispam of the threat model: generate writes to a recipient about  *)
(* a report at most once between two visits.  One exception: the visit was *)
(* during the run of the first mail, which is dated to the run's start.    *)
OneMailPerVisit ==
  \A a \in Rtips : [kind |-> "tip", to |-> a] \in mails' /\ a \in written => a \in raced

(* A site with the notification of recipients disabled writes no mail of   *)
(* new reports and comments.                                               *)
SiteOptionObeyed ==
  [][~enabled /\ gen.step = "idle" => gen'.mailed = {}]_vars

(* A recipient with mail notifications off is sent none about reports.     *)
PreferenceObeyed ==
  [][\A m \in mails' : m.to[1] \in wants \/ m.to \in gen.mailed]_vars

(* When the alerts of expiring reports are written, every recipient of one *)
(* who wants mails gets it.                                                *)
ExpiringAreTold ==
  [][\A r \in Reports : ExpiryAlert(About(r)) => \A a \in About(r) : a[1] \in wants =>
        [kind |-> "tip_expiration_summary", to |-> a] \in mails']_vars
=============================================================================
