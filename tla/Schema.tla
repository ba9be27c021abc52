------------------------------- MODULE Schema -------------------------------
(***************************************************************************)
(* The tables of the platform and their foreign keys: what else goes when  *)
(* a handler deletes a row.  The handlers delete single rows and leave the *)
(* rest to the database, so that reports, channels, questionnaires and     *)
(* sites go as a whole, or stay, by the declarations of the models alone.  *)
(*                                                                         *)
(* A foreign key is checked at the end of the transaction (DEFERRED).  A   *)
(* column that names a row without being a foreign key is left as it is.   *)
(***************************************************************************)
EXTENDS Integers, FiniteSets

CONSTANTS
  Rows,    (* The rows there may ever be: [table, site, no].               *)
  Links,   (* What their columns hold: [from, column, to].                 *)
  Units,   (* The sets of rows that one transaction inserts.               *)
  FirstSite,    (* The site with identifier 1.                                  *)
  Depth    (* Bound on the length of a chain of cascades.                  *)

VARIABLES
  rows,    (* What is in the database.                                     *)
  nulled   (* The links that ON DELETE SET NULL has cut.                   *)

tables == <<rows, nulled>>

FK(table, column, parent) ==
  [table |-> table, column |-> column, parent |-> parent, ondelete |-> "CASCADE"]
NoAction(fk) == [fk EXCEPT !.ondelete = "NO ACTION"]
SetNull(fk)  == [fk EXCEPT !.ondelete = "SET NULL"]

-----------------------------------------------------------------------------
(* The classes of the models, by their foreign keys. *)

ArchivedSchema == {}
AuditLog       == {}
Comment        == {FK("comment", "internaltip_id", "internaltip")}
Config         == {FK("config", "tid", "tenant")}
ConfigL10N     == {FK("config_l10n", "lang", "enabledlanguage")}
Context        == {FK("context", "tid", "tenant"),
                   NoAction(FK("context", "questionnaire_id", "questionnaire"))}
CustomTexts    == {FK("customtexts", "tid", "tenant")}
EnabledLanguage == {FK("enabledlanguage", "tid", "tenant")}
FieldMutant    == {FK("field", "tid", "tenant"), FK("field", "step_id", "step"),
                   FK("field", "fieldgroup_id", "field"),
                   FK("field", "template_id", "field"),
                   SetNull(FK("field", "template_override_id", "field"))}
Field          == {FK("field", "tid", "tenant"), FK("field", "step_id", "step"),
                   FK("field", "fieldgroup_id", "field"),
                   NoAction(FK("field", "template_id", "field")),
                   SetNull(FK("field", "template_override_id", "field"))}
FieldAttr      == {FK("fieldattr", "field_id", "field")}
FieldOption    == {FK("fieldoption", "field_id", "field")}
FieldOptionTriggerField ==
  {FK("fieldoptiontriggerfield", "option_id", "fieldoption"),
   FK("fieldoptiontriggerfield", "object_id", "field")}
FieldOptionTriggerStep ==
  {FK("fieldoptiontriggerstep", "option_id", "fieldoption"),
   FK("fieldoptiontriggerstep", "object_id", "step")}
File           == {FK("file", "tid", "tenant")}
IdentityAccessRequest == {FK("identityaccessrequest", "internaltip_id", "internaltip")}
IdentityAccessRequestCustodian ==
  {FK("identityaccessrequest_custodian", "identityaccessrequest_id", "identityaccessrequest"),
   FK("identityaccessrequest_custodian", "custodian_id", "user")}
InternalFile   == {FK("internalfile", "internaltip_id", "internaltip")}
InternalTip    == {FK("internaltip", "tid", "tenant"), FK("internaltip", "context_id", "context")}
InternalTipAnswers == {FK("internaltipanswers", "internaltip_id", "internaltip")}
InternalTipData == {FK("internaltipdata", "internaltip_id", "internaltip")}
Mail           == {FK("mail", "tid", "tenant")}
Questionnaire  == {FK("questionnaire", "tid", "tenant")}
ReceiverContext == {FK("receiver_context", "context_id", "context"),
                    FK("receiver_context", "receiver_id", "user")}
ReceiverFile   == {FK("receiverfile", "internaltip_id", "internaltip")}
ReceiverTip    == {FK("receivertip", "receiver_id", "user"),
                   FK("receivertip", "internaltip_id", "internaltip")}
Redaction      == {FK("redaction", "internaltip_id", "internaltip")}
Redirect       == {FK("redirect", "tid", "tenant")}
Step           == {FK("step", "questionnaire_id", "questionnaire")}
SubmissionStatus == {FK("submissionstatus", "tid", "tenant")}
SubmissionSubStatus == {FK("submissionsubstatus", "submissionstatus_id", "submissionstatus")}
Subscriber     == {FK("subscriber", "tid", "tenant")}
Tenant         == {}
User           == {FK("user", "tid", "tenant")}
WhistleblowerFile == {FK("whistleblowerfile", "internalfile_id", "internalfile"),
                      FK("whistleblowerfile", "receivertip_id", "receivertip")}

ForeignKeys == UNION {
  ArchivedSchema, AuditLog, Comment, Config, ConfigL10N, Context, CustomTexts,
  EnabledLanguage, Field, FieldAttr, FieldOption, FieldOptionTriggerField,
  FieldOptionTriggerStep, File, IdentityAccessRequest,
  IdentityAccessRequestCustodian, InternalFile, InternalTip, InternalTipAnswers,
  InternalTipData, Mail, Questionnaire, ReceiverContext, ReceiverFile,
  ReceiverTip, Redaction, Redirect, Step, SubmissionStatus, SubmissionSubStatus,
  Subscriber, Tenant, User, WhistleblowerFile}

-----------------------------------------------------------------------------
(* Every row has the column tid where its table has a tenant. *)
SiteOf(r) == [table |-> "tenant", site |-> r.site, no |-> 0]
TidLinks  == {[from |-> r, column |-> "tid", to |-> SiteOf(r)] :
                r \in {x \in Rows : x.table # "tenant"}}
AllLinks  == Links \cup TidLinks

Declared(how) ==
  {l \in AllLinks : \E fk \in ForeignKeys :
      /\ fk.table = l.from.table /\ fk.column = l.column /\ fk.parent = l.to.table
      /\ fk.ondelete \in how}
Keyed   == Declared({"CASCADE", "NO ACTION", "SET NULL"})
Cascade == Declared({"CASCADE"})
Nulling == Declared({"SET NULL"})

(* What a deletion of the rows S of the database takes with it. *)
Closure(S) ==
  LET reach[n \in 0..Depth] ==
        IF n = 0 THEN S
        ELSE LET before == reach[n-1]
             IN before \cup {l.from : l \in {x \in Cascade : x.to \in before}}
  IN reach[Depth] \cap rows

(* The check at the commit: no foreign key without its row. *)
Consistent(db, cut) == \A l \in Keyed \ cut : l.from \in db => l.to \in db

Insert(unit) ==
  /\ unit \cap rows = {}
  /\ rows' = rows \cup unit
  /\ nulled' = {l \in nulled : l.from \notin unit}
  /\ Consistent(rows', nulled')

DeleteRows(S) ==
  /\ S # {} /\ S \subseteq rows
  /\ LET gone == Closure(S) IN
     /\ rows' = rows \ gone
     /\ nulled' = nulled \cup {l \in Nulling : l.to \in gone /\ l.from \in rows \ gone}
  /\ Consistent(rows', nulled')

-----------------------------------------------------------------------------
(* The handlers and jobs that delete. *)

RowsOf(table)  == {r \in rows : r.table = table}
DeleteRow(table) == \E r \in RowsOf(table) : DeleteRows({r})

(* A site other than the root: by the administrator, a signup for the same *)
(* name, or the cleaning.                                                  *)
DeleteTenant      == \E r \in RowsOf("tenant") : r.site # FirstSite /\ DeleteRows({r})
DeleteContext     == DeleteRow("context")
DeleteUser        == DeleteRow("user")
DeleteQuestionnaire == DeleteRow("questionnaire")
DeleteStep        == DeleteRow("step")
DeleteStatus      == DeleteRow("submissionstatus")
DeleteSubStatus   == DeleteRow("submissionsubstatus")
DeleteReport      == DeleteRow("internaltip")
DeleteReceiverFile == DeleteRow("receiverfile")
DeleteInternalFile == DeleteRow("internalfile")
DeleteRedaction   == DeleteRow("redaction")
RevokeTip         == DeleteRow("receivertip")
CleanMail         == DeleteRow("mail")
DisableLanguage   == DeleteRow("enabledlanguage")
DeletePicture     == DeleteRow("file")
DeleteOption      == DeleteRow("fieldoption")
ClearReceivers    == DeleteRow("receiver_context")
ResetTriggers     == DeleteRow("fieldoptiontriggerfield") \/ DeleteRow("fieldoptiontriggerstep")

(* All the reports of a site at once. *)
ResetReports ==
  \E t \in {r.site : r \in rows} : DeleteRows({r \in RowsOf("internaltip") : r.site = t})

(* A template is refused while a field of its own site uses it. *)
Uses(f, template) == [from |-> f, column |-> "template_id", to |-> template] \in Links
DeleteField ==
  \E r \in RowsOf("field") :
     /\ \A f \in RowsOf("field") : f.site = r.site => ~Uses(f, r)
     /\ DeleteRows({r})

(* Of the units that may be inserted, the root site is there at first. *)
TablesStart(units) ==
  /\ rows = {r \in Rows : \E u \in units : r \in u /\ SiteOf(r) \in u /\ r.site = FirstSite}
  /\ nulled = {}

TablesStep(units) ==
  \/ \E u \in units : Insert(u)
  \/ DeleteTenant \/ DeleteContext \/ DeleteUser \/ DeleteQuestionnaire \/ DeleteStep
  \/ DeleteStatus \/ DeleteSubStatus \/ DeleteReport \/ ResetReports \/ RevokeTip
  \/ DeleteReceiverFile \/ DeleteInternalFile \/ DeleteRedaction \/ CleanMail
  \/ DisableLanguage \/ DeletePicture \/ DeleteOption \/ ClearReceivers
  \/ ResetTriggers \/ DeleteField

TablesSpec == TablesStart(Units) /\ [][TablesStep(Units)]_tables

-----------------------------------------------------------------------------
RowsOK ==
  /\ rows \subseteq Rows
  /\ nulled \subseteq Links

(* The tables that hold something of a report. *)
ReportTables == {"comment", "identityaccessrequest", "identityaccessrequest_custodian",
                 "internalfile", "internaltipanswers", "internaltipdata", "receiverfile",
                 "receivertip", "redaction", "whistleblowerfile"}

(* Nothing that was written about a report outlives it, whichever way it   *)
(* was deleted: by itself, with its channel, its site or all at once.      *)
ReportsGoWhole ==
  \A r \in rows : r.table \in ReportTables =>
    \E i \in RowsOf("internaltip") : i.site = r.site /\ i.no = r.no

(* Nothing of a site outlives it, except its log. *)
SitesGoWhole == \A r \in rows : r.table # "auditlog" => SiteOf(r) \in rows

(* A deletion never reaches the rows of another site, although sites share *)
(* the questionnaires and templates of the root.                           *)
SitesApart == \A r, s \in rows \ rows' : r.site = s.site

(* Whatever is deleted of questionnaires, statuses, users and files, a     *)
(* report goes only by itself, with its channel or with its site.          *)
ReportsStay ==
  \A i \in RowsOf("internaltip") \ rows' :
     \/ \A r \in rows \ rows' : r.table \in ReportTables \cup {"internaltip"}
     \/ SiteOf(i) \notin rows'
     \/ /\ \E c \in RowsOf("context") \ rows' : c.site = i.site
        /\ RowsOf("questionnaire") \subseteq rows'

(* A condition never names an answer that is not there any more.           *)
TriggersAlive ==
  \A l \in Links : l.column = "option_id" /\ l.from \in rows => l.to \in rows
=============================================================================
