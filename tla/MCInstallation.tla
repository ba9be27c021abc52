--------------------------- MODULE MCInstallation ---------------------------
(***************************************************************************)
(* The tables of Schema and the sites of Tenants for TLC: what goes when   *)
(* a row is deleted, and which sites come and go.                          *)
(*                                                                         *)
(* They share no state, so one run goes through all of them: the initial   *)
(* state says of which part a behaviour is, and the others stay unused.    *)
(* Two parts are of Schema, which insert other units of rows:              *)
(* questionnaires, templates and channels of two sites, or all that        *)
(* belongs to a report and to a site.  Two are of Tenants, bounded by      *)
(* what a step may leave behind.                                           *)
(***************************************************************************)
EXTENDS Tenants, Schema

VARIABLE part

all == <<part, vars, tables>>

(* A root site with a questionnaire and a template that a second site uses,*)
(* and in the second site a channel for each questionnaire and one report. *)
Row(table, tid, no)    == [table |-> table, site |-> tid, no |-> no]
Link(f, column, t)   == [from |-> f, column |-> column, to |-> t]

SiteRows(s) ==
  {Row("tenant", s, 0), Row("config", s, 0), Row("enabledlanguage", s, 0),
   Row("config_l10n", s, 0), Row("customtexts", s, 0), Row("submissionstatus", s, 0),
   Row("submissionsubstatus", s, 0), Row("auditlog", s, 0)}
Second == SiteRows(2) \cup {Row("subscriber", 2, 0), Row("mail", 2, 0), Row("redirect", 2, 0)}
Person == {Row("user", 2, 1)}
Bare(s)  == {Row("tenant", s, 0)}
Pool     == {Row("questionnaire", 1, 1), Row("step", 1, 1)}
Template(s) == {Row("field", s, 10), Row("field", s, 11), Row("fieldoption", s, 10)}
Form == {Row("questionnaire", 2, 1), Row("step", 2, 1)}
          \cup {Row("field", 2, n) : n \in 1..3}
          \cup {Row("fieldattr", 2, 1), Row("fieldoption", 2, 2),
                Row("fieldoptiontriggerfield", 2, 3), Row("fieldoptiontriggerstep", 2, 1)}
Reference == {Row("field", 2, 4)}
Channel(n) == {Row("context", 2, n)}
Picture   == {Row("file", 2, 1)}
Report == {Row("internaltip", 2, 1), Row("internaltipanswers", 2, 1),
           Row("internaltipdata", 2, 1), Row("internalfile", 2, 1),
           Row("receivertip", 2, 1), Row("whistleblowerfile", 2, 1)}
Talk == {Row("comment", 2, 1), Row("receiverfile", 2, 1), Row("redaction", 2, 1)}
Access == {Row("identityaccessrequest", 2, 1), Row("identityaccessrequest_custodian", 2, 1)}

(* Questionnaires, templates and channels of two sites. *)
FormUnits == {Bare(1) \cup Pool, Bare(2), Template(1), Template(2), Form, Reference,
              Channel(1), Channel(2), {Row("internaltip", 2, 1), Row("internaltipanswers", 2, 1)}}

(* All that belongs to a report and to a site. *)
ReportUnits == {Bare(1) \cup Pool, Second, Person, Channel(2) \cup {Row("receiver_context", 2, 2)} \cup Picture,
                Report, Talk, Access}

(* A set written as a filter is computed once. *)
Listed(S) == {x \in S : TRUE}

Forms    == Listed({Listed(u) : u \in FormUnits})
Reports  == Listed({Listed(u) : u \in ReportUnits})
AllUnits == Listed(Forms \cup Reports)
AllRows  == Listed(UNION AllUnits)

Own(table, column, parent) ==
  {Link(r, column, Row(parent, r.site, r.no)) : r \in {x \in AllRows : x.table = table}}

MCLinks ==
  Own("config_l10n", "lang", "enabledlanguage")
  \cup Own("submissionsubstatus", "submissionstatus_id", "submissionstatus")
  \cup Own("step", "questionnaire_id", "questionnaire")
  \cup UNION {Own(t, "internaltip_id", "internaltip") : t \in ReportTables}
  \cup Own("whistleblowerfile", "internalfile_id", "internalfile")
  \cup Own("whistleblowerfile", "receivertip_id", "receivertip")
  \cup Own("identityaccessrequest_custodian", "identityaccessrequest_id", "identityaccessrequest")
  \cup Own("fieldattr", "field_id", "field")
  \cup Own("fieldoption", "field_id", "field")
  \cup Own("fieldoptiontriggerfield", "object_id", "field")
  \cup Own("fieldoptiontriggerstep", "object_id", "step")
  \cup Own("receiver_context", "context_id", "context")
  \cup {Link(Row(t, 2, 1), c, Row("user", 2, 1)) :
         <<t, c>> \in {<<"receivertip", "receiver_id">>, <<"internaltip", "operator_id">>,
                       <<"identityaccessrequest_custodian", "custodian_id">>}}
  \cup {Link(Row("receiver_context", 2, 2), "receiver_id", Row("user", 2, 1))}
  \cup {Link(Row("field", s, 11), "fieldgroup_id", Row("field", s, 10)) : s \in 1..2}
  \cup {Link(Row("field", 2, n), "step_id", Row("step", 2, 1)) : n \in {1, 3, 4}}
  \cup {Link(Row("field", 2, 2), "fieldgroup_id", Row("field", 2, 1)),
        Link(Row("field", 2, 4), "template_id", Row("field", 1, 10)),
        Link(Row("field", 2, 4), "template_override_id", Row("field", 2, 10)),
        Link(Row("fieldoptiontriggerfield", 2, 3), "option_id", Row("fieldoption", 2, 2)),
        Link(Row("fieldoptiontriggerstep", 2, 1), "option_id", Row("fieldoption", 2, 2)),
        Link(Row("context", 2, 1), "questionnaire_id", Row("questionnaire", 2, 1)),
        Link(Row("context", 2, 2), "questionnaire_id", Row("questionnaire", 1, 1)),
        Link(Row("context", 2, 2), "additional_questionnaire_id", Row("questionnaire", 2, 1)),
        Link(Row("internaltip", 2, 1), "context_id", Row("context", 2, 2))}

SomeLinks == Listed(MCLinks)

-----------------------------------------------------------------------------
(* Three sites with one username, that do not get old and are not loaded,  *)
(* so that only activations set them up; two with two usernames, that do   *)
(* and are.  The root site of the first parts was set up.                  *)
Two     == Fresh("third")
OneUser == \A t \in Sites : "bob" \notin site[t].users

Within ==
  /\ part = "signups" => OneUser /\ mem = {Root} /\ \A t \in Sites : site[t].age # "old"
  /\ part = "wizard"  => Two

NoSites == Init /\ site[Root].done

Initial ==
  \/ /\ \/ part = "forms"   /\ TablesStart(Forms)
        \/ part = "reports" /\ TablesStart(Reports)
     /\ NoSites
  \/ /\ \/ part = "signups" /\ NoSites
        \/ part = "wizard" /\ Init
     /\ rows = None /\ nulled = None

StepOfTables ==
  /\ \/ part = "forms"   /\ TablesStep(Forms)
     \/ part = "reports" /\ TablesStep(Reports)
  /\ UNCHANGED <<part, vars>>

SiteStep ==
  /\ part \in {"signups", "wizard"}
  /\ UNCHANGED <<part, tables>>
  /\ Next
  /\ Within'

StepOfOne == StepOfTables \/ SiteStep

Installation == Initial /\ [][StepOfOne]_all

-----------------------------------------------------------------------------
(* What is deleted goes with all that belongs to it and with nothing else: *)
(* reports and sites go whole, conditions of questionnaires stay with what *)
(* they show, a deletion leaves the other sites alone and takes a report   *)
(* only with its channel or its site.                                      *)
DeletionsFit ==
  /\ [](part = "forms"   => RowsOK /\ TriggersAlive)
  /\ [](part = "reports" => ReportsGoWhole /\ SitesGoWhole)
  /\ [][part = "forms"   => SitesApart]_all
  /\ [][part = "reports" => ReportsStay]_all

=============================================================================
