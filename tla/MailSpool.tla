------------------------------ MODULE MailSpool ------------------------------
(***************************************************************************)
(* The mails that wait in the table mail, and the job that sends them:     *)
(* Notification.spool_emails reads the oldest of them, and for each in     *)
(* turn talks to the server of its site and then deletes the row, in       *)
(* another transaction.  The process may stop between any two steps; an    *)
(* answer of a server may be lost; servers fail and recover; sites are     *)
(* switched off and deleted; the daily cleaning deletes old mails.         *)
(***************************************************************************)
EXTENDS Naturals, FiniteSets

CONSTANTS
  Mails,      (* Each is scheduled once.                                   *)
  Sites,
  Site(_),    (* The site a mail is of.                                    *)
  Batch,      (* How many a run reads: 100.                                *)
  Faults,     (* Bound on stops, failed deletions and lost answers.        *)
  Removable   (* The sites that may be switched off, on and deleted.       *)

ASSUME SpoolAssumption ==
  /\ IsFiniteSet(Mails) /\ \A m \in Mails : Site(m) \in Sites
  /\ Batch \in Nat \ {0} /\ Faults \in Nat /\ Removable \subseteq Sites

VARIABLES
  spool,    (* The mails in the table.                                     *)
  created,  (* Their creation dates, in the order of the transactions.     *)
  todo,     (* The mails the job has read and not yet dealt with.          *)
  phase,    (* Of the job: between runs, to send, or sent.                 *)
  active,   (* The sites in State.tenants.                                 *)
  answers,  (* The sites whose server accepts mails.                       *)
  got,      (* How often each mail was delivered.                          *)
  gone,     (* History: mails deleted otherwise, with site or age.         *)
  faults,
  muted     (* settings.disable_notifications, as the process was started. *)

vars == <<spool, created, todo, phase, active, answers, got, gone, faults, muted>>

Unscheduled == 0
Scheduled   == {m \in Mails : created[m] # Unscheduled}

Older(m, n) == created[m] < created[n]
Oldest(S)   == CHOOSE m \in S : \A n \in S : ~Older(n, m)

-----------------------------------------------------------------------------
(* The world around the job. *)

(* Any transaction may add a mail, for a site that is switched off too.    *)
Schedule(m) ==
  /\ m \notin Scheduled
  /\ created' = [created EXCEPT ![m] = Cardinality(Scheduled) + 1]
  /\ spool' = spool \cup {m}
  /\ UNCHANGED <<todo, phase, active, answers, got, gone, faults, muted>>

ServerChanges(s) ==
  /\ answers' = IF s \in answers THEN answers \ {s} ELSE answers \cup {s}
  /\ UNCHANGED <<spool, created, todo, phase, active, got, gone, faults, muted>>

SiteSwitched(s) ==
  /\ s \in Removable
  /\ active' = IF s \in active THEN active \ {s} ELSE active \cup {s}
  /\ UNCHANGED <<spool, created, todo, phase, answers, got, gone, faults, muted>>

(* The mails of the site go with it. *)
SiteDeleted(s) ==
  /\ s \in Removable \cap active
  /\ active' = active \ {s}
  /\ LET ms == {m \in spool : Site(m) = s} IN
     /\ spool' = spool \ ms
     /\ gone' = gone \cup ms
  /\ UNCHANGED <<created, todo, phase, answers, got, faults, muted>>

(* The mails older than two weeks. *)
OldMailsCleaned ==
  /\ \E m \in spool :
        LET ms == {n \in spool : ~Older(m, n)} IN
        /\ spool' = spool \ ms
        /\ gone' = gone \cup ms
  /\ UNCHANGED <<created, todo, phase, active, answers, got, faults, muted>>

(* The process stops, or a deletion fails and the job dies. *)
Stop ==
  /\ faults < Faults
  /\ faults' = faults + 1
  /\ todo' = {} /\ phase' = "idle"
  /\ UNCHANGED <<spool, created, active, answers, got, gone, muted>>

-----------------------------------------------------------------------------
(* The job. *)

Fetch ==
  /\ phase = "idle" /\ spool # {}
  /\ todo' = {m \in spool : Cardinality({n \in spool : Older(n, m)}) < Batch}
  /\ phase' = "send"
  /\ UNCHANGED <<spool, created, active, answers, got, gone, faults, muted>>

RunEnds ==
  /\ phase = "send" /\ todo = {}
  /\ phase' = "idle"
  /\ UNCHANGED <<spool, created, todo, active, answers, got, gone, faults, muted>>

(* sendmail looks the site up in memory first: that may raise, and the job *)
(* dies until its next run.                                                *)
SendDies ==
  /\ phase = "send" /\ todo # {} /\ ~muted
  /\ Site(Oldest(todo)) \notin active
  /\ todo' = {} /\ phase' = "idle"
  /\ UNCHANGED <<spool, created, active, answers, got, gone, faults, muted>>

SendMutant ==
  /\ phase = "send" /\ todo # {} /\ ~muted
  /\ Site(Oldest(todo)) \in active
  /\ \/ /\ Site(Oldest(todo)) \in answers
        /\ got' = [got EXCEPT ![Oldest(todo)] = @ + 1]
        /\ phase' = "sent"
        /\ UNCHANGED <<todo, faults>>
     \/ /\ Site(Oldest(todo)) \notin answers
        /\ phase' = "sent"
        /\ UNCHANGED <<got, todo, faults>>
  /\ UNCHANGED <<spool, created, active, answers, gone, muted>>

(* With the mails disabled sendmail reports a success and does nothing.    *)
Skip ==
  /\ phase = "send" /\ todo # {} /\ muted
  /\ phase' = "sent"
  /\ UNCHANGED <<spool, created, todo, active, answers, got, gone, faults, muted>>

(* Delivered; or delivered and the answer lost; or refused.  Both of the   *)
(* latter are a failure, and the mail is left for a later run.             *)
Send ==
  /\ phase = "send" /\ todo # {} /\ ~muted
  /\ Site(Oldest(todo)) \in active
  /\ \/ /\ Site(Oldest(todo)) \in answers
        /\ got' = [got EXCEPT ![Oldest(todo)] = @ + 1]
        /\ phase' = "sent"
        /\ UNCHANGED <<todo, faults>>
     \/ /\ Site(Oldest(todo)) \in answers /\ faults < Faults
        /\ got' = [got EXCEPT ![Oldest(todo)] = @ + 1]
        /\ faults' = faults + 1
        /\ todo' = todo \ {Oldest(todo)}
        /\ UNCHANGED phase
     \/ /\ Site(Oldest(todo)) \notin answers
        /\ todo' = todo \ {Oldest(todo)}
        /\ UNCHANGED <<got, phase, faults>>
  /\ UNCHANGED <<spool, created, active, answers, gone, muted>>

Delete ==
  /\ phase = "sent"
  /\ spool' = spool \ {Oldest(todo)}
  /\ todo' = todo \ {Oldest(todo)}
  /\ phase' = "send"
  /\ UNCHANGED <<created, active, answers, got, gone, faults, muted>>

-----------------------------------------------------------------------------
Init ==
  /\ spool = {} /\ todo = {} /\ phase = "idle"
  /\ active = Sites /\ answers = Sites
  /\ created = [m \in Mails |-> Unscheduled] /\ got = [m \in Mails |-> 0]
  /\ gone = {} /\ faults = 0 /\ muted \in BOOLEAN

Job == Fetch \/ RunEnds \/ SendDies \/ Skip \/ Send \/ Delete

Next ==
  \/ \E m \in Mails : Schedule(m)
  \/ \E s \in Sites : ServerChanges(s) \/ SiteSwitched(s) \/ SiteDeleted(s)
  \/ OldMailsCleaned
  \/ Stop
  \/ Job

(* The loop starts a run ten seconds after the one before, and the reactor *)
(* resumes it.                                                             *)
Spec == Init /\ [][Next]_vars /\ WF_vars(Job)

-----------------------------------------------------------------------------
TypeOK ==
  /\ spool \cup todo \cup gone \subseteq Scheduled
  /\ phase \in {"idle", "send", "sent"} /\ (phase = "sent" => todo # {})
  /\ active \cup answers \subseteq Sites
  /\ created \in [Mails -> Nat] /\ got \in [Mails -> Nat] /\ faults \in 0 .. Faults
  /\ muted \in BOOLEAN

(* A mail leaves the table only delivered, or with its site, or of old     *)
(* age: what was refused, or cut off by a stop, waits for a later run.     *)
(* The exception is a process that sends no mails: it empties the table.   *)
NothingIsLost == \A m \in Scheduled : m \in spool \cup gone \/ got[m] > 0 \/ muted

(* A mail is delivered again only after a stop, or an answer that was lost.*)
NoIdleRepeats == \A m \in Mails : got[m] <= 1 + faults

(* Mails that their servers refuse hold up no others, while they fill no   *)
(* whole batch: a mail of a site that works does not wait for ever.        *)
Refused(m) == Site(m) \notin answers

NeverStuck ==
  \A m \in Mails :
    ~<>[](/\ m \in spool /\ ~Refused(m)
          /\ \A n \in spool : Site(n) \in active
          /\ Cardinality({n \in spool : Refused(n)}) < Batch)

(* A run goes over all the mails it has read, unless the process stops.    *)
RunsToTheEnd ==
  [][phase # "idle" /\ phase' = "idle" /\ faults' = faults => todo = {}]_vars
=============================================================================
