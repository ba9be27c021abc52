----------------------------- MODULE Submission -----------------------------
(***************************************************************************)
(* The transactions that write a report, on threads that share a database  *)
(* with one write lock: the submission, the additional questionnaire and   *)
(* attachments that are sent later.  A transaction that finds the database *)
(* locked is rolled back and its body runs again (orm.transact), with the  *)
(* same objects in memory: the request, and the session of the             *)
(* whistleblower with the files it uploaded.                               *)
(*                                                                         *)
(* As in module Transactions a body is read before its first write, then   *)
(* holds the lock until it commits.                                        *)
(***************************************************************************)
EXTENDS Naturals, Sequences, FiniteSets

CONSTANTS
  Sessions,    (* Of whistleblowers, each with one file uploaded.          *)
  Bodies,      (* Bound: a session with as many reports written, whatever  *)
               (* has become of them, does not submit again.               *)
  Threads,     (* Of the database.                                         *)
  Versions,    (* What an administrator may make of a questionnaire.       *)
  First,       (* The one the site begins with.                            *)
  Locked,      (* A transaction may wait for the lock in vain.             *)
  Retries,     (* _ORM_TRANSACTION_RETRIES                                 *)
  Ops,         (* What whistleblowers do: "submit" and, if these are in the*)
               (* run, "additional" (answers) and "attach".                *)
  Nobody

ASSUME SubmissionAssumption ==
  /\ First \in Versions /\ Locked \in BOOLEAN /\ Retries \in Nat \ {0}
  /\ Bodies \in Nat
  /\ "submit" \in Ops /\ Ops \subseteq {"submit", "additional", "attach"}
  /\ Nobody \notin Sessions

VARIABLES
  version,   (* Of the questionnaire and of the additional one.            *)
  archived,  (* Rows of archivedschema, by what is hashed.                 *)
  counter,   (* counter_submissions                                        *)
  reports,   (* The rows of internaltip, with those that refer to them.    *)
  memory,    (* Of each session: the identity in the request, the keys the *)
             (* metadata of its files is encrypted with, from the inside   *)
             (* out, the same of a file sent later, user_id.               *)
  txn,       (* What each thread does.                                     *)
  outcome,   (* What the whistleblower is told of its submission.          *)
  made       (* How many reports the last submission of each session left. *)

vars == <<version, archived, counter, reports, memory, txn, outcome, made>>

Questionnaires == {"main", "additional"}

Idle == [stage |-> "idle", op |-> "submit", s |-> Nobody, try |-> 0,
         schema |-> <<"main", First>>, found |-> {}, n |-> 0, row |-> {}]

(* The report of a session, none if its submission was rolled back.        *)
Of(s) == {r \in reports : r.id = memory[s].user}

Unlocked == \A t \in Threads : txn[t].stage # "written"

(* A transaction of others needs a thread as well. *)
Free == Unlocked /\ \E t \in Threads : txn[t] = Idle

(* A bound: a session asks for one thing after the other. *)
Calm(s) == outcome[s] # "waiting" /\ \A t \in Threads : txn[t].s # s

SchemaFor(op) == LET q == IF op = "additional" THEN op ELSE "main" IN <<q, version[q]>>

-----------------------------------------------------------------------------
(* What a body reads before it writes: the questionnaire, whether it has   *)
(* been archived (db_archive_questionnaire_schema) and, if nothing is      *)
(* written before, the counter (db_assign_submission_progressive).         *)
Reads(t, op, s, k) ==
  txn' = [txn EXCEPT ![t] =
    [Idle EXCEPT !.stage = "read", !.op = op, !.s = s, !.try = k, !.schema = SchemaFor(op),
                 !.found = archived \cap {SchemaFor(op)}, !.n = counter]]

(* Each submission has the identity in its own request; the files, and the *)
(* number of reports written before, are in the session.                   *)
Submit(t, s) ==
  /\ txn[t] = Idle /\ Calm(s) /\ memory[s].user[2] < Bodies
  /\ outcome' = [outcome EXCEPT ![s] = "waiting"] /\ made' = [made EXCEPT ![s] = 0]
  /\ memory' = [memory EXCEPT ![s].identity = TRUE]
  /\ Reads(t, "submit", s, 1)
  /\ UNCHANGED <<version, archived, counter, reports>>

(* Once each, after the submission.  An upload begins with the plain       *)
(* metadata of its file.                                                   *)
Add(t, op, s) ==
  /\ op # "submit" /\ txn[t] = Idle
  /\ Of(s) # {} /\ Calm(s)
  /\ \A r \in Of(s) : IF op = "attach" THEN r.later = <<>> ELSE Cardinality(r.schemas) = 1
  /\ Reads(t, op, s, 1)
  /\ memory' = IF op = "attach" THEN [memory EXCEPT ![s].later = <<>>] ELSE memory
  /\ UNCHANGED <<version, archived, counter, reports, outcome, made>>

ReadAgain(t) ==
  /\ txn[t].stage = "again"
  /\ Reads(t, txn[t].op, txn[t].s, txn[t].try)
  /\ UNCHANGED <<version, archived, counter, reports, memory, outcome, made>>

-----------------------------------------------------------------------------
(* The first write of a submission is the schema or the counter.  In the   *)
(* first case the counter is read under the lock.                          *)
Progressive(x) == IF x.found = {} THEN counter + 1 ELSE x.n + 1
Archives(x)    == x.op # "attach" /\ x.found = {}

(* A schema that is archived twice, and a number that is taken, violate a  *)
(* constraint.                                                             *)
Conflict(x) ==
  \/ Archives(x) /\ x.schema \in archived
  \/ x.op = "submit" /\ \E r \in reports : r.number = Progressive(x)
  \/ x.op # "submit" /\ Of(x.s) = {}

EncryptedTwice(m, id) == [m EXCEPT !.user = id, !.files = @ \o <<id, id>>, !.identity = FALSE]

(* After the report was inserted: user_id of the session, the identity     *)
(* which is taken out of the answers, the files.                           *)
Encrypted(m, id) == [m EXCEPT !.user = id, !.files = Append(@, id), !.identity = FALSE]

NewId(x, m) == <<x.s, m.user[2] + 1>>

Report(x, m) ==
  LET id == NewId(x, m) IN
  [id |-> id, number |-> Progressive(x), schemas |-> {x.schema},
   files |-> Encrypted(m, id).files, later |-> <<>>, identity |-> m.identity]

WriteReport(t) ==
  LET x == txn[t]  m == memory[x.s] IN
  /\ x.op = "submit"
  /\ memory' = [memory EXCEPT ![x.s] = Encrypted(m, NewId(x, m))]
  /\ txn' = [txn EXCEPT ![t].stage = "written", ![t].n = Progressive(x), ![t].row = {Report(x, m)}]

(* A report with the answers of another questionnaire, and one with files  *)
(* that were sent later.                                                   *)
Answered(r, schema) == [r EXCEPT !.schemas = @ \cup {schema}]
Attached(r, later)  == [r EXCEPT !.later = later]

WriteAnswers(t) ==
  LET x == txn[t] IN
  /\ x.op = "additional"
  /\ txn' = [txn EXCEPT ![t].stage = "written",
               ![t].row = {Answered(r, x.schema) : r \in Of(x.s)}]
  /\ UNCHANGED memory

WriteFile(t) ==
  LET x == txn[t]  m == memory[x.s] IN
  /\ x.op = "attach"
  /\ memory' = [memory EXCEPT ![x.s].later = Append(@, m.user)]
  /\ txn' = [txn EXCEPT ![t].stage = "written",
               ![t].row = {Attached(r, Append(m.later, m.user)) : r \in Of(x.s)}]

Write(t) ==
  /\ txn[t].stage = "read" /\ Unlocked /\ ~Conflict(txn[t])
  /\ WriteReport(t) \/ WriteAnswers(t) \/ WriteFile(t)
  /\ UNCHANGED <<version, archived, counter, reports, outcome, made>>

ToldMutant(x, what) == outcome' = [outcome EXCEPT ![x.s] = what]

Told(x, what) == outcome' = IF x.op = "submit" THEN [outcome EXCEPT ![x.s] = what] ELSE outcome

(* Any exception but that of a locked database ends the transaction. *)
Refuse(t) ==
  /\ txn[t].stage = "read" /\ Unlocked /\ Conflict(txn[t])
  /\ txn' = [txn EXCEPT ![t] = Idle] /\ Told(txn[t], "failed")
  /\ UNCHANGED <<version, archived, counter, reports, memory, made>>

Stored(x) == {r \in reports : r.id \notin {y.id : y \in x.row}} \cup x.row
Counted(x) == IF x.op = "submit" THEN [made EXCEPT ![x.s] = @ + 1] ELSE made

(* The file of the session has its row already, that of a report which was *)
(* submitted before.                                                       *)
Collides(x) == x.op = "submit" /\ \E r \in reports : r.id[1] = x.s

Collide(t) ==
  /\ txn[t].stage = "written" /\ Collides(txn[t])
  /\ txn' = [txn EXCEPT ![t] = Idle] /\ Told(txn[t], "failed")
  /\ UNCHANGED <<version, archived, counter, reports, memory, made>>

Commit(t) ==
  LET x == txn[t] IN
  /\ x.stage = "written" /\ ~Collides(x)
  /\ reports' = Stored(x) /\ made' = Counted(x)
  /\ counter' = IF x.op = "submit" THEN x.n ELSE counter
  /\ archived' = IF Archives(x) THEN archived \cup {x.schema} ELSE archived
  /\ txn' = [txn EXCEPT ![t] = Idle] /\ Told(x, "done")
  /\ UNCHANGED <<version, memory>>

AfterLocked(t) ==
  LET x == txn[t] IN
  IF x.try < Retries
  THEN txn' = [txn EXCEPT ![t] = [Idle EXCEPT !.stage = "again", !.op = x.op, !.s = x.s, !.try = x.try + 1]]
       /\ UNCHANGED outcome
  ELSE txn' = [txn EXCEPT ![t] = Idle] /\ Told(x, "failed")

(* Another transaction holds the lock for half a minute, or reads while    *)
(* this one commits.                                                       *)
Wait(t) ==
  /\ Locked /\ txn[t].stage \in {"read", "written"}
  /\ AfterLocked(t)
  /\ UNCHANGED <<version, archived, counter, reports, memory, made>>

-----------------------------------------------------------------------------
Used(rs)       == UNION {r.schemas : r \in rs}

(* The cleaning job writes with its first statements: it reads what is in  *)
(* use under the lock.  Which reports have expired is left to module       *)
(* Retention.                                                              *)
Clean(expired) ==
  /\ Free /\ expired \subseteq reports
  /\ reports' = reports \ expired
  /\ archived' = archived \cap Used(reports')
  /\ UNCHANGED <<version, counter, memory, txn, outcome, made>>

(* By a recipient. *)
Delete(r) ==
  /\ Free
  /\ reports' = reports \ {r}
  /\ UNCHANGED <<version, archived, counter, memory, txn, outcome, made>>

(* An administrator changes a questionnaire, or changes it back. *)
Edit(q, v) ==
  /\ Free /\ version[q] # v
  /\ version' = [version EXCEPT ![q] = v]
  /\ UNCHANGED <<archived, counter, reports, memory, txn, outcome, made>>

-----------------------------------------------------------------------------
Init ==
  /\ version = [q \in Questionnaires |-> First]
  /\ archived = {} /\ counter = 0 /\ reports = {}
  /\ memory = [s \in Sessions |-> [user |-> <<s, 0>>, identity |-> TRUE, files |-> <<>>, later |-> <<>>]]
  /\ txn = [t \in Threads |-> Idle]
  /\ outcome = [s \in Sessions |-> "none"]
  /\ made = [s \in Sessions |-> 0]

Next ==
  \/ \E t \in Threads :
       \/ ReadAgain(t) \/ Write(t) \/ Refuse(t) \/ Collide(t) \/ Commit(t) \/ Wait(t)
       \/ \E s \in Sessions : Submit(t, s) \/ \E op \in Ops : Add(t, op, s)
  \/ \E expired \in SUBSET reports : Clean(expired)
  \/ \E r \in reports : Delete(r)
  \/ \E q \in Questionnaires, v \in Versions : Edit(q, v)

Spec == Init /\ [][Next]_vars

-----------------------------------------------------------------------------
Ids     == Sessions \X Nat
Schemas == Questionnaires \X Versions
Memo    == [user : Ids, identity : BOOLEAN, files : Seq(Ids), later : Seq(Ids)]
Row     == [id : Ids, number : Nat, schemas : SUBSET Schemas, files : Seq(Ids), later : Seq(Ids),
            identity : BOOLEAN]
Txn     == [stage : {"idle", "read", "written", "again"}, op : Ops, s : Sessions \cup {Nobody},
            try : 0 .. Retries, schema : Schemas, found : SUBSET Schemas, n : Nat, row : SUBSET Row]

(* A thread that waits to run again has written nothing that is kept, and  *)
(* what a thread has written refers to its session alone.                  *)
Sound(x) ==
  /\ x.stage = "idle" <=> x.s = Nobody
  /\ x.row # {} <=> x.stage = "written"
  /\ \A r \in x.row : r.id[1] = x.s

(* The types of the variables, and what a thread holds in each stage. *)
TypeOK ==
  /\ version \in [Questionnaires -> Versions] /\ archived \subseteq Schemas /\ counter \in Nat
  /\ reports \subseteq Row /\ memory \in [Sessions -> Memo]
  /\ outcome \in [Sessions -> {"none", "waiting", "done", "failed"}] /\ made \in [Sessions -> Nat]
  /\ txn \in [Threads -> Txn] /\ \A t \in Threads : Sound(txn[t])

(* What decrypt_tip does to a report succeeds, and gives what the          *)
(* whistleblower sent: the metadata of every file is encrypted once, with  *)
(* the key of this report, and the identity is there.  One exception: the  *)
(* files of a session that had written a report before this one.           *)
ReportsReadable ==
  \A r \in reports : /\ r.id[2] = 1 => r.files = <<r.id>>
                     /\ r.later \in {<<>>, <<r.id>>} /\ r.identity

(* The questionnaire a report answers to is archived as long as the report *)
(* is there.                                                               *)
SchemaKept == \A r \in reports : r.schemas \subseteq archived

(* The number the next submission gets is not taken.                       *)
CounterLeads == \A r \in reports : r.number <= counter

(* A submission leaves one report, however often it was tried, and none if *)
(* the whistleblower is told that it failed.                               *)
OutcomeIsTrue == \A s \in Sessions : made[s] = IF outcome[s] = "done" THEN 1 ELSE 0

(* Whatever the threads do and however often a locked database has them    *)
(* run again, the whistleblower is told the truth; a database that is not  *)
(* locked keeps reports readable; and one thread alone keeps their schemas *)
(* and their numbers.                                                      *)
SubmissionsTrue ==
  /\ TypeOK /\ OutcomeIsTrue
  /\ ~Locked => ReportsReadable
  /\ (\A t, u \in Threads : t = u) => SchemaKept /\ CounterLeads
=============================================================================
