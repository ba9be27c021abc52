---------------------------- MODULE Transactions ----------------------------
(***************************************************************************)
(* What orm.transact really isolates.  Reports takes every transaction as  *)
(* one step.  In the code the database threads of State.orm_tp share an    *)
(* SQLite file, and its driver begins a transaction with the first         *)
(* statement that writes: what a body reads before that is not protected.  *)
(* From the first write to the commit a thread holds the write lock of the *)
(* database.                                                               *)
(*                                                                         *)
(* So a transaction is two steps here, on the tips and the attachments of  *)
(* one report: a Read action with everything the body reads before its     *)
(* first write, and a Commit action with the rest, what it reads under the *)
(* lock included.  What the others commit in between is remembered, so     *)
(* that the properties can say which race each anomaly takes.              *)
(***************************************************************************)
EXTENDS Integers, FiniteSets

CONSTANTS
  Users,       (* Recipients.                                              *)
  Files,       (* Identifiers of InternalFiles.                            *)
  Tips,        (* Identifiers of ReceiverTips, never reused.               *)
  FirstTips,   (* Those made by the submission.                            *)
  Threads,     (* Threads of the database pool.                            *)
  CanGrant, CanTransfer,
  Unused, Gone, Nobody, NoTip

ASSUME TipAssumption ==
  /\ FirstTips \subseteq Tips
  /\ NoTip \notin Tips
  /\ Users \cap {Unused, Gone, Nobody} = {}
  /\ Unused # Gone

VARIABLES
  owner,   (* ReceiverTip.receiver_id, Unused before the row is made and   *)
           (* Gone after it was deleted.                                   *)
  rows,    (* WhistleblowerFile rows, <<tip, file>>.                       *)
  ifile,   (* InternalFile: "none", "new", "delivered", "gone".            *)
  status,  (* The report: "open", "closed" or "deleted".                   *)
  due,     (* Its expiration date has passed.                              *)
  txn,     (* thread |-> the transaction it runs and what that has read.   *)
  missed   (* thread |-> what others committed since it read (history).    *)

db   == <<owner, rows, ifile, status, due>>
vars == <<db, txn, missed>>

Idle == [op |-> "idle", by |-> Nobody, tip |-> NoTip, to |-> Nobody,
         files |-> {}, tips |-> {}]

Live       == status # "deleted"
LiveTips   == {x \in Tips : owner[x] \in Users}
TipsOf(u)  == {x \in Tips : owner[x] = u}
FilesOf(x) == {f \in Files : <<x, f>> \in rows}
NewFiles   == {f \in Files : ifile[f] = "new"}

(* The check of every operation of a recipient asks for exactly one row. *)
Accesses(u, x) == Live /\ TipsOf(u) = {x}

(* What a step does that an earlier check of another thread would mind.    *)
News ==
  {<<"gives", owner'[x]>> : x \in {x \in Tips : owner[x] = Unused /\ owner'[x] # Unused}}
    \cup {<<"takes", owner[x]>> : x \in {x \in LiveTips : owner'[x] = Gone}}
    \cup (IF status # "closed" /\ status' = "closed" THEN {<<"closes", Nobody>>} ELSE {})
    \cup (IF due /\ ~due' THEN {<<"postpones", Nobody>>} ELSE {})

Begin(t, r) ==
  txn[t] = Idle /\ txn' = [txn EXCEPT ![t] = r] /\ UNCHANGED <<db, missed>>

End(t) ==
  /\ txn' = [txn EXCEPT ![t] = Idle]
  /\ missed' = [s \in Threads |->
       IF s = t \/ txn[s] = Idle THEN {} ELSE missed[s] \cup News]

-----------------------------------------------------------------------------
(* Reads. *)

ReadGrantMutant(t, op, u, v) ==
  \E x \in Tips :
    /\ Accesses(u, x)
    /\ u \in (IF op = "grant" THEN CanGrant ELSE CanTransfer)
    /\ Begin(t, [Idle EXCEPT !.op = op, !.by = u, !.tip = x, !.to = v])

(* A grant, or a transfer, to somebody who has no tip yet. *)
ReadGrant(t, op, u, v) ==
  \E x \in Tips :
    /\ Accesses(u, x)
    /\ u \in (IF op = "grant" THEN CanGrant ELSE CanTransfer)
    /\ TipsOf(v) = {}
    /\ Begin(t, [Idle EXCEPT !.op = op, !.by = u, !.tip = x, !.to = v])

ReadRevokeMutant(t, u, v) ==
  \E x, y \in Tips :
    /\ Accesses(u, x) /\ u \in CanGrant
    /\ TipsOf(v) = {y}
    /\ Begin(t, [Idle EXCEPT !.op = "revoke", !.by = u, !.tip = y])

ReadRevoke(t, u, v) ==
  \E x, y \in Tips :
    /\ Accesses(u, x) /\ u \in CanGrant
    /\ u # v /\ TipsOf(v) = {y}
    /\ Begin(t, [Idle EXCEPT !.op = "revoke", !.by = u, !.tip = y])

(* A change of status, a postponement or a deletion, after the check.  A   *)
(* column is written only when its value is not the one that was read.     *)
ReadCase(t, op, u) ==
  /\ op = "close" => status = "open"
  /\ op = "reopen" => status = "closed"
  /\ \E x \in Tips : Accesses(u, x) /\ Begin(t, [Idle EXCEPT !.op = op])

(* The delivery job reads the new files and then the tips; there is one    *)
(* such job.                                                               *)
ReadDelivery(t) ==
  /\ NewFiles # {}
  /\ \A s \in Threads : txn[s].op # "deliver"
  /\ Begin(t, [Idle EXCEPT !.op = "deliver", !.files = NewFiles, !.tips = LiveTips])

ReadAttachMutant(t, f) ==
  /\ Live /\ ifile[f] = "none"
  /\ \A s \in Threads : f \notin txn[s].files
  /\ Begin(t, [Idle EXCEPT !.op = "attach", !.files = {f}])

(* The whistleblower attaches a file of its own to an open report. *)
ReadAttach(t, f) ==
  /\ status = "open" /\ ifile[f] = "none"
  /\ \A s \in Threads : f \notin txn[s].files
  /\ Begin(t, [Idle EXCEPT !.op = "attach", !.files = {f}])

ReadCleanMutant(t) == Live /\ Begin(t, [Idle EXCEPT !.op = "clean"])

(* The cleaning job lists the reports that have expired. *)
ReadClean(t) == Live /\ due /\ Begin(t, [Idle EXCEPT !.op = "clean"])

-----------------------------------------------------------------------------
(* Commits. *)

(* Rows are deleted together with what refers to them. *)
Drop(X) ==
  /\ owner' = [x \in Tips |-> IF x \in X THEN Gone ELSE owner[x]]
  /\ rows' = {w \in rows : w[1] \notin X}

CopiedMutant(x, y) == {}

(* The attachments of tip x, for the new tip y. *)
Copied(x, y) == {<<y, f>> : f \in FilesOf(x)}

(* The new tip is written first: under the lock the attachments of the     *)
(* granter are read, and in a transfer its tip, which may be gone by then. *)
CommitGrant(t) ==
  LET own == IF txn[t].op = "transfer" THEN TipsOf(txn[t].by) ELSE {} IN
  /\ txn[t].op \in {"grant", "transfer"}
  /\ Live
  /\ own = {} \/ \E x \in Tips : own = {x}
  /\ \E y \in Tips :
       /\ owner[y] = Unused
       /\ owner' = [x \in Tips |-> IF x = y THEN txn[t].to
                                   ELSE IF x \in own THEN Gone ELSE owner[x]]
       /\ rows' = {w \in rows \cup Copied(txn[t].tip, y) : w[1] \notin own}
  /\ UNCHANGED <<ifile, status, due>>
  /\ End(t)

(* Deleting a row that is gone already is no error. *)
CommitRevoke(t) ==
  /\ txn[t].op = "revoke"
  /\ Drop({txn[t].tip})
  /\ UNCHANGED <<ifile, status, due>>
  /\ End(t)

CommitDeliveryMutant(t) ==
  /\ txn[t].op = "deliver"
  /\ Live
  /\ ifile' = [f \in Files |-> IF f \in txn[t].files THEN "delivered" ELSE ifile[f]]
  /\ rows' = rows \cup (txn[t].tips \X txn[t].files)
  /\ UNCHANGED <<owner, status, due>>
  /\ End(t)

SwallowedDeliveryMutant(t) ==
  /\ txn[t].op = "deliver"
  /\ Live
  /\ ifile' = [f \in Files |-> IF f \in txn[t].files THEN "delivered" ELSE ifile[f]]
  /\ rows' = IF txn[t].tips \subseteq LiveTips
             THEN rows \cup (txn[t].tips \X txn[t].files) ELSE rows
  /\ UNCHANGED <<owner, status, due>>
  /\ End(t)

(* The foreign keys refuse rows for a tip or a file that is gone. *)
CommitDelivery(t) ==
  /\ txn[t].op = "deliver"
  /\ Live /\ txn[t].tips \subseteq LiveTips
  /\ ifile' = [f \in Files |-> IF f \in txn[t].files THEN "delivered" ELSE ifile[f]]
  /\ rows' = rows \cup (txn[t].tips \X txn[t].files)
  /\ UNCHANGED <<owner, status, due>>
  /\ End(t)

CommitAttach(t) ==
  /\ txn[t].op = "attach"
  /\ Live
  /\ ifile' = [f \in Files |-> IF f \in txn[t].files THEN "new" ELSE ifile[f]]
  /\ UNCHANGED <<owner, rows, status, due>>
  /\ End(t)

(* Writing to a row of a report that is gone is an error.  A postponement  *)
(* moves the deadline to a later day, a change of status may set a new one.*)
CommitCase(t) ==
  /\ txn[t].op \in {"close", "reopen", "postpone"}
  /\ Live
  /\ status' = CASE txn[t].op = "close"    -> "closed"
                 [] txn[t].op = "reopen"   -> "open"
                 [] txn[t].op = "postpone" -> status
  /\ due' \in IF txn[t].op = "postpone" THEN {FALSE} ELSE {due, FALSE}
  /\ UNCHANGED <<owner, rows, ifile>>
  /\ End(t)

(* The report is deleted by its identifier, whatever has changed. *)
CommitRemoval(t) ==
  /\ txn[t].op \in {"delete", "clean"}
  /\ Drop(LiveTips)
  /\ ifile' = [f \in Files |-> IF ifile[f] = "none" THEN "none" ELSE "gone"]
  /\ status' = "deleted"
  /\ UNCHANGED due
  /\ End(t)

(* The body raises, or waits too long for the lock and is run again from   *)
(* its beginning: nothing is written.                                      *)
RollBack(t) ==
  /\ txn[t] # Idle
  /\ UNCHANGED db
  /\ End(t)

DeadlinePasses ==
  /\ Live /\ ~due
  /\ due' = TRUE
  /\ UNCHANGED <<owner, rows, ifile, status, txn, missed>>

-----------------------------------------------------------------------------
Init ==
  /\ owner \in [Tips -> Users \cup {Unused}]
  /\ \A x \in Tips : owner[x] \in Users <=> x \in FirstTips
  /\ \A x, y \in FirstTips : owner[x] = owner[y] => x = y
  /\ FirstTips # {}
  /\ rows = {}
  /\ ifile \in [Files -> {"none", "new"}]
  /\ status = "open"
  /\ due = FALSE
  /\ txn = [t \in Threads |-> Idle]
  /\ missed = [t \in Threads |-> {}]

Read(t) ==
  \/ \E u, v \in Users :
       \/ \E op \in {"grant", "transfer"} : ReadGrant(t, op, u, v)
       \/ ReadRevoke(t, u, v)
  \/ \E u \in Users, op \in {"close", "reopen", "postpone", "delete"} : ReadCase(t, op, u)
  \/ \E f \in Files : ReadAttach(t, f)
  \/ ReadDelivery(t)
  \/ ReadClean(t)

Commit(t) ==
  \/ CommitGrant(t)
  \/ CommitRevoke(t)
  \/ CommitDelivery(t)
  \/ CommitAttach(t)
  \/ CommitCase(t)
  \/ CommitRemoval(t)

Next == DeadlinePasses \/ \E t \in Threads : Read(t) \/ Commit(t) \/ RollBack(t)

Spec == Init /\ [][Next]_vars

-----------------------------------------------------------------------------
(* Properties. *)

(* Type invariant. *)
TypeOK ==
  /\ owner \in [Tips -> Users \cup {Unused, Gone}]
  /\ rows \subseteq Tips \X Files
  /\ ifile \in [Files -> {"none", "new", "delivered", "gone"}]
  /\ status \in {"open", "closed", "deleted"}
  /\ due \in BOOLEAN
  /\ txn \in [Threads ->
       [op : {"idle", "grant", "transfer", "revoke", "close", "reopen", "postpone",
              "delete", "attach", "deliver", "clean"},
        by : Users \cup {Nobody}, tip : Tips \cup {NoTip}, to : Users \cup {Nobody},
        files : SUBSET Files, tips : SUBSET Tips]]
  /\ missed \in [Threads ->
       SUBSET ({"gives", "takes", "closes", "postpones"}
                \X (Users \cup {Unused, Gone, Nobody}))]

(* Whatever the threads do, the foreign keys keep the tables together: an  *)
(* attachment is shown through a tip that exists, after its delivery, and  *)
(* a report that is gone has no tips (ForeignKeyConstraint of the models). *)
Referential ==
  /\ \A w \in rows : w[1] \in LiveTips /\ ifile[w[2]] = "delivered"
  /\ ~Live => LiveTips = {}

(* Whatever the threads do, a recipient chosen by the whistleblower sees   *)
(* every attachment that was delivered: a delivery that meets a revocation *)
(* is done again as a whole (file_delivery).                               *)
FirstHoldersSeeAll ==
  \A x \in FirstTips \cap LiveTips : \A f \in Files :
    ifile[f] = "delivered" => <<x, f>> \in rows

(* A recipient has at most one tip of a report: with two of them every     *)
(* operation of that recipient raises (db_grant_tip_access).               *)
OneTipEach == \A x, y \in LiveTips : owner[x] = owner[y] => x = y

Commits(t) == txn[t] # Idle /\ txn'[t] = Idle

(* A second tip for a recipient who has one takes another grant to that    *)
(* recipient, committed after this one had looked for it                   *)
(* (db_grant_tip_access); no other meeting of threads makes one.           *)
DoubleTipNeedsRace ==
  [][\A x \in LiveTips \cap LiveTips', y \in LiveTips' \ LiveTips :
       owner'[x] = owner'[y] =>
         \E t \in Threads : Commits(t) /\ <<"gives", owner'[x]>> \in missed[t]]_vars

(* Delivered attachments that a tip does not show.                         *)
Holes == {w \in LiveTips \X Files : ifile[w[2]] = "delivered"} \ rows

(* A tip lacks a delivered attachment for one of three reasons: it was     *)
(* made while the delivery was under way (file_delivery), the tip it was   *)
(* copied from was taken away during the grant, or that tip lacked it      *)
(* already (db_grant_tip_access).                                          *)
HoleNeedsRace ==
  [][\A w \in Holes' \ Holes : \E t \in Threads :
       /\ Commits(t)
       /\ \/ txn[t].op = "deliver" /\ <<"gives", owner[w[1]]>> \in missed[t]
          \/ /\ txn[t].op \in {"grant", "transfer"}
             /\ \/ <<"takes", txn[t].by>> \in missed[t]
                \/ <<txn[t].tip, w[2]>> \in Holes]_vars

(* Recipients leave a report without recipients, by revocations and        *)
(* transfers of single reports, only when the one who revokes the last tip *)
(* lost its own after it was checked (revoke_tip_access): two revocations  *)
(* of each other, never a single mistake.                                  *)
AbandonNeedsRace ==
  [][LiveTips # {} /\ LiveTips' = {} /\ Live' => \E t \in Threads :
       Commits(t) /\ txn[t].op = "revoke" /\ <<"takes", txn[t].by>> \in missed[t]]_vars

(* An attachment is added to a closed report only when the report was      *)
(* closed between the check of the upload and its row                      *)
(* (register_ifile_on_db).                                                 *)
LateFileNeedsRace ==
  [][status = "closed" /\ (\E f \in Files : ifile[f] # "new" /\ ifile'[f] = "new") =>
       \E t \in Threads : Commits(t) /\ <<"closes", Nobody>> \in missed[t]]_vars

(* The cleaning removes a report whose deadline has not passed only when   *)
(* the deadline was moved after the list of expired reports was made       *)
(* (db_clean_expired_itips).                                               *)
EarlyRemovalNeedsRace ==
  [][\A t \in Threads :
       Commits(t) /\ txn[t].op = "clean" /\ Live /\ ~Live' /\ ~due =>
         <<"postpones", Nobody>> \in missed[t]]_vars

=============================================================================
