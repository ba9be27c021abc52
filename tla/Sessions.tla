------------------------------ MODULE Sessions ------------------------------
(***************************************************************************)
(* The sessions in memory, and the receipts of the whistleblowers they are *)
(* opened with: login by password and by receipt, a recipient who operates *)
(* for a whistleblower, submission, change of a receipt, links, tokens,    *)
(* logout and expiry.                                                      *)
(*                                                                         *)
(* SessionsFactory.get hands out a copy of the session, but all copies     *)
(* share the dictionary attrs: obj holds those, and stored says which one  *)
(* an identifier leads to.  A login runs on a database thread, where       *)
(* Sessions.new first revokes and then stores: two steps.  What a          *)
(* transaction does to the tables is one step, at its commit.              *)
(***************************************************************************)
EXTENDS Integers, FiniteSets

CONSTANTS
  Ids,       (* Random identifiers of sessions; one that nothing refers to *)
             (* any more may be taken again, which stands for a new one.   *)
  Users,     (* Recipients.                                                *)
  Reports,
  Receipts,  (* Receipts, taken again like Ids.                            *)
  Threads,   (* Database threads.                                          *)
  Tokens,    (* Proof of work tokens that exist at once.                   *)
  None

SessionAssumption ==
  None \notin Ids \cup Users \cup Reports \cup Receipts

VARIABLES
  stored,  (* Sessions: what an identifier leads to, None when nothing.    *)
  obj,     (* The shared attributes and keys of a session.                 *)
  task,    (* What each database thread is doing.                          *)
  leaving, (* Sessions whose logout is being logged.                       *)
  tokens,  (* State.tokens: the session a token carries, None without a    *)
           (* token, "none" for a token without a session.                 *)
  report,  (* The row of a report, None before its submission.             *)
  told     (* History: the receipts that a person operating for a          *)
           (* whistleblower has typed or was shown.                        *)

vars == <<stored, obj, task, leaving, tokens, report, told>>

Anonymous == "none"
Idle      == [do |-> "nothing", new |-> None, by |-> None, report |-> None,
              receipt |-> None, cc |-> None, change |-> FALSE]

(* A session: who it is for, the key it carries, its properties            *)
(* operator_session and new_receipt, and whether it has set that one.       *)
Session(user, role, cc) ==
  [user |-> user, role |-> role, cc |-> cc, operator |-> None,
   new |-> None, set |-> FALSE]

Row(receipt, cc, change, op) ==
  [receipt |-> receipt, pub |-> cc, prv |-> [key |-> receipt, for |-> cc],
   change |-> change, operator |-> op, again |-> FALSE]

Live == {i \in Ids : stored[i] # None}

(* What a request may hold: a session in memory whose identifier has been  *)
(* given out, or the session of its token.                                 *)
Unanswered == {task[t].new : t \in Threads}
Presented  == ({stored[i] : i \in Live} \cup {tokens[t] : t \in Tokens})
                \ ({None, Anonymous} \cup Unanswered)

Referenced == (Presented \cup leaving \cup Unanswered \cup {task[t].by : t \in Threads}) \ {None}
Rows       == {report[r] : r \in Reports} \ {None}

FreshIds == {i \in Ids \ Referenced :
  /\ stored[i] = None
  /\ \A row \in Rows : i \notin {row.pub, row.operator}
  /\ \A t \in Threads : i # task[t].cc
  /\ \A o \in Referenced : i \notin {obj[o].cc, obj[o].user, obj[o].operator}}

FreshReceipts ==
  Receipts \ (told \cup {row.receipt : row \in Rows} \cup {obj[o].new : o \in Referenced}
                   \cup {task[t].receipt : t \in Threads})

(* Sessions.revoke: every session of that user goes. *)
Revoked(s, user) == [i \in Ids |-> IF s[i] # None /\ obj[s[i]].user = user THEN None ELSE s[i]]

Without(s, o) == [i \in Ids |-> IF s[i] = o THEN None ELSE s[i]]

(* Sessions.new on the reactor, where nothing comes between its steps.     *)
NewSession(i, s) ==
  /\ obj' = [obj EXCEPT ![i] = s]
  /\ stored' = [Revoked(stored, s.user) EXCEPT ![i] = i]

-----------------------------------------------------------------------------
(* Sessions of recipients. *)

LoginStarts(t, u) ==
  /\ task[t] = Idle
  /\ \E i \in FreshIds :
        /\ stored' = Revoked(stored, u)
        /\ obj' = [obj EXCEPT ![i] = Session(u, "receiver", u)]
        /\ task' = [task EXCEPT ![t] = [Idle EXCEPT !.do = "store", !.new = i]]
  /\ UNCHANGED <<leaving, tokens, report, told>>

(* A recipient opens a window to act for a whistleblower: a session of a   *)
(* whistleblower under a random user identifier, which is i here.          *)
OperatorSwitch(o) ==
  /\ obj[o].role = "receiver"
  /\ \E i \in FreshIds :
        NewSession(i, [Session(i, "whistleblower", obj[o].cc) EXCEPT !.operator = obj[o].user])
  /\ UNCHANGED <<task, leaving, tokens, report, told>>

(* A link is followed: the session moves to another identifier. *)
RegenerateSession(i) ==
  /\ stored[i] # None
  /\ \E j \in FreshIds \cup {i} :
        stored' = [stored EXCEPT ![i] = None, ![j] = stored[i]]
  /\ UNCHANGED <<obj, task, leaving, tokens, report, told>>

-----------------------------------------------------------------------------
(* Sessions of whistleblowers.  "by" is the session that the request came  *)
(* with, None without one.                                                 *)

OperatorOf(by) == IF by = None THEN None ELSE obj[by].operator

(* A login with a receipt: the report is found, its sessions are revoked.  *)
ReceiptLoginStarts(t, by, receipt) ==
  /\ task[t] = Idle
  /\ \E r \in Reports, i \in FreshIds :
        /\ report[r] # None /\ report[r].receipt = receipt
        /\ stored' = Revoked(stored, r)
        /\ obj' = [obj EXCEPT ![i] = Session(r, "whistleblower", report[r].prv.for)]
        /\ task' = [task EXCEPT ![t] = [Idle EXCEPT !.do = "store", !.new = i, !.report = r, !.by = by,
                                               !.receipt = receipt, !.change = report[r].change]]
  /\ UNCHANGED <<leaving, tokens, report, told>>

SessionStoredMutant(t) ==
  /\ task[t].do = "store"
  /\ LET i  == task[t].new
         r  == task[t].report
         op == OperatorOf(task[t].by)
     IN /\ stored' = [stored EXCEPT ![i] = i]
        /\ IF r = None THEN /\ UNCHANGED <<obj, report>>
                            /\ task' = [task EXCEPT ![t] = Idle]
           ELSE /\ report' = IF op = None THEN report
                             ELSE [report EXCEPT ![r].operator = op]
                /\ \/ ~task[t].change /\ op = None /\ UNCHANGED obj
                   \/ /\ task[t].change \/ op # None
                      /\ \E n \in FreshReceipts : obj' = [obj EXCEPT ![i].new = n]
                /\ task' = [task EXCEPT ![t].do = "answer"]
        /\ told' = IF op = None THEN told ELSE told \cup {task[t].receipt}
  /\ UNCHANGED <<leaving, tokens>>

(* The session is stored and the transaction committed: an operator's      *)
(* login asks for a new receipt, and the session of a report that needs    *)
(* one offers it.  Whether it does is read at the start, and the commit    *)
(* writes what differs from that.                                          *)
SessionStored(t) ==
  /\ task[t].do = "store"
  /\ LET i  == task[t].new
         r  == task[t].report
         op == OperatorOf(task[t].by)
     IN /\ stored' = [stored EXCEPT ![i] = i]
        /\ IF r = None THEN /\ UNCHANGED <<obj, report>>
                            /\ task' = [task EXCEPT ![t] = Idle]
           ELSE /\ report' = IF op = None THEN report
                             ELSE [report EXCEPT ![r].change = @ \/ ~task[t].change, ![r].operator = op]
                /\ \/ ~task[t].change /\ op = None /\ UNCHANGED obj
                   \/ /\ task[t].change \/ op # None
                      /\ \E n \in FreshReceipts : obj' = [obj EXCEPT ![i].new = n]
                /\ task' = [task EXCEPT ![t].do = "answer"]
        /\ told' = IF op = None THEN told ELSE told \cup {task[t].receipt}
  /\ UNCHANGED <<leaving, tokens>>

(* Back on the reactor: the operator's session gets the property, with the *)
(* user of the session it came from, which ends.                           *)
ReceiptAnswer(t) ==
  /\ task[t].do = "answer"
  /\ LET i  == task[t].new
         by == task[t].by
     IN IF OperatorOf(by) = None THEN UNCHANGED <<stored, obj, told>>
        ELSE /\ obj' = [obj EXCEPT ![i].operator = obj[by].user]
             /\ stored' = Without(stored, by)
             /\ told' = told \cup ({obj[i].new} \ {None})
  /\ task' = [task EXCEPT ![t] = Idle]
  /\ UNCHANGED <<leaving, tokens, report>>

(* Without a receipt: a session to submit with, and a key of its own.      *)
SubmissionSession(by) ==
  /\ \E i \in FreshIds :
        LET s == Session(i, "whistleblower", i) IN
        IF OperatorOf(by) = None THEN NewSession(i, s)
        ELSE /\ obj' = [obj EXCEPT ![i] = [s EXCEPT !.operator = obj[by].user]]
             /\ stored' = [Without(stored, by) EXCEPT ![i] = i]
  /\ UNCHANGED <<task, leaving, tokens, report, told>>

SubmitStarts(t, o, receipt) ==
  /\ task[t] = Idle
  /\ obj[o].role = "whistleblower"
  /\ task' = [task EXCEPT ![t] = [Idle EXCEPT !.do = "submit", !.by = o, !.receipt = receipt]]
  /\ told' = IF obj[o].operator = None THEN told ELSE told \cup {receipt}
  /\ UNCHANGED <<stored, obj, leaving, tokens, report>>

(* The session becomes the one of the report, in all its copies. *)
Submitted(t) ==
  /\ task[t].do = "submit"
  /\ \E r \in {x \in Reports : report[x] = None} :
        LET o == task[t].by IN
        /\ report' = [report EXCEPT ![r] = Row(task[t].receipt, obj[o].cc,
                                               obj[o].operator # None, obj[o].operator)]
        /\ obj' = [obj EXCEPT ![o].user = r]
  /\ task' = [task EXCEPT ![t] = Idle]
  /\ UNCHANGED <<stored, leaving, tokens, told>>

(* The session changes the receipt for the one it was offered, at any time *)
(* and again: the property stays.                                          *)
ChangeReceiptStarts(t, o) ==
  /\ task[t] = Idle
  /\ obj[o].new # None
  /\ task' = [task EXCEPT ![t] = [Idle EXCEPT !.do = "change", !.by = o, !.report = obj[o].user,
                                         !.cc = obj[o].cc, !.receipt = obj[o].new,
                                         !.change = obj[o].operator # None]]
  /\ UNCHANGED <<stored, obj, leaving, tokens, report, told>>

ReceiptChanged(t) ==
  /\ task[t].do = "change"
  /\ report' = [report EXCEPT ![task[t].report].receipt = task[t].receipt,
                              ![task[t].report].change = task[t].change,
                              ![task[t].report].again = obj[task[t].by].set,
                              ![task[t].report].prv = [key |-> task[t].receipt, for |-> task[t].cc]]
  /\ obj' = [obj EXCEPT ![task[t].by].set = TRUE]
  /\ task' = [task EXCEPT ![t] = Idle]
  /\ UNCHANGED <<stored, leaving, tokens, told>>

-----------------------------------------------------------------------------
(* The end of sessions, and tokens. *)

LogoutStarts(o) ==
  /\ o \notin leaving
  /\ leaving' = leaving \cup {o}
  /\ UNCHANGED <<stored, obj, task, tokens, report, told>>

(* The logout is in the log; now the session goes. *)
LogoutEnds(o) ==
  /\ o \in leaving
  /\ leaving' = leaving \ {o}
  /\ stored' = Without(stored, o)
  /\ UNCHANGED <<obj, task, tokens, report, told>>

SessionExpires(i) ==
  /\ stored[i] # None
  /\ stored' = [stored EXCEPT ![i] = None]
  /\ UNCHANGED <<obj, task, leaving, tokens, report, told>>

(* A token keeps the session of the request that asked for it. *)
NewToken(t, by) ==
  /\ tokens[t] = None
  /\ tokens' = [tokens EXCEPT ![t] = IF by = None THEN Anonymous ELSE by]
  /\ UNCHANGED <<stored, obj, task, leaving, report, told>>

(* It is used, or its minute is over. *)
TokenGoes(t) ==
  /\ tokens[t] # None
  /\ tokens' = [tokens EXCEPT ![t] = None]
  /\ UNCHANGED <<stored, obj, task, leaving, report, told>>

-----------------------------------------------------------------------------
Init ==
  /\ stored = [i \in Ids |-> None]
  /\ obj = [i \in Ids |-> Session(None, "receiver", None)]
  /\ task = [t \in Threads |-> Idle]
  /\ leaving = {}
  /\ tokens = [t \in Tokens |-> None]
  /\ report = [r \in Reports |-> None]
  /\ told = {}

Next ==
  \/ \E t \in Threads :
        \/ \E u \in Users : LoginStarts(t, u)
        \/ \E by \in Presented \cup {None}, x \in Receipts : ReceiptLoginStarts(t, by, x)
        \/ SessionStored(t)
        \/ ReceiptAnswer(t)
        \/ \E o \in Presented, x \in FreshReceipts : SubmitStarts(t, o, x)
        \/ Submitted(t)
        \/ \E o \in Presented : ChangeReceiptStarts(t, o)
        \/ ReceiptChanged(t)
  \/ \E by \in Presented \cup {None} : SubmissionSession(by)
  \/ \E o \in Presented : OperatorSwitch(o) \/ LogoutStarts(o)
  \/ \E o \in leaving : LogoutEnds(o)
  \/ \E i \in Ids : RegenerateSession(i) \/ SessionExpires(i)
  \/ \E t \in Tokens : TokenGoes(t) \/ \E by \in Presented \cup {None} : NewToken(t, by)

Spec == Init /\ [][Next]_vars

-----------------------------------------------------------------------------
TypeOK ==
  /\ stored \in [Ids -> Ids \cup {None}]
  /\ \A i \in Ids : /\ obj[i].user \in Users \cup Reports \cup Ids \cup {None}
                    /\ obj[i].new \in Receipts \cup {None}
                    /\ obj[i].operator \in Users \cup Ids \cup Reports \cup {None}
  /\ leaving \subseteq Ids
  /\ tokens \in [Tokens -> Ids \cup {None, Anonymous}]
  /\ \A r \in Reports : report[r] # None => report[r].receipt \in Receipts
  /\ told \subseteq Receipts

(* A receipt that a person operating for the whistleblower knows is never  *)
(* left in use: the next login is made to choose another, whatever logins, *)
(* changes and expiries come between (receipt_change_needed).  One         *)
(* exception: a session that has set its receipt sets it once more (which  *)
(* takes three receipts to matter).                                        *)
ReceiptKnownIsChanged ==
  \A r \in Reports :
    report[r] # None /\ report[r].receipt \in told => report[r].change \/ report[r].again

(* The receipt that is in use opens the key that the report is encrypted   *)
(* for, whichever session changed it last.                                 *)
ReceiptOpensReport ==
  \A r \in Reports : report[r] # None =>
    report[r].prv = [key |-> report[r].receipt, for |-> report[r].pub]

(* A whistleblower's session for a report holds that report's key, also    *)
(* when the session was made for the submission, by an operator, or moved. *)
SessionOpensReport ==
  \A i \in Live : \A r \in Reports :
    obj[stored[i]].user = r => /\ obj[stored[i]].role = "whistleblower"
                               /\ obj[stored[i]].cc = report[r].pub

(* A user has one session (test_single_session_per_user). *)
OneSession ==
  \A i, j \in Live : i # j => obj[stored[i]].user # obj[stored[j]].user

(* What a report says of its operator is a recipient. *)
OperatorIsARecipient ==
  \A r \in Reports : report[r] # None => report[r].operator \in Users \cup {None}

(* Nothing more is obtained with a session that was revoked or expired. *)
EndedIsEnded ==
  [][\A t \in Tokens : tokens[t] = None /\ tokens'[t] \in Ids =>
        \E i \in Live : stored[i] = tokens'[t]]_tokens
=============================================================================
