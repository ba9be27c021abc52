---------------------------- MODULE SecondFactor ----------------------------
(***************************************************************************)
(* The codes of the second factor of one user: State.totp_verify, called   *)
(* from the body of a login and when the factor is enabled, remembers the  *)
(* code used last in a TempDict, whose entries are deleted by timers.      *)
(* Time is in the steps of TOTP, 30 seconds: the code of step n is n.      *)
(***************************************************************************)
EXTENDS Integers

CONSTANTS
  Threads,  (* Of the database.                                            *)
  Retries,  (* Of a body whose commit finds the database locked.           *)
  Timeout,  (* Of TwoFactorTokens, in steps.                               *)
  MaxTime,  (* Bound.                                                      *)
  None

SecondFactorAssumption == Retries \in Nat /\ Timeout \in Nat /\ MaxTime \in Nat

VARIABLES
  now,
  enabled,    (* The user has a two_factor_secret.                         *)
  remembered, (* TwoFactorTokens of the secret.                            *)
  due,        (* When the timer of what is remembered fires.               *)
  stale,      (* When those of the values it has replaced do.              *)
  login,      (* The login on each thread.                                 *)
  last,       (* History: the code that passed last.                       *)
  accepted,   (* History: the codes that have opened something.            *)
  burnt,      (* History: codes whose login found the database locked.     *)
  robbed      (* History: the last code was forgotten on the timer of one  *)
              (* before it.                                                *)

vars  == <<now, enabled, remembered, due, stale, login, last, accepted, burnt, robbed>>
dict  == <<remembered, due, stale>>

Codes == 0 .. MaxTime + 1
Valid(c) == c - now \in -1 .. 1
Idle  == [code |-> None, at |-> "idle", tries |-> 0, before |-> None]

-----------------------------------------------------------------------------
(* TempDict *)

(* To read a value puts its timer off. *)
Get == IF remembered # None THEN now + Timeout ELSE None

(* The timer of the value before is not cancelled. *)
Set(c) ==
  /\ remembered' = c /\ due' = now + Timeout
  /\ stale' = stale \cup ({due} \ {None})

(* A timer deletes what is there then, whoever's timer it is, and cancels  *)
(* the timer of that.                                                      *)
Fires == {due, now} = {now} \/ now \in stale

-----------------------------------------------------------------------------
(* totp_verify: a login reads what is remembered, and only then            *)
(* remembers its own code.                                                 *)

Reused(c) == remembered = c

Look(th, c) ==
  /\ enabled
  /\ \/ login[th].at = "idle"
     \/ login[th].at = "again" /\ c = login[th].code
  /\ due' = Get
  /\ login' = [login EXCEPT ![th] =
       [code |-> c, tries |-> @.tries, before |-> last,
        at |-> IF Reused(c) THEN "reused" ELSE IF Valid(c) THEN "checked" ELSE "wrong"]]
  /\ UNCHANGED <<now, enabled, remembered, stale, last, accepted, burnt, robbed>>

Register(th) ==
  /\ login[th].at = "checked" /\ Set(login[th].code) /\ last' = login[th].code
  /\ login' = [login EXCEPT ![th].at = "done"]
  /\ robbed' = FALSE
  /\ UNCHANGED <<now, enabled, accepted, burnt>>

Refuse(th) ==
  /\ login[th].at \in {"reused", "wrong"} /\ login' = [login EXCEPT ![th] = Idle]
  /\ UNCHANGED <<now, enabled, dict, last, accepted, burnt, robbed>>

-----------------------------------------------------------------------------
(* The transaction of the login. *)

Commit(th) ==
  /\ login[th].at = "done"
  /\ login' = [login EXCEPT ![th] = Idle]
  /\ accepted' = accepted \cup {login[th].code}
  /\ UNCHANGED <<now, enabled, dict, last, burnt, robbed>>

FindsLocked(th) ==
  /\ login[th].at = "done" /\ login[th].tries < Retries
  /\ login' = [login EXCEPT ![th].at = "again", ![th].tries = @ + 1]
  /\ burnt' = burnt \cup {login[th].code}
  /\ UNCHANGED <<now, enabled, dict, last, accepted, robbed>>

-----------------------------------------------------------------------------
(* A secret is new each time: what was remembered of another is of no use. *)

Enable(c) ==
  /\ ~enabled /\ Valid(c) /\ enabled' = TRUE
  /\ remembered' = c /\ due' = now + Timeout /\ stale' = {}
  /\ last' = c /\ accepted' = {c} /\ burnt' = {} /\ robbed' = FALSE
  /\ UNCHANGED <<now, login>>

Disable ==
  /\ enabled /\ \A th \in Threads : login[th].at = "idle"
  /\ enabled' = FALSE /\ remembered' = None /\ due' = None /\ stale' = {} /\ last' = None
  /\ accepted' = {} /\ burnt' = {} /\ robbed' = FALSE
  /\ UNCHANGED <<now, login>>

(* Timers fire as soon as they are due. *)
Fire ==
  /\ Fires
  /\ remembered' = None /\ due' = None /\ stale' = stale \ {now}
  /\ robbed' = (robbed \/ due \notin {now, None})
  /\ UNCHANGED <<now, enabled, login, last, accepted, burnt>>

(* A code is read and remembered within far less than a step.             *)
Tick ==
  /\ ~Fires /\ \A th \in Threads : login[th].at # "checked"
  /\ now < MaxTime /\ now' = now + 1
  /\ UNCHANGED <<enabled, dict, login, last, accepted, burnt, robbed>>

Init ==
  /\ now = 1 /\ enabled = FALSE
  /\ remembered = None /\ due = None /\ stale = {}
  /\ login = [th \in Threads |-> Idle] /\ last = None /\ accepted = {}
  /\ burnt = {} /\ robbed = FALSE

Next ==
  \/ Fire \/ Tick \/ Disable
  \/ \E c \in Codes : Enable(c) \/ \E th \in Threads : Look(th, c)
  \/ \E th \in Threads : Register(th) \/ Refuse(th) \/ Commit(th) \/ FindsLocked(th)

Spec == Init /\ [][Next]_vars

-----------------------------------------------------------------------------
(* Something is remembered as long as its timer runs.                      *)
TypeOK ==
  /\ now \in 1 .. MaxTime /\ enabled \in BOOLEAN
  /\ remembered \in Codes \cup {None} /\ (remembered = None <=> due = None)
  /\ due # None => due \in now .. now + Timeout
  /\ stale \subseteq 1 .. MaxTime + Timeout

(* The code that passed last does not pass again, however long it is       *)
(* valid.  Two exceptions: it passed between the look and the register of  *)
(* the login, or was forgotten on the timer of a code before it.           *)
CodeOnce ==
  \A th \in Threads :
    login[th].at = "checked" /\ login'[th].at = "done" /\ login[th].code = last =>
      login[th].before # last \/ robbed

(* Only what was accepted is refused as used.  Two exceptions: the code of *)
(* a login under way, and of one whose body ran again, the same or before. *)
ReuseIsReal ==
  \A th \in Threads : login[th].at = "reused" =>
    \/ login[th].code \in accepted \cup burnt
    \/ \E other \in Threads : login[other].at = "done" /\ login[other].code = login[th].code
=============================================================================
