------------------------------ MODULE Retention ------------------------------
(***************************************************************************)
(* What GlobaLeaks promises about keeping reports, without saying how: a   *)
(* report that was received stays until a person removes it or until its   *)
(* deadline has passed, and nothing moves the deadline of an open case     *)
(* closer than the 90 days that are left to the recipients.                *)
(***************************************************************************)
EXTENDS Integers

CONSTANTS
  Reports,
  MinAhead,  (* 91 days, in ticks.   *)
  Day,       (* Ticks in a day.      *)
  MaxNow     (* Bound of the clock.  *)

VARIABLES
  now,
  phase,     (* report |-> "unsent", "open", "closed" or "gone".  *)
  deadline,  (* report |-> the date after which it is removed.    *)
  removedBy  (* report |-> "nobody", "person" or "system".        *)

vars == <<now, phase, deadline, removedBy>>

Kept(r) == phase[r] \in {"open", "closed"}

(* Only report r is touched, its deadline becoming any date. *)
Decide(r, next) ==
  /\ phase' = [phase EXCEPT ![r] = next]
  /\ deadline' = [deadline EXCEPT ![r] = deadline'[r]]
  /\ deadline'[r] \in Nat
  /\ UNCHANGED <<now, removedBy>>

(* A received report starts with a deadline that is not in the past. *)
Receive(r) ==
  /\ phase[r] = "unsent"
  /\ Decide(r, "open")
  /\ deadline'[r] >= now

(* The deadline may move away, come nearer but not nearer than 90 days, or *)
(* start afresh when the case is closed or reopened.                       *)
Handle(r) ==
  \E next \in {"open", "closed"} :
    /\ Kept(r)
    /\ Decide(r, next)
    /\ \/ deadline'[r] >= deadline[r]
       \/ deadline'[r] > now + MinAhead - Day
       \/ deadline'[r] >= now /\ "closed" \in {phase[r], next}

(* The system removes only what has expired. *)
Remove(D, by) ==
  /\ \A r \in D : Kept(r) /\ (by = "system" => deadline[r] < now)
  /\ phase' = [r \in Reports |-> IF r \in D THEN "gone" ELSE phase[r]]
  /\ removedBy' = [r \in Reports |-> IF r \in D THEN by ELSE removedBy[r]]
  /\ UNCHANGED <<now, deadline>>

Tick ==
  /\ now < MaxNow
  /\ now' = now + 1
  /\ UNCHANGED <<phase, deadline, removedBy>>

Init ==
  /\ now = 0
  /\ phase = [r \in Reports |-> "unsent"]
  /\ deadline \in [Reports -> Nat]
  /\ removedBy = [r \in Reports |-> "nobody"]

Next ==
  \/ \E r \in Reports : Receive(r) \/ Handle(r)
  \/ \E D \in SUBSET Reports, by \in {"person", "system"} : Remove(D, by)
  \/ Tick

Spec == Init /\ [][Next]_vars

=============================================================================
