--------------------------- MODULE MailSpoolProofs ---------------------------
(***************************************************************************)
(* No mail is lost and none is sent again without a fault: MailSpool, for  *)
(* any number of mails, sites and faults and batches of any size.          *)
(***************************************************************************)
EXTENDS MailSpool, FiniteSetTheorems, WellFoundedInduction, TLAPS

(* A mail that the server has taken is the oldest the job still has.       *)
Sent(m) == phase = "sent" /\ m = Oldest(todo)

(* The step between the answer of a server and the deletion of the row:    *)
(* what is sent was delivered, unless the process sends nothing; what      *)
(* waits was delivered once for each fault at most; what is to come was not*)
Pending ==
  /\ \A m \in Mails : Sent(m) => got[m] > 0 \/ muted
  /\ \A m \in spool \cup todo : ~Sent(m) => got[m] <= faults
  /\ \A m \in Mails \ Scheduled : got[m] = 0

(* The inductive invariant. *)
Spooled == TypeOK /\ Pending /\ NothingIsLost /\ NoIdleRepeats

-----------------------------------------------------------------------------
(* Dates are numbers, so a set of mails has an oldest one. *)
LEMMA OldestIsOne ==
  ASSUME created \in [Mails -> Nat], NEW S \in SUBSET Mails, S # {}
  PROVE  Oldest(S) \in S
<1> DEFINE D == {created[m] : m \in S}
<1>1. D \in SUBSET Nat /\ D # {}
  OBVIOUS
<1>2. PICK d \in D : \A e \in D : <<e, d>> \notin OpToRel(<, Nat)
  <2> HIDE DEF D
  <2>1. IsWellFoundedOn(OpToRel(<, Nat), Nat)
    BY NatLessThanWellFounded
  <2> QED
    BY <1>1, <2>1, WFMin
<1>3. \A e \in D : ~(e < d)
  BY <1>1, <1>2 DEF OpToRel
<1>4. PICK m \in S : created[m] = d
  OBVIOUS
<1>5. \A n \in S : ~Older(n, m)
  BY <1>3, <1>4 DEF Older
<1> QED
  BY <1>5 DEF Oldest

LEMMA SpooledInit == Init => Spooled
BY SpoolAssumption DEF Init, Spooled, TypeOK, Pending, Sent, NothingIsLost, NoIdleRepeats, Scheduled, Unscheduled

(* What the world does to the table: the job keeps what it has read, and a *)
(* mail that leaves the table is noted as gone.                            *)
LEMMA SpooledWorld ==
  ASSUME Spooled,
         \/ \E m \in Mails : Schedule(m)
         \/ \E s \in Sites : ServerChanges(s) \/ SiteSwitched(s) \/ SiteDeleted(s)
         \/ OldMailsCleaned
         \/ Stop
  PROVE  Spooled'
<1> USE SpoolAssumption DEF Spooled, TypeOK, Scheduled, Unscheduled
<1>1. ASSUME NEW m \in Mails, Schedule(m) PROVE Spooled'
  <2>1. Cardinality(Scheduled) \in Nat
    <3>1. IsFiniteSet(Scheduled)
      BY FS_Subset
    <3> QED
      BY <3>1, FS_CardinalityType
  <2>2. created' \in [Mails -> Nat] /\ Scheduled' = Scheduled \cup {m}
    <3> DEFINE date == Cardinality(Scheduled) + 1
    <3>1. date \in Nat \ {0}
      BY <2>1
    <3>2. created' = [created EXCEPT ![m] = date]
      BY <1>1 DEF Schedule
    <3> HIDE DEF date
    <3> QED
      BY <3>1, <3>2
  <2>3. todo # {} => Oldest(todo) \in todo
    BY OldestIsOne
  <2>4. todo # {} => Oldest(todo)' = Oldest(todo)
    <3>1. \A n \in todo : created'[n] = created[n]
      BY <1>1 DEF Schedule
    <3> QED
      BY <1>1, <3>1 DEF Schedule, Oldest, Older
  <2>5. TypeOK'
    BY <1>1, <2>2 DEF Schedule
  <2>6. NothingIsLost' /\ NoIdleRepeats'
    BY <1>1, <2>2 DEF Schedule, NothingIsLost, NoIdleRepeats
  <2>7. Pending'
    BY <1>1, <2>2, <2>3, <2>4 DEF Schedule, Pending, Sent
  <2> QED
    BY <2>5, <2>6, <2>7
<1>2. ASSUME NEW s \in Sites, ServerChanges(s) \/ SiteSwitched(s) PROVE Spooled'
  BY <1>2 DEF ServerChanges, SiteSwitched, Pending, Sent, Oldest, Older, NothingIsLost, NoIdleRepeats
<1>3. ASSUME NEW s \in Sites, SiteDeleted(s) PROVE Spooled'
  BY <1>3 DEF SiteDeleted, Pending, Sent, Oldest, Older, NothingIsLost, NoIdleRepeats
<1>4. CASE OldMailsCleaned
  BY <1>4 DEF OldMailsCleaned, Pending, Sent, Oldest, Older, NothingIsLost, NoIdleRepeats
<1>5. CASE Stop
  <2>1. \A m \in Mails : ~Sent(m)'
    BY <1>5 DEF Stop, Sent
  <2>2. Pending'
    BY <1>5, <2>1 DEF Stop, Pending, NoIdleRepeats
  <2> QED
    BY <1>5, <2>2 DEF Stop, NothingIsLost, NoIdleRepeats
<1> QED
  BY <1>1, <1>2, <1>3, <1>4, <1>5

(* What the job does: it sends the oldest mail first, and deletes that one *)
(* only after it was taken.                                                *)
LEMMA SpooledJob ==
  ASSUME Spooled, Job
  PROVE  Spooled'
<1> USE SpoolAssumption DEF Spooled, TypeOK, Scheduled, Unscheduled
<1>1. CASE Fetch
  <2>1. \A m \in Mails : ~Sent(m) /\ ~Sent(m)'
    BY <1>1 DEF Fetch, Sent
  <2> QED
    BY <1>1, <2>1 DEF Fetch, Pending, NothingIsLost, NoIdleRepeats
<1>2. CASE RunEnds \/ SendDies
  <2>1. \A m \in Mails : ~Sent(m) /\ ~Sent(m)'
    BY <1>2 DEF RunEnds, SendDies, Sent
  <2> QED
    BY <1>2, <2>1 DEF RunEnds, SendDies, Pending, NothingIsLost, NoIdleRepeats
<1>3. CASE Send
  <2> DEFINE first == Oldest(todo)
  <2>1. first \in todo /\ first \in Mails
    BY <1>3, OldestIsOne DEF Send
  <2>2. \A m \in Mails : ~Sent(m)
    BY <1>3 DEF Send, Sent
  <2>3. got[first] <= faults
    BY <2>1, <2>2 DEF Pending
  <2>4. CASE got' = [got EXCEPT ![first] = @ + 1] /\ phase' = "sent" /\ UNCHANGED <<todo, faults>>
    <3>1. Oldest(todo)' = first
      BY <1>3, <2>4 DEF Send, Oldest, Older
    <3>2. \A m \in Mails : Sent(m)' <=> m = first
      BY <2>4, <3>1 DEF Sent
    <3> HIDE DEF first
    <3> QED
      BY <1>3, <2>1, <2>2, <2>3, <2>4, <3>2 DEF Send, Pending, NothingIsLost, NoIdleRepeats
  <2>5. CASE /\ got' = [got EXCEPT ![first] = @ + 1] /\ faults < Faults /\ faults' = faults + 1
             /\ todo' = todo \ {first} /\ UNCHANGED phase
    <3>1. \A m \in Mails : ~Sent(m)'
      BY <1>3, <2>5 DEF Send, Sent
    <3> HIDE DEF first
    <3> QED
      BY <1>3, <2>1, <2>2, <2>3, <2>5, <3>1 DEF Send, Pending, NothingIsLost, NoIdleRepeats
  <2>6. CASE todo' = todo \ {first} /\ UNCHANGED <<got, phase, faults>>
    <3>1. \A m \in Mails : ~Sent(m)'
      BY <1>3, <2>6 DEF Send, Sent
    <3> HIDE DEF first
    <3> QED
      BY <1>3, <2>1, <2>2, <2>6, <3>1 DEF Send, Pending, NothingIsLost, NoIdleRepeats
  <2> QED
    BY <1>3, <2>4, <2>5, <2>6 DEF Send
<1>4. CASE Skip
  <2> DEFINE first == Oldest(todo)
  <2>1. Oldest(todo)' = first
    BY <1>4 DEF Skip, Oldest, Older
  <2>2. \A m \in Mails : ~Sent(m) /\ (Sent(m)' => m = first)
    BY <1>4, <2>1 DEF Skip, Sent
  <2> HIDE DEF first
  <2> QED
    BY <1>4, <2>2 DEF Skip, Pending, NothingIsLost, NoIdleRepeats
<1>5. CASE Delete
  <2> DEFINE first == Oldest(todo)
  <2>1. first \in todo /\ first \in Mails
    BY <1>5, OldestIsOne DEF Delete
  <2>2. \A m \in Mails : Sent(m) <=> m = first
    BY <1>5 DEF Delete, Sent
  <2>3. \A m \in Mails : ~Sent(m)'
    BY <1>5 DEF Delete, Sent
  <2> HIDE DEF first
  <2>4. spool' = spool \ {first} /\ todo' = todo \ {first}
    BY <1>5 DEF Delete, first
  <2> QED
    BY <1>5, <2>1, <2>2, <2>3, <2>4 DEF Delete, Pending, NothingIsLost, NoIdleRepeats
<1> QED
  BY <1>1, <1>2, <1>3, <1>4, <1>5 DEF Job

LEMMA SpooledNext == Spooled /\ [Next]_vars => Spooled'
<1> SUFFICES ASSUME Spooled, [Next]_vars PROVE Spooled'
  OBVIOUS
<1>1. CASE UNCHANGED vars
  BY <1>1 DEF vars, Spooled, TypeOK, Scheduled, Pending, Sent, Oldest, Older, NothingIsLost, NoIdleRepeats
<1>2. CASE Job
  BY <1>2, SpooledJob
<1> QED
  BY <1>1, <1>2, SpooledWorld DEF Next

LEMMA SpooledAlways == Spec => []Spooled
BY SpooledInit, SpooledNext, PTL DEF Spec

(* What the job has read is scheduled and counted. *)
THEOREM TypeCorrect == Spec => []TypeOK
BY SpooledAlways, PTL DEF Spooled

(* A mail leaves the table only delivered, with its site or of old age,    *)
(* unless the process sends no mails.                                      *)
THEOREM NothingIsLostEver == Spec => []NothingIsLost
BY SpooledAlways, PTL DEF Spooled

(* A mail is delivered once, and once more for each fault at most.         *)
THEOREM RepeatsAreFaults == Spec => []NoIdleRepeats
BY SpooledAlways, PTL DEF Spooled
=============================================================================
