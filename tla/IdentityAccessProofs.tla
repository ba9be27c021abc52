------------------------ MODULE IdentityAccessProofs ------------------------
(***************************************************************************)
(* The identity of a whistleblower is guarded: IdentityAccess, for any     *)
(* recipients and custodians and any number of requests.                   *)
(***************************************************************************)
EXTENDS IdentityAccess, SequenceTheorems, TLAPS

(* What holds of each request whatever becomes of the others: who was asked*)
(* worked at the site, an authorization comes from those or from the       *)
(* absence of any, and only a request to nobody is granted by itself.      *)
Authorized(q) ==
  q.reply = "authorized" => IF q.on = {} THEN q.who = q.by ELSE q.who \in q.on

Sound(q) ==
  /\ q.asked \subseteq q.on /\ Authorized(q)
  /\ q.reply = "pending" <=> q.who = Nobody

(* A custodian that is asked has the account and the key it was asked with;*)
(* an account that is deleted takes along what it was asked.               *)
Holds(c) == custodian[c].is # "none" /\ custodian[c].key

Guarded ==
  /\ TypeOK
  /\ \A i \in DOMAIN requests : Sound(requests[i]) /\ \A c \in requests[i].asked : Holds(c)
  /\ seen # {} => \E i \in DOMAIN requests : requests[i].reply = "authorized"

-----------------------------------------------------------------------------
LEMMA GuardedInit == Init => Guarded
<1> SUFFICES ASSUME Init PROVE Guarded
  OBVIOUS
<1>1. custodian \in [Custodians -> Engagement]
  BY DEF Init, Engagement
<1>2. access \in [Recipients -> Sharing] /\ provided \in BOOLEAN /\ seen = {}
  BY DEF Init, Sharing
<1>3. requests \in Seq(Asking) /\ Len(requests) = 0
  BY EmptySeq DEF Init
<1>4. DOMAIN requests = {}
  BY <1>3
<1> QED
  BY <1>1, <1>2, <1>3, <1>4, IdentityAccessAssumption DEF Guarded, TypeOK

(* A request is put behind the others. *)
LEMMA GuardedRequest ==
  ASSUME Guarded, NEW r \in Recipients, Request(r)
  PROVE  Guarded' /\ AnswerStands
<1> DEFINE q == [by |-> r, asked |-> On, on |-> On,
                 reply |-> IF On = {} THEN "authorized" ELSE "pending",
                 who |-> IF On = {} THEN r ELSE Nobody]
<1>1. q \in Asking /\ Sound(q) /\ \A c \in q.asked : Holds(c)
  BY IdentityAccessAssumption DEF Request, On, Asking, Sound, Authorized, Holds
<1>2. /\ requests \in Seq(Asking) /\ requests' = Append(requests, q)
      /\ Len(requests) \in Nat /\ Len(requests) < MaxRequests
      /\ custodian' = custodian /\ access' = access /\ provided' = provided /\ seen' = seen
  BY DEF Request, Guarded, TypeOK
<1> HIDE DEF q
<1>3. /\ requests' \in Seq(Asking) /\ Len(requests') = Len(requests) + 1
      /\ DOMAIN requests' = DOMAIN requests \cup {Len(requests) + 1}
      /\ \A i \in DOMAIN requests : requests'[i] = requests[i]
      /\ requests'[Len(requests) + 1] = q
  BY <1>1, <1>2
<1>4. \A i \in DOMAIN requests' : Sound(requests'[i])
  BY <1>1, <1>3 DEF Guarded
<1>5. \A i \in DOMAIN requests' : \A c \in requests'[i].asked : Holds(c)'
  BY <1>1, <1>2, <1>3 DEF Guarded, Holds
<1>6. TypeOK'
  BY <1>2, <1>3, <1>4, IdentityAccessAssumption DEF Guarded, TypeOK, Sound
<1>7. seen' # {} => \E i \in DOMAIN requests' : requests'[i].reply = "authorized"
  BY <1>2, <1>3 DEF Guarded
<1>8. AnswerStands
  BY <1>3 DEF AnswerStands
<1> QED
  BY <1>4, <1>5, <1>6, <1>7, <1>8 DEF Guarded

(* An answer changes one request, that was pending. *)
LEMMA GuardedReply ==
  ASSUME Guarded, NEW c \in Custodians, NEW i \in 1 .. MaxRequests,
         NEW answer \in {"authorized", "denied"}, Reply(c, i, answer)
  PROVE  Guarded' /\ AnswerStands
<1> DEFINE q == [requests[i] EXCEPT !.reply = answer, !.who = c]
<1>1. /\ i \in DOMAIN requests /\ requests[i] \in Asking /\ Sound(requests[i])
      /\ c \in requests[i].asked /\ requests[i].reply = "pending"
  BY DEF Reply, Guarded, TypeOK
<1>2. q \in Asking /\ Sound(q) /\ q.asked = requests[i].asked
  BY <1>1, IdentityAccessAssumption DEF Asking, Sound, Authorized
<1>3. /\ requests' = [requests EXCEPT ![i] = q]
  BY DEF Reply
<1> HIDE DEF q
<1>4. /\ requests' \in Seq(Asking) /\ Len(requests') = Len(requests)
      /\ DOMAIN requests' = DOMAIN requests
      /\ \A j \in DOMAIN requests : j # i => requests'[j] = requests[j]
      /\ requests'[i] = q
  BY <1>1, <1>2, <1>3 DEF Guarded, TypeOK
<1>5. \A j \in DOMAIN requests' : Sound(requests'[j]) /\ requests'[j].asked = requests[j].asked
  BY <1>2, <1>4 DEF Guarded
<1>6. TypeOK'
  BY <1>4, <1>5 DEF Guarded, TypeOK, Reply, Sound
<1>7. seen' # {} => \E j \in DOMAIN requests' : requests'[j].reply = "authorized"
  BY <1>1, <1>4 DEF Guarded, Reply
<1>8. Guarded'
  BY <1>4, <1>5, <1>6, <1>7 DEF Guarded, Reply, Holds
<1> QED
  BY <1>1, <1>4, <1>8 DEF AnswerStands

(* What a deleted custodian was asked goes, the answers stay. *)
LEMMA GuardedDismiss ==
  ASSUME Guarded, NEW c \in Custodians, Dismiss(c)
  PROVE  Guarded' /\ AnswerStands
<1>1. /\ DOMAIN requests' = DOMAIN requests
      /\ requests' \in Seq(Asking) /\ Len(requests') = Len(requests)
      /\ \A i \in DOMAIN requests :
           /\ requests[i] \in Asking
           /\ requests'[i] = [requests[i] EXCEPT !.asked = @ \ {c}]
  <2>1. requests \in Seq(Asking) /\ requests' = [i \in DOMAIN requests |-> [requests[i] EXCEPT !.asked = @ \ {c}]]
    BY DEF Guarded, TypeOK, Dismiss
  <2>2. \A i \in DOMAIN requests : requests[i] \in Asking
    BY <2>1
  <2>3. \A q \in Asking : [q EXCEPT !.asked = @ \ {c}] \in Asking
    BY DEF Asking
  <2> QED
    BY <2>1, <2>2, <2>3
<1>2. \A i \in DOMAIN requests :
        /\ requests'[i].asked = requests[i].asked \ {c}
        /\ requests'[i].on = requests[i].on /\ requests'[i].by = requests[i].by
        /\ requests'[i].reply = requests[i].reply /\ requests'[i].who = requests[i].who
  BY <1>1 DEF Asking
<1>3. \A i \in DOMAIN requests' : Sound(requests'[i])
  BY <1>1, <1>2 DEF Guarded, Sound, Authorized
<1>4. \A d \in Custodians \ {c} : Holds(d) => Holds(d)'
  BY DEF Guarded, TypeOK, Dismiss, Holds
<1>5. \A i \in DOMAIN requests' : \A d \in requests'[i].asked : Holds(d)'
  BY <1>1, <1>2, <1>4 DEF Guarded, Asking
<1>6. TypeOK'
  <2>1. custodian' \in [Custodians -> Engagement]
    BY DEF Guarded, TypeOK, Dismiss, Engagement
  <2> QED
    BY <1>1, <1>3, <2>1 DEF Guarded, TypeOK, Dismiss, Sound
<1> QED
  BY <1>1, <1>2, <1>3, <1>5, <1>6 DEF Guarded, AnswerStands, Dismiss

(* Everything else leaves the requests as they are; no custodian who was   *)
(* asked loses its key, and the identity is shown as the last one says.    *)
LEMMA GuardedRest ==
  ASSUME Guarded,
         \/ UNCHANGED vars
         \/ Provide
         \/ \E r \in Recipients : Open(r) \/ Grant(r) \/ Revoke(r) \/ DeleteRecipient(r)
         \/ \E c \in Custodians : (\E key \in BOOLEAN : Engage(c, key)) \/ FirstPassword(c) \/ Switch(c)
  PROVE  Guarded' /\ AnswerStands
<1>1. requests' = requests
  BY DEF vars, Provide, Open, Grant, Revoke, DeleteRecipient, Engage, FirstPassword, Switch
<1>2. AnswerStands
  BY <1>1 DEF AnswerStands
<1>3. CASE UNCHANGED vars
  BY <1>2, <1>3 DEF vars, Guarded, TypeOK, Holds
<1>4. CASE Provide
  BY <1>2, <1>4 DEF Provide, Guarded, TypeOK, Holds
<1>5. ASSUME NEW r \in Recipients, Open(r) PROVE Guarded'
  <2>1. Len(requests) \in DOMAIN requests /\ requests[Len(requests)].reply = "authorized"
    BY <1>5 DEF Open, Shows, LastRequest, Guarded, TypeOK
  <2> QED
    BY <1>5, <2>1 DEF Open, Guarded, TypeOK, Holds
<1>6. ASSUME NEW r \in Recipients, Grant(r) \/ Revoke(r) \/ DeleteRecipient(r) PROVE Guarded'
  <2>1. access' \in [Recipients -> Sharing]
    BY <1>6 DEF Grant, Revoke, DeleteRecipient, Guarded, TypeOK, Sharing
  <2>2. UNCHANGED <<custodian, provided, requests, seen>>
    BY <1>6 DEF Grant, Revoke, DeleteRecipient
  <2> QED
    BY <2>1, <2>2 DEF Guarded, TypeOK, Holds
<1>7. ASSUME NEW c \in Custodians, (\E key \in BOOLEAN : Engage(c, key)) \/ FirstPassword(c) \/ Switch(c)
      PROVE  Guarded'
  <2> DEFINE e == custodian'[c]
  <2>1. custodian \in [Custodians -> Engagement] /\ custodian' = [custodian EXCEPT ![c] = e]
    BY <1>7 DEF Guarded, TypeOK, Engage, FirstPassword, Switch
  <2>2. e \in Engagement /\ (Holds(c) => e.is # "none" /\ e.key)
    <3>1. custodian[c] \in Engagement
      BY <2>1
    <3>2. ASSUME NEW key \in BOOLEAN, Engage(c, key) PROVE e \in Engagement /\ ~Holds(c)
      BY <2>1, <3>2 DEF Engage, Engagement, Holds
    <3>3. CASE FirstPassword(c)
      BY <2>1, <3>1, <3>3 DEF FirstPassword, Engagement, Holds
    <3>4. CASE Switch(c)
      BY <2>1, <3>1, <3>4 DEF Switch, Engagement, Holds
    <3> QED
      BY <1>7, <3>2, <3>3, <3>4
  <2> HIDE DEF e
  <2>3. custodian' \in [Custodians -> Engagement] /\ \A d \in Custodians : Holds(d) => Holds(d)'
    BY <2>1, <2>2 DEF Holds
  <2>4. UNCHANGED <<access, provided, seen>>
    BY <1>7 DEF Engage, FirstPassword, Switch
  <2>5. TypeOK'
    BY <1>1, <2>3, <2>4 DEF Guarded, TypeOK
  <2>6. \A i \in DOMAIN requests : requests[i].asked \subseteq Custodians
    <3>1. \A i \in DOMAIN requests : requests[i] \in Asking
      BY DEF Guarded, TypeOK
    <3> QED
      BY <3>1 DEF Asking
  <2> QED
    BY <1>1, <2>3, <2>4, <2>5, <2>6 DEF Guarded
<1> QED
  BY <1>2, <1>3, <1>4, <1>5, <1>6, <1>7

LEMMA GuardedNext == Guarded /\ [Next]_vars => Guarded' /\ AnswerStands
BY GuardedRequest, GuardedReply, GuardedDismiss, GuardedRest DEF Next

(* The three invariants follow. *)
LEMMA GuardedMeans == Guarded => TypeOK /\ ShownIsGranted /\ SomebodyCanAnswer
<1> SUFFICES ASSUME Guarded PROVE ShownIsGranted /\ SomebodyCanAnswer
  BY DEF Guarded
<1>1. ShownIsGranted
  BY DEF Guarded, ShownIsGranted, Sound, Authorized
<1>2. ASSUME \A j \in DOMAIN requests : Serializes(j),
             NEW i \in DOMAIN requests, requests[i].reply = "pending", requests[i].asked # {}
      PROVE  /\ CanBeAnswered(i)
             /\ \E c \in requests[i].asked : Holds(c) /\ Lists(c)
  <2>1. Len(requests) \in DOMAIN requests
    BY DEF Guarded, TypeOK
  <2> QED
    BY <1>2, <2>1 DEF Guarded, CanBeAnswered, Lists
<1> QED
  BY <1>1, <1>2 DEF SomebodyCanAnswer, Holds

(* The identity is shown only after a request that was granted by one who  *)
(* worked at the site, or by the absence of any; a request can be answered *)
(* while accounts stay; the first answer stands.                           *)
THEOREM IdentityGuardedAlways == Spec => IdentityGuarded
<1>1. [][Next]_vars /\ []Guarded => [][AnswerStands]_vars
  BY GuardedNext, PTL
<1> QED
  BY <1>1, GuardedInit, GuardedNext, GuardedMeans, PTL DEF Spec, IdentityGuarded
=============================================================================
