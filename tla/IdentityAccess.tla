--------------------------- MODULE IdentityAccess ---------------------------
(***************************************************************************)
(* Access to the identity of a whistleblower: recipients of a report ask   *)
(* for it, the custodians of the site answer, and what recipients see of   *)
(* the identity follows the last request.                                  *)
(***************************************************************************)
EXTENDS Naturals, Sequences, FiniteSets

CONSTANTS
  Recipients, Custodians,
  MaxRequests,  (* Bound.                                                  *)
  Nobody

ASSUME IdentityAccessAssumption ==
  MaxRequests \in Nat /\ Nobody \notin Recipients \cup Custodians

VARIABLES
  custodian,  (* Of each: "none", "on" or "off", and whether it has a key. *)
  access,     (* Of each recipient: "gone", or whether the report is       *)
              (* shared with it.                                           *)
  provided,   (* The whistleblower gave an identity.                       *)
  requests,   (* Identity access requests of the report, with those of     *)
              (* identityaccessrequest_custodian and, for the properties,  *)
              (* the custodians that were switched on at the time.         *)
  seen        (* Recipients the identity was shown to.                     *)

vars == <<custodian, access, provided, requests, seen>>

On == {c \in Custodians : custodian[c].is = "on"}

LastRequest == requests[Len(requests)]

-----------------------------------------------------------------------------
(* db_access_rtip, then create_identityaccessrequest: the key of the       *)
(* report is encrypted for every custodian that is switched on, which      *)
(* fails for one that has no key yet.  With no custodian the request is    *)
(* granted at once.                                                        *)
Request(r) ==
  /\ access[r] = "shared" /\ Len(requests) < MaxRequests
  /\ \A c \in On : custodian[c].key
  /\ requests' = Append(requests,
       [by |-> r, asked |-> On, on |-> On,
        reply |-> IF On = {} THEN "authorized" ELSE "pending",
        who |-> IF On = {} THEN r ELSE Nobody])
  /\ UNCHANGED <<custodian, access, provided, seen>>

(* serialize_identityaccessrequest wants the account that asked.           *)
Serializes(i) == access[requests[i].by] # "gone"

(* The answer is mailed to the recipients of the report with the report,   *)
(* that is, with the last request for it.                                  *)
CanBeAnswered(i) ==
  /\ Serializes(i)
  /\ (\E r \in Recipients : access[r] = "shared") => Serializes(Len(requests))

ReplyMutant(c, i, answer) ==
  /\ custodian[c].is # "none" /\ i \in DOMAIN requests /\ c \in requests[i].asked
  /\ requests' = [requests EXCEPT ![i].reply = answer, ![i].who = c]
  /\ UNCHANGED <<custodian, access, provided, seen>>

(* update_identityaccessrequest: by a custodian that was asked; its session*)
(* outlives that it is switched off.  A second answer changes nothing.     *)
Reply(c, i, answer) ==
  /\ custodian[c].is # "none" /\ i \in DOMAIN requests /\ c \in requests[i].asked
  /\ requests[i].reply = "pending" /\ CanBeAnswered(i)
  /\ requests' = [requests EXCEPT ![i].reply = answer, ![i].who = c]
  /\ UNCHANGED <<custodian, access, provided, seen>>

Opens(r) == access[r] = "shared" /\ (requests # <<>> => Serializes(Len(requests)))

(* serialize_rtip *)
Shows == provided /\ requests # <<>> /\ LastRequest.reply = "authorized"

Open(r) ==
  /\ Opens(r) /\ Shows
  /\ seen' = seen \cup {r}
  /\ UNCHANGED <<custodian, access, provided, requests>>

(* get_identityaccessrequest_list *)
Lists(c) == \A i \in DOMAIN requests : c \in requests[i].asked => Serializes(i)

-----------------------------------------------------------------------------
(* update_identity_information, or the submission. *)
Provide ==
  /\ ~provided /\ provided' = TRUE
  /\ UNCHANGED <<custodian, access, requests, seen>>

Grant(r) ==
  /\ access[r] = "not shared" /\ access' = [access EXCEPT ![r] = "shared"]
  /\ UNCHANGED <<custodian, provided, requests, seen>>

Revoke(r) ==
  /\ access[r] = "shared" /\ access' = [access EXCEPT ![r] = "not shared"]
  /\ UNCHANGED <<custodian, provided, requests, seen>>

(* With an escrow the account gets a key when it is created, else with its *)
(* first password.                                                         *)
Engage(c, key) ==
  /\ custodian[c].is = "none"
  /\ custodian' = [custodian EXCEPT ![c] = [is |-> "on", key |-> key]]
  /\ UNCHANGED <<access, provided, requests, seen>>

FirstPassword(c) ==
  /\ custodian[c].is = "on" /\ ~custodian[c].key
  /\ custodian' = [custodian EXCEPT ![c].key = TRUE]
  /\ UNCHANGED <<access, provided, requests, seen>>

Switch(c) ==
  /\ custodian[c].is # "none"
  /\ custodian' = [custodian EXCEPT ![c].is = IF @ = "on" THEN "off" ELSE "on"]
  /\ UNCHANGED <<access, provided, requests, seen>>

(* What a deleted custodian was asked goes with the account. *)
Dismiss(c) ==
  /\ custodian[c].is # "none"
  /\ custodian' = [custodian EXCEPT ![c] = [is |-> "none", key |-> FALSE]]
  /\ requests' = [i \in DOMAIN requests |-> [requests[i] EXCEPT !.asked = @ \ {c}]]
  /\ UNCHANGED <<access, provided, seen>>

(* The requests of a deleted recipient stay. *)
DeleteRecipient(r) ==
  /\ access[r] # "gone"
  /\ access' = [access EXCEPT ![r] = "gone"]
  /\ UNCHANGED <<custodian, provided, requests, seen>>

-----------------------------------------------------------------------------
Init ==
  /\ custodian = [c \in Custodians |-> [is |-> "none", key |-> FALSE]]
  /\ access \in [Recipients -> {"shared", "not shared"}]
  /\ provided \in BOOLEAN
  /\ requests = <<>>
  /\ seen = {}

Next ==
  \/ Provide
  \/ \E r \in Recipients : Request(r) \/ Open(r) \/ Grant(r) \/ Revoke(r) \/ DeleteRecipient(r)
  \/ \E c \in Custodians :
       \/ \E i \in 1 .. MaxRequests, answer \in {"authorized", "denied"} : Reply(c, i, answer)
       \/ \E key \in BOOLEAN : Engage(c, key)
       \/ FirstPassword(c) \/ Switch(c) \/ Dismiss(c)

Spec == Init /\ [][Next]_vars

-----------------------------------------------------------------------------
Engagement == [is : {"none", "on", "off"}, key : BOOLEAN]
Sharing    == {"gone", "shared", "not shared"}

Asking ==
  [by : Recipients, asked : SUBSET Custodians, on : SUBSET Custodians,
   reply : {"pending", "authorized", "denied"},
   who : Recipients \cup Custodians \cup {Nobody}]

TypeOK ==
  /\ custodian \in [Custodians -> Engagement]
  /\ access \in [Recipients -> Sharing]
  /\ provided \in BOOLEAN /\ seen \subseteq Recipients
  /\ requests \in Seq(Asking) /\ Len(requests) <= MaxRequests
  /\ \A i \in DOMAIN requests : requests[i].reply = "pending" <=> requests[i].who = Nobody

(* Nobody has been shown the identity without a request that was granted:  *)
(* by a custodian who worked at the site when it was made, or by none      *)
(* because there was none.                                                 *)
ShownIsGranted ==
  seen # {} => \E i \in DOMAIN requests :
    /\ requests[i].reply = "authorized"
    /\ IF requests[i].on = {} THEN requests[i].who = requests[i].by ELSE requests[i].who \in requests[i].on

(* The first answer of a custodian stands, whoever answers later.          *)
AnswerStands ==
  \A i \in DOMAIN requests : requests[i].reply # "pending" =>
    i \in DOMAIN requests' /\ requests'[i].reply = requests[i].reply /\ requests'[i].who = requests[i].who

(* As long as the accounts that asked are there, a request that is pending *)
(* with a custodian waits for somebody: one who was asked, who still has   *)
(* the account and the key that the request was made for, and can list it. *)
SomebodyCanAnswer ==
  (\A j \in DOMAIN requests : Serializes(j)) =>
    \A i \in DOMAIN requests : requests[i].reply = "pending" /\ requests[i].asked # {} =>
      /\ CanBeAnswered(i)
      /\ \E c \in requests[i].asked : custodian[c].is # "none" /\ custodian[c].key /\ Lists(c)

(* The identity of a whistleblower is shown to those whose request was     *)
(* granted, a request that waits for a custodian can be answered, and an   *)
(* answer that was given is not replaced by another.                       *)
IdentityGuarded ==
  /\ [](TypeOK /\ ShownIsGranted /\ SomebodyCanAnswer)
  /\ [][AnswerStands]_vars

(* A recipient a report is shared with can open it.                        *)
ReportsOpen == \A r \in Recipients : access[r] = "shared" => Opens(r)
=============================================================================
