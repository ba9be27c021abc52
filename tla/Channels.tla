------------------------------ MODULE Channels ------------------------------
(***************************************************************************)
(* The channels of a site: their recipients, the rules by which a          *)
(* whistleblower selects among them, and the statuses of the reports.      *)
(* Administrators change all of it while a whistleblower fills in a page   *)
(* that was loaded before.                                                 *)
(***************************************************************************)
EXTENDS Naturals, FiniteSets

CONSTANTS
  Users,       (* Recipients of the site.                                  *)
  Channels,    (* Identifiers of contexts.                                 *)
  Limits,      (* maximum_selectable_receivers, 0 for none.                *)
  MayForce,    (* Recipients that may be made mandatory.                   *)
  MayTrigger,  (* Recipients that the one option of the questionnaire that *)
               (* names recipients may name.                               *)
  Statuses,    (* Those an administrator may add.                          *)
  Substatuses, (* Of the status "closed".                                  *)
  Stale,       (* A page may be older than what is in the database.        *)
  MaxReports,  (* Bound.                                                   *)
  None

ChannelsAssumption ==
  /\ Limits \subseteq Nat /\ MayForce \subseteq Users /\ MayTrigger \subseteq Users
  /\ Stale \in BOOLEAN /\ MaxReports \in Nat

VARIABLES
  account,   (* Of each recipient: "none", "waiting" (never logged in, no  *)
             (* key), "ready" or "gone".                                   *)
  forced,    (* forcefully_selected                                        *)
  trigger,   (* trigger_receiver of the option.                            *)
  context,   (* The channels: whether they are there, receivers,           *)
             (* select_all_receivers, allow_recipients_selection, the      *)
             (* limit.                                                     *)
  status,    (* submissionstatus and submissionsubstatus.                  *)
  page,      (* /api/public, as the whistleblower has loaded it.           *)
  reports,   (* With what held of the channel when they were submitted, and *)
             (* what the page showed of it.                                *)
  gone       (* Statuses that were deleted, which a page may offer still.  *)

vars == <<account, forced, trigger, context, status, page, reports, gone>>

Ready       == {u \in Users : account[u] = "ready"}
Receivers   == {u \in Users : account[u] \in {"waiting", "ready"}}
(* What of it the client acts upon. *)
Published   ==
  [receivers |-> Receivers, forced |-> forced, trigger |-> trigger,
   context |-> [c \in Channels |-> [there |-> context[c].there, choose |-> context[c].choose,
                                    receivers |-> context[c].receivers]]]
SystemStatuses == {"new", "opened", "closed"}

-----------------------------------------------------------------------------
(* Contexts: fill_context_request, db_associate_context_receivers.         *)

(* Without a choice all recipients are selected, and with all of them      *)
(* selected there is no limit.                                             *)
Filled(req) ==
  LET all == req.all \/ ~req.choose IN
  [req EXCEPT !.all = all, !.max = IF all THEN 0 ELSE @]

Requests == [there : {TRUE}, receivers : SUBSET Users, all : BOOLEAN, choose : BOOLEAN, max : Limits]

(* A recipient that is gone violates the foreign key. *)
Associates(req) == req.receivers \subseteq Receivers

CreateContext(c, req) ==
  /\ ~context[c].there /\ Associates(req)
  /\ context' = [context EXCEPT ![c] = Filled(req)]
  /\ UNCHANGED <<account, forced, trigger, status, page, reports, gone>>

UpdateContext(c, req) ==
  /\ context[c].there /\ Associates(req)
  /\ context' = [context EXCEPT ![c] = Filled(req)]
  /\ UNCHANGED <<account, forced, trigger, status, page, reports, gone>>

NoContext == [there |-> FALSE, receivers |-> {}, all |-> TRUE, choose |-> FALSE, max |-> 0]

(* With the reports of the channel, see module Schema. *)
DeleteContext(c) ==
  /\ context[c].there
  /\ context' = [context EXCEPT ![c] = NoContext]
  /\ reports' = {r \in reports : r.c # c}
  /\ UNCHANGED <<account, forced, trigger, status, page, gone>>

-----------------------------------------------------------------------------
(* Accounts and the questionnaire. *)

CreateUser(u) ==
  /\ account[u] = "none" /\ account' = [account EXCEPT ![u] = "waiting"]
  /\ UNCHANGED <<forced, trigger, context, status, page, reports, gone>>

FirstLogin(u) ==
  /\ account[u] = "waiting" /\ account' = [account EXCEPT ![u] = "ready"]
  /\ UNCHANGED <<forced, trigger, context, status, page, reports, gone>>

Force(u) ==
  /\ u \in MayForce \cap Receivers
  /\ forced' = IF u \in forced THEN forced \ {u} ELSE forced \cup {u}
  /\ UNCHANGED <<account, trigger, context, status, page, reports, gone>>

(* What the option names is no foreign key and stays. *)
DeleteUser(u) ==
  /\ u \in Receivers
  /\ account' = [account EXCEPT ![u] = "gone"] /\ forced' = forced \ {u}
  /\ context' = [c \in Channels |-> [context[c] EXCEPT !.receivers = @ \ {u}]]
  /\ reports' = {[r EXCEPT !.holders = @ \ {u}] : r \in reports}
  /\ UNCHANGED <<trigger, status, page, gone>>

SetTrigger(us) ==
  /\ us \subseteq MayTrigger \cap Receivers /\ us # trigger /\ trigger' = us
  /\ UNCHANGED <<account, forced, context, status, page, reports, gone>>

-----------------------------------------------------------------------------
(* The whistleblower. *)

LoadPage ==
  /\ page # Published /\ page' = Published
  /\ UNCHANGED <<account, forced, trigger, context, status, reports, gone>>

(* setContextReceivers: what is shown, what is selected from the beginning *)
(* and cannot be deselected, and what may be selected.                     *)
Shown(p, c)     == p.context[c].receivers \cap p.receivers
Mandatory(p, c) == IF p.context[c].choose THEN Shown(p, c) \cap p.forced ELSE Shown(p, c)
Selections(p, c) == {s \in SUBSET Shown(p, c) : Mandatory(p, c) \subseteq s}

(* submit: the recipients of the option that was chosen take the place of  *)
(* the selected ones.                                                      *)
Requested(p, selection, option) == IF option /\ p.trigger # {} THEN p.trigger ELSE selection

ExceedsMutant(c, asked) == FALSE

(* db_create_submission *)
Exceeds(c, asked) == context[c].max > 0 /\ Cardinality(asked) > context[c].max
Delivers(asked) == asked \cap Ready
Accepts(c, asked) == context[c].there /\ Delivers(asked) # {} /\ ~Exceeds(c, asked)

Submit(c, selection, option) ==
  LET asked == Requested(page, selection, option) IN
  /\ page # None /\ (Stale \/ page = Published)
  /\ page.context[c].there /\ selection \in Selections(page, c) /\ asked # {}
  /\ Cardinality(reports) < MaxReports /\ Accepts(c, asked)
  /\ reports' = reports \cup
       {[c |-> c, holders |-> Delivers(asked), status |-> "new", substatus |-> None,
         option |-> option /\ page.trigger # {},
         at |-> [receivers |-> context[c].receivers, choose |-> context[c].choose, max |-> context[c].max,
                 forced |-> forced, ready |-> Ready],
         seen |-> [receivers |-> Shown(page, c), mandatory |-> Mandatory(page, c), trigger |-> page.trigger]]}
  /\ UNCHANGED <<account, forced, trigger, context, status, page, gone>>

-----------------------------------------------------------------------------
(* Statuses.  What a recipient's page offers may be gone by then: only the *)
(* substatus of a report that is closed is looked up.                      *)

CreateStatus(x) ==
  /\ x \notin status /\ status' = status \cup {x}
  /\ UNCHANGED <<account, forced, trigger, context, page, reports, gone>>

DeleteStatus(x) ==
  /\ x \in status \ SystemStatuses /\ status' = status \ {x}
  /\ gone' = gone \cup {x}
  /\ UNCHANGED <<account, forced, trigger, context, page, reports>>

UpdateStatus(r, x, sub) ==
  /\ r.holders # {} /\ x # "new"
  /\ x \in status \/ (Stale /\ x \in gone)
  /\ IF x = "closed" THEN sub \in status \cup {None} ELSE sub = None
  /\ reports' = (reports \ {r}) \cup {[r EXCEPT !.status = x, !.substatus = sub]}
  /\ UNCHANGED <<account, forced, trigger, context, status, page, gone>>

-----------------------------------------------------------------------------
Init ==
  /\ account = [u \in Users |-> "none"]
  /\ forced = {} /\ trigger = {}
  /\ context = [c \in Channels |-> NoContext]
  /\ status = SystemStatuses
  /\ page = None /\ reports = {} /\ gone = {}

Next ==
  \/ LoadPage
  \/ \E c \in Channels :
       \/ \E req \in Requests : CreateContext(c, req) \/ UpdateContext(c, req)
       \/ DeleteContext(c)
       \/ \E selection \in SUBSET Users, option \in BOOLEAN : Submit(c, selection, option)
  \/ \E u \in Users : CreateUser(u) \/ FirstLogin(u) \/ Force(u) \/ DeleteUser(u)
  \/ \E us \in SUBSET MayTrigger : SetTrigger(us)
  \/ \E x \in Statuses \cup Substatuses : CreateStatus(x) \/ DeleteStatus(x)
  \/ \E r \in reports, x \in SystemStatuses \cup Statuses, sub \in Substatuses \cup {None} : UpdateStatus(r, x, sub)

Spec == Init /\ [][Next]_vars

-----------------------------------------------------------------------------
(* A channel has recipients that are there, a limit only where recipients  *)
(* are chosen, and a mandatory recipient exists.                           *)
TypeOK ==
  /\ account \in [Users -> {"none", "waiting", "ready", "gone"}]
  /\ forced \subseteq Receivers /\ trigger \subseteq MayTrigger
  /\ \A c \in Channels :
       /\ context[c] \in [there : BOOLEAN, receivers : SUBSET Receivers, all : BOOLEAN, choose : BOOLEAN,
                          max : Limits \cup {0}]
       /\ context[c].max > 0 => context[c].choose /\ ~context[c].all
  /\ SystemStatuses \subseteq status /\ status \subseteq SystemStatuses \cup Statuses \cup Substatuses
  /\ \A r \in reports : context[r.c].there /\ r.holders \subseteq Ready

(* A report is held by recipients of its channel, or by those that an      *)
(* answer named.  One exception: who was taken out of the channel since    *)
(* the page was loaded, as nothing looks at the channel again.             *)
HoldersBelong ==
  \A r \in reports : r.holders \subseteq
    IF r.option THEN r.seen.trigger ELSE r.at.receivers \cup r.seen.receivers

(* The recipients that were mandatory, all those of a channel where there  *)
(* is no choice, hold it, as far as they could read it.  One exception:    *)
(* who has become mandatory since the page was loaded.                     *)
MandatoryHold ==
  \A r \in reports : ~r.option =>
    LET mandatory == r.at.receivers \cap (IF r.at.choose THEN r.at.forced ELSE Users)
    IN r.seen.mandatory \cap mandatory \cap r.at.ready \cap Ready \subseteq r.holders

(* No more recipients than the channel allowed, however old the page.      *)
WithinLimit == \A r \in reports : r.at.max > 0 => Cardinality(r.holders) <= r.at.max

(* What the page offers is accepted: a selection within the limit of a     *)
(* channel whose recipients are ready.                                     *)
OffersAreAccepted ==
  page = Published => \A c \in Channels : \A s \in Selections(page, c) \ {{}}, option \in BOOLEAN :
    /\ context[c].there /\ Shown(page, c) \subseteq Ready
    /\ context[c].max > 0 => Cardinality(s) <= context[c].max \/ s = Mandatory(page, c)
    => Accepts(c, Requested(page, s, option))

(* A report has one of the statuses of the site, or one that was deleted.  *)
StatusExists ==
  \A r \in reports : r.status \in status \cup gone /\ r.substatus \in status \cup gone \cup {None}
=============================================================================
