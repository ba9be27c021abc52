---------------------------- MODULE MCDisclosure ----------------------------
(***************************************************************************)
(* What recipients are told and shown: Gateway and instances of            *)
(* Notification, Reports, Redaction and Ranges for TLC.                    *)
(*                                                                         *)
(* They share no state, so one run goes through all of them: the initial   *)
(* state says of which part a behaviour is, and the others stay unused.    *)
(***************************************************************************)
EXTENDS Gateway, Integers, Sequences, TLC

CONSTANTS
  c1, c2,     (* Recipients of mails; reports; requests served at once.    *)
  d1, d2,     (* Threads that load settings.                               *)
  u1, u2,     (* Recipients.                                               *)
  r1          (* A report.                                                 *)

VARIABLES
  part,
  wants, row, remarks, files, gen, mails, owed, written, dropped, slipped, again,
  now, users, keyed, encryption, status, substatus, expiration, source, reminder, sealed,
  supplied, holders, unread, ifile, home, wbfile, audit,
  content, reds, created, first, put, view, shown, masked, overrun,
  text, temporary, permanent, asked

news    == <<wants, row, remarks, files, gen, mails, owed, written, dropped, slipped, again>>
reports == <<now, users, keyed, encryption, status, substatus, expiration, source, reminder,
             sealed, supplied, holders, unread, ifile, home, wbfile, audit>>
masks   == <<content, reds, created, first, put, view, shown, masked, overrun>>
ranges  == <<text, temporary, permanent, asked>>
all     == <<part, news, reports, masks, ranges, vars>>

(* Two recipients of a report; one who switches the mails off and on.      *)
News == INSTANCE Notification WITH
  Users <- {c1, c2}, Reports <- {r1}, enabled <- TRUE, Choosers <- {}, Reminded <- {},
  raced <- again

Choice == INSTANCE Notification WITH
  Users <- {c1}, Reports <- {r1}, enabled <- TRUE, Choosers <- {c1}, Reminded <- {<<c1, r1>>},
  raced <- again

(* Two recipients, two reports, bulk operations over both, the clock       *)
(* standing still and reports without retention or attachments.            *)
Bulk == INSTANCE Reports WITH
  Users <- {u1, u2}, Reports <- {c1, c2}, Files <- {}, NoReport <- None,
  CanGrant <- {u1}, CanTransfer <- {u1, u2}, CanDelete <- {}, CanPostpone <- {},
  CanRedact <- {u1, u2}, CustomStatuses <- {}, Substatuses <- {}, NoSubstatus <- None,
  SubstatusTTL <- [s \in {} |-> 0], ContextTTL <- 0, ContextReminder <- 0,
  HasAdditional <- FALSE, MaxSelectable <- 2, Day <- 2, MinAhead <- 4, MaxAhead <- 8,
  DeliveryLimit <- 1, Dates <- {}, Never <- 99, MaxNow <- 0

(* One recipient may mask, two may redact, one only reads; two that work   *)
(* on one report at the same time.                                         *)
KindOf(t) == CASE t \in {"answer 1", "answer 2"} -> "answer" [] OTHER -> t

Alone == INSTANCE Redaction WITH
  Users <- {"masks", "redacts", "views"}, MayMask <- {"masks"}, MayRedact <- {"masks", "redacts"},
  Viewers <- {"masks", "views"}, Texts <- {"answer 1", "answer 2", "comment", "file"},
  Positions <- 1 .. 2, MaxReds <- 2, Together <- FALSE

Remarked == INSTANCE Redaction WITH
  Users <- {"masks", "redacts"}, MayMask <- {"masks"}, MayRedact <- {"masks", "redacts"},
  Viewers <- {"masks"}, Texts <- {"comment"},
  Positions <- 1 .. 2, MaxReds <- 2, Together <- TRUE

Rewriting == INSTANCE Redaction WITH
  Users <- {"masks", "redacts"}, MayMask <- {"masks"}, MayRedact <- {"masks", "redacts"},
  Viewers <- {"masks"}, Texts <- {"answer 1", "answer 2", "identity"},
  Positions <- {1}, MaxReds <- 2, Together <- TRUE

Lists == INSTANCE Ranges WITH Length <- 5, request <- asked

FirstName(s) == IF s = "root" THEN "name 1" ELSE "name 2"

ASSUME Assumptions ==
  /\ News!NotificationAssumption /\ Choice!NotificationAssumption
  /\ Bulk!ClockAssumption /\ Bulk!PolicyAssumption /\ Bulk!NameAssumption
  /\ Alone!RedactionAssumption /\ Remarked!RedactionAssumption
  /\ Rewriting!RedactionAssumption /\ Lists!RangesAssumption

-----------------------------------------------------------------------------
NoNews ==
  /\ wants = None /\ row = None /\ remarks = None /\ files = None /\ gen = None
  /\ mails = None /\ owed = None /\ written = None /\ dropped = None /\ slipped = None /\ again = None

NoReports ==
  /\ now = None /\ users = None /\ keyed = None /\ encryption = None /\ status = None
  /\ substatus = None /\ expiration = None /\ source = None /\ reminder = None
  /\ sealed = None /\ supplied = None /\ holders = None /\ unread = None /\ ifile = None
  /\ home = None /\ wbfile = None /\ audit = None

NoMasks ==
  /\ content = None /\ reds = None /\ created = None /\ first = None /\ put = None
  /\ view = None /\ shown = None /\ masked = None /\ overrun = None

NoRanges == text = None /\ temporary = None /\ permanent = None /\ asked = None

Start ==
  \/ /\ \/ part = "news"   /\ News!Init
        \/ part = "choice" /\ Choice!Init
     /\ NoReports /\ NoMasks /\ NoRanges /\ Init
  \/ /\ part = "bulk" /\ Bulk!Init
     /\ NoNews /\ NoMasks /\ NoRanges /\ Init
  \/ /\ \/ part = "alone"    /\ Alone!Init
        \/ part = "together" /\ Remarked!Init
        \/ part = "answers"  /\ Rewriting!Init
     /\ NoNews /\ NoReports /\ NoRanges /\ Init
  \/ /\ part = "lists" /\ Lists!Init
     /\ NoNews /\ NoReports /\ NoMasks /\ Init
  \/ /\ part \in {"cache", "disk", "hosts"} /\ Init
     /\ NoNews /\ NoReports /\ NoMasks /\ NoRanges

(* Requests that come together and disconnect, with two names; a disk that *)
(* fills up, with one write; sites that take each other's names, with one  *)
(* request at a time.                                                      *)
Within ==
  /\ part # "disk" => accept
  /\ part # "hosts" => \A s \in Sites : db[s].name # "name 3"
  /\ part = "cache" => Writes <= 2
  /\ part = "disk"  => Writes <= 1 /\ lost = {}
  /\ part = "hosts" => /\ Writes = MaxWrites => raced \cup lost = {}
                       /\ Cardinality({r \in Requests : request[r] # Free}) <= 1
                       /\ \A r \in Requests : request[r].do # "get"

NewsStep ==
  /\ \/ part = "news"   /\ News!Next
     \/ part = "choice" /\ Choice!Next
  /\ UNCHANGED <<part, reports, masks, ranges, vars>>

ReportStep ==
  /\ part = "bulk" /\ Bulk!Next
  /\ UNCHANGED <<part, news, masks, ranges, vars>>

(* Those who work at the same time mask a text as a whole, in one or two   *)
(* redactions, redact something or unmask; two requests are under way at   *)
(* once, and nothing follows on an update that was written over.           *)
Masking ==
  /\ overrun = {}
  /\ Cardinality({u \in DOMAIN put : put[u] # None \/ view[u] # None}) <= 2
  /\ \A u \in DOMAIN put :
       /\ put[u] # None => view[u] = None /\ put[u].op # "mask"
       /\ put[u] # None => put[u].op = "redact" <=> put[u].range # {}
  /\ created = 2 => \A i \in Remarked!Some :
       content[reds[i].ref] \subseteq Remarked!Masks(reds, reds[i].ref)

MaskStep ==
  /\ \/ part = "alone"    /\ Alone!Next
     \/ part = "together" /\ Remarked!Next  /\ Masking
     \/ part = "answers"  /\ Rewriting!Next /\ Masking
  /\ UNCHANGED <<part, news, reports, ranges, vars>>

RangeStep ==
  /\ part = "lists" /\ Lists!Next
  /\ UNCHANGED <<part, news, reports, masks, vars>>

GateStep ==
  /\ part \in {"cache", "disk", "hosts"}
  /\ UNCHANGED <<part, news, reports, masks, ranges>>
  /\ Next /\ Within'

Step == NewsStep \/ ReportStep \/ MaskStep \/ RangeStep \/ GateStep

Disclosure == Start /\ [][Step]_all

-----------------------------------------------------------------------------
(* News of a report reach its recipients: whoever is owed news gets a      *)
(* mail, and is written to once for each visit, however loads, visits and  *)
(* settings come between the queries of a run.  Three exceptions: mails    *)
(* that were off when the run came, news after a visit after a stale read  *)
(* of the row, and a second mail when the visit was during the first run.  *)
NewsReachOnce ==
  /\ [](part = "news"   => News!TypeOK /\ News!NewsReach /\ News!ToldIsWritten)
  /\ [](part = "choice" => Choice!TypeOK /\ Choice!NewsReach /\ Choice!ToldIsWritten)
  /\ [][part = "news"   => News!OneMailPerVisit]_all
  /\ [][part = "choice" => Choice!OneMailPerVisit]_all

(* Operations over several reports leave none without a holder, without    *)
(* the key of its holders, or with rows of a report that is gone, and only *)
(* a recipient that holds a report alone may leave it.                     *)
BulkKept ==
  /\ [](part = "bulk" => Bulk!RowsHaveParents /\ Bulk!KeyCustody)
  /\ [][part = "bulk" => Bulk!AbandonedBySoleHolder]_all

(* What is masked is hidden from those who may not see it and may come     *)
(* back; what is redacted is gone for good and was masked before, and no   *)
(* list of ranges says otherwise than the text, also when several work on  *)
(* the report at the same time.  Four exceptions: what two updates redact  *)
(* at once, the identity and comments with several redactions, which stay  *)
(* in sight, and a redaction between the reading and masking of a view.    *)
RedactionsHold ==
  /\ [](part = "alone"    => Alone!TypeOK /\ Alone!RecordsFit)
  /\ [](part = "together" => Remarked!TypeOK /\ Remarked!RecordsFit /\ Remarked!RedactedWasMasked)
  /\ [](part = "answers"  => Rewriting!TypeOK /\ Rewriting!RecordsFit /\ Rewriting!RedactedWasMasked)
  /\ [](part = "lists"    => Lists!ListsFit /\ Lists!TextFits)
  /\ [][part = "alone"    => Alone!RedactionHolds /\ Alone!MaskedIsHidden]_all
  /\ [][part = "together" => Remarked!RedactionHolds /\ Remarked!MaskedIsHidden]_all
  /\ [][part = "answers"  => Rewriting!RedactionHolds /\ Rewriting!MaskedIsHidden]_all
  /\ [][part = "lists"    => Lists!ListsAreSets]_all

-----------------------------------------------------------------------------
Symmetric == Permutations({c1, c2}) \cup Permutations({d1, d2})

(* The mails that the last step wrote are of that step only, and handler   *)
(* is read by no action.                                                   *)
Lasting ==
  <<part, wants, row, remarks, files, gen, owed, written, dropped, slipped, again, reports, masks, ranges,
    db, mem, route, cached, accept, request, refresh, alone, acked, overlap, raced, lost>>

=============================================================================
