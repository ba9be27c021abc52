------------------------------ MODULE MCIntake ------------------------------
(***************************************************************************)
(* How a report comes in, and what keeps others out: Submission and        *)
(* instances of Channels, Submission, SecondFactor and RateLimits for TLC. *)
(*                                                                         *)
(* They share no state, so one run goes through all of them: the initial   *)
(* state says of which part a behaviour is, and the others stay unused.    *)
(***************************************************************************)
EXTENDS Submission, TLC

CONSTANTS
  c1, c2,     (* Recipients; sessions of whistleblowers; addresses.        *)
  None

VARIABLES
  part,
  account, forced, trigger, context, status, page, sent, gone,
  version2, archived2, counter2, reports2, memory2, txn2, outcome2, made2,
  now, enabled, remembered, due, stale, login, last, accepted, burnt, robbed,
  clock, cache, log

channels    == <<account, forced, trigger, context, status, page, sent, gone>>
threads     == <<version2, archived2, counter2, reports2, memory2, txn2, outcome2, made2>>
codes       == <<now, enabled, remembered, due, stale, login, last, accepted, burnt, robbed>>
limits      == <<clock, cache, log>>
all         == <<part, channels, vars, threads, codes, limits>>

(* A channel whose page is always fresh; pages that are older than what is *)
(* in the database, until a report is in; an answer that names recipients; *)
(* statuses.                                                               *)
Fresh == INSTANCE Channels WITH
  Users <- {c1, c2}, Channels <- {"channel"}, Limits <- {0, 1}, MayForce <- {c1, c2},
  MayTrigger <- {}, Statuses <- {}, Substatuses <- {}, Stale <- FALSE, MaxReports <- 1,
  reports <- sent

Old == INSTANCE Channels WITH
  Users <- {c1, c2}, Channels <- {"channel"}, Limits <- {1}, MayForce <- {c1, c2},
  MayTrigger <- {}, Statuses <- {}, Substatuses <- {}, Stale <- TRUE, MaxReports <- 1,
  reports <- sent

Named == INSTANCE Channels WITH
  Users <- {c1, c2}, Channels <- {"channel"}, Limits <- {1}, MayForce <- {},
  MayTrigger <- {c1, c2}, Statuses <- {}, Substatuses <- {}, Stale <- FALSE, MaxReports <- 1,
  reports <- sent

Statuses == INSTANCE Channels WITH
  Users <- {c1}, Channels <- {"channel"}, Limits <- {1}, MayForce <- {}, MayTrigger <- {},
  Statuses <- {"added"}, Substatuses <- {"sub"}, Stale <- TRUE, MaxReports <- 1,
  reports <- sent

(* The constants are for one thread and questionnaires that are changed;   *)
(* here two threads and a locked database.                                 *)
Together == INSTANCE Submission WITH
  Threads <- {"thread 1", "thread 2"}, Versions <- {1}, Locked <- TRUE, Retries <- 2, Bodies <- 1,
  version <- version2, archived <- archived2, counter <- counter2, reports <- reports2,
  memory <- memory2, txn <- txn2, outcome <- outcome2, made <- made2

(* Codes: one thread, eight steps of time; two threads and a locked        *)
(* database.                                                               *)
Codes == INSTANCE SecondFactor WITH
  Threads <- {"thread 1"}, Retries <- 0, Timeout <- 4, MaxTime <- 7

Retried == INSTANCE SecondFactor WITH
  Threads <- {"thread 1", "thread 2"}, Retries <- 1, Timeout <- 4, MaxTime <- 2

(* As in the code, an address has less than a tenant, and a second less    *)
(* than a minute.                                                          *)
Keys(limit) == {kind \o "s_per_" \o limit : kind \in {"report", "login"}}

Thresholds ==
  [n \in Keys("tenant_per_ip") \cup {"operations_per_second"} |-> 1]
    @@ [n \in Keys("ip") \cup Keys("tenant") \cup {"operations_per_minute"} |-> 2]
    @@ [n \in Keys("system") \cup {"operations_per_hour"} |-> 4]

Intervals ==
  [n \in DOMAIN Thresholds |->
     CASE n = "operations_per_second" -> 1 [] n = "operations_per_hour" -> 4 [] OTHER -> 2]

Logins == INSTANCE RateLimits WITH
  Kinds <- {"login"}, Tenants <- {"site"}, Addresses <- {c1, c2}, Limit <- Thresholds,
  Interval <- Intervals, Burst <- 1, Size <- 9, MaxTime <- 6, MaxRequests <- 4, now <- clock

Submissions == INSTANCE RateLimits WITH
  Kinds <- {"report"}, Tenants <- {"site"}, Addresses <- {c1, c2}, Limit <- Thresholds,
  Interval <- Intervals, Burst <- 2, Size <- 9, MaxTime <- 3, MaxRequests <- 4, now <- clock

Operations == INSTANCE RateLimits WITH
  Kinds <- {"operation"}, Tenants <- {"site"}, Addresses <- {c1, c2}, Limit <- Thresholds,
  Interval <- Intervals, Burst <- 2, Size <- 5, MaxTime <- 5, MaxRequests <- 5, now <- clock

ASSUME Assumptions ==
  /\ Fresh!ChannelsAssumption /\ Old!ChannelsAssumption
  /\ Named!ChannelsAssumption /\ Statuses!ChannelsAssumption
  /\ Together!SubmissionAssumption
  /\ Codes!SecondFactorAssumption /\ Retried!SecondFactorAssumption
  /\ Logins!RateLimitsAssumption /\ Submissions!RateLimitsAssumption
  /\ Operations!RateLimitsAssumption

-----------------------------------------------------------------------------
NoChannels ==
  /\ account = None /\ forced = None /\ trigger = None /\ context = None
  /\ status = None /\ page = None /\ sent = None /\ gone = None

NoThreads ==
  /\ version2 = None /\ archived2 = None /\ counter2 = None /\ reports2 = None
  /\ memory2 = None /\ txn2 = None /\ outcome2 = None /\ made2 = None

NoCodes ==
  /\ now = None /\ enabled = None /\ remembered = None /\ due = None /\ stale = None
  /\ login = None /\ last = None /\ accepted = None
  /\ burnt = None /\ robbed = None

NoLimits == clock = None /\ cache = None /\ log = None

Start ==
  /\ Init
  /\ \/ /\ \/ part = "fresh"    /\ Fresh!Init
           \/ part = "old"      /\ Old!Init
           \/ part = "named"    /\ Named!Init
           \/ part = "statuses" /\ Statuses!Init
        /\ NoThreads /\ NoCodes /\ NoLimits
     \/ /\ \/ part = "one by one" /\ NoThreads
           \/ part = "together"   /\ Together!Init
        /\ NoChannels /\ NoCodes /\ NoLimits
     \/ /\ \/ part = "codes"   /\ Codes!Init
           \/ part = "retried" /\ Retried!Init
        /\ NoChannels /\ NoThreads /\ NoLimits
     \/ /\ \/ part = "logins"      /\ Logins!Init
           \/ part = "submissions" /\ Submissions!Init
           \/ part = "operations"  /\ Operations!Init
        /\ NoChannels /\ NoThreads /\ NoCodes

ChannelStep ==
  /\ \/ part = "fresh"    /\ Fresh!Next
     \/ part = "old"      /\ Old!Next /\ sent = {}
     \/ part = "named"    /\ Named!Next
     \/ part = "statuses" /\ Statuses!Next
  /\ UNCHANGED <<part, vars, threads, codes, limits>>

SubmissionStep ==
  /\ \/ part = "one by one" /\ Next /\ UNCHANGED threads
     \/ part = "together" /\ Together!Next /\ UNCHANGED vars
  /\ UNCHANGED <<part, channels, codes, limits>>

CodeStep ==
  /\ \/ part = "codes"   /\ Codes!Next
     \/ part = "retried" /\ Retried!Next
  /\ UNCHANGED <<part, channels, vars, threads, limits>>

LimitStep ==
  /\ \/ part = "logins"      /\ Logins!Next
     \/ part = "submissions" /\ Submissions!Next
     \/ part = "operations"  /\ Operations!Next
  /\ UNCHANGED <<part, channels, vars, threads, codes>>

Step == ChannelStep \/ SubmissionStep \/ CodeStep \/ LimitStep

Intake == Start /\ [][Step]_all

-----------------------------------------------------------------------------
(* A report has the recipients its channel had and let choose, with those  *)
(* that must have it, as many as the channel admits, with a status that is *)
(* there, while channels, recipients and statuses are changed and deleted  *)
(* and the whistleblower's page is older than that.  Exceptions: who left  *)
(* the channel or has become mandatory since the page was loaded, and a    *)
(* status that was deleted.                                                *)
ChannelsHold ==
  /\ part = "fresh"    => Fresh!HoldersBelong /\ Fresh!MandatoryHold
  /\ part = "old"      => Old!WithinLimit /\ Old!HoldersBelong /\ Old!MandatoryHold
  /\ part = "named"    => Named!WithinLimit /\ Named!HoldersBelong
  /\ part = "statuses" => Statuses!TypeOK /\ Statuses!StatusExists

(* On two threads, with a database that may be locked, a whistleblower is  *)
(* told the truth of a submission that runs again.                         *)
SubmissionsTogether == part = "together" => Together!SubmissionsTrue

(* A code passes once, and is refused as used only when it opened          *)
(* something; no bucket lets more through than its burst and its limit,    *)
(* being asked costs nothing, a request that is refused has paid only the  *)
(* buckets before, clients do not spend what is another's, and the cache   *)
(* forgets the oldest bucket.  Exceptions: a code checked twice at once, a *)
(* code forgotten on an older timer, a login that runs again, and the      *)
(* first bucket of reports, which does not tell addresses apart.           *)
GuessingIsLimited ==
  /\ [](part = "codes"   => Codes!TypeOK /\ Codes!ReuseIsReal)
  /\ [](part = "retried" => Retried!TypeOK /\ Retried!ReuseIsReal)
  /\ [](part = "logins"  => Logins!BurstAndLimit /\ Logins!AskingIsFree /\ Logins!OwnAddress)
  /\ [](part = "submissions" => Submissions!BurstAndLimit /\ Submissions!AskingIsFree /\ Submissions!OwnAddress)
  /\ [](part = "operations" =>
         Operations!TypeOK /\ Operations!MostRecent /\ Operations!RefusedPaysNothing)
  /\ [][part = "codes"   => Codes!CodeOnce]_all
  /\ [][part = "retried" => Retried!CodeOnce]_all

-----------------------------------------------------------------------------
Symmetric == Permutations({c1, c2})

(* Without stale pages, all pages that have changed since are alike.       *)
Relevant ==
  <<part, account, forced, trigger, context, status, sent, gone, vars, threads, codes, limits,
    CASE part = "fresh" -> page = Fresh!Published
      [] part = "named" -> page = Named!Published
      [] OTHER -> page>>

=============================================================================
