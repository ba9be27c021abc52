------------------------------ MODULE Gateway ------------------------------
(***************************************************************************)
(* How a request finds its site, and the copies of the tables in memory:   *)
(* State.tenants with the map of hostnames, and the cache of the answers   *)
(* of public resources.                                                    *)
(*                                                                         *)
(* A handler runs on a database thread, and its callback on the reactor    *)
(* afterwards: a GET puts its answer in the cache, a write clears the      *)
(* cache and has another thread load the settings again.  When the client  *)
(* disconnects, the callbacks are cancelled and the transaction is not.    *)
(***************************************************************************)
EXTENDS Naturals, FiniteSets

CONSTANTS
  Sites, Root,
  Names,         (* Hostnames. *)
  HomeName(_),   (* The first name of a site.                              *)
  Requests,      (* Requests that are served at once.                      *)
  Refreshers,    (* Threads of the reactor that load settings.             *)
  Disconnects,   (* Whether clients disconnect.                            *)
  DiskFills,     (* Whether the disk fills up and is emptied.              *)
  MaxWrites,     (* Bound on writes.                                       *)
  None

Free    == [do |-> "nothing", site |-> None, step |-> "none", got |-> None]
Changes == [active : BOOLEAN, name : Names, change : 0 .. MaxWrites]

(* What is in memory of a site, what a GET reads and what a write has done *)
(* while they wait for their callback, and what a refresh works on.        *)
Settings == [name : Names, change : 0 .. MaxWrites]
Answers  == [change : 0 .. MaxWrites, accept : BOOLEAN]
Edits    == [site : Sites, change : 0 .. MaxWrites]
Loads    == [site : Sites, read : [Sites -> Changes] \cup {None}]

Calls ==
  {Free}
    \cup [do : {"get", "put"}, site : Sites, step : {"queued"}, got : {None}]
    \cup [do : {"get"}, site : Sites, step : {"read"}, got : Answers]
    \cup [do : {"put"}, site : Sites, step : {"cancelled"}, got : {None}]
    \cup [do : {"put"}, site : Sites, step : {"written"}, got : Edits]

ASSUME GatewayAssumption ==
  /\ Root \in Sites
  /\ \A s \in Sites : HomeName(s) \in Names
  /\ \A s, x \in Sites : HomeName(s) = HomeName(x) => s = x
  /\ None \notin Sites /\ None \notin Settings /\ None \notin Loads
  /\ Disconnects \in BOOLEAN /\ DiskFills \in BOOLEAN /\ MaxWrites \in Nat

VARIABLES
  db,       (* Of each site: active, its hostname, the number of its last  *)
            (* change.                                                     *)
  mem,      (* State.tenants: None or the name and change it was loaded at.*)
  route,    (* tenant_hostname_id_map.                                     *)
  cached,   (* The cached answer: None or the change it shows, and whether *)
            (* submissions are accepted.                                   *)
  accept,   (* State.accept_submissions.                                   *)
  request,  (* What each request is at.                                    *)
  handler,  (* The attribute handler of APIResourceWrapper.                *)
  refresh,  (* Of each refresher: None or the site asked for and what it   *)
            (* has read.                                                   *)
  alone,    (* History: refreshers that have run alone since they began.   *)
  acked,    (* History: the last change of a site that was answered.       *)
  overlap,  (* History: sites whose cache was last cleared while one of    *)
            (* their GETs ran.                                             *)
  raced,    (* History: sites not loaded by a refresh that ran alone since *)
            (* two ran at once.                                            *)
  lost      (* History: sites not read by such a refresh since a client    *)
            (* was gone before its write was answered.                     *)

vars == <<db, mem, route, cached, accept, request, handler, refresh, alone, acked, overlap, raced, lost>>

Writes == CHOOSE n \in 0 .. MaxWrites : (\E s \in Sites : db[s].change = n)
                                        /\ \A s \in Sites : db[s].change <= n

(* The sites a change of s is about to the cache and to a refresh.         *)
Reach(s) == IF s = Root THEN Sites ELSE {s}

Gets(s) == {r \in Requests : request[r].do = "get" /\ request[r].site = s
                             /\ request[r].step \in {"queued", "read"}}

-----------------------------------------------------------------------------
(* render: the hostname leads to a site, and the site must be in memory.   *)

SiteOf(n) == IF route[n] # None /\ mem[route[n]] # None THEN route[n] ELSE None

Begin(r, do, s) ==
  /\ request[r] = Free /\ s # None
  /\ request' = [request EXCEPT ![r] = [do |-> do, site |-> s, step |-> "queued", got |-> None]]
  /\ handler' = r

(* A public resource that is not in the cache is asked of the database.    *)
Get(r, n) ==
  /\ SiteOf(n) # None
  /\ cached[SiteOf(n)] = None
  /\ Begin(r, "get", SiteOf(n))
  /\ UNCHANGED <<db, mem, route, cached, accept, refresh, alone, acked, overlap, raced, lost>>

Put(r, n) ==
  /\ Begin(r, "put", SiteOf(n))
  /\ UNCHANGED <<db, mem, route, cached, accept, refresh, alone, acked, overlap, raced, lost>>

Disconnect(r) ==
  /\ Disconnects
  /\ request[r].step \in {"queued", "read", "written"}
  /\ request' = [request EXCEPT ![r] =
                   IF @.step = "queued" /\ @.do = "put" THEN [@ EXCEPT !.step = "cancelled"]
                   ELSE Free]
  /\ lost' = IF request[r].step = "written" THEN lost \cup Reach(request[r].site) ELSE lost
  /\ UNCHANGED <<db, mem, route, cached, accept, handler, refresh, alone, acked, overlap, raced>>

-----------------------------------------------------------------------------
(* The database threads. *)

Reading(r) ==
  /\ request[r].do = "get" /\ request[r].step = "queued"
  /\ request' = [request EXCEPT ![r].step = "read",
                   ![r].got = [change |-> db[request[r].site].change, accept |-> accept]]
  /\ UNCHANGED <<db, mem, route, cached, accept, handler, refresh, alone, acked, overlap, raced, lost>>

(* What an administrator changes: contents, the hostname to a free one,    *)
(* and from the root site whether another is active.                       *)
Changed(by, s, d) ==
  \/ by = s /\ d = db[s]
  \/ by = s /\ \E n \in Names \ {db[x].name : x \in Sites} : d = [db[s] EXCEPT !.name = n]
  \/ by = Root /\ s # Root /\ d = [db[s] EXCEPT !.active = ~@]

Writing(r) ==
  /\ request[r].do = "put" /\ request[r].step \in {"queued", "cancelled"}
  /\ Writes < MaxWrites
  /\ \E s \in Sites, d \in Changes :
        /\ Changed(request[r].site, s, d)
        /\ db' = [db EXCEPT ![s] = [d EXCEPT !.change = Writes + 1]]
        /\ request' = [request EXCEPT ![r] =
             IF @.step = "cancelled" THEN Free
             ELSE [@ EXCEPT !.step = "written", !.got = [site |-> s, change |-> Writes + 1]]]
  /\ lost' = IF request[r].step = "cancelled" THEN lost \cup Reach(request[r].site) ELSE lost
  /\ UNCHANGED <<mem, route, cached, accept, handler, refresh, alone, acked, overlap, raced>>

-----------------------------------------------------------------------------
(* The callbacks.  Both end in the success callback of the API wrapper,    *)
(* which measures the time of the request of the attribute handler.        *)

Measured(r) == handler

GetReturns(r) ==
  /\ request[r].step = "read"
  /\ cached' = [cached EXCEPT ![request[r].site] = request[r].got]
  /\ request' = [request EXCEPT ![r] = Free]
  /\ UNCHANGED <<db, mem, route, accept, handler, refresh, alone, acked, overlap, raced, lost>>

Cleared(ss) ==
  /\ cached' = [s \in Sites |-> IF s \in ss THEN None ELSE cached[s]]
  /\ overlap' = (overlap \ ss) \cup {s \in ss : Gets(s) # {}}

(* A thread that runs with another is not alone from then on.              *)
Asked(s) ==
  LET busy == {x \in Refreshers : refresh[x] # None}
  IN \E f \in Refreshers \ busy :
       /\ refresh' = [refresh EXCEPT ![f] = [site |-> s, read |-> None]]
       /\ alone' = IF busy = {} THEN {f} ELSE {}

PutReturnsMutant(r) ==
  /\ request[r].step = "written"
  /\ Cleared({request[r].site})
  /\ acked' = [acked EXCEPT ![request[r].got.site] =
                 IF @ < request[r].got.change THEN request[r].got.change ELSE @]
  /\ Asked(request[r].site)
  /\ request' = [request EXCEPT ![r] = Free]
  /\ UNCHANGED <<db, mem, route, accept, handler, raced, lost>>

(* The cache of the site is cleared, of all of them by a write to the root *)
(* site, and the answer sent while a thread is to load the settings.       *)
PutReturns(r) ==
  /\ request[r].step = "written"
  /\ Cleared(Reach(request[r].site))
  /\ acked' = [acked EXCEPT ![request[r].got.site] =
                 IF @ < request[r].got.change THEN request[r].got.change ELSE @]
  /\ Asked(request[r].site)
  /\ request' = [request EXCEPT ![r] = Free]
  /\ UNCHANGED <<db, mem, route, accept, handler, raced, lost>>

(* The check of the disk stops or resumes submissions, on the reactor.     *)
DiskChecked ==
  /\ DiskFills
  /\ accept' = ~accept
  /\ cached' = [s \in Sites |-> None]
  /\ overlap' = {s \in Sites : Gets(s) # {}}
  /\ UNCHANGED <<db, mem, route, request, handler, refresh, alone, acked, raced, lost>>

-----------------------------------------------------------------------------
(* db_refresh_tenant_cache: the tables are read, and then memory changed.  *)

RefreshReads(f) ==
  /\ refresh[f] # None /\ refresh[f].read = None
  /\ refresh' = [refresh EXCEPT ![f].read = db]
  /\ lost' = IF f \in alone THEN lost \ Reach(refresh[f].site) ELSE lost
  /\ UNCHANGED <<db, mem, route, cached, accept, request, handler, alone, acked, overlap, raced>>

LoadedMutant(d, s) ==
  LET off == {x \in Sites : mem[x] # None /\ ~d[x].active}
      on  == {x \in Reach(s) : d[x].active}
  IN /\ mem' = [x \in Sites |-> IF x \in off THEN None
                                ELSE IF x \in on THEN [name |-> d[x].name, change |-> d[x].change]
                                ELSE mem[x]]
     /\ route' = [n \in Names |->
                    IF route[n] = None /\ \E x \in on : d[x].name = n
                    THEN CHOOSE x \in on : d[x].name = n
                    ELSE IF n \in {mem[x].name : x \in off} THEN None
                    ELSE route[n]]

(* Sites that are not active any more go first, with the name they were    *)
(* loaded with; then the sites asked for are loaded.  The former names of  *)
(* a site still lead to it.                                                *)
Loaded(d, s) ==
  LET off == {x \in Sites : mem[x] # None /\ ~d[x].active}
      on  == {x \in Reach(s) : d[x].active}
  IN /\ mem' = [x \in Sites |-> IF x \in off THEN None
                                ELSE IF x \in on THEN [name |-> d[x].name, change |-> d[x].change]
                                ELSE mem[x]]
     /\ route' = [n \in Names |->
                    IF \E x \in on : d[x].name = n THEN CHOOSE x \in on : d[x].name = n
                    ELSE IF n \in {mem[x].name : x \in off} THEN None
                    ELSE route[n]]

RefreshLoads(f) ==
  /\ refresh[f] # None /\ refresh[f].read # None
  /\ Loaded(refresh[f].read, refresh[f].site)
  /\ refresh' = [refresh EXCEPT ![f] = None]
  /\ alone' = alone \ {f}
  /\ raced' = IF f \in alone THEN raced \ Reach(refresh[f].site) ELSE Sites
  /\ UNCHANGED <<db, cached, accept, request, handler, acked, overlap, lost>>

-----------------------------------------------------------------------------
Init ==
  /\ db = [s \in Sites |-> [active |-> TRUE, name |-> HomeName(s), change |-> 0]]
  /\ mem = [s \in Sites |-> [name |-> HomeName(s), change |-> 0]]
  /\ route = [n \in Names |-> IF \E s \in Sites : HomeName(s) = n
                              THEN CHOOSE s \in Sites : HomeName(s) = n ELSE None]
  /\ cached = [s \in Sites |-> None]
  /\ accept = TRUE
  /\ request = [r \in Requests |-> Free]
  /\ handler = None
  /\ refresh = [f \in Refreshers |-> None]
  /\ acked = [s \in Sites |-> 0]
  /\ alone = {} /\ overlap = {} /\ raced = {} /\ lost = {}

Next ==
  \/ \E r \in Requests :
        \/ \E n \in Names : Get(r, n) \/ Put(r, n)
        \/ Reading(r) \/ Writing(r) \/ Disconnect(r)
        \/ GetReturns(r) \/ PutReturns(r)
  \/ DiskChecked
  \/ \E f \in Refreshers : RefreshReads(f) \/ RefreshLoads(f)

Spec == Init /\ [][Next]_vars

-----------------------------------------------------------------------------
TypeOK ==
  /\ db \in [Sites -> Changes]
  /\ \A s, x \in Sites : s # x => db[s].name # db[x].name
  /\ mem \in [Sites -> Settings \cup {None}]
  /\ route \in [Names -> Sites \cup {None}]
  /\ cached \in [Sites -> Answers \cup {None}]
  /\ accept \in BOOLEAN
  /\ request \in [Requests -> Calls]
  /\ handler \in Requests \cup {None}
  /\ refresh \in [Refreshers -> Loads \cup {None}]
  /\ acked \in [Sites -> 0 .. MaxWrites]
  /\ alone \subseteq Refreshers
  /\ overlap \cup raced \cup lost \subseteq Sites

(* Whoever asks for a public resource after a write was answered gets what *)
(* was written, or newer: unless the cache was cleared while another GET   *)
(* of the site ran, which may have read before the write and store after.  *)
CacheShowsWrites ==
  \A s \in Sites \ overlap : cached[s] # None => cached[s].change >= acked[s]

(* Once no refresh is under way, memory has every write that was answered: *)
(* a site that was switched off is not served, and one that is on is.      *)
(* Unless the last refreshes of the site ran at once.                      *)
MemoryShowsWrites ==
  (\A f \in Refreshers : refresh[f] = None) =>
    \A s \in Sites \ raced : mem[s] # None => mem[s].change >= acked[s]

SwitchedOffIsGone ==
  (\A f \in Refreshers : refresh[f] = None) =>
    \A s \in Sites : s \notin raced /\ db[s].change = acked[s] => (mem[s] # None <=> db[s].active)

(* What is answered and what is served is as new as the writes that were   *)
(* answered: the copies of the tables in memory follow the tables.         *)
CopiesFollow == TypeOK /\ CacheShowsWrites /\ MemoryShowsWrites /\ SwitchedOffIsGone

(* A site waits to be loaded when a thread or the answer of a write will   *)
(* ask for it, or when nobody has loaded it alone since two threads ran at *)
(* once or the answer of a write was lost.                                 *)
Awaits(s) ==
  \/ s \in raced \cup lost
  \/ \E f \in Refreshers : refresh[f] # None /\ s \in Reach(refresh[f].site)
  \/ \E r \in Requests : request[r].step = "written" /\ s \in Reach(request[r].site)

(* A site that does not wait is found by the name it has in the tables if  *)
(* it is on, and is not served if it is off, in whatever order sites took  *)
(* names of each other, dropped them and were switched.                    *)
NamesLeadHome ==
  \A s \in Sites : ~Awaits(s) =>
    IF db[s].active THEN SiteOf(db[s].name) = s ELSE mem[s] = None

(* The public answer of a site says whether it accepts submissions.        *)
AcceptIsCurrent ==
  \A s \in Sites : cached[s] # None /\ Gets(s) = {} => cached[s].accept = accept

(* The time that is checked at the end of a request is its own.            *)
TimeIsMeasured ==
  [][\A r \in Requests : GetReturns(r) \/ PutReturns(r) => Measured(r) = r]_vars
=============================================================================
