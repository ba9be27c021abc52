---------------------------- MODULE GatewayProofs ----------------------------
(***************************************************************************)
(* The cached answers and the settings in memory follow the tables:        *)
(* Gateway, for any sites, hostnames, requests and threads.                *)
(***************************************************************************)
EXTENDS Gateway, WellFoundedInduction, TLAPS

(* A write that waits for its callback is about a site of its reach, and   *)
(* is in the table; no write is answered that is not.                      *)
EditsKnown ==
  \A r \in Requests : request[r].step = "written" =>
    /\ request[r].got.site \in Reach(request[r].site)
    /\ request[r].got.change <= db[request[r].got.site].change

AckedIsWritten == \A s \in Sites : acked[s] <= db[s].change

(* A GET that was not overtaken by a write has read the last answered one. *)
ReadsAreNew ==
  \A r \in Requests : request[r].step = "read" /\ request[r].site \notin overlap =>
    request[r].got.change >= acked[request[r].site]

(* A thread that has run alone is the only one, and what it has read has   *)
(* every answered write, and is a row of the table or an older one.        *)
AloneIsOne ==
  \A f \in alone : refresh[f] # None /\ \A g \in Refreshers : g # f => refresh[g] = None

AloneHasRead ==
  \A f \in alone : refresh[f].read # None =>
    \A s \in Sites :
      /\ acked[s] <= refresh[f].read[s].change
      /\ refresh[f].read[s].change <= db[s].change
      /\ refresh[f].read[s].change = db[s].change => refresh[f].read[s] = db[s]

(* Memory follows the table for the sites that no thread is to load.       *)
Follows(s) ==
  /\ mem[s] # None => mem[s].change >= acked[s]
  /\ db[s].change = acked[s] => (mem[s] # None <=> db[s].active)

OthersFollow ==
  \A f \in alone : \A s \in Sites \ raced : s \notin Reach(refresh[f].site) => Follows(s)

NoneRuns == \A f \in Refreshers : refresh[f] = None

AllFollow == NoneRuns => \A s \in Sites \ raced : Follows(s)

(* The inductive invariant: the second and the third part need the first.  *)
Served   == TypeOK /\ AckedIsWritten /\ EditsKnown
Fresh    == Served /\ ReadsAreNew /\ CacheShowsWrites
InMemory == Served /\ AloneIsOne /\ AloneHasRead /\ OthersFollow /\ AllFollow

-----------------------------------------------------------------------------
(* What the records of requests are. *)

LEMMA CallFields ==
  ASSUME NEW c \in Calls
  PROVE  /\ c.do = "put" => c.site \in Sites
         /\ c.step \in {"queued", "read", "written", "cancelled"} => c.site \in Sites
         /\ c.step = "read" => c.do = "get" /\ c.got \in Answers
         /\ c.step = "written" => c.do = "put" /\ c.got \in Edits
BY DEF Calls, Free

LEMMA FreeIsCall == Free \in Calls /\ Free.step = "none"
BY DEF Calls, Free

LEMMA QueuedIsCall ==
  ASSUME NEW do \in {"get", "put"}, NEW s \in Sites
  PROVE  [do |-> do, site |-> s, step |-> "queued", got |-> None] \in Calls
BY DEF Calls

HasRead(c, a) == [[c EXCEPT !.step = "read"] EXCEPT !.got = a]

LEMMA ReadIsCall ==
  ASSUME NEW c \in Calls, c.do = "get", c.step = "queued", NEW a \in Answers
  PROVE  /\ HasRead(c, a) \in Calls
         /\ HasRead(c, a).site = c.site
         /\ HasRead(c, a).step = "read"
         /\ HasRead(c, a).got = a
<1>1. c \in [do : {"get", "put"}, site : Sites, step : {"queued"}, got : {None}]
  BY DEF Calls, Free
<1>2. HasRead(c, a) \in [do : {"get"}, site : Sites, step : {"read"}, got : Answers]
  BY <1>1 DEF HasRead
<1> QED
  BY <1>1, <1>2 DEF Calls, HasRead

Written(c, e) == [[c EXCEPT !.step = "written"] EXCEPT !.got = e]

LEMMA WrittenIsCall ==
  ASSUME NEW c \in Calls, c.do = "put", c.step = "queued", NEW e \in Edits
  PROVE  /\ Written(c, e) \in Calls
         /\ Written(c, e).site = c.site
         /\ Written(c, e).step = "written"
         /\ Written(c, e).got = e
<1>1. c \in [do : {"get", "put"}, site : Sites, step : {"queued"}, got : {None}]
  BY DEF Calls, Free
<1>2. Written(c, e) \in [do : {"put"}, site : Sites, step : {"written"}, got : Edits]
  BY <1>1 DEF Written
<1> QED
  BY <1>1, <1>2 DEF Calls, Written

LEMMA CancelledIsCall ==
  ASSUME NEW c \in Calls, c.do = "put", c.step = "queued"
  PROVE  [c EXCEPT !.step = "cancelled"] \in Calls
<1>1. c \in [do : {"get", "put"}, site : Sites, step : {"queued"}, got : {None}]
  BY DEF Calls, Free
<1>2. [c EXCEPT !.step = "cancelled"]
        \in [do : {"put"}, site : Sites, step : {"cancelled"}, got : {None}]
  BY <1>1
<1> QED
  BY <1>2 DEF Calls

(* Writes are numbered, so one of them is the last. *)
LEMMA WritesIsLast ==
  ASSUME TypeOK
  PROVE  /\ Writes \in 0 .. MaxWrites
         /\ \A s \in Sites : db[s].change <= Writes
<1> DEFINE T == {n \in Nat : n <= MaxWrites /\ \A s \in Sites : db[s].change <= n}
<1>1. \A s \in Sites : db[s].change \in 0 .. MaxWrites
  BY DEF TypeOK, Changes
<1>2. T \subseteq Nat /\ T # {}
  <2>1. MaxWrites \in T
    BY <1>1, GatewayAssumption
  <2> QED
    BY <2>1
<1>3. PICK n \in T : \A e \in T : <<e, n>> \notin OpToRel(<, Nat)
  <2> HIDE DEF T
  <2>1. IsWellFoundedOn(OpToRel(<, Nat), Nat)
    BY NatLessThanWellFounded
  <2> QED
    BY <1>2, <2>1, WFMin
<1>4. n \in T
  <2> HIDE DEF T
  <2> QED
    BY <1>3
<1>5. \A e \in T : ~(e < n)
  <2> HIDE DEF T
  <2> QED
    BY <1>2, <1>3, <1>4 DEF OpToRel
<1>6. n \in 0 .. MaxWrites /\ \A s \in Sites : db[s].change <= n
  BY <1>4, GatewayAssumption
<1>7. \E s \in Sites : db[s].change = n
  <2> SUFFICES ASSUME \A s \in Sites : db[s].change # n PROVE FALSE
    OBVIOUS
  <2>1. \A s \in Sites : db[s].change <= n - 1 /\ 0 <= n - 1
    BY <1>1, <1>6
  <2>2. Root \in Sites
    BY GatewayAssumption
  <2>3. n - 1 \in T /\ n - 1 < n
    BY <1>6, <2>1, <2>2, GatewayAssumption
  <2> QED
    BY <1>5, <2>3
<1>8. \E k \in 0 .. MaxWrites : (\E s \in Sites : db[s].change = k) /\ \A s \in Sites : db[s].change <= k
  BY <1>6, <1>7
<1> HIDE DEF T
<1> QED
  BY <1>8 DEF Writes

-----------------------------------------------------------------------------
(* Types. *)

LEMMA TypeInit == Init => TypeOK
<1> SUFFICES ASSUME Init PROVE TypeOK
  OBVIOUS
<1>1. 0 \in 0 .. MaxWrites
  BY GatewayAssumption
<1>2. db \in [Sites -> Changes]
  BY <1>1, GatewayAssumption DEF Init, Changes
<1>3. \A s, x \in Sites : s # x => db[s].name # db[x].name
  BY GatewayAssumption DEF Init
<1>4. mem \in [Sites -> Settings \cup {None}]
  BY <1>1, GatewayAssumption DEF Init, Settings
<1>5. route \in [Names -> Sites \cup {None}]
  BY DEF Init
<1>6. cached \in [Sites -> Answers \cup {None}] /\ refresh \in [Refreshers -> Loads \cup {None}]
  BY DEF Init
<1>7. acked \in [Sites -> 0 .. MaxWrites]
  BY <1>1 DEF Init
<1>8. request \in [Requests -> Calls]
  BY FreeIsCall DEF Init
<1>9. accept \in BOOLEAN /\ handler \in Requests \cup {None} /\ alone \subseteq Refreshers
        /\ overlap \cup raced \cup lost \subseteq Sites
  BY DEF Init
<1> QED
  BY <1>2, <1>3, <1>4, <1>5, <1>6, <1>7, <1>8, <1>9 DEF TypeOK

LEMMA TypeBegin ==
  ASSUME TypeOK, NEW r \in Requests, NEW n \in Names, Get(r, n) \/ Put(r, n)
  PROVE  TypeOK'
<1>1. PICK do \in {"get", "put"} : Begin(r, do, SiteOf(n))
  BY DEF Get, Put
<1>2. SiteOf(n) \in Sites
  BY <1>1 DEF SiteOf, Begin, TypeOK
<1>3. request' \in [Requests -> Calls] /\ handler' \in Requests
  BY <1>1, <1>2, QueuedIsCall DEF Begin, TypeOK
<1>4. UNCHANGED <<db, mem, route, cached, accept, refresh, alone, acked, overlap, raced, lost>>
  BY DEF Get, Put
<1> QED
  BY <1>3, <1>4 DEF TypeOK

LEMMA TypeDisconnect ==
  ASSUME TypeOK, NEW r \in Requests, Disconnect(r)
  PROVE  TypeOK'
<1>1. request[r] \in Calls
  BY DEF TypeOK
<1>2. \/ request' = [request EXCEPT ![r] = [request[r] EXCEPT !.step = "cancelled"]]
           /\ request[r].step = "queued" /\ request[r].do = "put"
      \/ request' = [request EXCEPT ![r] = Free]
  BY DEF Disconnect
<1>3. request' \in [Requests -> Calls]
  BY <1>1, <1>2, FreeIsCall, CancelledIsCall DEF TypeOK
<1>4. lost' \subseteq Sites
  <2>1. request[r].step = "written" => request[r].site \in Sites
    BY <1>1, CallFields
  <2> QED
    BY <2>1 DEF Disconnect, Reach, TypeOK
<1> QED
  BY <1>3, <1>4 DEF Disconnect, TypeOK

LEMMA ReadingReads ==
  ASSUME TypeOK, NEW r \in Requests, Reading(r)
  PROVE  /\ request[r].do = "get" /\ request[r].step = "queued" /\ request[r].site \in Sites
         /\ \E a \in Answers : /\ a.change = db[request[r].site].change
                               /\ request' = [request EXCEPT ![r] = HasRead(request[r], a)]
<1>1. request[r] \in Calls /\ request[r].do = "get" /\ request[r].step = "queued"
  BY DEF TypeOK, Reading
<1>2. request[r].site \in Sites
  BY <1>1, CallFields
<1> DEFINE a == [change |-> db[request[r].site].change, accept |-> accept]
<1>3. a \in Answers /\ a.change = db[request[r].site].change
  <2>1. db[request[r].site].change \in 0 .. MaxWrites
    BY <1>2 DEF TypeOK, Changes
  <2> QED
    BY <2>1 DEF Answers, TypeOK
<1>4. request' = [request EXCEPT ![r] = HasRead(request[r], a)]
  BY DEF Reading, TypeOK, HasRead
<1> HIDE DEF a
<1> QED
  BY <1>1, <1>2, <1>3, <1>4

LEMMA TypeReading ==
  ASSUME TypeOK, NEW r \in Requests, Reading(r)
  PROVE  TypeOK'
<1>1. request[r] \in Calls
  BY DEF TypeOK
<1>2. \E c \in Calls : request' = [request EXCEPT ![r] = c]
  BY <1>1, ReadingReads, ReadIsCall
<1>3. request' \in [Requests -> Calls]
  BY <1>2 DEF TypeOK
<1> QED
  BY <1>3 DEF Reading, TypeOK

(* A write is numbered after those before, and keeps hostnames apart. *)
LEMMA WritingWrites ==
  ASSUME TypeOK, NEW r \in Requests, Writing(r)
  PROVE  \E s \in Sites :
           /\ db' \in [Sites -> Changes]
           /\ \A x, y \in Sites : x # y => db'[x].name # db'[y].name
           /\ \A x \in Sites : x # s => db'[x] = db[x]
           /\ \A x \in Sites : db[x].change < db'[s].change
           /\ s \in Reach(request[r].site)
           /\ \/ request' = [request EXCEPT ![r] = Free]
              \/ \E e \in Edits : /\ e.site = s /\ e.change = db'[s].change
                                  /\ request[r].do = "put" /\ request[r].step = "queued"
                                  /\ request' = [request EXCEPT ![r] = Written(request[r], e)]
<1> DEFINE k == Writes + 1
<1>1. k \in 0 .. MaxWrites /\ \A x \in Sites : db[x].change < k
  <2>1. \A x \in Sites : db[x].change \in 0 .. MaxWrites
    BY DEF TypeOK, Changes
  <2>2. Writes < MaxWrites
    BY DEF Writing
  <2> QED
    BY <2>1, <2>2, WritesIsLast, GatewayAssumption
<1>2. PICK s \in Sites, d \in Changes :
        /\ Changed(request[r].site, s, d)
        /\ db' = [db EXCEPT ![s] = [d EXCEPT !.change = k]]
        /\ request' = [request EXCEPT ![r] =
             IF request[r].step = "cancelled" THEN Free
             ELSE [[request[r] EXCEPT !.step = "written"] EXCEPT
                     !.got = [site |-> s, change |-> k]]]
  BY DEF Writing, TypeOK
<1> DEFINE w == [d EXCEPT !.change = k]
<1>3. w \in Changes /\ w.change = k /\ w.name = d.name
  BY <1>1 DEF Changes
<1>4. db' = [db EXCEPT ![s] = w]
  BY <1>2
<1>5. \A x \in Sites : x # s => d.name # db[x].name
  BY <1>2 DEF Changed, TypeOK, Changes
<1> DEFINE e == [site |-> s, change |-> k]
<1>6. e \in Edits /\ e.site = s /\ e.change = k
  BY <1>1 DEF Edits
<1>7. s \in Reach(request[r].site)
  BY <1>2 DEF Changed, Reach
<1>8. \/ request' = [request EXCEPT ![r] = Free]
      \/ /\ request[r].do = "put" /\ request[r].step = "queued"
         /\ request' = [request EXCEPT ![r] = Written(request[r], e)]
  BY <1>2 DEF Writing, Written
<1> HIDE DEF k, w, e
<1>9. /\ db' \in [Sites -> Changes] /\ db'[s] = w
      /\ \A x \in Sites : x # s => db'[x] = db[x]
  BY <1>3, <1>4 DEF TypeOK
<1>10. \A x, y \in Sites : x # y => db'[x].name # db'[y].name
  <2> SUFFICES ASSUME NEW x \in Sites, NEW y \in Sites, x # y PROVE db'[x].name # db'[y].name
    OBVIOUS
  <2>1. db[x].name # db[y].name
    BY DEF TypeOK
  <2> QED
    BY <1>3, <1>5, <1>9, <2>1
<1>11. \A x \in Sites : db[x].change < db'[s].change
  BY <1>1, <1>3, <1>9
<1> WITNESS s \in Sites
<1> QED
  BY <1>3, <1>6, <1>7, <1>8, <1>9, <1>10, <1>11

LEMMA TypeWriting ==
  ASSUME TypeOK, NEW r \in Requests, Writing(r)
  PROVE  TypeOK'
<1>1. request' \in [Requests -> Calls]
  <2>1. request[r] \in Calls
    BY DEF TypeOK
  <2>2. \/ request' = [request EXCEPT ![r] = Free]
        \/ \E c \in Calls : request' = [request EXCEPT ![r] = c]
    BY <2>1, WritingWrites, WrittenIsCall
  <2> QED
    BY <2>2, FreeIsCall DEF TypeOK
<1>2. db' \in [Sites -> Changes] /\ \A x, y \in Sites : x # y => db'[x].name # db'[y].name
  BY WritingWrites
<1>3. lost' \subseteq Sites
  <2>1. request[r].site \in Sites
    BY CallFields DEF Writing, TypeOK
  <2> QED
    BY <2>1 DEF Writing, Reach, TypeOK
<1> QED
  BY <1>1, <1>2, <1>3 DEF Writing, TypeOK

LEMMA TypeReturns ==
  ASSUME TypeOK, NEW r \in Requests, GetReturns(r) \/ PutReturns(r)
  PROVE  TypeOK'
<1>1. request[r] \in Calls
  BY DEF TypeOK
<1>2. request' \in [Requests -> Calls]
  BY FreeIsCall DEF GetReturns, PutReturns, TypeOK
<1>3. CASE GetReturns(r)
  <2>1. cached' \in [Sites -> Answers \cup {None}]
    BY <1>1, <1>3, CallFields DEF GetReturns, TypeOK
  <2> QED
    BY <1>2, <1>3, <2>1 DEF GetReturns, TypeOK
<1>4. CASE PutReturns(r)
  <2>1. request[r].site \in Sites /\ request[r].got \in Edits
    BY <1>1, <1>4, CallFields DEF PutReturns
  <2>2. cached' \in [Sites -> Answers \cup {None}] /\ overlap' \subseteq Sites
    BY <1>4, <2>1, GatewayAssumption DEF PutReturns, Cleared, Reach, TypeOK
  <2>3. acked' \in [Sites -> 0 .. MaxWrites]
    BY <1>4, <2>1 DEF PutReturns, Edits, TypeOK
  <2>4. [site |-> request[r].site, read |-> None] \in Loads
    BY <2>1 DEF Loads
  <2>5. refresh' \in [Refreshers -> Loads \cup {None}] /\ alone' \subseteq Refreshers
    BY <1>4, <2>4 DEF PutReturns, Asked, TypeOK
  <2> QED
    BY <1>2, <1>4, <2>2, <2>3, <2>5 DEF PutReturns, TypeOK
<1> QED
  BY <1>3, <1>4

LEMMA TypeRefresh ==
  ASSUME TypeOK, NEW f \in Refreshers, RefreshReads(f) \/ RefreshLoads(f)
  PROVE  TypeOK'
<1>1. refresh[f] \in Loads
  BY DEF RefreshReads, RefreshLoads, TypeOK
<1>2. CASE RefreshReads(f)
  <2>1. [refresh[f] EXCEPT !.read = db] \in Loads
    BY <1>1 DEF Loads, TypeOK
  <2>2. refresh' \in [Refreshers -> Loads \cup {None}]
    BY <1>2, <2>1 DEF RefreshReads, TypeOK
  <2> QED
    BY <1>2, <2>2 DEF RefreshReads, TypeOK
<1>3. CASE RefreshLoads(f)
  <2> DEFINE d == refresh[f].read
  <2>1. d \in [Sites -> Changes] /\ refresh[f].site \in Sites
    BY <1>1, <1>3 DEF RefreshLoads, Loads
  <2>2. \A x \in Sites : [name |-> d[x].name, change |-> d[x].change] \in Settings
    BY <2>1 DEF Changes, Settings
  <2>3. mem' \in [Sites -> Settings \cup {None}]
    BY <1>3, <2>2 DEF RefreshLoads, Loaded, TypeOK
  <2>4. route' \in [Names -> Sites \cup {None}]
    <3> DEFINE on == {x \in Reach(refresh[f].site) : d[x].active}
    <3>1. on \subseteq Sites
      BY <2>1 DEF Reach
    <3>2. \A n \in Names :
             \/ /\ \E x \in on : d[x].name = n
                /\ route'[n] = CHOOSE x \in on : d[x].name = n
             \/ route'[n] \in {None, route[n]}
      BY <1>3 DEF RefreshLoads, Loaded
    <3> HIDE DEF on, d
    <3>3. \A n \in Names : route'[n] \in Sites \cup {None}
      BY <3>1, <3>2 DEF TypeOK
    <3>4. route' = [n \in Names |-> route'[n]]
      BY <1>3 DEF RefreshLoads, Loaded
    <3> QED
      BY <3>3, <3>4
  <2>5. refresh' \in [Refreshers -> Loads \cup {None}] /\ alone' \subseteq Refreshers
          /\ raced' \subseteq Sites
    BY <1>3 DEF RefreshLoads, TypeOK
  <2> QED
    BY <1>3, <2>3, <2>4, <2>5 DEF RefreshLoads, TypeOK
<1> QED
  BY <1>2, <1>3

LEMMA TypeStep == TypeOK /\ [Next]_vars => TypeOK'
<1> SUFFICES ASSUME TypeOK, [Next]_vars PROVE TypeOK'
  OBVIOUS
<1>1. CASE DiskChecked
  BY <1>1 DEF DiskChecked, TypeOK
<1>2. CASE UNCHANGED vars
  BY <1>2 DEF vars, TypeOK
<1> QED
  BY <1>1, <1>2, TypeBegin, TypeDisconnect, TypeReading, TypeWriting, TypeReturns, TypeRefresh DEF Next

-----------------------------------------------------------------------------
(* Requests and the cache. *)

(* Only Reading and Writing make a request wait with what it has.          *)
LEMMA OthersWait ==
  ASSUME TypeOK, NEW r \in Requests,
         \/ \E n \in Names : Get(r, n) \/ Put(r, n)
         \/ Disconnect(r) \/ GetReturns(r) \/ PutReturns(r)
  PROVE  \A q \in Requests :
           request'[q] = request[q] \/ request'[q].step \notin {"read", "written"}
<1>1. CASE \E n \in Names : Get(r, n) \/ Put(r, n)
  BY <1>1 DEF Get, Put, Begin, TypeOK
<1>2. CASE Disconnect(r)
  <2>1. \/ request' = [request EXCEPT ![r] = [request[r] EXCEPT !.step = "cancelled"]]
           /\ request[r].step = "queued" /\ request[r].do = "put"
        \/ request' = [request EXCEPT ![r] = Free]
    BY <1>2 DEF Disconnect
  <2>2. request[r] \in Calls
    BY DEF TypeOK
  <2>3. request[r].do = "put" => [request[r] EXCEPT !.step = "cancelled"].step = "cancelled"
    BY <2>2 DEF Calls, Free
  <2> QED
    BY <2>1, <2>3, FreeIsCall DEF TypeOK
<1>3. CASE GetReturns(r) \/ PutReturns(r)
  BY <1>3, FreeIsCall DEF GetReturns, PutReturns, TypeOK
<1> QED
  BY <1>1, <1>2, <1>3

LEMMA ServedStep == Served /\ [Next]_vars => Served'
<1> SUFFICES ASSUME Served, [Next]_vars PROVE Served'
  OBVIOUS
<1> USE DEF Served
<1>1. TypeOK /\ TypeOK'
  BY TypeStep
<1>2. \A s \in Sites : db[s].change \in Nat /\ db'[s].change \in Nat /\ acked[s] \in Nat
  BY <1>1 DEF TypeOK, Changes
<1>3. \A q \in Requests : request[q].step = "written" => request[q].got.site \in Sites
                                                      /\ request[q].got.change \in Nat
  BY <1>1, CallFields DEF TypeOK, Edits
<1>4. ASSUME UNCHANGED <<request, db, acked>> PROVE Served'
  BY <1>1, <1>4 DEF EditsKnown, AckedIsWritten, Reach
<1>5. ASSUME NEW r \in Requests,
             (\E n \in Names : Get(r, n) \/ Put(r, n)) \/ Disconnect(r) \/ GetReturns(r) \/ PutReturns(r)
      PROVE  Served'
  <2>1. UNCHANGED db
    BY <1>5 DEF Get, Put, Disconnect, GetReturns, PutReturns
  <2>2. EditsKnown'
    BY <1>1, <1>5, <2>1, OthersWait DEF EditsKnown, Reach
  <2>3. CASE UNCHANGED acked
    BY <1>1, <2>1, <2>2, <2>3 DEF AckedIsWritten
  <2>4. CASE PutReturns(r)
    <3> DEFINE x == request[r].got.site  k == request[r].got.change
    <3>1. x \in Sites /\ k <= db[x].change
      BY <1>3, <2>4 DEF PutReturns, EditsKnown
    <3>2. acked' = [acked EXCEPT ![x] = IF acked[x] < k THEN k ELSE acked[x]]
      BY <2>4 DEF PutReturns
    <3> HIDE DEF x, k
    <3>3. \A s \in Sites : acked'[s] <= db[s].change
      BY <1>1, <3>1, <3>2 DEF TypeOK, AckedIsWritten
    <3>4. AckedIsWritten'
      BY <2>1, <3>3 DEF AckedIsWritten
    <3> QED
      BY <1>1, <2>2, <3>4
  <2> QED
    BY <1>5, <2>3, <2>4 DEF Get, Put, Disconnect, GetReturns
<1>6. ASSUME NEW r \in Requests, Reading(r) PROVE Served'
  <2>1. UNCHANGED <<db, acked>>
    BY <1>6 DEF Reading
  <2>2. request[r] \in Calls
    BY <1>1 DEF TypeOK
  <2>3. \A q \in Requests : request'[q] = request[q] \/ request'[q].step = "read"
    BY <1>1, <1>6, <2>2, ReadingReads, ReadIsCall DEF TypeOK
  <2> QED
    BY <1>1, <2>1, <2>3 DEF EditsKnown, AckedIsWritten, Reach
<1>7. ASSUME NEW r \in Requests, Writing(r) PROVE Served'
  <2>1. UNCHANGED acked
    BY <1>7 DEF Writing
  <2>2. \A x \in Sites : db[x].change <= db'[x].change
    BY <1>1, <1>2, <1>7, WritingWrites
  <2>3. request[r] \in Calls
    BY <1>1 DEF TypeOK
  <2>4. \A q \in Requests : \/ request'[q] = request[q]
                            \/ request'[q] = Free
                            \/ /\ request'[q].got.site \in Reach(request'[q].site)
                               /\ request'[q].got.site \in Sites
                               /\ request'[q].got.change = db'[request'[q].got.site].change
    <3>1. PICK s \in Sites :
             /\ s \in Reach(request[r].site)
             /\ \/ request' = [request EXCEPT ![r] = Free]
                \/ \E e \in Edits : /\ e.site = s /\ e.change = db'[s].change
                                    /\ request[r].do = "put" /\ request[r].step = "queued"
                                    /\ request' = [request EXCEPT ![r] = Written(request[r], e)]
      BY <1>1, <1>7, WritingWrites
    <3>2. CASE request' = [request EXCEPT ![r] = Free]
      BY <1>1, <3>2 DEF TypeOK
    <3>3. CASE \E e \in Edits : /\ e.site = s /\ e.change = db'[s].change
                                /\ request[r].do = "put" /\ request[r].step = "queued"
                                /\ request' = [request EXCEPT ![r] = Written(request[r], e)]
      <4>1. PICK e \in Edits : /\ e.site = s /\ e.change = db'[s].change
                               /\ request[r].do = "put" /\ request[r].step = "queued"
                               /\ request' = [request EXCEPT ![r] = Written(request[r], e)]
        BY <3>3
      <4>2. request'[r].site = request[r].site /\ request'[r].got = e
        BY <1>1, <2>3, <4>1, WrittenIsCall DEF TypeOK
      <4>3. \A q \in Requests : q # r => request'[q] = request[q]
        BY <1>1, <4>1 DEF TypeOK
      <4> QED
        BY <3>1, <4>1, <4>2, <4>3
    <3> QED
      BY <3>1, <3>2, <3>3
  <2>5. EditsKnown'
    <3> SUFFICES ASSUME NEW q \in Requests, request'[q].step = "written"
                 PROVE  /\ request'[q].got.site \in Reach(request'[q].site)
                        /\ request'[q].got.change <= db'[request'[q].got.site].change
      BY DEF EditsKnown, Reach
    <3>1. CASE request'[q] = request[q]
      BY <1>2, <1>3, <2>2, <3>1 DEF EditsKnown
    <3>2. CASE request'[q] # request[q]
      BY <1>2, <2>4, <3>2, FreeIsCall
    <3> QED
      BY <3>1, <3>2
  <2>6. AckedIsWritten'
    BY <1>2, <2>1, <2>2 DEF AckedIsWritten
  <2> QED
    BY <1>1, <2>5, <2>6
<1> QED
  BY <1>4, <1>5, <1>6, <1>7 DEF Next, DiskChecked, RefreshReads, RefreshLoads, vars

(* What a write in the table changes of the answered ones. *)
LEMMA PutIsAnswered ==
  ASSUME Served, NEW r \in Requests, PutReturns(r)
  PROVE  /\ request[r].site \in Sites
         /\ \A s \in Sites \ Reach(request[r].site) : acked'[s] = acked[s]
<1>1. request[r] \in Calls /\ request[r].step = "written"
  BY DEF Served, TypeOK, PutReturns
<1>2. request[r].site \in Sites
  BY <1>1, CallFields
<1>3. request[r].got.site \in Reach(request[r].site)
  BY <1>1 DEF Served, EditsKnown
<1>4. \A s \in Sites : s # request[r].got.site => acked'[s] = acked[s]
  BY DEF PutReturns, Served, TypeOK
<1> QED
  BY <1>2, <1>3, <1>4

(* The sites of GETs that have read. *)
LEMMA ReadIsGet ==
  ASSUME TypeOK, NEW q \in Requests, request[q].step = "read"
  PROVE  request[q].site \in Sites /\ q \in Gets(request[q].site)
<1>1. request[q] \in Calls
  BY DEF TypeOK
<1> QED
  BY <1>1, CallFields DEF Gets

LEMMA FreshStep == Fresh /\ [Next]_vars => Fresh'
<1> SUFFICES ASSUME Fresh, [Next]_vars PROVE Fresh'
  OBVIOUS
<1> USE DEF Fresh
<1>1. Served /\ Served' /\ TypeOK /\ TypeOK'
  BY ServedStep DEF Served
<1>2. ASSUME NEW r \in Requests, (\E n \in Names : Get(r, n) \/ Put(r, n)) \/ Disconnect(r)
      PROVE  Fresh'
  <2>1. UNCHANGED <<cached, acked, overlap>>
    BY <1>2 DEF Get, Put, Disconnect
  <2>2. ReadsAreNew'
    BY <1>1, <1>2, <2>1, OthersWait DEF ReadsAreNew
  <2> QED
    BY <1>1, <2>1, <2>2 DEF CacheShowsWrites
<1>3. ASSUME NEW r \in Requests, GetReturns(r) PROVE Fresh'
  <2>1. UNCHANGED <<acked, overlap>>
    BY <1>3 DEF GetReturns
  <2>2. ReadsAreNew'
    BY <1>1, <1>3, <2>1, OthersWait DEF ReadsAreNew
  <2>3. request[r].site \notin overlap => request[r].got.change >= acked[request[r].site]
    BY <1>3 DEF GetReturns, ReadsAreNew
  <2>4. \A s \in Sites : cached'[s] = cached[s] \/ (s = request[r].site /\ cached'[s] = request[r].got)
    <3>1. cached' = [cached EXCEPT ![request[r].site] = request[r].got] /\ DOMAIN cached = Sites
      BY <1>1, <1>3 DEF GetReturns, TypeOK
    <3> QED
      BY <3>1
  <2>5. CacheShowsWrites'
    BY <2>1, <2>3, <2>4 DEF CacheShowsWrites
  <2> QED
    BY <1>1, <2>2, <2>5
<1>4. ASSUME NEW r \in Requests, Reading(r) PROVE Fresh'
  <2>1. UNCHANGED <<cached, acked, overlap>>
    BY <1>4 DEF Reading
  <2>2. request[r] \in Calls
    BY <1>1 DEF TypeOK
  <2>3. request[r].site \in Sites /\ request'[r].site = request[r].site
          /\ request'[r].got.change = db[request[r].site].change
    BY <1>1, <1>4, <2>2, ReadingReads, ReadIsCall DEF TypeOK
  <2>4. \A q \in Requests : q # r => request'[q] = request[q]
    BY <1>1, <1>4, ReadingReads DEF TypeOK
  <2>5. acked[request[r].site] <= db[request[r].site].change
          /\ acked[request[r].site] \in Nat /\ db[request[r].site].change \in Nat
    BY <1>1, <2>3 DEF Served, AckedIsWritten, TypeOK, Changes
  <2>6. ReadsAreNew'
    BY <2>1, <2>3, <2>4, <2>5 DEF ReadsAreNew
  <2> QED
    BY <1>1, <2>1, <2>6 DEF CacheShowsWrites
<1>5. ASSUME NEW r \in Requests, Writing(r) PROVE Fresh'
  <2>1. UNCHANGED <<cached, acked, overlap>>
    BY <1>5 DEF Writing
  <2>2. request[r] \in Calls
    BY <1>1 DEF TypeOK
  <2>3. \A q \in Requests : request'[q] = request[q] \/ request'[q].step # "read"
    BY <1>1, <1>5, <2>2, WritingWrites, WrittenIsCall, FreeIsCall DEF TypeOK
  <2>4. ReadsAreNew'
    BY <2>1, <2>3 DEF ReadsAreNew
  <2> QED
    BY <1>1, <2>1, <2>4 DEF CacheShowsWrites
<1>6. ASSUME NEW r \in Requests, PutReturns(r) PROVE Fresh'
  <2> DEFINE ss == Reach(request[r].site)
  <2>1. \A s \in Sites \ ss : acked'[s] = acked[s] /\ cached'[s] = cached[s]
                              /\ (s \in overlap' <=> s \in overlap)
    BY <1>1, <1>6, PutIsAnswered DEF PutReturns, Cleared
  <2>2. \A s \in Sites : s \in ss => cached'[s] = None /\ (s \notin overlap' => Gets(s) = {})
    BY <1>6 DEF PutReturns, Cleared
  <2>3. \A q \in Requests : request'[q].step = "read" => request'[q] = request[q]
    BY <1>1, <1>6, OthersWait
  <2> HIDE DEF ss
  <2>4. ReadsAreNew'
    <3> SUFFICES ASSUME NEW q \in Requests, request'[q].step = "read", request'[q].site \notin overlap'
                 PROVE  request'[q].got.change >= acked'[request'[q].site]
      BY DEF ReadsAreNew
    <3>1. request'[q] = request[q] /\ request[q].step = "read" /\ request[q].site \notin overlap'
      BY <2>3
    <3>2. request[q].site \in Sites /\ Gets(request[q].site) # {}
      BY <1>1, <3>1, ReadIsGet
    <3>3. request[q].site \notin ss
      BY <2>2, <3>1, <3>2
    <3> QED
      BY <2>1, <3>1, <3>2, <3>3 DEF ReadsAreNew
  <2>5. CacheShowsWrites'
    BY <2>1, <2>2 DEF CacheShowsWrites
  <2> QED
    BY <1>1, <2>4, <2>5
<1>7. CASE DiskChecked
  <2>1. UNCHANGED <<request, acked>> /\ (\A s \in Sites : cached'[s] = None)
          /\ overlap' = {s \in Sites : Gets(s) # {}}
    BY <1>7 DEF DiskChecked
  <2>2. \A q \in Requests : request[q].step = "read" => request[q].site \in overlap'
    BY <1>1, <2>1, ReadIsGet
  <2> QED
    BY <1>1, <2>1, <2>2 DEF ReadsAreNew, CacheShowsWrites
<1>8. ASSUME UNCHANGED <<request, cached, acked, overlap>> PROVE Fresh'
  BY <1>1, <1>8 DEF ReadsAreNew, CacheShowsWrites
<1> QED
  BY <1>2, <1>3, <1>4, <1>5, <1>6, <1>7, <1>8 DEF Next, RefreshReads, RefreshLoads, vars

-----------------------------------------------------------------------------
(* The threads and the settings in memory. *)

LEMMA NumbersAreNat ==
  ASSUME TypeOK
  PROVE  \A s \in Sites : /\ db[s].change \in Nat /\ acked[s] \in Nat
                          /\ mem[s] # None => mem[s].change \in Nat
<1>1. \A s \in Sites : db[s] \in Changes /\ mem[s] \in Settings \cup {None} /\ acked[s] \in Nat
  BY DEF TypeOK
<1> QED
  BY <1>1 DEF Changes, Settings

LEMMA LoadsAreRead ==
  ASSUME TypeOK, NEW f \in Refreshers, refresh[f] # None
  PROVE  /\ refresh[f] \in Loads /\ refresh[f].site \in Sites
         /\ refresh[f].read # None => \A s \in Sites : refresh[f].read[s].change \in Nat
<1>1. refresh[f] \in Loads
  BY DEF TypeOK
<1>2. refresh[f].site \in Sites /\ refresh[f].read \in [Sites -> Changes] \cup {None}
  BY <1>1 DEF Loads
<1> QED
  BY <1>1, <1>2 DEF Changes

LEMMA InMemoryWriting ==
  ASSUME InMemory, NEW r \in Requests, Writing(r), Served'
  PROVE  InMemory'
<1> USE DEF InMemory
<1>1. UNCHANGED <<mem, refresh, alone, acked, raced>>
  BY DEF Writing
<1>2. TypeOK /\ TypeOK' /\ AckedIsWritten
  BY DEF Served
<1>3. PICK s \in Sites : /\ \A x \in Sites : x # s => db'[x] = db[x]
                         /\ \A x \in Sites : db[x].change < db'[s].change
  BY <1>2, WritingWrites
<1>4. \A x \in Sites : /\ db[x].change \in Nat /\ db'[x].change \in Nat /\ acked[x] \in Nat
                       /\ acked[x] <= db[x].change
  BY <1>1, <1>2, NumbersAreNat DEF AckedIsWritten, TypeOK, Changes
<1>5. \A x \in Sites : Follows(x) => Follows(x)'
  <2> SUFFICES ASSUME NEW x \in Sites, Follows(x) PROVE Follows(x)'
    OBVIOUS
  <2>1. CASE x # s
    BY <1>1, <1>3, <2>1 DEF Follows
  <2>2. CASE x = s
    BY <1>1, <1>3, <1>4, <2>2 DEF Follows
  <2> QED
    BY <2>1, <2>2
<1>6. AloneIsOne' /\ OthersFollow' /\ AllFollow'
  BY <1>1, <1>5 DEF AloneIsOne, OthersFollow, AllFollow, NoneRuns, Reach
<1>7. AloneHasRead'
  <2> SUFFICES ASSUME NEW f \in alone, refresh[f].read # None, NEW x \in Sites
               PROVE  /\ acked[x] <= refresh[f].read[x].change
                      /\ refresh[f].read[x].change <= db'[x].change
                      /\ refresh[f].read[x].change = db'[x].change => refresh[f].read[x] = db'[x]
    BY <1>1 DEF AloneHasRead
  <2>1. f \in Refreshers /\ refresh[f] # None
    BY <1>2 DEF AloneIsOne, TypeOK
  <2>2. refresh[f].read[x].change \in Nat
    BY <1>2, <2>1, LoadsAreRead
  <2>3. /\ acked[x] <= refresh[f].read[x].change
        /\ refresh[f].read[x].change <= db[x].change
        /\ refresh[f].read[x].change = db[x].change => refresh[f].read[x] = db[x]
    BY DEF AloneHasRead
  <2> QED
    BY <1>3, <1>4, <2>2, <2>3
<1> QED
  BY <1>6, <1>7

LEMMA InMemoryPut ==
  ASSUME InMemory, NEW r \in Requests, PutReturns(r), Served'
  PROVE  InMemory'
<1> USE DEF InMemory
<1>1. UNCHANGED <<db, mem, raced>> /\ Asked(request[r].site) /\ TypeOK /\ TypeOK'
  BY DEF PutReturns, Served
<1> DEFINE busy == {x \in Refreshers : refresh[x] # None}
           load == [site |-> request[r].site, read |-> None]
<1>2. PICK f \in Refreshers \ busy :
        /\ refresh' = [refresh EXCEPT ![f] = load]
        /\ alone' = IF busy = {} THEN {f} ELSE {}
  BY <1>1 DEF Asked
<1>3. load \in Loads /\ load # None /\ load.site = request[r].site /\ load.read = None
  BY PutIsAnswered, GatewayAssumption DEF Loads
<1> HIDE DEF load
<1>4. refresh'[f] = load /\ \A g \in Refreshers : g # f => refresh'[g] = refresh[g]
  BY <1>1, <1>2 DEF TypeOK
<1>5. AllFollow'
  BY <1>3, <1>4 DEF AllFollow, NoneRuns
<1>6. CASE busy = {}
  <2>1. alone' = {f} /\ NoneRuns
    BY <1>2, <1>6 DEF NoneRuns
  <2>2. AloneIsOne'
    BY <1>3, <1>4, <2>1 DEF AloneIsOne, NoneRuns
  <2>3. AloneHasRead'
    BY <1>3, <1>4, <2>1 DEF AloneHasRead
  <2>4. \A s \in Sites \ raced : s \notin Reach(request[r].site) => Follows(s)'
    BY <1>1, <2>1, PutIsAnswered DEF AllFollow, Follows
  <2>5. OthersFollow'
    BY <1>1, <1>3, <1>4, <2>1, <2>4 DEF OthersFollow, Reach
  <2> QED
    BY <1>5, <2>2, <2>3, <2>5
<1>7. CASE busy # {}
  <2>1. alone' = {}
    BY <1>2, <1>7
  <2> QED
    BY <1>5, <2>1 DEF AloneIsOne, AloneHasRead, OthersFollow
<1> QED
  BY <1>6, <1>7

LEMMA InMemoryReads ==
  ASSUME InMemory, NEW f \in Refreshers, RefreshReads(f), Served'
  PROVE  InMemory'
<1> USE DEF InMemory
<1>0. TypeOK
  BY DEF Served
<1>1. UNCHANGED <<db, mem, alone, acked, raced>> /\ refresh[f] # None /\ TypeOK /\ AckedIsWritten
  BY DEF RefreshReads, Served
<1> DEFINE load == [refresh[f] EXCEPT !.read = db]
<1>2. refresh' = [refresh EXCEPT ![f] = load]
  BY DEF RefreshReads
<1>3. load \in Loads /\ load # None /\ load.site = refresh[f].site /\ load.read = db
  <2>1. refresh[f] \in Loads
    BY <1>1, LoadsAreRead
  <2> QED
    BY <1>1, <2>1, GatewayAssumption DEF Loads, TypeOK
<1> HIDE DEF load
<1>4. refresh'[f] = load /\ \A g \in Refreshers : g # f => refresh'[g] = refresh[g]
  BY <1>1, <1>2 DEF TypeOK
<1>5. alone \subseteq Refreshers
  BY <1>1 DEF TypeOK
<1>6. AloneIsOne' /\ AllFollow'
  BY <1>1, <1>3, <1>4, <1>5 DEF AloneIsOne, AllFollow, NoneRuns
<1>7. OthersFollow'
  BY <1>1, <1>3, <1>4, <1>5 DEF OthersFollow, Follows, Reach
<1>8. AloneHasRead'
  <2>1. \A s \in Sites : acked[s] <= db[s].change /\ db[s].change <= db[s].change
    <3>1. \A s \in Sites : db[s].change \in Nat
      BY <1>0, NumbersAreNat
    <3>2. \A s \in Sites : acked[s] <= db[s].change
      BY <1>1 DEF AckedIsWritten
    <3> QED
      BY <3>1, <3>2
  <2> QED
    BY <1>1, <1>3, <1>4, <1>5, <2>1 DEF AloneHasRead
<1> QED
  BY <1>6, <1>7, <1>8

(* A thread that has run alone leaves memory as it has read it, and leaves *)
(* nothing of a site that it has read to be off.                           *)
LEMMA LoadedFollows ==
  ASSUME InMemory, NEW f \in alone, f \in Refreshers, RefreshLoads(f),
         NEW s \in Sites, s \in Reach(refresh[f].site) \/ Follows(s)
  PROVE  Follows(s)'
<1> DEFINE d == refresh[f].read
<1>0. TypeOK
  BY DEF InMemory, Served
<1>1. refresh[f] # None /\ d # None /\ UNCHANGED <<db, acked>>
  BY DEF RefreshLoads
<1>2. d[s].change \in Nat /\ db[s].change \in Nat /\ acked[s] \in Nat
  <2>1. d[s].change \in Nat
    BY <1>0, <1>1, LoadsAreRead
  <2> QED
    BY <1>0, <2>1, NumbersAreNat
<1>3. /\ acked[s] <= d[s].change
      /\ d[s].change <= db[s].change
      /\ d[s].change = db[s].change => d[s] = db[s]
  <2>1. AloneHasRead
    BY DEF InMemory
  <2> QED
    BY <1>1, <2>1 DEF AloneHasRead
<1>4. db[s].change = acked[s] => d[s] = db[s]
  BY <1>2, <1>3
<1> DEFINE row == [name |-> d[s].name, change |-> d[s].change]
<1>5. row # None /\ row.change = d[s].change
  <2>1. d \in [Sites -> Changes]
    BY <1>0, <1>1, LoadsAreRead DEF Loads
  <2>2. row \in Settings
    BY <2>1 DEF Changes, Settings
  <2> QED
    BY <2>2, GatewayAssumption
<1>6. mem'[s] = IF mem[s] # None /\ ~d[s].active THEN None
                ELSE IF s \in Reach(refresh[f].site) /\ d[s].active THEN row
                ELSE mem[s]
  BY DEF RefreshLoads, Loaded
<1> HIDE DEF row, d
<1>7. CASE d[s].active
  <2>1. CASE s \in Reach(refresh[f].site)
    BY <1>1, <1>2, <1>3, <1>4, <1>5, <1>6, <1>7, <2>1 DEF Follows
  <2>2. CASE s \notin Reach(refresh[f].site)
    BY <1>1, <1>6, <1>7, <2>2 DEF Follows
  <2> QED
    BY <2>1, <2>2
<1>8. CASE ~d[s].active
  <2>1. mem'[s] = None
    BY <1>6, <1>8
  <2> QED
    BY <1>1, <1>4, <1>8, <2>1 DEF Follows
<1> QED
  BY <1>7, <1>8

LEMMA InMemoryLoads ==
  ASSUME InMemory, NEW f \in Refreshers, RefreshLoads(f), Served'
  PROVE  InMemory'
<1>1. /\ refresh[f] # None /\ alone' = alone \ {f} /\ refresh' = [refresh EXCEPT ![f] = None]
      /\ raced' = IF f \in alone THEN raced \ Reach(refresh[f].site) ELSE Sites
  BY DEF RefreshLoads
<1>2. alone' = {}
  BY <1>1 DEF InMemory, AloneIsOne, Served, TypeOK
<1>3. AloneIsOne' /\ AloneHasRead' /\ OthersFollow'
  BY <1>2 DEF AloneIsOne, AloneHasRead, OthersFollow
<1>4. AllFollow'
  <2>1. CASE f \in alone
    <3> SUFFICES ASSUME NEW s \in Sites, s \notin raced' PROVE Follows(s)'
      BY DEF AllFollow
    <3>1. s \in Reach(refresh[f].site) \/ Follows(s)
      BY <1>1, <2>1 DEF InMemory, OthersFollow
    <3> QED
      BY <2>1, <3>1, LoadedFollows
  <2>2. CASE f \notin alone
    BY <1>1, <2>2 DEF AllFollow
  <2> QED
    BY <2>1, <2>2
<1> QED
  BY <1>3, <1>4 DEF InMemory

LEMMA InMemoryStep == InMemory /\ [Next]_vars => InMemory'
<1> SUFFICES ASSUME InMemory, [Next]_vars PROVE InMemory'
  OBVIOUS
<1>1. Served'
  BY ServedStep DEF InMemory
<1>2. ASSUME UNCHANGED <<db, mem, refresh, alone, acked, raced>> PROVE InMemory'
  BY <1>1, <1>2 DEF InMemory, AloneIsOne, AloneHasRead, OthersFollow, AllFollow, NoneRuns, Follows, Reach
<1>3. CASE \/ \E r \in Requests : \/ \E n \in Names : Get(r, n) \/ Put(r, n)
                                  \/ Disconnect(r) \/ Reading(r) \/ GetReturns(r)
           \/ DiskChecked
           \/ UNCHANGED vars
  BY <1>2, <1>3 DEF Get, Put, Disconnect, Reading, GetReturns, DiskChecked, vars
<1> QED
  BY <1>1, <1>3, InMemoryWriting, InMemoryPut, InMemoryReads, InMemoryLoads DEF Next

LEMMA CopiesInit == Init => Fresh /\ InMemory
<1> SUFFICES ASSUME Init PROVE Fresh /\ InMemory
  OBVIOUS
<1>1. TypeOK
  BY TypeInit
<1>2. \A r \in Requests : request[r] = Free
  BY DEF Init
<1>3. \A s \in Sites : acked[s] = 0 /\ db[s].change = 0 /\ db[s].active = TRUE /\ cached[s] = None
  BY DEF Init
<1>4. \A s \in Sites : mem[s] # None /\ mem[s].change = 0
  <2>1. \A s \in Sites : [name |-> HomeName(s), change |-> 0] \in Settings
    BY GatewayAssumption DEF Settings
  <2> QED
    BY <2>1, GatewayAssumption DEF Init
<1>5. Served
  BY <1>1, <1>2, <1>3, FreeIsCall DEF Served, AckedIsWritten, EditsKnown
<1>6. Fresh
  BY <1>2, <1>3, <1>5, FreeIsCall DEF Fresh, ReadsAreNew, CacheShowsWrites
<1>7. alone = {}
  BY DEF Init
<1>8. \A s \in Sites : Follows(s)
  BY <1>3, <1>4 DEF Follows
<1> QED
  BY <1>5, <1>6, <1>7, <1>8 DEF InMemory, AloneIsOne, AloneHasRead, OthersFollow, AllFollow

-----------------------------------------------------------------------------
(* However requests, disconnected clients, writes and threads come between *)
(* each other: no cached answer is older than an answered write, unless a  *)
(* GET ran while the cache was cleared; memory has the answered writes and *)
(* the sites that are on, unless the threads that loaded it ran at once.   *)
THEOREM CopiesFollowAlways == Spec => []CopiesFollow
<1>1. Fresh /\ InMemory => CopiesFollow
  BY DEF Fresh, InMemory, Served, AllFollow, NoneRuns, Follows, CopiesFollow, MemoryShowsWrites, SwitchedOffIsGone
<1>2. Init => Fresh /\ InMemory
  BY CopiesInit
<1>3. (Fresh /\ InMemory) /\ [Next]_vars => (Fresh /\ InMemory)'
  BY FreshStep, InMemoryStep
<1> QED
  BY <1>1, <1>2, <1>3, PTL DEF Spec
-----------------------------------------------------------------------------
(* Names.  What a thread has read of a site that is alone is what the      *)
(* table says, or a write of it is not answered yet, or was lost; and who  *)
(* is on is changed by the root site, whose writes all sites wait for.     *)

Expected(s) ==
  s \in lost \/ \E r \in Requests : request[r].step = "written" /\ s \in Reach(request[r].site)

NamesApart ==
  \A f \in Refreshers : refresh[f] # None /\ refresh[f].read # None =>
    \A x, y \in Sites : x # y => refresh[f].read[x].name # refresh[f].read[y].name

AloneReads ==
  \A f \in alone : refresh[f].read # None =>
    \A x \in Sites :
      /\ refresh[f].read[x] # db[x] => Expected(x)
      /\ refresh[f].read[x].active # db[x].active => \A y \in Sites : Expected(y)

(* A site that is off and still in memory would take along the name it was *)
(* loaded with: then all sites wait.                                       *)
OffAwaits ==
  \A y \in Sites : mem[y] # None /\ ~db[y].active => \A x \in Sites : Awaits(x)

Found(s) ==
  IF db[s].active THEN mem[s] # None /\ mem[s].name = db[s].name /\ route[db[s].name] = s
                  ELSE mem[s] = None

Settled == \A s \in Sites : ~Awaits(s) => Found(s)

(* The inductive invariant, next to InMemory. *)
Named == NamesApart /\ AloneReads /\ OffAwaits /\ Settled

LEMMA AwaitsParts ==
  \A s : Awaits(s) <=> \/ s \in raced \/ Expected(s)
                       \/ \E f \in Refreshers : refresh[f] # None /\ s \in Reach(refresh[f].site)
  BY DEF Awaits, Expected

(* Steps that leave memory alone keep what it is to the sites that do not  *)
(* wait.                                                                   *)
LEMMA MemoryStays ==
  ASSUME OffAwaits, Settled, UNCHANGED <<mem, route>>,
         \A x \in Sites : Awaits(x) => Awaits(x)',
         \A x \in Sites : Awaits(x)' \/ db'[x] = db[x],
         \A x, y \in Sites : db'[y].active = db[y].active \/ Awaits(x)'
  PROVE  OffAwaits' /\ Settled'
<1>1. OffAwaits'
  <2> SUFFICES ASSUME NEW y \in Sites, mem'[y] # None, ~db'[y].active, NEW x \in Sites
               PROVE  Awaits(x)'
    BY DEF OffAwaits
  <2>1. CASE db[y].active
    BY <2>1
  <2>2. CASE ~db[y].active
    <3>1. mem[y] # None
      OBVIOUS
    <3>2. Awaits(x)
      BY <2>2, <3>1 DEF OffAwaits
    <3> QED
      BY <3>2
  <2> QED
    BY <2>1, <2>2
<1>2. Settled'
  <2> SUFFICES ASSUME NEW s \in Sites, ~Awaits(s)' PROVE Found(s)'
    BY DEF Settled
  <2>1. Found(s) /\ db'[s] = db[s]
    BY DEF Settled
  <2> QED
    BY <2>1 DEF Found
<1> QED
  BY <1>1, <1>2

(* A write that was done waits until it is answered, or is lost. *)
LEMMA ExpectedStays ==
  ASSUME TypeOK, NEW r \in Requests,
         \/ \E n \in Names : Get(r, n) \/ Put(r, n)
         \/ Disconnect(r) \/ Reading(r) \/ GetReturns(r)
  PROVE  \A x \in Sites : Expected(x) => Expected(x)'
<1>1. \A q \in Requests : q # r => request'[q] = request[q]
  BY DEF Get, Put, Begin, Disconnect, Reading, GetReturns, TypeOK
<1>2. CASE Disconnect(r)
  <2>1. lost \subseteq lost' /\ (request[r].step = "written" => Reach(request[r].site) \subseteq lost')
    BY <1>2 DEF Disconnect
  <2> SUFFICES ASSUME NEW x \in Sites, Expected(x) PROVE Expected(x)'
    OBVIOUS
  <2> QED
    BY <1>1, <2>1 DEF Expected, Reach
<1>3. CASE (\E n \in Names : Get(r, n) \/ Put(r, n)) \/ Reading(r) \/ GetReturns(r)
  <2>1. lost' = lost /\ request[r].step # "written"
    BY <1>3, FreeIsCall DEF Get, Put, Begin, Reading, GetReturns
  <2> QED
    BY <1>1, <2>1 DEF Expected, Reach
<1> QED
  BY <1>2, <1>3

LEMMA NamedWaiting ==
  ASSUME Named, UNCHANGED <<db, mem, route, refresh, alone, raced>>,
         \A x \in Sites : Expected(x) => Expected(x)'
  PROVE  Named'
<1>1. \A x \in Sites : Awaits(x) => Awaits(x)'
  BY AwaitsParts DEF Awaits, Expected, Reach
<1>2. OffAwaits' /\ Settled'
  BY <1>1, MemoryStays DEF Named
<1>3. NamesApart'
  BY DEF Named, NamesApart
<1>4. AloneReads'
  <2> SUFFICES ASSUME NEW f \in alone, refresh[f].read # None, NEW x \in Sites
               PROVE  /\ refresh[f].read[x] # db[x] => Expected(x)'
                      /\ refresh[f].read[x].active # db[x].active => \A y \in Sites : Expected(y)'
    BY DEF AloneReads
  <2> QED
    BY DEF Named, AloneReads
<1> QED
  BY <1>2, <1>3, <1>4 DEF Named

LEMMA NamedWriting ==
  ASSUME InMemory, Named, NEW r \in Requests, Writing(r)
  PROVE  Named'
<1>1. UNCHANGED <<mem, route, refresh, alone, raced>> /\ TypeOK
  BY DEF Writing, InMemory, Served
<1>2. PICK s \in Sites, d \in Changes :
        /\ Changed(request[r].site, s, d)
        /\ db' = [db EXCEPT ![s] = [d EXCEPT !.change = Writes + 1]]
        /\ request' = [request EXCEPT ![r] =
             IF request[r].step = "cancelled" THEN Free
             ELSE [[request[r] EXCEPT !.step = "written"] EXCEPT
                     !.got = [site |-> s, change |-> Writes + 1]]]
  BY <1>1 DEF Writing, TypeOK
<1>3. \A x \in Sites : x # s => db'[x] = db[x]
  BY <1>1, <1>2 DEF TypeOK
<1>4. request[r] \in Calls /\ request[r].do = "put" /\ request[r].step \in {"queued", "cancelled"}
  BY <1>1 DEF Writing, TypeOK
<1>5. \A q \in Requests : q # r => request'[q] = request[q]
  BY <1>1, <1>2 DEF TypeOK
<1>6. \A x \in Reach(request[r].site) : Expected(x)'
  <2>1. CASE request[r].step = "cancelled"
    BY <2>1 DEF Writing, Expected
  <2>2. CASE request[r].step = "queued"
    <3> DEFINE e == [site |-> s, change |-> Writes + 1]
    <3>1. request' = [request EXCEPT ![r] = Written(request[r], e)]
      BY <1>2, <2>2 DEF Written
    <3>2. e \in Edits
      <4>1. Writes + 1 \in 0 .. MaxWrites
        BY <1>1, WritesIsLast, GatewayAssumption DEF Writing
      <4> QED
        BY <4>1 DEF Edits
    <3> HIDE DEF e
    <3>3. request'[r] = Written(request[r], e)
      BY <1>1, <3>1 DEF TypeOK
    <3>4. request'[r].step = "written" /\ request'[r].site = request[r].site
      BY <1>4, <2>2, <3>2, <3>3, WrittenIsCall
    <3> QED
      BY <3>4 DEF Expected, Reach
  <2> QED
    BY <1>4, <2>1, <2>2
<1>7. \A x \in Sites : Expected(x) => Expected(x)'
  <2>1. lost \subseteq lost' /\ request[r].step # "written"
    BY <1>4 DEF Writing
  <2> QED
    BY <1>5, <2>1 DEF Expected, Reach
<1>8. s \in Reach(request[r].site)
  BY <1>2 DEF Changed, Reach
<1>9. ASSUME NEW y \in Sites, db'[y].active # db[y].active PROVE \A x \in Sites : Expected(x)'
  <2>1. y = s
    BY <1>3, <1>9
  <2>2. db[s] \in Changes /\ db'[s] = [d EXCEPT !.change = Writes + 1]
    BY <1>1, <1>2 DEF TypeOK
  <2>3. d.active # db[s].active
    BY <1>9, <2>1, <2>2 DEF Changes
  <2>4. \A n \in Names : [db[s] EXCEPT !.name = n].active = db[s].active
    BY <2>2 DEF Changes
  <2>5. request[r].site = Root
    BY <1>2, <2>3, <2>4 DEF Changed
  <2> QED
    BY <1>6, <2>5 DEF Reach
<1>10. \A x \in Sites : db'[x] = db[x] \/ Expected(x)'
  BY <1>3, <1>6, <1>8
<1>11. OffAwaits' /\ Settled'
  <2>1. \A x \in Sites : Expected(x)' => Awaits(x)'
    BY DEF Awaits, Expected
  <2>2. \A x \in Sites : Awaits(x) => Awaits(x)'
    <3> SUFFICES ASSUME NEW x \in Sites, Awaits(x) PROVE Awaits(x)'
      OBVIOUS
    <3>1. CASE Expected(x)
      BY <1>7, <2>1, <3>1
    <3>2. CASE ~Expected(x)
      BY <1>1, <3>2 DEF Awaits, Expected, Reach
    <3> QED
      BY <3>1, <3>2
  <2>3. \A x \in Sites : Awaits(x)' \/ db'[x] = db[x]
    BY <1>10, <2>1
  <2>4. \A x, y \in Sites : db'[y].active = db[y].active \/ Awaits(x)'
    BY <1>9, <2>1
  <2> QED
    BY <1>1, <2>2, <2>3, <2>4, MemoryStays DEF Named
<1>12. NamesApart'
  BY <1>1 DEF Named, NamesApart
<1>13. AloneReads'
  <2> SUFFICES ASSUME NEW f \in alone, refresh[f].read # None, NEW x \in Sites
               PROVE  /\ refresh[f].read[x] # db'[x] => Expected(x)'
                      /\ refresh[f].read[x].active # db'[x].active => \A y \in Sites : Expected(y)'
    BY <1>1 DEF AloneReads
  <2>1. /\ refresh[f].read[x] # db[x] => Expected(x)
        /\ refresh[f].read[x].active # db[x].active => \A y \in Sites : Expected(y)
    BY DEF Named, AloneReads
  <2> QED
    BY <1>7, <1>9, <1>10, <2>1
<1> QED
  BY <1>11, <1>12, <1>13 DEF Named

(* The sites that waited for the answer wait for the thread it asks. *)
LEMMA NamedPut ==
  ASSUME InMemory, Named, NEW r \in Requests, PutReturns(r)
  PROVE  Named'
<1>1. UNCHANGED <<db, mem, route, raced, lost>> /\ Asked(request[r].site) /\ TypeOK
  BY DEF PutReturns, InMemory, Served
<1> DEFINE busy == {x \in Refreshers : refresh[x] # None}
           load == [site |-> request[r].site, read |-> None]
<1>2. PICK f \in Refreshers \ busy :
        /\ refresh' = [refresh EXCEPT ![f] = load]
        /\ alone' = IF busy = {} THEN {f} ELSE {}
  BY <1>1 DEF Asked
<1>3. load # None /\ load.site = request[r].site /\ load.read = None
  <2>1. request[r].site \in Sites
    BY <1>1, CallFields DEF PutReturns, TypeOK
  <2>2. load \in Loads
    BY <2>1 DEF Loads
  <2> QED
    BY <2>2, GatewayAssumption
<1> HIDE DEF load
<1>4. refresh'[f] = load /\ \A g \in Refreshers : g # f => refresh'[g] = refresh[g]
  BY <1>1, <1>2 DEF TypeOK
<1>5. \A q \in Requests : q # r => request'[q] = request[q]
  BY <1>1 DEF PutReturns, TypeOK
<1>6. \A x \in Sites : Awaits(x) => Awaits(x)'
  <2> SUFFICES ASSUME NEW x \in Sites, Awaits(x) PROVE Awaits(x)'
    OBVIOUS
  <2>1. CASE x \in raced \cup lost
    BY <1>1, <2>1 DEF Awaits
  <2>2. ASSUME NEW g \in Refreshers, refresh[g] # None, x \in Reach(refresh[g].site) PROVE Awaits(x)'
    BY <1>2, <1>4, <2>2 DEF Awaits, Reach
  <2>3. ASSUME NEW q \in Requests, request[q].step = "written", x \in Reach(request[q].site) PROVE Awaits(x)'
    <3>1. CASE q = r
      BY <1>3, <1>4, <2>3, <3>1 DEF Awaits, Reach
    <3>2. CASE q # r
      BY <1>5, <2>3, <3>2 DEF Awaits, Reach
    <3> QED
      BY <3>1, <3>2
  <2> QED
    BY <2>1, <2>2, <2>3 DEF Awaits
<1>7. OffAwaits' /\ Settled'
  BY <1>1, <1>6, MemoryStays DEF Named
<1>8. NamesApart'
  BY <1>3, <1>4 DEF Named, NamesApart
<1>9. AloneReads'
  BY <1>2, <1>3, <1>4 DEF AloneReads
<1> QED
  BY <1>7, <1>8, <1>9 DEF Named

LEMMA NamedReads ==
  ASSUME InMemory, Named, NEW f \in Refreshers, RefreshReads(f)
  PROVE  Named'
<1>1. UNCHANGED <<db, mem, route, request, alone, raced>> /\ refresh[f] # None /\ TypeOK
  BY DEF RefreshReads, InMemory, Served
<1> DEFINE load == [refresh[f] EXCEPT !.read = db]
<1>2. refresh' = [refresh EXCEPT ![f] = load]
  BY DEF RefreshReads
<1>3. load # None /\ load.site = refresh[f].site /\ load.read = db
  <2>1. refresh[f] \in Loads
    BY <1>1, LoadsAreRead
  <2>2. load \in Loads
    BY <1>1, <2>1 DEF Loads, TypeOK
  <2> QED
    BY <2>1, <2>2, GatewayAssumption DEF Loads
<1> HIDE DEF load
<1>4. refresh'[f] = load /\ \A g \in Refreshers : g # f => refresh'[g] = refresh[g]
  BY <1>1, <1>2 DEF TypeOK
<1>5. \A x \in Sites : Awaits(x) => Awaits(x)'
  <2> SUFFICES ASSUME NEW x \in Sites, Awaits(x) PROVE Awaits(x)'
    OBVIOUS
  <2>1. CASE x \in raced
    BY <1>1, <2>1 DEF Awaits
  <2>2. CASE x \in Reach(refresh[f].site)
    BY <1>3, <1>4, <2>2 DEF Awaits, Reach
  <2>3. CASE x \in lost /\ x \notin Reach(refresh[f].site)
    BY <2>3 DEF RefreshReads, Awaits
  <2>4. ASSUME NEW g \in Refreshers, g # f, refresh[g] # None, x \in Reach(refresh[g].site) PROVE Awaits(x)'
    BY <1>4, <2>4 DEF Awaits, Reach
  <2>5. ASSUME NEW q \in Requests, request[q].step = "written", x \in Reach(request[q].site) PROVE Awaits(x)'
    BY <1>1, <2>5 DEF Awaits, Reach
  <2> QED
    BY <2>1, <2>2, <2>3, <2>4, <2>5 DEF Awaits
<1>6. OffAwaits' /\ Settled'
  BY <1>1, <1>5, MemoryStays DEF Named
<1>7. NamesApart'
  BY <1>1, <1>3, <1>4 DEF Named, NamesApart, TypeOK
<1>8. AloneReads'
  <2>1. CASE f \in alone
    <3>1. \A g \in alone : g = f
      BY <1>1, <2>1 DEF InMemory, AloneIsOne, TypeOK
    <3> QED
      BY <1>1, <1>3, <1>4, <3>1 DEF AloneReads
  <2>2. CASE f \notin alone
    <3>1. alone \subseteq Refreshers /\ lost' = lost
      BY <1>1, <2>2 DEF RefreshReads, TypeOK
    <3>2. \A g \in alone : g # f /\ refresh'[g] = refresh[g]
      BY <1>4, <2>2, <3>1
    <3>3. \A x \in Sites : Expected(x)' <=> Expected(x)
      BY <1>1, <3>1 DEF Expected, Reach
    <3> QED
      BY <1>1, <3>2, <3>3 DEF Named, AloneReads
  <2> QED
    BY <2>1, <2>2
<1> QED
  BY <1>6, <1>7, <1>8 DEF Named

(* What a thread loads that has run alone leaves the sites that do not     *)
(* wait any more found by their names.                                     *)
LEMMA NamedLoadsAlone ==
  ASSUME InMemory, Named, NEW f \in Refreshers, f \in alone, RefreshLoads(f)
  PROVE  OffAwaits' /\ Settled'
<1> DEFINE d   == refresh[f].read
           s0  == refresh[f].site
           off == {x \in Sites : mem[x] # None /\ ~d[x].active}
           on  == {x \in Reach(s0) : d[x].active}
           row(x) == [name |-> d[x].name, change |-> d[x].change]
<1>1. /\ refresh[f] # None /\ d # None /\ UNCHANGED <<db, request, lost>>
      /\ refresh' = [refresh EXCEPT ![f] = None] /\ raced' = raced \ Reach(s0) /\ TypeOK
  BY DEF RefreshLoads, InMemory, Served
<1>2. s0 \in Sites /\ d \in [Sites -> Changes] /\ Reach(s0) \subseteq Sites
  <2>1. refresh[f] \in Loads
    BY <1>1, LoadsAreRead
  <2> QED
    BY <1>1, <2>1 DEF Loads, Reach
<1>3. \A x \in Sites : row(x) # None /\ row(x).name = d[x].name
  <2>1. \A x \in Sites : row(x) \in Settings
    BY <1>2 DEF Changes, Settings
  <2> QED
    BY <2>1, GatewayAssumption
<1>4. \A x \in Sites : mem'[x] = IF x \in off THEN None ELSE IF x \in on THEN row(x) ELSE mem[x]
  BY <1>2 DEF RefreshLoads, Loaded
<1>5. \A n \in Names : route'[n] = IF \E x \in on : d[x].name = n THEN CHOOSE x \in on : d[x].name = n
                                   ELSE IF n \in {mem[x].name : x \in off} THEN None
                                   ELSE route[n]
  BY <1>2 DEF RefreshLoads, Loaded
<1>6. \A x, y \in Sites : x # y => d[x].name # d[y].name
  BY <1>1 DEF Named, NamesApart
<1>7. \A x \in Sites : /\ d[x] # db[x] => Expected(x)
                       /\ d[x].active # db[x].active => \A y \in Sites : Expected(y)
  BY <1>1 DEF Named, AloneReads
<1>8. \A g \in Refreshers : g # f => refresh[g] = None
  BY DEF InMemory, AloneIsOne
<1>9. \A x \in Sites : Expected(x) => Awaits(x)'
  BY <1>1 DEF Awaits, Expected, Reach
<1>10. \A x \in Sites : ~Awaits(x)' => (x \notin raced \/ x \in Reach(s0)) /\ ~Expected(x)
  BY <1>1, <1>9 DEF Awaits
<1>11. ASSUME NEW y \in Sites, mem'[y] # None PROVE d[y].active
  <2>1. mem[y] # None \/ y \in on
    BY <1>4, <1>11
  <2> QED
    BY <1>4, <1>11, <2>1
<1> HIDE DEF d, s0, row
<1>12. OffAwaits'
  <2> SUFFICES ASSUME NEW y \in Sites, mem'[y] # None, ~db[y].active, NEW x \in Sites
               PROVE  Awaits(x)'
    BY <1>1 DEF OffAwaits
  <2>1. d[y].active
    BY <1>11
  <2>2. Expected(x)
    BY <1>7, <2>1
  <2> QED
    BY <1>9, <2>2
<1>13. ASSUME NEW x \in Sites, ~Awaits(x)' PROVE Found(x)'
  <2>1. ~Expected(x) /\ d[x] = db[x] /\ (x \notin raced \/ x \in Reach(s0))
    BY <1>7, <1>10, <1>13
  <2>2. \A y \in Sites : d[y].active = db[y].active
    BY <1>7, <2>1
  <2>3. x \notin Reach(s0) => ~Awaits(x)
    <3> SUFFICES ASSUME x \notin Reach(s0), Awaits(x) PROVE FALSE
      OBVIOUS
    <3>1. \E g \in Refreshers : refresh[g] # None /\ x \in Reach(refresh[g].site)
      BY <2>1, AwaitsParts
    <3> QED
      BY <1>8, <3>1 DEF s0
  <2>4. CASE ~db[x].active
    <3>1. mem'[x] = None
      <4>1. CASE mem[x] = None
        BY <1>4, <2>1, <2>4, <4>1
      <4>2. CASE mem[x] # None
        BY <1>4, <2>1, <2>4, <4>2
      <4> QED
        BY <4>1, <4>2
    <3> QED
      BY <1>1, <2>4, <3>1 DEF Found
  <2>5. CASE db[x].active /\ x \in Reach(s0)
    <3>1. x \in on /\ x \notin off
      BY <2>1, <2>5
    <3>2. mem'[x] # None /\ mem'[x].name = db[x].name
      BY <1>3, <1>4, <2>1, <3>1
    <3>3. db[x].name \in Names
      BY <1>1 DEF TypeOK, Changes
    <3>4. route'[db[x].name] = CHOOSE y \in on : d[y].name = db[x].name
      BY <1>5, <2>1, <3>1, <3>3
    <3>5. \A y \in on : d[y].name = db[x].name => y = x
      BY <1>2, <1>6, <2>1
    <3>6. route'[db[x].name] = x
      BY <2>1, <3>1, <3>4, <3>5
    <3> QED
      BY <1>1, <2>5, <3>2, <3>6 DEF Found
  <2>6. CASE db[x].active /\ x \notin Reach(s0)
    <3>1. mem[x] # None /\ mem[x].name = db[x].name /\ route[db[x].name] = x
      BY <2>3, <2>6 DEF Named, Settled, Found
    <3>2. mem'[x] = mem[x]
      BY <1>4, <2>1, <2>6
    <3>3. db[x].name \in Names
      BY <1>1 DEF TypeOK, Changes
    <3>4. ~\E y \in on : d[y].name = db[x].name
      BY <1>2, <1>6, <2>1, <2>6
    <3>5. \A y \in off : ~db[y].active /\ mem[y] # None
      BY <2>2
    <3>6. off = {}
      BY <2>3, <2>6, <3>5 DEF Named, OffAwaits
    <3>7. route'[db[x].name] = route[db[x].name]
      BY <1>5, <3>3, <3>4, <3>6
    <3> QED
      BY <1>1, <2>6, <3>1, <3>2, <3>7 DEF Found
  <2> QED
    BY <2>4, <2>5, <2>6
<1> QED
  BY <1>12, <1>13 DEF Settled

LEMMA NamedLoads ==
  ASSUME InMemory, Named, NEW f \in Refreshers, RefreshLoads(f)
  PROVE  Named'
<1>1. /\ refresh' = [refresh EXCEPT ![f] = None] /\ alone' = alone \ {f} /\ TypeOK
      /\ raced' = IF f \in alone THEN raced \ Reach(refresh[f].site) ELSE Sites
  BY DEF RefreshLoads, InMemory, Served
<1>2. alone' = {}
  BY <1>1 DEF RefreshLoads, InMemory, AloneIsOne, TypeOK
<1>3. AloneReads'
  BY <1>2 DEF AloneReads
<1>4. NamesApart'
  BY <1>1 DEF Named, NamesApart, TypeOK
<1>5. OffAwaits' /\ Settled'
  <2>1. CASE f \in alone
    BY <2>1, NamedLoadsAlone
  <2>2. CASE f \notin alone
    <3>1. \A x \in Sites : Awaits(x)'
      BY <1>1, <2>2 DEF Awaits
    <3> QED
      BY <3>1 DEF OffAwaits, Settled
  <2> QED
    BY <2>1, <2>2
<1> QED
  BY <1>3, <1>4, <1>5 DEF Named

LEMMA NamedStep == InMemory /\ Named /\ [Next]_vars => Named'
<1> SUFFICES ASSUME InMemory, Named, [Next]_vars PROVE Named'
  OBVIOUS
<1>1. TypeOK
  BY DEF InMemory, Served
<1>2. ASSUME NEW r \in Requests,
             \/ \E n \in Names : Get(r, n) \/ Put(r, n)
             \/ Disconnect(r) \/ Reading(r) \/ GetReturns(r)
      PROVE  Named'
  <2>1. \A x \in Sites : Expected(x) => Expected(x)'
    BY <1>1, <1>2, ExpectedStays
  <2>2. UNCHANGED <<db, mem, route, refresh, alone, raced>>
    BY <1>2 DEF Get, Put, Disconnect, Reading, GetReturns
  <2> QED
    BY <2>1, <2>2, NamedWaiting
<1>3. CASE DiskChecked \/ UNCHANGED vars
  <2>1. UNCHANGED <<db, mem, route, refresh, alone, raced, request, lost>>
    BY <1>3 DEF DiskChecked, vars
  <2>2. \A x \in Sites : Expected(x) => Expected(x)'
    BY <2>1 DEF Expected, Reach
  <2> QED
    BY <2>1, <2>2, NamedWaiting
<1> QED
  BY <1>2, <1>3, NamedWriting, NamedPut, NamedReads, NamedLoads DEF Next

LEMMA NamedInit == Init => Named
<1> SUFFICES ASSUME Init PROVE Named
  OBVIOUS
<1>1. \A s \in Sites : /\ db[s].active = TRUE /\ db[s].name = HomeName(s)
                       /\ mem[s] = [name |-> HomeName(s), change |-> 0]
  BY DEF Init
<1>2. \A s \in Sites : mem[s] # None /\ mem[s].name = HomeName(s)
  <2> TAKE s \in Sites
  <2>1. [name |-> HomeName(s), change |-> 0] \in Settings
    BY GatewayAssumption DEF Settings
  <2>2. mem[s] \in Settings
    BY <1>1, <2>1
  <2>3. mem[s].name = HomeName(s)
    <3>1. mem[s] = [name |-> HomeName(s), change |-> 0]
      BY <1>1
    <3>2. [name |-> HomeName(s), change |-> 0].name = HomeName(s)
      OBVIOUS
    <3> QED
      BY <3>1, <3>2, Zenon
  <2> QED
    BY <2>2, <2>3, GatewayAssumption
<1>3. \A s \in Sites : route[HomeName(s)] = s
  <2> TAKE s \in Sites
  <2>1. HomeName(s) \in Names /\ \A x \in Sites : HomeName(x) = HomeName(s) => x = s
    BY GatewayAssumption
  <2>2. route[HomeName(s)] = CHOOSE x \in Sites : HomeName(x) = HomeName(s)
    BY <2>1 DEF Init
  <2> QED
    BY <2>1, <2>2
<1>4. \A s \in Sites : Found(s)
  BY <1>1, <1>2, <1>3 DEF Found
<1>5. alone = {} /\ \A f \in Refreshers : refresh[f] = None
  BY DEF Init
<1> QED
  BY <1>1, <1>4, <1>5 DEF Named, NamesApart, AloneReads, OffAwaits, Settled

(* A site for which no thread and no answer is under way is found by its   *)
(* name if it is on and not served if it is off, however sites take each   *)
(* other's names, drop them and are switched, and requests, disconnected   *)
(* clients and threads come between each other (db_refresh_tenant_cache,   *)
(* the map of hostnames): unless threads ran at once or an answer was lost *)
(* since the site was loaded.                                              *)
THEOREM NamesLeadHomeAlways == Spec => []NamesLeadHome
<1>1. Served /\ Named => NamesLeadHome
  <2> SUFFICES ASSUME TypeOK, Named, NEW s \in Sites, ~Awaits(s)
               PROVE  IF db[s].active THEN SiteOf(db[s].name) = s ELSE mem[s] = None
    BY DEF NamesLeadHome, Served
  <2>1. Found(s)
    BY DEF Named, Settled
  <2>2. s # None
    BY GatewayAssumption
  <2> QED
    BY <2>1, <2>2 DEF Found, SiteOf
<1>2. Init => InMemory /\ Named
  BY CopiesInit, NamedInit
<1>3. (InMemory /\ Named) /\ [Next]_vars => (InMemory /\ Named)'
  BY InMemoryStep, NamedStep
<1>4. InMemory => Served
  BY DEF InMemory
<1> QED
  BY <1>1, <1>2, <1>3, <1>4, PTL DEF Spec

=============================================================================
