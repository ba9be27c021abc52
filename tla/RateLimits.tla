----------------------------- MODULE RateLimits -----------------------------
(***************************************************************************)
(* The thresholds on logins, reports and operations: a request asks one    *)
(* token bucket after the other, until one refuses it; the buckets are in  *)
(* a cache of bounded size that forgets the one asked the longest ago.     *)
(***************************************************************************)
EXTENDS Naturals, FiniteSets, SequencesExt

CONSTANTS
  Kinds,      (* Of "report", "login" and "operation".                     *)
  Tenants,
  Addresses,  (* Of clients, each with at most one report.                 *)
  Limit,      (* The thresholds, by name.                                  *)
  Interval,   (* Ticks in which a bucket regains its limit, by name.       *)
  Burst,      (* Capacity of a bucket, initial_burst.                      *)
  Size,       (* Buckets in the cache.                                     *)
  MaxTime,    (* Bound.                                                    *)
  MaxRequests,(* Bound.                                                    *)
  None

Names == {k \o "s_per_" \o s : k \in {"report", "login"}, s \in {"tenant_per_ip", "ip", "tenant", "system"}}
           \cup {"operations_per_second", "operations_per_minute", "operations_per_hour"}

RateLimitsAssumption ==
  /\ Kinds \subseteq {"report", "login", "operation"}
  /\ Limit \in [Names -> Nat \ {0}] /\ Interval \in [Names -> Nat \ {0}]
  /\ {Burst, Size} \subseteq Nat \ {0} /\ {MaxTime, MaxRequests} \subseteq Nat

VARIABLES
  now,    (* In ticks. *)
  cache,  (* LRUCache: buckets, the one asked the longest ago first.       *)
  log     (* History: the requests, with the bucket that refused each.     *)

vars == <<now, cache, log>>

-----------------------------------------------------------------------------
(* Buckets.  Their tokens are counted in parts of 1/Interval.              *)

NewBucket(key) == [key |-> key, tokens |-> Limit[key[1]] * Interval[key[1]], checked |-> now, count |-> 0]

Refilled(b) == b.tokens + (now - b.checked) * Limit[b.key[1]]

Update(b) ==
  LET one == Interval[b.key[1]]
      full == IF Refilled(b) > Burst * one THEN Burst * one ELSE Refilled(b)
  IN IF full >= one
     THEN [b EXCEPT !.tokens = full - one, !.checked = now, !.count = 0]
     ELSE [b EXCEPT !.tokens = full, !.checked = now, !.count = @ + 1]

Put(c, b) ==
  LET kept == Append(SelectSeq(c, LAMBDA x : x.key # b.key), b) IN
  IF Len(kept) > Size THEN Tail(kept) ELSE kept

(* RateLimit.check, with what it returns *)
Check(c, key) ==
  LET there == {i \in DOMAIN c : c[i].key = key}
      new == Update(IF there = {} THEN NewBucket(key) ELSE c[CHOOSE i \in there : TRUE])
  IN [cache |-> Put(c, new), count |-> new.count]

-----------------------------------------------------------------------------
(* decorator_rate_limit.  The first key of a report does not name the      *)
(* address, and the second one names the tenant as well.                   *)

Chain(kind, t, a) ==
  CASE kind = "report" ->
         << <<"reports_per_tenant_per_ip", t>>, <<"reports_per_ip", t, a>>,
            <<"reports_per_tenant", t>>, <<"reports_per_system">> >>
    [] kind = "login" ->
         << <<"logins_per_tenant_per_ip", t, a>>, <<"logins_per_ip", a>>,
            <<"logins_per_tenant", t>>, <<"logins_per_system">> >>
    [] kind = "operation" ->
         << <<"operations_per_second", a>>, <<"operations_per_minute", a>>, <<"operations_per_hour", a>> >>

AskMutant(st, key) ==
  LET r == Check(st.cache, key) IN
  [cache |-> r.cache, by |-> IF st.by # None \/ r.count = 0 THEN st.by ELSE key]

Ask(st, key) ==
  IF st.by # None THEN st ELSE
  LET r == Check(st.cache, key) IN
  [cache |-> r.cache, by |-> IF r.count = 0 THEN None ELSE key]

(* A report that is refused is blocked; all else is only delayed.          *)
Request(kind, t, a) ==
  LET st == FoldLeft(Ask, [cache |-> cache, by |-> None], Chain(kind, t, a)) IN
  /\ Len(log) < MaxRequests
  /\ cache' = st.cache
  /\ log' = Append(log, [kind |-> kind, tenant |-> t, address |-> a, at |-> now, by |-> st.by])
  /\ UNCHANGED now

Tick == now < MaxTime /\ now' = now + 1 /\ UNCHANGED <<cache, log>>

Init == now = 0 /\ cache = <<>> /\ log = <<>>

Next == Tick \/ \E kind \in Kinds, t \in Tenants, a \in Addresses : Request(kind, t, a)

Spec == Init /\ [][Next]_vars

-----------------------------------------------------------------------------
TypeOK ==
  /\ now \in 0 .. MaxTime
  /\ \A i \in DOMAIN cache : cache[i].tokens \in 0 .. Burst * Interval[cache[i].key[1]] /\ cache[i].checked <= now
  /\ Len(log) <= MaxRequests

Keys == UNION {{Chain(k, t, a)[i] : i \in DOMAIN Chain(k, t, a)} : k \in Kinds, t \in Tenants, a \in Addresses}

Position(e, key) == {i \in DOMAIN Chain(e.kind, e.tenant, e.address) : Chain(e.kind, e.tenant, e.address)[i] = key}
Asked(e, key) ==
  /\ Position(e, key) # {}
  /\ \A i \in Position(e, e.by), j \in Position(e, key) : j <= i
Granted(key) == {n \in DOMAIN log : Asked(log[n], key) /\ log[n].by # key}
Within(key, s, n) == Cardinality({m \in Granted(key) : log[m].at \in s .. s + Interval[key[1]] - 1}) <= n

(* No bucket lets more through in an interval than its burst and its limit.*)
BurstAndLimit == \A key \in Keys, s \in 0 .. now : Within(key, s, Burst + Limit[key[1]])

(* A client that goes on asking while it is refused loses nothing by it: a *)
(* refusal comes less than the time of one token after the last grant.     *)
AskingIsFree ==
  \A n \in DOMAIN log : LET key == log[n].by IN key # None =>
    \E m \in Granted(key) : m < n /\ (log[n].at - log[m].at) * Limit[key[1]] < Interval[key[1]]

(* The buckets that are kept are those asked last.                         *)
LastAsked(key) == {n \in DOMAIN log : Asked(log[n], key)}
MostRecent ==
  \A key \in Keys : \A i \in DOMAIN cache :
    (\A j \in DOMAIN cache : cache[j].key # key) /\ LastAsked(key) # {} =>
      \E n \in LastAsked(cache[i].key) : \A m \in LastAsked(key) : n >= m

(* Requests that are refused for their own address do not use up what the  *)
(* tenant and the system grant to all: as many tokens were taken from a    *)
(* bucket as requests passed it.                                           *)
PerAddress(name) == name \in {"reports_per_tenant_per_ip", "reports_per_ip", "logins_per_tenant_per_ip", "logins_per_ip"}
RefusedPaysNothing ==
  \A i \in DOMAIN cache : LET b == cache[i] IN
    b.tokens >= (IF Burst < Limit[b.key[1]] THEN Burst ELSE Limit[b.key[1]]) * Interval[b.key[1]]
                - Cardinality(Granted(b.key)) * Interval[b.key[1]]

(* A threshold per address refuses only an address to which its bucket has *)
(* granted something before.  One exception: the first bucket of a report, *)
(* which all the addresses of a tenant share.                              *)
OwnAddress ==
  \A n \in DOMAIN log : log[n].by # None /\ PerAddress(log[n].by[1]) =>
    \E m \in Granted(log[n].by) :
      /\ m < n /\ log[m].tenant = log[n].tenant
      /\ log[m].address = log[n].address \/ log[n].by = <<"reports_per_tenant_per_ip", log[n].tenant>>

(* What the documentation calls the limit of an interval.                  *)
WithinThreshold == \A key \in Keys, s \in 0 .. now : Within(key, s, Limit[key[1]])
=============================================================================
