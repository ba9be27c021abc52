---------------------------- MODULE TenantsProofs ----------------------------
(***************************************************************************)
(* Theorems about Tenants, for every set of sites, names, usernames and    *)
(* threads of the database.                                                *)
(***************************************************************************)
EXTENDS Tenants, FiniteSetTheorems, TLAPS

(* What a transaction has read holds until it commits, or the thread       *)
(* missed what changed it: the sites a signup replaces wait for their      *)
(* activation, the site a wizard sets up was not.                          *)
SignupTold(w) ==
  txn[w].op = "signup" => \A t \in txn[w].ids :
    ~Fresh(t) /\ (t \in There => site[t].pending \/ <<"activates", t>> \in missed[w])

WizardTold(w) ==
  txn[w].op = "wizard" => \A t \in Sites : t = txn[w].id =>
    ~Fresh(t) /\ (t \in There => ~site[t].done \/ <<"sets up", t>> \in missed[w])

ReadsHold == \A w \in Threads : SignupTold(w) /\ WizardTold(w)

IInv == TypeOK /\ LinkWorks /\ ReadsHold

-----------------------------------------------------------------------------
(* Types. *)

Rows == [row : {"unused", "there", "gone"}, active : BOOLEAN, pending : BOOLEAN,
         sub : Names \cup {None}, name : Names \cup {None}, host : Names \cup {None},
         done : BOOLEAN, users : SUBSET (Usernames \cup {None}), age : {"new", "day", "old"}]
Txns == [op : {"none", "signup", "activation", "wizard"}, id : Sites \cup {None},
         ids : SUBSET Sites, name : Names \cup {None}, user : Usernames \cup {None}]
Jobs == [at : {"rest", "demo", "loop", "check"}, id : Sites \cup {None}, left : SUBSET Sites, size : Nat]
Missable == {"activates", "sets up"} \X Sites

(* A row that is not there has nothing, one that waits has a subscriber,   *)
(* and one with a subscriber has a name.                                   *)
Fine(t) ==
  /\ site[t].pending => site[t].sub # None
  /\ site[t].sub # None => site[t].name # None
  /\ t \notin There => site[t] = [Unused EXCEPT !.row = site[t].row]

LEMMA TypeParts ==
  TypeOK <=> /\ site \in [Sites -> Rows] /\ \A t \in Sites : Fine(t)
             /\ txn \in [Threads -> Txns]
             /\ \A w \in Threads : txn[w].op = "signup" => txn[w].name # None
             /\ missed \in [Threads -> SUBSET Missable]
             /\ mem \subseteq Sites /\ job \in Jobs
  BY DEF TypeOK, Rows, Txns, Jobs, Missable, Fine

(* The fields of a row that is not there. *)
LEMMA NotThere ==
  ASSUME TypeOK, NEW t \in Sites, t \notin There
  PROVE  /\ ~site[t].active /\ ~site[t].pending /\ ~site[t].done
         /\ site[t].sub = None /\ site[t].name = None /\ site[t].host = None
         /\ site[t].users = {} /\ site[t].row # "there"
<1>1. site[t] = [Unused EXCEPT !.row = site[t].row] /\ site[t] \in Rows
  BY TypeParts DEF Fine
<1>2. site[t].row # "there"
  BY DEF There
<1> QED
  BY <1>1, <1>2 DEF Unused

LEMMA ThereRow == ASSUME NEW t \in Sites PROVE t \in There <=> site[t].row = "there"
  BY DEF There

(* The rows that are written. *)
Waiting(n)  == [Unused EXCEPT !.row = "there", !.pending = TRUE, !.sub = n, !.name = n]
Made(n)     == [Unused EXCEPT !.row = "there", !.active = TRUE, !.name = n]
Activated(s) == [s EXCEPT !.active = TRUE, !.pending = FALSE]
GoneRow     == [Unused EXCEPT !.row = "gone"]

LEMMA WrittenRows ==
  /\ \A n \in Names : /\ Waiting(n) \in Rows /\ Waiting(n).row = "there" /\ Waiting(n).pending
                      /\ Waiting(n).sub = n /\ Waiting(n).name = n /\ Waiting(n).done = FALSE
                      /\ Waiting(n).users = {}
  /\ \A n \in Names : /\ Made(n) \in Rows /\ Made(n).row = "there" /\ ~Made(n).pending
                      /\ Made(n).sub = None /\ Made(n).name = n
  /\ \A s \in Rows : /\ Activated(s) \in Rows /\ Activated(s).row = s.row /\ ~Activated(s).pending
                     /\ Activated(s).sub = s.sub /\ Activated(s).name = s.name
                     /\ Activated(s).users = s.users
  /\ GoneRow \in Rows /\ GoneRow.row = "gone" /\ ~GoneRow.pending /\ GoneRow.sub = None
  /\ GoneRow = [Unused EXCEPT !.row = GoneRow.row]
<1>1. \A n \in Names : /\ Waiting(n) \in Rows /\ Waiting(n).row = "there" /\ Waiting(n).pending
                       /\ Waiting(n).sub = n /\ Waiting(n).name = n /\ Waiting(n).done = FALSE
                       /\ Waiting(n).users = {}
  BY DEF Waiting, Unused, Rows
<1>2. \A n \in Names : /\ Made(n) \in Rows /\ Made(n).row = "there" /\ ~Made(n).pending
                       /\ Made(n).sub = None /\ Made(n).name = n
  BY DEF Made, Unused, Rows
<1>3. \A s \in Rows : /\ Activated(s) \in Rows /\ Activated(s).row = s.row /\ ~Activated(s).pending
                      /\ Activated(s).sub = s.sub /\ Activated(s).name = s.name
                      /\ Activated(s).users = s.users
  BY DEF Activated, Rows
<1>4. /\ GoneRow \in Rows /\ GoneRow.row = "gone" /\ ~GoneRow.pending /\ GoneRow.sub = None
      /\ GoneRow = [Unused EXCEPT !.row = GoneRow.row]
  BY DEF GoneRow, Unused, Rows
<1> QED
  BY <1>1, <1>2, <1>3, <1>4

(* All that a step does to a site: it stays, goes for one of these         *)
(* reasons, is made, is set up when it was not, or is edited.              *)
Goes(t) ==
  \/ t \notin There \/ site[t].pending \/ DemoExpires \/ \E w \in Threads : Delete(w, t)
  \/ ReplacedByRace(t)

Change(t) ==
  \/ site'[t] = site[t]
  \/ Goes(t) /\ site'[t] = GoneRow
  \/ Fresh(t) /\ \E n \in Names : site'[t] = Waiting(n)
  \/ Fresh(t) /\ \E n \in Names : site'[t] = SetUp(t, Made(n), None)
  \/ t \in There /\ ~site[t].done /\ \E u \in Usernames : site'[t] = SetUp(t, Activated(site[t]), u)
  \/ /\ t \in There /\ (~site[t].done \/ SetUpByRace(t))
     /\ \E u \in Usernames \cup {None} : site'[t] = SetUp(t, site[t], u)
  \/ t \in There /\ t # Root /\ \E on \in BOOLEAN, n \in Names :
       site'[t] = [site[t] EXCEPT !.active = on, !.name = n]
  \/ t \in There /\ \E a \in {"day", "old"} : site'[t] = [site[t] EXCEPT !.age = a]

LEMMA ChangeTypes ==
  ASSUME TypeOK, NEW t \in Sites, Change(t)
  PROVE  /\ site'[t] \in Rows
         /\ site'[t].pending => site'[t].sub # None
         /\ site'[t].sub # None => site'[t].name # None
         /\ site'[t].row # "there" => site'[t] = [Unused EXCEPT !.row = site'[t].row]
<1>0. site[t] \in Rows /\ Fine(t) /\ (t \in There <=> site[t].row = "there")
  BY TypeParts, ThereRow
<1>1. CASE site'[t] = site[t]
  BY <1>0, <1>1 DEF Fine
<1>2. CASE site'[t] = GoneRow
  BY <1>2, WrittenRows
<1>3. CASE \E n \in Names : site'[t] = Waiting(n)
  BY <1>3, WrittenRows, TenantsAssumption
<1>4. ASSUME NEW n \in Names, site'[t] = SetUp(t, Made(n), None)
      PROVE  /\ site'[t] \in Rows /\ ~site'[t].pending /\ site'[t].sub = None /\ site'[t].row = "there"
  <2>1. Made(n) \in Rows /\ Made(n).row = "there" /\ ~Made(n).pending /\ Made(n).sub = None
    BY WrittenRows
  <2>2. None \in Usernames \cup {None}
    OBVIOUS
  <2> DEFINE s == Made(n)
  <2>3. /\ SetUp(t, s, None) \in Rows /\ SetUp(t, s, None).row = s.row
        /\ SetUp(t, s, None).pending = s.pending /\ SetUp(t, s, None).sub = s.sub
    BY <2>1, <2>2, TenantsAssumption DEF SetUp, Rows
  <2> QED
    BY <1>4, <2>1, <2>3
<1>5. ASSUME t \in There, NEW u \in Usernames, site'[t] = SetUp(t, Activated(site[t]), u)
      PROVE  /\ site'[t] \in Rows /\ ~site'[t].pending /\ site'[t].row = "there"
             /\ site'[t].sub = site[t].sub /\ site'[t].name = site[t].name
  <2>1. /\ Activated(site[t]) \in Rows /\ Activated(site[t]).row = site[t].row /\ ~Activated(site[t]).pending
        /\ Activated(site[t]).sub = site[t].sub /\ Activated(site[t]).name = site[t].name
    BY <1>0, WrittenRows
  <2> DEFINE s == Activated(site[t])
  <2>2. /\ SetUp(t, s, u) \in Rows /\ SetUp(t, s, u).row = s.row /\ SetUp(t, s, u).pending = s.pending
        /\ SetUp(t, s, u).sub = s.sub /\ SetUp(t, s, u).name = s.name
    BY <2>1, TenantsAssumption DEF SetUp, Rows
  <2> QED
    BY <1>0, <1>5, <2>1, <2>2
<1>6. ASSUME t \in There, NEW u \in Usernames \cup {None}, site'[t] = SetUp(t, site[t], u)
      PROVE  /\ site'[t] \in Rows /\ site'[t].pending = site[t].pending /\ site'[t].row = "there"
             /\ site'[t].sub = site[t].sub /\ site'[t].name = site[t].name
  <2>1. /\ SetUp(t, site[t], u) \in Rows /\ SetUp(t, site[t], u).row = site[t].row
        /\ SetUp(t, site[t], u).pending = site[t].pending
        /\ SetUp(t, site[t], u).sub = site[t].sub /\ SetUp(t, site[t], u).name = site[t].name
    BY <1>0, TenantsAssumption DEF SetUp, Rows
  <2> QED
    BY <1>0, <1>6, <2>1
<1>7. ASSUME t \in There, NEW on \in BOOLEAN, NEW n \in Names,
             site'[t] = [site[t] EXCEPT !.active = on, !.name = n]
      PROVE  /\ site'[t] \in Rows /\ site'[t].pending = site[t].pending /\ site'[t].row = "there"
             /\ site'[t].sub = site[t].sub /\ site'[t].name = n
  BY <1>0, <1>7 DEF Rows
<1>8. ASSUME t \in There, NEW a \in {"day", "old"}, site'[t] = [site[t] EXCEPT !.age = a]
      PROVE  /\ site'[t] \in Rows /\ site'[t].pending = site[t].pending /\ site'[t].row = "there"
             /\ site'[t].sub = site[t].sub /\ site'[t].name = site[t].name
  BY <1>0, <1>8 DEF Rows
<1> QED
  BY <1>0, <1>1, <1>2, <1>3, <1>4, <1>5, <1>6, <1>7, <1>8, TenantsAssumption DEF Change, Fine

-----------------------------------------------------------------------------
(* Every step changes sites in one of these ways. *)

LEMMA DeletedRows ==
  ASSUME TypeOK, NEW S, site' = Deleted(S)
  PROVE  /\ DOMAIN site' = Sites
         /\ \A t \in Sites : site'[t] = IF t \in S THEN GoneRow ELSE site[t]
  BY DEF Deleted, GoneRow

LEMMA StepChanges ==
  ASSUME TypeOK, ReadsHold, [Next]_vars
  PROVE  site' = [t \in Sites |-> site'[t]] /\ \A t \in Sites : Change(t)
<1>0. site \in [Sites -> Rows] /\ txn \in [Threads -> Txns]
  BY TypeParts
<1>1. CASE UNCHANGED site
  BY <1>0, <1>1 DEF Change
<1>2. ASSUME NEW w \in Threads, NEW t \in Sites, SignupCommits(w, t)
      PROVE  site' = [x \in Sites |-> site'[x]] /\ \A x \in Sites : Change(x)
  <2>1. CASE UNCHANGED site
    BY <1>1, <2>1
  <2>2. CASE site' = [Deleted(txn[w].ids) EXCEPT ![t] = Waiting(txn[w].name)]
    <3>1. txn[w].name \in Names /\ Fresh(t)
      BY <1>0, <1>2, TypeParts DEF SignupCommits, Txns
    <3>2. \A x \in Sites : \/ x = t /\ site'[x] = Waiting(txn[w].name)
                           \/ x # t /\ x \in txn[w].ids /\ site'[x] = GoneRow
                           \/ x # t /\ site'[x] = site[x]
      BY <2>2 DEF Deleted, GoneRow
    <3>3. site' = [x \in Sites |-> site'[x]]
      BY <2>2 DEF Deleted
    <3>4. txn[w].op = "signup"
      BY <1>2 DEF SignupCommits
    <3>5. \A x \in txn[w].ids \cap Sites : Goes(x)
      <4>1. txn'[w] = Idle
        BY <1>0, <1>2 DEF SignupCommits, Ends
      <4> QED
        BY <3>4, <4>1 DEF ReadsHold, SignupTold, Goes, ReplacedByRace, Commits
    <3> QED
      BY <3>1, <3>2, <3>3, <3>5 DEF Change
  <2> QED
    BY <1>2, <2>1, <2>2 DEF SignupCommits, Waiting
<1>3. ASSUME NEW w \in Threads, ActivationCommits(w)
      PROVE  site' = [x \in Sites |-> site'[x]] /\ \A x \in Sites : Change(x)
  <2>1. CASE UNCHANGED site
    BY <1>1, <2>1
  <2>2. CASE ~UNCHANGED site
    <3> DEFINE t == txn[w].id
    <3>1. t \in There /\ ~site[t].done /\ t \in Sites
      BY <1>3, <2>2 DEF ActivationCommits, There
    <3>2. PICK u \in Usernames : site' = [site EXCEPT ![t] = SetUp(t, Activated(site[t]), u)]
      BY <1>3, <2>2, <3>1 DEF ActivationCommits, Activated
    <3>3. \A x \in Sites : site'[x] = IF x = t THEN SetUp(t, Activated(site[t]), u) ELSE site[x]
      BY <1>0, <3>2
    <3>4. site' = [x \in Sites |-> site'[x]]
      BY <1>0, <3>2
    <3> HIDE DEF t
    <3> QED
      BY <3>1, <3>3, <3>4 DEF Change
  <2> QED
    BY <2>1, <2>2
<1>4. ASSUME NEW w \in Threads, WizardCommits(w)
      PROVE  site' = [x \in Sites |-> site'[x]] /\ \A x \in Sites : Change(x)
  <2>1. CASE UNCHANGED site
    BY <1>1, <2>1
  <2>2. CASE ~UNCHANGED site
    <3> DEFINE t == txn[w].id
               u == txn[w].user
    <3>1. t \in There /\ t \in Sites /\ txn[w].op = "wizard" /\ site' = [site EXCEPT ![t] = SetUp(t, site[t], u)]
      BY <1>4, <2>2 DEF WizardCommits, There
    <3>2. \A x \in Sites : site'[x] = IF x = t THEN SetUp(t, site[t], u) ELSE site[x]
      BY <1>0, <3>1
    <3>3. site' = [x \in Sites |-> site'[x]]
      BY <1>0, <3>1
    <3>4. u \in Usernames \cup {None}
      BY <1>0, <3>1, TypeParts DEF Txns
    <3>5. ~site[t].done \/ SetUpByRace(t)
      <4>1. txn'[w] = Idle
        BY <1>0, <1>4 DEF WizardCommits, Ends
      <4> QED
        BY <3>1, <4>1 DEF ReadsHold, WizardTold, SetUpByRace, Commits
    <3> QED
      BY <3>1, <3>2, <3>3, <3>4, <3>5 DEF Change
  <2> QED
    BY <2>1, <2>2
<1>5. ASSUME NEW w \in Threads, NEW t \in Sites, NEW n \in Names, Create(w, t, n)
      PROVE  site' = [x \in Sites |-> site'[x]] /\ \A x \in Sites : Change(x)
  <2>1. site' = [site EXCEPT ![t] = SetUp(t, Made(n), None)] /\ Fresh(t)
    BY <1>5 DEF Create, Made
  <2>2. \A x \in Sites : site'[x] = IF x = t THEN SetUp(t, Made(n), None) ELSE site[x]
    BY <1>0, <2>1
  <2>3. site' = [x \in Sites |-> site'[x]]
    BY <1>0, <2>1
  <2> QED
    BY <2>1, <2>2, <2>3 DEF Change
<1>6. ASSUME NEW w \in Threads, NEW t \in Sites, NEW n \in Names, NEW on \in BOOLEAN, Update(w, t, on, n)
      PROVE  site' = [x \in Sites |-> site'[x]] /\ \A x \in Sites : Change(x)
  <2>1. \A x \in Sites : site'[x] = IF x = t THEN [site[t] EXCEPT !.active = on, !.name = n] ELSE site[x]
    BY <1>0, <1>6 DEF Update
  <2>2. site' = [x \in Sites |-> site'[x]] /\ t \in There /\ t # Root
    BY <1>0, <1>6 DEF Update
  <2> QED
    BY <2>1, <2>2 DEF Change
<1>7. ASSUME NEW t \in Sites, Age(t)
      PROVE  site' = [x \in Sites |-> site'[x]] /\ \A x \in Sites : Change(x)
  <2>1. PICK a \in {"day", "old"} : site' = [site EXCEPT ![t].age = a]
    BY <1>0, <1>7 DEF Age
  <2>2. \A x \in Sites : site'[x] = IF x = t THEN [site[t] EXCEPT !.age = a] ELSE site[x]
    BY <1>0, <2>1
  <2>3. site' = [x \in Sites |-> site'[x]] /\ t \in There
    BY <1>0, <1>7, <2>1 DEF Age
  <2> QED
    BY <2>2, <2>3 DEF Change
<1>8. ASSUME NEW S, \A x \in S \cap Sites : Goes(x), site' = Deleted(S)
      PROVE  site' = [x \in Sites |-> site'[x]] /\ \A x \in Sites : Change(x)
  <2>1. site' = [x \in Sites |-> site'[x]]
    BY <1>8 DEF Deleted
  <2> QED
    BY <1>8, <2>1, DeletedRows DEF Change
<1>9. ASSUME NEW w \in Threads, NEW t \in Sites, Delete(w, t)
      PROVE  site' = [x \in Sites |-> site'[x]] /\ \A x \in Sites : Change(x)
  <2>1. site' = Deleted({t})
    BY <1>9 DEF Delete
  <2>2. \A x \in {t} \cap Sites : Goes(x)
    BY <1>9 DEF Goes
  <2> QED
    BY <1>8, <2>1, <2>2
<1>10. CASE DemoExpires \/ Clean
  <2>1. CASE DemoExpires
    <3>1. PICK S : site' = Deleted(S)
      BY <2>1 DEF DemoExpires
    <3>2. \A x \in S \cap Sites : Goes(x)
      BY <2>1 DEF Goes
    <3> QED
      BY <1>8, <3>1, <3>2
  <2>2. CASE Clean
    <3> DEFINE S == {t \in There : site[t].pending /\ site[t].age # "new"}
    <3>1. site' = Deleted(S)
      BY <2>2 DEF Clean
    <3>2. \A x \in S \cap Sites : Goes(x)
      BY DEF Goes
    <3> QED
      BY <1>8, <3>1, <3>2
  <2> QED
    BY <1>10, <2>1, <2>2
<1>11. CASE Refresh \/ JobChecks \/ JobEnds \/ \E t \in Sites : JobNext(t)
  BY <1>1, <1>11 DEF Refresh, JobChecks, JobEnds, JobNext
<1>12. ASSUME NEW w \in Threads, NEW n \in Names, SignupReads(w, n)
       PROVE  site' = [x \in Sites |-> site'[x]] /\ \A x \in Sites : Change(x)
  BY <1>1, <1>12 DEF SignupReads, Starts
<1>13. ASSUME NEW w \in Threads, NEW t \in Sites, ActivationReads(w, t)
       PROVE  site' = [x \in Sites |-> site'[x]] /\ \A x \in Sites : Change(x)
  BY <1>1, <1>13 DEF ActivationReads, Starts
<1>14. ASSUME NEW w \in Threads, NEW t \in Sites, NEW u \in Usernames, WizardReads(w, t, u)
       PROVE  site' = [x \in Sites |-> site'[x]] /\ \A x \in Sites : Change(x)
  BY <1>1, <1>14 DEF WizardReads, Starts
<1> QED
  <2>1. CASE Next
    BY <2>1, <1>2, <1>3, <1>4, <1>5, <1>6, <1>7, <1>9, <1>10, <1>11, <1>12, <1>13, <1>14 DEF Next
  <2>2. CASE UNCHANGED vars
    BY <1>1, <2>2 DEF vars
  <2> QED
    BY <2>1, <2>2

-----------------------------------------------------------------------------
(* The state after a step. *)

LEMMA SiteTypes ==
  ASSUME TypeOK, ReadsHold, [Next]_vars
  PROVE  site' \in [Sites -> Rows] /\ \A t \in Sites : Fine(t)'
<1>1. site' = [t \in Sites |-> site'[t]] /\ \A t \in Sites : Change(t)
  BY StepChanges
<1>2. ASSUME NEW t \in Sites
      PROVE  /\ site'[t] \in Rows
             /\ site'[t].pending => site'[t].sub # None
             /\ site'[t].sub # None => site'[t].name # None
             /\ site'[t].row # "there" => site'[t] = [Unused EXCEPT !.row = site'[t].row]
  <2>1. Change(t)
    BY <1>1
  <2> QED
    BY <2>1, ChangeTypes
<1>3. site' \in [Sites -> Rows]
  BY <1>1, <1>2
<1>4. ASSUME NEW t \in Sites PROVE t \in There' <=> site'[t].row = "there"
  BY DEF There
<1> QED
  BY <1>2, <1>3, <1>4 DEF Fine

(* What a transaction reads, and what the job goes through. *)
LEMMA RestTypes ==
  ASSUME TypeOK, [Next]_vars
  PROVE  /\ txn' \in [Threads -> Txns]
         /\ \A w \in Threads : txn'[w].op = "signup" => txn'[w].name # None
         /\ missed' \in [Threads -> SUBSET Missable]
         /\ mem' \subseteq Sites /\ job' \in Jobs
<1> DEFINE TxnOK  == /\ txn' \in [Threads -> Txns]
                     /\ \A w \in Threads : txn'[w].op = "signup" => txn'[w].name # None
                     /\ missed' \in [Threads -> SUBSET Missable]
           MemOK  == mem' \subseteq Sites
           JobOK  == job' \in Jobs
<1>0. /\ txn \in [Threads -> Txns] /\ mem \subseteq Sites /\ job \in Jobs
      /\ \A w \in Threads : txn[w].op = "signup" => txn[w].name # None
      /\ missed \in [Threads -> SUBSET Missable]
  BY TypeParts
<1>1. Idle \in Txns /\ Idle.op = "none" /\ Rest \in Jobs
  BY DEF Idle, Txns, Rest, Jobs
<1>2. IsFiniteSet(mem) /\ Cardinality(mem) \in Nat
  BY <1>0, TenantsAssumption, FS_Subset, FS_CardinalityType
<1>3. ASSUME UNCHANGED <<txn, missed>> PROVE TxnOK
  BY <1>0, <1>3
<1>4. ASSUME UNCHANGED mem PROVE MemOK
  BY <1>0, <1>4
<1>5. ASSUME UNCHANGED job PROVE JobOK
  BY <1>0, <1>5
<1>6. ASSUME NEW w \in Threads, Ends(w) PROVE TxnOK /\ MemOK /\ JobOK
  <2>1. txn' \in [Threads -> Txns] /\ \A v \in Threads : txn'[v].op = "signup" => txn'[v].name # None
    BY <1>0, <1>1, <1>6 DEF Ends
  <2>2. News \subseteq Missable
    <3> SUFFICES ASSUME NEW n \in News PROVE n \in Missable
      OBVIOUS
    <3>1. \E t \in Sites : n = <<"activates", t>> \/ n = <<"sets up", t>>
      <4>1. CASE n \in {<<"activates", t>> : t \in {x \in There : site[x].pending /\ ~site'[x].pending}}
        BY <4>1 DEF There
      <4>2. CASE n \in {<<"sets up", t>> : t \in {x \in There : ~site[x].done /\ site'[x].done}}
        BY <4>2 DEF There
      <4> QED
        BY <4>1, <4>2 DEF News
    <3>2. PICK t \in Sites : n = <<"activates", t>> \/ n = <<"sets up", t>>
      BY <3>1
    <3>3. <<"activates", t>> \in Missable /\ <<"sets up", t>> \in Missable
      BY DEF Missable
    <3> QED
      BY <3>2, <3>3
  <2> DEFINE told(v) == IF v = w \/ txn[v] = Idle THEN {} ELSE missed[v] \cup News
  <2>3. \A v \in Threads : told(v) \in SUBSET Missable
    BY <1>0, <2>2
  <2>4. missed' = [v \in Threads |-> told(v)]
    BY <1>6 DEF Ends
  <2>5. missed' \in [Threads -> SUBSET Missable]
    <3> HIDE DEF told
    <3> QED BY <2>3, <2>4
  <2>6. TxnOK
    BY <2>1, <2>5
  <2> QED
    BY <1>4, <1>5, <1>6, <2>6 DEF Ends
<1>7. ASSUME NEW w \in Threads, NEW r \in Txns, r.op = "signup" => r.name # None, Starts(w, r)
      PROVE  TxnOK /\ MemOK /\ JobOK
  <2>1. TxnOK
    BY <1>0, <1>7 DEF Starts
  <2> QED
    BY <1>4, <1>5, <1>7, <2>1 DEF Starts
<1> HIDE DEF TxnOK, MemOK, JobOK
<1>8. ASSUME NEW w \in Threads, NEW n \in Names, SignupReads(w, n) PROVE TxnOK /\ MemOK /\ JobOK
  <2> DEFINE S == {t \in There : site[t].sub = n /\ site[t].pending}
             r == [Idle EXCEPT !.op = "signup", !.name = n, !.ids = S]
  <2>1. S \subseteq Sites
    BY DEF There
  <2>2. r \in Txns /\ (r.op = "signup" => r.name # None)
    BY <2>1, TenantsAssumption DEF Idle, Txns
  <2>3. Starts(w, r)
    BY <1>8 DEF SignupReads
  <2> HIDE DEF r
  <2> QED
    BY <1>7, <2>2, <2>3
<1>9. ASSUME NEW w \in Threads, NEW t \in Sites, ActivationReads(w, t) PROVE TxnOK /\ MemOK /\ JobOK
  <2> DEFINE r == [Idle EXCEPT !.op = "activation", !.id = t]
  <2>1. r \in Txns /\ (r.op = "signup" => r.name # None)
    BY DEF Idle, Txns
  <2>2. Starts(w, r)
    BY <1>9 DEF ActivationReads
  <2> HIDE DEF r
  <2> QED
    BY <1>7, <2>1, <2>2
<1>10. ASSUME NEW w \in Threads, NEW t \in Sites, NEW u \in Usernames, WizardReads(w, t, u)
       PROVE  TxnOK /\ MemOK /\ JobOK
  <2> DEFINE r == [Idle EXCEPT !.op = "wizard", !.id = t, !.user = u]
  <2>1. r \in Txns /\ (r.op = "signup" => r.name # None)
    BY DEF Idle, Txns
  <2>2. Starts(w, r)
    BY <1>10 DEF WizardReads
  <2> HIDE DEF r
  <2> QED
    BY <1>7, <2>1, <2>2
<1>11. ASSUME NEW w \in Threads, NEW t \in Sites,
              SignupCommits(w, t) \/ ActivationCommits(w) \/ WizardCommits(w)
       PROVE  TxnOK /\ MemOK /\ JobOK
  <2>1. Ends(w)
    BY <1>11 DEF SignupCommits, ActivationCommits, WizardCommits
  <2> QED
    BY <1>6, <2>1
<1>12. ASSUME UNCHANGED <<txn, missed, mem, job>> PROVE TxnOK /\ MemOK /\ JobOK
  BY <1>3, <1>4, <1>5, <1>12
<1>13. ASSUME NEW w \in Threads, NoReads(w) PROVE TxnOK /\ MemOK /\ JobOK
  BY <1>12, <1>13 DEF NoReads
<1>14. ASSUME NEW w \in Threads, NEW t \in Sites, NEW n \in Names, NEW on \in BOOLEAN,
              Create(w, t, n) \/ Update(w, t, on, n) \/ Delete(w, t)
       PROVE  TxnOK /\ MemOK /\ JobOK
  <2>1. NoReads(w)
    BY <1>14 DEF Create, Update, Delete
  <2> QED
    BY <1>13, <2>1
<1>15. ASSUME NEW t \in Sites, Age(t) PROVE TxnOK /\ MemOK /\ JobOK
  BY <1>12, <1>15 DEF Age
<1>16. ASSUME Refresh PROVE TxnOK /\ MemOK /\ JobOK
  <2>1. MemOK
    BY <1>16 DEF Refresh, Actives, There, MemOK
  <2> QED
    BY <1>3, <1>5, <1>16, <2>1 DEF Refresh
<1>17. ASSUME DemoExpires PROVE TxnOK /\ MemOK /\ JobOK
  <2>1. MemOK
    BY <1>0, <1>17 DEF DemoExpires, MemOK
  <2>2. JobOK
    BY <1>0, <1>17 DEF DemoExpires, JobOK, Jobs
  <2> QED
    BY <1>3, <1>17, <2>1, <2>2 DEF DemoExpires
<1>18. ASSUME Clean PROVE TxnOK /\ MemOK /\ JobOK
  <2>1. job' = [at |-> "loop", id |-> None, left |-> mem, size |-> Cardinality(mem)]
    BY <1>18 DEF Clean, Rest
  <2>2. JobOK
    BY <1>0, <1>2, <2>1 DEF JobOK, Jobs
  <2> QED
    BY <1>3, <1>4, <1>18, <2>2 DEF Clean
<1>19. ASSUME NEW t \in Sites, JobNext(t) PROVE TxnOK /\ MemOK /\ JobOK
  <2>1. JobOK
    <3>1. CASE job' = Rest
      BY <1>1, <3>1 DEF JobOK
    <3>2. CASE job' = [job EXCEPT !.at = "check", !.id = t, !.left = @ \ {t}]
      BY <1>0, <3>2 DEF JobOK, Jobs
    <3> QED
      BY <1>19, <3>1, <3>2 DEF JobNext
  <2> QED
    BY <1>3, <1>4, <1>19, <2>1 DEF JobNext
<1>20. ASSUME JobChecks PROVE TxnOK /\ MemOK /\ JobOK
  <2>1. JobOK
    <3>1. CASE job' = Rest
      BY <1>1, <3>1 DEF JobOK
    <3>2. CASE job' = [job EXCEPT !.at = "loop"]
      BY <1>0, <3>2 DEF JobOK, Jobs
    <3> QED
      BY <1>20, <3>1, <3>2 DEF JobChecks
  <2> QED
    BY <1>3, <1>4, <1>20, <2>1 DEF JobChecks
<1>21. ASSUME JobEnds PROVE TxnOK /\ MemOK /\ JobOK
  <2>1. JobOK
    BY <1>1, <1>21 DEF JobEnds, JobOK
  <2> QED
    BY <1>3, <1>4, <1>21, <2>1 DEF JobEnds
<1>22. ASSUME UNCHANGED vars PROVE TxnOK /\ MemOK /\ JobOK
  BY <1>12, <1>22 DEF vars
<1>23. ASSUME NEW w \in Threads, NEW t \in Sites, SignupCommits(w, t) PROVE TxnOK /\ MemOK /\ JobOK
  BY <1>11, <1>23
<1>24. ASSUME NEW w \in Threads, ActivationCommits(w) \/ WizardCommits(w) PROVE TxnOK /\ MemOK /\ JobOK
  BY <1>11, <1>24, TenantsAssumption
<1>25. ASSUME NEW w \in Threads, NEW t \in Sites, Delete(w, t) PROVE TxnOK /\ MemOK /\ JobOK
  BY <1>14, <1>25, TenantsAssumption
<1>26. ASSUME NEW w \in Threads, NEW t \in Sites, NEW n \in Names, Create(w, t, n) PROVE TxnOK /\ MemOK /\ JobOK
  BY <1>14, <1>26
<1>27. ASSUME Next PROVE TxnOK /\ MemOK /\ JobOK
  BY <1>27, <1>8, <1>9, <1>10, <1>14, <1>15, <1>16, <1>17, <1>18, <1>19, <1>20, <1>21, <1>23, <1>24, <1>25, <1>26
  DEF Next
<1>28. TxnOK /\ MemOK /\ JobOK
  BY <1>22, <1>27
<1> QED
  BY <1>28 DEF TxnOK, MemOK, JobOK

LEMMA TypeStep == ASSUME TypeOK, ReadsHold, [Next]_vars PROVE TypeOK'
<1>1. site' \in [Sites -> Rows] /\ \A t \in Sites : Fine(t)'
  BY SiteTypes
<1>2. /\ txn' \in [Threads -> Txns] /\ \A w \in Threads : txn'[w].op = "signup" => txn'[w].name # None
      /\ missed' \in [Threads -> SUBSET Missable]
      /\ mem' \subseteq Sites /\ job' \in Jobs
  BY RestTypes
<1>3. TypeOK' <=> /\ site' \in [Sites -> Rows] /\ \A t \in Sites : Fine(t)'
                  /\ txn' \in [Threads -> Txns]
                  /\ \A w \in Threads : txn'[w].op = "signup" => txn'[w].name # None
                  /\ missed' \in [Threads -> SUBSET Missable]
                  /\ mem' \subseteq Sites /\ job' \in Jobs
  BY DEF TypeOK, Rows, Txns, Jobs, Missable, Fine
<1> QED
  BY <1>1, <1>2, <1>3

(* A link works in each of the rows that a step writes. *)
Works(s) ==
  s.row = "there" /\ s.sub # None =>
    /\ s.pending /\ s.users = {} => ~s.done
    /\ ~s.pending => s.done /\ s.users # {} /\ s.host # None

LEMMA ChangeWorks ==
  ASSUME TypeOK, NEW t \in Sites, Change(t), Works(site[t])
  PROVE  Works(site'[t])
<1>0. site[t] \in Rows /\ (site[t].sub # None => site[t].name # None) /\ RootName # None
  BY TypeParts, TenantsAssumption DEF Fine
<1>1. ASSUME site'[t] = GoneRow PROVE Works(site'[t])
  BY <1>1, WrittenRows DEF Works
<1>2. ASSUME NEW n \in Names, site'[t] = Waiting(n) PROVE Works(site'[t])
  BY <1>2, WrittenRows DEF Works
<1>3. ASSUME NEW n \in Names, site'[t] = SetUp(t, Made(n), None) PROVE Works(site'[t])
  <2>1. Made(n) \in Rows /\ Made(n).sub = None
    BY WrittenRows
  <2>2. SetUp(t, Made(n), None).sub = None
    BY <2>1 DEF SetUp, Rows
  <2> QED
    BY <1>3, <2>2 DEF Works
<1>4. ASSUME NEW s \in Rows, NEW u, s.sub # None => s.name # None, site'[t] = SetUp(t, s, u)
      PROVE  Works(site'[t])
  <2>1. /\ site'[t].sub = s.sub /\ site'[t].done /\ u \in site'[t].users
        /\ site'[t].host = IF t = Root THEN RootName ELSE s.name
    BY <1>4 DEF SetUp, Rows
  <2> QED
    BY <1>0, <1>4, <2>1 DEF Works
<1>5. ASSUME NEW u, site'[t] = SetUp(t, Activated(site[t]), u) PROVE Works(site'[t])
  <2>1. /\ Activated(site[t]) \in Rows /\ Activated(site[t]).sub = site[t].sub
        /\ Activated(site[t]).name = site[t].name
    BY <1>0, WrittenRows
  <2> QED
    BY <1>0, <1>4, <1>5, <2>1
<1>6. ASSUME NEW u, site'[t] = SetUp(t, site[t], u) PROVE Works(site'[t])
  BY <1>0, <1>4, <1>6
<1>7. ASSUME NEW on \in BOOLEAN, NEW n \in Names, site'[t] = [site[t] EXCEPT !.active = on, !.name = n]
      PROVE  Works(site'[t])
  <2>1. /\ site'[t].row = site[t].row /\ site'[t].sub = site[t].sub /\ site'[t].pending = site[t].pending
        /\ site'[t].users = site[t].users /\ site'[t].done = site[t].done /\ site'[t].host = site[t].host
    BY <1>0, <1>7 DEF Rows
  <2> QED
    BY <2>1 DEF Works
<1>8. ASSUME NEW a \in {"day", "old"}, site'[t] = [site[t] EXCEPT !.age = a]
      PROVE  Works(site'[t])
  <2>1. /\ site'[t].row = site[t].row /\ site'[t].sub = site[t].sub /\ site'[t].pending = site[t].pending
        /\ site'[t].users = site[t].users /\ site'[t].done = site[t].done /\ site'[t].host = site[t].host
    BY <1>0, <1>8 DEF Rows
  <2> QED
    BY <2>1 DEF Works
<1> QED
  BY <1>1, <1>2, <1>3, <1>5, <1>6, <1>7, <1>8 DEF Change

LEMMA LinkWorksParts == LinkWorks <=> \A t \in Sites : Works(site[t])
  BY DEF LinkWorks, Works, There

LEMMA LinkStep == ASSUME TypeOK, ReadsHold, LinkWorks, [Next]_vars PROVE LinkWorks'
<1>1. \A t \in Sites : Works(site'[t])
  BY StepChanges, ChangeWorks, LinkWorksParts
<1>2. LinkWorks' <=> \A t \in Sites : Works(site'[t])
  BY DEF LinkWorks, Works, There
<1> QED
  BY <1>1, <1>2

-----------------------------------------------------------------------------
(* A site that a thread has found is never made again, and when it is      *)
(* activated or set up before the thread commits, the thread is told.      *)

LEMMA RowMoves ==
  ASSUME TypeOK, NEW t \in Sites, Change(t), ~Fresh(t)
  PROVE  ~Fresh(t)' /\ (t \in There' => t \in There)
<1>0. site[t] \in Rows /\ site[t].row # "unused"
  BY TypeParts DEF Fresh
<1> SUFFICES site'[t].row # "unused" /\ (site'[t].row = "there" => site[t].row = "there")
  BY DEF Fresh, There
<1>1. ASSUME NEW s \in Rows, NEW u, site'[t] = SetUp(t, s, u) PROVE site'[t].row = s.row
  BY <1>1 DEF SetUp, Rows
<1>2. ASSUME NEW u, site'[t] = SetUp(t, Activated(site[t]), u) PROVE site'[t].row = site[t].row
  BY <1>0, <1>1, <1>2, WrittenRows
<1>3. ASSUME NEW u, site'[t] = SetUp(t, site[t], u) PROVE site'[t].row = site[t].row
  BY <1>0, <1>1, <1>3
<1>4. ASSUME NEW on \in BOOLEAN, NEW n \in Names, site'[t] = [site[t] EXCEPT !.active = on, !.name = n]
      PROVE  site'[t].row = site[t].row
  BY <1>0, <1>4 DEF Rows
<1>5. ASSUME NEW a \in {"day", "old"}, site'[t] = [site[t] EXCEPT !.age = a]
      PROVE  site'[t].row = site[t].row
  BY <1>0, <1>5 DEF Rows
<1>6. site'[t] = GoneRow => site'[t].row = "gone"
  BY WrittenRows
<1> QED
  BY <1>0, <1>2, <1>3, <1>4, <1>5, <1>6 DEF Change

(* Steps that end no transaction neither activate nor set up what is there.*)
Mild == \A t \in There : site'[t].row = "there" =>
  site'[t].pending = site[t].pending /\ site'[t].done = site[t].done

LEMMA MildStep ==
  ASSUME TypeOK, [Next]_vars, UNCHANGED <<txn, missed>>,
         \A w \in Threads : ~Ends(w)
  PROVE  Mild
<1>0. site \in [Sites -> Rows] /\ There \subseteq Sites
  BY TypeParts DEF There
<1>1. ASSUME UNCHANGED site PROVE Mild
  BY <1>1 DEF Mild
<1>2. ASSUME NEW S, site' = Deleted(S) PROVE Mild
  BY <1>0, <1>2, DeletedRows, WrittenRows DEF Mild
<1>3. ASSUME NEW w \in Threads, NEW t \in Sites, NEW n \in Names, Create(w, t, n) PROVE Mild
  <2>1. \A x \in Sites : x # t => site'[x] = site[x]
    BY <1>0, <1>3 DEF Create
  <2>2. t \notin There
    BY <1>3 DEF Create, Fresh, There
  <2> QED
    BY <1>0, <2>1, <2>2 DEF Mild
<1>4. ASSUME NEW w \in Threads, NEW t \in Sites, NEW on \in BOOLEAN, NEW n \in Names, Update(w, t, on, n)
      PROVE  Mild
  <2>1. \A x \in Sites : site'[x] = IF x = t THEN [site[t] EXCEPT !.active = on, !.name = n] ELSE site[x]
    BY <1>0, <1>4 DEF Update
  <2>2. /\ [site[t] EXCEPT !.active = on, !.name = n].pending = site[t].pending
        /\ [site[t] EXCEPT !.active = on, !.name = n].done = site[t].done
    BY <1>0 DEF Rows
  <2> QED
    BY <1>0, <2>1, <2>2 DEF Mild
<1>5. ASSUME NEW t \in Sites, Age(t) PROVE Mild
  <2>1. PICK a \in {"day", "old"} : site' = [site EXCEPT ![t].age = a]
    BY <1>0, <1>5 DEF Age
  <2>2. \A x \in Sites : site'[x].pending = site[x].pending /\ site'[x].done = site[x].done
    BY <1>0, <2>1 DEF Rows
  <2> QED
    BY <1>0, <2>2 DEF Mild
<1>6. ASSUME NEW w \in Threads, NEW t \in Sites, Delete(w, t) PROVE Mild
  BY <1>2, <1>6 DEF Delete
<1>7. ASSUME DemoExpires \/ Clean PROVE Mild
  BY <1>2, <1>7 DEF DemoExpires, Clean
<1>8. ASSUME Refresh \/ JobChecks \/ JobEnds \/ (\E t \in Sites : JobNext(t)) \/ UNCHANGED vars PROVE Mild
  BY <1>1, <1>8 DEF Refresh, JobChecks, JobEnds, JobNext, vars
<1>10. ASSUME NEW w \in Threads, NEW n \in Names, SignupReads(w, n) PROVE Mild
  BY <1>1, <1>10 DEF SignupReads, Starts
<1>11. ASSUME NEW w \in Threads, NEW t \in Sites, ActivationReads(w, t) PROVE Mild
  BY <1>1, <1>11 DEF ActivationReads, Starts
<1>12. ASSUME NEW w \in Threads, NEW t \in Sites, NEW u \in Usernames, WizardReads(w, t, u) PROVE Mild
  BY <1>1, <1>12 DEF WizardReads, Starts
<1>13. ASSUME NEW w \in Threads, NEW t \in Sites,
              SignupCommits(w, t) \/ ActivationCommits(w) \/ WizardCommits(w)
       PROVE  Ends(w)
  BY <1>13 DEF SignupCommits, ActivationCommits, WizardCommits
<1>14. CASE Next
  BY <1>14, <1>3, <1>4, <1>5, <1>6, <1>7, <1>8, <1>10, <1>11, <1>12, <1>13, TenantsAssumption DEF Next
<1> QED
  BY <1>8, <1>14

LEMMA IdleTold == ASSUME NEW w \in Threads, txn'[w].op \in {"none", "activation"} PROVE SignupTold(w)' /\ WizardTold(w)'
  BY DEF SignupTold, WizardTold

(* A thread whose transaction goes on while something else happens. *)
LEMMA StaysTold ==
  ASSUME TypeOK, ReadsHold, [Next]_vars, NEW w \in Threads, txn'[w] = txn[w],
         \/ missed'[w] = missed[w] \cup News
         \/ missed'[w] = missed[w] /\ Mild
  PROVE  SignupTold(w)' /\ WizardTold(w)'
<1>0. site \in [Sites -> Rows] /\ txn[w] \in Txns
  BY TypeParts
<1>1. \A t \in Sites : ~Fresh(t) => ~Fresh(t)' /\ (t \in There' => t \in There)
  BY StepChanges, RowMoves
<1>2. \A t \in There : t \in There' =>
        /\ site[t].pending \/ <<"activates", t>> \in missed[w] =>
             site'[t].pending \/ <<"activates", t>> \in missed'[w]
        /\ ~site[t].done \/ <<"sets up", t>> \in missed[w] =>
             ~site'[t].done \/ <<"sets up", t>> \in missed'[w]
  BY DEF News, Mild, There
<1>3. SignupTold(w)'
  <2> SUFFICES ASSUME txn[w].op = "signup", NEW t \in txn[w].ids
               PROVE  ~Fresh(t)' /\ (t \in There' => site'[t].pending \/ <<"activates", t>> \in missed'[w])
    BY DEF SignupTold
  <2>1. t \in Sites
    BY <1>0 DEF Txns
  <2>2. ~Fresh(t) /\ (t \in There => site[t].pending \/ <<"activates", t>> \in missed[w])
    BY DEF ReadsHold, SignupTold
  <2> QED
    BY <1>1, <1>2, <2>1, <2>2
<1>4. WizardTold(w)'
  <2> SUFFICES ASSUME txn[w].op = "wizard", NEW t \in Sites, t = txn[w].id
               PROVE  ~Fresh(t)' /\ (t \in There' => ~site'[t].done \/ <<"sets up", t>> \in missed'[w])
    BY DEF WizardTold
  <2>2. ~Fresh(t) /\ (t \in There => ~site[t].done \/ <<"sets up", t>> \in missed[w])
    BY DEF ReadsHold, WizardTold
  <2> QED
    BY <1>1, <1>2, <2>2
<1> QED
  BY <1>3, <1>4

LEMMA ReadsStep ==
  ASSUME TypeOK, ReadsHold, [Next]_vars
  PROVE  ReadsHold'
<1>0. site \in [Sites -> Rows] /\ txn \in [Threads -> Txns] /\ Idle.op = "none"
  BY TypeParts DEF Idle
<1>1. ASSUME NEW w \in Threads, Ends(w) PROVE ReadsHold'
  <2> SUFFICES ASSUME NEW v \in Threads PROVE SignupTold(v)' /\ WizardTold(v)'
    BY DEF ReadsHold
  <2>1. txn'[v] = (IF v = w THEN Idle ELSE txn[v])
    BY <1>0, <1>1 DEF Ends
  <2>2. txn'[v] # Idle => missed'[v] = missed[v] \cup News
    BY <1>1, <2>1 DEF Ends
  <2>3. CASE txn'[v] = Idle
    BY <1>0, <2>3, IdleTold
  <2>4. CASE txn'[v] # Idle
    BY <2>1, <2>2, <2>4, StaysTold
  <2> QED
    BY <2>3, <2>4
<1>2. ASSUME UNCHANGED <<txn, missed>>, \A w \in Threads : ~Ends(w) PROVE ReadsHold'
  <2> SUFFICES ASSUME NEW v \in Threads PROVE SignupTold(v)' /\ WizardTold(v)'
    BY DEF ReadsHold
  <2>1. Mild
    BY <1>2, MildStep
  <2> QED
    BY <1>2, <2>1, StaysTold
<1>3. ASSUME NEW w \in Threads, NEW r, Starts(w, r), SignupTold(w)' /\ WizardTold(w)' PROVE ReadsHold'
  <2> SUFFICES ASSUME NEW v \in Threads PROVE SignupTold(v)' /\ WizardTold(v)'
    BY DEF ReadsHold
  <2>1. v # w => txn'[v] = txn[v] /\ missed'[v] = missed[v] /\ site' = site
    BY <1>0, <1>3 DEF Starts
  <2>2. Mild
    BY <1>3 DEF Starts, Mild
  <2> QED
    BY <1>3, <2>1, <2>2, StaysTold
<1>4. ASSUME NEW w \in Threads, NEW n \in Names, SignupReads(w, n) PROVE ReadsHold'
  <2> DEFINE S == {t \in There : site[t].sub = n /\ site[t].pending}
             r == [Idle EXCEPT !.op = "signup", !.name = n, !.ids = S]
  <2>1. r.op = "signup" /\ r.ids = S
    BY DEF Idle
  <2>2. Starts(w, r)
    BY <1>4 DEF SignupReads
  <2>3. site' = site /\ txn'[w] = r
    BY <1>0, <2>2 DEF Starts
  <2>4. \A t \in S : site'[t].pending /\ ~Fresh(t)'
    BY <2>3 DEF There, Fresh
  <2> HIDE DEF r, S
  <2>5. SignupTold(w)' /\ WizardTold(w)'
    BY <2>1, <2>3, <2>4 DEF SignupTold, WizardTold
  <2> QED
    BY <1>3, <2>2, <2>5
<1>5. ASSUME NEW w \in Threads, NEW t \in Sites, ActivationReads(w, t) PROVE ReadsHold'
  <2> DEFINE r == [Idle EXCEPT !.op = "activation", !.id = t]
  <2>1. r.op = "activation"
    BY DEF Idle
  <2>2. Starts(w, r)
    BY <1>5 DEF ActivationReads
  <2> HIDE DEF r
  <2>3. txn'[w] = r
    BY <1>0, <2>2 DEF Starts
  <2> QED
    BY <1>3, <2>1, <2>2, <2>3, IdleTold
<1>6. ASSUME NEW w \in Threads, NEW t \in Sites, NEW u \in Usernames, WizardReads(w, t, u) PROVE ReadsHold'
  <2> DEFINE r == [Idle EXCEPT !.op = "wizard", !.id = t, !.user = u]
  <2>1. r.op = "wizard" /\ r.id = t
    BY DEF Idle
  <2>2. Starts(w, r) /\ ~site[t].done /\ t \in There
    BY <1>6 DEF WizardReads
  <2> HIDE DEF r
  <2>3. site' = site /\ txn'[w] = r
    BY <1>0, <2>2 DEF Starts
  <2>4. SignupTold(w)' /\ WizardTold(w)'
    BY <2>1, <2>2, <2>3 DEF SignupTold, WizardTold, There, Fresh
  <2> QED
    BY <1>3, <2>2, <2>4
<1>7. ASSUME NEW w \in Threads, NEW t \in Sites,
             SignupCommits(w, t) \/ ActivationCommits(w) \/ WizardCommits(w)
      PROVE  Ends(w)
  BY <1>7 DEF SignupCommits, ActivationCommits, WizardCommits
<1>8. ASSUME NEW w \in Threads, NEW t \in Sites, NEW n \in Names, NEW on \in BOOLEAN,
             Create(w, t, n) \/ Update(w, t, on, n) \/ Delete(w, t)
      PROVE  UNCHANGED <<txn, missed>>
  BY <1>8 DEF Create, Update, Delete, NoReads
<1>9. ASSUME DemoExpires \/ Clean \/ Refresh \/ JobChecks \/ JobEnds
               \/ \E t \in Sites : Age(t) \/ JobNext(t)
      PROVE  UNCHANGED <<txn, missed>>
  BY <1>9 DEF DemoExpires, Clean, Refresh, JobChecks, JobEnds, Age, JobNext
<1>10. ASSUME NEW w \in Threads, NEW t \in Sites, NEW n \in Names, Create(w, t, n)
       PROVE  UNCHANGED <<txn, missed>>
  BY <1>10 DEF Create, NoReads
<1>11. ASSUME NEW w \in Threads, NEW t \in Sites, Delete(w, t) PROVE UNCHANGED <<txn, missed>>
  BY <1>11 DEF Delete, NoReads
<1>12. ASSUME NEW w \in Threads, ActivationCommits(w) \/ WizardCommits(w) PROVE Ends(w)
  BY <1>12 DEF ActivationCommits, WizardCommits
<1>13. ASSUME UNCHANGED <<txn, missed>> PROVE ReadsHold'
  BY <1>1, <1>2, <1>13
<1>14. CASE Next
  BY <1>14, <1>1, <1>4, <1>5, <1>6, <1>7, <1>8, <1>9, <1>10, <1>11, <1>12, <1>13 DEF Next
<1>15. CASE UNCHANGED vars
  BY <1>13, <1>15 DEF vars
<1> QED
  BY <1>14, <1>15

-----------------------------------------------------------------------------
(* What no step does. *)

LEMMA KeptStep ==
  ASSUME TypeOK, ReadsHold, [Next]_vars
  PROVE  ActivatedIsKept
<1> SUFFICES ASSUME NEW t \in Sites, Kept(t), site'[t].row = "gone"
             PROVE  DemoExpires \/ (\E w \in Threads : Delete(w, t)) \/ ReplacedByRace(t)
  BY DEF ActivatedIsKept
<1>0. site[t] \in Rows /\ t \in There /\ ~site[t].pending /\ site[t].row = "there"
  BY TypeParts DEF Kept, There
<1>1. Change(t)
  BY StepChanges
<1>2. CASE Goes(t)
  BY <1>0, <1>2 DEF Goes
<1>3. CASE site'[t].row = "there" \/ site'[t].row = site[t].row
  BY <1>0, <1>3
<1>4. ASSUME NEW s \in Rows, NEW u, s.row = "there", site'[t] = SetUp(t, s, u) PROVE site'[t].row = "there"
  BY <1>4 DEF SetUp, Rows
<1>5. ASSUME NEW u, site'[t] = SetUp(t, Activated(site[t]), u) PROVE site'[t].row = "there"
  <2>1. Activated(site[t]) \in Rows /\ Activated(site[t]).row = "there"
    BY <1>0, WrittenRows
  <2> QED
    BY <1>4, <1>5, <2>1
<1>6. ASSUME NEW u, site'[t] = SetUp(t, site[t], u) PROVE site'[t].row = "there"
  BY <1>0, <1>4, <1>6
<1>7. ASSUME NEW on \in BOOLEAN, NEW n \in Names, site'[t] = [site[t] EXCEPT !.active = on, !.name = n]
      PROVE  site'[t].row = "there"
  BY <1>0, <1>7 DEF Rows
<1>8. ASSUME NEW a \in {"day", "old"}, site'[t] = [site[t] EXCEPT !.age = a]
      PROVE  site'[t].row = "there"
  BY <1>0, <1>8 DEF Rows
<1>9. ~Fresh(t)
  BY <1>0 DEF Fresh
<1> HIDE DEF Goes
<1> QED
  BY <1>1, <1>2, <1>3, <1>5, <1>6, <1>7, <1>8, <1>9 DEF Change

LEMMA SetUpStep ==
  ASSUME TypeOK, ReadsHold, [Next]_vars
  PROVE  SetUpOnce
<1> SUFFICES ASSUME NEW t \in Sites, site[t].done, site'[t].row = "there"
             PROVE  \/ site'[t].users = site[t].users /\ site'[t].host = site[t].host
                    \/ SetUpByRace(t)
  BY DEF SetUpOnce
<1>0. site[t] \in Rows /\ t \in There /\ site[t].row = "there"
  BY TypeParts, NotThere, ThereRow
<1>1. Change(t)
  BY StepChanges
<1>2. site'[t] # GoneRow
  BY WrittenRows
<1>3. ~Fresh(t)
  BY <1>0 DEF Fresh
<1>4. ASSUME NEW on \in BOOLEAN, NEW n \in Names, site'[t] = [site[t] EXCEPT !.active = on, !.name = n]
      PROVE  site'[t].users = site[t].users /\ site'[t].host = site[t].host
  BY <1>0, <1>4 DEF Rows
<1>5. ASSUME NEW a \in {"day", "old"}, site'[t] = [site[t] EXCEPT !.age = a]
      PROVE  site'[t].users = site[t].users /\ site'[t].host = site[t].host
  BY <1>0, <1>5 DEF Rows
<1> QED
  BY <1>1, <1>2, <1>3, <1>4, <1>5 DEF Change

-----------------------------------------------------------------------------
LEMMA InitInv == Init => IInv
<1> SUFFICES ASSUME Init PROVE IInv
  OBVIOUS
<1> DEFINE First(new) == [Unused EXCEPT !.row = "there", !.active = TRUE, !.name = RootName,
                                        !.done = ~new, !.host = IF new THEN None ELSE RootName]
<1>1. PICK new \in BOOLEAN : site = [t \in Sites |-> IF t # Root THEN Unused ELSE First(new)]
  BY DEF Init
<1>2. /\ First(new) \in Rows /\ First(new).row = "there" /\ First(new).sub = None
      /\ First(new).pending = FALSE
  <2>1. CASE new = TRUE
    BY <2>1, TenantsAssumption DEF Unused, Rows
  <2>2. CASE new = FALSE
    BY <2>2, TenantsAssumption DEF Unused, Rows
  <2> QED
    BY <2>1, <2>2
<1>3. /\ Unused \in Rows /\ Unused.row = "unused" /\ Unused.sub = None /\ ~Unused.pending
      /\ Unused = [Unused EXCEPT !.row = Unused.row]
  BY DEF Unused, Rows
<1> HIDE DEF First
<1>4. site \in [Sites -> Rows]
  BY <1>1, <1>2, <1>3
<1>5. \A t \in Sites : Fine(t) /\ Works(site[t])
  <2> TAKE t \in Sites
  <2>1. CASE t = Root
    BY <1>1, <1>2, <2>1 DEF Fine, Works, There
  <2>2. CASE t # Root
    BY <1>1, <1>3, <2>2 DEF Fine, Works, There
  <2> QED
    BY <2>1, <2>2
<1>6. Idle \in Txns /\ Idle.op = "none" /\ Rest \in Jobs
  BY DEF Idle, Txns, Rest, Jobs
<1>7. /\ txn \in [Threads -> Txns] /\ \A w \in Threads : txn[w].op = "none"
      /\ missed \in [Threads -> SUBSET Missable]
      /\ mem \subseteq Sites /\ job \in Jobs
  BY <1>6, TenantsAssumption DEF Init
<1>8. TypeOK
  BY <1>4, <1>5, <1>7, TypeParts
<1>9. LinkWorks
  BY <1>5, LinkWorksParts
<1>10. ReadsHold
  BY <1>7 DEF ReadsHold, SignupTold, WizardTold
<1> QED
  BY <1>8, <1>9, <1>10 DEF IInv

LEMMA StepInv == ASSUME IInv, [Next]_vars PROVE IInv' /\ ActivatedIsKept /\ SetUpOnce
<1>1. TypeOK /\ LinkWorks /\ ReadsHold
  BY DEF IInv
<1>2. TypeOK' /\ LinkWorks' /\ ReadsHold'
  BY <1>1, TypeStep, LinkStep, ReadsStep
<1>3. ActivatedIsKept /\ SetUpOnce
  BY <1>1, KeptStep, SetUpStep
<1> QED
  BY <1>2, <1>3 DEF IInv

(* A signup that was activated keeps its site until the administrator      *)
(* deletes it or its demonstration expires, its link works until it is     *)
(* used and then does all or nothing, and a site is set up once, whatever  *)
(* cleaning, edits and wizards come in between (handlers/signup.py,        *)
(* handlers/wizard.py, jobs/cleaning.py); only a signup or a wizard whose  *)
(* thread missed the activation or the setting up does otherwise.          *)
THEOREM SitesKeptAlways == Spec => SitesKept
<1>1. Init => IInv
  BY InitInv
<1>2. IInv /\ [Next]_vars => IInv' /\ ActivatedIsKept /\ SetUpOnce
  BY StepInv
<1>3. IInv => TypeOK /\ LinkWorks
  BY DEF IInv
<1> QED
  BY <1>1, <1>2, <1>3, PTL DEF Spec, SitesKept

=============================================================================
