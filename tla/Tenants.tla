------------------------------ MODULE Tenants ------------------------------
(***************************************************************************)
(* The sites of an installation: made by the administrator of the root     *)
(* site or signed up for, activated by the link that was mailed, set up by *)
(* the wizard, switched, deleted, cleaned away when nobody activates them, *)
(* and the daily job that goes through those in memory.                    *)
(*                                                                         *)
(* As in Transactions, a transaction is a Read of what its body asks       *)
(* before its first write, and a Commit of the rest, under the lock of the *)
(* database; what other threads commit in between is remembered.           *)
(***************************************************************************)
EXTENDS Naturals, FiniteSets

CONSTANTS
  Sites, Root,   (* Identifiers of tenants, never reused.                  *)
  Names,         (* Subdomains.                                            *)
  RootName,      (* That of the hostname of the root site.                 *)
  Usernames,     (* Of administrators made by the wizard.                  *)
  Threads,       (* Threads of the database pool.                          *)
  Demo,          (* Whether the root site is a demonstration.              *)
  None

ASSUME TenantsAssumption ==
  /\ IsFiniteSet(Sites) /\ Root \in Sites /\ None \notin Sites
  /\ RootName \in Names /\ None \notin Names
  /\ Demo \in BOOLEAN

VARIABLES
  site,  (* The rows of tenants, their subscribers and their settings.     *)
  txn,   (* Of each thread: the transaction and what it has read.          *)
  missed,(* Sites that others activated or set up since then (history).    *)
  mem,   (* Keys of State.tenants.                                         *)
  job    (* The cleaning job: what it does, for which site, the sites left *)
         (* of its loop and how many State.tenants had when it began.      *)

vars == <<site, txn, missed, mem, job>>

Unused == [row |-> "unused", active |-> FALSE, pending |-> FALSE, sub |-> None, name |-> None,
           host |-> None, done |-> FALSE, users |-> {}, age |-> "new"]
Idle   == [op |-> "none", id |-> None, ids |-> {}, name |-> None, user |-> None]
Rest   == [at |-> "rest", id |-> None, left |-> {}, size |-> 0]

There   == {t \in Sites : site[t].row = "there"}
Actives == {t \in There : site[t].active}
Fresh(t) == site[t].row = "unused"

News ==
  {<<"activates", t>> : t \in {x \in There : site[x].pending /\ ~site'[x].pending}}
    \cup {<<"sets up", t>> : t \in {x \in There : ~site[x].done /\ site'[x].done}}

Starts(w, r) ==
  txn[w] = Idle /\ txn' = [txn EXCEPT ![w] = r] /\ UNCHANGED <<site, missed, mem, job>>

Ends(w) ==
  /\ txn' = [txn EXCEPT ![w] = Idle]
  /\ missed' = [v \in Threads |->
       IF v = w \/ txn[v] = Idle THEN {} ELSE missed[v] \cup News]
  /\ UNCHANGED <<mem, job>>

(* Rows that refer to a tenant go with it.                                 *)
Deleted(ids) == [t \in Sites |-> IF t \in ids THEN [Unused EXCEPT !.row = "gone"] ELSE site[t]]

-----------------------------------------------------------------------------
(* signup: the sites of the same subdomain that were not activated are     *)
(* replaced.                                                               *)

SignupReadsMutant(w, n) ==
  /\ n # RootName /\ (\E t \in Sites : Fresh(t))
  /\ Starts(w, [Idle EXCEPT !.op = "signup", !.name = n,
                  !.ids = {t \in There : site[t].sub = n}])

SignupReads(w, n) ==
  /\ n # RootName /\ (\E t \in Sites : Fresh(t))
  /\ Starts(w, [Idle EXCEPT !.op = "signup", !.name = n,
                  !.ids = {t \in There : site[t].sub = n /\ site[t].pending}])

(* The subdomain of a subscriber is unique: the transaction fails when a   *)
(* subscriber of this one is left.                                         *)
SignupCommits(w, t) ==
  /\ txn[w].op = "signup" /\ Fresh(t)
  /\ IF \E x \in There \ txn[w].ids : site[x].sub = txn[w].name
     THEN UNCHANGED site
     ELSE site' = [Deleted(txn[w].ids) EXCEPT ![t] =
            [Unused EXCEPT !.row = "there", !.pending = TRUE,
                           !.sub = txn[w].name, !.name = txn[w].name]]
  /\ Ends(w)

-----------------------------------------------------------------------------
(* db_wizard refuses a site that was set up.  Only the root site keeps the *)
(* hostname of the request; another takes its subdomain.                   *)

SetUp(t, s, user) ==
  [s EXCEPT !.done = TRUE, !.users = @ \cup {user},
            !.host = IF t = Root THEN RootName ELSE s.name]

ActivationReads(w, t) ==
  /\ t \in There /\ site[t].pending
  /\ Starts(w, [Idle EXCEPT !.op = "activation", !.id = t])

(* The row is written before wizard_done is read: of two activations the   *)
(* second is refused, and so is one whose site went away.                  *)
ActivationCommits(w) ==
  LET t == txn[w].id
  IN /\ txn[w].op = "activation"
     /\ IF t \in There /\ ~site[t].done
        THEN \E user \in Usernames :
               site' = [site EXCEPT ![t] = SetUp(t, [@ EXCEPT !.active = TRUE, !.pending = FALSE], user)]
        ELSE UNCHANGED site
     /\ Ends(w)

(* The wizard of a site that is served: wizard_done is read before the     *)
(* first write.                                                            *)
WizardReads(w, t, user) ==
  /\ t \in mem /\ t \in There
  /\ ~site[t].done
  /\ Starts(w, [Idle EXCEPT !.op = "wizard", !.id = t, !.user = user])

(* Usernames of a site are unique. *)
WizardCommits(w) ==
  LET t == txn[w].id
  IN /\ txn[w].op = "wizard"
     /\ site' = IF t \in There /\ txn[w].user \notin site[t].users
                THEN [site EXCEPT ![t] = SetUp(t, @, txn[w].user)] ELSE site
     /\ Ends(w)

-----------------------------------------------------------------------------
(* The administrator of the root site. *)

NoReads(w) == txn[w] = Idle /\ UNCHANGED <<txn, missed, mem, job>>

Create(w, t, n) ==
  /\ NoReads(w) /\ Fresh(t)
  /\ site' = [site EXCEPT ![t] = SetUp(t, [Unused EXCEPT !.row = "there", !.active = TRUE, !.name = n], None)]

(* The hostname stays the one of the wizard. *)
Update(w, t, on, n) ==
  /\ NoReads(w) /\ t \in There \ {Root} /\ n # RootName
  /\ site' = [site EXCEPT ![t].active = on, ![t].name = n]

Delete(w, t) ==
  /\ NoReads(w) /\ t \in There \ {Root}
  /\ site' = Deleted({t})

Age(t) ==
  /\ t \in There
  /\ site' = [site EXCEPT ![t].age = CASE @ = "new" -> "day" [] OTHER -> "old"]
  /\ UNCHANGED <<txn, missed, mem, job>>

(* Every write is followed by a refresh of the sites in memory (Gateway).  *)
Refresh ==
  /\ mem' = Actives
  /\ UNCHANGED <<site, txn, missed, job>>

-----------------------------------------------------------------------------
(* The cleaning job. *)

Thread == \E w \in Threads : txn[w] = Idle

(* delete_expired_demo_platforms refreshes the memory by itself. *)
DemoExpires ==
  /\ job = Rest /\ Demo /\ Thread
  /\ site' = Deleted({t \in There \ {Root} : site[t].age = "old"})
  /\ mem' = {t \in mem : site'[t].row = "there" /\ site'[t].active}
  /\ job' = [job EXCEPT !.at = "demo"]
  /\ UNCHANGED <<txn, missed>>

(* The transaction writes before it looks for signups of a day ago.        *)
Clean ==
  /\ job.at = (IF Demo THEN "demo" ELSE "rest") /\ Thread
  /\ site' = Deleted({t \in There : site[t].pending /\ site[t].age # "new"})
  /\ job' = [Rest EXCEPT !.at = "loop", !.left = mem, !.size = Cardinality(mem)]
  /\ UNCHANGED <<txn, missed, mem>>

JobNextMutant(t) ==
  /\ job.at = "loop"
  /\ IF Cardinality(mem) # job.size
     THEN FALSE
     ELSE t \in job.left \cap mem /\ job' = [job EXCEPT !.at = "check", !.id = t, !.left = @ \ {t}]
  /\ UNCHANGED <<site, txn, missed, mem>>

(* The loop goes over a dictionary: it raises when its size has changed.   *)
JobNext(t) ==
  /\ job.at = "loop"
  /\ IF Cardinality(mem) # job.size
     THEN job' = Rest
     ELSE t \in job.left \cap mem /\ job' = [job EXCEPT !.at = "check", !.id = t, !.left = @ \ {t}]
  /\ UNCHANGED <<site, txn, missed, mem>>

(* The thread looks the site up in memory again, and raises without it.    *)
JobChecks ==
  /\ job.at = "check"
  /\ job' = IF job.id \in mem THEN [job EXCEPT !.at = "loop"] ELSE Rest
  /\ UNCHANGED <<site, txn, missed, mem>>

JobEnds ==
  /\ job.at = "loop" /\ job.left \cap mem = {}
  /\ job' = Rest
  /\ UNCHANGED <<site, txn, missed, mem>>

-----------------------------------------------------------------------------
(* A new installation, or one whose root site was set up.                  *)
Init ==
  /\ \E new \in BOOLEAN :
       site = [t \in Sites |-> IF t # Root THEN Unused ELSE
                 [Unused EXCEPT !.row = "there", !.active = TRUE, !.name = RootName,
                                !.done = ~new, !.host = IF new THEN None ELSE RootName]]
  /\ txn = [w \in Threads |-> Idle]
  /\ missed = [w \in Threads |-> {}]
  /\ mem = {Root}
  /\ job = Rest

Next ==
  \/ \E w \in Threads :
       \/ \E n \in Names : SignupReads(w, n)
       \/ \E t \in Sites : SignupCommits(w, t) \/ ActivationReads(w, t) \/ Delete(w, t)
       \/ \E t \in Sites, n \in Names : Create(w, t, n)
       \/ \E t \in Sites, n \in Names, on \in BOOLEAN : Update(w, t, on, n)
       \/ \E t \in Sites, u \in Usernames : WizardReads(w, t, u)
       \/ ActivationCommits(w) \/ WizardCommits(w)
  \/ \E t \in Sites : Age(t) \/ JobNext(t)
  \/ Refresh \/ DemoExpires \/ Clean \/ JobChecks \/ JobEnds

Spec == Init /\ [][Next]_vars

(* The job is called every day, its transactions get a thread of the pool  *)
(* in their turn, and it goes on when they end.                            *)
FairSpec ==
  /\ Spec
  /\ SF_vars(DemoExpires) /\ SF_vars(Clean) /\ WF_vars(JobChecks) /\ WF_vars(JobEnds)
  /\ WF_vars(\E t \in Sites : JobNext(t)) /\ WF_vars(Refresh)
  /\ WF_vars(\E w \in Threads : \/ ActivationCommits(w) \/ WizardCommits(w)
                                 \/ \E t \in Sites : SignupCommits(w, t))

-----------------------------------------------------------------------------
TypeOK ==
  /\ site \in [Sites -> [row : {"unused", "there", "gone"}, active : BOOLEAN, pending : BOOLEAN,
                         sub : Names \cup {None}, name : Names \cup {None}, host : Names \cup {None},
                         done : BOOLEAN, users : SUBSET (Usernames \cup {None}), age : {"new", "day", "old"}]]
  /\ \A t \in Sites :
       /\ site[t].pending => site[t].sub # None
       /\ site[t].sub # None => site[t].name # None
       /\ t \notin There => site[t] = [Unused EXCEPT !.row = site[t].row]
  /\ txn \in [Threads -> [op : {"none", "signup", "activation", "wizard"}, id : Sites \cup {None},
                          ids : SUBSET Sites, name : Names \cup {None}, user : Usernames \cup {None}]]
  /\ \A w \in Threads : txn[w].op = "signup" => txn[w].name # None
  /\ missed \in [Threads -> SUBSET ({"activates", "sets up"} \X Sites)]
  /\ mem \subseteq Sites
  /\ job \in [at : {"rest", "demo", "loop", "check"}, id : Sites \cup {None}, left : SUBSET Sites, size : Nat]

Commits(w, op) == txn[w].op = op /\ txn'[w] = Idle

(* A site whose subscriber has activated it stays until the administrator  *)
(* deletes it or its demonstration expires: neither the cleaning nor a new *)
(* signup for its subdomain takes it away, save a signup that had found it *)
(* waiting before it was activated (db_preclean_tenant_creation).          *)
Kept(t) == site[t].row = "there" /\ site[t].sub # None /\ ~site[t].pending

ReplacedByRace(t) == \E w \in Threads :
  Commits(w, "signup") /\ t \in txn[w].ids /\ <<"activates", t>> \in missed[w]

ActivatedIsKept ==
  \A t \in Sites : Kept(t) /\ site'[t].row = "gone" =>
    DemoExpires \/ (\E w \in Threads : Delete(w, t)) \/ ReplacedByRace(t)

(* A site is set up once, with one administrator, by its wizard or by its  *)
(* activation: a second one changes nothing, save a wizard that had found  *)
(* the site not set up before another set it up (db_wizard).               *)
SetUpByRace(t) == \E w \in Threads :
  Commits(w, "wizard") /\ txn[w].id = t /\ <<"sets up", t>> \in missed[w]

SetUpOnce ==
  \A t \in Sites : site[t].done /\ site'[t].row = "there" =>
    \/ site'[t].users = site[t].users /\ site'[t].host = site[t].host
    \/ SetUpByRace(t)

(* The link that was mailed works as long as its site waits for it, unless *)
(* the wizard of the site was used; and it does all or nothing: a site it  *)
(* activated is set up, with an administrator and an address.              *)
LinkWorks ==
  \A t \in There : site[t].sub # None =>
    /\ site[t].pending /\ site[t].users = {} => ~site[t].done
    /\ ~site[t].pending => site[t].done /\ site[t].users # {} /\ site[t].host # None

(* A signup that was activated keeps its site, its link works until it is  *)
(* used, and a site is set up once, with the daily cleaning and the expiry *)
(* of demonstrations in between; what two threads that meet can spoil is   *)
(* said with each part.                                                    *)
SitesKept ==
  /\ [](TypeOK /\ LinkWorks)
  /\ [][ActivatedIsKept]_vars
  /\ [][SetUpOnce]_vars

(* Once the sites in memory stay the same the job goes through all of them *)
(* every day, whatever happened while it ran on the days before.           *)
SitesAreChecked ==
  \A m \in SUBSET Sites : \A t \in m :
    <>[](mem = m) => []<>(job.at = "check" /\ job.id = t)
=============================================================================
