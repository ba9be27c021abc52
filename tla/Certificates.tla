---------------------------- MODULE Certificates ----------------------------
(***************************************************************************)
(* Keys and certificates of the sites: the files an administrator uploads, *)
(* HTTPS switched on and off, certificates of an ACME authority and the    *)
(* daily job that renews them.                                             *)
(*                                                                         *)
(* The same facts are kept three times: in the configuration of each site, *)
(* in State.tenants, which the job goes by, and in SNIMap, which answers   *)
(* connections.  Handlers change some of them, a refresh and a restart     *)
(* copy some.                                                              *)
(***************************************************************************)
EXTENDS Naturals, FiniteSets

CONSTANTS
  Sites, Root,
  Hosts,        (* Hostnames.                                              *)
  FirstHost,    (* That of each site at first.                             *)
  MaxCerts,     (* Bound on keys, and on certificates.                     *)
  None

(* A certificate is of a site and its key, with a number of its own.       *)
Cert(t, k, n) == [site |-> t, key |-> k, no |-> n]
SelfSigned    == [site |-> Root, key |-> 0, no |-> 0]

Numbers == 1 .. MaxCerts
Certs   == [site : Sites, key : Numbers, no : Numbers]

(* What db_load_tls_config returns, and what memory has of a site.         *)
Configs  == [host : Hosts \cup {"ip"}, cert : Certs \cup {SelfSigned}]
Memories == [enabled : BOOLEAN, acme : BOOLEAN, cert : Certs \cup {None}]

ASSUME CertificatesAssumption ==
  /\ Root \in Sites /\ "ip" \notin Hosts
  /\ FirstHost \in [Sites -> Hosts]
  /\ \A s, t \in Sites : FirstHost[s] = FirstHost[t] => s = t
  /\ MaxCerts \in Nat
  /\ None \notin Sites /\ None \notin Nat
  /\ None \notin Certs \cup {SelfSigned} /\ None \notin Configs /\ None \notin Memories

VARIABLES
  cfg,      (* Of each site: active, hostname, https_enabled, acme,        *)
            (* https_key and https_cert.                                   *)
  mem,      (* State.tenants: None, or https_enabled, acme and https_cert. *)
  loaded,   (* SNIMap.configs_by_tid: None, or hostname and certificate.   *)
  context,  (* SNIMap.contexts_by_hostname.                                *)
  age,      (* Of each certificate: 0, 1 when it is to be renewed, 2 when  *)
            (* it has expired.                                             *)
  order,    (* Of each site: None or the key of an order of the handler.   *)
  job,      (* The daily job: where it is, with which site, and those left *)
            (* of its loop.                                                *)
  behind,   (* History: sites with HTTPS on whose settings or name changed *)
            (* hands and were not loaded since.                            *)
  slipped,  (* History: sites that the job loaded after they were switched *)
            (* off or unloaded.                                            *)
  left,     (* History: names a site was loaded with before it was loaded  *)
            (* with another one, without being unloaded.                   *)
  missed    (* History: what happened to the site of the job since its     *)
            (* settings were read for loading.                             *)

hist == <<behind, slipped, left, missed>>
vars == <<cfg, mem, loaded, context, age, order, job, hist>>

Rest    == [at |-> "rest", site |-> None, left |-> {}, key |-> None, got |-> None]
Keys    == {cfg[t].key : t \in Sites} \cup {cfg[t].cert.key : t \in {x \in Sites : cfg[x].cert # None}}
           \cup {order[t] : t \in Sites} \cup {job.key}

(* The least number that is not in use. *)
Least(ns, n) == n \in ns /\ \A k \in ns : n <= k
FreshKey(k)  == Least(Numbers \ Keys, k)
FreshCert(n) == Least({k \in Numbers : age[k] = None}, n)

Remembered(t, e, a, c) == IF mem[t] = None THEN mem
                          ELSE [mem EXCEPT ![t] = [enabled |-> e, acme |-> a, cert |-> c]]

-----------------------------------------------------------------------------
(* Validators and SNIMap. *)

ValidKey(c)    == c.key # None

(* The key must fit the certificate, which must not have expired, but for  *)
(* SNIMap.                                                                 *)
ValidCert(c, expires) == /\ ValidKey(c) /\ c.cert # None
                         /\ c.cert.key = c.key
                         /\ ~(expires /\ age[c.cert.no] = 2)

(* db_load_tls_config: with HTTPS off only the root site has something.    *)
Config(t) ==
  CASE cfg[t].enabled /\ ValidCert(cfg[t], FALSE) -> [host |-> cfg[t].host, cert |-> cfg[t].cert]
    [] ~cfg[t].enabled /\ t = Root -> [host |-> "ip", cert |-> SelfSigned]
    [] OTHER -> None

Without(t) == IF loaded[t] = None THEN context
              ELSE [context EXCEPT ![loaded[t].host] = None]

(* load after unload. *)
Reload(t, c) ==
  /\ loaded' = [loaded EXCEPT ![t] = c]
  /\ context' = IF c = None THEN Without(t) ELSE [Without(t) EXCEPT ![c.host] = c.cert]

Load(t, c) ==
  /\ loaded' = IF c = None THEN loaded ELSE [loaded EXCEPT ![t] = c]
  /\ context' = IF c = None THEN context ELSE [context EXCEPT ![c.host] = c.cert]

Unload(t) == Reload(t, None)

-----------------------------------------------------------------------------
(* Handlers.  They take files whether HTTPS is on or off (the web client   *)
(* offers them while it is off), and run on threads of the database, also  *)
(* while the job waits for its turn on the reactor.  A site has one order  *)
(* of the handler at a time.                                               *)

Files(t) == cfg[t].active

Missed(t, what) ==
  missed' = IF job.at = "load" /\ job.site = t THEN missed \cup {what} ELSE missed

(* The settings of site t change and are not loaded. *)
Changes(t) ==
  /\ behind' = IF cfg[t].enabled THEN behind \cup {t} ELSE behind
  /\ Missed(t, "files")
  /\ UNCHANGED <<slipped, left>>

(* The sites whose name goes with the unloading of others that had it.     *)
Robbed(us) == {t \in Sites : \E u \in us \ {t} : loaded[u] # None /\ loaded[u].host = cfg[t].host}

NewKey(t) ==
  /\ Files(t)
  /\ \E k \in Numbers : FreshKey(k) /\ cfg' = [cfg EXCEPT ![t].key = k]
  /\ Changes(t)
  /\ UNCHANGED <<mem, loaded, context, age, order, job>>

DeleteKey(t) ==
  /\ Files(t) /\ cfg' = [cfg EXCEPT ![t].key = None]
  /\ Changes(t)
  /\ UNCHANGED <<mem, loaded, context, age, order, job>>

NewCert(t) ==
  /\ Files(t)
  /\ \E n \in Numbers, k \in Numbers :
       /\ FreshCert(n) /\ age' = [age EXCEPT ![n] = 0]
       /\ LET c == [cfg[t] EXCEPT !.cert = Cert(t, k, n)]
          IN /\ ValidCert(c, FALSE)
             /\ cfg' = [cfg EXCEPT ![t] = c]
             /\ mem' = Remembered(t, mem[t].enabled, mem[t].acme, c.cert)
  /\ Changes(t)
  /\ UNCHANGED <<loaded, context, order, job>>

DeleteCert(t) ==
  /\ Files(t) /\ mem[t] # None
  /\ cfg' = [cfg EXCEPT ![t].cert = None]
  /\ mem' = Remembered(t, mem[t].enabled, mem[t].acme, None)
  /\ Changes(t)
  /\ UNCHANGED <<loaded, context, age, order, job>>

Enable(t) ==
  /\ cfg[t].active /\ mem[t] # None
  /\ ValidCert(cfg[t], TRUE)
  /\ cfg' = [cfg EXCEPT ![t].enabled = TRUE]
  /\ mem' = Remembered(t, TRUE, mem[t].acme, mem[t].cert)
  /\ Load(t, [host |-> cfg[t].host, cert |-> cfg[t].cert])
  /\ behind' = behind \ {t} /\ slipped' = slipped \ {t} /\ Missed(t, "on")
  /\ left' = [left EXCEPT ![t] = @ \cup {loaded[u].host : u \in {t} \cap {x \in Sites : loaded[x] # None}}]
  /\ UNCHANGED <<age, order, job>>

SwitchedOff(t) ==
  /\ behind' = behind \cup Robbed({t}) /\ slipped' = slipped \ {t} /\ Missed(t, "off")
  /\ UNCHANGED left

Disable(t) ==
  /\ cfg[t].active /\ mem[t] # None /\ cfg[t].enabled
  /\ cfg' = [cfg EXCEPT ![t].enabled = FALSE]
  /\ mem' = Remembered(t, FALSE, mem[t].acme, mem[t].cert)
  /\ Unload(t)
  /\ SwitchedOff(t)
  /\ UNCHANGED <<age, order, job>>

Reset(t) ==
  /\ cfg[t].active /\ mem[t] # None
  /\ cfg' = [cfg EXCEPT ![t] = [active |-> @.active, host |-> @.host, enabled |-> FALSE,
                                 acme |-> FALSE, key |-> None, cert |-> None]]
  /\ mem' = Remembered(t, FALSE, mem[t].acme, mem[t].cert)
  /\ Reload(t, IF t = Root THEN [host |-> "ip", cert |-> SelfSigned] ELSE None)
  /\ SwitchedOff(t)
  /\ UNCHANGED <<age, order, job>>

(* db_acme_cert_request: the key is read, the authority asked, and the     *)
(* certificate written, while other transactions go on.                    *)
Ordered(t, k) ==
  \E n \in Numbers :
    /\ FreshCert(n) /\ age' = [age EXCEPT ![n] = 0]
    /\ cfg' = [cfg EXCEPT ![t] = [@ EXCEPT !.acme = TRUE, !.cert = Cert(t, k, n)]]
    /\ mem' = Remembered(t, mem[t].enabled, mem[t].acme, Cert(t, k, n))

Order(t) ==
  /\ Files(t) /\ order[t] = None /\ cfg[t].key # None
  /\ order' = [order EXCEPT ![t] = cfg[t].key]
  /\ UNCHANGED <<cfg, mem, loaded, context, age, job, hist>>

OrderDone(t) ==
  /\ order[t] # None /\ mem[t] # None /\ order' = [order EXCEPT ![t] = None]
  /\ Ordered(t, order[t])
  /\ Changes(t)
  /\ UNCHANGED <<loaded, context, job>>

OrderRefused(t) ==
  /\ order[t] # None /\ order' = [order EXCEPT ![t] = None]
  /\ UNCHANGED <<cfg, mem, loaded, context, age, job, hist>>

-----------------------------------------------------------------------------
(* The daily job. *)

JobStarts ==
  /\ job = Rest
  /\ job' = [Rest EXCEPT !.at = "loop", !.left = {t \in Sites : mem[t] # None}]
  /\ UNCHANGED <<cfg, mem, loaded, context, age, order, hist>>

(* A site that has no certificate in memory ends the run with an exception,*)
(* and so does one that went away.                                         *)
JobSite(t) ==
  /\ job.at = "loop" /\ t \in job.left
  /\ job' = IF mem[t] = None \/ (mem[t].enabled /\ mem[t].cert = None) THEN Rest
            ELSE IF mem[t].enabled /\ mem[t].acme /\ age[mem[t].cert.no] > 0
                 THEN [job EXCEPT !.at = "order", !.site = t, !.left = @ \ {t}, !.key = cfg[t].key]
                 ELSE [job EXCEPT !.left = @ \ {t}]
  /\ UNCHANGED <<cfg, mem, loaded, context, age, order, hist>>

JobRenewsMutant ==
  /\ job.at = "order"
  /\ mem[job.site] # None
  /\ IF job.key = None THEN UNCHANGED <<cfg, mem, age>> ELSE Ordered(job.site, job.key)
  /\ job' = [job EXCEPT !.at = "loop", !.site = None, !.key = None]
  /\ UNCHANGED <<loaded, context, order, hist>>

(* The configuration is read at the end of the transaction that renews.    *)
JobRenews ==
  /\ job.at = "order" /\ job.key # None /\ mem[job.site] # None
  /\ Ordered(job.site, job.key)
  /\ job' = [job EXCEPT !.at = "load", !.key = None, !.got =
               LET t == job.site
               IN CASE cfg'[t].enabled /\ cfg'[t].key = job.key -> [host |-> cfg[t].host, cert |-> cfg'[t].cert]
                    [] ~cfg'[t].enabled /\ t = Root -> [host |-> "ip", cert |-> SelfSigned]
                    [] OTHER -> None]
  /\ behind' = behind \cup {t \in {job.site} : cfg[t].key # job.key}
  /\ missed' = {}
  /\ UNCHANGED <<loaded, context, order, slipped, left>>

JobRefused ==
  /\ job.at = "order"
  /\ job' = [job EXCEPT !.at = "loop", !.site = None, !.key = None]
  /\ UNCHANGED <<cfg, mem, loaded, context, age, order, hist>>

JobLoads ==
  /\ job.at = "load"
  /\ Reload(job.site, job.got)
  /\ job' = [job EXCEPT !.at = "loop", !.site = None, !.got = None]
  /\ LET t == job.site
         up == missed = {} /\ job.got # None /\ cfg[t].active
     IN /\ behind' = ((behind \ {t}) \cup {x \in {t} : ~up}) \cup Robbed({t})
                        \cup {x \in Sites \ {t} : job.got # None /\ job.got.host = cfg[x].host}
        /\ slipped' = (slipped \ {t}) \cup {x \in {t} : missed \cap {"off", "gone"} # {}}
  /\ missed' = {}
  /\ UNCHANGED <<cfg, mem, age, order, left>>

JobEnds ==
  /\ job.at = "loop" /\ job.left = {} /\ job' = Rest
  /\ UNCHANGED <<cfg, mem, loaded, context, age, order, hist>>

-----------------------------------------------------------------------------
(* What else happens. *)

(* A certificate that nothing knows any more is forgotten.                 *)
Known(n) == \/ \E t \in Sites : \/ cfg[t].cert # None /\ cfg[t].cert.no = n
                                \/ mem[t] # None /\ mem[t].cert # None /\ mem[t].cert.no = n
            \/ \E h \in Hosts : context[h] # None /\ context[h].no = n
            \/ \E t \in Sites : loaded[t] # None /\ loaded[t].cert.no = n
            \/ job.got # None /\ job.got.cert.no = n

Ages(n) ==
  /\ age[n] # None
  /\ age' = [age EXCEPT ![n] = IF ~Known(n) THEN None ELSE IF @ = 2 THEN 2 ELSE @ + 1]
  /\ UNCHANGED <<cfg, mem, loaded, context, order, job, hist>>

Fresh(t) == IF cfg[t].active
            THEN [enabled |-> cfg[t].enabled, acme |-> cfg[t].acme, cert |-> cfg[t].cert]
            ELSE None

(* Any write of an administrator of a site refreshes its settings.  Sites  *)
(* that were switched off are unloaded, those that are on are not loaded.  *)
Refresh(t) ==
  /\ mem' = [x \in Sites |-> IF x = t \/ ~cfg[x].active THEN Fresh(x) ELSE mem[x]]
  /\ LET off == {x \in Sites : mem[x] # None /\ ~cfg[x].active}
     IN /\ loaded' = [x \in Sites |-> IF x \in off THEN None ELSE loaded[x]]
        /\ context' = [h \in DOMAIN context |->
                         IF \E x \in off : loaded[x] # None /\ loaded[x].host = h THEN None ELSE context[h]]
        /\ behind' = behind \cup Robbed(off) /\ slipped' = slipped \ off
        /\ missed' = missed \cup {what \in {"gone"} : job.at = "load" /\ job.site \in off}
  /\ UNCHANGED <<cfg, age, order, job, left>>

Rename(t, h) ==
  /\ Files(t) /\ \A x \in Sites : cfg[x].host # h
  /\ cfg' = [cfg EXCEPT ![t].host = h]
  /\ Changes(t)
  /\ UNCHANGED <<mem, loaded, context, age, order, job>>

Switch(t) ==
  /\ t # Root
  /\ cfg' = [cfg EXCEPT ![t].active = ~@]
  /\ Changes(t)
  /\ UNCHANGED <<mem, loaded, context, age, order, job>>

Restart ==
  /\ mem' = [t \in Sites |-> Fresh(t)]
  /\ loaded' = [t \in Sites |-> IF cfg[t].active THEN Config(t) ELSE None]
  /\ context' = [h \in DOMAIN context |->
       IF \E t \in Sites : loaded'[t] # None /\ loaded'[t].host = h
       THEN (CHOOSE c \in {loaded'[t] : t \in {x \in Sites : loaded'[x] # None}} : c.host = h).cert
       ELSE None]
  /\ order' = [t \in Sites |-> None]
  /\ job' = Rest
  /\ behind' = {t \in behind : ~(cfg[t].active /\ ValidCert(cfg[t], FALSE))}
  /\ slipped' = {} /\ missed' = {} /\ left' = [t \in Sites |-> {}]
  /\ UNCHANGED <<cfg, age>>

-----------------------------------------------------------------------------
Init ==
  /\ cfg = [t \in Sites |-> [active |-> TRUE, host |-> FirstHost[t], enabled |-> FALSE,
                             acme |-> FALSE, key |-> None, cert |-> None]]
  /\ mem = [t \in Sites |-> [enabled |-> FALSE, acme |-> FALSE, cert |-> None]]
  /\ loaded = [t \in Sites |-> IF t = Root THEN [host |-> "ip", cert |-> SelfSigned] ELSE None]
  /\ context = [h \in Hosts \cup {"ip"} |-> IF h = "ip" THEN SelfSigned ELSE None]
  /\ age = [n \in Numbers |-> None]
  /\ order = [t \in Sites |-> None]
  /\ job = Rest
  /\ behind = {} /\ slipped = {} /\ missed = {} /\ left = [t \in Sites |-> {}]

Next ==
  \/ \E t \in Sites :
       \/ NewKey(t) \/ DeleteKey(t) \/ NewCert(t) \/ DeleteCert(t)
       \/ Enable(t) \/ Disable(t) \/ Reset(t)
       \/ Order(t) \/ OrderDone(t) \/ OrderRefused(t)
       \/ JobSite(t) \/ Refresh(t) \/ Switch(t)
       \/ \E h \in Hosts : Rename(t, h)
  \/ JobStarts \/ JobRenews \/ JobRefused \/ JobLoads \/ JobEnds
  \/ \E n \in Numbers : Ages(n)
  \/ Restart

Spec == Init /\ [][Next]_vars

-----------------------------------------------------------------------------
TypeOK ==
  /\ cfg \in [Sites -> [active : BOOLEAN, host : Hosts, enabled : BOOLEAN, acme : BOOLEAN,
                        key : Numbers \cup {None}, cert : Certs \cup {None}]]
  /\ \A t \in Sites : cfg[t].cert # None => cfg[t].cert.site = t /\ age[cfg[t].cert.no] # None
  /\ mem \in [Sites -> Memories \cup {None}]
  /\ loaded \in [Sites -> Configs \cup {None}]
  /\ context \in [Hosts \cup {"ip"} -> Certs \cup {SelfSigned, None}]
  /\ age \in [Numbers -> 0 .. 2 \cup {None}]
  /\ order \in [Sites -> Numbers \cup {None}]
  /\ job \in [at : {"rest", "loop", "order", "load"}, site : Sites \cup {None}, left : SUBSET Sites,
               key : Numbers \cup {None}, got : Configs \cup {None}]
  /\ job.at \in {"order", "load"} => job.site \in Sites
  /\ behind \subseteq Sites /\ slipped \subseteq Sites
  /\ left \in [Sites -> SUBSET (Hosts \cup {"ip"})]
  /\ missed \subseteq {"files", "on", "off", "gone"}

(* A site with HTTPS on answers with the certificate it is configured with,*)
(* also after a renewal, once that is loaded, and after a restart.  It is  *)
(* behind when its files, its name or its being active changed since it    *)
(* was loaded, when a site that had its name before was unloaded or loaded *)
(* late, and when what the job loads was read before such a change; until  *)
(* HTTPS is switched on again, the next renewal, or a restart, if the key  *)
(* fits then.  Nothing else keeps it from being answered for.              *)
ServedIsConfigured ==
  \A t \in Sites \ behind : cfg[t].enabled /\ ~(job.at = "load" /\ job.site = t) =>
    context[cfg[t].host] = cfg[t].cert

Answered(t) == {h \in Hosts : context[h] # None /\ context[h].site = t}

(* A site with HTTPS off is not answered for with a certificate it had,    *)
(* under no name, save those under which it was loaded before it was       *)
(* renamed and switched on again; and save that the job loads its renewed  *)
(* certificate after it was switched off (certificate_check.py).           *)
DisabledIsNotServed ==
  \A t \in Sites \ slipped : ~cfg[t].enabled => Answered(t) \subseteq left[t]

(* The same for a site that was switched off and whose absence is known in *)
(* memory (db_refresh_tenant_cache).                                       *)
GoneIsNotServed ==
  \A t \in Sites \ slipped : mem[t] = None => Answered(t) \subseteq left[t]

(* The certificates served are those configured, none of a site whose      *)
(* HTTPS is off or that is gone, while they are uploaded, ordered, renewed *)
(* and loaded, sites are switched and hostnames change, but for what is    *)
(* said above.                                                             *)
CertificatesFit ==
  TypeOK /\ ServedIsConfigured /\ DisabledIsNotServed /\ GoneIsNotServed
=============================================================================
