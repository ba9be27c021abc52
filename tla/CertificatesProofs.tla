-------------------------- MODULE CertificatesProofs --------------------------
(***************************************************************************)
(* Theorems about Certificates, for every set of sites and hostnames and   *)
(* every number of keys and certificates.                                  *)
(***************************************************************************)
EXTENDS Certificates, TLAPS

-----------------------------------------------------------------------------
(* The type invariant. *)

Settings == [active : BOOLEAN, host : Hosts, enabled : BOOLEAN, acme : BOOLEAN,
             key : Numbers \cup {None}, cert : Certs \cup {None}]
Jobs     == [at : {"rest", "loop", "order", "load"}, site : Sites \cup {None}, left : SUBSET Sites,
             key : Numbers \cup {None}, got : Configs \cup {None}]

(* The certificate of a site is its own and has an age. *)
CertKept == \A t \in Sites : cfg[t].cert # None => cfg[t].cert.site = t /\ age[cfg[t].cert.no] # None

StateOK ==
  /\ cfg \in [Sites -> Settings] /\ CertKept
  /\ mem \in [Sites -> Memories \cup {None}]
  /\ loaded \in [Sites -> Configs \cup {None}]
  /\ context \in [Hosts \cup {"ip"} -> Certs \cup {SelfSigned, None}]
  /\ age \in [Numbers -> 0 .. 2 \cup {None}]
  /\ order \in [Sites -> Numbers \cup {None}]
  /\ job \in Jobs /\ (job.at \in {"order", "load"} => job.site \in Sites)

HistOK ==
  /\ behind \subseteq Sites /\ slipped \subseteq Sites
  /\ left \in [Sites -> SUBSET (Hosts \cup {"ip"})]
  /\ missed \subseteq {"files", "on", "off", "gone"}

LEMMA TypeParts == TypeOK <=> StateOK /\ HistOK
  BY DEF TypeOK, StateOK, HistOK, Settings, Jobs, CertKept

LEMMA MemoryType ==
  ASSUME mem \in [Sites -> Memories \cup {None}], NEW t \in Sites,
         NEW e \in BOOLEAN, NEW a \in BOOLEAN, NEW c \in Certs \cup {None}
  PROVE  Remembered(t, e, a, c) \in [Sites -> Memories \cup {None}]
  BY DEF Remembered, Memories

LEMMA ReloadType ==
  ASSUME loaded \in [Sites -> Configs \cup {None}],
         context \in [Hosts \cup {"ip"} -> Certs \cup {SelfSigned, None}],
         NEW t \in Sites, NEW c \in Configs \cup {None}, Reload(t, c) \/ Load(t, c)
  PROVE  /\ loaded' \in [Sites -> Configs \cup {None}]
         /\ context' \in [Hosts \cup {"ip"} -> Certs \cup {SelfSigned, None}]
<1>1. c # None => c.host \in Hosts \cup {"ip"} /\ c.cert \in Certs \cup {SelfSigned}
  BY DEF Configs
<1>2. Without(t) \in [Hosts \cup {"ip"} -> Certs \cup {SelfSigned, None}]
  BY DEF Without, Configs
<1> QED
  BY <1>1, <1>2 DEF Reload, Load

(* Changes of the settings of a site. *)
LEMMA SettingTypes ==
  ASSUME cfg \in [Sites -> Settings], NEW t \in Sites
  PROVE  /\ \A k \in Numbers \cup {None} : [cfg EXCEPT ![t].key = k] \in [Sites -> Settings]
         /\ \A c \in Certs \cup {None} : [cfg EXCEPT ![t].cert = c] \in [Sites -> Settings]
         /\ \A b \in BOOLEAN : [cfg EXCEPT ![t].enabled = b] \in [Sites -> Settings]
         /\ \A h \in Hosts : [cfg EXCEPT ![t].host = h] \in [Sites -> Settings]
         /\ [cfg EXCEPT ![t].active = ~@] \in [Sites -> Settings]
         /\ \A c \in Certs : [cfg EXCEPT ![t] = [@ EXCEPT !.acme = TRUE, !.cert = c]] \in [Sites -> Settings]
  BY DEF Settings

(* An order that is granted writes the certificate and what memory has. *)
LEMMA OrderedTypes ==
  ASSUME StateOK, NEW t \in Sites, NEW k \in Numbers, mem[t] # None, Ordered(t, k)
  PROVE  /\ cfg' \in [Sites -> Settings] /\ CertKept'
         /\ mem' \in [Sites -> Memories \cup {None}]
         /\ age' \in [Numbers -> 0 .. 2 \cup {None}]
<1>0. /\ cfg \in [Sites -> Settings] /\ CertKept /\ mem \in [Sites -> Memories \cup {None}]
      /\ age \in [Numbers -> 0 .. 2 \cup {None}]
  BY DEF StateOK, CertKept
<1>1. PICK n \in Numbers : /\ age' = [age EXCEPT ![n] = 0]
                           /\ cfg' = [cfg EXCEPT ![t] = [@ EXCEPT !.acme = TRUE, !.cert = Cert(t, k, n)]]
                           /\ mem' = Remembered(t, mem[t].enabled, mem[t].acme, Cert(t, k, n))
  BY DEF Ordered
<1>2. Cert(t, k, n) \in Certs /\ Cert(t, k, n).site = t /\ Cert(t, k, n).no = n
  BY DEF Cert, Certs
<1>3. cfg' \in [Sites -> Settings]
  BY <1>0, <1>1, <1>2, SettingTypes
<1>4. age' \in [Numbers -> 0 .. 2 \cup {None}] /\ \A m \in Numbers : age'[m] = IF m = n THEN 0 ELSE age[m]
  BY <1>0, <1>1
<1>5. mem[t].enabled \in BOOLEAN /\ mem[t].acme \in BOOLEAN
  BY <1>0 DEF Memories
<1>6. mem' \in [Sites -> Memories \cup {None}]
  BY <1>0, <1>1, <1>2, <1>5, MemoryType
<1>7. \A x \in Sites : cfg'[x].cert = IF x = t THEN Cert(t, k, n) ELSE cfg[x].cert
  BY <1>0, <1>1 DEF Settings
<1>8. \A x \in Sites : cfg[x].cert # None => cfg[x].cert.no \in Numbers
  BY <1>0 DEF Settings, Certs
<1>9. CertKept'
  BY <1>0, <1>2, <1>4, <1>7, <1>8, CertificatesAssumption DEF CertKept
<1> QED
  BY <1>3, <1>4, <1>6, <1>9

(* The operations on files. *)
LEMMA FileTypes ==
  ASSUME StateOK, NEW t \in Sites, NewKey(t) \/ DeleteKey(t) \/ NewCert(t) \/ DeleteCert(t)
  PROVE  StateOK'
<1>0. /\ cfg \in [Sites -> Settings] /\ CertKept /\ mem \in [Sites -> Memories \cup {None}]
      /\ age \in [Numbers -> 0 .. 2 \cup {None}]
  BY DEF StateOK, CertKept
<1>1. CASE NewKey(t) \/ DeleteKey(t)
  <2>1. PICK k \in Numbers \cup {None} : cfg' = [cfg EXCEPT ![t].key = k]
    BY <1>1 DEF NewKey, DeleteKey
  <2>2. cfg' \in [Sites -> Settings]
    BY <1>0, <2>1, SettingTypes
  <2>3. \A x \in Sites : cfg'[x].cert = cfg[x].cert
    BY <1>0, <2>1 DEF Settings
  <2>4. UNCHANGED <<mem, loaded, context, age, order, job>>
    BY <1>1 DEF NewKey, DeleteKey
  <2>5. CertKept'
    BY <1>0, <2>3, <2>4 DEF CertKept
  <2> QED
    BY <2>2, <2>4, <2>5, TypeParts DEF StateOK, Settings, CertKept
<1>2. CASE NewCert(t)
  <2>1. PICK n \in Numbers, k \in Numbers :
           /\ age' = [age EXCEPT ![n] = 0]
           /\ cfg' = [cfg EXCEPT ![t] = [cfg[t] EXCEPT !.cert = Cert(t, k, n)]]
           /\ mem' = Remembered(t, mem[t].enabled, mem[t].acme, Cert(t, k, n))
    BY <1>0, <1>2 DEF NewCert, Settings
  <2>2. Cert(t, k, n) \in Certs /\ Cert(t, k, n).site = t /\ Cert(t, k, n).no = n
    BY DEF Cert, Certs
  <2>3. cfg' \in [Sites -> Settings]
    BY <1>0, <2>1, <2>2 DEF Settings
  <2>4. \A x \in Sites : cfg'[x].cert = IF x = t THEN Cert(t, k, n) ELSE cfg[x].cert
    BY <1>0, <2>1 DEF Settings
  <2>5. age' \in [Numbers -> 0 .. 2 \cup {None}] /\ \A m \in Numbers : age'[m] = IF m = n THEN 0 ELSE age[m]
    BY <1>0, <2>1
  <2>6. \A x \in Sites : cfg[x].cert # None => cfg[x].cert.no \in Numbers
    BY <1>0 DEF Settings, Certs
  <2>7. CertKept'
    BY <1>0, <2>2, <2>4, <2>5, <2>6, CertificatesAssumption DEF CertKept
  <2>8. mem' \in [Sites -> Memories \cup {None}]
    BY <1>0, <2>1, <2>2 DEF Remembered, Memories
  <2>9. UNCHANGED <<loaded, context, order, job>>
    BY <1>2 DEF NewCert
  <2> QED
    BY <2>3, <2>5, <2>7, <2>8, <2>9 DEF StateOK, Settings, CertKept
<1>3. CASE DeleteCert(t)
  <2>1. cfg' \in [Sites -> Settings]
    BY <1>0, <1>3, SettingTypes DEF DeleteCert
  <2>2. \A x \in Sites : cfg'[x].cert = IF x = t THEN None ELSE cfg[x].cert
    BY <1>0, <1>3 DEF DeleteCert, Settings
  <2>3. UNCHANGED <<loaded, context, age, order, job>>
    BY <1>3 DEF DeleteCert
  <2>4. CertKept'
    BY <1>0, <2>2, <2>3 DEF CertKept
  <2>5. mem' \in [Sites -> Memories \cup {None}]
    BY <1>0, <1>3 DEF DeleteCert, Remembered, Memories
  <2> QED
    BY <2>1, <2>3, <2>4, <2>5 DEF StateOK, Settings, CertKept
<1> QED
  BY <1>1, <1>2, <1>3

(* HTTPS is switched. *)
LEMMA SwitchTypes ==
  ASSUME StateOK, NEW t \in Sites, Enable(t) \/ Disable(t) \/ Reset(t)
  PROVE  StateOK'
<1>0. /\ cfg \in [Sites -> Settings] /\ CertKept /\ mem \in [Sites -> Memories \cup {None}]
      /\ loaded \in [Sites -> Configs \cup {None}]
      /\ context \in [Hosts \cup {"ip"} -> Certs \cup {SelfSigned, None}]
  BY DEF StateOK, CertKept
<1>1. cfg' \in [Sites -> Settings]
  <2>1. CASE Enable(t)
    BY <1>0, <2>1, SettingTypes DEF Enable
  <2>2. CASE Disable(t)
    BY <1>0, <2>2, SettingTypes DEF Disable
  <2>3. CASE Reset(t)
    BY <1>0, <2>3 DEF Reset, Settings
  <2> QED
    BY <2>1, <2>2, <2>3
<1>2. \A x \in Sites : cfg'[x].cert \in {cfg[x].cert, None}
  <2>1. CASE Enable(t)
    BY <1>0, <2>1 DEF Enable, Settings
  <2>2. CASE Disable(t)
    BY <1>0, <2>2 DEF Disable, Settings
  <2>3. CASE Reset(t)
    BY <1>0, <2>3 DEF Reset, Settings
  <2> QED
    BY <2>1, <2>2, <2>3
<1>3. UNCHANGED <<age, order, job>>
  BY DEF Enable, Disable, Reset
<1>4. CertKept'
  BY <1>0, <1>2, <1>3 DEF CertKept
<1>5. mem' \in [Sites -> Memories \cup {None}]
  <2>1. mem[t] \in Memories
    BY <1>0 DEF Enable, Disable, Reset
  <2>2. mem[t].acme \in BOOLEAN /\ mem[t].cert \in Certs \cup {None}
    BY <2>1 DEF Memories
  <2>3. PICK e \in BOOLEAN : mem' = Remembered(t, e, mem[t].acme, mem[t].cert)
    <3>1. CASE Enable(t)
      BY <3>1 DEF Enable
    <3>2. CASE Disable(t) \/ Reset(t)
      BY <3>2 DEF Disable, Reset
    <3> QED
      BY <3>1, <3>2
  <2> QED
    BY <1>0, <2>2, <2>3, MemoryType
<1>6. /\ loaded' \in [Sites -> Configs \cup {None}]
      /\ context' \in [Hosts \cup {"ip"} -> Certs \cup {SelfSigned, None}]
  <2>1. CASE Enable(t)
    <3>1. [host |-> cfg[t].host, cert |-> cfg[t].cert] \in Configs
      BY <1>0, <2>1 DEF Enable, ValidCert, Settings, Configs
    <3> QED
      BY <1>0, <2>1, <3>1, ReloadType DEF Enable
  <2>2. CASE Disable(t)
    BY <1>0, <2>2, ReloadType DEF Disable, Unload
  <2>3. CASE Reset(t)
    <3>1. (IF t = Root THEN [host |-> "ip", cert |-> SelfSigned] ELSE None) \in Configs \cup {None}
      BY DEF Configs
    <3> QED
      BY <1>0, <2>3, <3>1, ReloadType DEF Reset
  <2> QED
    BY <2>1, <2>2, <2>3
<1> QED
  BY <1>1, <1>3, <1>4, <1>5, <1>6 DEF StateOK, Settings, CertKept

(* Orders of the handler. *)
LEMMA OrderTypes ==
  ASSUME StateOK, NEW t \in Sites, Order(t) \/ OrderDone(t) \/ OrderRefused(t)
  PROVE  StateOK'
<1>0. cfg \in [Sites -> Settings] /\ order \in [Sites -> Numbers \cup {None}]
  BY DEF StateOK, CertKept
<1>1. CASE Order(t) \/ OrderRefused(t)
  <2>1. cfg[t].key \in Numbers \cup {None}
    BY <1>0 DEF Settings
  <2>2. order' \in [Sites -> Numbers \cup {None}]
    BY <1>0, <1>1, <2>1 DEF Order, OrderRefused
  <2>3. UNCHANGED <<cfg, mem, loaded, context, age, job>>
    BY <1>1 DEF Order, OrderRefused
  <2> QED
    BY <2>2, <2>3 DEF StateOK, CertKept
<1>2. CASE OrderDone(t)
  <2>1. order[t] \in Numbers /\ mem[t] # None /\ Ordered(t, order[t])
    BY <1>0, <1>2 DEF OrderDone
  <2>2. order' \in [Sites -> Numbers \cup {None}]
    BY <1>0, <1>2 DEF OrderDone
  <2>3. UNCHANGED <<loaded, context, job>>
    BY <1>2 DEF OrderDone
  <2> QED
    BY <2>1, <2>2, <2>3, OrderedTypes DEF StateOK, Settings, CertKept
<1> QED
  BY <1>1, <1>2

(* The job. *)
LEMMA JobTypes ==
  ASSUME StateOK,
         JobStarts \/ (\E t \in Sites : JobSite(t)) \/ JobRenews \/ JobRefused \/ JobLoads \/ JobEnds
  PROVE  StateOK'
<1>0. /\ cfg \in [Sites -> Settings] /\ job \in Jobs /\ (job.at \in {"order", "load"} => job.site \in Sites)
      /\ loaded \in [Sites -> Configs \cup {None}]
      /\ context \in [Hosts \cup {"ip"} -> Certs \cup {SelfSigned, None}]
  BY DEF StateOK, CertKept
<1>1. CASE JobStarts \/ JobEnds
  <2>1. job' \in Jobs /\ job'.at \in {"rest", "loop"}
    <3>1. CASE JobStarts
      BY <3>1 DEF JobStarts, Rest, Jobs
    <3>2. CASE JobEnds
      BY <3>2 DEF JobEnds, Rest, Jobs
    <3> QED
      BY <1>1, <3>1, <3>2
  <2>2. UNCHANGED <<cfg, mem, loaded, context, age, order>>
    BY <1>1 DEF JobStarts, JobEnds
  <2> QED
    BY <2>1, <2>2 DEF StateOK, Jobs, CertKept
<1>2. ASSUME NEW t \in Sites, JobSite(t)
      PROVE  StateOK'
  <2>1. cfg[t].key \in Numbers \cup {None}
    BY <1>0 DEF Settings
  <2>2. \/ job' = Rest
        \/ job' = [job EXCEPT !.at = "order", !.site = t, !.left = @ \ {t}, !.key = cfg[t].key]
        \/ job' = [job EXCEPT !.left = @ \ {t}] /\ job.at = "loop"
    <3> DEFINE gone == mem[t] = None \/ (mem[t].enabled /\ mem[t].cert = None)
               due  == mem[t].enabled /\ mem[t].acme /\ age[mem[t].cert.no] > 0
    <3>1. /\ job.at = "loop"
          /\ job' = IF gone THEN Rest
                    ELSE IF due THEN [job EXCEPT !.at = "order", !.site = t, !.left = @ \ {t}, !.key = cfg[t].key]
                         ELSE [job EXCEPT !.left = @ \ {t}]
      BY <1>2, Zenon DEF JobSite
    <3> HIDE DEF gone, due
    <3> QED
      BY <3>1
  <2>3. job' \in Jobs /\ (job'.at \in {"order", "load"} => job'.site \in Sites)
    <3>1. CASE job' = Rest
      BY <3>1 DEF Rest, Jobs
    <3>2. CASE job' = [job EXCEPT !.at = "order", !.site = t, !.left = @ \ {t}, !.key = cfg[t].key]
      BY <1>0, <2>1, <3>2 DEF Jobs
    <3>3. CASE job' = [job EXCEPT !.left = @ \ {t}] /\ job.at = "loop"
      BY <1>0, <3>3 DEF Jobs
    <3> QED
      BY <2>2, <3>1, <3>2, <3>3
  <2>4. UNCHANGED <<cfg, mem, loaded, context, age, order>>
    BY <1>2 DEF JobSite
  <2> QED
    BY <2>3, <2>4 DEF StateOK, Jobs, CertKept
<1>3. CASE JobRenews
  <2>1. job.site \in Sites /\ job.key \in Numbers /\ mem[job.site] # None /\ Ordered(job.site, job.key)
    BY <1>0, <1>3 DEF JobRenews, Jobs
  <2>2. /\ cfg' \in [Sites -> Settings] /\ CertKept'
        /\ mem' \in [Sites -> Memories \cup {None}]
        /\ age' \in [Numbers -> 0 .. 2 \cup {None}]
    BY <2>1, OrderedTypes
  <2>3. PICK n \in Numbers : cfg' = [cfg EXCEPT ![job.site] = [@ EXCEPT !.acme = TRUE, !.cert = Cert(job.site, job.key, n)]]
    BY <2>1 DEF Ordered
  <2>4. cfg'[job.site].cert \in Certs
    BY <1>0, <2>1, <2>3 DEF Settings, Cert, Certs
  <2>5. cfg[job.site].host \in Hosts
    BY <1>0, <2>1 DEF Settings
  <2>6. PICK g \in Configs \cup {None} : job' = [job EXCEPT !.at = "load", !.key = None, !.got = g]
    <3>1. [host |-> cfg[job.site].host, cert |-> cfg'[job.site].cert] \in Configs
      BY <2>4, <2>5 DEF Configs
    <3>2. [host |-> "ip", cert |-> SelfSigned] \in Configs
      BY DEF Configs
    <3> QED
      BY <1>3, <3>1, <3>2 DEF JobRenews
  <2>7. job' \in Jobs /\ job'.site = job.site
    BY <1>0, <2>6 DEF Jobs
  <2>8. UNCHANGED <<loaded, context, order>>
    BY <1>3 DEF JobRenews
  <2> QED
    BY <2>1, <2>2, <2>7, <2>8 DEF StateOK, Jobs, Settings, CertKept
<1>4. CASE JobRefused
  <2>1. job' \in Jobs /\ job'.at = "loop"
    BY <1>0, <1>4 DEF JobRefused, Jobs
  <2>2. UNCHANGED <<cfg, mem, loaded, context, age, order>>
    BY <1>4 DEF JobRefused
  <2> QED
    BY <2>1, <2>2 DEF StateOK, Jobs, CertKept
<1>5. CASE JobLoads
  <2>1. job' \in Jobs /\ job'.at = "loop"
    BY <1>0, <1>5 DEF JobLoads, Jobs
  <2>2. job.site \in Sites /\ job.got \in Configs \cup {None} /\ Reload(job.site, job.got)
    BY <1>0, <1>5 DEF JobLoads, Jobs
  <2>3. /\ loaded' \in [Sites -> Configs \cup {None}]
        /\ context' \in [Hosts \cup {"ip"} -> Certs \cup {SelfSigned, None}]
    BY <1>0, <2>2, ReloadType
  <2>4. UNCHANGED <<cfg, mem, age, order>>
    BY <1>5 DEF JobLoads
  <2> QED
    BY <2>1, <2>3, <2>4 DEF StateOK, Jobs, CertKept
<1> QED
  BY <1>1, <1>2, <1>3, <1>4, <1>5

(* What else happens. *)
LEMMA AgesTypes ==
  ASSUME StateOK, NEW n \in Numbers, Ages(n)
  PROVE  StateOK'
<1>0. /\ cfg \in [Sites -> Settings] /\ CertKept /\ age \in [Numbers -> 0 .. 2 \cup {None}]
  BY DEF StateOK, CertKept
<1>1. age' = [age EXCEPT ![n] = IF ~Known(n) THEN None ELSE IF @ = 2 THEN 2 ELSE @ + 1] /\ age[n] # None
  BY DEF Ages
<1>2. age' \in [Numbers -> 0 .. 2 \cup {None}]
  BY <1>0, <1>1
<1>3. Known(n) => age'[n] # None
  BY <1>0, <1>1, CertificatesAssumption
<1>4. \A t \in Sites : cfg[t].cert # None => (cfg[t].cert.no = n => Known(n)) /\ cfg[t].cert.no \in Numbers
  BY <1>0 DEF Known, Settings, Certs
<1>5. UNCHANGED <<cfg, mem, loaded, context, order, job>>
  BY DEF Ages
<1>6. CertKept'
  BY <1>0, <1>1, <1>3, <1>4, <1>5 DEF CertKept
<1> QED
  BY <1>2, <1>5, <1>6 DEF StateOK, CertKept

LEMMA MoveTypes ==
  ASSUME StateOK, NEW t \in Sites, Refresh(t) \/ Switch(t) \/ \E h \in Hosts : Rename(t, h)
  PROVE  StateOK'
<1>0. /\ cfg \in [Sites -> Settings] /\ CertKept
      /\ mem \in [Sites -> Memories \cup {None}]
      /\ loaded \in [Sites -> Configs \cup {None}]
      /\ context \in [Hosts \cup {"ip"} -> Certs \cup {SelfSigned, None}]
  BY DEF StateOK, CertKept
<1>1. CASE Refresh(t)
  <2>1. \A x \in Sites : Fresh(x) \in Memories \cup {None}
    BY <1>0 DEF Fresh, Settings, Memories
  <2>2. mem' \in [Sites -> Memories \cup {None}]
    BY <1>0, <1>1, <2>1 DEF Refresh
  <2>3. loaded' \in [Sites -> Configs \cup {None}]
    BY <1>0, <1>1 DEF Refresh
  <2>4. context' \in [Hosts \cup {"ip"} -> Certs \cup {SelfSigned, None}]
    BY <1>0, <1>1 DEF Refresh
  <2>5. UNCHANGED <<cfg, age, order, job>>
    BY <1>1 DEF Refresh
  <2> QED
    BY <2>2, <2>3, <2>4, <2>5 DEF StateOK, CertKept
<1>2. CASE Switch(t) \/ \E h \in Hosts : Rename(t, h)
  <2>1. cfg' \in [Sites -> Settings]
    <3>1. CASE Switch(t)
      BY <1>0, <3>1, SettingTypes DEF Switch
    <3>2. CASE \E h \in Hosts : Rename(t, h)
      BY <1>0, <3>2 DEF Rename, Settings
    <3> QED
      BY <1>2, <3>1, <3>2
  <2>2. \A x \in Sites : cfg'[x].cert = cfg[x].cert
    BY <1>0, <1>2 DEF Switch, Rename, Settings
  <2>3. UNCHANGED <<mem, loaded, context, age, order, job>>
    BY <1>2 DEF Switch, Rename
  <2>4. CertKept'
    BY <1>0, <2>2, <2>3 DEF CertKept
  <2> QED
    BY <2>1, <2>3, <2>4 DEF StateOK, Settings, CertKept
<1> QED
  BY <1>1, <1>2

LEMMA ConfigType ==
  ASSUME cfg \in [Sites -> Settings], NEW t \in Sites
  PROVE  Config(t) \in Configs \cup {None}
<1>1. cfg[t].host \in Hosts /\ cfg[t].cert \in Certs \cup {None}
  BY DEF Settings
<1>2. ValidCert(cfg[t], FALSE) => cfg[t].cert \in Certs
  BY <1>1 DEF ValidCert
<1>3. ValidCert(cfg[t], FALSE) => [host |-> cfg[t].host, cert |-> cfg[t].cert] \in Configs
  BY <1>1, <1>2 DEF Configs
<1>4. [host |-> "ip", cert |-> SelfSigned] \in Configs
  BY DEF Configs
<1> QED
  BY <1>3, <1>4 DEF Config

(* After a restart a hostname is answered for from what a site has loaded  *)
(* for it, if one has.                                                     *)
LEMMA RestartAnswers ==
  ASSUME StateOK, Restart
  PROVE  /\ loaded' = [t \in Sites |-> IF cfg[t].active THEN Config(t) ELSE None]
         /\ DOMAIN context' = Hosts \cup {"ip"}
         /\ \A h \in Hosts \cup {"ip"} :
              \/ context'[h] = None /\ ~\E t \in Sites : loaded'[t] # None /\ loaded'[t].host = h
              \/ \E t \in Sites : loaded'[t] # None /\ loaded'[t].host = h /\ context'[h] = loaded'[t].cert
<1>1. /\ loaded' = [t \in Sites |-> IF cfg[t].active THEN Config(t) ELSE None]
      /\ context' = [h \in DOMAIN context |->
            IF \E t \in Sites : loaded'[t] # None /\ loaded'[t].host = h
            THEN (CHOOSE c \in {loaded'[t] : t \in {x \in Sites : loaded'[x] # None}} : c.host = h).cert
            ELSE None]
  BY DEF Restart
<1>2. DOMAIN context = Hosts \cup {"ip"}
  BY DEF StateOK, CertKept
<1>3. ASSUME NEW h \in Hosts \cup {"ip"}, NEW t \in Sites, loaded'[t] # None, loaded'[t].host = h
      PROVE  \E x \in Sites : loaded'[x] # None /\ loaded'[x].host = h /\ context'[h] = loaded'[x].cert
  <2> DEFINE L == {loaded'[x] : x \in {y \in Sites : loaded'[y] # None}}
             c == CHOOSE e \in L : e.host = h
  <2>1. loaded'[t] \in L
    BY <1>3
  <2>2. c \in L /\ c.host = h
    BY <1>3, <2>1
  <2>3. context'[h] = c.cert
    BY <1>1, <1>2, <1>3
  <2> QED
    BY <2>2, <2>3
<1> QED
  BY <1>1, <1>2, <1>3

LEMMA RestartTypes ==
  ASSUME StateOK, Restart
  PROVE  StateOK'
<1>0. cfg \in [Sites -> Settings] /\ CertKept
  BY DEF StateOK, CertKept
<1>1. mem' \in [Sites -> Memories \cup {None}]
  BY <1>0 DEF Restart, Fresh, Settings, Memories
<1>2. loaded' \in [Sites -> Configs \cup {None}]
  BY <1>0, ConfigType, RestartAnswers
<1>3. context' \in [Hosts \cup {"ip"} -> Certs \cup {SelfSigned, None}]
  <2>1. \A t \in Sites : loaded'[t] # None => loaded'[t].cert \in Certs \cup {SelfSigned}
    BY <1>2 DEF Configs
  <2>2. \A h \in Hosts \cup {"ip"} : context'[h] \in Certs \cup {SelfSigned, None}
    BY <2>1, RestartAnswers
  <2>3. context' = [h \in Hosts \cup {"ip"} |-> context'[h]]
    BY DEF StateOK, Restart
  <2> QED
    BY <2>2, <2>3
<1>4. order' \in [Sites -> Numbers \cup {None}] /\ job' \in Jobs /\ job'.at = "rest"
  BY DEF Restart, Rest, Jobs
<1>5. UNCHANGED <<cfg, age>>
  BY DEF Restart
<1> QED
  BY <1>1, <1>2, <1>3, <1>4, <1>5 DEF StateOK, Jobs, CertKept

LEMMA StateStep == ASSUME StateOK, [Next]_vars PROVE StateOK'
<1>1. CASE \E t \in Sites : NewKey(t) \/ DeleteKey(t) \/ NewCert(t) \/ DeleteCert(t)
  BY <1>1, FileTypes
<1>2. CASE \E t \in Sites : Enable(t) \/ Disable(t) \/ Reset(t)
  BY <1>2, SwitchTypes
<1>3. CASE \E t \in Sites : Order(t) \/ OrderDone(t) \/ OrderRefused(t)
  BY <1>3, OrderTypes
<1>4. CASE JobStarts \/ (\E t \in Sites : JobSite(t)) \/ JobRenews \/ JobRefused \/ JobLoads \/ JobEnds
  BY <1>4, JobTypes
<1>5. CASE \E t \in Sites : Refresh(t) \/ Switch(t) \/ \E h \in Hosts : Rename(t, h)
  BY <1>5, MoveTypes
<1>6. CASE \E n \in Numbers : Ages(n)
  BY <1>6, AgesTypes
<1>7. CASE Restart
  BY <1>7, RestartTypes
<1>8. CASE UNCHANGED vars
  BY <1>8 DEF StateOK, CertKept, vars
<1> QED
  BY <1>1, <1>2, <1>3, <1>4, <1>5, <1>6, <1>7, <1>8 DEF Next

LEMMA HistStep == ASSUME StateOK, HistOK, [Next]_vars PROVE HistOK'
<1>0. /\ loaded \in [Sites -> Configs \cup {None}]
      /\ job.at = "load" => job.site \in Sites
  BY DEF StateOK
<1>1. ASSUME NEW t \in Sites, Changes(t)
      PROVE  HistOK'
  BY <1>1 DEF Changes, Missed, HistOK
<1>2. ASSUME NEW us \in SUBSET Sites
      PROVE  Robbed(us) \subseteq Sites
  BY DEF Robbed
<1>3. ASSUME NEW t \in Sites, SwitchedOff(t)
      PROVE  HistOK'
  BY <1>2, <1>3 DEF SwitchedOff, Missed, HistOK
<1>4. CASE \E t \in Sites : \/ NewKey(t) \/ DeleteKey(t) \/ NewCert(t) \/ DeleteCert(t)
                            \/ OrderDone(t) \/ Switch(t) \/ \E h \in Hosts : Rename(t, h)
  BY <1>1, <1>4 DEF NewKey, DeleteKey, NewCert, DeleteCert, OrderDone, Switch, Rename
<1>5. CASE \E t \in Sites : Disable(t) \/ Reset(t)
  BY <1>3, <1>5 DEF Disable, Reset
<1>6. ASSUME NEW t \in Sites, Enable(t)
      PROVE  HistOK'
  <2>1. {loaded[u].host : u \in {t} \cap {x \in Sites : loaded[x] # None}} \subseteq Hosts \cup {"ip"}
    BY <1>0 DEF Configs
  <2>2. left[t] \cup {loaded[u].host : u \in {t} \cap {x \in Sites : loaded[x] # None}} \in SUBSET (Hosts \cup {"ip"})
    BY <2>1 DEF HistOK
  <2>3. left' \in [Sites -> SUBSET (Hosts \cup {"ip"})]
    BY <1>6, <2>2 DEF Enable, HistOK
  <2> QED
    BY <1>6, <2>3 DEF Enable, Missed, HistOK
<1>7. CASE JobRenews
  BY <1>0, <1>7 DEF JobRenews, HistOK, StateOK
<1>8. CASE JobLoads
  BY <1>0, <1>2, <1>8 DEF JobLoads, HistOK
<1>9. CASE \E t \in Sites : Refresh(t)
  BY <1>2, <1>9 DEF Refresh, HistOK
<1>10. CASE Restart
  BY <1>10 DEF Restart, HistOK
<1>11. CASE UNCHANGED hist
  BY <1>11 DEF hist, HistOK
<1>12. CASE \/ \E t \in Sites : Order(t) \/ OrderRefused(t) \/ JobSite(t)
            \/ JobStarts \/ JobRefused \/ JobEnds \/ (\E n \in Numbers : Ages(n)) \/ UNCHANGED vars
  BY <1>11, <1>12 DEF Order, OrderRefused, JobSite, JobStarts, JobRefused, JobEnds, Ages, vars, hist
<1> QED
  BY <1>4, <1>5, <1>6, <1>7, <1>8, <1>9, <1>10, <1>12 DEF Next

LEMMA TypeStep == ASSUME TypeOK, [Next]_vars PROVE TypeOK'
<1>1. StateOK' /\ HistOK'
  BY TypeParts, StateStep, HistStep
<1>2. TypeOK' <=> StateOK' /\ HistOK'
  BY DEF TypeOK, StateOK, HistOK, Settings, Jobs, CertKept
<1> QED
  BY <1>1, <1>2

-----------------------------------------------------------------------------
(* The inductive invariant. *)

(* A name is answered for with a certificate of a site only if that site   *)
(* is loaded under it, or was before.                                      *)
Named ==
  \A h \in Hosts, t \in Sites : context[h] # None /\ context[h].site = t =>
    (loaded[t] # None /\ loaded[t].host = h) \/ h \in left[t]

(* A site is loaded with a certificate of its own; under a hostname only   *)
(* while HTTPS is on; and only when memory knows it.                       *)
Own      == \A t \in Sites : loaded[t] # None => loaded[t].cert.site = t
OffNamed == \A t \in Sites \ slipped : ~cfg[t].enabled /\ loaded[t] # None => loaded[t].host \notin Hosts
GoneOut  == \A t \in Sites \ slipped : mem[t] = None => loaded[t] = None

Distinct == \A s, t \in Sites : cfg[s].host = cfg[t].host => s = t

(* A site with HTTPS on that is not behind can be loaded. *)
Fits == \A t \in Sites \ behind : cfg[t].enabled => cfg[t].active /\ ValidCert(cfg[t], FALSE)

(* What the job is about to load is what was configured when it was read,  *)
(* which is what is configured unless something was missed.                *)
Held ==
  job.at = "load" =>
    /\ job.got # None => job.got.cert.site = job.site
    /\ job.got # None /\ missed \cap {"off", "gone"} = {} /\ job.got.host \in Hosts => cfg[job.site].enabled
    /\ "gone" \notin missed => mem[job.site] # None
    /\ job.got # None /\ missed = {} /\ cfg[job.site].enabled =>
         /\ job.got = [host |-> cfg[job.site].host, cert |-> cfg[job.site].cert]
         /\ ValidCert(cfg[job.site], FALSE)

Parts == Named /\ Own /\ OffNamed /\ GoneOut /\ Distinct /\ Fits /\ Held /\ ServedIsConfigured

IInv == TypeOK /\ Parts

(* What leaves settings, memory and certificates alone, and no loading     *)
(* begins.                                                                 *)
LEMMA IdleKeeps ==
  ASSUME Parts, UNCHANGED <<cfg, mem, loaded, context, hist>>,
         job' = job \/ (job.at # "load" /\ job'.at # "load")
  PROVE  Parts'
<1>1. Named' /\ Own' /\ OffNamed' /\ GoneOut' /\ Distinct'
  BY DEF Parts, Named, Own, OffNamed, GoneOut, Distinct, hist
<1>2. \A t \in Sites : ValidCert(cfg[t], FALSE)' = ValidCert(cfg[t], FALSE)
  BY DEF ValidCert, ValidKey
<1>3. Fits'
  BY <1>2 DEF Parts, Fits, hist
<1>4. Held'
  BY <1>2 DEF Parts, Held, ValidCert, ValidKey, hist
<1>5. ServedIsConfigured'
  BY DEF Parts, ServedIsConfigured, hist
<1> QED
  BY <1>1, <1>3, <1>4, <1>5 DEF Parts

(* The settings of a site change, and nothing is loaded. *)
LEMMA ChangeKeeps ==
  ASSUME StateOK, HistOK, Parts, NEW t \in Sites, Changes(t),
         UNCHANGED <<loaded, context, job>>, cfg'[t].enabled = cfg[t].enabled,
         \A x \in Sites \ {t} : cfg'[x] = cfg[x],
         \A x \in Sites : mem'[x] = None <=> mem[x] = None, Distinct'
  PROVE  Parts'
<1>1. /\ UNCHANGED <<slipped, left>>
      /\ behind \subseteq behind' /\ (cfg[t].enabled => t \in behind')
      /\ job.at = "load" /\ job.site = t => "files" \in missed'
      /\ missed \subseteq missed' /\ missed' \subseteq missed \cup {"files"}
      /\ ~(job.at = "load" /\ job.site = t) => missed' = missed
  BY DEF Changes, Missed
<1>2. Named' /\ Own' /\ OffNamed' /\ GoneOut'
  BY <1>1 DEF Parts, Named, Own, OffNamed, GoneOut
<1>3. \A x \in Sites \ {t} : ValidCert(cfg[x], FALSE)' = ValidCert(cfg[x], FALSE)
  BY DEF ValidCert, ValidKey
<1>4. Fits'
  BY <1>1, <1>3 DEF Parts, Fits
<1>5. Held'
  <2>1. CASE job.site = t
    BY <1>1, <2>1 DEF Parts, Held, StateOK
  <2>2. CASE job.site # t
    <3>1. job.at = "load" => job.site \in Sites \ {t}
      BY <2>2 DEF StateOK
    <3>2. job.at = "load" => cfg'[job.site] = cfg[job.site] /\ missed' = missed
      BY <1>1, <3>1, <2>2
    <3> QED
      BY <1>3, <3>1, <3>2 DEF Parts, Held, ValidCert, ValidKey
  <2> QED
    BY <2>1, <2>2
<1>6. ServedIsConfigured'
  BY <1>1 DEF Parts, ServedIsConfigured
<1> QED
  BY <1>2, <1>4, <1>5, <1>6 DEF Parts

(* Memory forgets no site in an order or an operation. *)
LEMMA RememberedSame ==
  ASSUME mem \in [Sites -> Memories \cup {None}], NEW t \in Sites,
         NEW e \in BOOLEAN, NEW a \in BOOLEAN, NEW c \in Certs \cup {None},
         mem' = Remembered(t, e, a, c)
  PROVE  \A x \in Sites : mem'[x] = None <=> mem[x] = None
<1>1. [enabled |-> e, acme |-> a, cert |-> c] \in Memories
  BY DEF Memories
<1>2. [enabled |-> e, acme |-> a, cert |-> c] # None
  BY <1>1, CertificatesAssumption
<1> QED
  BY <1>2 DEF Remembered

LEMMA OrderedKeeps ==
  ASSUME StateOK, NEW t \in Sites, NEW k \in Numbers, mem[t] # None, Ordered(t, k)
  PROVE  /\ \A x \in Sites \ {t} : cfg'[x] = cfg[x]
         /\ cfg'[t].enabled = cfg[t].enabled /\ cfg'[t].host = cfg[t].host
         /\ cfg'[t].active = cfg[t].active /\ cfg'[t].key = cfg[t].key
         /\ cfg'[t].cert \in Certs /\ cfg'[t].cert.key = k /\ cfg'[t].cert.site = t
         /\ \A x \in Sites : mem'[x] = None <=> mem[x] = None
<1>0. cfg \in [Sites -> Settings] /\ mem \in [Sites -> Memories \cup {None}]
  BY DEF StateOK
<1>1. PICK n \in Numbers : /\ cfg' = [cfg EXCEPT ![t] = [@ EXCEPT !.acme = TRUE, !.cert = Cert(t, k, n)]]
                           /\ mem' = Remembered(t, mem[t].enabled, mem[t].acme, Cert(t, k, n))
  BY DEF Ordered
<1>2. Cert(t, k, n) \in Certs /\ Cert(t, k, n).key = k /\ Cert(t, k, n).site = t
  BY DEF Cert, Certs
<1>3. mem[t].enabled \in BOOLEAN /\ mem[t].acme \in BOOLEAN
  BY <1>0 DEF Memories
<1>4. \A x \in Sites : mem'[x] = None <=> mem[x] = None
  BY <1>0, <1>1, <1>2, <1>3, RememberedSame
<1> QED
  BY <1>0, <1>1, <1>2, <1>4 DEF Settings

LEMMA SettingsKeep ==
  ASSUME StateOK, HistOK, Parts, NEW t \in Sites,
         \/ NewKey(t) \/ DeleteKey(t) \/ NewCert(t) \/ DeleteCert(t)
         \/ OrderDone(t) \/ Switch(t) \/ \E h \in Hosts : Rename(t, h)
  PROVE  Parts'
<1>0. /\ cfg \in [Sites -> Settings] /\ mem \in [Sites -> Memories \cup {None}]
      /\ order \in [Sites -> Numbers \cup {None}] /\ Distinct
  BY DEF StateOK, Parts
<1>1. Changes(t) /\ UNCHANGED <<loaded, context, job>>
  BY DEF NewKey, DeleteKey, NewCert, DeleteCert, OrderDone, Switch, Rename
<1>2. CASE OrderDone(t)
  <2>1. /\ \A x \in Sites \ {t} : cfg'[x] = cfg[x]
        /\ cfg'[t].enabled = cfg[t].enabled /\ cfg'[t].host = cfg[t].host
        /\ \A x \in Sites : mem'[x] = None <=> mem[x] = None
    BY <1>0, <1>2, OrderedKeeps DEF OrderDone
  <2>2. Distinct'
    BY <1>0, <2>1 DEF Distinct
  <2> QED
    BY <1>1, <2>1, <2>2, ChangeKeeps
<1>3. CASE \E h \in Hosts : Rename(t, h)
  <2>1. PICK h \in Hosts : Rename(t, h)
    BY <1>3
  <2>2. /\ \A x \in Sites \ {t} : cfg'[x] = cfg[x]
        /\ cfg'[t].enabled = cfg[t].enabled /\ cfg'[t].host = h
        /\ mem' = mem /\ \A x \in Sites : cfg[x].host # h
    BY <1>0, <2>1 DEF Rename, Settings
  <2>3. Distinct'
    BY <1>0, <2>2 DEF Distinct
  <2> QED
    BY <1>1, <2>2, <2>3, ChangeKeeps
<1>4. CASE NewKey(t) \/ DeleteKey(t) \/ Switch(t) \/ NewCert(t) \/ DeleteCert(t)
  <2>1. /\ \A x \in Sites \ {t} : cfg'[x] = cfg[x]
        /\ cfg'[t].enabled = cfg[t].enabled /\ cfg'[t].host = cfg[t].host
    <3>1. CASE NewKey(t) \/ DeleteKey(t)
      BY <1>0, <3>1 DEF NewKey, DeleteKey, Settings
    <3>2. CASE Switch(t)
      BY <1>0, <3>2 DEF Switch, Settings
    <3>3. CASE NewCert(t)
      BY <1>0, <3>3 DEF NewCert, Settings
    <3>4. CASE DeleteCert(t)
      BY <1>0, <3>4 DEF DeleteCert, Settings
    <3> QED
      BY <1>4, <3>1, <3>2, <3>3, <3>4
  <2>2. \A x \in Sites : mem'[x] = None <=> mem[x] = None
    <3>1. CASE NewKey(t) \/ DeleteKey(t) \/ Switch(t)
      BY <3>1 DEF NewKey, DeleteKey, Switch
    <3>2. CASE NewCert(t)
      <4>1. PICK n \in Numbers, k \in Numbers : mem' = Remembered(t, mem[t].enabled, mem[t].acme, Cert(t, k, n))
        BY <1>0, <3>2 DEF NewCert, Settings
      <4>2. Cert(t, k, n) \in Certs
        BY DEF Cert, Certs
      <4>3. CASE mem[t] = None
        BY <4>1, <4>3 DEF Remembered
      <4>4. CASE mem[t] # None
        <5>1. mem[t].enabled \in BOOLEAN /\ mem[t].acme \in BOOLEAN
          BY <1>0, <4>4 DEF Memories
        <5> QED
          BY <1>0, <4>1, <4>2, <5>1, RememberedSame
      <4> QED
        BY <4>3, <4>4
    <3>3. CASE DeleteCert(t)
      <4>1. mem[t].enabled \in BOOLEAN /\ mem[t].acme \in BOOLEAN
        BY <1>0, <3>3 DEF DeleteCert, Memories
      <4> QED
        BY <1>0, <3>3, <4>1, RememberedSame DEF DeleteCert
    <3> QED
      BY <1>4, <3>1, <3>2, <3>3
  <2>3. Distinct'
    BY <1>0, <2>1 DEF Distinct
  <2> QED
    BY <1>1, <2>1, <2>2, <2>3, ChangeKeeps
<1> QED
  BY <1>2, <1>3, <1>4

-----------------------------------------------------------------------------
(* Loading and unloading. *)

(* What is answered for after a site is loaded with c, having been         *)
(* unloaded before or not.                                                 *)
LEMMA LoadAnswers ==
  ASSUME StateOK, NEW t \in Sites, NEW c \in Configs \cup {None},
         \/ Reload(t, c)
         \/ Load(t, c)
  PROVE  /\ \A x \in Sites \ {t} : loaded'[x] = loaded[x]
         /\ loaded'[t] \in {c, loaded[t]}
         /\ c # None => loaded'[t] = c /\ context'[c.host] = c.cert
         /\ \A h \in Hosts : (c = None \/ c.host # h) =>
              \/ context'[h] = context[h]
              \/ context'[h] = None /\ loaded[t] # None /\ loaded[t].host = h
<1>0. /\ loaded \in [Sites -> Configs \cup {None}]
      /\ context \in [Hosts \cup {"ip"} -> Certs \cup {SelfSigned, None}]
  BY DEF StateOK
<1>1. /\ c # None => c.host \in Hosts \cup {"ip"}
      /\ loaded[t] # None => loaded[t].host \in Hosts \cup {"ip"}
  BY <1>0 DEF Configs
<1>2. CASE Load(t, c)
  BY <1>0, <1>1, <1>2 DEF Load
<1>3. CASE Reload(t, c)
  <2>1. /\ DOMAIN Without(t) = Hosts \cup {"ip"}
        /\ \A h \in Hosts \cup {"ip"} :
             \/ Without(t)[h] = context[h]
             \/ Without(t)[h] = None /\ loaded[t] # None /\ loaded[t].host = h
    BY <1>0, <1>1 DEF Without
  <2>2. CASE c = None
    BY <1>0, <1>3, <2>1, <2>2 DEF Reload
  <2>3. CASE c # None
    BY <1>0, <1>1, <1>3, <2>1, <2>3 DEF Reload
  <2> QED
    BY <2>2, <2>3
<1> QED
  BY <1>2, <1>3

(* After a reload nothing is answered for by what the site had loaded.     *)
LEMMA ReloadForgets ==
  ASSUME StateOK, NEW t \in Sites, NEW c \in Configs \cup {None}, Reload(t, c)
  PROVE  /\ loaded'[t] = c
         /\ \A h \in Hosts : loaded[t] # None /\ loaded[t].host = h /\ (c = None \/ c.host # h) => context'[h] = None
<1>0. /\ loaded \in [Sites -> Configs \cup {None}]
      /\ context \in [Hosts \cup {"ip"} -> Certs \cup {SelfSigned, None}]
  BY DEF StateOK
<1>1. ASSUME NEW h \in Hosts, loaded[t] # None, loaded[t].host = h, c = None \/ c.host # h
      PROVE  context'[h] = None
  <2>1. Without(t) = [context EXCEPT ![h] = None]
    BY <1>1 DEF Without
  <2>2. Without(t)[h] = None
    BY <1>0, <2>1
  <2> QED
    BY <1>0, <1>1, <2>1, <2>2 DEF Reload
<1> QED
  BY <1>0, <1>1 DEF Reload

(* Names after a reload. *)
LEMMA ReloadNames ==
  ASSUME StateOK, Parts, NEW t \in Sites, NEW c \in Configs \cup {None}, Reload(t, c),
         c # None => c.cert.site = t, UNCHANGED left
  PROVE  Named' /\ Own'
<1>0. Named /\ Own
  BY DEF Parts
<1>1. /\ \A x \in Sites \ {t} : loaded'[x] = loaded[x]
      /\ loaded'[t] = c
      /\ c # None => context'[c.host] = c.cert
      /\ \A h \in Hosts : (c = None \/ c.host # h) => context'[h] \in {context[h], None}
      /\ \A h \in Hosts : loaded[t] # None /\ loaded[t].host = h /\ (c = None \/ c.host # h) => context'[h] = None
  BY LoadAnswers, ReloadForgets
<1>2. Own'
  BY <1>0, <1>1 DEF Own
<1>3. ASSUME NEW h \in Hosts, NEW x \in Sites, context'[h] # None, context'[h].site = x
      PROVE  (loaded'[x] # None /\ loaded'[x].host = h) \/ h \in left[x]
  <2>1. CASE c # None /\ c.host = h
    BY <1>1, <1>3, <2>1
  <2>2. CASE c = None \/ c.host # h
    <3>1. context[h] # None /\ context[h].site = x
      BY <1>1, <1>3, <2>2
    <3>2. (loaded[x] # None /\ loaded[x].host = h) \/ h \in left[x]
      BY <1>0, <3>1 DEF Named
    <3> QED
      BY <1>1, <1>3, <2>2, <3>2
  <2> QED
    BY <2>1, <2>2
<1> QED
  BY <1>2, <1>3 DEF Named

LEMMA EnableKeeps ==
  ASSUME StateOK, HistOK, Parts, NEW t \in Sites, Enable(t)
  PROVE  Parts'
<1> DEFINE c == [host |-> cfg[t].host, cert |-> cfg[t].cert]
<1>0. /\ cfg \in [Sites -> Settings] /\ mem \in [Sites -> Memories \cup {None}]
      /\ left \in [Sites -> SUBSET (Hosts \cup {"ip"})] /\ CertKept
      /\ job.at = "load" => job.site \in Sites
  BY DEF StateOK, HistOK
<1>1. /\ cfg[t].active /\ mem[t] # None /\ ValidCert(cfg[t], TRUE)
      /\ cfg' = [cfg EXCEPT ![t].enabled = TRUE]
      /\ mem' = Remembered(t, TRUE, mem[t].acme, mem[t].cert)
      /\ Load(t, c) /\ UNCHANGED job
      /\ behind' = behind \ {t} /\ slipped' = slipped \ {t} /\ Missed(t, "on")
      /\ left' = [left EXCEPT ![t] = @ \cup {loaded[u].host : u \in {t} \cap {x \in Sites : loaded[x] # None}}]
  BY DEF Enable
<1>2. cfg[t].host \in Hosts /\ cfg[t].cert \in Certs /\ cfg[t].cert.site = t
  BY <1>0, <1>1 DEF Settings, ValidCert, CertKept
<1>3. c \in Configs /\ c # None
  <2>1. c \in Configs
    BY <1>2 DEF Configs
  <2> QED
    BY <2>1, CertificatesAssumption
<1>4. /\ \A x \in Sites \ {t} : loaded'[x] = loaded[x]
      /\ loaded'[t] = c /\ context'[cfg[t].host] = cfg[t].cert
      /\ \A h \in Hosts \ {cfg[t].host} :
              \/ context'[h] = context[h]
              \/ context'[h] = None /\ loaded[t] # None /\ loaded[t].host = h
  BY <1>1, <1>2, <1>3, LoadAnswers
<1>5. /\ \A x \in Sites \ {t} : cfg'[x] = cfg[x]
      /\ cfg'[t].enabled /\ cfg'[t].active = cfg[t].active /\ cfg'[t].host = cfg[t].host
      /\ cfg'[t].key = cfg[t].key /\ cfg'[t].cert = cfg[t].cert
  BY <1>0 DEF Enable, Settings
<1>6. \A x \in Sites : mem'[x] = None <=> mem[x] = None
  <2>1. mem[t].acme \in BOOLEAN /\ mem[t].cert \in Certs \cup {None}
    BY <1>0, <1>1 DEF Memories
  <2> QED
    BY <1>0, <1>1, <2>1, RememberedSame
<1>7. /\ \A x \in Sites : left[x] \subseteq left'[x]
      /\ loaded[t] # None => loaded[t].host \in left'[t]
  BY <1>0, <1>1
<1>8. Named' /\ Own'
  <2>1. ASSUME NEW h \in Hosts, NEW x \in Sites, context'[h] # None, context'[h].site = x
        PROVE  (loaded'[x] # None /\ loaded'[x].host = h) \/ h \in left'[x]
    <3>1. CASE h = cfg[t].host
      BY <1>2, <1>3, <1>4, <2>1, <3>1
    <3>2. CASE h # cfg[t].host
      <4>1. context[h] # None /\ context[h].site = x
        BY <1>4, <2>1, <3>2
      <4>2. (loaded[x] # None /\ loaded[x].host = h) \/ h \in left[x]
        BY <4>1 DEF Parts, Named
      <4> QED
        BY <1>4, <1>7, <4>2
    <3> QED
      BY <3>1, <3>2
  <2> QED
    BY <1>2, <1>4, <2>1 DEF Named, Own, Parts
<1>9. OffNamed' /\ GoneOut' /\ Distinct'
  <2>1. OffNamed'
    BY <1>1, <1>4, <1>5 DEF Parts, OffNamed
  <2>2. GoneOut'
    BY <1>1, <1>4, <1>6 DEF Parts, GoneOut
  <2>3. Distinct'
    BY <1>5 DEF Parts, Distinct
  <2> QED
    BY <2>1, <2>2, <2>3
<1>10. \A x \in Sites : ValidCert(cfg[x], FALSE)' = ValidCert(cfg[x], FALSE)
  BY <1>5 DEF ValidCert, ValidKey
<1>11. Fits'
  <2>1. ValidCert(cfg[t], FALSE)
    BY <1>1 DEF ValidCert
  <2>2. \A x \in Sites \ behind' : x = t \/ x \in Sites \ behind
    BY <1>1
  <2>3. \A x \in Sites \ behind' : cfg'[x].enabled => cfg'[x].active /\ ValidCert(cfg[x], FALSE)
    BY <1>1, <1>5, <2>1, <2>2 DEF Parts, Fits
  <2> QED
    BY <1>10, <2>3 DEF Fits
<1>12. Held'
  <2>1. job.at = "load" /\ job.site = t => missed' = missed \cup {"on"}
    BY <1>1 DEF Missed
  <2>2. ~(job.at = "load" /\ job.site = t) => missed' = missed
    BY <1>1 DEF Missed
  <2>3. CASE job.at = "load" /\ job.site = t
    BY <1>1, <1>5, <1>6, <2>1, <2>3 DEF Parts, Held
  <2>4. CASE job.at = "load" /\ job.site # t
    <3>1. cfg'[job.site] = cfg[job.site] /\ missed' = missed /\ job' = job
      BY <1>0, <1>1, <1>5, <2>2, <2>4
    <3> QED
      BY <1>0, <1>6, <2>4, <3>1 DEF Parts, Held, ValidCert, ValidKey
  <2>5. CASE job.at # "load"
    BY <1>1, <2>5 DEF Held
  <2> QED
    BY <2>3, <2>4, <2>5
<1>13. ServedIsConfigured'
  <2>1. ASSUME NEW x \in Sites \ behind', cfg'[x].enabled, ~(job.at = "load" /\ job.site = x)
        PROVE  context'[cfg'[x].host] = cfg'[x].cert
    <3>1. CASE x = t
      BY <1>4, <1>5, <3>1
    <3>2. CASE x # t
      <4>1. x \in Sites \ behind /\ cfg'[x] = cfg[x] /\ cfg[x].host # cfg[t].host
        BY <1>1, <1>5, <2>1, <3>2 DEF Parts, Distinct
      <4>2. context[cfg[x].host] = cfg[x].cert /\ cfg[x].cert # None
        BY <2>1, <4>1 DEF Parts, ServedIsConfigured, Fits, ValidCert
      <4>3. cfg[x].host \in Hosts
        BY <1>0 DEF Settings
      <4>4. cfg[x].cert.site = x
        BY <1>0, <4>2 DEF CertKept
      <4>5. context'[cfg[x].host] = context[cfg[x].host] \/ (context'[cfg[x].host] = None /\ loaded[t] # None /\ loaded[t].host = cfg[x].host)
        BY <1>4, <4>1, <4>3
      <4>6. context'[cfg[x].host] = context[cfg[x].host]
        <5>1. context' = [context EXCEPT ![c.host] = c.cert]
          BY <1>1, <1>3 DEF Load
        <5> QED
          BY <4>1, <4>3, <5>1 DEF StateOK
      <4> QED
        BY <4>1, <4>2, <4>6
    <3> QED
      BY <3>1, <3>2
  <2> QED
    BY <1>1, <2>1 DEF ServedIsConfigured
<1> QED
  BY <1>8, <1>9, <1>11, <1>12, <1>13 DEF Parts

(* HTTPS is switched off: the root site is loaded under its address then.  *)
LEMMA DisableKeeps ==
  ASSUME StateOK, HistOK, Parts, NEW t \in Sites, Disable(t) \/ Reset(t)
  PROVE  Parts'
<1>0. /\ cfg \in [Sites -> Settings] /\ mem \in [Sites -> Memories \cup {None}]
      /\ job.at = "load" => job.site \in Sites
  BY DEF StateOK
<1>1. /\ mem[t] # None /\ mem' = Remembered(t, FALSE, mem[t].acme, mem[t].cert)
      /\ SwitchedOff(t) /\ UNCHANGED job
  BY DEF Disable, Reset
<1>2. /\ behind' = behind \cup Robbed({t}) /\ slipped' = slipped \ {t} /\ Missed(t, "off") /\ left' = left
  BY <1>1 DEF SwitchedOff
<1>3. PICK c \in {None, [host |-> "ip", cert |-> SelfSigned]} :
         Reload(t, c) /\ (c # None => t = Root)
  <2>1. CASE Disable(t)
    BY <2>1 DEF Disable, Unload
  <2>2. CASE Reset(t)
    <3>1. Reload(t, IF t = Root THEN [host |-> "ip", cert |-> SelfSigned] ELSE None)
      BY <2>2 DEF Reset
    <3>2. CASE t = Root
      BY <3>1, <3>2
    <3>3. CASE t # Root
      BY <3>1, <3>3
    <3> QED
      BY <3>2, <3>3
  <2> QED
    BY <2>1, <2>2
<1>4. /\ c \in Configs \cup {None} /\ (c # None => c.cert.site = t /\ c.host \notin Hosts)
  <2>1. CASE c = None
    BY <2>1
  <2>2. CASE c = [host |-> "ip", cert |-> SelfSigned]
    <3>1. c \in Configs
      BY <2>2 DEF Configs
    <3>2. c # None
      BY <3>1, CertificatesAssumption
    <3>3. SelfSigned.site = Root
      BY DEF SelfSigned
    <3> QED
      BY <1>3, <2>2, <3>1, <3>2, <3>3, CertificatesAssumption
  <2> QED
    BY <2>1, <2>2
<1>5. /\ \A x \in Sites \ {t} : loaded'[x] = loaded[x]
      /\ loaded'[t] = c
      /\ \A h \in Hosts :
              \/ context'[h] = context[h]
              \/ context'[h] = None /\ loaded[t] # None /\ loaded[t].host = h
  BY <1>3, <1>4, LoadAnswers, ReloadForgets
<1>6. Named' /\ Own'
  BY <1>2, <1>3, <1>4, ReloadNames
<1>7. /\ \A x \in Sites \ {t} : cfg'[x] = cfg[x]
      /\ ~cfg'[t].enabled /\ cfg'[t].host = cfg[t].host
  <2>1. CASE Disable(t)
    BY <1>0, <2>1 DEF Disable, Settings
  <2>2. CASE Reset(t)
    BY <1>0, <2>2 DEF Reset
  <2> QED
    BY <2>1, <2>2
<1>8. \A x \in Sites : mem'[x] = None <=> mem[x] = None
  <2>1. mem[t].acme \in BOOLEAN /\ mem[t].cert \in Certs \cup {None}
    BY <1>0, <1>1 DEF Memories
  <2> QED
    BY <1>0, <1>1, <2>1, RememberedSame
<1>9. OffNamed' /\ GoneOut' /\ Distinct'
  <2>1. OffNamed'
    BY <1>2, <1>4, <1>5, <1>7 DEF Parts, OffNamed
  <2>2. GoneOut'
    BY <1>1, <1>2, <1>5, <1>8 DEF Parts, GoneOut
  <2>3. Distinct'
    BY <1>7 DEF Parts, Distinct
  <2> QED
    BY <2>1, <2>2, <2>3
<1>10. \A x \in Sites \ {t} : ValidCert(cfg[x], FALSE)' = ValidCert(cfg[x], FALSE)
  BY <1>7 DEF ValidCert, ValidKey
<1>11. Fits'
  BY <1>2, <1>7, <1>10 DEF Parts, Fits
<1>12. Held'
  <2>1. job.at = "load" /\ job.site = t => missed' = missed \cup {"off"}
    BY <1>2 DEF Missed
  <2>2. ~(job.at = "load" /\ job.site = t) => missed' = missed
    BY <1>2 DEF Missed
  <2>3. CASE job.at = "load" /\ job.site = t
    BY <1>1, <1>7, <1>8, <2>1, <2>3 DEF Parts, Held
  <2>4. CASE job.at = "load" /\ job.site # t
    <3>1. cfg'[job.site] = cfg[job.site] /\ missed' = missed /\ job' = job
      BY <1>0, <1>1, <1>7, <2>2, <2>4
    <3> QED
      BY <1>0, <1>8, <2>4, <3>1 DEF Parts, Held, ValidCert, ValidKey
  <2>5. CASE job.at # "load"
    BY <1>1, <2>5 DEF Held
  <2> QED
    BY <2>3, <2>4, <2>5
<1>13. ServedIsConfigured'
  <2>1. ASSUME NEW x \in Sites \ behind', cfg'[x].enabled, ~(job.at = "load" /\ job.site = x)
        PROVE  context'[cfg'[x].host] = cfg'[x].cert
    <3>1. x # t /\ x \notin behind /\ x \notin Robbed({t}) /\ cfg'[x] = cfg[x]
      BY <1>2, <1>7, <2>1
    <3>2. cfg[x].host \in Hosts
      BY <1>0 DEF Settings
    <3>3. ~(loaded[t] # None /\ loaded[t].host = cfg[x].host)
      BY <3>1 DEF Robbed
    <3>4. context[cfg[x].host] = cfg[x].cert
      BY <2>1, <3>1 DEF Parts, ServedIsConfigured
    <3> QED
      BY <1>5, <3>1, <3>2, <3>3, <3>4
  <2> QED
    BY <1>1, <2>1 DEF ServedIsConfigured
<1> QED
  BY <1>6, <1>9, <1>11, <1>12, <1>13 DEF Parts

(* The job renews a certificate and reads what it will load. *)
LEMMA RenewalKeeps ==
  ASSUME StateOK, HistOK, Parts, JobRenews
  PROVE  Parts'
<1>t. PICK t \in Sites : t = job.site
  BY DEF StateOK, JobRenews
<1>0. /\ cfg \in [Sites -> Settings] /\ CertKept
      /\ job \in Jobs /\ job.at = "order" /\ t \in Sites /\ job.key \in Numbers
      /\ mem[t] # None /\ Ordered(t, job.key) /\ missed' = {}
      /\ UNCHANGED <<loaded, context, slipped, left>>
      /\ behind' = behind \cup {x \in {t} : cfg[x].key # job.key}
  BY <1>t DEF StateOK, JobRenews, Jobs
<1>1. /\ \A x \in Sites \ {t} : cfg'[x] = cfg[x]
      /\ cfg'[t].enabled = cfg[t].enabled /\ cfg'[t].host = cfg[t].host
      /\ cfg'[t].active = cfg[t].active /\ cfg'[t].key = cfg[t].key
      /\ cfg'[t].cert \in Certs /\ cfg'[t].cert.key = job.key /\ cfg'[t].cert.site = t
      /\ \A x \in Sites : mem'[x] = None <=> mem[x] = None
  BY <1>0, OrderedKeeps
<1>2. job.key # None /\ cfg'[t].cert # None
  BY <1>0, <1>1, CertificatesAssumption DEF JobRenews
<1>3. PICK g \in {[host |-> cfg[t].host, cert |-> cfg'[t].cert], [host |-> "ip", cert |-> SelfSigned], None} :
         /\ job' = [job EXCEPT !.at = "load", !.key = None, !.got = g]
         /\ g = CASE cfg'[t].enabled /\ cfg'[t].key = job.key -> [host |-> cfg[t].host, cert |-> cfg'[t].cert]
                  [] ~cfg'[t].enabled /\ t = Root -> [host |-> "ip", cert |-> SelfSigned]
                  [] OTHER -> None
  BY <1>t DEF JobRenews
<1>4. job'.at = "load" /\ job'.site = t /\ job'.got = g
  BY <1>t, <1>0, <1>3 DEF Jobs
<1>5. \/ cfg[t].enabled /\ cfg[t].key = job.key /\ g = [host |-> cfg[t].host, cert |-> cfg'[t].cert]
      \/ ~cfg[t].enabled /\ t = Root /\ g = [host |-> "ip", cert |-> SelfSigned]
      \/ g = None
  BY <1>1, <1>3
<1>6. Named' /\ Own' /\ OffNamed' /\ GoneOut' /\ Distinct'
  <2>1. Named' /\ Own'
    BY <1>0 DEF Parts, Named, Own
  <2>2. OffNamed' /\ GoneOut' /\ Distinct'
    BY <1>0, <1>1 DEF Parts, OffNamed, GoneOut, Distinct
  <2> QED
    BY <2>1, <2>2
<1>7. cfg[t].key = job.key => ValidCert(cfg[t], FALSE)'
  BY <1>1, <1>2 DEF ValidCert, ValidKey
<1>8. \A x \in Sites \ {t} : ValidCert(cfg[x], FALSE)' = ValidCert(cfg[x], FALSE)
  BY <1>1 DEF ValidCert, ValidKey
<1>9. Fits'
  <2>1. ASSUME NEW x \in Sites \ behind', cfg'[x].enabled
        PROVE  cfg'[x].active /\ ValidCert(cfg[x], FALSE)'
    <3>1. x \in Sites \ behind /\ cfg[x].enabled
      BY <1>0, <1>1, <2>1
    <3>2. cfg[x].active /\ ValidCert(cfg[x], FALSE)
      BY <3>1 DEF Parts, Fits
    <3>3. CASE x = t
      BY <1>0, <1>1, <1>7, <2>1, <3>2, <3>3
    <3>4. CASE x # t
      BY <1>1, <1>8, <3>2, <3>4
    <3> QED
      BY <3>3, <3>4
  <2> QED
    BY <2>1 DEF Fits
<1>10. Held'
  <2>1. CASE g = None
    BY <1>0, <1>1, <1>4, <2>1 DEF Held
  <2>2. CASE cfg[t].enabled /\ cfg[t].key = job.key /\ g = [host |-> cfg[t].host, cert |-> cfg'[t].cert]
    <3>1. g.cert.site = t /\ g.host = cfg[t].host /\ cfg'[t].enabled /\ cfg'[t].host = cfg[t].host
      BY <1>1, <2>2
    <3>3. mem'[t] # None
      BY <1>0, <1>1
    <3>4. ValidCert(cfg[job.site], FALSE)'
      BY <1>4, <1>7, <2>2 DEF ValidCert, ValidKey
    <3>5. job'.got = [host |-> cfg'[t].host, cert |-> cfg'[t].cert]
      BY <1>4, <2>2, <3>1
    <3> QED
      BY <1>4, <3>1, <3>3, <3>4, <3>5, <2>2 DEF Held
  <2>3. CASE ~cfg[t].enabled /\ t = Root /\ g = [host |-> "ip", cert |-> SelfSigned]
    <3>1. SelfSigned.site = t /\ g.cert = SelfSigned /\ g.host \notin Hosts
      BY <2>3, CertificatesAssumption DEF SelfSigned
    <3> QED
      BY <1>0, <1>1, <1>4, <2>3, <3>1 DEF Held
  <2> QED
    BY <1>5, <2>1, <2>2, <2>3
<1>11. ServedIsConfigured'
  BY <1>0, <1>1, <1>4 DEF Parts, ServedIsConfigured
<1> QED
  BY <1>6, <1>9, <1>10, <1>11 DEF Parts

LEMMA LoadKeeps ==
  ASSUME StateOK, HistOK, Parts, JobLoads
  PROVE  Parts'
<1> DEFINE t == job.site
           c == job.got
           up == missed = {} /\ c # None /\ cfg[t].active
<1>0. /\ cfg \in [Sites -> Settings] /\ job \in Jobs /\ job.at = "load" /\ t \in Sites
      /\ c \in Configs \cup {None} /\ Reload(t, c)
      /\ UNCHANGED <<cfg, mem, left>>
  BY DEF StateOK, JobLoads, Jobs
<1>1. job'.at = "loop"
  BY <1>0 DEF JobLoads, Jobs
<1>2. /\ behind' = ((behind \ {t}) \cup {x \in {t} : ~up}) \cup Robbed({t})
                     \cup {x \in Sites \ {t} : c # None /\ c.host = cfg[x].host}
      /\ slipped' = (slipped \ {t}) \cup {x \in {t} : missed \cap {"off", "gone"} # {}}
  BY DEF JobLoads
<1>3. /\ c # None => c.cert.site = t
      /\ c # None /\ missed \cap {"off", "gone"} = {} /\ c.host \in Hosts => cfg[t].enabled
      /\ "gone" \notin missed => mem[t] # None
      /\ c # None /\ missed = {} /\ cfg[t].enabled =>
           c = [host |-> cfg[t].host, cert |-> cfg[t].cert] /\ ValidCert(cfg[t], FALSE)
  BY <1>0 DEF Parts, Held
<1>4. /\ \A x \in Sites \ {t} : loaded'[x] = loaded[x]
      /\ loaded'[t] = c
      /\ c # None => context'[c.host] = c.cert
      /\ \A h \in Hosts : (c = None \/ c.host # h) =>
              \/ context'[h] = context[h]
              \/ context'[h] = None /\ loaded[t] # None /\ loaded[t].host = h
  BY <1>0, LoadAnswers, ReloadForgets
<1>5. Named' /\ Own'
  BY <1>0, <1>3, ReloadNames
<1>6. OffNamed'
  <2>1. ASSUME NEW x \in Sites \ slipped', ~cfg[x].enabled, loaded'[x] # None
        PROVE  loaded'[x].host \notin Hosts
    <3>1. CASE x = t
      BY <1>2, <1>3, <1>4, <2>1, <3>1
    <3>2. CASE x # t
      BY <1>2, <1>4, <2>1, <3>2 DEF Parts, OffNamed
    <3> QED
      BY <3>1, <3>2
  <2> QED
    BY <1>0, <2>1 DEF OffNamed
<1>7. GoneOut'
  <2>1. ASSUME NEW x \in Sites \ slipped', mem[x] = None
        PROVE  loaded'[x] = None
    <3>1. CASE x = t
      BY <1>2, <1>3, <2>1, <3>1
    <3>2. CASE x # t
      BY <1>2, <1>4, <2>1, <3>2 DEF Parts, GoneOut
    <3> QED
      BY <3>1, <3>2
  <2> QED
    BY <1>0, <2>1 DEF GoneOut
<1>8. Distinct' /\ Held'
  BY <1>0, <1>1 DEF Parts, Distinct, Held
<1>9. \A x \in Sites : ValidCert(cfg[x], FALSE)' = ValidCert(cfg[x], FALSE)
  BY <1>0 DEF ValidCert, ValidKey
<1>10. \A x \in Sites \ behind' : (x = t => up) /\ (x # t => x \notin behind /\ x \notin Robbed({t}) /\ (c = None \/ c.host # cfg[x].host))
  BY <1>2
<1>11. Fits'
  <2>1. ASSUME NEW x \in Sites \ behind', cfg[x].enabled
        PROVE  cfg[x].active /\ ValidCert(cfg[x], FALSE)
    <3>1. CASE x = t
      BY <1>3, <1>10, <2>1, <3>1
    <3>2. CASE x # t
      BY <1>10, <2>1, <3>2 DEF Parts, Fits
    <3> QED
      BY <3>1, <3>2
  <2> QED
    BY <1>0, <1>9, <2>1 DEF Fits
<1>12. ServedIsConfigured'
  <2>1. ASSUME NEW x \in Sites \ behind', cfg[x].enabled
        PROVE  context'[cfg[x].host] = cfg[x].cert
    <3>1. CASE x = t
      <4>1. up /\ cfg[t].enabled
        BY <1>10, <2>1, <3>1
      <4>2. c # None /\ c = [host |-> cfg[t].host, cert |-> cfg[t].cert]
        BY <1>3, <4>1
      <4>3. c.host = cfg[t].host /\ c.cert = cfg[t].cert
        BY <4>2
      <4>4. context'[c.host] = c.cert
        BY <1>4, <4>2
      <4> QED
        BY <3>1, <4>3, <4>4
    <3>2. CASE x # t
      <4>1. x \notin behind /\ x \notin Robbed({t}) /\ (c = None \/ c.host # cfg[x].host)
        BY <1>10, <2>1, <3>2
      <4>2. cfg[x].host \in Hosts
        BY <1>0 DEF Settings
      <4>3. ~(loaded[t] # None /\ loaded[t].host = cfg[x].host)
        BY <1>0, <3>2, <4>1 DEF Robbed
      <4>4. context[cfg[x].host] = cfg[x].cert
        BY <2>1, <3>2, <4>1 DEF Parts, ServedIsConfigured
      <4> QED
        BY <1>4, <4>1, <4>2, <4>3, <4>4
    <3> QED
      BY <3>1, <3>2
  <2> QED
    BY <1>0, <2>1 DEF ServedIsConfigured
<1> QED
  BY <1>5, <1>6, <1>7, <1>8, <1>11, <1>12 DEF Parts

-----------------------------------------------------------------------------
(* Refreshes and restarts. *)

LEMMA FreshMemory ==
  ASSUME cfg \in [Sites -> Settings], NEW t \in Sites
  PROVE  Fresh(t) = None <=> ~cfg[t].active
<1>1. cfg[t].active => Fresh(t) \in Memories
  BY DEF Fresh, Settings, Memories
<1> QED
  BY <1>1, CertificatesAssumption DEF Fresh

LEMMA RefreshKeeps ==
  ASSUME StateOK, HistOK, Parts, NEW t \in Sites, Refresh(t)
  PROVE  Parts'
<1> DEFINE off == {x \in Sites : mem[x] # None /\ ~cfg[x].active}
<1>0. /\ cfg \in [Sites -> Settings] /\ context \in [Hosts \cup {"ip"} -> Certs \cup {SelfSigned, None}]
      /\ job.at = "load" => job.site \in Sites
  BY DEF StateOK
<1>1. /\ mem' = [x \in Sites |-> IF x = t \/ ~cfg[x].active THEN Fresh(x) ELSE mem[x]]
      /\ loaded' = [x \in Sites |-> IF x \in off THEN None ELSE loaded[x]]
      /\ context' = [h \in DOMAIN context |->
                       IF \E x \in off : loaded[x] # None /\ loaded[x].host = h THEN None ELSE context[h]]
      /\ behind' = behind \cup Robbed(off) /\ slipped' = slipped \ off
      /\ missed' = missed \cup {what \in {"gone"} : job.at = "load" /\ job.site \in off}
      /\ UNCHANGED <<cfg, job, left>>
  BY DEF Refresh
<1>2. \A x \in Sites : Fresh(x) = None <=> ~cfg[x].active
  BY <1>0, FreshMemory
<1>3. \A h \in Hosts : /\ context'[h] # None => context'[h] = context[h]
                       /\ context'[h] # None => ~\E x \in off : loaded[x] # None /\ loaded[x].host = h
                       /\ (~\E x \in off : loaded[x] # None /\ loaded[x].host = h) => context'[h] = context[h]
  BY <1>0, <1>1
<1>4. \A x \in Sites : loaded'[x] = IF x \in off THEN None ELSE loaded[x]
  BY <1>1
<1>5. \A x \in Sites : mem'[x] = None => x \in off \/ mem[x] = None
  BY <1>1, <1>2
<1> HIDE DEF off
<1>6. Named' /\ Own' /\ Distinct'
  <2>1. Named'
    BY <1>1, <1>3, <1>4 DEF Parts, Named
  <2>2. Own' /\ Distinct'
    BY <1>1, <1>4 DEF Parts, Own, Distinct
  <2> QED
    BY <2>1, <2>2
<1>7. OffNamed' /\ GoneOut'
  <2>1. OffNamed'
    BY <1>1, <1>4 DEF Parts, OffNamed
  <2>2. GoneOut'
    BY <1>1, <1>4, <1>5 DEF Parts, GoneOut
  <2> QED
    BY <2>1, <2>2
<1>8. \A x \in Sites : ValidCert(cfg[x], FALSE)' = ValidCert(cfg[x], FALSE)
  BY <1>1 DEF ValidCert, ValidKey
<1>9. Fits'
  BY <1>1, <1>8 DEF Parts, Fits
<1>10. Held'
  <2>1. job.at = "load" /\ job.site \in off => "gone" \in missed'
    BY <1>1
  <2>2. missed \subseteq missed'
    BY <1>1
  <2>3. job.at = "load" /\ "gone" \notin missed' => mem'[job.site] # None
    BY <1>0, <1>5, <2>1, <2>2 DEF Parts, Held
  <2>4. job.at = "load" => ValidCert(cfg[job.site], FALSE)' = ValidCert(cfg[job.site], FALSE)
    BY <1>0, <1>1 DEF ValidCert, ValidKey
  <2>5. UNCHANGED <<cfg, job>>
    BY <1>1
  <2> QED
    BY <2>2, <2>3, <2>4, <2>5 DEF Parts, Held, ValidCert, ValidKey
<1>11. ServedIsConfigured'
  <2>1. ASSUME NEW x \in Sites \ behind', cfg[x].enabled, ~(job.at = "load" /\ job.site = x)
        PROVE  context'[cfg[x].host] = cfg[x].cert
    <3>1. x \notin behind /\ x \notin Robbed(off)
      BY <1>1, <2>1
    <3>2. cfg[x].active
      BY <2>1, <3>1 DEF Parts, Fits
    <3>3. x \notin off
      BY <3>2 DEF off
    <3>4. ~\E u \in off : loaded[u] # None /\ loaded[u].host = cfg[x].host
      BY <2>1, <3>1, <3>3 DEF Robbed
    <3>5. cfg[x].host \in Hosts
      BY <1>0 DEF Settings
    <3>6. context[cfg[x].host] = cfg[x].cert
      BY <2>1, <3>1 DEF Parts, ServedIsConfigured
    <3> QED
      BY <1>3, <3>4, <3>5, <3>6
  <2> QED
    BY <1>1, <2>1 DEF ServedIsConfigured
<1> QED
  BY <1>6, <1>7, <1>9, <1>10, <1>11 DEF Parts

LEMMA RestartKeeps ==
  ASSUME StateOK, Parts, Restart
  PROVE  Parts'
<1>0. cfg \in [Sites -> Settings] /\ CertKept
  BY DEF StateOK
<1>1. /\ mem' = [t \in Sites |-> Fresh(t)]
      /\ behind' = {t \in behind : ~(cfg[t].active /\ ValidCert(cfg[t], FALSE))}
      /\ slipped' = {} /\ job' = Rest /\ UNCHANGED cfg
  BY DEF Restart
<1>2. /\ \A t \in Sites : loaded'[t] = IF cfg[t].active THEN Config(t) ELSE None
      /\ \A h \in Hosts :
              \/ context'[h] = None /\ ~\E t \in Sites : loaded'[t] # None /\ loaded'[t].host = h
              \/ \E t \in Sites : loaded'[t] # None /\ loaded'[t].host = h /\ context'[h] = loaded'[t].cert
  BY RestartAnswers
<1>3. \A t \in Sites : loaded'[t] # None =>
        \/ /\ cfg[t].enabled /\ ValidCert(cfg[t], FALSE)
           /\ loaded'[t] = [host |-> cfg[t].host, cert |-> cfg[t].cert]
        \/ ~cfg[t].enabled /\ t = Root /\ loaded'[t] = [host |-> "ip", cert |-> SelfSigned]
  BY <1>2 DEF Config
<1>4. Own'
  <2>1. ASSUME NEW t \in Sites, loaded'[t] # None
        PROVE  loaded'[t].cert.site = t
    <3>1. CASE ValidCert(cfg[t], FALSE) /\ loaded'[t] = [host |-> cfg[t].host, cert |-> cfg[t].cert]
      BY <1>0, <3>1 DEF CertKept, ValidCert
    <3>2. CASE t = Root /\ loaded'[t] = [host |-> "ip", cert |-> SelfSigned]
      BY <3>2 DEF SelfSigned
    <3> QED
      BY <1>3, <2>1, <3>1, <3>2
  <2> QED
    BY <2>1 DEF Own
<1>5. Named'
  <2>1. ASSUME NEW h \in Hosts, NEW t \in Sites, context'[h] # None, context'[h].site = t
        PROVE  loaded'[t] # None /\ loaded'[t].host = h
    <3>1. PICK u \in Sites : loaded'[u] # None /\ loaded'[u].host = h /\ context'[h] = loaded'[u].cert
      BY <1>2, <2>1
    <3>2. u = t
      BY <1>4, <2>1, <3>1 DEF Own
    <3> QED
      BY <3>1, <3>2
  <2> QED
    BY <2>1 DEF Named
<1>6. OffNamed'
  <2>1. ASSUME NEW t \in Sites, ~cfg[t].enabled, loaded'[t] # None
        PROVE  loaded'[t].host \notin Hosts
    <3>1. loaded'[t] = [host |-> "ip", cert |-> SelfSigned]
      BY <1>3, <2>1
    <3> QED
      BY <3>1, CertificatesAssumption
  <2> QED
    BY <1>1, <2>1 DEF OffNamed
<1>7. GoneOut'
  BY <1>0, <1>1, <1>2, FreshMemory DEF GoneOut
<1>8. Distinct' /\ Held'
  BY <1>1 DEF Parts, Distinct, Held, Rest
<1>9. \A x \in Sites : ValidCert(cfg[x], FALSE)' = ValidCert(cfg[x], FALSE)
  BY <1>1 DEF ValidCert, ValidKey
<1>10. \A x \in Sites \ behind' : cfg[x].enabled => cfg[x].active /\ ValidCert(cfg[x], FALSE)
  BY <1>1 DEF Parts, Fits
<1>11. Fits'
  BY <1>1, <1>9, <1>10 DEF Fits
<1>12. ServedIsConfigured'
  <2>1. ASSUME NEW x \in Sites \ behind', cfg[x].enabled
        PROVE  context'[cfg[x].host] = cfg[x].cert
    <3>1. cfg[x].active /\ ValidCert(cfg[x], FALSE)
      BY <1>10, <2>1
    <3>2. loaded'[x] = [host |-> cfg[x].host, cert |-> cfg[x].cert]
      BY <1>2, <2>1, <3>1 DEF Config
    <3>3. cfg[x].host \in Hosts /\ cfg[x].cert \in Certs
      BY <1>0, <3>1 DEF Settings, ValidCert
    <3>4. loaded'[x] # None
      <4>1. [host |-> cfg[x].host, cert |-> cfg[x].cert] \in Configs
        BY <3>3 DEF Configs
      <4> QED
        BY <3>2, <4>1, CertificatesAssumption
    <3>5. PICK u \in Sites : /\ loaded'[u] # None /\ loaded'[u].host = cfg[x].host
                             /\ context'[cfg[x].host] = loaded'[u].cert
      BY <1>2, <3>2, <3>3, <3>4
    <3>6. loaded'[u].host = cfg[u].host
      <4>1. CASE loaded'[u] = [host |-> cfg[u].host, cert |-> cfg[u].cert]
        BY <4>1
      <4>2. CASE loaded'[u] = [host |-> "ip", cert |-> SelfSigned]
        BY <3>3, <3>5, <4>2, CertificatesAssumption
      <4> QED
        BY <1>3, <3>5, <4>1, <4>2
    <3>7. u = x
      BY <3>5, <3>6 DEF Parts, Distinct
    <3> QED
      BY <3>2, <3>5, <3>7
  <2> QED
    BY <1>1, <2>1 DEF ServedIsConfigured
<1> QED
  BY <1>4, <1>5, <1>6, <1>7, <1>8, <1>11, <1>12 DEF Parts

-----------------------------------------------------------------------------
LEMMA InitIInv == Init => IInv
<1> SUFFICES ASSUME Init PROVE IInv
  OBVIOUS
<1>1. /\ cfg = [t \in Sites |-> [active |-> TRUE, host |-> FirstHost[t], enabled |-> FALSE,
                                 acme |-> FALSE, key |-> None, cert |-> None]]
      /\ mem = [t \in Sites |-> [enabled |-> FALSE, acme |-> FALSE, cert |-> None]]
      /\ loaded = [t \in Sites |-> IF t = Root THEN [host |-> "ip", cert |-> SelfSigned] ELSE None]
      /\ context = [h \in Hosts \cup {"ip"} |-> IF h = "ip" THEN SelfSigned ELSE None]
      /\ age = [n \in Numbers |-> None] /\ order = [t \in Sites |-> None] /\ job = Rest
      /\ behind = {} /\ slipped = {} /\ missed = {} /\ left = [t \in Sites |-> {}]
  BY DEF Init
<1>2. /\ cfg \in [Sites -> Settings] /\ CertKept
      /\ mem \in [Sites -> Memories \cup {None}]
  BY <1>1, CertificatesAssumption DEF Settings, CertKept, Memories
<1>3. [host |-> "ip", cert |-> SelfSigned] \in Configs
  BY DEF Configs
<1>4. /\ loaded \in [Sites -> Configs \cup {None}]
      /\ context \in [Hosts \cup {"ip"} -> Certs \cup {SelfSigned, None}]
      /\ age \in [Numbers -> 0 .. 2 \cup {None}] /\ order \in [Sites -> Numbers \cup {None}]
  BY <1>1, <1>3
<1>5. job \in Jobs /\ job.at = "rest"
  BY <1>1 DEF Rest, Jobs
<1>6. TypeOK
  <2>1. StateOK
    BY <1>2, <1>4, <1>5 DEF StateOK
  <2>2. HistOK
    BY <1>1 DEF HistOK
  <2> QED
    BY <2>1, <2>2, TypeParts
<1>7. \A h \in Hosts : context[h] = None
  BY <1>1, CertificatesAssumption
<1>8. Named /\ Held
  BY <1>5, <1>7 DEF Named, Held
<1>9. Own /\ OffNamed
  <2>1. \A t \in Sites : loaded[t] # None => t = Root /\ loaded[t] = [host |-> "ip", cert |-> SelfSigned]
    BY <1>1
  <2> QED
    BY <2>1, CertificatesAssumption DEF Own, OffNamed, SelfSigned
<1>10. GoneOut
  <2>1. \A t \in Sites : mem[t] \in Memories
    BY <1>1 DEF Memories
  <2> QED
    BY <2>1, CertificatesAssumption DEF GoneOut
<1>11. Distinct
  BY <1>1, CertificatesAssumption DEF Distinct
<1>12. Fits /\ ServedIsConfigured
  BY <1>1 DEF Fits, ServedIsConfigured
<1> QED
  BY <1>6, <1>8, <1>9, <1>10, <1>11, <1>12 DEF IInv, Parts

LEMMA StepIInv == IInv /\ [Next]_vars => IInv'
<1> SUFFICES ASSUME IInv, [Next]_vars PROVE IInv'
  OBVIOUS
<1>0. StateOK /\ HistOK /\ Parts
  BY TypeParts DEF IInv
<1>1. Parts'
  <2>1. CASE \E t \in Sites : \/ NewKey(t) \/ DeleteKey(t) \/ NewCert(t) \/ DeleteCert(t)
                              \/ OrderDone(t) \/ Switch(t) \/ \E h \in Hosts : Rename(t, h)
    BY <1>0, <2>1, SettingsKeep
  <2>2. CASE \E t \in Sites : Enable(t)
    BY <1>0, <2>2, EnableKeeps
  <2>3. CASE \E t \in Sites : Disable(t) \/ Reset(t)
    BY <1>0, <2>3, DisableKeeps
  <2>4. CASE JobRenews
    BY <1>0, <2>4, RenewalKeeps
  <2>5. CASE JobLoads
    BY <1>0, <2>5, LoadKeeps
  <2>6. CASE \E t \in Sites : Refresh(t)
    BY <1>0, <2>6, RefreshKeeps
  <2>7. CASE Restart
    BY <1>0, <2>7, RestartKeeps
  <2>8. CASE \E t \in Sites : JobSite(t)
    <3>1. PICK t \in Sites : JobSite(t)
      BY <2>8
    <3>2. job.at = "loop" /\ UNCHANGED <<cfg, mem, loaded, context, hist>>
      BY <3>1 DEF JobSite
    <3>3. job'.at # "load"
      <4> DEFINE gone == mem[t] = None \/ (mem[t].enabled /\ mem[t].cert = None)
                 due  == mem[t].enabled /\ mem[t].acme /\ age[mem[t].cert.no] > 0
      <4>1. job' = IF gone THEN Rest
                   ELSE IF due THEN [job EXCEPT !.at = "order", !.site = t, !.left = @ \ {t}, !.key = cfg[t].key]
                        ELSE [job EXCEPT !.left = @ \ {t}]
        BY <3>1, Zenon DEF JobSite
      <4> HIDE DEF gone, due
      <4> QED
        BY <1>0, <3>2, <4>1 DEF StateOK, Jobs, Rest
    <3> QED
      BY <1>0, <3>2, <3>3, IdleKeeps
  <2>9. CASE JobStarts \/ JobRefused \/ JobEnds
    <3>1. UNCHANGED <<cfg, mem, loaded, context, hist>>
      BY <2>9 DEF JobStarts, JobRefused, JobEnds
    <3>2. job.at # "load" /\ job'.at # "load"
      <4>1. CASE JobStarts
        BY <4>1 DEF JobStarts, Rest
      <4>2. CASE JobRefused
        BY <1>0, <4>2 DEF JobRefused, StateOK, Jobs
      <4>3. CASE JobEnds
        BY <4>3 DEF JobEnds, Rest
      <4> QED
        BY <2>9, <4>1, <4>2, <4>3
    <3> QED
      BY <1>0, <3>1, <3>2, IdleKeeps
  <2>10. CASE \/ \E t \in Sites : Order(t) \/ OrderRefused(t)
              \/ (\E n \in Numbers : Ages(n)) \/ UNCHANGED vars
    <3>1. UNCHANGED <<cfg, mem, loaded, context, job, hist>>
      BY <2>10 DEF Order, OrderRefused, Ages, vars
    <3> QED
      BY <1>0, <3>1, IdleKeeps
  <2> QED
    BY <2>1, <2>2, <2>3, <2>4, <2>5, <2>6, <2>7, <2>8, <2>9, <2>10 DEF Next
<1> QED
  BY <1>1, TypeStep DEF IInv

LEMMA IInvFits == IInv => CertificatesFit
<1> SUFFICES ASSUME IInv PROVE CertificatesFit
  OBVIOUS
<1>1. DisabledIsNotServed
  BY DEF IInv, Parts, Named, OffNamed, DisabledIsNotServed, Answered
<1>2. GoneIsNotServed
  BY DEF IInv, Parts, Named, GoneOut, GoneIsNotServed, Answered
<1> QED
  BY <1>1, <1>2 DEF IInv, Parts, CertificatesFit

(* Whatever is uploaded, ordered, renewed, renamed, switched or restarted, *)
(* also while the job waits to load what it renewed, the certificates      *)
(* served are those configured and none of a site whose HTTPS is off or    *)
(* that is gone, but for what CertificatesFit names.                       *)
THEOREM CertificatesFitAlways == Spec => []CertificatesFit
<1>1. Spec => []IInv
  BY InitIInv, StepIInv, PTL DEF Spec
<1> QED
  BY <1>1, IInvFits, PTL

=============================================================================
