--------------------------- MODULE MCCertificates ---------------------------
(***************************************************************************)
(* An instance of Certificates for TLC, of two sites with three names, two *)
(* keys and two certificates.  A run goes through three parts of what it   *)
(* does, each bounded by what its steps may leave behind: the files of one *)
(* site, the names of two that share a certificate, and a site that is     *)
(* switched off and on while its certificate is renewed.                   *)
(***************************************************************************)
EXTENDS Certificates

MCFirstHost == [s \in {"root", "second"} |-> IF s = "root" THEN "host 1" ELSE "host 2"]

VARIABLE part

(* The second site has no files and nothing moves; no order of the handler *)
(* while the job runs, and the second certificate does not expire.         *)
OneSite == /\ age[2] # 2 /\ cfg["second"].key = None
           /\ \A t \in Sites : cfg[t].active /\ cfg[t].host = FirstHost[t]
           /\ job # Rest => \A t \in Sites : order[t] = None

(* One key and one certificate, which does not get old, so that the job    *)
(* finds nothing to do; the root site does not take the third name.        *)
OneCertificate == /\ age[1] \in {0, None} /\ age[2] = None /\ \A t \in Sites : cfg[t].key \in {1, None}
                  /\ cfg["root"].active /\ cfg["root"].host # "host 3"
                  /\ job = Rest /\ \A t \in Sites : order[t] = None

(* The second site keeps its hostname and one key, the root has no files.  *)
OneHost == cfg["root"].key = None /\ cfg["second"].key \in {1, None}
           /\ \A t \in Sites : cfg[t].host = FirstHost[t]

Within ==
  /\ part = "files"  => OneSite
  /\ part = "hosts"  => OneCertificate
  /\ part = "switch" => OneHost

MCInit == Init /\ part \in {"files", "hosts", "switch"}
MCNext == Next /\ UNCHANGED part /\ Within'
MCSpec == MCInit /\ [][MCNext]_<<vars, part>>

=============================================================================
