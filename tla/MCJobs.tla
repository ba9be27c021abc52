------------------------------- MODULE MCJobs -------------------------------
(***************************************************************************)
(* The jobs that must go on, for TLC: the spool of mails, and an instance  *)
(* of Tenants for the daily job of the sites.                              *)
(*                                                                         *)
(* They share no state, so one run goes through both of them: the initial  *)
(* state says of which part a behaviour is, the other stays as it was, and *)
(* the fairness of an action is asked in its part.                         *)
(***************************************************************************)
EXTENDS MailSpool

CONSTANT None

VARIABLES part, site, txn, missed, mem, job

tenants == <<site, txn, missed, mem, job>>
all     == <<part, vars, tenants>>

MCSite(m) == IF m = "third" THEN "acme" ELSE "home"

Daily == INSTANCE Tenants WITH
  Sites <- {"root", "second"}, Root <- "root", Names <- {"home", "acme"},
  RootName <- "home", Usernames <- {"ann"}, Threads <- {"thread"},
  Demo <- FALSE

-----------------------------------------------------------------------------
Start ==
  /\ part \in {"spool", "sites"}
  /\ Init /\ Daily!Init /\ site["root"].done

InSpool(A) == part = "spool" /\ A /\ UNCHANGED <<part, tenants>>
InSites(A) == part = "sites" /\ A /\ UNCHANGED <<part, vars>>

Step == InSpool(Next) \/ InSites(Daily!Next)

(* The fairness of both specifications. *)
Jobs ==
  /\ Start /\ [][Step]_all
  /\ WF_all(InSpool(Job))
  /\ SF_all(InSites(Daily!Clean)) /\ WF_all(InSites(Daily!JobChecks))
  /\ WF_all(InSites(Daily!JobEnds)) /\ WF_all(InSites(Daily!Refresh))
  /\ WF_all(InSites(\E t \in {"root", "second"} : Daily!JobNext(t)))
  /\ WF_all(InSites(\/ Daily!ActivationCommits("thread") \/ Daily!WizardCommits("thread")
                    \/ \E t \in {"root", "second"} : Daily!SignupCommits("thread", t)))

-----------------------------------------------------------------------------
(* No mail of a site that works waits for ever, and the daily job goes     *)
(* through the sites in memory, once they stay the same.                   *)
JobsGoOn ==
  /\ part = "spool" => NeverStuck
  /\ part = "sites" => Daily!SitesAreChecked
=============================================================================
