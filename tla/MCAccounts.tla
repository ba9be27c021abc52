----------------------------- MODULE MCAccounts -----------------------------
(***************************************************************************)
(* Who gets in, what a password, a receipt or an escrow opens, and what is *)
(* asked: IdentityAccess and instances of UserKeys, Sessions and           *)
(* Questionnaires for TLC.                                                 *)
(*                                                                         *)
(* They share no state, so one run goes through all of them: the initial   *)
(* state says of which part a behaviour is, and the others stay unused.    *)
(* They share model values, too, for TLC permutes every set of them in     *)
(* every state: each set below stands for one kind of thing in each part.  *)
(***************************************************************************)
EXTENDS IdentityAccess, TLC

CONSTANTS
  a1, a2, a3,      (* Key pairs; sessions; questions; custodians.          *)
  b1, b2,          (* Receipts; options.                                   *)
  c1, c2,          (* Passwords; threads; questionnaires; recipients.      *)
  d1, d2,          (* Key pairs of the escrow; steps.                      *)
  adm, usr, oth,   (* An administrator, a user, one of another site.       *)
  rcp, r1, l1,     (* A recipient, a report, a link or token.              *)
  Identity, None, Gone

VARIABLES
  part,
  tenants, encryption, escrow, kept, acct, sessions, running, resets, toggles,
  rivals, off, erased, crossed,
  stored, obj, task, leaving, tokens, report, told,
  questionnaires, step, field, option, triggers, stuck

keys   == <<tenants, encryption, escrow, kept, acct, sessions, running, resets, toggles,
            rivals, off, erased, crossed>>
doors  == <<stored, obj, task, leaving, tokens, report, told>>
forms  == <<questionnaires, step, field, option, triggers, stuck>>
all    == <<part, keys, doors, forms, vars>>

(* Keys: two sites; three, one of whose escrows is switched off; one site  *)
(* with two administrators whose escrow is switched off or on; one that    *)
(* was installed without encryption.                                       *)
Sites == INSTANCE UserKeys WITH
  Users <- {adm, oth}, Admins <- {adm}, Tenants <- {"main", "second"}, Root <- "main",
  Home <- [u \in {adm, oth} |-> IF u = oth THEN "second" ELSE "main"], FirstAdmin <- adm,
  Keys <- {a1, a2, a3}, EscrowKeys <- {d1, d2}, Passwords <- {c1, c2}, Tokens <- {l1},
  SetupEncryption <- TRUE, SetupEscrow <- TRUE, MaxToggles <- 0

Third == INSTANCE UserKeys WITH
  Users <- {adm, oth}, Admins <- {adm}, Tenants <- {"main", "second", "third"}, Root <- "main",
  Home <- [u \in {adm, oth} |-> IF u = oth THEN "second" ELSE "main"], FirstAdmin <- adm,
  Keys <- {a1, a2, a3}, EscrowKeys <- {d1, d2, l1}, Passwords <- {c1, c2}, Tokens <- {},
  SetupEncryption <- TRUE, SetupEscrow <- TRUE, MaxToggles <- 1

Toggles == INSTANCE UserKeys WITH
  Users <- {adm, usr}, Admins <- {adm, usr}, Tenants <- {"main"}, Root <- "main",
  Home <- [u \in {adm, usr} |-> "main"], FirstAdmin <- adm,
  Keys <- {a1, a2, a3}, EscrowKeys <- {d1, d2}, Passwords <- {c1, c2}, Tokens <- {},
  SetupEncryption <- TRUE, SetupEscrow <- TRUE, MaxToggles <- 1

Legacy == INSTANCE UserKeys WITH
  Users <- {adm}, Admins <- {adm}, Tenants <- {"main"}, Root <- "main",
  Home <- [u \in {adm} |-> "main"], FirstAdmin <- adm,
  Keys <- {a1, a2, a3}, EscrowKeys <- {d1, d2}, Passwords <- {c1, c2}, Tokens <- {l1},
  SetupEncryption <- FALSE, SetupEscrow <- FALSE, MaxToggles <- 1

(* Sessions: two threads without tokens; one thread with a token.          *)
Operator == INSTANCE Sessions WITH
  Ids <- {a1, a2, a3}, Users <- {rcp}, Reports <- {r1}, Receipts <- {b1, b2},
  Threads <- {c1, c2}, Tokens <- {}

OneThread == INSTANCE Sessions WITH
  Ids <- {a1, a2, a3}, Users <- {rcp}, Reports <- {r1}, Receipts <- {b1, b2},
  Threads <- {c1}, Tokens <- {l1}

(* Questionnaires: two with a step each; one with three questions that may *)
(* contain each other.                                                     *)
Copies == INSTANCE Questionnaires WITH
  Questionnaires <- {c1, c2}, Steps <- {d1, d2}, Fields <- {a1, a2}, Options <- {b1, b2}

Groups == INSTANCE Questionnaires WITH
  Questionnaires <- {c1}, Steps <- {d1}, Fields <- {a1, a2, a3}, Options <- {}

ASSUME Assumptions ==
  /\ Sites!KeyAssumption /\ Third!KeyAssumption /\ Toggles!KeyAssumption /\ Legacy!KeyAssumption
  /\ Operator!SessionAssumption /\ OneThread!SessionAssumption
  /\ Copies!QuestionnaireAssumption /\ Groups!QuestionnaireAssumption

-----------------------------------------------------------------------------
NoKeys ==
  /\ tenants = None /\ encryption = None /\ escrow = None /\ kept = None
  /\ acct = None /\ sessions = None /\ running = None /\ resets = None /\ toggles = None
  /\ rivals = None /\ off = None /\ erased = None /\ crossed = None

NoDoors ==
  /\ stored = None /\ obj = None /\ task = None /\ leaving = None /\ tokens = None
  /\ report = None /\ told = None

NoForms ==
  /\ questionnaires = None /\ step = None /\ field = None /\ option = None
  /\ triggers = None /\ stuck = None

NoAsking ==
  /\ custodian = [c \in Custodians |-> [is |-> "none", key |-> FALSE]]
  /\ access = [r \in Recipients |-> "gone"] /\ provided = FALSE
  /\ requests = <<>> /\ seen = {}

Start ==
  \/ /\ \/ part = "sites"   /\ Sites!Init
        \/ part = "third"   /\ Third!Init
        \/ part = "toggles" /\ Toggles!Init
        \/ part = "legacy"  /\ Legacy!Init
     /\ NoDoors /\ NoForms /\ NoAsking
  \/ /\ \/ part = "operator"   /\ Operator!Init
        \/ part = "one thread" /\ OneThread!Init
     /\ NoKeys /\ NoForms /\ NoAsking
  \/ /\ \/ part = "copies" /\ Copies!Init
        \/ part = "groups" /\ Groups!Init
     /\ NoKeys /\ NoDoors /\ NoAsking
  \/ /\ part = "identity" /\ Init
     /\ NoKeys /\ NoDoors /\ NoForms

(* Bounds of parts: encryption stays, or does so after the escrow was      *)
(* switched; no request is left running.                                   *)
Sealed == \A t \in DOMAIN encryption : encryption[t]
Quiet  == running = None /\ Sealed

KeyStep ==
  /\ \/ part = "sites"   /\ Sites!Next /\ Sealed'
     \/ part = "third"   /\ Third!Next /\ Quiet'
     \/ part = "toggles" /\ Toggles!Next /\ (Sealed' \/ toggles' = 0)
     \/ part = "legacy"  /\ Legacy!Next
  /\ UNCHANGED <<part, doors, forms, vars>>

SessionStep ==
  /\ \/ part = "operator"   /\ Operator!Next
     \/ part = "one thread" /\ OneThread!Next
  /\ UNCHANGED <<part, keys, forms, vars>>

FormStep ==
  /\ \/ part = "copies" /\ Copies!Next
     \/ part = "groups" /\ Groups!Next
  /\ UNCHANGED <<part, keys, doors, vars>>

AskStep ==
  /\ part = "identity" /\ Next
  /\ UNCHANGED <<part, keys, doors, forms>>

Step == KeyStep \/ SessionStep \/ FormStep \/ AskStep

Accounts == Start /\ [][Step]_all

-----------------------------------------------------------------------------
(* Passwords, recovery keys and the escrow open what data is encrypted     *)
(* for: the stored private key is that of the public key, which nothing    *)
(* replaces, and it opens with the password of its account; the escrow has *)
(* a copy of every key, and somebody holds the escrow.  After logins,      *)
(* changes, resets, revocations, changed settings and sessions left         *)
(* running, in any order, but for the cases that each of these names.      *)
KeysOpen ==
  /\ [](part = "sites"   => Sites!TypeOK /\ Sites!KeyPairs /\ Sites!PasswordOpens
                              /\ Sites!EscrowCovers /\ Sites!EscrowHeld)
  /\ [](part = "third"   => Third!KeyPairs /\ Third!EscrowCovers /\ Third!EscrowHeld)
  /\ [](part = "toggles" => Toggles!KeyPairs /\ Toggles!PasswordOpens
                              /\ Toggles!EscrowCovers /\ Toggles!EscrowHeld)
  /\ [](part = "legacy"  => Legacy!KeyPairs /\ Legacy!PasswordOpens /\ Legacy!EscrowCovers)
  /\ [][part = "legacy"  => Legacy!PubIsKept]_all

(* A receipt that an operator knows is marked to be changed, receipts and  *)
(* sessions open the key of their report, and with one database thread a   *)
(* user has one session.                                                   *)
SessionsSound ==
  /\ part = "operator" =>
       /\ Operator!ReceiptKnownIsChanged /\ Operator!ReceiptOpensReport
       /\ Operator!SessionOpensReport
  /\ part = "one thread" => OneThread!TypeOK /\ OneThread!OneSession

(* However questionnaires are edited, imported and copied: one question    *)
(* asks for the identity, a condition is on an option of its own           *)
(* questionnaire, and no two questions contain each other.  Three may, and *)
(* keep a database thread busy for ever then (NoRings).                    *)
FormsHold ==
  /\ part = "copies" => Copies!TypeOK /\ Copies!OneIdentity /\ Copies!OwnConditions
  /\ part = "groups" => Groups!TypeOK /\ Groups!LoopsNeedThree

(* "Provided field association would cause recursion loop": no change that *)
(* is accepted puts a group inside itself.                                 *)
Grouping == Start /\ part = "groups" /\ [][Step]_all
NoRings  == part = "groups" => Groups!NeverStuck

-----------------------------------------------------------------------------
(* A part that has a subset of such a set uses one subset only, so any two *)
(* of its states that a permutation maps to each other are alike.          *)
Symmetric ==
  Permutations({a1, a2, a3}) \cup Permutations({b1, b2}) \cup Permutations({c1, c2})
    \cup Permutations({d1, d2})

(* The attributes of sessions that nothing refers to have no effect.       *)
Relevant ==
  <<part, keys, forms, vars, stored, task, leaving, tokens, report, told,
    CASE part = "operator"   -> [i \in {a1, a2, a3} |-> IF i \in Operator!Referenced THEN obj[i] ELSE None]
      [] part = "one thread" -> [i \in {a1, a2, a3} |-> IF i \in OneThread!Referenced THEN obj[i] ELSE None]
      [] OTHER -> None>>

=============================================================================
