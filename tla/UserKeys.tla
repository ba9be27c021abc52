------------------------------ MODULE UserKeys ------------------------------
(***************************************************************************)
(* The keys of the users of a platform: how passwords, recovery keys,      *)
(* escrow keys, reset links and sessions give and lose access to them.     *)
(*                                                                         *)
(* Cryptography is symbolic: a ciphertext is a record of what it holds and *)
(* of the key that opens it, and opening it with anything else raises,     *)
(* which rolls the transaction back (the action is not enabled).  A key    *)
(* pair is one value.  A session carries the key it was opened with: it is *)
(* not read again from the database.                                       *)
(***************************************************************************)
EXTENDS Integers, FiniteSets

CONSTANTS
  Users,           (* Identifiers of accounts, never reused.               *)
  Admins,          (* Those with the role admin.                           *)
  Tenants, Root,   (* The sites, and the one with identifier 1.            *)
  Home,            (* User.tid of every account.                           *)
  FirstAdmin,      (* The account made by the wizard.                      *)
  Keys,            (* Key pairs of users.                                  *)
  EscrowKeys,      (* Key pairs of the escrow.                             *)
  Passwords,
  Tokens,          (* Links to reset a password: a bound on those at once. *)
  SetupEncryption, (* Whether the site was installed with encryption: it   *)
                   (* was not before the version that introduced it.       *)
  SetupEscrow,     (* The wizard's choice.                                 *)
  MaxToggles,      (* Bound on switching the escrow of a site on or off.   *)
  None, Gone

KeyAssumption ==
  /\ Root \in Tenants
  /\ Home \in [Users -> Tenants]
  /\ Admins \subseteq Users
  /\ FirstAdmin \in Admins /\ Home[FirstAdmin] = Root
  /\ Keys # {} /\ EscrowKeys # {} /\ Passwords # {}
  /\ {None, Gone} \cap (Keys \cup EscrowKeys \cup Passwords \cup Users \cup Tokens) = {}
  /\ None # Gone
  /\ SetupEncryption \in BOOLEAN /\ SetupEscrow \in BOOLEAN
  /\ SetupEscrow => SetupEncryption
  /\ MaxToggles \in Nat

VARIABLES
  tenants,    (* The sites that exist.                                     *)
  encryption, (* Config encryption of each site.                           *)
  escrow,     (* Config crypto_escrow_pub_key.                             *)
  kept,       (* Config crypto_escrow_prv_key: the escrow key of a site    *)
              (* for the one of the root site.                             *)
  acct,       (* The row of each account, None before and Gone after it.   *)
  sessions,   (* <<site, user>> |-> the session in memory.                 *)
  running,    (* A session that a request has copied and still works with. *)
  resets,     (* The files behind the reset links.                         *)
  toggles,
  rivals,     (* History: users whose first key was stored while a session *)
              (* with another key was open for them.                       *)
  off,        (* History: sites whose encryption an administrator unset.   *)
  erased,     (* History: users whose copy for the escrow of their site    *)
              (* went with the escrow of another site.                     *)
  crossed     (* History: sites where somebody took the escrow key from a  *)
              (* user, or deleted the user, who had lost it before.        *)

config == <<tenants, encryption, escrow, kept>>
live   == <<sessions, running>>
past   == <<toggles, rivals, off, erased, crossed>>
vars   == <<config, acct, live, resets, past>>

Exists(u) == acct[u] \notin {None, Gone}

Sealed(k, x)  == [key |-> k, for |-> x]
Seals(K, X)   == {None} \cup [key : K, for : X]

Session(t, u, cc, ek, tok) == [tid |-> t, user |-> u, cc |-> cc, ek |-> ek, token |-> tok]

(* Sessions.new replaces the session of that user on that site. *)
NewSession(s) == sessions' = [sessions EXCEPT ![<<s.tid, s.user>>] = s]

(* What a handler may hold: a session in memory or one copied earlier. *)
Acting == ({sessions[x] : x \in Tenants \X Users} \cup {running}) \ {None}

UsedKeys ==
  {s.cc : s \in Acting} \cup {acct[u].pub : u \in {v \in Users : Exists(v)}}
    \cup {acct[u].prv.key : u \in {v \in Users : Exists(v) /\ acct[v].prv # None}}
UsedEscrows ==
  {escrow[t] : t \in Tenants} \cup {s.ek.key : s \in {x \in Acting : x.ek # None}}
    \cup {kept[t].for : t \in {x \in Tenants : kept[x] # None}}
    \cup UNION {{b.for : b \in {acct[u].bkp1, acct[u].bkp2} \ {None}}
                  : u \in {v \in Users : Exists(v)}}
FreshKeys    == Keys \ UsedKeys
FreshEscrows == EscrowKeys \ UsedEscrows

(* The escrow key that a session opens, for the site it works on. *)
OpensEscrow(s) == s.ek # None /\ s.ek.for = s.cc

(* The copies of key k that are made for the escrow of the root site and   *)
(* of site t.                                                              *)
BackupOfRoot(k)  == IF escrow[Root] # None THEN Sealed(k, escrow[Root]) ELSE None
BackupOf(t, k, old) ==
  IF t # Root /\ escrow[t] # None THEN Sealed(k, escrow[t]) ELSE old

-----------------------------------------------------------------------------
(* Accounts. *)

Keyless(pw, must) == [pass |-> pw, must |-> must, pub |-> None, prv |-> None,
                rec |-> None, bkp1 |-> None, bkp2 |-> None, esc |-> None]

(* An account that is created with its keys. *)
Keyed(t, pw, must, k) ==
  [Keyless(pw, must) EXCEPT !.pub = k, !.prv = Sealed(k, pw), !.rec = k,
                      !.bkp1 = BackupOfRoot(k), !.bkp2 = BackupOf(t, k, None)]

(* Without keys the code still makes the copy for the root site and fails. *)
MakesKeys(t) == (encryption[t] /\ escrow[Root] # None) \/ escrow[t] # None

CreateUser(s, u, pw, must, tok) ==
  /\ s.user \in Admins /\ Exists(s.user)
  /\ acct[u] = None /\ Home[u] = s.tid
  /\ \/ /\ MakesKeys(s.tid)
        /\ \E k \in FreshKeys :
             /\ acct' = [acct EXCEPT ![u] = Keyed(s.tid, pw, must, k)]
             /\ resets' = IF tok = None THEN resets
                          ELSE [resets EXCEPT ![tok] = Sealed(k, u)]
     \/ /\ ~MakesKeys(s.tid) /\ escrow[Root] = None
        /\ acct' = [acct EXCEPT ![u] = Keyless(pw, must)]
        /\ resets' = IF tok = None THEN resets
                     ELSE [resets EXCEPT ![tok] = Sealed(None, u)]
  /\ UNCHANGED <<config, live, past>>

(* An administrator may ask for a new password, never take that back. *)
UpdateUser(s, u) ==
  /\ s.user \in Admins
  /\ Exists(u) /\ Home[u] = s.tid
  /\ acct' = [acct EXCEPT ![u].must = TRUE]
  /\ UNCHANGED <<config, live, resets, past>>

(* Whether what session s has of the escrow is what its user has. *)
StillHolds(s) == Exists(s.user) /\ acct[s.user].esc = s.ek
Crosses(s, u) == {t \in {s.tid} : acct[u].esc # None /\ ~StillHolds(s)}

(* The sessions of the account stay. *)
DeleteUser(s, u) ==
  /\ s.user \in Admins /\ Exists(s.user) /\ s.user # u
  /\ Exists(u) /\ Home[u] = s.tid
  /\ acct[u].esc # None => s.ek # None
  /\ acct' = [acct EXCEPT ![u] = Gone]
  /\ crossed' = crossed \cup Crosses(s, u)
  /\ UNCHANGED <<config, live, resets, toggles, rivals, off, erased>>

-----------------------------------------------------------------------------
(* Sessions. *)

(* The first login of an account without keys makes a key that only the    *)
(* session holds, until a password change stores it.                       *)
Login(u) ==
  /\ Exists(u)
  /\ acct[u].prv # None => acct[u].prv.for = acct[u].pass
  /\ \E cc \in (IF acct[u].prv # None THEN {acct[u].prv.key}
                ELSE IF encryption[Home[u]] THEN FreshKeys ELSE {None}),
        expired \in BOOLEAN :
       /\ NewSession(Session(Home[u], u, cc, acct[u].esc, None))
       /\ acct' = [acct EXCEPT ![u].must =
                     @ \/ expired \/ (acct[u].prv = None /\ encryption[Home[u]])]
  /\ UNCHANGED <<config, running, resets, past>>

(* An administrator of the root site enters another one. *)
SwitchTenant(s, t) ==
  /\ s.user \in Admins /\ s.tid = Root
  /\ t \in tenants
  /\ NewSession(Session(t, s.user, s.cc, s.ek, None))
  /\ UNCHANGED <<config, acct, running, resets, past>>

Logout(s) ==
  /\ sessions[<<s.tid, s.user>>] = s
  /\ sessions' = [sessions EXCEPT ![<<s.tid, s.user>>] = None]
  /\ UNCHANGED <<config, acct, running, resets, past>>

(* A request copies its session, and works with the copy until it ends. *)
RequestStarts(s) ==
  /\ running = None
  /\ running' = s
  /\ UNCHANGED <<config, acct, sessions, resets, past>>

RequestEnds ==
  /\ running # None
  /\ running' = None
  /\ UNCHANGED <<config, acct, sessions, resets, past>>

-----------------------------------------------------------------------------
(* Passwords. *)

(* What a password change does to the keys; the first one stores the key   *)
(* of the session as the key of the account.                               *)
Rekeyed(a, t, cc, pw) ==
  LET k == IF a.pub = None THEN cc ELSE a.pub IN
  [a EXCEPT !.pub = k,
            !.rec = IF a.pub = None THEN cc ELSE a.rec,
            !.prv = Sealed(cc, pw),
            !.bkp1 = IF escrow[Root] # None THEN BackupOfRoot(cc) ELSE a.bkp1,
            !.bkp2 = BackupOf(t, cc, a.bkp2)]

(* The link that opened the session is used up, for all copies of it. *)
SpendLink(s) ==
  /\ resets' = IF s.token = None THEN resets ELSE [resets EXCEPT ![s.token] = None]
  /\ sessions' = [x \in DOMAIN sessions |->
                    IF sessions[x] = s THEN [s EXCEPT !.token = None] ELSE sessions[x]]
  /\ running' = IF running = s THEN [s EXCEPT !.token = None] ELSE running

(* What a password change in session s makes of the histories. *)
Stores(s) ==
  LET mine == {u \in {s.user} : encryption[Home[u]]} IN
  /\ erased' = erased \ mine
  /\ rivals' = rivals \cup {u \in mine : acct[u].pub = None /\ \E z \in Acting : z.user = u /\ z.cc # s.cc}

RekeyingMutant(s, pw) ==
  LET a == acct[s.user] IN
  /\ Exists(s.user) /\ pw # a.pass /\ s.cc # None
  /\ acct' = [acct EXCEPT ![s.user] =
                Rekeyed([a EXCEPT !.pass = pw, !.must = FALSE, !.pub = None],
                        Home[s.user], s.cc, pw)]
  /\ SpendLink(s)
  /\ Stores(s)
  /\ UNCHANGED <<config, toggles, off, crossed>>

(* A user chooses a new password: it must differ from the old one.         *)
ChangePassword(s, pw) ==
  LET a == acct[s.user] IN
  /\ Exists(s.user) /\ pw # a.pass
  /\ encryption[Home[s.user]] /\ a.pub = None => s.cc # None
  /\ acct' = [acct EXCEPT ![s.user] =
                IF encryption[Home[s.user]]
                THEN Rekeyed([a EXCEPT !.pass = pw, !.must = FALSE], Home[s.user], s.cc, pw)
                ELSE [a EXCEPT !.pass = pw, !.must = FALSE]]
  /\ SpendLink(s)
  /\ Stores(s)
  /\ UNCHANGED <<config, toggles, off, crossed>>

(* The copy of the key of account u that the escrow of session s opens. *)
BackupFor(s, u) == IF Home[s.user] = Root THEN acct[u].bkp1 ELSE acct[u].bkp2
Recovers(s, u)  ==
  /\ OpensEscrow(s)
  /\ BackupFor(s, u) # None
  /\ BackupFor(s, u).for = s.ek.key

(* An administrator chooses the password of somebody else, with the key of *)
(* the escrow when that account has keys.                                  *)
SetUserPassword(s, u, pw) ==
  LET a == acct[u] IN
  /\ s.user \in Admins /\ s.user # u
  /\ Exists(u) /\ Home[u] = s.tid
  /\ a.pub # None => Recovers(s, u)
  /\ acct' = [acct EXCEPT ![u] =
                IF a.pub = None THEN [a EXCEPT !.pass = pw, !.must = TRUE]
                ELSE [a EXCEPT !.pass = pw, !.must = TRUE,
                               !.prv = Sealed(BackupFor(s, u).key, pw)]]
  /\ UNCHANGED <<config, live, resets, past>>

ForgotPassword(u, tok) ==
  /\ Exists(u)
  /\ resets' = [resets EXCEPT ![tok] = Sealed(None, u)]
  /\ UNCHANGED <<config, acct, live, past>>

(* With an escrow key in the session the link carries the key. *)
SendPasswordReset(s, u, tok) ==
  /\ s.user \in Admins /\ s.user # u
  /\ Exists(u) /\ Home[u] = s.tid
  /\ IF acct[u].pub # None /\ s.ek # None
     THEN /\ Recovers(s, u)
          /\ resets' = [resets EXCEPT ![tok] = Sealed(BackupFor(s, u).key, u)]
     ELSE resets' = [resets EXCEPT ![tok] = Sealed(None, u)]
  /\ UNCHANGED <<config, acct, live, past>>

(* The link opens the account with the key it carries, or else with the    *)
(* recovery key that its user types in.  It stays valid until a password   *)
(* change.                                                                 *)
ValidatePasswordReset(tok) ==
  LET r == resets[tok] IN
  /\ r # None /\ Exists(r.for)
  /\ LET a == acct[r.for] IN
     /\ a.prv # None /\ r.key = None => a.rec # None
     /\ \E cc \in (IF a.prv = None THEN FreshKeys
                   ELSE {IF r.key # None THEN r.key ELSE a.rec}) :
          NewSession(Session(Home[r.for], r.for, cc, a.esc, tok))
     /\ acct' = [acct EXCEPT ![r.for].must = TRUE]
  /\ UNCHANGED <<config, running, resets, past>>

(* The cleaning of the ramdisk, or a restart of the machine. *)
LinkExpires(tok) ==
  /\ resets[tok] # None
  /\ resets' = [resets EXCEPT ![tok] = None]
  /\ UNCHANGED <<config, acct, live, past>>

-----------------------------------------------------------------------------
(* Escrow. *)

EscrowOn(s) ==
  LET t == s.tid  u == s.user IN
  /\ u \in Admins /\ Exists(u)
  /\ escrow[t] = None /\ toggles < MaxToggles
  /\ Home[u] = t => acct[u].pub # None
  /\ \E e \in FreshEscrows :
       LET b == Sealed(s.cc, e)
           own == IF Home[u] = t THEN Sealed(e, acct[u].pub) ELSE acct[u].esc
           affected == {v \in Users : Exists(v) /\ v # u /\ (t = Root \/ Home[v] = t)}
       IN /\ escrow' = [escrow EXCEPT ![t] = e]
          /\ kept' = IF t # Root /\ escrow[Root] # None
                     THEN [kept EXCEPT ![t] = Sealed(e, escrow[Root])] ELSE kept
          /\ acct' = [v \in Users |->
               IF v = u
               THEN IF t = Root THEN [acct[u] EXCEPT !.esc = own, !.bkp1 = b]
                                ELSE [acct[u] EXCEPT !.esc = own, !.bkp2 = b]
               ELSE IF v \in affected THEN [acct[v] EXCEPT !.must = TRUE]
               ELSE acct[v]]
  /\ toggles' = toggles + 1
  /\ UNCHANGED <<tenants, encryption, live, resets, rivals, off, erased, crossed>>

(* Of every account of every site the copies for that kind of site go. *)
EscrowOff(s) ==
  LET t == s.tid IN
  /\ s.user \in Admins /\ Exists(s.user)
  /\ escrow[t] # None /\ toggles < MaxToggles
  /\ acct' = [v \in Users |->
       IF ~Exists(v) THEN acct[v]
       ELSE LET a == IF t = Root THEN [acct[v] EXCEPT !.bkp1 = None]
                                 ELSE [acct[v] EXCEPT !.bkp2 = None]
            IN IF Home[v] = t THEN [a EXCEPT !.esc = None] ELSE a]
  /\ escrow' = [escrow EXCEPT ![t] = None]
  /\ kept' = [kept EXCEPT ![t] = None]
  /\ toggles' = toggles + 1
  /\ erased' = erased \cup {v \in Users : t # Root /\ Exists(v) /\ Home[v] \notin {t, Root}}
  /\ UNCHANGED <<tenants, encryption, live, resets, rivals, off, crossed>>

(* An administrator with the escrow key gives it to somebody, or takes it  *)
(* back.  An administrator of the root site finds the key of another site  *)
(* in its configuration.                                                   *)
ToggleUserEscrow(s, u) ==
  LET t == s.tid  foreign == Home[s.user] = Root /\ t # Root IN
  /\ s.user \in Admins /\ s.user # u /\ s.ek # None
  /\ Exists(u) /\ Home[u] = t /\ acct[u].pub # None
  /\ \/ /\ acct[u].esc # None
        /\ acct' = [acct EXCEPT ![u].esc = None]
     \/ /\ acct[u].esc = None
        /\ OpensEscrow(s)
        /\ foreign => kept[t] # None /\ kept[t].for = s.ek.key
        /\ acct' = [acct EXCEPT ![u].esc =
                      Sealed(IF foreign THEN kept[t].key ELSE s.ek.key, acct[u].pub)]
  /\ crossed' = crossed \cup Crosses(s, u)
  /\ UNCHANGED <<config, live, resets, toggles, rivals, off, erased>>

-----------------------------------------------------------------------------
(* Sites and settings. *)

(* A new site of the root administrator, or a sign-up that is activated    *)
(* and has an administrator of its own.                                    *)
CreateTenant(t, admin, pw) ==
  LET withEscrow == encryption[Root] /\ escrow[Root] # None IN
  /\ t \notin tenants
  /\ tenants' = tenants \cup {t}
  /\ encryption' = [encryption EXCEPT ![t] = encryption[Root]]
  /\ \E e \in (IF withEscrow THEN FreshEscrows ELSE {None}),
        k \in (IF withEscrow THEN FreshKeys ELSE {None}) :
       /\ escrow' = [escrow EXCEPT ![t] = e]
       /\ kept' = IF withEscrow THEN [kept EXCEPT ![t] = Sealed(e, escrow[Root])] ELSE kept
       /\ \/ admin = None /\ UNCHANGED acct
          \/ /\ admin # None /\ acct[admin] = None /\ Home[admin] = t
             /\ acct' = [acct EXCEPT ![admin] =
                  IF withEscrow
                  THEN [Keyless(pw, TRUE) EXCEPT !.pub = k, !.prv = Sealed(k, pw), !.rec = k,
                          !.bkp1 = Sealed(k, escrow[Root]), !.bkp2 = Sealed(k, e),
                          !.esc = Sealed(e, k)]
                  ELSE Keyless(pw, TRUE)]
  /\ UNCHANGED <<live, resets, past>>

EnableEncryption(s) ==
  /\ s.user \in Admins
  /\ encryption' = [encryption EXCEPT ![s.tid] = TRUE]
  /\ UNCHANGED <<tenants, escrow, kept, acct, live, resets, past>>

(* Saving the settings writes the value of encryption that is sent, which  *)
(* may be the one of when the page was opened.                             *)
SaveSettings(s, value) ==
  /\ s.user \in Admins
  /\ encryption' = [encryption EXCEPT ![s.tid] = value]
  /\ off' = off \cup {t \in {s.tid} : encryption[t] /\ ~value}
  /\ UNCHANGED <<tenants, escrow, kept, acct, live, resets, toggles, rivals, erased, crossed>>

-----------------------------------------------------------------------------
(* The wizard has just been completed, or an old site upgraded. *)
Init ==
  /\ tenants = {Root}
  /\ encryption = [t \in Tenants |-> SetupEncryption]
  /\ kept = [t \in Tenants |-> None]
  /\ \E pw \in Passwords, k \in Keys, e \in EscrowKeys :
       /\ escrow = [t \in Tenants |-> IF t = Root /\ SetupEscrow THEN e ELSE None]
       /\ acct = [u \in Users |->
            IF u # FirstAdmin THEN None
            ELSE IF SetupEscrow
            THEN [Keyless(pw, FALSE) EXCEPT !.pub = k, !.prv = Sealed(k, pw),
                    !.rec = k, !.bkp1 = Sealed(k, e), !.esc = Sealed(e, k)]
            ELSE Keyless(pw, FALSE)]
  /\ sessions = [x \in Tenants \X Users |-> None]
  /\ running = None
  /\ resets = [tok \in Tokens |-> None]
  /\ toggles = 0 /\ rivals = {} /\ off = {} /\ erased = {} /\ crossed = {}

FreeTokens == {tok \in Tokens : resets[tok] = None}

AccountStep(s) ==
  \/ \E u \in Users, pw \in Passwords, must \in BOOLEAN, tok \in FreeTokens \cup {None} :
       CreateUser(s, u, pw, must, tok)
  \/ \E u \in Users : UpdateUser(s, u) \/ DeleteUser(s, u) \/ ToggleUserEscrow(s, u)
  \/ \E u \in Users, pw \in Passwords : SetUserPassword(s, u, pw)
  \/ \E u \in Users, tok \in FreeTokens : SendPasswordReset(s, u, tok)
  \/ \E pw \in Passwords : ChangePassword(s, pw)

SiteStep(s) ==
  \/ EscrowOn(s) \/ EscrowOff(s)
  \/ EnableEncryption(s) \/ \E b \in BOOLEAN : SaveSettings(s, b)

SessionStep(s) ==
  \/ \E t \in Tenants : SwitchTenant(s, t)
  \/ Logout(s)
  \/ RequestStarts(s)

Next ==
  \/ \E u \in Users : Login(u) \/ \E tok \in FreeTokens : ForgotPassword(u, tok)
  \/ \E tok \in Tokens : ValidatePasswordReset(tok) \/ LinkExpires(tok)
  \/ \E t \in Tenants, admin \in Admins \cup {None}, pw \in Passwords : CreateTenant(t, admin, pw)
  \/ RequestEnds
  \/ \E s \in Acting : AccountStep(s) \/ SiteStep(s) \/ SessionStep(s)

Spec == Init /\ [][Next]_vars

-----------------------------------------------------------------------------
(* Properties. *)

Account ==
  [pass : Passwords, must : BOOLEAN, pub : Keys \cup {None},
   prv : Seals(Keys \cup {None}, Passwords), rec : Keys \cup {None},
   bkp1 : Seals(Keys \cup {None}, EscrowKeys), bkp2 : Seals(Keys \cup {None}, EscrowKeys),
   esc : Seals(EscrowKeys, Keys)]

SessionType ==
  [tid : Tenants, user : Users, cc : Keys \cup {None},
   ek : Seals(EscrowKeys, Keys), token : Tokens \cup {None}]

(* Type invariant. *)
TypeOK ==
  /\ tenants \subseteq Tenants
  /\ encryption \in [Tenants -> BOOLEAN]
  /\ escrow \in [Tenants -> EscrowKeys \cup {None}]
  /\ kept \in [Tenants -> Seals(EscrowKeys, EscrowKeys)]
  /\ acct \in [Users -> Account \cup {None, Gone}]
  /\ sessions \in [Tenants \X Users -> SessionType \cup {None}]
  /\ running \in SessionType \cup {None}
  /\ resets \in [Tokens -> Seals(Keys \cup {None}, Users)]
  /\ toggles \in 0..MaxToggles
  /\ rivals \subseteq Users /\ off \subseteq Tenants
  /\ erased \subseteq Users /\ crossed \subseteq Tenants

(* The recovery key of an account, and the password, open the private key  *)
(* that belongs to the public key that data is encrypted for               *)
(* (generate_recovery_key, change_password, set_user_password), unless     *)
(* another session of the first logins was open when the key was stored:   *)
(* it has a key of its own, or none, and may store that as the private key.*)
KeyPairs ==
  \A u \in Users \ rivals : Exists(u) /\ acct[u].pub # None =>
    /\ acct[u].rec = acct[u].pub
    /\ acct[u].prv # None /\ acct[u].prv.key = acct[u].pub

(* The current password opens the private key: no change of a password, by *)
(* whomever, leaves the key behind under an older one (login); on a site   *)
(* where no administrator unset encryption, for change_password leaves the *)
(* key alone then.                                                         *)
PasswordOpens ==
  \A u \in Users : Exists(u) /\ acct[u].prv # None /\ Home[u] \notin off =>
    acct[u].prv.for = acct[u].pass

(* When a site has an escrow key, the account of every user that is not    *)
(* about to change the password has a copy of its key for that escrow      *)
(* (change_password, db_create_user, toggle_escrow); but for rivals and    *)
(* where encryption was unset, and until the next change of the password   *)
(* when the escrow of another site was switched off.                       *)
EscrowCovers ==
  \A u \in Users \ rivals : Exists(u) /\ acct[u].pub # None /\ ~acct[u].must /\ Home[u] \notin off =>
    /\ escrow[Root] # None => acct[u].bkp1 = Sealed(acct[u].pub, escrow[Root])
    /\ Home[u] # Root /\ escrow[Home[u]] # None /\ u \notin erased =>
         acct[u].bkp2 = Sealed(acct[u].pub, escrow[Home[u]])

HoldsEscrow(u, t) == Exists(u) /\ Home[u] = t /\ acct[u].esc # None
                     /\ acct[u].esc = Sealed(escrow[t], acct[u].pub)

(* Somebody can still open the escrow of a site that has one: one of its   *)
(* users or, through the configuration of the site, one of the root site   *)
(* (toggle_user_escrow, db_delete_user); unless somebody who had lost the  *)
(* key took it from another one, for what is checked is the key in the     *)
(* session, and unless the escrow of the root site was switched since.     *)
EscrowHeld ==
  \A t \in tenants \ crossed :
    escrow[t] # None /\ (t # Root => Root \notin crossed /\ escrow[Root] # None
                                       /\ kept[t] = Sealed(escrow[t], escrow[Root])) =>
      \E u \in Users : HoldsEscrow(u, t) \/ HoldsEscrow(u, Root)

(* The public key of an account, for which reports are encrypted, is never *)
(* replaced, whatever happens to its password (change_password).           *)
PubIsKept ==
  \A u \in Users : Exists(u) /\ Exists(u)' /\ acct[u].pub # None =>
    acct'[u].pub = acct[u].pub

=============================================================================
