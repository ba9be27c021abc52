---------------------------- MODULE ReportsProofs ----------------------------
(***************************************************************************)
(* Theorems about Reports and Storage, for every set of recipients, reports*)
(* and attachments and every policy that the assumptions allow.            *)
(***************************************************************************)
EXTENDS Storage, TLAPS

(* Dates stay natural numbers: the start of a day is not before the epoch. *)
LEMMA MidnightNat ==
  ASSUME NEW t \in Nat
  PROVE  Midnight(t) \in Nat /\ Midnight(t) <= t /\ t < Midnight(t) + Day
<1>1. t % Day \in 0 .. (Day - 1) /\ t % Day <= t
  BY ClockAssumption
<1> QED
  BY <1>1, ClockAssumption DEF Midnight

LEMMA PolicyNat ==
  ASSUME NEW ttl \in Int, now \in Nat
  PROVE  Policy(ttl) \in Nat
  BY MidnightNat, ClockAssumption DEF Policy, Expiry

LEMMA ClampNat ==
  ASSUME TypeOK, NEW r \in Reports, NEW date \in Dates
  PROVE  ClampExpiration(r, date) \in Nat
<1>1. Midnight(now + MinAhead) \in Nat /\ Midnight(now + MaxAhead) \in Nat
  <2>1. now + MinAhead \in Nat /\ now + MaxAhead \in Nat
    BY ClockAssumption DEF TypeOK
  <2> QED
    BY <2>1, MidnightNat
<1>2. date \in Nat /\ expiration[r] \in Nat
  BY ClockAssumption DEF TypeOK
<1> QED
  BY <1>1, <1>2 DEF ClampExpiration, Min2

(* The initial state has the types of the tables. *)
LEMMA TypeInit == Init => TypeOK
  BY ClockAssumption, NameAssumption DEF Init, TypeOK

(* Each transaction keeps them: first those of the case. *)
LEMMA TypeCase ==
  ASSUME TypeOK, CaseStep
  PROVE  TypeOK'
<1> USE DEF TypeOK, CaseStatuses, accountVars, caseVars, contentVars, accessVars, fileVars
<1> SUFFICES ASSUME NEW u \in Users, NEW r \in Reports,
                    \/ OpenReport(u, r)
                    \/ ExportReport(u, r)
                    \/ \E s \in CaseStatuses, sub \in Substatuses \cup {NoSubstatus} :
                         UpdateStatus(u, r, s, sub)
                    \/ \E date \in Dates : PostponeExpiration(u, r, date) \/ SetReminder(u, r, date)
                    \/ \E visibility \in {"public", "internal", "personal"} :
                         RecipientContribution(u, r, visibility)
                    \/ \E f \in Files : RedactFile(u, f)
                    \/ DeleteReport(u, r)
             PROVE  TypeOK'
  BY DEF CaseStep
<1>1. CASE OpenReport(u, r)
  BY <1>1, ClockAssumption DEF OpenReport, NewsFor, SeenBy
<1>2. CASE ExportReport(u, r)
  BY <1>2 DEF ExportReport, SeenBy
<1>3. ASSUME NEW s \in CaseStatuses, NEW sub \in Substatuses \cup {NoSubstatus},
             UpdateStatus(u, r, s, sub)
      PROVE  TypeOK'
  <2>1. unread' \in [Reports -> SUBSET Users]
    BY <1>3 DEF UpdateStatus, NewsFor
  <2>2. /\ status' \in [Reports -> CaseStatuses \cup {"unsent", "deleted"}]
        /\ substatus' \in [Reports -> Substatuses \cup {NoSubstatus}]
        /\ reminder' \in [Reports -> Nat]
    BY <1>3, ClockAssumption DEF UpdateStatus, DbUpdateSubmissionStatus
  <2>3. Policy(ContextTTL) \in Nat /\ (sub # NoSubstatus => Policy(SubstatusTTL[sub]) \in Nat)
    BY PolicyNat, PolicyAssumption
  <2>4. /\ expiration' \in [Reports -> Nat]
        /\ source' \in [Reports -> {"channel", "substatus", "recipient", "carried"}]
    BY <1>3, <2>3 DEF UpdateStatus, DbUpdateSubmissionStatus, RecalculateDataRetention, Carried
  <2> QED
    BY <1>3, <2>1, <2>2, <2>4 DEF UpdateStatus
<1>4. ASSUME NEW date \in Dates, PostponeExpiration(u, r, date)
      PROVE  TypeOK'
  BY <1>4, ClampNat DEF PostponeExpiration, NewsForAll
<1>5. ASSUME NEW date \in Dates, SetReminder(u, r, date)
      PROVE  TypeOK'
  BY <1>5, ClockAssumption DEF SetReminder
<1>6. ASSUME NEW visibility \in {"public", "internal", "personal"},
             RecipientContribution(u, r, visibility)
      PROVE  TypeOK'
  BY <1>6 DEF RecipientContribution, NewsFor, SeenBy
<1>7. ASSUME NEW f \in Files, RedactFile(u, f)
      PROVE  TypeOK'
  BY <1>7 DEF RedactFile
<1>8. CASE DeleteReport(u, r)
  BY <1>8 DEF DeleteReport, DeleteReports, Logged
<1> QED
  BY <1>1, <1>2, <1>3, <1>4, <1>5, <1>6, <1>7, <1>8

(* Those of the whistleblower. *)
LEMMA TypeWhistleblower ==
  ASSUME TypeOK, WhistleblowerStep
  PROVE  TypeOK'
<1> USE DEF TypeOK, CaseStatuses, accountVars, caseVars, contentVars, accessVars, fileVars
<1> SUFFICES ASSUME NEW r \in Reports,
                    \/ \E R \in SUBSET Users, F \in SUBSET Files : Submit(r, R, F)
                    \/ WhistleblowerComment(r)
                    \/ ProvideIdentity(r)
                    \/ AnswerAdditionalQuestionnaire(r)
                    \/ \E f \in Files : RegisterIfile(r, f)
             PROVE  TypeOK'
  BY DEF WhistleblowerStep
<1>1. ASSUME NEW R \in SUBSET Users, NEW F \in SUBSET Files, Submit(r, R, F)
      PROVE  TypeOK'
  <2>1. Eligible(R) \in SUBSET Users /\ Sealable(R) \in BOOLEAN
    BY DEF Eligible, Sealable
  <2>2. Policy(ContextTTL) \in Nat /\ Policy(ContextReminder) \in Nat
    BY PolicyNat, PolicyAssumption
  <2> QED
    BY <1>1, <2>1, <2>2 DEF Submit
<1>2. CASE WhistleblowerComment(r)
  BY <1>2 DEF WhistleblowerComment, NewsForAll
<1>3. CASE ProvideIdentity(r)
  BY <1>3 DEF ProvideIdentity, NewsForAll
<1>4. CASE AnswerAdditionalQuestionnaire(r)
  BY <1>4 DEF AnswerAdditionalQuestionnaire
<1>5. ASSUME NEW f \in Files, RegisterIfile(r, f)
      PROVE  TypeOK'
  BY <1>5 DEF RegisterIfile, NewsForAll
<1> QED
  BY <1>1, <1>2, <1>3, <1>4, <1>5

(* The rows that a grant copies and those that a revocation removes. *)
LEMMA CopiedRows ==
  ASSUME NEW u \in Users, NEW v \in Users, NEW S \in SUBSET Reports
  PROVE  /\ CopyFiles(u, S, v) \in SUBSET (Users \X Files)
         /\ \A x \in Users, f \in Files :
              <<x, f>> \in CopyFiles(u, S, v) <=> x = v /\ home[f] \in S /\ <<u, f>> \in wbfile
<1> DEFINE G == {g \in Files : home[g] \in S /\ <<u, g>> \in wbfile}
<1>1. CopyFiles(u, S, v) = {<<v, g>> : g \in G}
  BY DEF CopyFiles
<1>2. \A f \in Files : f \in G <=> home[f] \in S /\ <<u, f>> \in wbfile
  OBVIOUS
<1>3. G \subseteq Files
  OBVIOUS
<1> HIDE DEF G
<1>4. \A x, f : <<x, f>> \in {<<v, g>> : g \in G} <=> x = v /\ f \in G
  OBVIOUS
<1>5. {<<v, g>> : g \in G} \in SUBSET (Users \X Files)
  BY <1>3
<1> QED
  BY <1>1, <1>2, <1>4, <1>5

LEMMA SeenRows ==
  ASSUME NEW v \in Users, NEW S \in SUBSET Reports
  PROVE  \A x \in Users, f \in Files :
           <<x, f>> \in FilesSeenBy(v, S) <=> x = v /\ home[f] \in S /\ <<x, f>> \in wbfile
<1> SUFFICES ASSUME NEW x \in Users, NEW f \in Files
             PROVE  <<x, f>> \in FilesSeenBy(v, S) <=> x = v /\ home[f] \in S /\ <<x, f>> \in wbfile
  OBVIOUS
<1>1. <<x, f>>[1] = x /\ <<x, f>>[2] = f
  OBVIOUS
<1> QED
  BY <1>1 DEF FilesSeenBy

(* Those that move access. *)
LEMMA TypeAccess ==
  ASSUME TypeOK, AccessStep
  PROVE  TypeOK'
<1> USE DEF TypeOK, CaseStatuses, accountVars, caseVars, contentVars, accessVars, fileVars
<1> SUFFICES ASSUME NEW u \in Users, NEW v \in Users,
                    \/ \E S \in SUBSET Reports \ {{}} : Grant(u, S, v) \/ RevokeAccessInBulk(u, S, v)
                    \/ \E r \in Reports : RevokeAccess(u, r, v) \/ TransferAccess(u, r, v)
             PROVE  TypeOK'
  BY DEF AccessStep
<1>1. ASSUME NEW S \in SUBSET Reports, Grant(u, S, v)
      PROVE  TypeOK'
  BY <1>1, CopiedRows DEF Grant
<1>2. ASSUME NEW S \in SUBSET Reports, DropTips(S, v)
      PROVE  TypeOK'
  BY <1>2 DEF DropTips, FilesSeenBy
<1>3. ASSUME NEW r \in Reports, TransferAccess(u, r, v)
      PROVE  TypeOK'
  BY <1>3, CopiedRows DEF TransferAccess
<1> QED
  BY <1>1, <1>2, <1>3 DEF RevokeAccess, RevokeAccessInBulk

(* Those of the jobs, of the clock and of the administrator. *)
LEMMA TypeSystem ==
  ASSUME TypeOK, SystemStep \/ AdminStep
  PROVE  TypeOK'
<1> USE DEF TypeOK, CaseStatuses, accountVars, caseVars, contentVars, accessVars, fileVars
<1>1. ASSUME NEW B \in SUBSET Files, FileDelivery(B)
      PROVE  TypeOK'
  BY <1>1 DEF FileDelivery
<1>2. CASE CleanExpiredReports
  BY <1>2 DEF CleanExpiredReports, DeleteReports, Logged, ExpiredReports, LiveReports
<1>3. CASE Tick
  BY <1>3, ClockAssumption DEF Tick
<1>4. CASE ResetReports
  BY <1>4 DEF ResetReports, DeleteReports, Logged
<1>5. CASE DisableEncryption \/ EnableEncryption
  BY <1>5 DEF DisableEncryption, EnableEncryption
<1>6. ASSUME NEW u \in Users, FirstLogin(u)
      PROVE  TypeOK'
  BY <1>6 DEF FirstLogin
<1>7. ASSUME NEW u \in Users, DeleteUser(u)
      PROVE  TypeOK'
  BY <1>7 DEF DeleteUser
<1> QED
  BY <1>1, <1>2, <1>3, <1>4, <1>5, <1>6, <1>7 DEF SystemStep, AdminStep

LEMMA TypeNext == TypeOK /\ [Next]_vars => TypeOK'
<1> SUFFICES ASSUME TypeOK, [Next]_vars PROVE TypeOK'
  OBVIOUS
<1>1. CASE UNCHANGED vars
  BY <1>1 DEF TypeOK, CaseStatuses, vars, accountVars, caseVars, contentVars, accessVars, fileVars
<1> QED
  BY <1>1, TypeCase, TypeWhistleblower, TypeAccess, TypeSystem DEF Next

(* Whatever happens, every row keeps the shape of its table. *)
THEOREM TypeCorrect == Spec => []TypeOK
  BY TypeInit, TypeNext, PTL DEF Spec

-----------------------------------------------------------------------------
(* Custody.  None of the four invariants is inductive alone: that a row    *)
(* has its parents is used to see that a new report starts without tips    *)
(* and attachments, that holders see the same attachments to see that a    *)
(* redacted one belongs to a report.                                       *)
Custody ==
  /\ TypeOK
  /\ RowsHaveParents
  /\ KeyCustody
  /\ SealedByDefault
  /\ HoldersSeeSameFiles

LEMMA CustodyInit == Init => Custody
<1> SUFFICES ASSUME Init PROVE Custody
  OBVIOUS
<1>1. TypeOK
  BY TypeInit
<1>2. \A r \in Reports : ~Live(r)
  BY NameAssumption DEF Init, Live, CaseStatuses
<1> QED
  BY <1>1, <1>2, NameAssumption DEF Init, Custody, RowsHaveParents, KeyCustody, SealedByDefault, HoldersSeeSameFiles

(* Work on a case changes neither who holds it nor its attachments. *)
Casework ==
  /\ UNCHANGED <<users, keyed, encryption, sealed, holders, ifile, home, wbfile>>
  /\ \A r \in Reports : Live(r)' <=> Live(r)
  /\ \A r \in Reports : unread'[r] \subseteq unread[r] \cup holders[r]

LEMMA CustodyCasework ==
  ASSUME Custody, Casework, TypeOK'
  PROVE  Custody'
<1> USE DEF Custody, Casework
<1>1. RowsHaveParents'
  BY DEF RowsHaveParents, TypeOK
<1>2. KeyCustody' /\ SealedByDefault'
  BY DEF KeyCustody, SealedByDefault
<1>3. HoldersSeeSameFiles'
  BY DEF HoldersSeeSameFiles
<1> QED
  BY <1>1, <1>2, <1>3

(* The steps that are casework. *)
LEMMA CaseworkSteps ==
  ASSUME TypeOK, NEW u \in Users, NEW r \in Reports,
         \/ OpenReport(u, r)
         \/ ExportReport(u, r)
         \/ \E s \in CaseStatuses, sub \in Substatuses \cup {NoSubstatus} : UpdateStatus(u, r, s, sub)
         \/ \E date \in Dates : PostponeExpiration(u, r, date) \/ SetReminder(u, r, date)
         \/ \E visibility \in {"public", "internal", "personal"} :
              RecipientContribution(u, r, visibility)
         \/ WhistleblowerComment(r)
         \/ ProvideIdentity(r)
         \/ AnswerAdditionalQuestionnaire(r)
  PROVE  Casework
<1> USE DEF TypeOK, Casework, CaseStatuses, Live, Holds, accountVars, caseVars, contentVars, accessVars, fileVars
<1>1. CASE OpenReport(u, r)
  BY <1>1 DEF OpenReport, NewsFor, SeenBy
<1>2. CASE ExportReport(u, r)
  BY <1>2 DEF ExportReport, SeenBy
<1>3. ASSUME NEW s \in CaseStatuses, NEW sub \in Substatuses \cup {NoSubstatus},
             UpdateStatus(u, r, s, sub)
      PROVE  Casework
  BY <1>3 DEF UpdateStatus, DbUpdateSubmissionStatus, NewsFor
<1>4. ASSUME NEW date \in Dates, PostponeExpiration(u, r, date) \/ SetReminder(u, r, date)
      PROVE  Casework
  BY <1>4 DEF PostponeExpiration, SetReminder, NewsForAll
<1>5. ASSUME NEW visibility \in {"public", "internal", "personal"},
             RecipientContribution(u, r, visibility)
      PROVE  Casework
  BY <1>5 DEF RecipientContribution, NewsFor, SeenBy
<1>6. CASE WhistleblowerComment(r)
  BY <1>6 DEF WhistleblowerComment, NewsForAll
<1>7. CASE ProvideIdentity(r)
  BY <1>7 DEF ProvideIdentity, NewsForAll
<1>8. CASE AnswerAdditionalQuestionnaire(r)
  BY <1>8 DEF AnswerAdditionalQuestionnaire
<1> QED
  BY <1>1, <1>2, <1>3, <1>4, <1>5, <1>6, <1>7, <1>8

LEMMA CustodySubmit ==
  ASSUME Custody, TypeOK', NEW r \in Reports, NEW R \in SUBSET Users, NEW F \in SUBSET Files,
         Submit(r, R, F)
  PROVE  Custody'
<1> USE DEF Custody, accountVars
<1>1. ~Live(r) /\ holders[r] = {} /\ Eligible(R) \subseteq users
  BY NameAssumption DEF Submit, Live, CaseStatuses, RowsHaveParents, Eligible, TypeOK
<1>2. \A q \in Reports : Live(q)' <=> q = r \/ Live(q)
  BY DEF Submit, Live, CaseStatuses, TypeOK
<1>3. \A f \in Files : ifile[f] = "delivered" => home[f] \in Reports \ {r} /\ Live(home[f])
  BY <1>1 DEF RowsHaveParents, TypeOK
<1>4. RowsHaveParents'
  <2>1. \A q \in Reports : unread'[q] \subseteq holders'[q] /\ holders'[q] \subseteq users'
    BY <1>1 DEF Submit, RowsHaveParents, TypeOK
  <2>2. \A q \in Reports : ~Live(q)' => holders'[q] = {}
    BY <1>2 DEF Submit, RowsHaveParents, TypeOK
  <2>3. \A f \in Files : ifile'[f] \in {"new", "delivered"} => Live(home[f])'
    <3> SUFFICES ASSUME NEW f \in Files, ifile'[f] \in {"new", "delivered"}
                 PROVE  Live(home[f])'
      OBVIOUS
    <3>1. CASE f \in F
      BY <3>1, <1>2 DEF Submit, Live, TypeOK
    <3>2. CASE f \notin F
      <4>1. ifile[f] \in {"new", "delivered"} /\ home'[f] = home[f]
        BY <3>2 DEF Submit, TypeOK
      <4>2. home[f] \in Reports /\ Live(home[f])
        BY <4>1 DEF RowsHaveParents, TypeOK
      <4> QED
        BY <4>1, <4>2, <1>2 DEF Live
    <3> QED
      BY <3>1, <3>2
  <2>4. \A f \in Files : ifile'[f] = "none" <=> home'[f] = NoReport
    BY NameAssumption DEF Submit, RowsHaveParents, TypeOK
  <2> QED
    BY <2>1, <2>2, <2>3, <2>4 DEF RowsHaveParents
<1>5. KeyCustody' /\ SealedByDefault'
  <2>1. sealed'[r] = Sealable(R)
    BY DEF Submit, TypeOK
  <2>2. Sealable(R) => Eligible(R) \subseteq keyed
    BY DEF Sealable
  <2>3. encryption = "builtin" => Sealable(R)
    BY DEF Sealable, Eligible
  <2>4. \A q \in Reports : q # r => sealed'[q] = sealed[q] /\ holders'[q] = holders[q]
    BY DEF Submit, TypeOK
  <2>5. holders'[r] = Eligible(R)
    BY DEF Submit, TypeOK
  <2>6. UNCHANGED <<users, keyed, encryption>>
    BY DEF Submit
  <2>7. KeyCustody'
    BY <2>1, <2>2, <2>4, <2>5, <2>6, <1>2 DEF KeyCustody
  <2>8. SealedByDefault'
    BY <2>1, <2>3, <2>4, <2>6, <1>2 DEF SealedByDefault
  <2> QED
    BY <2>7, <2>8
<1>6. HoldersSeeSameFiles'
  <2>1. \A f \in Files : ifile'[f] = "delivered" =>
          ifile[f] = "delivered" /\ home'[f] = home[f] /\ holders'[home[f]] = holders[home[f]]
    BY <1>3 DEF Submit, TypeOK
  <2>2. \A f \in Files : ifile[f] = "delivered" =>
          ifile'[f] = "delivered" /\ home'[f] = home[f] /\ holders'[home[f]] = holders[home[f]]
    BY <1>3 DEF Submit, TypeOK
  <2> QED
    BY <2>1, <2>2 DEF Submit, HoldersSeeSameFiles
<1> QED
  BY <1>4, <1>5, <1>6

(* Moving access: every report keeps its status, every attachment its      *)
(* place.  What remains to see is that holders and attachments match.      *)
Move ==
  /\ UNCHANGED <<users, keyed, encryption, status, sealed, ifile, home>>
  /\ \A r \in Reports : unread'[r] \subseteq holders'[r]
  /\ \A r \in Reports : ~Live(r) => holders'[r] = {}
  /\ \A r \in Reports : \A x \in holders'[r] :
       x \in holders[r] \/ (x \in users /\ (sealed[r] => x \in keyed))

LEMMA CustodyMove ==
  ASSUME Custody, Move, TypeOK', HoldersSeeSameFiles'
  PROVE  Custody'
<1> USE DEF Custody, Move
<1>1. \A r \in Reports : Live(r)' <=> Live(r)
  BY DEF Live, CaseStatuses
<1>2. RowsHaveParents'
  <2>1. \A r \in Reports : unread'[r] \subseteq holders'[r] /\ holders'[r] \subseteq users'
    BY DEF RowsHaveParents, TypeOK
  <2>2. \A f \in Files : ifile'[f] \in {"new", "delivered"} => Live(home[f])'
    BY DEF RowsHaveParents, Live, CaseStatuses
  <2>3. \A f \in Files : ifile'[f] = "none" <=> home'[f] = NoReport
    BY DEF RowsHaveParents
  <2>4. \A r \in Reports : ~Live(r)' => holders'[r] = {}
    BY <1>1
  <2> QED
    BY <2>1, <2>2, <2>3, <2>4 DEF RowsHaveParents
<1>3. KeyCustody' /\ SealedByDefault'
  BY <1>1 DEF KeyCustody, SealedByDefault
<1> QED
  BY <1>2, <1>3

LEMMA CustodyGrant ==
  ASSUME Custody, TypeOK', NEW u \in Users, NEW v \in Users, NEW S \in SUBSET Reports,
         Grant(u, S, v)
  PROVE  Custody'
<1> USE DEF Custody, accountVars, caseVars, contentVars
<1>1. /\ \A r \in S : holders'[r] = holders[r] \cup {v}
      /\ \A r \in Reports \ S : holders'[r] = holders[r]
  BY DEF Grant, TypeOK
<1>2. Move
  BY <1>1 DEF Move, Grant, Grantable, Holds, RowsHaveParents, TypeOK
<1>3. HoldersSeeSameFiles'
  <2>1. \A x \in Users, f \in Files :
          <<x, f>> \in wbfile' <=> <<x, f>> \in wbfile \/ (x = v /\ home[f] \in S /\ <<u, f>> \in wbfile)
    BY CopiedRows DEF Grant
  <2>2. \A f \in Files : ifile[f] = "delivered" => home[f] \in Reports
    BY DEF RowsHaveParents, TypeOK
  <2>3. \A f \in Files : ifile[f] = "delivered" /\ home[f] \in S => <<u, f>> \in wbfile
    BY DEF Grant, Holds, HoldersSeeSameFiles
  <2>4. UNCHANGED <<ifile, home>>
    BY DEF Grant
  <2>5. \A x \in Users, f \in Files : <<x, f>> \in wbfile' =>
          ifile'[f] = "delivered" /\ x \in holders'[home'[f]]
    BY <1>1, <2>1, <2>2, <2>4 DEF HoldersSeeSameFiles
  <2>6. \A f \in Files : ifile'[f] = "delivered" =>
          \A x \in holders'[home'[f]] : <<x, f>> \in wbfile'
    <3> SUFFICES ASSUME NEW f \in Files, ifile[f] = "delivered", NEW x \in holders'[home[f]]
                 PROVE  <<x, f>> \in wbfile'
      BY <2>4
    <3>1. x \in Users /\ home[f] \in Reports
      BY <2>2, <2>4 DEF TypeOK
    <3>2. x \in holders[home[f]] => <<x, f>> \in wbfile
      BY DEF HoldersSeeSameFiles
    <3> QED
      BY <1>1, <2>1, <2>3, <3>1, <3>2
  <2> QED
    BY <2>5, <2>6 DEF HoldersSeeSameFiles
<1> QED
  BY <1>2, <1>3, CustodyMove

LEMMA CustodyDropTips ==
  ASSUME Custody, TypeOK', NEW v \in Users, NEW S \in SUBSET Reports, DropTips(S, v)
  PROVE  Custody'
<1> USE DEF Custody, accountVars, caseVars, contentVars
<1>1. \A r \in Reports : holders'[r] = IF r \in S THEN holders[r] \ {v} ELSE holders[r]
  BY DEF DropTips, TypeOK
<1>2. Move
  BY <1>1 DEF Move, DropTips, RowsHaveParents, TypeOK
<1>3. HoldersSeeSameFiles'
  <2>1. \A x \in Users, f \in Files :
          <<x, f>> \in wbfile' <=> <<x, f>> \in wbfile /\ ~(x = v /\ home[f] \in S)
    BY SeenRows DEF DropTips
  <2>2. \A f \in Files : ifile[f] = "delivered" => home[f] \in Reports
    BY DEF RowsHaveParents, TypeOK
  <2>3. UNCHANGED <<ifile, home>>
    BY DEF DropTips
  <2> QED
    BY <1>1, <2>1, <2>2, <2>3 DEF HoldersSeeSameFiles, TypeOK
<1> QED
  BY <1>2, <1>3, CustodyMove

LEMMA CustodyTransfer ==
  ASSUME Custody, TypeOK', NEW u \in Users, NEW v \in Users, NEW r \in Reports,
         TransferAccess(u, r, v)
  PROVE  Custody'
<1> USE DEF Custody, accountVars, caseVars, contentVars
<1>1. \A q \in Reports : holders'[q] = IF q = r THEN (holders[r] \cup {v}) \ {u} ELSE holders[q]
  BY DEF TransferAccess, TypeOK
<1>2. Move
  BY <1>1 DEF Move, TransferAccess, Grantable, Holds, RowsHaveParents, TypeOK
<1>3. HoldersSeeSameFiles'
  <2>1. \A x \in Users, f \in Files :
          <<x, f>> \in wbfile' <=>
            /\ <<x, f>> \in wbfile \/ (x = v /\ home[f] = r /\ <<u, f>> \in wbfile)
            /\ ~(x = u /\ home[f] = r)
    <3>1. u # v
      BY DEF TransferAccess, Grantable, Holds
    <3>2. wbfile' = (wbfile \cup CopyFiles(u, {r}, v)) \ FilesSeenBy(u, {r})
      BY DEF TransferAccess
    <3>3. {r} \in SUBSET Reports
      OBVIOUS
    <3>4. \A x \in Users, f \in Files :
            <<x, f>> \in CopyFiles(u, {r}, v) <=> x = v /\ home[f] = r /\ <<u, f>> \in wbfile
      BY <3>3, CopiedRows
    <3>5. \A x \in Users, f \in Files :
            <<x, f>> \in FilesSeenBy(u, {r}) <=> x = u /\ home[f] = r /\ <<x, f>> \in wbfile
      BY <3>3, SeenRows
    <3> QED
      BY <3>1, <3>2, <3>4, <3>5
  <2>2. \A f \in Files : ifile[f] = "delivered" => home[f] \in Reports
    BY DEF RowsHaveParents, TypeOK
  <2>3. \A f \in Files : ifile[f] = "delivered" /\ home[f] = r => <<u, f>> \in wbfile
    BY DEF TransferAccess, Holds, HoldersSeeSameFiles
  <2>4. UNCHANGED <<ifile, home>>
    BY DEF TransferAccess
  <2>5. \A x \in Users, f \in Files : <<x, f>> \in wbfile' =>
          ifile'[f] = "delivered" /\ x \in holders'[home'[f]]
    BY <1>1, <2>1, <2>2, <2>4 DEF HoldersSeeSameFiles
  <2>6. \A f \in Files : ifile'[f] = "delivered" =>
          \A x \in holders'[home'[f]] : <<x, f>> \in wbfile'
    <3> SUFFICES ASSUME NEW f \in Files, ifile[f] = "delivered", NEW x \in holders'[home[f]]
                 PROVE  <<x, f>> \in wbfile'
      BY <2>4
    <3>1. x \in Users /\ home[f] \in Reports
      BY <2>2, <2>4 DEF TypeOK
    <3>2. x \in holders[home[f]] => <<x, f>> \in wbfile
      BY DEF HoldersSeeSameFiles
    <3> QED
      BY <1>1, <2>1, <2>3, <3>1, <3>2
  <2> QED
    BY <2>5, <2>6 DEF HoldersSeeSameFiles
<1> QED
  BY <1>2, <1>3, CustodyMove

LEMMA CustodyRegister ==
  ASSUME Custody, TypeOK', NEW r \in Reports, NEW f \in Files, RegisterIfile(r, f)
  PROVE  Custody'
<1> USE DEF Custody, accountVars, caseVars, contentVars
<1>1. /\ UNCHANGED <<users, keyed, encryption, status, sealed, holders, wbfile>>
      /\ ifile[f] = "none" /\ ifile'[f] = "new" /\ home'[f] = r /\ Live(r)
      /\ \A g \in Files \ {f} : ifile'[g] = ifile[g] /\ home'[g] = home[g]
      /\ unread' = [unread EXCEPT ![r] = holders[r]]
  BY DEF RegisterIfile, NewsForAll, TakesMore, TypeOK
<1>2. \A q \in Reports : Live(q)' <=> Live(q)
  BY <1>1 DEF Live, CaseStatuses
<1>3. RowsHaveParents'
  <2>1. \A q \in Reports : unread'[q] \subseteq holders'[q] /\ holders'[q] \subseteq users'
    BY <1>1 DEF RowsHaveParents, TypeOK
  <2>2. \A q \in Reports : ~Live(q)' => holders'[q] = {}
    BY <1>1, <1>2 DEF RowsHaveParents
  <2>3. \A g \in Files : ifile'[g] \in {"new", "delivered"} => Live(home[g])'
    BY <1>1 DEF RowsHaveParents, Live, CaseStatuses
  <2>4. \A g \in Files : ifile'[g] = "none" <=> home'[g] = NoReport
    BY <1>1, NameAssumption DEF RowsHaveParents
  <2> QED
    BY <2>1, <2>2, <2>3, <2>4 DEF RowsHaveParents
<1>4. KeyCustody' /\ SealedByDefault'
  BY <1>1, <1>2 DEF KeyCustody, SealedByDefault
<1>5. HoldersSeeSameFiles'
  BY <1>1 DEF HoldersSeeSameFiles
<1> QED
  BY <1>3, <1>4, <1>5

LEMMA CustodyDelivery ==
  ASSUME Custody, TypeOK', NEW B \in SUBSET Files, FileDelivery(B)
  PROVE  Custody'
<1> USE DEF Custody, accountVars, caseVars, contentVars, accessVars
<1>1. /\ UNCHANGED <<users, keyed, encryption, status, sealed, holders, unread, home>>
      /\ \A f \in B : ifile[f] = "new" /\ ifile'[f] = "delivered"
      /\ \A f \in Files \ B : ifile'[f] = ifile[f]
  BY DEF FileDelivery, NewFiles, TypeOK
<1>2. \A q \in Reports : Live(q)' <=> Live(q)
  BY <1>1 DEF Live, CaseStatuses
<1>3. RowsHaveParents'
  <2>1. \A g \in Files : ifile'[g] \in {"new", "delivered"} => Live(home[g])'
    BY <1>1 DEF RowsHaveParents, Live, CaseStatuses
  <2>2. \A g \in Files : ifile'[g] = "none" <=> home'[g] = NoReport
    BY <1>1 DEF RowsHaveParents
  <2> QED
    BY <1>1, <1>2, <2>1, <2>2 DEF RowsHaveParents
<1>4. KeyCustody' /\ SealedByDefault'
  BY <1>1, <1>2 DEF KeyCustody, SealedByDefault
<1>5. HoldersSeeSameFiles'
  <2>1. \A x \in Users, f \in Files :
          <<x, f>> \in wbfile' <=> <<x, f>> \in wbfile \/ (f \in B /\ x \in holders[home[f]])
    <3> SUFFICES ASSUME NEW x \in Users, NEW f \in Files
                 PROVE  <<x, f>> \in wbfile' <=>
                          <<x, f>> \in wbfile \/ (f \in B /\ x \in holders[home[f]])
      OBVIOUS
    <3>1. <<x, f>>[1] = x /\ <<x, f>>[2] = f /\ (<<x, f>> \in Users \X B <=> f \in B)
      OBVIOUS
    <3>2. wbfile' = wbfile \cup {w \in Users \X B : w[1] \in holders[home[w[2]]]}
      BY DEF FileDelivery
    <3> QED
      BY <3>1, <3>2
  <2>2. \A x \in Users, f \in Files : <<x, f>> \in wbfile' =>
          ifile'[f] = "delivered" /\ x \in holders'[home'[f]]
    BY <1>1, <2>1 DEF HoldersSeeSameFiles
  <2>3. \A f \in Files : ifile'[f] = "delivered" => \A x \in holders'[home'[f]] : <<x, f>> \in wbfile'
    <3> SUFFICES ASSUME NEW f \in Files, ifile'[f] = "delivered", NEW x \in holders[home[f]]
                 PROVE  <<x, f>> \in wbfile'
      BY <1>1
    <3>1. ifile[f] \in {"new", "delivered"}
      BY <1>1
    <3>2. x \in Users
      BY <3>1 DEF RowsHaveParents, TypeOK
    <3>3. f \notin B => <<x, f>> \in wbfile
      BY <1>1 DEF HoldersSeeSameFiles
    <3> QED
      BY <2>1, <3>2, <3>3
  <2> QED
    BY <2>2, <2>3 DEF HoldersSeeSameFiles
<1> QED
  BY <1>3, <1>4, <1>5

LEMMA CustodyRedact ==
  ASSUME Custody, TypeOK', NEW u \in Users, NEW f \in Files, RedactFile(u, f)
  PROVE  Custody'
<1> USE DEF Custody, accountVars, caseVars, contentVars, accessVars
<1>1. /\ UNCHANGED <<users, keyed, encryption, status, sealed, holders, unread, home>>
      /\ ifile'[f] = "deleted" /\ ifile[f] = "delivered"
      /\ \A g \in Files \ {f} : ifile'[g] = ifile[g]
  BY DEF RedactFile, HoldersSeeSameFiles, TypeOK
<1>2. \A q \in Reports : Live(q)' <=> Live(q)
  BY <1>1 DEF Live, CaseStatuses
<1>3. RowsHaveParents'
  <2>1. \A g \in Files : ifile'[g] \in {"new", "delivered"} => Live(home[g])'
    BY <1>1 DEF RowsHaveParents, Live, CaseStatuses
  <2>2. \A g \in Files : ifile'[g] = "none" <=> home'[g] = NoReport
    BY <1>1 DEF RowsHaveParents
  <2> QED
    BY <1>1, <1>2, <2>1, <2>2 DEF RowsHaveParents
<1>4. KeyCustody' /\ SealedByDefault'
  BY <1>1, <1>2 DEF KeyCustody, SealedByDefault
<1>5. HoldersSeeSameFiles'
  <2>1. \A x \in Users, g \in Files : <<x, g>> \in wbfile' <=> <<x, g>> \in wbfile /\ g # f
    <3> SUFFICES ASSUME NEW x \in Users, NEW g \in Files
                 PROVE  <<x, g>> \in wbfile' <=> <<x, g>> \in wbfile /\ g # f
      OBVIOUS
    <3>1. <<x, g>>[2] = g
      OBVIOUS
    <3> QED
      BY <3>1 DEF RedactFile
  <2>2. \A g \in Files : ifile[g] = "delivered" => holders[home[g]] \subseteq Users
    BY DEF RowsHaveParents, TypeOK
  <2> QED
    BY <1>1, <2>1, <2>2 DEF HoldersSeeSameFiles
<1> QED
  BY <1>3, <1>4, <1>5

LEMMA CustodyDelete ==
  ASSUME Custody, TypeOK', NEW D \in SUBSET Reports, DeleteReports(D)
  PROVE  Custody'
<1> USE DEF Custody, accountVars, contentVars
<1>1. /\ UNCHANGED <<users, keyed, encryption, sealed, home>>
      /\ \A r \in Reports : status'[r] = IF r \in D THEN "deleted" ELSE status[r]
      /\ \A r \in Reports : holders'[r] = IF r \in D THEN {} ELSE holders[r]
      /\ \A r \in Reports : unread'[r] = IF r \in D THEN {} ELSE unread[r]
      /\ \A f \in Files : ifile'[f] = IF home[f] \in D THEN "deleted" ELSE ifile[f]
  BY DEF DeleteReports
<1>2. \A q \in Reports : Live(q)' <=> Live(q) /\ q \notin D
  BY <1>1, NameAssumption DEF Live, CaseStatuses
<1>3. RowsHaveParents'
  <2>1. \A r \in Reports : unread'[r] \subseteq holders'[r] /\ holders'[r] \subseteq users'
    BY <1>1 DEF RowsHaveParents
  <2>2. \A r \in Reports : ~Live(r)' => holders'[r] = {}
    BY <1>1, <1>2 DEF RowsHaveParents
  <2>3. ASSUME NEW f \in Files, ifile'[f] \in {"new", "delivered"}
        PROVE  Live(home[f])'
    <3>1. home[f] \notin D /\ ifile[f] \in {"new", "delivered"}
      BY <1>1, <2>3
    <3>2. home[f] \in Reports /\ Live(home[f])
      BY <3>1 DEF RowsHaveParents, TypeOK
    <3> QED
      BY <1>1, <3>1, <3>2 DEF Live, CaseStatuses
  <2>4. \A f \in Files : ifile'[f] = "none" <=> home'[f] = NoReport
    BY <1>1, NameAssumption DEF RowsHaveParents
  <2> QED
    BY <2>1, <2>2, <2>3, <2>4 DEF RowsHaveParents
<1>4. KeyCustody' /\ SealedByDefault'
  BY <1>1, <1>2 DEF KeyCustody, SealedByDefault
<1>5. HoldersSeeSameFiles'
  <2>1. \A x \in Users, f \in Files : <<x, f>> \in wbfile' <=> <<x, f>> \in wbfile /\ home[f] \notin D
    <3> SUFFICES ASSUME NEW x \in Users, NEW f \in Files
                 PROVE  <<x, f>> \in wbfile' <=> <<x, f>> \in wbfile /\ home[f] \notin D
      OBVIOUS
    <3>1. <<x, f>>[2] = f
      OBVIOUS
    <3> QED
      BY <3>1 DEF DeleteReports
  <2>2. \A f \in Files : ifile'[f] = "delivered" =>
          /\ ifile[f] = "delivered" /\ home[f] \notin D /\ home[f] \in Reports
          /\ holders'[home[f]] = holders[home[f]] /\ holders[home[f]] \subseteq Users
    BY <1>1 DEF RowsHaveParents, TypeOK
  <2>3. \A f \in Files : ifile[f] = "delivered" /\ home[f] \notin D => ifile'[f] = "delivered"
    BY <1>1
  <2> QED
    BY <1>1, <2>1, <2>2, <2>3 DEF HoldersSeeSameFiles
<1> QED
  BY <1>3, <1>4, <1>5

LEMMA CustodyDeleteUser ==
  ASSUME Custody, TypeOK', NEW u \in Users, DeleteUser(u)
  PROVE  Custody'
<1> USE DEF Custody, caseVars, contentVars
<1>1. /\ UNCHANGED <<encryption, status, sealed, ifile, home>>
      /\ users' = users \ {u} /\ keyed' = keyed \ {u}
      /\ \A r \in Reports : holders'[r] = holders[r] \ {u}
      /\ \A r \in Reports : unread'[r] = unread[r] \ {u}
  BY DEF DeleteUser
<1>2. \A q \in Reports : Live(q)' <=> Live(q)
  BY <1>1 DEF Live, CaseStatuses
<1>3. RowsHaveParents'
  <2>1. \A f \in Files : ifile'[f] \in {"new", "delivered"} => Live(home[f])'
    BY <1>1 DEF RowsHaveParents, Live, CaseStatuses
  <2>2. \A f \in Files : ifile'[f] = "none" <=> home'[f] = NoReport
    BY <1>1 DEF RowsHaveParents
  <2> QED
    BY <1>1, <1>2, <2>1, <2>2 DEF RowsHaveParents
<1>4. KeyCustody' /\ SealedByDefault'
  BY <1>1, <1>2 DEF KeyCustody, SealedByDefault
<1>5. HoldersSeeSameFiles'
  <2>1. \A x \in Users, f \in Files : <<x, f>> \in wbfile' <=> <<x, f>> \in wbfile /\ x # u
    <3> SUFFICES ASSUME NEW x \in Users, NEW f \in Files
                 PROVE  <<x, f>> \in wbfile' <=> <<x, f>> \in wbfile /\ x # u
      OBVIOUS
    <3>1. <<x, f>>[1] = x
      OBVIOUS
    <3> QED
      BY <3>1 DEF DeleteUser
  <2>2. \A f \in Files : ifile[f] = "delivered" =>
          holders'[home[f]] = holders[home[f]] \ {u} /\ holders[home[f]] \subseteq Users
    BY <1>1 DEF RowsHaveParents, TypeOK
  <2> QED
    BY <1>1, <2>1, <2>2 DEF HoldersSeeSameFiles
<1> QED
  BY <1>3, <1>4, <1>5

LEMMA CustodyKeys ==
  ASSUME Custody, TypeOK', UNCHANGED <<users, status, sealed, accessVars, fileVars>>,
         keyed \subseteq keyed', encryption' = "builtin" => encryption = "builtin"
  PROVE  Custody'
<1> USE DEF Custody, accessVars, fileVars
<1>1. \A q \in Reports : Live(q)' <=> Live(q)
  BY DEF Live, CaseStatuses
<1>2. RowsHaveParents'
  BY DEF RowsHaveParents, Live, CaseStatuses
<1>3. KeyCustody' /\ SealedByDefault'
  BY <1>1 DEF KeyCustody, SealedByDefault
<1>4. HoldersSeeSameFiles'
  BY DEF HoldersSeeSameFiles
<1> QED
  BY <1>2, <1>3, <1>4

LEMMA CustodyNext == Custody /\ [Next]_vars => Custody'
<1> SUFFICES ASSUME Custody, [Next]_vars PROVE Custody'
  OBVIOUS
<1>1. TypeOK /\ TypeOK'
  BY TypeNext DEF Custody
<1>2. CASE WhistleblowerStep
  <2>1. ASSUME NEW r \in Reports, NEW R \in SUBSET Users, NEW F \in SUBSET Files, Submit(r, R, F)
        PROVE  Custody'
    BY <1>1, <2>1, CustodySubmit
  <2>2. ASSUME NEW r \in Reports, NEW f \in Files, RegisterIfile(r, f)
        PROVE  Custody'
    BY <1>1, <2>2, CustodyRegister
  <2>3. ASSUME NEW r \in Reports,
               WhistleblowerComment(r) \/ ProvideIdentity(r) \/ AnswerAdditionalQuestionnaire(r)
        PROVE  Casework
    BY <1>1, <2>3 DEF WhistleblowerComment, ProvideIdentity, AnswerAdditionalQuestionnaire, NewsForAll,
       Casework, TypeOK, CaseStatuses, Live, accountVars, caseVars, contentVars, accessVars, fileVars
  <2> QED
    BY <1>1, <1>2, <2>1, <2>2, <2>3, CustodyCasework DEF WhistleblowerStep
<1>3. CASE CaseStep
  <2>1. ASSUME NEW u \in Users, NEW f \in Files, RedactFile(u, f)
        PROVE  Custody'
    BY <1>1, <2>1, CustodyRedact
  <2>2. ASSUME NEW u \in Users, NEW r \in Reports, DeleteReport(u, r)
        PROVE  Custody'
    BY <1>1, <2>2, CustodyDelete DEF DeleteReport
  <2> QED
    BY <1>1, <1>3, <2>1, <2>2, CaseworkSteps, CustodyCasework DEF CaseStep
<1>4. CASE AccessStep
  <2>1. ASSUME NEW u \in Users, NEW v \in Users, NEW S \in SUBSET Reports,
               Grant(u, S, v) \/ RevokeAccessInBulk(u, S, v)
        PROVE  Custody'
    BY <1>1, <2>1, CustodyGrant, CustodyDropTips DEF RevokeAccessInBulk
  <2>2. ASSUME NEW u \in Users, NEW v \in Users, NEW r \in Reports,
               RevokeAccess(u, r, v) \/ TransferAccess(u, r, v)
        PROVE  Custody'
    BY <1>1, <2>2, CustodyTransfer, CustodyDropTips DEF RevokeAccess
  <2> QED
    BY <1>4, <2>1, <2>2 DEF AccessStep
<1>5. CASE SystemStep
  <2>1. ASSUME NEW B \in SUBSET Files, FileDelivery(B)
        PROVE  Custody'
    BY <1>1, <2>1, CustodyDelivery
  <2>2. CASE CleanExpiredReports
    BY <1>1, <2>2, CustodyDelete DEF CleanExpiredReports, ExpiredReports, LiveReports
  <2>3. CASE Tick
    BY <1>1, <2>3, CustodyKeys DEF Tick, accountVars, caseVars, contentVars
  <2> QED
    BY <1>5, <2>1, <2>2, <2>3 DEF SystemStep
<1>6. CASE AdminStep
  <2>1. CASE ResetReports
    BY <1>1, <2>1, CustodyDelete DEF ResetReports, LiveReports
  <2>2. CASE DisableEncryption \/ EnableEncryption
    BY <1>1, <2>2, CustodyKeys DEF DisableEncryption, EnableEncryption, caseVars, contentVars
  <2>3. ASSUME NEW u \in Users, FirstLogin(u)
        PROVE  Custody'
    BY <1>1, <2>3, CustodyKeys DEF FirstLogin, caseVars, contentVars
  <2>4. ASSUME NEW u \in Users, DeleteUser(u)
        PROVE  Custody'
    BY <1>1, <2>4, CustodyDeleteUser
  <2> QED
    BY <1>6, <2>1, <2>2, <2>3, <2>4 DEF AdminStep
<1>7. CASE UNCHANGED vars
  BY <1>1, <1>7, CustodyKeys DEF vars, accountVars, caseVars, contentVars
<1> QED
  BY <1>2, <1>3, <1>4, <1>5, <1>6, <1>7 DEF Next

LEMMA CustodyAlways == Spec => []Custody
  BY CustodyInit, CustodyNext, PTL DEF Spec

(* Tips, attachments and their rows never outlive what they belong to. *)
THEOREM RowsHaveParentsAlways == Spec => []RowsHaveParents
  BY CustodyAlways, PTL DEF Custody

(* Whoever holds an encrypted report has the keys to read it. *)
THEOREM KeyCustodyAlways == Spec => []KeyCustody
  BY CustodyAlways, PTL DEF Custody

(* While the setting is as it was set up, with encryption, no report is in *)
(* clear.                                                                  *)
THEOREM SealedByDefaultAlways == Spec => []SealedByDefault
  BY CustodyAlways, PTL DEF Custody

(* All holders of a report see the same attachments, and only they do. *)
THEOREM HoldersSeeSameFilesAlways == Spec => []HoldersSeeSameFiles
  BY CustodyAlways, PTL DEF Custody

-----------------------------------------------------------------------------
(* Nobody takes a report away from its last recipient but that recipient   *)
(* or the administrator who deletes the account.                           *)
Abandons(r) ==
  /\ Live(r) /\ holders[r] # {} /\ Live(r)' /\ holders'[r] = {}
  => \E u \in Users : holders[r] = {u} /\ (u \in CanGrant \/ u \notin users')

(* Steps that keep the holders, or end the report, abandon nothing. *)
LEMMA NotAbandoned ==
  ASSUME NEW r \in Reports, holders[r] \subseteq holders'[r] \/ ~Live(r)'
  PROVE  Abandons(r)
  BY DEF Abandons

LEMMA AbandonStep ==
  ASSUME Custody, [Next]_vars, NEW r \in Reports
  PROVE  Abandons(r)
<1> USE DEF Custody, accessVars
<1>1. CASE WhistleblowerStep
  <2>1. ASSUME NEW q \in Reports, NEW R \in SUBSET Users, NEW F \in SUBSET Files, Submit(q, R, F)
        PROVE  holders[r] \subseteq holders'[r]
    BY <2>1, NameAssumption DEF Submit, RowsHaveParents, Live, CaseStatuses, TypeOK
  <2> QED
    BY <1>1, <2>1, NotAbandoned DEF WhistleblowerStep, WhistleblowerComment, ProvideIdentity,
       AnswerAdditionalQuestionnaire, RegisterIfile
<1>2. CASE CaseStep
  <2>1. ASSUME NEW u \in Users, NEW q \in Reports, DeleteReport(u, q)
        PROVE  Abandons(r)
    <3>1. CASE q = r
      BY <2>1, <3>1, NameAssumption, NotAbandoned DEF DeleteReport, DeleteReports, Live, CaseStatuses
    <3>2. CASE q # r
      BY <2>1, <3>2, NotAbandoned DEF DeleteReport, DeleteReports
    <3> QED
      BY <3>1, <3>2
  <2>2. ASSUME NEW u \in Users, NEW f \in Files, RedactFile(u, f)
        PROVE  Abandons(r)
    BY <2>2, NotAbandoned DEF RedactFile
  <2> QED
    BY <1>2, <2>1, <2>2, CaseworkSteps, NotAbandoned DEF CaseStep, Casework
<1>3. CASE AccessStep
  <2>1. ASSUME NEW u \in Users, NEW v \in Users, NEW S \in SUBSET Reports, Grant(u, S, v)
        PROVE  Abandons(r)
    BY <2>1, NotAbandoned DEF Grant
  <2>2. ASSUME NEW u \in Users, NEW v \in Users, NEW S \in SUBSET Reports, RevokeAccessInBulk(u, S, v)
        PROVE  Abandons(r)
    BY <2>2 DEF RevokeAccessInBulk, DropTips, Holds, Abandons
  <2>3. ASSUME NEW u \in Users, NEW v \in Users, NEW q \in Reports, RevokeAccess(u, q, v)
        PROVE  Abandons(r)
    BY <2>3 DEF RevokeAccess, DropTips, Holds, Abandons
  <2>4. ASSUME NEW u \in Users, NEW v \in Users, NEW q \in Reports, TransferAccess(u, q, v)
        PROVE  Abandons(r)
    BY <2>4 DEF TransferAccess, Grantable, Holds, Abandons, TypeOK
  <2> QED
    BY <1>3, <2>1, <2>2, <2>3, <2>4 DEF AccessStep
<1>4. CASE SystemStep
  <2>1. CASE CleanExpiredReports
    <3>1. CASE r \in ExpiredReports
      BY <2>1, <3>1, NameAssumption, NotAbandoned DEF CleanExpiredReports, DeleteReports, Live, CaseStatuses
    <3>2. CASE r \notin ExpiredReports
      BY <2>1, <3>2, NotAbandoned DEF CleanExpiredReports, DeleteReports
    <3> QED
      BY <3>1, <3>2
  <2> QED
    BY <1>4, <2>1, NotAbandoned DEF SystemStep, FileDelivery, Tick
<1>5. CASE AdminStep
  <2>1. CASE ResetReports
    <3>1. CASE Live(r)
      BY <2>1, <3>1, NameAssumption, NotAbandoned
      DEF ResetReports, DeleteReports, LiveReports, Live, CaseStatuses
    <3>2. CASE ~Live(r)
      BY <3>2 DEF Abandons
    <3> QED
      BY <3>1, <3>2
  <2>2. ASSUME NEW u \in Users, DeleteUser(u)
        PROVE  Abandons(r)
    BY <2>2 DEF DeleteUser, Abandons, TypeOK
  <2> QED
    BY <1>5, <2>1, <2>2, NotAbandoned DEF AdminStep, DisableEncryption, EnableEncryption, FirstLogin
<1>6. CASE UNCHANGED vars
  BY <1>6, NotAbandoned DEF vars
<1> QED
  BY <1>1, <1>2, <1>3, <1>4, <1>5, <1>6 DEF Next

(* Recipients that revoke each other or transfer a report never leave it   *)
(* without recipients, but for a sole holder that gives it up.             *)
THEOREM OnlySoleHolderAbandonsAlways == Spec => OnlySoleHolderAbandons
<1>1. Custody /\ [Next]_vars => [\A r \in Reports : Abandons(r)]_vars
  BY AbandonStep
<1>2. [\A r \in Reports : Abandons(r)]_vars => [AbandonedBySoleHolder]_vars
  BY DEF Abandons, AbandonedBySoleHolder
<1> QED
  BY <1>1, <1>2, CustodyAlways, PTL DEF Spec, OnlySoleHolderAbandons


-----------------------------------------------------------------------------
(* The case of a report: its status, its deadline, what the whistleblower  *)
(* may still add, how it is removed; and the transactions of Reports       *)
(* implement the promise of Retention.                                     *)

(* Moving access leaves every case and what it contains alone. *)
LEMMA AccessFrame == AccessStep => UNCHANGED <<now, caseVars, contentVars, home, audit>>
<1>1. ASSUME NEW u \in Users, NEW v \in Users, NEW S \in SUBSET Reports,
             Grant(u, S, v) \/ RevokeAccessInBulk(u, S, v)
      PROVE  UNCHANGED <<now, caseVars, contentVars, home, audit>>
  BY <1>1 DEF Grant, RevokeAccessInBulk, DropTips
<1>2. ASSUME NEW u \in Users, NEW v \in Users, NEW r \in Reports,
             RevokeAccess(u, r, v) \/ TransferAccess(u, r, v)
      PROVE  UNCHANGED <<now, caseVars, contentVars, home, audit>>
  BY <1>2 DEF RevokeAccess, TransferAccess, DropTips
<1> QED
  BY <1>1, <1>2 DEF AccessStep

(* Only a report that is closed, or removed since, has the deadline of a   *)
(* substatus: only closing gives it, reopening takes it away, and leaving  *)
(* closed for another status is told by the history.                       *)
OpenInv ==
  /\ TypeOK
  /\ \A r \in Reports : source[r] = "substatus" => status[r] \in {"closed", "deleted"}

LEMMA OpenInit == Init => OpenInv
<1> SUFFICES ASSUME Init PROVE OpenInv
  OBVIOUS
<1> QED
  BY TypeInit DEF Init, OpenInv

LEMMA OpenNext == OpenInv /\ [Next]_vars => OpenInv'
<1> SUFFICES ASSUME OpenInv, [Next]_vars PROVE OpenInv'
  OBVIOUS
<1> USE DEF OpenInv, caseVars
<1>1. TypeOK /\ TypeOK'
  BY TypeNext
<1>2. CASE WhistleblowerStep
  <2>1. ASSUME NEW r \in Reports, NEW R \in SUBSET Users, NEW F \in SUBSET Files, Submit(r, R, F)
        PROVE  OpenInv'
    BY <1>1, <2>1 DEF Submit, TypeOK
  <2> QED
    BY <1>1, <1>2, <2>1 DEF WhistleblowerStep, WhistleblowerComment, ProvideIdentity,
       AnswerAdditionalQuestionnaire, RegisterIfile
<1>3. CASE CaseStep
  <2>1. ASSUME NEW u \in Users, NEW r \in Reports, OpenReport(u, r) \/ ExportReport(u, r)
        PROVE  OpenInv'
    BY <1>1, <2>1 DEF OpenReport, ExportReport, TypeOK
  <2>2. ASSUME NEW u \in Users, NEW r \in Reports, NEW s \in CaseStatuses,
               NEW sub \in Substatuses \cup {NoSubstatus}, UpdateStatus(u, r, s, sub)
        PROVE  OpenInv'
    <3>1. Live(r) /\ status[r] \notin {"unsent", "deleted"}
      BY <2>2, NameAssumption DEF UpdateStatus, Holds, Live, CaseStatuses
    <3>2. CASE s = "new"
      BY <1>1, <2>2, <3>2 DEF UpdateStatus, DbUpdateSubmissionStatus
    <3>3. CASE s # "new"
      <4>1. status' = [status EXCEPT ![r] = s] /\ RecalculateDataRetention(r, s, sub)
        BY <2>2, <3>3 DEF UpdateStatus, DbUpdateSubmissionStatus
      <4>2. \A q \in Reports \ {r} : status'[q] = status[q] /\ source'[q] = source[q]
        BY <1>1, <4>1 DEF RecalculateDataRetention, TypeOK
      <4>3. source'[r] = "substatus" => s = "closed"
        BY <1>1, <3>1, <3>3, <4>1 DEF RecalculateDataRetention, Carried, TypeOK, CaseStatuses
      <4>4. status'[r] = s
        BY <1>1, <4>1 DEF TypeOK
      <4> QED
        BY <1>1, <4>2, <4>3, <4>4
    <3> QED
      BY <3>2, <3>3
  <2>3. ASSUME NEW u \in Users, NEW r \in Reports, NEW date \in Dates,
               PostponeExpiration(u, r, date) \/ SetReminder(u, r, date)
        PROVE  OpenInv'
    BY <1>1, <2>3 DEF PostponeExpiration, SetReminder, TypeOK
  <2>4. ASSUME NEW u \in Users, NEW r \in Reports, DeleteReport(u, r)
        PROVE  OpenInv'
    BY <1>1, <2>4 DEF DeleteReport, DeleteReports, TypeOK
  <2> QED
    BY <1>1, <1>3, <2>1, <2>2, <2>3, <2>4 DEF CaseStep, RecipientContribution, RedactFile
<1>4. CASE AccessStep
  BY <1>1, <1>4, AccessFrame
<1>5. CASE SystemStep
  BY <1>1, <1>5 DEF SystemStep, FileDelivery, CleanExpiredReports, DeleteReports, Tick, TypeOK
<1>6. CASE AdminStep
  BY <1>1, <1>6 DEF AdminStep, ResetReports, DeleteReports, DisableEncryption, EnableEncryption, FirstLogin, DeleteUser, TypeOK
<1>7. CASE UNCHANGED vars
  BY <1>1, <1>7 DEF vars
<1> QED
  BY <1>2, <1>3, <1>4, <1>5, <1>6, <1>7 DEF Next

(* The retention of a substatus ends with the reopening, but for a report  *)
(* that left closed for a status that an administrator added.              *)
THEOREM OpenKeepsChannelRetentionAlways == Spec => []OpenKeepsChannelRetention
<1>1. OpenInv => OpenKeepsChannelRetention
  BY DEF OpenInv, OpenKeepsChannelRetention
<1> QED
  BY <1>1, OpenInit, OpenNext, PTL DEF Spec

-----------------------------------------------------------------------------
(* The log of removals grows, and a status becomes deleted only together   *)
(* with an entry.                                                          *)
LEMMA LoggedNext == TypeOK /\ RemovalIsLogged /\ [Next]_vars => RemovalIsLogged'
<1> SUFFICES ASSUME TypeOK, RemovalIsLogged, [Next]_vars PROVE RemovalIsLogged'
  OBVIOUS
<1>1. ASSUME audit \subseteq audit',
             \A r \in Reports : status'[r] = "deleted" =>
               \/ status[r] = "deleted"
               \/ \E who \in Users \cup {"system"} : <<"delete_report", who, r>> \in audit'
               \/ <<"reset_reports", "admin", NoReport>> \in audit'
      PROVE  RemovalIsLogged'
  BY <1>1 DEF RemovalIsLogged
<1> USE NameAssumption DEF TypeOK, CaseStatuses, caseVars
<1>2. CASE WhistleblowerStep
  BY <1>1, <1>2 DEF WhistleblowerStep, Submit, WhistleblowerComment, ProvideIdentity,
     AnswerAdditionalQuestionnaire, RegisterIfile
<1>3. CASE CaseStep
  <2>1. ASSUME NEW u \in Users, NEW r \in Reports, DeleteReport(u, r)
        PROVE  RemovalIsLogged'
    BY <1>1, <2>1 DEF DeleteReport, DeleteReports, Logged
  <2>2. ASSUME NEW u \in Users, NEW r \in Reports, NEW s \in CaseStatuses,
               NEW sub \in Substatuses \cup {NoSubstatus}, UpdateStatus(u, r, s, sub)
        PROVE  RemovalIsLogged'
    BY <1>1, <2>2 DEF UpdateStatus, DbUpdateSubmissionStatus
  <2>3. ASSUME NEW u \in Users, NEW r \in Reports, OpenReport(u, r) \/ ExportReport(u, r)
        PROVE  RemovalIsLogged'
    BY <1>1, <2>3 DEF OpenReport, ExportReport
  <2> QED
    BY <1>1, <1>3, <2>1, <2>2, <2>3
    DEF CaseStep, RecipientContribution, RedactFile, PostponeExpiration, SetReminder
<1>4. CASE AccessStep
  BY <1>1, <1>4, AccessFrame
<1>5. CASE SystemStep
  <2>1. CASE CleanExpiredReports
    <3>1. /\ \A r \in Reports : status'[r] = "deleted" => status[r] = "deleted" \/ r \in ExpiredReports
          /\ audit' = audit \cup {<<"delete_report", "system", r>> : r \in ExpiredReports}
      BY <2>1 DEF CleanExpiredReports, DeleteReports, Logged
    <3>2. \A r \in ExpiredReports : <<"delete_report", "system", r>> \in audit'
      BY <3>1
    <3> QED
      BY <1>1, <3>1, <3>2
  <2> QED
    BY <1>1, <1>5, <2>1 DEF SystemStep, FileDelivery, Tick
<1>6. CASE AdminStep
  <2>1. CASE ResetReports
    BY <1>1, <2>1 DEF ResetReports, DeleteReports, Logged
  <2> QED
    BY <1>1, <1>6, <2>1 DEF AdminStep, DisableEncryption, EnableEncryption, FirstLogin, DeleteUser
<1>7. CASE UNCHANGED vars
  BY <1>1, <1>7 DEF vars
<1> QED
  BY <1>2, <1>3, <1>4, <1>5, <1>6, <1>7 DEF Next

(* No report disappears without a trace. *)
THEOREM RemovalIsLoggedAlways == Spec => []RemovalIsLogged
<1>1. Init => RemovalIsLogged
  BY DEF Init, RemovalIsLogged
<1> QED
  BY <1>1, LoggedNext, TypeCorrect, PTL DEF Spec

-----------------------------------------------------------------------------
(* What the whistleblower can no longer add to a closed report. *)
Frozen(r) ==
  status[r] = "closed" =>
    /\ supplied'[r] = supplied[r]
    /\ \A f \in Files : home'[f] = r => home[f] = r

LEMMA FrozenStep ==
  ASSUME TypeOK, [Next]_vars, NEW r \in Reports
  PROVE  Frozen(r)
<1> USE DEF Frozen, contentVars, fileVars
<1>1. CASE WhistleblowerStep
  <2>1. ASSUME NEW q \in Reports, NEW R \in SUBSET Users, NEW F \in SUBSET Files, Submit(q, R, F)
        PROVE  Frozen(r)
    BY <2>1 DEF Submit
  <2>2. ASSUME NEW q \in Reports,
               ProvideIdentity(q) \/ AnswerAdditionalQuestionnaire(q) \/ WhistleblowerComment(q)
        PROVE  Frozen(r)
    BY <2>2 DEF ProvideIdentity, AnswerAdditionalQuestionnaire, WhistleblowerComment, TakesMore, TypeOK
  <2>3. ASSUME NEW q \in Reports, NEW f \in Files, RegisterIfile(q, f)
        PROVE  Frozen(r)
    BY <2>3 DEF RegisterIfile, TakesMore, TypeOK
  <2> QED
    BY <1>1, <2>1, <2>2, <2>3 DEF WhistleblowerStep
<1>2. CASE CaseStep
  <2>1. ASSUME NEW u \in Users, NEW q \in Reports,
               \/ OpenReport(u, q) \/ ExportReport(u, q) \/ DeleteReport(u, q)
               \/ \E s \in CaseStatuses, sub \in Substatuses \cup {NoSubstatus} : UpdateStatus(u, q, s, sub)
        PROVE  Frozen(r)
    BY <2>1 DEF OpenReport, ExportReport, UpdateStatus, DeleteReport, DeleteReports
  <2>2. ASSUME NEW u \in Users, NEW q \in Reports,
               \/ \E date \in Dates : PostponeExpiration(u, q, date) \/ SetReminder(u, q, date)
               \/ \E visibility \in {"public", "internal", "personal"} : RecipientContribution(u, q, visibility)
               \/ \E f \in Files : RedactFile(u, f)
        PROVE  Frozen(r)
    BY <2>2 DEF PostponeExpiration, SetReminder, RecipientContribution, RedactFile
  <2> QED
    BY <1>2, <2>1, <2>2 DEF CaseStep
<1>3. CASE AccessStep
  BY <1>3, AccessFrame
<1>4. CASE SystemStep
  BY <1>4 DEF SystemStep, FileDelivery, CleanExpiredReports, DeleteReports, Tick
<1>5. CASE AdminStep
  BY <1>5 DEF AdminStep, ResetReports, DeleteReports, DisableEncryption, EnableEncryption, FirstLogin, DeleteUser
<1>6. CASE UNCHANGED vars
  BY <1>6 DEF vars
<1> QED
  BY <1>1, <1>2, <1>3, <1>4, <1>5, <1>6 DEF Next

(* Closing a report ends what the whistleblower can add to it, but for     *)
(* comments.                                                               *)
THEOREM ClosedIsFrozenAlways == Spec => ClosedIsFrozen
<1>1. TypeOK /\ [Next]_vars => [\A r \in Reports : Frozen(r)]_vars
  BY FrozenStep
<1>2. [\A r \in Reports : Frozen(r)]_vars =>
      [\A r \in Reports : status[r] = "closed" =>
         /\ supplied'[r] = supplied[r]
         /\ \A f \in Files : home'[f] = r => home[f] = r]_vars
  BY DEF Frozen
<1> QED
  BY <1>1, <1>2, TypeCorrect, PTL DEF Spec, ClosedIsFrozen

-----------------------------------------------------------------------------
(* News.  A step gives a report's holders news, but for one of them, or    *)
(* takes the news of one of them at most.                                  *)
NewsReach(r) ==
  \A u, v \in holders'[r] :
    /\ u # v
    /\ \/ {u, v} \subseteq unread[r]
       \/ status'[r] # status[r] /\ <<status[r], status'[r]>> # <<"new", "opened">>
    => {u, v} \cap unread'[r] # {}

(* A change of status other than the first opening is news. *)
Unmoved(r) == status'[r] = status[r] \/ <<status[r], status'[r]>> = <<"new", "opened">>

(* What w alone has seen. *)
SeenAlone(r, w) == \A x \in unread[r] : x = w \/ x \in unread'[r]

LEMMA NewsGiven ==
  ASSUME NEW r \in Reports, NEW w \in Users, holders'[r] \ {w} \subseteq unread'[r]
  PROVE  NewsReach(r)
  BY DEF NewsReach

LEMMA NewsLeft ==
  ASSUME NEW r \in Reports, NEW w \in Users, SeenAlone(r, w), Unmoved(r)
  PROVE  NewsReach(r)
  BY DEF NewsReach, SeenAlone, Unmoved

LEMMA NewsKept ==
  ASSUME NEW r \in Reports, unread[r] \subseteq unread'[r], status'[r] = status[r]
  PROVE  NewsReach(r)
  BY DEF NewsReach

LEMMA NewsToAll ==
  ASSUME NEW r \in Reports, holders'[r] \subseteq unread'[r]
  PROVE  NewsReach(r)
  BY DEF NewsReach

(* Steps that delete reports or leave the marks of a report alone. *)
LEMMA NewsOfDeletion ==
  ASSUME TypeOK, NEW D \in SUBSET Reports, DeleteReports(D), NEW r \in Reports
  PROVE  NewsReach(r)
<1>1. CASE r \in D
  BY <1>1, NewsToAll DEF TypeOK, DeleteReports
<1>2. CASE r \notin D
  BY <1>2, NewsKept DEF TypeOK, DeleteReports
<1> QED
  BY <1>1, <1>2

LEMMA NewsOfCase ==
  ASSUME TypeOK, CaseStep, NEW r \in Reports
  PROVE  NewsReach(r)
<1> USE DEF caseVars, accessVars
<1> PICK u \in Users, q \in Reports :
      \/ OpenReport(u, q) \/ ExportReport(u, q)
      \/ \E s \in CaseStatuses, sub \in Substatuses \cup {NoSubstatus} : UpdateStatus(u, q, s, sub)
      \/ \E date \in Dates : PostponeExpiration(u, q, date) \/ SetReminder(u, q, date)
      \/ \E visibility \in {"public", "internal", "personal"} : RecipientContribution(u, q, visibility)
      \/ \E f \in Files : RedactFile(u, f)
      \/ DeleteReport(u, q)
  BY DEF CaseStep
<1>1. CASE OpenReport(u, q)
  <2>1. CASE q = r /\ status[r] = "new"
    BY <1>1, <2>1, NewsGiven DEF TypeOK, OpenReport, NewsFor
  <2>2. CASE q # r \/ status[r] # "new"
    <3>1. SeenAlone(r, u)
      BY <1>1, <2>2 DEF TypeOK, OpenReport, NewsFor, SeenBy, SeenAlone
    <3>2. Unmoved(r)
      BY <1>1, <2>2 DEF TypeOK, OpenReport, Unmoved
    <3> QED
      BY <3>1, <3>2, NewsLeft
  <2> QED
    BY <2>1, <2>2
<1>2. CASE ExportReport(u, q)
  <2>1. SeenAlone(r, u)
    BY <1>2 DEF TypeOK, ExportReport, SeenBy, SeenAlone
  <2>2. Unmoved(r)
    BY <1>2 DEF TypeOK, ExportReport, Unmoved
  <2> QED
    BY <2>1, <2>2, NewsLeft
<1>3. ASSUME NEW s \in CaseStatuses, NEW sub \in Substatuses \cup {NoSubstatus}, UpdateStatus(u, q, s, sub)
      PROVE  NewsReach(r)
  <2>1. status' = status \/ status' = [status EXCEPT ![q] = s]
    BY <1>3 DEF TypeOK, UpdateStatus, DbUpdateSubmissionStatus
  <2>2. CASE NewsFor(q, u) /\ q = r
    BY <1>3, <2>2, NewsGiven DEF TypeOK, UpdateStatus, NewsFor
  <2>3. CASE NewsFor(q, u) /\ q # r
    BY <2>1, <2>3, NewsKept DEF TypeOK, NewsFor
  <2>4. CASE unread' = unread /\ status[q] = s
    <3>1. status' = status
      BY <2>1, <2>4 DEF TypeOK
    <3> QED
      BY <2>4, <3>1, NewsKept
  <2> QED
    BY <1>3, <2>2, <2>3, <2>4 DEF TypeOK, UpdateStatus
<1>4. ASSUME NEW date \in Dates, PostponeExpiration(u, q, date) \/ SetReminder(u, q, date)
      PROVE  NewsReach(r)
  <2>1. CASE SetReminder(u, q, date) \/ q # r
    BY <1>4, <2>1, NewsKept DEF TypeOK, PostponeExpiration, SetReminder, NewsForAll
  <2>2. CASE PostponeExpiration(u, q, date) /\ q = r
    BY <2>2, NewsToAll DEF TypeOK, PostponeExpiration, NewsForAll
  <2> QED
    BY <1>4, <2>1, <2>2
<1>5. ASSUME NEW visibility \in {"public", "internal", "personal"}, RecipientContribution(u, q, visibility)
      PROVE  NewsReach(r)
  <2>1. CASE q = r /\ visibility = "public"
    BY <1>5, <2>1, NewsGiven DEF TypeOK, RecipientContribution, NewsFor
  <2>2. CASE q # r \/ visibility # "public"
    <3>1. SeenAlone(r, u) /\ Unmoved(r)
      BY <1>5, <2>2 DEF TypeOK, RecipientContribution, NewsFor, SeenBy, SeenAlone, Unmoved
    <3> QED
      BY <3>1, NewsLeft
  <2> QED
    BY <2>1, <2>2
<1>6. ASSUME NEW f \in Files, RedactFile(u, f) PROVE NewsReach(r)
  BY <1>6, NewsKept DEF TypeOK, RedactFile
<1>7. CASE DeleteReport(u, q)
  BY <1>7, NewsOfDeletion DEF TypeOK, DeleteReport
<1> QED
  BY <1>1, <1>2, <1>3, <1>4, <1>5, <1>6, <1>7

LEMMA NewsOfAccess ==
  ASSUME TypeOK, AccessStep, NEW r \in Reports
  PROVE  NewsReach(r)
<1>1. Unmoved(r)
  BY AccessFrame DEF caseVars, Unmoved
<1>2. \E w \in Users : SeenAlone(r, w)
  <2>1. ASSUME NEW u \in Users, NEW v \in Users, NEW S \in SUBSET Reports,
               Grant(u, S, v) \/ RevokeAccessInBulk(u, S, v)
        PROVE  SeenAlone(r, v)
    BY <2>1 DEF TypeOK, Grant, RevokeAccessInBulk, DropTips, SeenAlone
  <2>2. ASSUME NEW u \in Users, NEW v \in Users, NEW q \in Reports, RevokeAccess(u, q, v)
        PROVE  SeenAlone(r, v)
    BY <2>2 DEF TypeOK, RevokeAccess, DropTips, SeenAlone
  <2>3. ASSUME NEW u \in Users, NEW v \in Users, NEW q \in Reports, TransferAccess(u, q, v)
        PROVE  SeenAlone(r, u)
    BY <2>3 DEF TypeOK, TransferAccess, SeenAlone
  <2> QED
    BY <2>1, <2>2, <2>3 DEF AccessStep
<1> QED
  BY <1>1, <1>2, NewsLeft

LEMMA NewsStep ==
  ASSUME TypeOK, [Next]_vars, NEW r \in Reports
  PROVE  NewsReach(r)
<1> USE DEF caseVars, accessVars
<1>1. CASE WhistleblowerStep
  <2>1. ASSUME NEW q \in Reports, NEW R \in SUBSET Users, NEW F \in SUBSET Files, Submit(q, R, F)
        PROVE  NewsReach(r)
    <3>1. CASE q = r
      BY <2>1, <3>1, NewsToAll DEF TypeOK, Submit
    <3>2. CASE q # r
      BY <2>1, <3>2, NewsKept DEF TypeOK, Submit
    <3> QED
      BY <3>1, <3>2
  <2>2. ASSUME NEW q \in Reports,
               \/ WhistleblowerComment(q) \/ ProvideIdentity(q)
               \/ \E f \in Files : RegisterIfile(q, f)
        PROVE  NewsReach(r)
    <3>1. /\ status' = status /\ holders' = holders
          /\ unread' = [unread EXCEPT ![q] = holders[q]]
      BY <2>2 DEF TypeOK, WhistleblowerComment, ProvideIdentity, RegisterIfile, NewsForAll
    <3>2. CASE q = r
      BY <3>1, <3>2, NewsToAll DEF TypeOK
    <3>3. CASE q # r
      BY <3>1, <3>3, NewsKept
    <3> QED
      BY <3>2, <3>3
  <2>3. ASSUME NEW q \in Reports, AnswerAdditionalQuestionnaire(q) PROVE NewsReach(r)
    BY <2>3, NewsKept DEF TypeOK, AnswerAdditionalQuestionnaire
  <2> QED
    BY <1>1, <2>1, <2>2, <2>3 DEF WhistleblowerStep
<1>2. CASE CaseStep
  BY <1>2, NewsOfCase
<1>3. CASE AccessStep
  BY <1>3, NewsOfAccess
<1>4. CASE SystemStep
  <2>1. CASE CleanExpiredReports
    BY <2>1, NewsOfDeletion DEF TypeOK, CleanExpiredReports, ExpiredReports, LiveReports
  <2> QED
    BY <1>4, <2>1, NewsKept DEF SystemStep, FileDelivery, Tick
<1>5. CASE AdminStep
  <2>1. CASE ResetReports
    BY <2>1, NewsOfDeletion DEF TypeOK, ResetReports, LiveReports
  <2>2. ASSUME NEW u \in Users, DeleteUser(u) PROVE NewsReach(r)
    <3>1. SeenAlone(r, u) /\ Unmoved(r)
      BY <2>2 DEF TypeOK, DeleteUser, SeenAlone, Unmoved
    <3> QED
      BY <3>1, NewsLeft
  <2> QED
    BY <1>5, <2>1, <2>2, NewsKept DEF AdminStep, DisableEncryption, EnableEncryption, FirstLogin
<1>6. CASE UNCHANGED vars
  BY <1>6, NewsKept DEF TypeOK, vars
<1> QED
  BY <1>1, <1>2, <1>3, <1>4, <1>5, <1>6 DEF Next

(* What happens to a report stays news for all holders but its author, and *)
(* nobody takes the news of two holders at once.                           *)
THEOREM NewsReachTheOthersAlways == Spec => NewsReachTheOthers
<1>1. TypeOK /\ [Next]_vars => [\A r \in Reports : NewsReach(r)]_vars
  BY NewsStep
<1>2. [\A r \in Reports : NewsReach(r)]_vars =>
      [\A r \in Reports : \A u, v \in holders'[r] :
         /\ u # v
         /\ \/ {u, v} \subseteq unread[r]
            \/ status'[r] # status[r] /\ <<status[r], status'[r]>> # <<"new", "opened">>
         => {u, v} \cap unread'[r] # {}]_vars
  BY DEF NewsReach
<1> QED
  BY <1>1, <1>2, TypeCorrect, PTL DEF Spec, NewsReachTheOthers

-----------------------------------------------------------------------------
(* The promise of retention.  The invariant it needs: an entry of the log  *)
(* that names a report means that the report is gone, and stays so.        *)
LogIsTrue ==
  \A r \in Reports, who \in Users \cup {"system"} :
    <<"delete_report", who, r>> \in audit => status[r] = "deleted"

PromiseInv == TypeOK /\ RemovalIsLogged /\ LogIsTrue

(* A policy never ends in the past. *)
LEMMA PolicyAhead ==
  ASSUME TypeOK, NEW ttl \in Int
  PROVE  Policy(ttl) \in Nat /\ Policy(ttl) >= now
<1>1. now \in Nat /\ now <= MaxNow
  BY ClockAssumption DEF TypeOK
<1>2. Midnight(now) \in Nat /\ now < Midnight(now) + Day
  BY <1>1, MidnightNat
<1> QED
  BY <1>1, <1>2, ClockAssumption DEF Policy, Expiry

(* A recipient moves a deadline away, or not nearer than 90 days. *)
LEMMA ClampAhead ==
  ASSUME TypeOK, NEW r \in Reports, NEW date \in Dates
  PROVE  \/ ClampExpiration(r, date) >= expiration[r]
         \/ ClampExpiration(r, date) > now + MinAhead - Day
<1> DEFINE near == Midnight(now + MinAhead)
           far  == Midnight(now + MaxAhead)
<1>1. now \in Nat /\ date \in Nat /\ expiration[r] \in Nat
  BY ClockAssumption DEF TypeOK
<1>2. now + MinAhead \in Nat /\ now + MaxAhead \in Nat /\ now + MinAhead <= now + MaxAhead
  BY <1>1, ClockAssumption
<1>3. near \in Nat /\ near > now + MinAhead - Day
  BY <1>1, <1>2, MidnightNat, ClockAssumption
<1>4. far \in Nat /\ far > now + MinAhead - Day
  BY <1>1, <1>2, MidnightNat, ClockAssumption
<1>5. ClampExpiration(r, date) = IF date <= Min2(expiration[r], near)
                                 THEN Min2(expiration[r], near) ELSE Min2(date, far)
  BY DEF ClampExpiration
<1> HIDE DEF near, far
<1> QED
  BY <1>1, <1>3, <1>4, <1>5, ClockAssumption DEF Min2

(* How the phases of the promise follow the statuses of the code. *)
LEMMA Phases ==
  ASSUME TypeOK, NEW r \in Reports
  PROVE  /\ PhaseOf(r) = "unsent" <=> status[r] = "unsent"
         /\ PhaseOf(r) = "gone" <=> status[r] = "deleted"
         /\ PhaseOf(r) = "closed" <=> status[r] = "closed"
         /\ PhaseOf(r) \in {"open", "closed"} <=> Live(r)
  BY NameAssumption DEF PhaseOf, TypeOK, Live, CaseStatuses

LEMMA PromiseInit == Init => Promise!Init /\ PromiseInv
<1> SUFFICES ASSUME Init PROVE Promise!Init /\ PromiseInv
  OBVIOUS
<1>1. TypeOK
  BY TypeInit
<1>2. \A r \in Reports : PhaseOf(r) = "unsent" /\ RemovedBy(r) = "nobody"
  BY DEF Init, PhaseOf, RemovedBy
<1>3. PromiseInv
  BY <1>1 DEF Init, PromiseInv, LogIsTrue, RemovalIsLogged
<1>4. Promise!Init
  BY <1>1, <1>2 DEF Init, Promise!Init, TypeOK
<1> QED
  BY <1>3, <1>4

(* A step that keeps statuses, deadlines, clock and log is no step of the  *)
(* promise.                                                                *)
LEMMA PromiseStutter ==
  ASSUME UNCHANGED <<now, status, expiration, audit>>
  PROVE  UNCHANGED Promise!vars
<1>1. \A r \in Reports : PhaseOf(r)' = PhaseOf(r) /\ RemovedBy(r)' = RemovedBy(r)
  BY DEF PhaseOf, RemovedBy
<1> QED
  BY <1>1 DEF Promise!vars

(* A step of one case is a step of the promise, when it handles the        *)
(* deadline as promised.                                                   *)
LEMMA PromiseHandle ==
  ASSUME TypeOK, TypeOK', UNCHANGED <<now, audit>>, NEW r \in Reports,
         Live(r), Live(r)',
         \A q \in Reports \ {r} : status'[q] = status[q] /\ expiration'[q] = expiration[q],
         \/ expiration'[r] >= expiration[r]
         \/ expiration'[r] > now + MinAhead - Day
         \/ expiration'[r] >= now /\ "closed" \in {status[r], status'[r]}
  PROVE  Promise!Next
<1>1. PhaseOf(r) \in {"open", "closed"} /\ PhaseOf(r)' \in {"open", "closed"}
  BY NameAssumption DEF PhaseOf, Live, CaseStatuses
<1>2. \A q \in Reports : RemovedBy(q)' = RemovedBy(q)
  <2>1. status[r] # "deleted" /\ status'[r] # "deleted"
    BY NameAssumption DEF Live, CaseStatuses
  <2> QED
    BY <2>1 DEF RemovedBy
<1>3. \A q \in Reports \ {r} : PhaseOf(q)' = PhaseOf(q)
  BY DEF PhaseOf
<1>4. [q \in Reports |-> PhaseOf(q)]' = [[q \in Reports |-> PhaseOf(q)] EXCEPT ![r] = PhaseOf(r)']
  BY <1>3
<1>5. expiration' = [expiration EXCEPT ![r] = expiration'[r]] /\ expiration'[r] \in Nat
  BY DEF TypeOK
<1>6. [q \in Reports |-> RemovedBy(q)]' = [q \in Reports |-> RemovedBy(q)]
  BY <1>2
<1>7. Promise!Decide(r, PhaseOf(r)')
  BY <1>4, <1>5, <1>6 DEF Promise!Decide
<1>8. (status[r] = "closed" => PhaseOf(r) = "closed") /\ (status'[r] = "closed" => PhaseOf(r)' = "closed")
  BY DEF PhaseOf
<1>9. Promise!Handle(r)
  BY <1>1, <1>7, <1>8 DEF Promise!Handle, Promise!Kept
<1> QED
  BY <1>9 DEF Promise!Next

(* Deleting reports is what the promise calls removing them. *)
LEMMA PromiseRemove ==
  ASSUME PromiseInv, NEW D \in SUBSET Reports, NEW by \in {"person", "system"},
         \A r \in D : Live(r) /\ (by = "system" => expiration[r] < now),
         DeleteReports(D),
         \A r \in D : RemovedBy(r)' = by,
         \A r \in Reports \ D : RemovedBy(r)' = RemovedBy(r)
  PROVE  Promise!Next
<1>1. \A r \in Reports : PhaseOf(r)' = IF r \in D THEN "gone" ELSE PhaseOf(r)
  BY DEF DeleteReports, PhaseOf
<1>2. \A r \in D : PhaseOf(r) \in {"open", "closed"}
  BY Phases DEF PromiseInv
<1>3. UNCHANGED <<now, expiration>>
  BY DEF DeleteReports
<1>4. Promise!Remove(D, by)
  BY <1>1, <1>2, <1>3 DEF Promise!Remove, Promise!Kept
<1> QED
  BY <1>4 DEF Promise!Next

LEMMA PromiseCase ==
  ASSUME PromiseInv, TypeOK', CaseStep
  PROVE  Promise!Next \/ UNCHANGED Promise!vars
<1> USE DEF PromiseInv, LogIsTrue, accountVars, caseVars, contentVars, accessVars, fileVars
<1>1. PICK u \in Users, r \in Reports :
        \/ OpenReport(u, r)
        \/ ExportReport(u, r)
        \/ \E s \in CaseStatuses, sub \in Substatuses \cup {NoSubstatus} : UpdateStatus(u, r, s, sub)
        \/ \E date \in Dates : PostponeExpiration(u, r, date) \/ SetReminder(u, r, date)
        \/ \E visibility \in {"public", "internal", "personal"} : RecipientContribution(u, r, visibility)
        \/ \E f \in Files : RedactFile(u, f)
        \/ DeleteReport(u, r)
  BY DEF CaseStep
<1>2. CASE OpenReport(u, r) \/ ExportReport(u, r)
  <2>1. Live(r) /\ status' = [status EXCEPT ![r] = IF @ = "new" THEN "opened" ELSE @]
                /\ UNCHANGED <<now, audit, expiration>>
    BY <1>2 DEF OpenReport, ExportReport, Holds
  <2>2. Live(r)'
    BY <2>1 DEF Live, CaseStatuses, TypeOK
  <2>3. /\ \A q \in Reports \ {r} : status'[q] = status[q] /\ expiration'[q] = expiration[q]
        /\ expiration'[r] >= expiration[r]
    BY <2>1 DEF TypeOK
  <2> QED
    BY <2>1, <2>2, <2>3, PromiseHandle
<1>3. ASSUME NEW s \in CaseStatuses, NEW sub \in Substatuses \cup {NoSubstatus}, UpdateStatus(u, r, s, sub)
      PROVE  Promise!Next \/ UNCHANGED Promise!vars
  <2>1. Live(r) /\ UNCHANGED <<now, audit>> /\ DbUpdateSubmissionStatus(r, s, sub)
    BY <1>3 DEF UpdateStatus, Holds
  <2>2. CASE s = "new"
    BY <2>1, <2>2, PromiseStutter DEF DbUpdateSubmissionStatus
  <2>3. CASE s # "new"
    <3>1. status' = [status EXCEPT ![r] = s] /\ RecalculateDataRetention(r, s, sub)
      BY <2>1, <2>3 DEF DbUpdateSubmissionStatus
    <3>2. status'[r] = s /\ Live(r)' /\ \A q \in Reports \ {r} : status'[q] = status[q]
      BY <3>1 DEF Live, CaseStatuses, TypeOK
    <3>3. \A q \in Reports \ {r} : expiration'[q] = expiration[q]
      BY <3>1 DEF RecalculateDataRetention, TypeOK
    <3>4. /\ Policy(ContextTTL) \in Nat /\ Policy(ContextTTL) >= now
          /\ sub # NoSubstatus => Policy(SubstatusTTL[sub]) \in Nat /\ Policy(SubstatusTTL[sub]) >= now
      BY PolicyAhead, PolicyAssumption
    <3>5. \/ expiration'[r] >= expiration[r]
          \/ expiration'[r] >= now /\ "closed" \in {status[r], status'[r]}
      <4>1. CASE status[r] = "closed" /\ s = "opened"
        BY <3>1, <3>4, <4>1 DEF RecalculateDataRetention, TypeOK
      <4>2. CASE ~(status[r] = "closed" /\ s = "opened")
                 /\ s = "closed" /\ sub # NoSubstatus /\ SubstatusTTL[sub] > 0
        BY <3>1, <3>2, <3>4, <4>2 DEF RecalculateDataRetention, TypeOK
      <4>3. CASE ~(status[r] = "closed" /\ s = "opened")
                 /\ ~(s = "closed" /\ sub # NoSubstatus /\ SubstatusTTL[sub] > 0)
        <5>1. expiration' = expiration
          BY <3>1, <4>3 DEF RecalculateDataRetention
        <5>2. expiration[r] \in Nat
          BY DEF TypeOK
        <5> QED
          BY <5>1, <5>2
      <4> QED
        BY <4>1, <4>2, <4>3
    <3> QED
      BY <2>1, <3>2, <3>3, <3>5, PromiseHandle
  <2> QED
    BY <2>2, <2>3
<1>4. ASSUME NEW date \in Dates, PostponeExpiration(u, r, date)
      PROVE  Promise!Next
  <2>1. Live(r) /\ UNCHANGED <<now, audit, status>>
        /\ expiration' = [expiration EXCEPT ![r] = ClampExpiration(r, date)]
    BY <1>4 DEF PostponeExpiration, Holds
  <2>2. Live(r)'
    BY <2>1 DEF Live, CaseStatuses
  <2>3. /\ expiration'[r] = ClampExpiration(r, date)
        /\ \A q \in Reports \ {r} : expiration'[q] = expiration[q]
    BY <2>1 DEF TypeOK
  <2> QED
    BY <2>1, <2>2, <2>3, ClampAhead, PromiseHandle
<1>5. ASSUME NEW date \in Dates, SetReminder(u, r, date)
      PROVE  UNCHANGED Promise!vars
  BY <1>5, PromiseStutter DEF SetReminder
<1>6. ASSUME NEW visibility \in {"public", "internal", "personal"}, RecipientContribution(u, r, visibility)
      PROVE  UNCHANGED Promise!vars
  BY <1>6, PromiseStutter DEF RecipientContribution
<1>7. ASSUME NEW f \in Files, RedactFile(u, f)
      PROVE  UNCHANGED Promise!vars
  BY <1>7, PromiseStutter DEF RedactFile
<1>8. CASE DeleteReport(u, r)
  <2>1. Live(r) /\ DeleteReports({r}) /\ audit' = audit \cup {<<"delete_report", u, q>> : q \in {r}}
    BY <1>8 DEF DeleteReport, Holds, Logged
  <2>2. audit' = audit \cup {<<"delete_report", u, r>>}
    BY <2>1
  <2>3. status[r] # "deleted"
    BY <2>1, NameAssumption DEF Live, CaseStatuses
  <2>4. \A q \in Reports, w \in Users \cup {"system"} :
          <<"delete_report", w, q>> \in audit' <=>
            <<"delete_report", w, q>> \in audit \/ (w = u /\ q = r)
    BY <2>2
  <2>5. <<"reset_reports", "admin", NoReport>> \in audit' <=> <<"reset_reports", "admin", NoReport>> \in audit
    BY <2>2
  <2>6. \A q \in Reports : status'[q] = IF q = r THEN "deleted" ELSE status[q]
    BY <2>1 DEF DeleteReports
  <2>7. RemovedBy(r)' = "person"
    <3>1. <<"delete_report", "system", r>> \notin audit'
      BY <2>3, <2>4, NameAssumption
    <3>2. <<"delete_report", u, r>> \in audit'
      BY <2>4
    <3> QED
      BY <2>6, <3>1, <3>2 DEF RemovedBy
  <2>8. \A q \in Reports \ {r} : RemovedBy(q)' = RemovedBy(q)
    BY <2>4, <2>5, <2>6 DEF RemovedBy
  <2> QED
    BY <2>1, <2>7, <2>8, PromiseRemove
<1> QED
  BY <1>1, <1>2, <1>3, <1>4, <1>5, <1>6, <1>7, <1>8

LEMMA PromiseClean ==
  ASSUME PromiseInv, CleanExpiredReports
  PROVE  Promise!Next
<1> USE DEF PromiseInv, LogIsTrue
<1>1. /\ DeleteReports(ExpiredReports) /\ ExpiredReports \in SUBSET Reports
      /\ audit' = audit \cup {<<"delete_report", "system", q>> : q \in ExpiredReports}
      /\ \A r \in ExpiredReports : Live(r) /\ expiration[r] < now
  BY DEF CleanExpiredReports, Logged, ExpiredReports, LiveReports
<1>2. \A q \in Reports, w \in Users \cup {"system"} :
        <<"delete_report", w, q>> \in audit' <=>
          <<"delete_report", w, q>> \in audit \/ (w = "system" /\ q \in ExpiredReports)
  BY <1>1
<1>3. <<"reset_reports", "admin", NoReport>> \in audit' <=> <<"reset_reports", "admin", NoReport>> \in audit
  BY <1>1
<1>4. \A q \in Reports : status'[q] = IF q \in ExpiredReports THEN "deleted" ELSE status[q]
  BY <1>1 DEF DeleteReports
<1>5. \A r \in ExpiredReports : RemovedBy(r)' = "system"
  BY <1>1, <1>2, <1>4 DEF RemovedBy
<1>6. \A q \in Reports \ ExpiredReports : RemovedBy(q)' = RemovedBy(q)
  BY <1>2, <1>3, <1>4 DEF RemovedBy
<1> QED
  BY <1>1, <1>5, <1>6, PromiseRemove

LEMMA PromiseReset ==
  ASSUME PromiseInv, ResetReports
  PROVE  Promise!Next
<1> USE DEF PromiseInv, LogIsTrue
<1>1. /\ DeleteReports(LiveReports) /\ LiveReports \in SUBSET Reports
      /\ audit' = audit \cup {<<"reset_reports", "admin", q>> : q \in {NoReport}}
      /\ \A r \in LiveReports : Live(r) /\ status[r] # "deleted"
  BY NameAssumption DEF ResetReports, Logged, LiveReports, Live, CaseStatuses
<1>2. \A q \in Reports, w \in Users \cup {"system"} :
        <<"delete_report", w, q>> \in audit' <=> <<"delete_report", w, q>> \in audit
  BY <1>1
<1>3. <<"reset_reports", "admin", NoReport>> \in audit'
  BY <1>1
<1>4. \A q \in Reports : status'[q] = IF q \in LiveReports THEN "deleted" ELSE status[q]
  BY <1>1 DEF DeleteReports
<1>5. \A r \in LiveReports : RemovedBy(r)' = "person"
  BY <1>1, <1>2, <1>3, <1>4 DEF RemovedBy
<1>6. \A q \in Reports \ LiveReports : RemovedBy(q)' = RemovedBy(q)
  <2>1. \A q \in Reports : status[q] = "deleted" =>
          \/ \E w \in Users \cup {"system"} : <<"delete_report", w, q>> \in audit
          \/ <<"reset_reports", "admin", NoReport>> \in audit
    BY DEF RemovalIsLogged
  <2> QED
    BY <1>2, <1>3, <1>4, <2>1 DEF RemovedBy
<1> QED
  BY <1>1, <1>5, <1>6, PromiseRemove

LEMMA PromiseSubmit ==
  ASSUME PromiseInv, TypeOK', NEW r \in Reports, NEW R \in SUBSET Users, NEW F \in SUBSET Files,
         Submit(r, R, F)
  PROVE  Promise!Next
<1> USE DEF PromiseInv, LogIsTrue
<1>1. /\ status[r] = "unsent" /\ status'[r] = "new" /\ UNCHANGED <<now, audit>>
      /\ \A q \in Reports \ {r} : status'[q] = status[q]
      /\ expiration' = [expiration EXCEPT ![r] = Policy(ContextTTL)]
  BY DEF Submit, TypeOK
<1>2. Policy(ContextTTL) \in Nat /\ Policy(ContextTTL) >= now
  BY PolicyAhead, PolicyAssumption
<1>3. /\ PhaseOf(r) = "unsent" /\ PhaseOf(r)' = "open" /\ RemovedBy(r)' = RemovedBy(r)
      /\ \A q \in Reports \ {r} : PhaseOf(q)' = PhaseOf(q) /\ RemovedBy(q)' = RemovedBy(q)
  BY <1>1 DEF PhaseOf, RemovedBy
<1>4. expiration'[r] = Policy(ContextTTL) /\ expiration' = [expiration EXCEPT ![r] = expiration'[r]]
  BY <1>1 DEF TypeOK
<1>5. [q \in Reports |-> PhaseOf(q)]' = [[q \in Reports |-> PhaseOf(q)] EXCEPT ![r] = "open"]
  BY <1>3
<1>6. [q \in Reports |-> RemovedBy(q)]' = [q \in Reports |-> RemovedBy(q)]
  BY <1>3
<1>7. Promise!Decide(r, "open")
  BY <1>1, <1>2, <1>4, <1>5, <1>6 DEF Promise!Decide
<1>8. Promise!Receive(r)
  BY <1>2, <1>3, <1>4, <1>7 DEF Promise!Receive
<1> QED
  BY <1>8 DEF Promise!Next

LEMMA PromiseTick ==
  ASSUME Tick
  PROVE  Promise!Next
<1>1. \A r \in Reports : PhaseOf(r)' = PhaseOf(r) /\ RemovedBy(r)' = RemovedBy(r)
  BY DEF Tick, PhaseOf, RemovedBy, caseVars
<1> QED
  BY <1>1 DEF Tick, caseVars, Promise!Next, Promise!Tick

(* Every step of the code is a step of the promise or none. *)
LEMMA PromiseStep ==
  PromiseInv /\ [Next]_vars => [Promise!Next]_(Promise!vars)
<1> SUFFICES ASSUME PromiseInv, [Next]_vars PROVE Promise!Next \/ UNCHANGED Promise!vars
  OBVIOUS
<1> USE DEF caseVars
<1>1. TypeOK'
  BY TypeNext DEF PromiseInv
<1>2. CASE WhistleblowerStep
  <2>1. ASSUME NEW r \in Reports, NEW f \in Files, RegisterIfile(r, f)
        PROVE  UNCHANGED Promise!vars
    BY <2>1, PromiseStutter DEF RegisterIfile
  <2>2. ASSUME NEW r \in Reports,
               WhistleblowerComment(r) \/ ProvideIdentity(r) \/ AnswerAdditionalQuestionnaire(r)
        PROVE  UNCHANGED Promise!vars
    BY <2>2, PromiseStutter DEF WhistleblowerComment, ProvideIdentity, AnswerAdditionalQuestionnaire
  <2> QED
    BY <1>1, <1>2, <2>1, <2>2, PromiseSubmit DEF WhistleblowerStep
<1>3. CASE CaseStep
  BY <1>1, <1>3, PromiseCase
<1>4. CASE AccessStep
  BY <1>4, AccessFrame, PromiseStutter
<1>5. CASE SystemStep
  <2>1. ASSUME NEW B \in SUBSET Files, FileDelivery(B)
        PROVE  UNCHANGED Promise!vars
    BY <2>1, PromiseStutter DEF FileDelivery
  <2> QED
    BY <1>5, <2>1, PromiseClean, PromiseTick DEF SystemStep
<1>6. CASE AdminStep
  <2>1. ASSUME NEW u \in Users, FirstLogin(u) \/ DeleteUser(u)
        PROVE  UNCHANGED Promise!vars
    BY <2>1, PromiseStutter DEF FirstLogin, DeleteUser
  <2>2. CASE DisableEncryption \/ EnableEncryption
    BY <2>2, PromiseStutter DEF DisableEncryption, EnableEncryption
  <2> QED
    BY <1>6, <2>1, <2>2, PromiseReset DEF AdminStep
<1>7. CASE UNCHANGED vars
  BY <1>7, PromiseStutter DEF vars
<1> QED
  BY <1>2, <1>3, <1>4, <1>5, <1>6, <1>7 DEF Next

LEMMA LogIsTrueNext ==
  ASSUME TypeOK, LogIsTrue, [Next]_vars
  PROVE  LogIsTrue'
<1> USE DEF LogIsTrue, caseVars
<1>1. ASSUME \A r \in Reports : status[r] = "deleted" => status'[r] = "deleted",
             UNCHANGED audit
      PROVE  LogIsTrue'
  BY <1>1
<1>2. ASSUME NEW D \in SUBSET Reports, DeleteReports(D), NEW type, NEW who, NEW R, Logged(type, who, R),
             R \subseteq D \/ type # "delete_report"
      PROVE  LogIsTrue'
  <2>1. \A r \in Reports : status'[r] = IF r \in D THEN "deleted" ELSE status[r]
    BY <1>2 DEF DeleteReports
  <2>2. \A r \in Reports, w \in Users \cup {"system"} :
          <<"delete_report", w, r>> \in audit' =>
            <<"delete_report", w, r>> \in audit \/ (type = "delete_report" /\ r \in R)
    BY <1>2 DEF Logged
  <2> QED
    BY <1>2, <2>1, <2>2
<1>3. CASE WhistleblowerStep
  <2>1. ASSUME NEW r \in Reports, NEW R \in SUBSET Users, NEW F \in SUBSET Files, Submit(r, R, F)
        PROVE  LogIsTrue'
    BY <1>1, <2>1 DEF Submit, TypeOK
  <2> QED
    BY <1>1, <1>3, <2>1 DEF WhistleblowerStep, WhistleblowerComment, ProvideIdentity,
       AnswerAdditionalQuestionnaire, RegisterIfile
<1>4. CASE CaseStep
  <2>1. ASSUME NEW u \in Users, NEW r \in Reports, OpenReport(u, r) \/ ExportReport(u, r)
        PROVE  LogIsTrue'
    BY <1>1, <2>1 DEF OpenReport, ExportReport, TypeOK
  <2>2. ASSUME NEW u \in Users, NEW r \in Reports, NEW s \in CaseStatuses,
               NEW sub \in Substatuses \cup {NoSubstatus}, UpdateStatus(u, r, s, sub)
        PROVE  LogIsTrue'
    <3>1. status[r] # "deleted" /\ UNCHANGED audit
          /\ (UNCHANGED status \/ status' = [status EXCEPT ![r] = s])
      BY <2>2, NameAssumption
      DEF UpdateStatus, DbUpdateSubmissionStatus, Holds, Live, CaseStatuses
    <3> QED
      BY <1>1, <3>1 DEF TypeOK
  <2>3. ASSUME NEW u \in Users, NEW r \in Reports, DeleteReport(u, r)
        PROVE  LogIsTrue'
    BY <1>2, <2>3 DEF DeleteReport
  <2> QED
    BY <1>1, <1>4, <2>1, <2>2, <2>3
    DEF CaseStep, RecipientContribution, RedactFile, PostponeExpiration, SetReminder
<1>5. CASE AccessStep
  BY <1>1, <1>5, AccessFrame
<1>6. CASE SystemStep
  <2>1. CASE CleanExpiredReports
    BY <1>2, <2>1 DEF CleanExpiredReports, ExpiredReports, LiveReports
  <2> QED
    BY <1>1, <1>6, <2>1 DEF SystemStep, FileDelivery, Tick
<1>7. CASE AdminStep
  <2>1. CASE ResetReports
    BY <1>2, <2>1 DEF ResetReports, LiveReports
  <2> QED
    BY <1>1, <1>7, <2>1 DEF AdminStep, DisableEncryption, EnableEncryption, FirstLogin, DeleteUser
<1>8. CASE UNCHANGED vars
  BY <1>1, <1>8 DEF vars
<1> QED
  BY <1>3, <1>4, <1>5, <1>6, <1>7, <1>8 DEF Next

(* The transactions of the code keep the promise of retention: nothing but *)
(* a person removes a report before its deadline, and no deadline of an    *)
(* open case comes nearer than 90 days.                                    *)
THEOREM RetentionKeptAlways == Spec => RetentionKept
<1>1. PromiseInv /\ [Next]_vars => PromiseInv'
  BY TypeNext, LoggedNext, LogIsTrueNext DEF PromiseInv
<1> QED
  BY <1>1, PromiseInit, PromiseStep, PTL DEF Spec, RetentionKept, Promise!Spec


-----------------------------------------------------------------------------
(* The content of attachments, for every number of them, of their chunks,  *)
(* and every combination of faults.                                        *)

(* A storage step is a step of Reports or leaves its tables alone. *)
LEMMA StorageStep == [StorageNext]_storageAll => [Next]_vars
<1> SUFFICES ASSUME [StorageNext]_storageAll PROVE [Next]_vars
  OBVIOUS
<1>1. CASE Transaction
  BY <1>1 DEF Transaction, Next, SystemStep
<1>2. ASSUME NEW B \in SUBSET Files, StartDelivery(B) \/ WriteFiles(B)
      PROVE  [Next]_vars
  BY <1>2 DEF StartDelivery, WriteFiles, Next, SystemStep
<1>3. ASSUME NEW f \in Files, UploadChunk(f) \/ ExpireUpload(f)
      PROVE  [Next]_vars
  BY <1>3 DEF UploadChunk, ExpireUpload
<1>4. CASE StartCleaning \/ RemoveUntracked \/ Restart \/ UNCHANGED storageAll
  BY <1>4 DEF StartCleaning, RemoveUntracked, Restart, storageAll
<1> QED
  BY <1>1, <1>2, <1>3, <1>4 DEF StorageNext

(* What is proved of the tables holds with uploads, jobs and restarts.     *)
THEOREM StorageImplementsReports == StorageSpec => Spec
<1>1. StorageInit => Init
  BY DEF StorageInit
<1> QED
  BY <1>1, StorageStep, PTL DEF StorageSpec, Spec

(* How a transaction changes an attachment's row. *)
LEMMA FileMoves ==
  ASSUME Custody, NEW f \in Files,
         WhistleblowerStep \/ CaseStep \/ AccessStep \/ AdminStep \/ CleanExpiredReports \/ Tick
  PROVE  \/ ifile'[f] = ifile[f]
         \/ ifile[f] = "none" /\ ifile'[f] = "new"
         \/ ifile[f] # "none" /\ ifile'[f] = "deleted"
<1> USE DEF Custody, fileVars
<1>1. ASSUME NEW D \in SUBSET Reports, DeleteReports(D)
      PROVE  ifile'[f] = ifile[f] \/ (ifile[f] # "none" /\ ifile'[f] = "deleted")
  BY <1>1, NameAssumption DEF DeleteReports, RowsHaveParents
<1>2. CASE WhistleblowerStep
  <2>1. ASSUME NEW r \in Reports, NEW R \in SUBSET Users, NEW F \in SUBSET Files, Submit(r, R, F)
        PROVE  ifile'[f] = ifile[f] \/ (ifile[f] = "none" /\ ifile'[f] = "new")
    BY <2>1 DEF Submit
  <2>2. ASSUME NEW r \in Reports, NEW g \in Files, RegisterIfile(r, g)
        PROVE  ifile'[f] = ifile[f] \/ (ifile[f] = "none" /\ ifile'[f] = "new")
    BY <2>2 DEF RegisterIfile, TypeOK
  <2> QED
    BY <1>2, <2>1, <2>2
    DEF WhistleblowerStep, WhistleblowerComment, ProvideIdentity, AnswerAdditionalQuestionnaire
<1>3. CASE CaseStep
  <2>1. ASSUME NEW u \in Users, NEW g \in Files, RedactFile(u, g)
        PROVE  ifile'[f] = ifile[f] \/ (ifile[f] # "none" /\ ifile'[f] = "deleted")
    BY <2>1 DEF RedactFile, HoldersSeeSameFiles, TypeOK
  <2>2. ASSUME NEW u \in Users, NEW r \in Reports, DeleteReport(u, r)
        PROVE  ifile'[f] = ifile[f] \/ (ifile[f] # "none" /\ ifile'[f] = "deleted")
    BY <1>1, <2>2 DEF DeleteReport
  <2> QED
    BY <1>3, <2>1, <2>2, CaseworkSteps DEF CaseStep, Casework
<1>4. CASE AccessStep
  <2>1. ASSUME NEW u \in Users, NEW v \in Users, NEW S \in SUBSET Reports,
               Grant(u, S, v) \/ RevokeAccessInBulk(u, S, v)
        PROVE  UNCHANGED ifile
    BY <2>1 DEF Grant, RevokeAccessInBulk, DropTips
  <2>2. ASSUME NEW u \in Users, NEW v \in Users, NEW r \in Reports,
               RevokeAccess(u, r, v) \/ TransferAccess(u, r, v)
        PROVE  UNCHANGED ifile
    BY <2>2 DEF RevokeAccess, TransferAccess, DropTips
  <2> QED
    BY <1>4, <2>1, <2>2 DEF AccessStep
<1>5. CASE AdminStep
  BY <1>1, <1>5 DEF AdminStep, ResetReports, LiveReports, DisableEncryption, EnableEncryption, FirstLogin, DeleteUser
<1>6. CASE CleanExpiredReports
  BY <1>1, <1>6 DEF CleanExpiredReports, ExpiredReports, LiveReports
<1>7. CASE Tick
  BY <1>7 DEF Tick
<1> QED
  BY <1>2, <1>3, <1>4, <1>5, <1>6, <1>7

-----------------------------------------------------------------------------
(* The invariant of the content.  An attachment is followed from its first *)
(* chunk to the disk: until it is written its temporary file holds what    *)
(* was sent, and it is not on the disk; and a cleaning whose list misses a *)
(* row can only find content that is fresh.                                *)
UploadsAreRegistered == \A f \in Files : ifile[f] # "none" => sent[f] = Parts
PendingIsDelivered   == \A f \in pending : ifile[f] \in {"delivered", "deleted"}
Awaited(f)           == ifile[f] \in {"none", "new"} \/ f \in pending
TempIsWhole          == \A f \in Files : Awaited(f) /\ f \notin mishap =>
                          chunks[f] = 1 .. sent[f] /\ (sent[f] > 0 => f \in entry)
AwaitedIsNotOnDisk   == \A f \in Files : Awaited(f) => disk[f] = "absent"
MissedIsFresh        == cleaning => \A f \in Files \ tracked :
                          ifile[f] \in {"new", "delivered"} => disk[f] \in {"absent", "fresh"}

StorageInv ==
  /\ StorageTypeOK
  /\ UploadsAreRegistered
  /\ PendingIsDelivered
  /\ TempIsWhole
  /\ AwaitedIsNotOnDisk
  /\ MissedIsFresh
  /\ DeliveredIsStored

LEMMA StorageInvInit == StorageInit => StorageInv
<1> SUFFICES ASSUME StorageInit PROVE StorageInv
  OBVIOUS
<1>1. /\ \A f \in Files : ifile[f] = "none" /\ sent[f] = 0 /\ chunks[f] = {} /\ disk[f] = "absent"
      /\ pending = {} /\ cleaning = FALSE
  BY DEF StorageInit, Init
<1>2. 1 .. 0 = {}
  OBVIOUS
<1>3. StorageTypeOK
  <2>1. 0 \in 0 .. Parts /\ {} \in SUBSET All
    BY StorageAssumption
  <2> QED
    BY <2>1 DEF StorageInit, StorageTypeOK
<1>4. TempIsWhole
  BY <1>1, <1>2 DEF TempIsWhole
<1> QED
  BY <1>1, <1>3, <1>4
  DEF StorageInv, UploadsAreRegistered, PendingIsDelivered, AwaitedIsNotOnDisk, MissedIsFresh, DeliveredIsStored

LEMMA StorageTransaction ==
  ASSUME Custody, StorageInv, Transaction
  PROVE  StorageInv'
<1>1. UNCHANGED storageVars
  BY DEF Transaction
<1>2. ASSUME NEW f \in Files
      PROVE  \/ ifile'[f] = ifile[f]
             \/ ifile[f] = "none" /\ ifile'[f] = "new" /\ sent[f] = Parts
             \/ ifile[f] # "none" /\ ifile'[f] = "deleted"
  BY FileMoves DEF Transaction
<1> USE <1>1 DEF StorageInv, storageVars, tempVars, diskVars, cleanerVars
<1>3. StorageTypeOK'
  BY DEF StorageTypeOK
<1>4. UploadsAreRegistered'
  BY <1>2 DEF UploadsAreRegistered
<1>5. PendingIsDelivered'
  BY <1>2 DEF PendingIsDelivered, StorageTypeOK
<1>6. \A f \in Files : Awaited(f)' => Awaited(f)
  BY <1>2 DEF Awaited
<1>7. TempIsWhole' /\ AwaitedIsNotOnDisk'
  BY <1>6 DEF TempIsWhole, AwaitedIsNotOnDisk
<1>8. MissedIsFresh'
  BY <1>2 DEF MissedIsFresh, AwaitedIsNotOnDisk, Awaited
<1>9. DeliveredIsStored'
  BY <1>2 DEF DeliveredIsStored
<1> QED
  BY <1>3, <1>4, <1>5, <1>7, <1>8, <1>9

LEMMA StorageUpload ==
  ASSUME StorageInv, NEW f \in Files, UploadChunk(f)
  PROVE  StorageInv'
<1> USE DEF StorageInv
<1>1. /\ UNCHANGED <<ifile, pending, disk, stored, cleaning, tracked, mishap>>
      /\ sent[f] \in 0 .. (Parts - 1) /\ sent'[f] = sent[f] + 1 /\ f \in entry'
      /\ entry \subseteq entry' /\ entry' \subseteq Files
      /\ chunks'[f] = (IF f \in entry THEN chunks[f] ELSE {}) \cup {sent[f] + 1}
      /\ sent' \in [Files -> 0 .. Parts]
      /\ \A g \in Files \ {f} : sent'[g] = sent[g] /\ chunks'[g] = chunks[g]
      /\ ifile[f] = "none"
  BY StorageAssumption DEF UploadChunk, StorageTypeOK, UploadsAreRegistered, vars, fileVars, diskVars, cleanerVars
<1>2. StorageTypeOK'
  <2>1. sent[f] + 1 \in All
    BY <1>1, StorageAssumption DEF All
  <2>2. chunks' \in [Files -> SUBSET All]
    BY <1>1, <2>1 DEF UploadChunk, StorageTypeOK
  <2> QED
    BY <1>1, <2>2 DEF StorageTypeOK
<1>3. TempIsWhole'
  <2>1. ASSUME f \notin mishap
        PROVE  chunks'[f] = 1 .. sent'[f]
    <3>1. chunks[f] = 1 .. sent[f] /\ (sent[f] > 0 => f \in entry)
      BY <1>1, <2>1 DEF TempIsWhole, Awaited
    <3>2. CASE sent[f] = 0
      <4>1. chunks'[f] = {1}
        BY <1>1, <3>1, <3>2
      <4> QED
        BY <1>1, <3>2, <4>1
    <3>3. CASE sent[f] > 0
      <4>1. chunks'[f] = (1 .. sent[f]) \cup {sent[f] + 1}
        BY <1>1, <3>1, <3>3
      <4> QED
        BY <1>1, <4>1, StorageAssumption
    <3> QED
      BY <1>1, <3>2, <3>3
  <2> QED
    BY <1>1, <2>1 DEF TempIsWhole, Awaited
<1>4. UploadsAreRegistered' /\ PendingIsDelivered' /\ AwaitedIsNotOnDisk' /\ MissedIsFresh' /\ DeliveredIsStored'
  BY <1>1 DEF UploadsAreRegistered, PendingIsDelivered, AwaitedIsNotOnDisk, Awaited, MissedIsFresh, DeliveredIsStored
<1> QED
  BY <1>2, <1>3, <1>4

LEMMA StorageExpire ==
  ASSUME StorageInv, NEW f \in Files, ExpireUpload(f)
  PROVE  StorageInv'
<1> USE DEF StorageInv
<1>1. /\ UNCHANGED <<ifile, sent, pending, disk, stored, cleaning, tracked>>
      /\ entry' = entry \ {f} /\ mishap' = mishap \cup {f}
      /\ chunks' \in [Files -> SUBSET All]
      /\ \A g \in Files \ {f} : chunks'[g] = chunks[g]
  BY DEF ExpireUpload, StorageTypeOK, vars, fileVars, diskVars, cleanerVars
<1>2. StorageTypeOK'
  BY <1>1 DEF StorageTypeOK
<1>3. TempIsWhole'
  BY <1>1 DEF TempIsWhole, Awaited
<1>4. UploadsAreRegistered' /\ PendingIsDelivered' /\ AwaitedIsNotOnDisk' /\ MissedIsFresh' /\ DeliveredIsStored'
  BY <1>1 DEF UploadsAreRegistered, PendingIsDelivered, AwaitedIsNotOnDisk, Awaited, MissedIsFresh, DeliveredIsStored
<1> QED
  BY <1>2, <1>3, <1>4

LEMMA StorageDelivery ==
  ASSUME Custody, StorageInv, NEW B \in SUBSET Files, StartDelivery(B)
  PROVE  StorageInv'
<1> USE DEF StorageInv
<1>1. /\ UNCHANGED <<sent, entry, chunks, disk, stored, cleaning, tracked, mishap>>
      /\ pending = {} /\ pending' = B
      /\ \A f \in B : ifile[f] = "new" /\ ifile'[f] = "delivered"
      /\ \A f \in Files \ B : ifile'[f] = ifile[f]
  BY DEF StartDelivery, FileDelivery, NewFiles, tempVars, diskVars, cleanerVars
<1>2. StorageTypeOK'
  BY <1>1 DEF StorageTypeOK
<1>3. TempIsWhole' /\ AwaitedIsNotOnDisk'
  BY <1>1 DEF TempIsWhole, AwaitedIsNotOnDisk, Awaited
<1>4. UploadsAreRegistered' /\ PendingIsDelivered'
  BY <1>1 DEF UploadsAreRegistered, PendingIsDelivered
<1>5. MissedIsFresh' /\ DeliveredIsStored'
  BY <1>1 DEF MissedIsFresh, DeliveredIsStored
<1> QED
  BY <1>2, <1>3, <1>4, <1>5

LEMMA StorageWrite ==
  ASSUME StorageInv, NEW W \in SUBSET Files, WriteFiles(W)
  PROVE  StorageInv'
<1> USE DEF StorageInv
<1> DEFINE popped == pending \cap entry
<1>1. /\ UNCHANGED <<ifile, sent, cleaning, tracked>>
      /\ W \subseteq popped /\ pending' = {} /\ entry' = entry \ pending
      /\ mishap' = mishap \cup (popped \ W)
      /\ \A f \in Files : chunks'[f] = IF f \in pending THEN {} ELSE chunks[f]
      /\ \A f \in Files : disk'[f] = IF f \in popped THEN "fresh" ELSE disk[f]
      /\ \A f \in Files : stored'[f] = IF f \in W THEN chunks[f]
                                       ELSE IF f \in popped THEN {} ELSE stored[f]
  BY DEF WriteFiles, vars, fileVars, cleanerVars
<1>2. StorageTypeOK'
  BY <1>1 DEF StorageTypeOK, WriteFiles
<1>3. TempIsWhole' /\ AwaitedIsNotOnDisk'
  BY <1>1 DEF TempIsWhole, AwaitedIsNotOnDisk, Awaited, PendingIsDelivered
<1>4. UploadsAreRegistered' /\ PendingIsDelivered' /\ MissedIsFresh'
  BY <1>1 DEF UploadsAreRegistered, PendingIsDelivered, MissedIsFresh
<1>5. DeliveredIsStored'
  <2> SUFFICES ASSUME NEW f \in Files, ifile[f] = "delivered", f \notin mishap'
               PROVE  disk'[f] # "absent" /\ stored'[f] = All
    BY <1>1 DEF DeliveredIsStored
  <2>1. CASE f \in pending
    <3>1. sent[f] = Parts /\ sent[f] > 0
      BY StorageAssumption DEF UploadsAreRegistered
    <3>2. chunks[f] = All /\ f \in entry
      BY <1>1, <2>1, <3>1 DEF TempIsWhole, Awaited, All
    <3>3. f \in popped /\ f \in W
      BY <1>1, <2>1, <3>2
    <3> QED
      BY <1>1, <3>2, <3>3
  <2>2. CASE f \notin pending
    BY <1>1, <2>2 DEF DeliveredIsStored
  <2> QED
    BY <2>1, <2>2
<1> QED
  BY <1>2, <1>3, <1>4, <1>5

LEMMA StorageCleaning ==
  ASSUME StorageInv, StartCleaning \/ RemoveUntracked
  PROVE  StorageInv'
<1> USE DEF StorageInv
<1>1. /\ UNCHANGED <<ifile, sent, entry, chunks, pending, mishap>>
      /\ stored' \in [Files -> SUBSET All]
      /\ disk' \in [Files -> {"absent", "fresh", "day", "old"}]
      /\ cleaning' \in BOOLEAN /\ tracked' \subseteq Files
  BY DEF StartCleaning, RemoveUntracked, Wipe, Tracked, StorageTypeOK, vars, fileVars, tempVars
<1>2. \A f \in Files : disk[f] = "absent" => disk'[f] = "absent"
  BY DEF StartCleaning, RemoveUntracked, Wipe
<1>3. StorageTypeOK'
  BY <1>1 DEF StorageTypeOK
<1>4. UploadsAreRegistered' /\ PendingIsDelivered' /\ TempIsWhole' /\ AwaitedIsNotOnDisk'
  BY <1>1, <1>2 DEF UploadsAreRegistered, PendingIsDelivered, TempIsWhole, AwaitedIsNotOnDisk, Awaited
<1>5. MissedIsFresh'
  BY <1>1 DEF MissedIsFresh, StartCleaning, RemoveUntracked, Tracked
<1>6. \A f \in Files : ifile[f] = "delivered" /\ disk[f] # "absent" =>
        disk'[f] # "absent" /\ stored'[f] = stored[f]
  <2>1. CASE StartCleaning
    BY <2>1 DEF StartCleaning
  <2>2. CASE RemoveUntracked
    BY <2>2 DEF RemoveUntracked, Wipe, MissedIsFresh
  <2> QED
    BY <2>1, <2>2
<1>7. DeliveredIsStored'
  BY <1>1, <1>6 DEF DeliveredIsStored
<1> QED
  BY <1>3, <1>4, <1>5, <1>7

LEMMA StorageRestart ==
  ASSUME StorageInv, Restart
  PROVE  StorageInv'
<1> USE DEF StorageInv
<1>1. /\ UNCHANGED ifile
      /\ \A f \in Files : sent'[f] = IF ifile[f] = "none" THEN 0 ELSE sent[f]
      /\ entry' = {} /\ pending' = {} /\ tracked' = {} /\ cleaning' = FALSE
      /\ \A f \in Files : chunks'[f] = {}
      /\ \A f \in Files : disk'[f] = IF f \in Tracked THEN disk[f] ELSE "absent"
      /\ \A f \in Files : stored'[f] = IF f \in Tracked THEN stored[f] ELSE {}
      /\ mishap' = {f \in mishap \cup Unwritten : ifile[f] # "none"}
  BY DEF Restart, Wipe, vars, fileVars
<1>2. StorageTypeOK'
  <2>1. sent' \in [Files -> 0 .. Parts]
    BY StorageAssumption DEF StorageTypeOK, Restart
  <2>2. chunks' \in [Files -> SUBSET All] /\ stored' \in [Files -> SUBSET All]
    BY DEF StorageTypeOK, Restart, Wipe
  <2>3. disk' \in [Files -> {"absent", "fresh", "day", "old"}]
    BY DEF StorageTypeOK, Restart, Wipe
  <2>4. mishap' \subseteq Files
    BY <1>1 DEF StorageTypeOK, Unwritten
  <2> QED
    BY <1>1, <2>1, <2>2, <2>3, <2>4 DEF StorageTypeOK
<1>3. \A f \in Files : ifile[f] # "none" /\ disk[f] = "absent" => f \in mishap'
  BY <1>1, StorageAssumption DEF UploadsAreRegistered, Unwritten
<1>4. TempIsWhole'
  <2> SUFFICES ASSUME NEW f \in Files, Awaited(f)', f \notin mishap'
               PROVE  chunks'[f] = 1 .. sent'[f] /\ ~(sent'[f] > 0)
    BY DEF TempIsWhole
  <2>1. ifile[f] = "none"
    BY <1>1, <1>3 DEF Awaited, AwaitedIsNotOnDisk
  <2>2. sent'[f] = 0 /\ chunks'[f] = {}
    BY <1>1, <2>1
  <2> QED
    BY <2>2
<1>5. AwaitedIsNotOnDisk' /\ UploadsAreRegistered' /\ PendingIsDelivered' /\ MissedIsFresh'
  BY <1>1 DEF AwaitedIsNotOnDisk, Awaited, UploadsAreRegistered, PendingIsDelivered, MissedIsFresh
<1>6. DeliveredIsStored'
  <2> SUFFICES ASSUME NEW f \in Files, ifile[f] = "delivered", f \notin mishap'
               PROVE  disk'[f] # "absent" /\ stored'[f] = All
    BY <1>1 DEF DeliveredIsStored
  <2>1. disk[f] # "absent" /\ f \notin mishap /\ f \in Tracked
    BY <1>1, <1>3 DEF Tracked
  <2>2. f \notin pending
    BY <2>1 DEF AwaitedIsNotOnDisk, Awaited
  <2> QED
    BY <1>1, <2>1, <2>2 DEF DeliveredIsStored
<1> QED
  BY <1>2, <1>4, <1>5, <1>6

LEMMA StorageInvNext ==
  Custody /\ StorageInv /\ [StorageNext]_storageAll => StorageInv'
<1> SUFFICES ASSUME Custody, StorageInv, [StorageNext]_storageAll PROVE StorageInv'
  OBVIOUS
<1>1. CASE UNCHANGED storageAll
  BY <1>1 DEF storageAll, storageVars, vars, fileVars, tempVars, diskVars, cleanerVars, StorageInv,
     StorageTypeOK, UploadsAreRegistered, PendingIsDelivered, Awaited, TempIsWhole,
     AwaitedIsNotOnDisk, MissedIsFresh, DeliveredIsStored
<1> QED
  BY <1>1, StorageTransaction, StorageUpload, StorageExpire, StorageDelivery, StorageWrite,
     StorageCleaning, StorageRestart DEF StorageNext

LEMMA StorageInvAlways == StorageSpec => [](Custody /\ StorageInv)
<1>1. Custody /\ StorageInv /\ [StorageNext]_storageAll => (Custody /\ StorageInv)'
  BY StorageInvNext, StorageStep, CustodyNext
<1>2. StorageInit => Custody /\ StorageInv
  BY StorageInvInit, CustodyInit DEF StorageInit
<1> QED
  BY <1>1, <1>2, PTL DEF StorageSpec

(* Whatever the interleaving of uploads, deliveries, cleanings, restarts   *)
(* and transactions, a delivered attachment is on the disk and whole, but  *)
(* for those met by an expiry, a failing write or a restart in time.       *)
THEOREM DeliveredIsStoredAlways == StorageSpec => []DeliveredIsStored
  BY StorageInvAlways, PTL DEF StorageInv

(* The variables of the storage keep their types. *)
THEOREM StorageTypeCorrect == StorageSpec => []StorageTypeOK
  BY StorageInvAlways, PTL DEF StorageInv

-----------------------------------------------------------------------------
(* Content that has a row. *)
Stays(f) ==
  disk[f] # "absent" /\ ifile'[f] \in {"new", "delivered"} =>
    disk'[f] # "absent" /\ stored'[f] = stored[f]

LEMMA StaysStep ==
  ASSUME Custody, StorageInv, [StorageNext]_storageAll, NEW f \in Files
  PROVE  Stays(f)
<1> USE DEF Stays, StorageInv, vars, fileVars, storageAll, storageVars, tempVars, diskVars, cleanerVars
<1>1. CASE Transaction
  BY <1>1 DEF Transaction
<1>2. ASSUME NEW g \in Files, UploadChunk(g) \/ ExpireUpload(g)
      PROVE  Stays(f)
  BY <1>2 DEF UploadChunk, ExpireUpload
<1>3. ASSUME NEW B \in SUBSET Files, StartDelivery(B)
      PROVE  Stays(f)
  BY <1>3 DEF StartDelivery
<1>4. ASSUME NEW W \in SUBSET Files, WriteFiles(W)
      PROVE  Stays(f)
  <2>1. disk[f] # "absent" => f \notin pending
    BY DEF AwaitedIsNotOnDisk, Awaited
  <2> QED
    BY <1>4, <2>1 DEF WriteFiles
<1>5. CASE StartCleaning
  BY <1>5 DEF StartCleaning
<1>6. CASE RemoveUntracked
  BY <1>6 DEF RemoveUntracked, Wipe, MissedIsFresh
<1>7. CASE Restart
  BY <1>7 DEF Restart, Wipe, Tracked
<1>8. CASE UNCHANGED storageAll
  BY <1>8
<1> QED
  BY <1>1, <1>2, <1>3, <1>4, <1>5, <1>6, <1>7, <1>8 DEF StorageNext

(* The cleaning, for all that its list may be stale, and the restart never *)
(* touch content that has a row.                                           *)
THEOREM ContentStaysAlways == StorageSpec => ContentStays
<1>1. Custody /\ StorageInv /\ [StorageNext]_storageAll => [\A f \in Files : Stays(f)]_storageAll
  BY StaysStep
<1>2. [\A f \in Files : Stays(f)]_storageAll =>
      [\A f \in Files : disk[f] # "absent" /\ ifile'[f] \in {"new", "delivered"} =>
         disk'[f] # "absent" /\ stored'[f] = stored[f]]_storageAll
  BY DEF Stays
<1> QED
  BY <1>1, <1>2, StorageInvAlways, PTL DEF StorageSpec, ContentStays

=============================================================================
