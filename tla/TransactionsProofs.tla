------------------------- MODULE TransactionsProofs -------------------------
(***************************************************************************)
(* Theorems about Transactions: what holds however many threads there are, *)
(* and which meetings of two transactions it takes to break the rest.      *)
(***************************************************************************)
EXTENDS Transactions, TLAPS

(* What the actions of one thread leave of the others. *)
LEMMA TxnStep ==
  ASSUME TypeOK, NEW t \in Threads
  PROVE  /\ \A r : Begin(t, r) => /\ txn[t] = Idle /\ txn'[t] = r
                                  /\ UNCHANGED <<db, missed>>
                                  /\ \A s \in Threads \ {t} : txn'[s] = txn[s]
         /\ End(t) => /\ txn'[t] = Idle /\ \A s \in Threads \ {t} : txn'[s] = txn[s]
                      /\ \A s \in Threads \ {t} : txn[s] # Idle =>
                           missed'[s] = missed[s] \cup News
  BY DEF TypeOK, Begin, End

(* A read leaves the tables alone. *)
LEMMA ReadKeepsTables == ASSUME NEW t \in Threads, Read(t) PROVE UNCHANGED <<db, missed>>
  BY DEF Read, ReadGrant, ReadRevoke, ReadCase, ReadAttach, ReadDelivery, ReadClean, Begin

Transacting ==
  [op : {"idle", "grant", "transfer", "revoke", "close", "reopen", "postpone",
         "delete", "attach", "deliver", "clean"},
   by : Users \cup {Nobody}, tip : Tips \cup {NoTip}, to : Users \cup {Nobody},
   files : SUBSET Files, tips : SUBSET Tips]

Missable ==
  {"gives", "takes", "closes", "postpones"} \X (Users \cup {Unused, Gone, Nobody})

LEMMA MissedType ==
  ASSUME TypeOK, NEW t \in Threads, owner' \in [Tips -> Users \cup {Unused, Gone}], End(t)
  PROVE  missed' \in [Threads -> SUBSET Missable]
<1>1. News \subseteq Missable
  <2> SUFFICES ASSUME NEW n \in News PROVE n \in Missable
    OBVIOUS
  <2>1. \/ \E x \in Tips : n = <<"gives", owner'[x]>> \/ n = <<"takes", owner[x]>>
        \/ n = <<"closes", Nobody>> \/ n = <<"postpones", Nobody>>
    BY DEF News, LiveTips
  <2>2. \A x \in Tips : {owner[x], owner'[x]} \subseteq Users \cup {Unused, Gone}
    BY DEF TypeOK
  <2> QED BY <2>1, <2>2 DEF Missable
<1>2. \A s \in Threads : missed[s] \cup News \subseteq Missable
  BY <1>1 DEF TypeOK, Missable
<1> DEFINE told(s) == IF s = t \/ txn[s] = Idle THEN {} ELSE missed[s] \cup News
<1>3. \A s \in Threads : told(s) \in SUBSET Missable
  BY <1>2
<1>4. missed' = [s \in Threads |-> told(s)]
  BY DEF End
<1> HIDE DEF told
<1> QED BY <1>3, <1>4

LEMMA IdleType == Idle \in Transacting
  BY DEF Idle, Transacting

LEMMA TypeInit == Init => TypeOK
<1> SUFFICES ASSUME Init PROVE TypeOK
  OBVIOUS
<1>1. owner \in [Tips -> Users \cup {Unused, Gone}]
  BY DEF Init
<1>2. txn \in [Threads -> Transacting]
  BY IdleType DEF Init
<1>3. ifile \in [Files -> {"none", "new", "delivered", "gone"}]
  BY DEF Init
<1>4. missed \in [Threads -> SUBSET Missable]
  BY DEF Init
<1> QED
  BY <1>1, <1>2, <1>3, <1>4 DEF Init, TypeOK, Transacting, Missable

LEMMA BeginType ==
  ASSUME TypeOK, NEW t \in Threads, NEW r \in Transacting, Begin(t, r) PROVE TypeOK'
  BY DEF TypeOK, Begin, Transacting, db

LEMMA ReadType == ASSUME TypeOK, NEW t \in Threads, Read(t) PROVE TypeOK'
<1>1. ASSUME NEW u \in Users, NEW v \in Users, NEW op \in {"grant", "transfer"},
             ReadGrant(t, op, u, v)
      PROVE  TypeOK'
  <2>1. PICK x \in Tips : Begin(t, [Idle EXCEPT !.op = op, !.by = u, !.tip = x, !.to = v])
    BY <1>1 DEF ReadGrant
  <2>2. [Idle EXCEPT !.op = op, !.by = u, !.tip = x, !.to = v] \in Transacting
    BY DEF Idle, Transacting
  <2> QED BY <2>1, <2>2, BeginType
<1>2. ASSUME NEW u \in Users, NEW v \in Users, ReadRevoke(t, u, v)
      PROVE  TypeOK'
  <2>1. PICK y \in Tips : Begin(t, [Idle EXCEPT !.op = "revoke", !.by = u, !.tip = y])
    BY <1>2 DEF ReadRevoke
  <2>2. [Idle EXCEPT !.op = "revoke", !.by = u, !.tip = y] \in Transacting
    BY DEF Idle, Transacting
  <2> QED BY <2>1, <2>2, BeginType
<1>3. ASSUME NEW u \in Users, NEW op \in {"close", "reopen", "postpone", "delete"},
             ReadCase(t, op, u)
      PROVE  TypeOK'
  <2>1. [Idle EXCEPT !.op = op] \in Transacting
    BY DEF Idle, Transacting
  <2> QED BY <1>3, <2>1, BeginType DEF ReadCase
<1>4. ASSUME NEW f \in Files, ReadAttach(t, f) PROVE TypeOK'
  <2>1. [Idle EXCEPT !.op = "attach", !.files = {f}] \in Transacting
    BY DEF Idle, Transacting
  <2> QED BY <1>4, <2>1, BeginType DEF ReadAttach
<1>5. CASE ReadDelivery(t)
  <2>1. [Idle EXCEPT !.op = "deliver", !.files = NewFiles, !.tips = LiveTips] \in Transacting
    BY DEF Idle, Transacting, NewFiles, LiveTips
  <2> QED BY <1>5, <2>1, BeginType DEF ReadDelivery
<1>6. CASE ReadClean(t)
  <2>1. [Idle EXCEPT !.op = "clean"] \in Transacting
    BY DEF Idle, Transacting
  <2> QED BY <1>6, <2>1, BeginType DEF ReadClean
<1> QED BY <1>1, <1>2, <1>3, <1>4, <1>5, <1>6 DEF Read

(* A grant knows whom it is by and for. *)
HasTarget(t) ==
  /\ txn[t].op \in {"grant", "transfer"} => txn[t].to \in Users
  /\ txn[t].op \in {"grant", "transfer", "revoke"} => txn[t].by \in Users /\ txn[t].tip \in Tips

LEMMA CommitType ==
  ASSUME TypeOK, NEW t \in Threads, HasTarget(t), Commit(t)
  PROVE  TypeOK'
<1>1. End(t) /\ owner' \in [Tips -> Users \cup {Unused, Gone}] =>
        txn' \in [Threads -> Transacting] /\ missed' \in [Threads -> SUBSET Missable]
  <2>1. End(t) => txn' \in [Threads -> Transacting]
    BY IdleType DEF End, TypeOK, Transacting
  <2> QED BY <2>1, MissedType
<1>2. \A X : Drop(X) => /\ owner' \in [Tips -> Users \cup {Unused, Gone}]
                      /\ rows' \subseteq Tips \X Files
  BY DEF TypeOK, Drop
<1>3. txn[t].files \subseteq Files /\ txn[t].tips \subseteq Tips
  BY DEF TypeOK
<1>4. CASE CommitGrant(t)
  <2> DEFINE own == IF txn[t].op = "transfer" THEN TipsOf(txn[t].by) ELSE {}
  <2>1. PICK y \in Tips :
          /\ owner' = [x \in Tips |-> IF x = y THEN txn[t].to
                                      ELSE IF x \in own THEN Gone ELSE owner[x]]
          /\ rows' = {w \in rows \cup Copied(txn[t].tip, y) : w[1] \notin own}
    BY <1>4 DEF CommitGrant
  <2> HIDE DEF own
  <2>2. txn[t].to \in Users
    BY <1>4 DEF CommitGrant, HasTarget
  <2>3. owner' \in [Tips -> Users \cup {Unused, Gone}]
    BY <2>1, <2>2 DEF TypeOK
  <2>4. rows' \subseteq Tips \X Files
    <3>1. Copied(txn[t].tip, y) \subseteq Tips \X Files
      <4>1. \A w \in Copied(txn[t].tip, y) : \E f \in Files : w = <<y, f>>
        BY DEF Copied, FilesOf
      <4> QED BY <4>1
    <3>2. rows' \subseteq rows \cup Copied(txn[t].tip, y)
      BY <2>1
    <3> QED BY <3>1, <3>2 DEF TypeOK
  <2> QED BY <1>1, <1>4, <2>3, <2>4 DEF CommitGrant, TypeOK, Transacting, Missable, Missable
<1>5. CASE CommitRevoke(t)
  BY <1>1, <1>2, <1>5 DEF CommitRevoke, TypeOK, Transacting, Missable, Drop
<1>6. CASE CommitDelivery(t)
  BY <1>1, <1>3, <1>6 DEF CommitDelivery, TypeOK, Transacting, Missable, Missable
<1>7. CASE CommitAttach(t)
  BY <1>1, <1>7 DEF CommitAttach, TypeOK, Transacting, Missable, Missable
<1>8. CASE CommitCase(t)
  <2>1. status' \in {"open", "closed", "deleted"} /\ due' \in BOOLEAN
    <3>1. due' \in {FALSE, due}
      BY <1>8 DEF CommitCase
    <3>2. status' \in {"open", "closed", "deleted"}
      BY <1>8 DEF CommitCase, TypeOK
    <3> QED BY <3>1, <3>2 DEF TypeOK
  <2> QED BY <1>1, <1>8, <2>1 DEF CommitCase, TypeOK, Transacting, Missable, Missable
<1>9. CASE CommitRemoval(t)
  BY <1>1, <1>2, <1>9 DEF CommitRemoval, TypeOK, Transacting, Missable, LiveTips
<1> QED BY <1>4, <1>5, <1>6, <1>7, <1>8, <1>9 DEF Commit

-----------------------------------------------------------------------------
(* What a thread has read and may still rely on when it commits, however   *)
(* many threads there are: an identifier of a file is used once, a file is *)
(* never unmade and no tip is ever the submission's that was not.          *)

FileClaims(t) == \A f \in txn[t].files :
  /\ txn[t].op \in {"attach", "deliver"}
  /\ txn[t].op = "attach" <=> ifile[f] = "none"

Exclusive == \A s, t \in Threads : \A f \in txn[s].files \cap txn[t].files :
  txn[s].op = "attach" => s = t

FirstClaims(t) == txn[t].op = "deliver" => FirstTips \cap LiveTips \subseteq txn[t].tips

Claims ==
  /\ TypeOK
  /\ \A t \in Threads : HasTarget(t) /\ FileClaims(t) /\ FirstClaims(t)
  /\ Exclusive
  /\ \A x \in FirstTips : owner[x] # Unused

Kept == Claims /\ Referential /\ FirstHoldersSeeAll

LEMMA KeptInit == Init => Kept
<1> SUFFICES ASSUME Init PROVE Kept
  OBVIOUS
<1>1. TypeOK
  BY TypeInit
<1>2. \A t \in Threads : txn[t] = Idle
  BY DEF Init
<1>3. \A t \in Threads : HasTarget(t) /\ FileClaims(t) /\ FirstClaims(t)
  BY <1>2 DEF Idle, HasTarget, FileClaims, FirstClaims
<1>4. Exclusive
  BY <1>2 DEF Idle, Exclusive
<1>5. \A x \in FirstTips : owner[x] # Unused
  BY TipAssumption DEF Init
<1>6. Referential /\ FirstHoldersSeeAll
  BY DEF Init, Referential, FirstHoldersSeeAll, Live
<1> QED BY <1>1, <1>3, <1>4, <1>5, <1>6 DEF Kept, Claims

LEMMA KeptRead == ASSUME Kept, NEW t \in Threads, Read(t) PROVE Kept'
<1> USE DEF Kept, Claims
<1>1. TypeOK'
  BY ReadType
<1>2. UNCHANGED db
  BY ReadKeepsTables
<1>3. /\ Referential' /\ FirstHoldersSeeAll'
      /\ (\A x \in FirstTips : owner[x] # Unused)'
  BY <1>2 DEF db, Referential, FirstHoldersSeeAll, Live, LiveTips
<1>4. /\ txn[t] = Idle
      /\ \A s \in Threads \ {t} : txn'[s] = txn[s]
  BY TxnStep
     DEF Read, ReadGrant, ReadRevoke, ReadCase, ReadAttach, ReadDelivery, ReadClean
<1>5. HasTarget(t)' /\ FileClaims(t)' /\ FirstClaims(t)'
      /\ \A s \in Threads \ {t} : \A f \in txn'[t].files \cap txn[s].files :
           txn'[t].op # "attach" /\ txn[s].op # "attach"
  <2>1. ASSUME NEW u \in Users, NEW v \in Users, NEW op \in {"grant", "transfer"},
               ReadGrant(t, op, u, v)
        PROVE  /\ txn'[t].by \in Users /\ txn'[t].to \in Users /\ txn'[t].tip \in Tips
               /\ txn'[t].files = {} /\ txn'[t].op # "deliver"
    <3>1. PICK x \in Tips : Begin(t, [Idle EXCEPT !.op = op, !.by = u, !.tip = x, !.to = v])
      BY <2>1 DEF ReadGrant
    <3>2. txn'[t] = [Idle EXCEPT !.op = op, !.by = u, !.tip = x, !.to = v]
      BY <3>1, TxnStep
    <3> QED BY <3>2 DEF Idle
  <2>2. ASSUME NEW u \in Users, NEW v \in Users, ReadRevoke(t, u, v)
        PROVE  /\ txn'[t].op = "revoke" /\ txn'[t].files = {}
               /\ txn'[t].by \in Users /\ txn'[t].tip \in Tips
    <3>1. PICK y \in Tips : Begin(t, [Idle EXCEPT !.op = "revoke", !.by = u, !.tip = y])
      BY <2>2 DEF ReadRevoke
    <3>2. txn'[t] = [Idle EXCEPT !.op = "revoke", !.by = u, !.tip = y]
      BY <3>1, TxnStep
    <3> QED BY <3>2 DEF Idle
  <2>3. ASSUME NEW op \in {"close", "reopen", "postpone", "delete", "clean"},
               Begin(t, [Idle EXCEPT !.op = op])
        PROVE  txn'[t].op = op /\ txn'[t].files = {}
    <3>1. txn'[t] = [Idle EXCEPT !.op = op]
      BY <2>3, TxnStep
    <3> QED BY <3>1 DEF Idle
  <2>4. ASSUME NEW f \in Files, ReadAttach(t, f)
        PROVE  /\ txn'[t].op = "attach" /\ txn'[t].files = {f}
               /\ ifile'[f] = "none" /\ \A s \in Threads : f \notin txn[s].files
    <3>1. txn'[t] = [Idle EXCEPT !.op = "attach", !.files = {f}]
      BY <2>4, TxnStep DEF ReadAttach
    <3> QED BY <1>2, <2>4, <3>1 DEF ReadAttach, Idle, db
  <2>5. CASE ReadDelivery(t)
    <3>1. txn'[t] = [Idle EXCEPT !.op = "deliver", !.files = NewFiles, !.tips = LiveTips]
      BY <2>5, TxnStep DEF ReadDelivery
    <3>2. /\ txn'[t].op = "deliver" /\ txn'[t].tips = LiveTips /\ txn'[t].files = NewFiles
      BY <3>1 DEF Idle
    <3>3. \A f \in NewFiles : ifile'[f] = "new"
      BY <1>2 DEF NewFiles, db
    <3>4. \A s \in Threads \ {t} : \A f \in NewFiles \cap txn[s].files : txn[s].op # "attach"
      BY <1>2, <3>3 DEF FileClaims, db
    <3>5. LiveTips' = LiveTips
      BY <1>2 DEF db, LiveTips
    <3> QED BY <3>2, <3>3, <3>4, <3>5 DEF HasTarget, FileClaims, FirstClaims
  <2>6. ASSUME txn'[t].op \notin {"grant", "transfer", "revoke", "deliver"}, txn'[t].files = {}
        PROVE  HasTarget(t)' /\ FileClaims(t)' /\ FirstClaims(t)'
    BY <2>6 DEF HasTarget, FileClaims, FirstClaims
  <2>7. ASSUME NEW u \in Users, NEW op \in {"close", "reopen", "postpone", "delete"},
               ReadCase(t, op, u)
        PROVE  HasTarget(t)' /\ FileClaims(t)' /\ FirstClaims(t)' /\ txn'[t].files = {}
    BY <2>3, <2>6, <2>7 DEF ReadCase
  <2>8. CASE ReadClean(t)
    BY <2>3, <2>6, <2>8 DEF ReadClean
  <2>9. ASSUME NEW u \in Users, NEW v \in Users, NEW op \in {"grant", "transfer"},
               ReadGrant(t, op, u, v)
        PROVE  HasTarget(t)' /\ FileClaims(t)' /\ FirstClaims(t)' /\ txn'[t].files = {}
    BY <2>1, <2>9 DEF HasTarget, FileClaims, FirstClaims
  <2>10. ASSUME NEW f \in Files, ReadAttach(t, f)
         PROVE  HasTarget(t)' /\ FileClaims(t)' /\ FirstClaims(t)'
    BY <2>4, <2>10 DEF HasTarget, FileClaims, FirstClaims
  <2>11. ASSUME NEW u \in Users, NEW v \in Users, ReadRevoke(t, u, v)
         PROVE  HasTarget(t)' /\ FileClaims(t)' /\ FirstClaims(t)' /\ txn'[t].files = {}
    BY <2>2, <2>11 DEF HasTarget, FileClaims, FirstClaims
  <2> QED BY <2>11, <2>4, <2>5, <2>6, <2>7, <2>8, <2>9, <2>10 DEF Read
<1>6. \A s \in Threads \ {t} : HasTarget(s)' /\ FileClaims(s)' /\ FirstClaims(s)'
  BY <1>2, <1>4 DEF HasTarget, FileClaims, FirstClaims, LiveTips, db
<1>7. Exclusive'
  BY <1>4, <1>5 DEF Exclusive
<1> QED BY <1>1, <1>3, <1>5, <1>6, <1>7

(* A commit that takes nothing from under the others keeps their claims.   *)
Considerate(t) ==
  /\ \A f \in Files : \/ txn[t].op = "attach" /\ f \in txn[t].files
                      \/ ifile'[f] = "none" <=> ifile[f] = "none"
  /\ FirstTips \cap LiveTips' \subseteq LiveTips
  /\ \A x \in FirstTips : owner'[x] # Unused

LEMMA KeptEnd ==
  ASSUME Kept, NEW t \in Threads, End(t), TypeOK', Considerate(t)
  PROVE  Claims'
<1> USE DEF Kept, Claims, Considerate
<1>1. txn'[t] = Idle /\ \A s \in Threads \ {t} : txn'[s] = txn[s]
  BY TxnStep
<1>2. HasTarget(t)' /\ FileClaims(t)' /\ FirstClaims(t)'
  BY <1>1 DEF Idle, HasTarget, FileClaims, FirstClaims
<1>3. \A s \in Threads \ {t} : HasTarget(s)' /\ FirstClaims(s)'
  BY <1>1 DEF HasTarget, FirstClaims
<1>4. \A s \in Threads \ {t} : FileClaims(s)'
  BY <1>1 DEF FileClaims, Exclusive, TypeOK
<1>5. Exclusive'
  BY <1>1 DEF Idle, Exclusive
<1> QED BY <1>2, <1>3, <1>4, <1>5

LEMMA KeptGrant == ASSUME Kept, NEW t \in Threads, CommitGrant(t), TypeOK' PROVE Kept'
<1> USE DEF Kept, Claims
<1> DEFINE own == IF txn[t].op = "transfer" THEN TipsOf(txn[t].by) ELSE {}
<1>1. PICK y \in Tips :
        /\ owner[y] = Unused
        /\ owner' = [x \in Tips |-> IF x = y THEN txn[t].to
                                    ELSE IF x \in own THEN Gone ELSE owner[x]]
        /\ rows' = {w \in rows \cup Copied(txn[t].tip, y) : w[1] \notin own}
  BY DEF CommitGrant
<1>2. Live /\ End(t) /\ txn[t].to \in Users /\ UNCHANGED <<ifile, status>>
  BY DEF CommitGrant, HasTarget
<1>3. y \notin own /\ y \notin FirstTips /\ y \notin LiveTips
  <2>1. own # {} => txn[t].by \in Users
    BY DEF CommitGrant, HasTarget
  <2>2. y \notin own
    BY <1>1, <1>2, <2>1, TipAssumption DEF TipsOf
  <2> QED BY <1>1, <2>2, TipAssumption DEF LiveTips
<1> HIDE DEF own
<1>4. LiveTips' = (LiveTips \ own) \cup {y}
  BY <1>1, <1>2, <1>3, TipAssumption DEF LiveTips
<1>5. \A x \in FirstTips : owner'[x] # Unused
  BY <1>1, <1>3, TipAssumption
<1>6. Claims'
  <2>1. FirstTips \cap LiveTips' \subseteq LiveTips
    BY <1>3, <1>4
  <2>2. \A f \in Files : \/ txn[t].op = "attach" /\ f \in txn[t].files
                         \/ ifile'[f] = "none" <=> ifile[f] = "none"
    BY <1>2
  <2>3. Considerate(t)
    BY <1>5, <2>1, <2>2 DEF Considerate
  <2> HIDE DEF Kept, Claims
  <2> QED BY <1>2, <2>3, KeptEnd
<1>7. ASSUME NEW w \in rows' PROVE w[1] \in LiveTips' /\ ifile[w[2]] = "delivered"
  <2>1. CASE w \in rows
    BY <1>1, <1>4, <1>7, <2>1 DEF Referential
  <2>2. CASE w \in Copied(txn[t].tip, y)
    <3>1. PICK f \in Files : w = <<y, f>> /\ <<txn[t].tip, f>> \in rows
      BY <2>2 DEF Copied, FilesOf
    <3>2. y \notin own
      BY <1>3
    <3> QED BY <1>4, <3>1, <3>2 DEF Referential
  <2> QED BY <1>1, <1>7, <2>1, <2>2
<1>8. Referential'
  BY <1>2, <1>7 DEF Referential, Live
<1>9. FirstHoldersSeeAll'
  <2> SUFFICES ASSUME NEW x \in FirstTips, x \in LiveTips', NEW f \in Files, ifile[f] = "delivered"
               PROVE  <<x, f>> \in rows'
    BY <1>2 DEF FirstHoldersSeeAll
  <2>1. x \in LiveTips /\ x \notin own
    BY <1>1, <1>3, <1>4, TipAssumption DEF LiveTips
  <2> QED BY <1>1, <2>1 DEF FirstHoldersSeeAll
<1> QED BY <1>6, <1>8, <1>9

LEMMA KeptRevoke == ASSUME Kept, NEW t \in Threads, CommitRevoke(t), TypeOK' PROVE Kept'
<1> USE DEF Kept, Claims
<1>1. LiveTips' = LiveTips \ {txn[t].tip} /\ rows' = {w \in rows : w[1] # txn[t].tip}
  BY TipAssumption DEF CommitRevoke, Drop, LiveTips
<1>2. \A x \in FirstTips : owner'[x] # Unused
  BY TipAssumption DEF CommitRevoke, Drop
<1>3. Claims'
  BY <1>1, <1>2, KeptEnd DEF CommitRevoke, Considerate
<1>4. Referential' /\ FirstHoldersSeeAll'
  BY <1>1 DEF CommitRevoke, Referential, FirstHoldersSeeAll, Live
<1> QED BY <1>3, <1>4

LEMMA KeptDelivery == ASSUME Kept, NEW t \in Threads, CommitDelivery(t), TypeOK' PROVE Kept'
<1> USE DEF Kept, Claims
<1>1. /\ LiveTips' = LiveTips /\ txn[t].tips \subseteq LiveTips /\ Live /\ Live'
      /\ rows' = rows \cup (txn[t].tips \X txn[t].files)
      /\ \A f \in Files : ifile'[f] = IF f \in txn[t].files THEN "delivered" ELSE ifile[f]
  BY DEF CommitDelivery, LiveTips, Live, TypeOK
<1>2. \A f \in txn[t].files : f \in Files /\ ifile[f] # "none"
  BY DEF CommitDelivery, FileClaims, TypeOK
<1>3. Claims'
  BY <1>1, <1>2, KeptEnd DEF CommitDelivery, Considerate
<1>4. Referential'
  <2> SUFFICES ASSUME NEW w \in rows' PROVE w[1] \in LiveTips /\ ifile'[w[2]] = "delivered"
    BY <1>1 DEF Referential
  <2>1. CASE w \in rows
    BY <1>1, <2>1 DEF Referential, TypeOK
  <2>2. CASE w \in txn[t].tips \X txn[t].files
    BY <1>1, <1>2, <2>2
  <2> QED BY <1>1, <2>1, <2>2
<1>5. FirstHoldersSeeAll'
  BY <1>1 DEF FirstHoldersSeeAll, FirstClaims, CommitDelivery
<1> QED BY <1>3, <1>4, <1>5

LEMMA KeptAttach == ASSUME Kept, NEW t \in Threads, CommitAttach(t), TypeOK' PROVE Kept'
<1> USE DEF Kept, Claims
<1>1. /\ LiveTips' = LiveTips /\ UNCHANGED <<rows, status>>
      /\ \A f \in Files : ifile'[f] = IF f \in txn[t].files THEN "new" ELSE ifile[f]
      /\ Live /\ Live'
  BY DEF CommitAttach, LiveTips, Live
<1>2. \A f \in txn[t].files : ifile[f] = "none"
  BY DEF CommitAttach, FileClaims
<1>3. Claims'
  <2>1. \A f \in Files : \/ txn[t].op = "attach" /\ f \in txn[t].files
                         \/ ifile'[f] = "none" <=> ifile[f] = "none"
    BY <1>1 DEF CommitAttach
  <2>2. End(t) /\ UNCHANGED owner
    BY DEF CommitAttach
  <2>3. FirstTips \cap LiveTips' \subseteq LiveTips /\ \A x \in FirstTips : owner'[x] # Unused
    BY <1>1, <2>2
  <2>4. Considerate(t)
    BY <2>1, <2>2, <2>3 DEF Considerate
  <2> HIDE DEF Kept, Claims
  <2> QED BY <2>1, <2>2, <2>4, KeptEnd
<1>4. Referential'
  <2> SUFFICES ASSUME NEW w \in rows PROVE w[1] \in LiveTips /\ ifile'[w[2]] = "delivered"
    BY <1>1 DEF Referential, Live
  <2> QED BY <1>1, <1>2 DEF Referential, TypeOK
<1>5. FirstHoldersSeeAll'
  BY <1>1 DEF FirstHoldersSeeAll
<1> QED BY <1>3, <1>4, <1>5

LEMMA KeptRemoval == ASSUME Kept, NEW t \in Threads, CommitRemoval(t), TypeOK' PROVE Kept'
<1> USE DEF Kept, Claims
<1>1. LiveTips' = {} /\ rows' = {}
  BY TipAssumption DEF CommitRemoval, Drop, LiveTips, Referential
<1>2. \A x \in FirstTips : owner'[x] # Unused
  BY TipAssumption DEF CommitRemoval, Drop
<1>3. Claims'
  BY <1>1, <1>2, KeptEnd DEF CommitRemoval, Considerate
<1>4. Referential' /\ FirstHoldersSeeAll'
  BY <1>1 DEF Referential, FirstHoldersSeeAll
<1> QED BY <1>3, <1>4

LEMMA KeptUnmoved ==
  ASSUME Kept, NEW t \in Threads, CommitCase(t) \/ RollBack(t), TypeOK' PROVE Kept'
<1> USE DEF Kept, Claims
<1>1. LiveTips' = LiveTips /\ UNCHANGED <<owner, rows, ifile>> /\ (Live' <=> Live)
  BY DEF CommitCase, RollBack, LiveTips, Live, db
<1>2. Claims'
  <2>1. End(t)
    BY DEF CommitCase, RollBack
  <2>2. FirstTips \cap LiveTips' \subseteq LiveTips /\ \A x \in FirstTips : owner'[x] # Unused
    BY <1>1
  <2>3. \A f \in Files : \/ txn[t].op = "attach" /\ f \in txn[t].files
                         \/ ifile'[f] = "none" <=> ifile[f] = "none"
    BY <1>1
  <2>4. Considerate(t)
    BY <2>1, <2>2, <2>3 DEF Considerate
  <2> HIDE DEF Kept, Claims
  <2> QED BY <2>1, <2>2, <2>4, KeptEnd
<1> QED BY <1>1, <1>2 DEF Referential, FirstHoldersSeeAll

LEMMA KeptNext == Kept /\ [Next]_vars => Kept'
<1> SUFFICES ASSUME Kept, [Next]_vars PROVE Kept'
  OBVIOUS
<1> USE DEF Kept, Claims
<1>1. ASSUME NEW t \in Threads, Commit(t) PROVE Kept'
  BY <1>1, CommitType, KeptGrant, KeptRevoke, KeptDelivery, KeptAttach, KeptUnmoved, KeptRemoval
     DEF Commit
<1>2. ASSUME NEW t \in Threads, RollBack(t) PROVE Kept'
  <2>1. TypeOK'
    <3>1. UNCHANGED db /\ End(t)
      BY <1>2 DEF RollBack
    <3>2. txn' \in [Threads -> Transacting]
      BY <3>1, IdleType DEF End, TypeOK, Transacting
    <3>3. missed' \in [Threads -> SUBSET Missable]
      BY <3>1, MissedType DEF TypeOK, db
    <3> QED BY <3>1, <3>2, <3>3 DEF TypeOK, Transacting, Missable, db
  <2> QED BY <1>2, <2>1, KeptUnmoved
<1>3. CASE UNCHANGED vars \/ DeadlinePasses
  <2>1. UNCHANGED <<owner, rows, ifile, txn, status>> /\ LiveTips' = LiveTips
    BY <1>3 DEF DeadlinePasses, vars, db, LiveTips
  <2>2. TypeOK'
    BY <1>3 DEF DeadlinePasses, vars, db, TypeOK
  <2> QED BY <2>1, <2>2
          DEF HasTarget, FileClaims, FirstClaims, Exclusive, Referential, FirstHoldersSeeAll, Live
<1> QED BY <1>1, <1>2, <1>3, KeptRead DEF Next

(* Every reachable state has the types of the tables. *)
THEOREM TransactionsTypeCorrect == Spec => []TypeOK
<1>1. Kept => TypeOK
  BY DEF Kept, Claims
<1> QED BY <1>1, KeptInit, KeptNext, PTL DEF Spec

(* However many threads there are, the tables stay together.               *)
THEOREM ReferentialAlways == Spec => []Referential
<1>1. Kept => Referential
  BY DEF Kept
<1> QED BY <1>1, KeptInit, KeptNext, PTL DEF Spec

(* However many threads there are, a delivery that meets other changes of  *)
(* access is whole for those whom the whistleblower chose.                 *)
THEOREM FirstHoldersSeeAllAlways == Spec => []FirstHoldersSeeAll
<1>1. Kept => FirstHoldersSeeAll
  BY DEF Kept
<1> QED BY <1>1, KeptInit, KeptNext, PTL DEF Spec

-----------------------------------------------------------------------------
(* What a thread has read is current at its commit, or the thread missed   *)
(* the step that changed it.                                               *)

Told(t) ==
  /\ txn[t].op \in {"grant", "transfer"} =>
       /\ TipsOf(txn[t].to) = {} \/ <<"gives", txn[t].to>> \in missed[t]
       /\ owner[txn[t].tip] = txn[t].by \/ <<"takes", txn[t].by>> \in missed[t]
  /\ txn[t].op = "revoke" =>
       \/ \E x \in TipsOf(txn[t].by) : x # txn[t].tip
       \/ <<"takes", txn[t].by>> \in missed[t]
  /\ txn[t].op = "deliver" =>
       \A x \in LiveTips \ txn[t].tips : <<"gives", owner[x]>> \in missed[t]
  /\ txn[t].op = "attach" => status # "closed" \/ <<"closes", Nobody>> \in missed[t]
  /\ txn[t].op = "clean" => due \/ <<"postpones", Nobody>> \in missed[t]

Informed == Kept /\ \A t \in Threads : Told(t)

LEMMA InformedInit == Init => Informed
<1> SUFFICES ASSUME Init PROVE \A t \in Threads : Told(t)
  BY KeptInit DEF Informed
<1> QED BY DEF Init, Idle, Told

LEMMA ToldRead == ASSUME TypeOK, NEW t \in Threads, Read(t) PROVE Told(t)'
<1>1. UNCHANGED db
  BY ReadKeepsTables
<1>2. LiveTips' = LiveTips /\ \A u : TipsOf(u)' = TipsOf(u)
  BY <1>1 DEF db, LiveTips, TipsOf
<1>3. ASSUME NEW u \in Users, NEW v \in Users, NEW op \in {"grant", "transfer"},
             ReadGrant(t, op, u, v)
      PROVE  Told(t)'
  <2>1. PICK x \in Tips : /\ TipsOf(u) = {x} /\ TipsOf(v) = {}
                         /\ Begin(t, [Idle EXCEPT !.op = op, !.by = u, !.tip = x, !.to = v])
    BY <1>3 DEF ReadGrant, Accesses
  <2>2. txn'[t] = [Idle EXCEPT !.op = op, !.by = u, !.tip = x, !.to = v]
    BY <2>1, TxnStep
  <2>3. txn'[t].op = op /\ txn'[t].by = u /\ txn'[t].tip = x /\ txn'[t].to = v
    BY <2>2 DEF Idle
  <2>4. owner'[x] = u
    BY <1>1, <2>1 DEF TipsOf, db
  <2> QED BY <1>2, <2>1, <2>3, <2>4 DEF Told
<1>4. ASSUME NEW u \in Users, NEW v \in Users, ReadRevoke(t, u, v)
      PROVE  Told(t)'
  <2>1. PICK x \in Tips, y \in Tips :
          /\ TipsOf(u) = {x} /\ TipsOf(v) = {y} /\ u # v
          /\ Begin(t, [Idle EXCEPT !.op = "revoke", !.by = u, !.tip = y])
    BY <1>4 DEF ReadRevoke, Accesses
  <2>2. txn'[t] = [Idle EXCEPT !.op = "revoke", !.by = u, !.tip = y]
    BY <2>1, TxnStep
  <2>3. txn'[t].op = "revoke" /\ txn'[t].tip = y /\ txn'[t].by = u
    BY <2>2 DEF Idle
  <2>4. x # y
    BY <2>1 DEF TipsOf
  <2> QED BY <1>2, <2>1, <2>3, <2>4 DEF Told
<1>5. ASSUME NEW op \in {"close", "reopen", "postpone", "delete"},
             Begin(t, [Idle EXCEPT !.op = op])
      PROVE  Told(t)'
  <2>1. txn'[t] = [Idle EXCEPT !.op = op]
    BY <1>5, TxnStep
  <2> QED BY <2>1 DEF Idle, Told
<1>6. ASSUME NEW f \in Files, ReadAttach(t, f) PROVE Told(t)'
  <2>1. txn'[t] = [Idle EXCEPT !.op = "attach", !.files = {f}]
    BY <1>6, TxnStep DEF ReadAttach
  <2> QED BY <1>1, <1>6, <2>1 DEF ReadAttach, Idle, Told, db
<1>7. CASE ReadDelivery(t)
  <2>1. txn'[t] = [Idle EXCEPT !.op = "deliver", !.files = NewFiles, !.tips = LiveTips]
    BY <1>7, TxnStep DEF ReadDelivery
  <2>2. txn'[t].op = "deliver" /\ txn'[t].tips = LiveTips
    BY <2>1 DEF Idle
  <2> QED BY <1>2, <2>2 DEF Told
<1>8. CASE ReadClean(t)
  <2>1. txn'[t] = [Idle EXCEPT !.op = "clean"]
    BY <1>8, TxnStep DEF ReadClean
  <2> QED BY <1>1, <1>8, <2>1 DEF ReadClean, Idle, Told, db
<1> QED BY <1>3, <1>4, <1>5, <1>6, <1>7, <1>8 DEF Read, ReadCase

(* A tip is made once, for a recipient, and is gone once and for all.      *)
Moves ==
  /\ \A x \in Tips : \/ owner'[x] = owner[x]
                     \/ owner[x] = Unused /\ owner'[x] \in Users
                     \/ owner'[x] = Gone
  /\ due' \in {due, FALSE}

LEMMA CommitMoves ==
  ASSUME Kept, NEW t \in Threads, Commit(t) \/ RollBack(t) PROVE Moves /\ End(t)
<1>1. CASE CommitGrant(t)
  <2>1. txn[t].to \in Users
    BY <1>1 DEF CommitGrant, HasTarget, Kept, Claims
  <2> QED BY <1>1, <2>1 DEF CommitGrant, Moves
<1>2. CASE CommitRevoke(t) \/ CommitRemoval(t)
  BY <1>2 DEF CommitRevoke, CommitRemoval, Drop, Moves
<1>3. CASE CommitDelivery(t) \/ CommitAttach(t) \/ RollBack(t)
  BY <1>3 DEF CommitDelivery, CommitAttach, RollBack, db, Moves
<1>4. CASE CommitCase(t)
  BY <1>4 DEF CommitCase, Moves
<1> QED BY <1>1, <1>2, <1>3, <1>4 DEF Commit

(* What an idle thread or a bystander has been told stays so.              *)
LEMMA ToldKept ==
  ASSUME Informed, Moves, NEW s \in Threads, txn'[s] = txn[s], txn[s] # Idle,
         missed'[s] = missed[s] \cup News
  PROVE  Told(s)'
<1> DEFINE r == txn[s]
<1>1. Told(s) /\ HasTarget(s)
  BY DEF Informed, Kept, Claims
<1>2. \A x \in Tips : owner'[x] # owner[x] /\ owner'[x] \in Users => <<"gives", owner'[x]>> \in News
  BY TipAssumption DEF Moves, News
<1>3. \A x \in Tips : owner'[x] # owner[x] /\ owner[x] \in Users => <<"takes", owner[x]>> \in News
  BY TipAssumption DEF Moves, News, LiveTips
<1>4. status' = "closed" /\ status # "closed" => <<"closes", Nobody>> \in News
  BY DEF News
<1>5. due /\ ~due' => <<"postpones", Nobody>> \in News
  BY DEF News
<1>6. ASSUME r.op \in {"grant", "transfer"}
      PROVE  /\ TipsOf(r.to)' = {} \/ <<"gives", r.to>> \in missed'[s]
             /\ owner'[r.tip] = r.by \/ <<"takes", r.by>> \in missed'[s]
  <2>1. r.to \in Users /\ r.by \in Users /\ r.tip \in Tips
    BY <1>1, <1>6 DEF HasTarget
  <2>2. TipsOf(r.to) = {} \/ <<"gives", r.to>> \in missed[s]
    BY <1>1, <1>6 DEF Told
  <2>3. owner[r.tip] = r.by \/ <<"takes", r.by>> \in missed[s]
    BY <1>1, <1>6 DEF Told
  <2>4. TipsOf(r.to)' = {} \/ <<"gives", r.to>> \in missed'[s]
    BY <1>2, <2>1, <2>2 DEF TipsOf
  <2>5. owner'[r.tip] = r.by \/ <<"takes", r.by>> \in missed'[s]
    BY <1>3, <2>1, <2>3
  <2> QED BY <2>4, <2>5
<1>7. ASSUME r.op = "revoke"
      PROVE  (\E x \in TipsOf(r.by)' : x # r.tip) \/ <<"takes", r.by>> \in missed'[s]
  <2>1. r.by \in Users
    BY <1>1, <1>7 DEF HasTarget
  <2>2. (\E x \in TipsOf(r.by) : x # r.tip) \/ <<"takes", r.by>> \in missed[s]
    BY <1>1, <1>7 DEF Told
  <2> QED BY <1>3, <2>1, <2>2 DEF TipsOf
<1>8. ASSUME r.op = "deliver", NEW x \in LiveTips' \ r.tips
      PROVE  <<"gives", owner'[x]>> \in missed'[s]
  <2>1. x \in Tips /\ owner'[x] \in Users
    BY <1>8 DEF LiveTips
  <2>2. owner'[x] = owner[x] => x \in LiveTips /\ <<"gives", owner[x]>> \in missed[s]
    BY <1>1, <1>8, <2>1 DEF Told, LiveTips
  <2> QED BY <1>2, <2>1, <2>2
<1>9. r.op = "attach" => status' # "closed" \/ <<"closes", Nobody>> \in missed'[s]
  BY <1>1, <1>4 DEF Told
<1>10. r.op = "clean" => due' \/ <<"postpones", Nobody>> \in missed'[s]
  BY <1>1, <1>5 DEF Told, Moves
<1> QED BY <1>6, <1>7, <1>8, <1>9, <1>10 DEF Told

LEMMA InformedNext == Informed /\ [Next]_vars => Informed'
<1> SUFFICES ASSUME Informed, [Next]_vars PROVE Informed'
  OBVIOUS
<1>1. Kept'
  BY KeptNext DEF Informed
<1>2. TypeOK
  BY DEF Informed, Kept, Claims
<1>3. ASSUME NEW t \in Threads, Read(t), NEW s \in Threads PROVE Told(s)'
  <2>1. /\ UNCHANGED <<db, missed>>
        /\ \A z \in Threads \ {t} : txn'[z] = txn[z]
    BY <1>2, <1>3, ReadKeepsTables, TxnStep
       DEF Read, ReadGrant, ReadRevoke, ReadCase, ReadAttach, ReadDelivery, ReadClean
  <2>2. LiveTips' = LiveTips /\ \A u : TipsOf(u)' = TipsOf(u)
    BY <2>1 DEF db, LiveTips, TipsOf
  <2>3. CASE s # t
    BY <2>1, <2>2, <2>3 DEF Informed, Told, db
  <2> QED BY <1>2, <1>3, <2>3, ToldRead
<1>4. ASSUME NEW t \in Threads, Commit(t) \/ RollBack(t), NEW s \in Threads PROVE Told(s)'
  <2>1. Moves /\ End(t)
    BY <1>4, CommitMoves DEF Informed
  <2>2. /\ txn'[t] = Idle
        /\ \A z \in Threads \ {t} : txn'[z] = txn[z]
        /\ \A z \in Threads \ {t} : txn[z] # Idle => missed'[z] = missed[z] \cup News
    BY <1>2, <2>1, TxnStep
  <2>3. CASE txn'[s] = Idle
    BY <2>3 DEF Idle, Told
  <2>4. CASE txn'[s] # Idle
    BY <2>1, <2>2, <2>4, ToldKept
  <2> QED BY <2>3, <2>4
<1>5. CASE DeadlinePasses \/ UNCHANGED vars
  <2>1. UNCHANGED <<owner, rows, ifile, status, txn, missed>> /\ (due => due')
    BY <1>5 DEF DeadlinePasses, vars, db
  <2>2. LiveTips' = LiveTips /\ \A u : TipsOf(u)' = TipsOf(u)
    BY <2>1 DEF LiveTips, TipsOf
  <2> QED BY <1>1, <2>1, <2>2 DEF Informed, Told
<1> QED BY <1>1, <1>3, <1>4, <1>5 DEF Next, Informed

-----------------------------------------------------------------------------
(* A step that changes the tables is the commit of a thread.               *)
LEMMA Committed ==
  ASSUME Informed, [Next]_vars, ~UNCHANGED <<owner, rows, ifile, status>>
  PROVE  \E t \in Threads : Commit(t) /\ Commits(t) /\ Told(t) /\ HasTarget(t)
<1>1. ~(DeadlinePasses \/ UNCHANGED vars)
  BY DEF DeadlinePasses, vars, db
<1>2. PICK t \in Threads : Read(t) \/ Commit(t) \/ RollBack(t)
  BY <1>1 DEF Next
<1>3. ~Read(t) /\ ~RollBack(t)
  BY <1>2, ReadKeepsTables DEF RollBack, db
<1>4. End(t) /\ TypeOK
  BY <1>2, <1>3, CommitMoves DEF Informed, Kept, Claims
<1>5. txn'[t] = Idle
  BY <1>4, TxnStep
<1>6. txn[t].op # "idle"
  BY <1>2, <1>3 DEF Commit, CommitGrant, CommitRevoke, CommitDelivery, CommitAttach, CommitCase,
                    CommitRemoval
<1>7. txn[t] # Idle
  BY <1>6 DEF Idle
<1> QED BY <1>2, <1>3, <1>5, <1>7 DEF Commits, Informed, Kept, Claims

(* A grant or a transfer makes one tip.                                    *)
LEMMA GrantMakes ==
  ASSUME Kept, NEW t \in Threads, CommitGrant(t)
  PROVE  \E y \in Tips :
           /\ y \notin LiveTips /\ owner'[y] = txn[t].to
           /\ LiveTips' \subseteq LiveTips \cup {y} /\ y \in LiveTips'
           /\ \A x \in LiveTips' \ {y} : owner'[x] = owner[x]
           /\ \A f \in Files : <<txn[t].tip, f>> \in rows => <<y, f>> \in rows'
           /\ \A w \in rows : w[1] \in LiveTips' => w \in rows'
<1> DEFINE own == IF txn[t].op = "transfer" THEN TipsOf(txn[t].by) ELSE {}
<1>1. PICK y \in Tips :
        /\ owner[y] = Unused
        /\ owner' = [x \in Tips |-> IF x = y THEN txn[t].to
                                    ELSE IF x \in own THEN Gone ELSE owner[x]]
        /\ rows' = {w \in rows \cup Copied(txn[t].tip, y) : w[1] \notin own}
  BY DEF CommitGrant
<1>2. /\ txn[t].to \in Users
      /\ own # {} => txn[t].by \in Users
  BY DEF CommitGrant, HasTarget, Kept, Claims
<1>3. y \notin own /\ y \notin LiveTips
  BY <1>1, <1>2, TipAssumption DEF TipsOf, LiveTips
<1> HIDE DEF own
<1>4. /\ owner'[y] = txn[t].to
      /\ LiveTips' = (LiveTips \ own) \cup {y}
      /\ \A x \in LiveTips' \ {y} : owner'[x] = owner[x]
  BY <1>1, <1>2, <1>3, TipAssumption DEF LiveTips
<1>5. \A f \in Files : <<txn[t].tip, f>> \in rows => <<y, f>> \in rows'
  BY <1>1, <1>3 DEF Copied, FilesOf
<1>6. \A w \in rows : w[1] \in LiveTips' => w \in rows'
  BY <1>1, <1>3, <1>4
<1> QED BY <1>3, <1>4, <1>5, <1>6

(* The other commits make none, and keep the rows of the tips they leave.  *)
LEMMA OthersMakeNone ==
  ASSUME Kept, NEW t \in Threads, Commit(t), ~CommitGrant(t)
  PROVE  /\ LiveTips' \subseteq LiveTips
         /\ \A x \in LiveTips' : owner'[x] = owner[x]
         /\ \A w \in rows : w[1] \in LiveTips' => w \in rows'
<1>1. CASE CommitRevoke(t) \/ CommitRemoval(t)
  BY <1>1, TipAssumption DEF CommitRevoke, CommitRemoval, Drop, LiveTips
<1>2. CASE CommitDelivery(t) \/ CommitAttach(t) \/ CommitCase(t)
  BY <1>2 DEF CommitDelivery, CommitAttach, CommitCase, LiveTips
<1> QED BY <1>1, <1>2 DEF Commit

(* However many threads there are, a second tip takes a second grant that  *)
(* was committed meanwhile.                                                *)
THEOREM DoubleTipNeedsRaceAlways == Spec => DoubleTipNeedsRace
<1>1. ASSUME Informed, [Next]_vars, NEW x \in LiveTips \cap LiveTips', NEW y \in LiveTips' \ LiveTips,
             owner'[x] = owner'[y]
      PROVE  \E t \in Threads : Commits(t) /\ <<"gives", owner'[x]>> \in missed[t]
  <2>1. ~UNCHANGED owner
    BY <1>1 DEF LiveTips
  <2>2. PICK t \in Threads : Commit(t) /\ Commits(t) /\ Told(t)
    BY <1>1, <2>1, Committed
  <2>3. Kept
    BY <1>1 DEF Informed
  <2>4. CommitGrant(t)
    BY <1>1, <2>2, <2>3, OthersMakeNone
  <2>5. /\ owner'[y] = txn[t].to /\ owner'[x] = owner[x]
    BY <1>1, <2>3, <2>4, GrantMakes
  <2>6. x \in TipsOf(txn[t].to)
    BY <1>1, <2>5 DEF TipsOf, LiveTips
  <2>7. <<"gives", txn[t].to>> \in missed[t]
    BY <2>2, <2>4, <2>6 DEF CommitGrant, Told
  <2> QED BY <1>1, <2>2, <2>5, <2>7
<1>2. Informed /\ [Next]_vars =>
        [\A x \in LiveTips \cap LiveTips', y \in LiveTips' \ LiveTips :
           owner'[x] = owner'[y] =>
             \E t \in Threads : Commits(t) /\ <<"gives", owner'[x]>> \in missed[t]]_vars
  BY <1>1
<1> QED BY <1>2, InformedInit, InformedNext, PTL DEF Spec, DoubleTipNeedsRace

(* However many threads there are, a tip lacks a delivered attachment for  *)
(* the reasons given only.                                                 *)
THEOREM HoleNeedsRaceAlways == Spec => HoleNeedsRace
<1>1. ASSUME Informed, [Next]_vars, NEW w \in Holes' \ Holes
      PROVE  \E t \in Threads :
               /\ Commits(t)
               /\ \/ txn[t].op = "deliver" /\ <<"gives", owner[w[1]]>> \in missed[t]
                  \/ /\ txn[t].op \in {"grant", "transfer"}
                     /\ \/ <<"takes", txn[t].by>> \in missed[t]
                        \/ <<txn[t].tip, w[2]>> \in Holes
  <2>1. PICK x \in LiveTips', f \in Files : w = <<x, f>> /\ ifile'[f] = "delivered" /\ w \notin rows'
    BY <1>1 DEF Holes
  <2>2. x \notin LiveTips \/ ifile[f] # "delivered" \/ w \in rows
    BY <1>1, <2>1 DEF Holes
  <2>3. ~UNCHANGED <<owner, rows, ifile>>
    BY <2>1, <2>2 DEF LiveTips
  <2>4. PICK t \in Threads : Commit(t) /\ Commits(t) /\ Told(t) /\ HasTarget(t)
    BY <1>1, <2>3, Committed
  <2>5. Kept
    BY <1>1 DEF Informed
  <2>6. CASE CommitGrant(t)
    <3>1. PICK y \in Tips :
           /\ LiveTips' \subseteq LiveTips \cup {y}
           /\ \A g \in Files : <<txn[t].tip, g>> \in rows => <<y, g>> \in rows'
           /\ \A v \in rows : v[1] \in LiveTips' => v \in rows'
      BY <2>5, <2>6, GrantMakes
    <3>2. ifile[f] = "delivered" /\ txn[t].op \in {"grant", "transfer"}
      BY <2>1, <2>6 DEF CommitGrant
    <3>3. x = y
      BY <2>1, <2>2, <3>1, <3>2
    <3>4. <<txn[t].tip, f>> \notin rows
      BY <2>1, <3>1, <3>3
    <3>5. ASSUME owner[txn[t].tip] = txn[t].by PROVE <<txn[t].tip, f>> \in Holes
      <4>1. txn[t].tip \in LiveTips
        BY <2>4, <3>2, <3>5 DEF HasTarget, LiveTips
      <4> QED BY <3>2, <3>4, <4>1 DEF Holes
    <3> QED BY <2>1, <2>4, <3>2, <3>5 DEF Told
  <2>7. CASE CommitDelivery(t)
    <3>1. /\ UNCHANGED owner /\ LiveTips' = LiveTips /\ txn[t].op = "deliver"
          /\ rows' = rows \cup (txn[t].tips \X txn[t].files)
          /\ ifile'[f] = IF f \in txn[t].files THEN "delivered" ELSE ifile[f]
      BY <2>7 DEF CommitDelivery, LiveTips
    <3>2. f \in txn[t].files /\ x \notin txn[t].tips
      BY <2>1, <2>2, <3>1
    <3>3. <<"gives", owner[x]>> \in missed[t]
      BY <2>1, <2>4, <3>1, <3>2 DEF Told
    <3> QED BY <2>1, <2>4, <3>1, <3>3
  <2>8. CASE ~CommitGrant(t) /\ ~CommitDelivery(t)
    <3>1. ifile[f] = "delivered"
      BY <2>1, <2>4, <2>8 DEF Commit, CommitRevoke, CommitAttach, CommitCase, CommitRemoval
    <3> QED BY <2>1, <2>2, <2>4, <2>5, <2>8, <3>1, OthersMakeNone
  <2> QED BY <2>6, <2>7, <2>8
<1>2. Informed /\ [Next]_vars =>
        [\A w \in Holes' \ Holes : \E t \in Threads :
           /\ Commits(t)
           /\ \/ txn[t].op = "deliver" /\ <<"gives", owner[w[1]]>> \in missed[t]
              \/ /\ txn[t].op \in {"grant", "transfer"}
                 /\ \/ <<"takes", txn[t].by>> \in missed[t]
                    \/ <<txn[t].tip, w[2]>> \in Holes]_vars
  BY <1>1
<1> QED BY <1>2, InformedInit, InformedNext, PTL DEF Spec, HoleNeedsRace

(* However many threads there are, the last tip of a report that stays is  *)
(* only revoked by somebody whose own was taken meanwhile.                 *)
THEOREM AbandonNeedsRaceAlways == Spec => AbandonNeedsRace
<1>1. ASSUME Informed, [Next]_vars, LiveTips # {}, LiveTips' = {}, Live'
      PROVE  \E t \in Threads :
               Commits(t) /\ txn[t].op = "revoke" /\ <<"takes", txn[t].by>> \in missed[t]
  <2>1. ~UNCHANGED owner
    BY <1>1 DEF LiveTips
  <2>2. PICK t \in Threads : Commit(t) /\ Commits(t) /\ Told(t) /\ HasTarget(t)
    BY <1>1, <2>1, Committed
  <2>3. ~CommitGrant(t)
    BY <1>1, GrantMakes DEF Informed
  <2>4. CommitRevoke(t)
    BY <1>1, <2>1, <2>2, <2>3
       DEF Commit, CommitDelivery, CommitAttach, CommitCase, CommitRemoval, Live
  <2>5. txn[t].op = "revoke" /\ LiveTips' = LiveTips \ {txn[t].tip} /\ txn[t].by \in Users
    BY <2>2, <2>4, TipAssumption DEF CommitRevoke, Drop, LiveTips, HasTarget
  <2>6. <<"takes", txn[t].by>> \in missed[t]
    BY <1>1, <2>2, <2>5 DEF Told, TipsOf, LiveTips
  <2> QED BY <2>2, <2>5, <2>6
<1>2. Informed /\ [Next]_vars =>
        [LiveTips # {} /\ LiveTips' = {} /\ Live' => \E t \in Threads :
           Commits(t) /\ txn[t].op = "revoke" /\ <<"takes", txn[t].by>> \in missed[t]]_vars
  BY <1>1
<1> QED BY <1>2, InformedInit, InformedNext, PTL DEF Spec, AbandonNeedsRace

(* However many threads there are, a closed report gets an attachment only *)
(* when it was closed during the upload.                                   *)
THEOREM LateFileNeedsRaceAlways == Spec => LateFileNeedsRace
<1>1. ASSUME Informed, [Next]_vars, status = "closed", NEW f \in Files, ifile[f] # "new", ifile'[f] = "new"
      PROVE  \E t \in Threads : Commits(t) /\ <<"closes", Nobody>> \in missed[t]
  <2>1. PICK t \in Threads : Commit(t) /\ Commits(t) /\ Told(t)
    BY <1>1, Committed
  <2>2. CommitAttach(t)
    BY <1>1, <2>1
       DEF Commit, CommitGrant, CommitRevoke, CommitDelivery, CommitCase, CommitRemoval
  <2> QED BY <1>1, <2>1, <2>2 DEF CommitAttach, Told
<1>2. Informed /\ [Next]_vars =>
        [status = "closed" /\ (\E f \in Files : ifile[f] # "new" /\ ifile'[f] = "new") =>
           \E t \in Threads : Commits(t) /\ <<"closes", Nobody>> \in missed[t]]_vars
  BY <1>1
<1> QED BY <1>2, InformedInit, InformedNext, PTL DEF Spec, LateFileNeedsRace

(* However many threads there are, the cleaning removes a report before    *)
(* its time only when the deadline moved after the list was made.          *)
THEOREM EarlyRemovalNeedsRaceAlways == Spec => EarlyRemovalNeedsRace
<1>1. Informed =>
        [\A t \in Threads :
           Commits(t) /\ txn[t].op = "clean" /\ Live /\ ~Live' /\ ~due =>
             <<"postpones", Nobody>> \in missed[t]]_vars
  BY DEF Informed, Told
<1> QED BY <1>1, InformedInit, InformedNext, PTL DEF Spec, EarlyRemovalNeedsRace

=============================================================================
