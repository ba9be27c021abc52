-------------------------- MODULE SubmissionProofs --------------------------
(***************************************************************************)
(* What a whistleblower is told of a submission is true, for any number of *)
(* threads and tries; reports are readable while the database is not       *)
(* locked; one thread alone keeps schemas and numbers: Submission, for any *)
(* sessions and versions of the questionnaires.                            *)
(***************************************************************************)
EXTENDS Submission, SequenceTheorems, TLAPS

Working(t) == txn[t].stage # "idle"

(* A submission in work, and nothing else, is waited for; one thread works *)
(* for a session at a time.                                                *)
Turns ==
  /\ \A t \in Threads : Working(t) => (outcome[txn[t].s] = "waiting" <=> txn[t].op = "submit")
  /\ \A t, u \in Threads : Working(t) /\ Working(u) /\ t # u => txn[t].s # txn[u].s
  /\ \A s \in Sessions : memory[s].user[1] = s

(* The inductive invariant for any number of threads. *)
Steady == TypeOK /\ Turns /\ OutcomeIsTrue

-----------------------------------------------------------------------------
(* What the records of threads are. *)

LEMMA IdleIsTxn ==
  /\ Idle \in Txn
  /\ Idle.stage = "idle" /\ Idle.s = Nobody /\ Idle.row = {} /\ Idle.op = "submit"
<1>1. <<"main", First>> \in Schemas
  BY SubmissionAssumption DEF Schemas, Questionnaires
<1>2. 0 \in 0 .. Retries /\ 0 \in Nat
  BY SubmissionAssumption
<1> QED
  BY <1>1, <1>2, SubmissionAssumption DEF Idle, Txn

LEMMA SchemaIsOne == ASSUME TypeOK, NEW op PROVE SchemaFor(op) \in Schemas
BY DEF TypeOK, SchemaFor, Schemas, Questionnaires

(* A thread that has read. *)
LEMMA ReadsGives ==
  ASSUME TypeOK, NEW t \in Threads, NEW op \in Ops, NEW s \in Sessions, NEW k \in 0 .. Retries,
         Reads(t, op, s, k)
  PROVE  /\ txn' \in [Threads -> Txn]
         /\ \A u \in Threads \ {t} : txn'[u] = txn[u]
         /\ txn'[t].stage = "read" /\ txn'[t].op = op /\ txn'[t].s = s /\ txn'[t].row = {}
         /\ txn'[t].schema = SchemaFor(op) /\ txn'[t].n = counter
         /\ txn'[t].found = archived \cap {SchemaFor(op)}
<1> DEFINE schema == SchemaFor(op)
           found  == archived \cap {SchemaFor(op)}
           y == [Idle EXCEPT !.stage = "read", !.op = op, !.s = s, !.try = k, !.schema = schema,
                             !.found = found, !.n = counter]
<1>1. txn \in [Threads -> Txn] /\ txn' = [txn EXCEPT ![t] = y]
  BY DEF Reads, TypeOK
<1>2. schema \in Schemas /\ found \in SUBSET Schemas /\ counter \in Nat
  BY SchemaIsOne DEF TypeOK
<1> HIDE DEF schema, found
<1>3. /\ y \in Txn
      /\ y.stage = "read" /\ y.op = op /\ y.s = s /\ y.row = {}
      /\ y.schema = schema /\ y.n = counter /\ y.found = found
  BY <1>2 DEF Idle, Txn
<1> HIDE DEF y
<1> QED
  BY <1>1, <1>3 DEF schema, found

(* A thread that has ended or is to run again. *)
LEMMA LeavesGives ==
  ASSUME TypeOK, NEW t \in Threads, NEW y \in Txn, txn' = [txn EXCEPT ![t] = y]
  PROVE  /\ txn' \in [Threads -> Txn] /\ txn'[t] = y
         /\ \A u \in Threads \ {t} : txn'[u] = txn[u]
BY DEF TypeOK

LEMMA AgainIsTxn ==
  ASSUME NEW x \in Txn, x.try < Retries
  PROVE  LET y == [Idle EXCEPT !.stage = "again", !.op = x.op, !.s = x.s, !.try = x.try + 1]
         IN y \in Txn /\ y.stage = "again" /\ y.op = x.op /\ y.s = x.s /\ y.row = {}
<1>1. Idle \in Txn
  BY IdleIsTxn
<1>2. x.try + 1 \in 0 .. Retries /\ x.op \in Ops /\ x.s \in Sessions \cup {Nobody}
  BY SubmissionAssumption DEF Txn
<1> QED
  BY <1>1, <1>2 DEF Idle, Txn

-----------------------------------------------------------------------------
(* Every step keeps Steady: steps of others, a thread that begins, one that *)
(* goes on, one that ends.                                                  *)

LEMMA OthersAreSteady ==
  ASSUME Steady, UNCHANGED <<memory, txn, outcome, made>>, reports' \subseteq reports,
         version' \in [Questionnaires -> Versions], archived' \subseteq Schemas, counter' \in Nat
  PROVE  Steady'
<1>1. TypeOK'
  BY DEF Steady, TypeOK
<1>2. Turns'
  BY DEF Steady, Turns, Working
<1>3. OutcomeIsTrue'
  BY DEF Steady, OutcomeIsTrue
<1> QED
  BY <1>1, <1>2, <1>3 DEF Steady

LEMMA BeginsSteady ==
  ASSUME Steady, NEW t \in Threads, NEW op \in Ops, NEW s \in Sessions,
         txn[t] = Idle, Reads(t, op, s, 1), \A u \in Threads : Working(u) => txn[u].s # s,
         UNCHANGED <<version, archived, counter, reports>>,
         memory' \in [Sessions -> Memo], \A v \in Sessions : memory'[v].user[1] = v,
         outcome' \in [Sessions -> {"none", "waiting", "done", "failed"}], made' \in [Sessions -> Nat],
         \A v \in Sessions \ {s} : outcome'[v] = outcome[v] /\ made'[v] = made[v],
         outcome'[s] = "waiting" <=> op = "submit", made'[s] = IF outcome'[s] = "done" THEN 1 ELSE 0
  PROVE  Steady'
<1>1. /\ txn' \in [Threads -> Txn]
      /\ \A u \in Threads \ {t} : txn'[u] = txn[u]
      /\ txn'[t].stage = "read" /\ txn'[t].op = op /\ txn'[t].s = s /\ txn'[t].row = {}
  BY SubmissionAssumption, ReadsGives DEF Steady
<1>2. TypeOK'
  <2>1. \A u \in Threads : Sound(txn'[u])
    BY <1>1, SubmissionAssumption DEF Steady, TypeOK, Sound
  <2> QED
    BY <1>1, <2>1 DEF Steady, TypeOK
<1>3. Turns'
  <2>1. \A u \in Threads : Working(u)' => (outcome'[txn'[u].s] = "waiting" <=> txn'[u].op = "submit")
    <3> SUFFICES ASSUME NEW u \in Threads, Working(u)'
                 PROVE outcome'[txn'[u].s] = "waiting" <=> txn'[u].op = "submit"
      OBVIOUS
    <3>1. CASE u = t
      BY <3>1, <1>1
    <3>2. CASE u # t
      <4>1. txn'[u] = txn[u] /\ Working(u) /\ txn[u] \in Txn
        BY <3>2, <1>1 DEF Working, Steady, TypeOK
      <4>2. txn[u].s \in Sessions
        BY <4>1 DEF Steady, TypeOK, Sound, Txn, Working
      <4> QED
        BY <4>1, <4>2 DEF Steady, Turns
    <3> QED
      BY <3>1, <3>2
  <2>2. \A u, v \in Threads : Working(u)' /\ Working(v)' /\ u # v => txn'[u].s # txn'[v].s
    BY <1>1 DEF Steady, Turns, Working
  <2> QED
    BY <2>1, <2>2 DEF Turns
<1>4. OutcomeIsTrue'
  BY DEF Steady, OutcomeIsTrue
<1> QED
  BY <1>2, <1>3, <1>4 DEF Steady

LEMMA GoesOnSteady ==
  ASSUME Steady, NEW t \in Threads, Working(t), txn' \in [Threads -> Txn],
         \A u \in Threads \ {t} : txn'[u] = txn[u],
         Sound(txn'[t]), txn'[t].s = txn[t].s, txn'[t].op = txn[t].op,
         UNCHANGED <<version, archived, counter, reports, outcome, made>>,
         memory' \in [Sessions -> Memo], \A v \in Sessions : memory'[v].user[1] = v
  PROVE  Steady'
<1>1. TypeOK'
  BY DEF Steady, TypeOK
<1>2. Turns'
  BY DEF Steady, Turns, Working
<1>3. OutcomeIsTrue'
  BY DEF Steady, OutcomeIsTrue
<1> QED
  BY <1>1, <1>2, <1>3 DEF Steady

LEMMA EndsSteady ==
  ASSUME Steady, NEW t \in Threads, Working(t), txn' = [txn EXCEPT ![t] = Idle],
         NEW what \in {"done", "failed"}, Told(txn[t], what),
         made' = IF what = "done" THEN Counted(txn[t]) ELSE made,
         reports' \subseteq reports \cup (IF what = "done" THEN txn[t].row ELSE {}),
         UNCHANGED <<version, memory>>, archived' \subseteq Schemas, counter' \in Nat
  PROVE  Steady'
<1> DEFINE x == txn[t]
<1>1. x \in Txn /\ x.s \in Sessions /\ (outcome[x.s] = "waiting" <=> x.op = "submit") /\ x.row \subseteq Row
  BY DEF Steady, TypeOK, Sound, Turns, Working, Txn
<1>2. /\ txn' \in [Threads -> Txn] /\ txn'[t] = Idle
      /\ \A u \in Threads \ {t} : txn'[u] = txn[u]
  BY IdleIsTxn DEF Steady, TypeOK
<1>3. /\ outcome' \in [Sessions -> {"none", "waiting", "done", "failed"}]
      /\ \A v \in Sessions \ {x.s} : outcome'[v] = outcome[v]
      /\ x.op = "submit" => outcome'[x.s] = what
      /\ x.op # "submit" => outcome'[x.s] = outcome[x.s]
  BY <1>1 DEF Told, Steady, TypeOK
<1>4. /\ made' \in [Sessions -> Nat]
      /\ \A v \in Sessions \ {x.s} : made'[v] = made[v]
      /\ made'[x.s] = IF x.op = "submit" /\ what = "done" THEN made[x.s] + 1 ELSE made[x.s]
  BY <1>1 DEF Counted, Steady, TypeOK
<1>5. reports' \subseteq Row
  BY <1>1 DEF Steady, TypeOK
<1>6. TypeOK'
  <2>1. \A u \in Threads : Sound(txn'[u])
    BY <1>2, IdleIsTxn DEF Sound, Steady, TypeOK
  <2> QED
    BY <1>2, <1>3, <1>4, <1>5, <2>1 DEF Steady, TypeOK
<1>7. Turns'
  <2>1. \A u \in Threads : Working(u)' => u # t /\ Working(u) /\ txn'[u] = txn[u]
    BY <1>2, IdleIsTxn DEF Working
  <2>2. \A u \in Threads : Working(u) => txn[u].s \in Sessions
    BY DEF Steady, TypeOK, Sound, Txn, Working
  <2>3. \A u \in Threads : Working(u)' => (outcome'[txn'[u].s] = "waiting" <=> txn'[u].op = "submit")
    BY <2>1, <2>2, <1>3 DEF Steady, Turns
  <2>4. \A u, v \in Threads : Working(u)' /\ Working(v)' /\ u # v => txn'[u].s # txn'[v].s
    BY <2>1 DEF Steady, Turns
  <2> QED
    BY <2>3, <2>4 DEF Steady, Turns
<1>8. OutcomeIsTrue'
  <2>1. x.op = "submit" => made[x.s] = 0
    BY <1>1 DEF Steady, OutcomeIsTrue
  <2>2. x.op # "submit" => made[x.s] = IF outcome[x.s] = "done" THEN 1 ELSE 0
    BY <1>1, <1>3 DEF Steady, OutcomeIsTrue
  <2>3. made'[x.s] = IF outcome'[x.s] = "done" THEN 1 ELSE 0
    BY <2>1, <2>2, <1>3, <1>4
  <2> QED
    BY <2>3, <1>3, <1>4 DEF Steady, OutcomeIsTrue
<1> QED
  BY <1>6, <1>7, <1>8 DEF Steady

-----------------------------------------------------------------------------
(* What a thread writes. *)

LEMMA EncryptedIsMemo ==
  ASSUME NEW m \in Memo, NEW id \in Ids
  PROVE  /\ Encrypted(m, id) \in Memo /\ Encrypted(m, id).user = id
         /\ Encrypted(m, id).files = Append(m.files, id)
         /\ Append(m.files, id) \in Seq(Ids) /\ Append(m.later, id) \in Seq(Ids)
<1>1. m.files \in Seq(Ids) /\ m.later \in Seq(Ids)
  BY DEF Memo
<1>2. Append(m.files, id) \in Seq(Ids) /\ Append(m.later, id) \in Seq(Ids)
  BY <1>1
<1> QED
  BY <1>2 DEF Encrypted, Memo

(* What holds of a thread before it writes. *)
LEMMA Reader ==
  ASSUME Steady, NEW t \in Threads, txn[t].stage = "read"
  PROVE  /\ txn[t] \in Txn /\ txn[t].s \in Sessions /\ memory[txn[t].s] \in Memo
         /\ NewId(txn[t], memory[txn[t].s]) \in Ids /\ memory[txn[t].s].user \in Ids
         /\ Progressive(txn[t]) \in Nat
<1>1. txn[t] \in Txn /\ txn[t].s \in Sessions
  BY DEF Steady, TypeOK, Sound, Txn
<1>2. txn[t].try \in 0 .. Retries /\ txn[t].n \in Nat /\ counter \in Nat
  BY <1>1 DEF Txn, Steady, TypeOK
<1>3. memory[txn[t].s] \in Memo
  BY <1>1 DEF Steady, TypeOK
<1>4. memory[txn[t].s].user \in Ids
  BY <1>3 DEF Memo
<1>5. NewId(txn[t], memory[txn[t].s]) \in Ids
  BY <1>1, <1>4 DEF Ids, NewId
<1> QED
  BY <1>1, <1>2, <1>3, <1>4, <1>5 DEF Progressive

LEMMA ReportIsRow ==
  ASSUME Steady, NEW t \in Threads, txn[t].stage = "read"
  PROVE  LET x == txn[t]  m == memory[x.s]  r == Report(x, m) IN
         /\ r \in Row /\ r.id = NewId(x, m) /\ r.number = Progressive(x)
         /\ r.schemas = {x.schema} /\ r.files = Append(m.files, r.id) /\ r.later = <<>>
         /\ r.identity = m.identity
<1> DEFINE x == txn[t]  m == memory[x.s]  id == NewId(x, m)  n == Progressive(x)
           files == Encrypted(m, id).files
<1>1. x \in Txn /\ m \in Memo /\ id \in Ids /\ n \in Nat
  BY Reader
<1>2. files \in Seq(Ids) /\ files = Append(m.files, id)
  BY <1>1, EncryptedIsMemo
<1>3. x.schema \in Schemas /\ m.identity \in BOOLEAN /\ <<>> \in Seq(Ids)
  BY <1>1, EmptySeq DEF Txn, Memo
<1>4. Report(x, m) = [id |-> id, number |-> n, schemas |-> {x.schema}, files |-> files,
                      later |-> <<>>, identity |-> m.identity]
  BY DEF Report
<1> HIDE DEF m, id, n, files
<1>5. Report(x, m) \in Row
  BY <1>1, <1>2, <1>3, <1>4 DEF Row
<1> DEFINE r == Report(x, m)
<1>6. /\ r.id = id /\ r.number = n /\ r.schemas = {x.schema} /\ r.files = files
      /\ r.later = <<>> /\ r.identity = m.identity
  BY <1>4
<1> HIDE DEF r
<1>7. r.files = Append(m.files, r.id)
  BY <1>2, <1>6
<1> QED
  BY <1>5, <1>6, <1>7 DEF m, id, n, r

(* The report of a session whose transaction finds no conflict. *)
LEMMA OfGives ==
  ASSUME Steady, NEW s \in Sessions
  PROVE  \A r \in Of(s) : r \in Row /\ r \in reports /\ r.id = memory[s].user /\ r.id[1] = s
BY DEF Of, Steady, TypeOK, Turns

LEMMA AnsweredIsRow ==
  ASSUME NEW r \in Row, NEW c \in Schemas
  PROVE  LET y == Answered(r, c)
         IN  /\ y \in Row /\ y.id = r.id /\ y.number = r.number /\ y.schemas = r.schemas \cup {c}
             /\ y.files = r.files /\ y.later = r.later /\ y.identity = r.identity
<1>1. r.schemas \cup {c} \in SUBSET Schemas
  BY DEF Row
<1> QED
  BY <1>1 DEF Row, Answered

LEMMA AttachedIsRow ==
  ASSUME NEW r \in Row, NEW f \in Seq(Ids)
  PROVE  LET y == Attached(r, f)
         IN  /\ y \in Row /\ y.id = r.id /\ y.number = r.number /\ y.schemas = r.schemas
             /\ y.files = r.files /\ y.later = f /\ y.identity = r.identity
BY DEF Row, Attached

(* A thread that has written. *)
Written(x, n, row) == [x EXCEPT !.stage = "written", !.n = n, !.row = row]

LEMMA WrittenIsTxn ==
  ASSUME NEW x \in Txn, NEW n \in Nat, NEW row \in SUBSET Row
  PROVE  LET y == Written(x, n, row)
         IN  /\ y \in Txn /\ y.stage = "written" /\ y.s = x.s /\ y.op = x.op /\ y.n = n
             /\ y.row = row /\ y.schema = x.schema /\ y.found = x.found
BY DEF Txn, Written

Put(f, a, v) == [f EXCEPT ![a] = v]

(* What a write leaves. *)
Wrote(t, n, row, m) ==
  /\ Steady'
  /\ \A u \in Threads \ {t} : txn'[u] = txn[u]
  /\ txn'[t].stage = "written" /\ txn'[t].s = txn[t].s /\ txn'[t].op = txn[t].op
  /\ txn'[t].n = n /\ txn'[t].row = row
  /\ txn'[t].schema = txn[t].schema /\ txn'[t].found = txn[t].found
  /\ memory'[txn[t].s] = m
  /\ \A v \in Sessions \ {txn[t].s} : memory'[v] = memory[v]

LEMMA WritesGive ==
  ASSUME Steady, NEW t \in Threads, txn[t].stage = "read", NEW n \in Nat, NEW row \in SUBSET Row,
         row # {}, \A r \in row : r.id[1] = txn[t].s,
         txn' = Put(txn, t, Written(txn[t], n, row)),
         UNCHANGED <<version, archived, counter, reports, outcome, made>>,
         NEW m \in Memo, m.user[1] = txn[t].s, memory' = Put(memory, txn[t].s, m)
  PROVE  Wrote(t, n, row, m)
<1> DEFINE x == txn[t]
           y == Written(x, n, row)
<1>1. x \in Txn /\ x.s \in Sessions /\ Nobody \notin Sessions
  BY Reader, SubmissionAssumption
<1>2. /\ y \in Txn /\ y.stage = "written" /\ y.s = x.s /\ y.op = x.op /\ y.n = n
      /\ y.row = row /\ y.schema = x.schema /\ y.found = x.found
  BY <1>1, WrittenIsTxn
<1>3. txn \in [Threads -> Txn] /\ txn' = [txn EXCEPT ![t] = y]
  BY DEF Steady, TypeOK, Put
<1> HIDE DEF y
<1>4. txn' \in [Threads -> Txn] /\ txn'[t] = y /\ \A u \in Threads \ {t} : txn'[u] = txn[u]
  BY <1>2, <1>3
<1>5. Sound(y)
  BY <1>1, <1>2 DEF Sound
<1>6. /\ memory' \in [Sessions -> Memo] /\ memory'[x.s] = m
      /\ \A v \in Sessions \ {x.s} : memory'[v] = memory[v]
  BY <1>1 DEF Steady, TypeOK, Put
<1>7. \A v \in Sessions : memory'[v].user[1] = v
  BY <1>6 DEF Steady, Turns
<1>8. Steady'
  BY <1>2, <1>4, <1>5, <1>6, <1>7, GoesOnSteady DEF Working
<1> QED
  BY <1>2, <1>4, <1>6, <1>8 DEF Wrote

LEMMA WriteGives ==
  ASSUME Steady, NEW t \in Threads, Write(t)
  PROVE  LET x == txn[t]  y == txn'[t]  m == memory[x.s] IN
         /\ Steady'
         /\ x.stage = "read" /\ \A u \in Threads \ {t} : txn'[u] = txn[u]
         /\ y.stage = "written" /\ y.s = x.s /\ y.op = x.op
         /\ y.schema = x.schema /\ y.found = x.found
         /\ \A v \in Sessions \ {x.s} : memory'[v] = memory[v]
         /\ memory'[x.s].user[2] = 0 => memory'[x.s].files = m.files /\ m.user[2] = 0
         /\ UNCHANGED <<version, archived, counter, reports, outcome, made>>
         /\ \/ x.op = "submit" /\ y.n = Progressive(x) /\ y.row = {Report(x, m)}
            \/ x.op = "additional" /\ y.row = {Answered(r, x.schema) : r \in Of(x.s)}
            \/ x.op = "attach" /\ y.row = {Attached(r, Append(m.later, m.user)) : r \in Of(x.s)}
<1> DEFINE x == txn[t]  m == memory[x.s]  id == NewId(x, m)
<1>1. /\ x.stage = "read" /\ ~Conflict(x)
      /\ WriteReport(t) \/ WriteAnswers(t) \/ WriteFile(t)
      /\ UNCHANGED <<version, archived, counter, reports, outcome, made>>
  BY DEF Write
<1>2. /\ x \in Txn /\ x.s \in Sessions /\ m \in Memo /\ id \in Ids /\ m.user \in Ids
      /\ Progressive(x) \in Nat /\ x.n \in Nat /\ x.schema \in Schemas /\ m.user[1] = x.s
  BY <1>1, Reader DEF Txn, Steady, Turns
<1>3. x.op # "submit" => Of(x.s) # {}
  BY <1>1 DEF Conflict
<1>4. txn \in [Threads -> Txn] /\ memory \in [Sessions -> Memo]
  BY DEF Steady, TypeOK
<1>5. \A r \in Of(x.s) : r \in Row /\ r.id[1] = x.s
  BY <1>2, OfGives
<1>6. ASSUME NEW n \in Nat, NEW row \in SUBSET Row, row # {}, \A r \in row : r.id[1] = x.s,
             txn' = Put(txn, t, Written(x, n, row)),
             NEW k \in Memo, k.user[1] = x.s, memory' = Put(memory, x.s, k)
      PROVE  Wrote(t, n, row, k)
  <2>1. x.stage = "read" /\ UNCHANGED <<version, archived, counter, reports, outcome, made>>
    BY <1>1
  <2> QED
    BY <1>6, <2>1, WritesGive
<1>7. CASE WriteReport(t)
  <2> DEFINE row == {Report(x, m)}
  <2>1. Report(x, m) \in Row /\ Report(x, m).id = id
    BY <1>1, ReportIsRow
  <2>2. Encrypted(m, id) \in Memo /\ Encrypted(m, id).user = id /\ id[1] = x.s
    BY <1>2, EncryptedIsMemo DEF NewId
  <2>3. memory' = Put(memory, x.s, Encrypted(m, id))
    BY <1>7 DEF WriteReport, Put
  <2>4. txn' = Put(txn, t, Written(x, Progressive(x), row))
    BY <1>4, <1>7 DEF WriteReport, Put, Written
  <2>5. x.op = "submit"
    BY <1>7 DEF WriteReport
  <2>6. row \in SUBSET Row /\ row # {} /\ \A r \in row : r.id[1] = x.s
    BY <2>1, <2>2
  <2>7. Wrote(t, Progressive(x), row, Encrypted(m, id))
    <3> HIDE DEF row, x, m, id
    <3> QED
      BY <1>2, <1>6, <2>2, <2>3, <2>4, <2>6
  <2>8. Encrypted(m, id).user[2] # 0
    <3>1. m.user[2] \in Nat
      BY <1>2 DEF Ids
    <3> QED
      BY <2>2, <3>1 DEF NewId
  <2> QED
    BY <1>1, <2>5, <2>7, <2>8 DEF Wrote
<1>8. CASE WriteAnswers(t)
  <2> DEFINE row == {Answered(r, x.schema) : r \in Of(x.s)}
  <2>1. x.op = "additional"
    BY <1>8 DEF WriteAnswers, Put
  <2>2. \A r \in Of(x.s) : Answered(r, x.schema) \in Row /\ Answered(r, x.schema).id[1] = x.s
    BY <1>2, <1>5, AnsweredIsRow
  <2>3. row \in SUBSET Row /\ row # {} /\ \A r \in row : r.id[1] = x.s
    BY <1>3, <2>1, <2>2
  <2>4. memory' = Put(memory, x.s, m)
    BY <1>4, <1>8 DEF WriteAnswers, Put
  <2>5. txn' = Put(txn, t, Written(x, x.n, row))
    BY <1>2, <1>4, <1>8 DEF WriteAnswers, Put, Written, Txn
  <2>6. Wrote(t, x.n, row, m)
    <3> HIDE DEF row, x, m, id
    <3> QED
      BY <1>2, <1>6, <2>3, <2>4, <2>5
  <2> QED
    BY <1>1, <2>1, <2>6 DEF Wrote
<1>9. CASE WriteFile(t)
  <2> DEFINE later == Append(m.later, m.user)
             row == {Attached(r, later) : r \in Of(x.s)}
             k == [m EXCEPT !.later = later]
  <2>1. x.op = "attach"
    BY <1>9 DEF WriteFile, Put
  <2>2. later \in Seq(Ids)
    BY <1>2, EncryptedIsMemo
  <2>3. \A r \in Of(x.s) : Attached(r, later) \in Row /\ Attached(r, later).id[1] = x.s
    <3> HIDE DEF later
    <3> QED
      BY <1>5, <2>2, AttachedIsRow
  <2>4. row \in SUBSET Row /\ row # {} /\ \A r \in row : r.id[1] = x.s
    BY <1>3, <2>1, <2>3
  <2>5. k \in Memo /\ k.user = m.user /\ k.files = m.files
    <3> HIDE DEF later, m
    <3> QED
      BY <1>2, <2>2 DEF Memo
  <2>6. memory' = Put(memory, x.s, k)
    BY <1>4, <1>9 DEF WriteFile, Put
  <2>7. txn' = Put(txn, t, Written(x, x.n, row))
    BY <1>2, <1>4, <1>9 DEF WriteFile, Put, Written, Txn
  <2>8. Wrote(t, x.n, row, k)
    <3> HIDE DEF row, x, m, id, k
    <3> QED
      BY <1>2, <1>6, <2>4, <2>5, <2>6, <2>7
  <2> QED
    BY <1>1, <2>1, <2>5, <2>8 DEF Wrote
<1> QED
  BY <1>1, <1>7, <1>8, <1>9

-----------------------------------------------------------------------------
(* The other actions of a thread. *)

LEMMA SubmitGives ==
  ASSUME Steady, NEW t \in Threads, NEW s \in Sessions, Submit(t, s)
  PROVE  /\ Steady'
         /\ \A v \in Sessions : /\ memory'[v].user = memory[v].user /\ memory'[v].files = memory[v].files
                                /\ memory'[v].later = memory[v].later
                                /\ memory'[v].identity = IF v = s THEN TRUE ELSE memory[v].identity
<1>1. /\ txn[t] = Idle /\ Calm(s) /\ Reads(t, "submit", s, 1)
      /\ outcome' = [outcome EXCEPT ![s] = "waiting"] /\ made' = [made EXCEPT ![s] = 0]
      /\ UNCHANGED <<version, archived, counter, reports>> /\ "submit" \in Ops
  BY SubmissionAssumption DEF Submit
<1>2. \A u \in Threads : Working(u) => txn[u].s # s
  BY <1>1 DEF Calm
<1>3. /\ outcome' \in [Sessions -> {"none", "waiting", "done", "failed"}] /\ made' \in [Sessions -> Nat]
      /\ \A v \in Sessions \ {s} : outcome'[v] = outcome[v] /\ made'[v] = made[v]
      /\ outcome'[s] = "waiting" /\ made'[s] = 0
  BY <1>1 DEF Steady, TypeOK
<1> DEFINE k == [memory[s] EXCEPT !.identity = TRUE]
<1>4. /\ k \in Memo /\ k.user = memory[s].user /\ k.files = memory[s].files
      /\ k.identity = TRUE /\ k.later = memory[s].later
  <2>1. PICK m \in Memo : m = memory[s]
    BY DEF Steady, TypeOK
  <2>2. LET y == [m EXCEPT !.identity = TRUE]
        IN  /\ y \in Memo /\ y.user = m.user /\ y.files = m.files
            /\ y.identity = TRUE /\ y.later = m.later
    BY DEF Memo
  <2> QED
    BY <2>1, <2>2
<1>5. memory \in [Sessions -> Memo] /\ memory' = [memory EXCEPT ![s] = k]
  BY DEF Submit, Steady, TypeOK
<1> HIDE DEF k
<1>6. /\ memory' \in [Sessions -> Memo] /\ memory'[s] = k
      /\ \A v \in Sessions \ {s} : memory'[v] = memory[v]
  BY <1>4, <1>5
<1>7. \A v \in Sessions : memory'[v].user[1] = v
  BY <1>4, <1>6 DEF Steady, Turns
<1>8. Steady'
  BY <1>1, <1>2, <1>3, <1>6, <1>7, BeginsSteady
<1> QED
  BY <1>4, <1>6, <1>8

LEMMA AddGives ==
  ASSUME Steady, NEW t \in Threads, NEW s \in Sessions, NEW op \in Ops, Add(t, op, s)
  PROVE  /\ Steady'
         /\ \A v \in Sessions : /\ memory'[v].files = memory[v].files /\ memory'[v].user = memory[v].user
                                /\ memory'[v].identity = memory[v].identity
                                /\ memory'[v].later \in {memory[v].later, <<>>}
         /\ op = "attach" => memory'[s].later = <<>>
<1>1. /\ op # "submit" /\ txn[t] = Idle /\ Of(s) # {} /\ Calm(s)
      /\ Reads(t, op, s, 1) /\ UNCHANGED <<version, archived, counter, reports, outcome, made>>
      /\ memory' = IF op = "attach" THEN [memory EXCEPT ![s].later = <<>>] ELSE memory
  BY DEF Add
<1>2. outcome[s] # "waiting" /\ \A u \in Threads : txn[u].s # s
  BY <1>1 DEF Calm
<1> DEFINE k == [memory[s] EXCEPT !.later = <<>>]
<1>3. /\ k \in Memo /\ k.user = memory[s].user /\ k.files = memory[s].files
      /\ k.identity = memory[s].identity /\ k.later = <<>>
  <2>1. PICK m \in Memo : m = memory[s]
    BY DEF Steady, TypeOK
  <2>2. LET y == [m EXCEPT !.later = <<>>]
        IN  /\ y \in Memo /\ y.user = m.user /\ y.files = m.files
            /\ y.identity = m.identity /\ y.later = <<>>
    BY EmptySeq DEF Memo
  <2> QED
    BY <2>1, <2>2
<1>4. memory \in [Sessions -> Memo] /\ memory' = IF op = "attach" THEN [memory EXCEPT ![s] = k] ELSE memory
  BY <1>1 DEF Steady, TypeOK
<1> HIDE DEF k
<1>5. /\ memory' \in [Sessions -> Memo]
      /\ \A v \in Sessions \ {s} : memory'[v] = memory[v]
      /\ memory'[s] = IF op = "attach" THEN k ELSE memory[s]
  BY <1>3, <1>4
<1>6. \A v \in Sessions : memory'[v].user[1] = v
  BY <1>3, <1>5 DEF Steady, Turns
<1>7. \A v \in Sessions : outcome'[v] = outcome[v] /\ made'[v] = made[v]
  BY <1>1
<1>8. /\ outcome' \in [Sessions -> {"none", "waiting", "done", "failed"}] /\ made' \in [Sessions -> Nat]
      /\ outcome'[s] # "waiting" /\ made'[s] = IF outcome'[s] = "done" THEN 1 ELSE 0
  BY <1>1, <1>2 DEF Steady, TypeOK, OutcomeIsTrue
<1>9. Steady'
  BY <1>1, <1>2, <1>5, <1>6, <1>7, <1>8, BeginsSteady DEF Working
<1> QED
  BY <1>3, <1>5, <1>9

LEMMA AgainGives ==
  ASSUME Steady, NEW t \in Threads, ReadAgain(t)
  PROVE  Steady'
<1>1. /\ txn[t].stage = "again" /\ Reads(t, txn[t].op, txn[t].s, txn[t].try)
      /\ UNCHANGED <<version, archived, counter, reports, memory, outcome, made>>
  BY DEF ReadAgain
<1>2. txn[t].op \in Ops /\ txn[t].s \in Sessions /\ txn[t].try \in 0 .. Retries
  BY <1>1 DEF Steady, TypeOK, Sound, Txn
<1>3. /\ txn' \in [Threads -> Txn] /\ \A u \in Threads \ {t} : txn'[u] = txn[u]
      /\ txn'[t].stage = "read" /\ txn'[t].op = txn[t].op /\ txn'[t].s = txn[t].s /\ txn'[t].row = {}
  BY <1>1, <1>2, ReadsGives DEF Steady
<1>4. Sound(txn'[t])
  BY <1>2, <1>3, SubmissionAssumption DEF Sound
<1>5. memory' \in [Sessions -> Memo] /\ \A v \in Sessions : memory'[v].user[1] = v
  BY <1>1 DEF Steady, TypeOK, Turns
<1> QED
  BY <1>1, <1>3, <1>4, <1>5, GoesOnSteady DEF Working

LEMMA RefuseGives ==
  ASSUME Steady, NEW t \in Threads, Refuse(t)
  PROVE  Steady'
<1>1. /\ txn[t].stage = "read" /\ txn' = [txn EXCEPT ![t] = Idle] /\ Told(txn[t], "failed")
      /\ UNCHANGED <<version, archived, counter, reports, memory, made>>
  BY DEF Refuse
<1> QED
  BY <1>1, EndsSteady DEF Working, Steady, TypeOK

LEMMA CollideGives ==
  ASSUME Steady, NEW t \in Threads, Collide(t)
  PROVE  Steady'
<1>1. /\ txn[t].stage = "written" /\ txn' = [txn EXCEPT ![t] = Idle] /\ Told(txn[t], "failed")
      /\ UNCHANGED <<version, archived, counter, reports, memory, made>>
  BY DEF Collide
<1> QED
  BY <1>1, EndsSteady DEF Working, Steady, TypeOK

LEMMA WaitGives ==
  ASSUME Steady, NEW t \in Threads, Wait(t)
  PROVE  Steady'
<1> DEFINE x == txn[t]
           y == [Idle EXCEPT !.stage = "again", !.op = x.op, !.s = x.s, !.try = x.try + 1]
<1>1. /\ x.stage \in {"read", "written"} /\ AfterLocked(t) /\ x \in Txn
      /\ UNCHANGED <<version, archived, counter, reports, memory, made>>
  BY DEF Wait, Steady, TypeOK
<1>2. CASE x.try < Retries
  <2>1. txn' = [txn EXCEPT ![t] = y] /\ outcome' = outcome
    BY <1>1, <1>2 DEF AfterLocked
  <2>2. y \in Txn /\ y.stage = "again" /\ y.op = x.op /\ y.s = x.s /\ y.row = {}
    BY <1>1, <1>2, AgainIsTxn
  <2> HIDE DEF y
  <2>3. /\ txn' \in [Threads -> Txn] /\ txn'[t] = y
        /\ \A u \in Threads \ {t} : txn'[u] = txn[u]
    BY <2>1, <2>2, LeavesGives DEF Steady
  <2>4. Sound(y)
    BY <1>1, <2>2 DEF Sound, Steady, TypeOK
  <2>5. memory' \in [Sessions -> Memo] /\ \A v \in Sessions : memory'[v].user[1] = v
    BY <1>1 DEF Steady, TypeOK, Turns
  <2> QED
    BY <1>1, <2>1, <2>2, <2>3, <2>4, <2>5, GoesOnSteady DEF Working
<1>3. CASE ~(x.try < Retries)
  <2>1. txn' = [txn EXCEPT ![t] = Idle] /\ Told(x, "failed")
    BY <1>1, <1>3 DEF AfterLocked
  <2> QED
    BY <1>1, <2>1, EndsSteady DEF Working, Steady, TypeOK
<1> QED
  BY <1>2, <1>3

LEMMA CommitGives ==
  ASSUME Steady, NEW t \in Threads, Commit(t)
  PROVE  Steady' /\ reports' \subseteq reports \cup txn[t].row
<1> DEFINE x == txn[t]
<1>1. /\ x.stage = "written" /\ reports' = Stored(x) /\ made' = Counted(x)
      /\ counter' = IF x.op = "submit" THEN x.n ELSE counter
      /\ archived' = IF Archives(x) THEN archived \cup {x.schema} ELSE archived
      /\ txn' = [txn EXCEPT ![t] = Idle] /\ Told(x, "done") /\ UNCHANGED <<version, memory>>
  BY DEF Commit
<1>2. x.n \in Nat /\ x.schema \in Schemas /\ counter \in Nat /\ archived \subseteq Schemas
  BY DEF Steady, TypeOK, Txn
<1>3. counter' \in Nat /\ archived' \subseteq Schemas
  BY <1>1, <1>2
<1>4. reports' \subseteq reports \cup x.row
  BY <1>1 DEF Stored
<1> QED
  BY <1>1, <1>3, <1>4, EndsSteady DEF Working

LEMMA RestGives ==
  ASSUME Steady,
         \/ \E expired \in SUBSET reports : Clean(expired)
         \/ \E r \in reports : Delete(r)
         \/ \E q \in Questionnaires, v \in Versions : Edit(q, v)
         \/ UNCHANGED vars
  PROVE  Steady' /\ reports' \subseteq reports /\ UNCHANGED <<memory, txn, outcome, made>>
<1>1. /\ UNCHANGED <<memory, txn, outcome, made, counter>> /\ reports' \subseteq reports
      /\ archived' \subseteq archived
      /\ version' = version \/ \E q \in Questionnaires, v \in Versions : version' = [version EXCEPT ![q] = v]
  BY DEF Clean, Delete, Edit, vars
<1>2. version' \in [Questionnaires -> Versions] /\ archived' \subseteq Schemas /\ counter' \in Nat
  BY <1>1 DEF Steady, TypeOK
<1> QED
  BY <1>1, <1>2, OthersAreSteady

LEMMA SteadyInit == ASSUME Init PROVE Steady
<1>1. /\ version \in [Questionnaires -> Versions] /\ archived = {} /\ counter = 0 /\ reports = {}
      /\ outcome \in [Sessions -> {"none"}] /\ made \in [Sessions -> {0}]
  BY SubmissionAssumption DEF Init
<1>2. txn \in [Threads -> Txn] /\ \A t \in Threads : txn[t] = Idle
  BY IdleIsTxn DEF Init
<1>3. memory \in [Sessions -> Memo] /\ \A s \in Sessions : memory[s].user[1] = s
  <2>1. ASSUME NEW s \in Sessions
        PROVE  LET m == [user |-> <<s, 0>>, identity |-> TRUE, files |-> <<>>, later |-> <<>>]
               IN  m \in Memo /\ m.user[1] = s
    <3>1. <<s, 0>> \in Ids /\ <<>> \in Seq(Ids)
      BY EmptySeq, SubmissionAssumption DEF Ids
    <3> QED
      BY <3>1 DEF Memo
  <2> QED
    BY <2>1 DEF Init
<1>4. TypeOK
  <2>1. \A t \in Threads : Sound(txn[t])
    BY <1>2, IdleIsTxn DEF Sound
  <2> QED
    BY <1>1, <1>2, <1>3, <2>1 DEF TypeOK
<1>5. Turns
  BY <1>1, <1>2, <1>3, IdleIsTxn DEF Turns, Working
<1>6. OutcomeIsTrue
  BY <1>1 DEF OutcomeIsTrue
<1> QED
  BY <1>4, <1>5, <1>6 DEF Steady

-----------------------------------------------------------------------------
(* Readable reports, while no transaction runs twice.  A session that has  *)
(* written no report has the bare metadata of its files, each submission   *)
(* begins with the identity, and a file that is sent later with its bare   *)
(* metadata.                                                               *)
Readable(r) == /\ r.id[2] = 1 => r.files = <<r.id>>
               /\ r.later \in {<<>>, <<r.id>>} /\ r.identity

Bare(m) == m.user[2] = 0 => m.files = <<>>

Clear(x) ==
  /\ x.stage # "again"
  /\ x.stage = "read" /\ x.op = "submit" => memory[x.s].identity
  /\ x.stage = "read" /\ x.op = "attach" => memory[x.s].later = <<>>
  /\ \A r \in x.row : Readable(r)

Opens ==
  /\ \A s \in Sessions : Bare(memory[s])
  /\ \A t \in Threads : Clear(txn[t])
  /\ \A r \in reports : Readable(r)

LEMMA OpensInit == ASSUME Init PROVE Opens
<1>1. reports = {} /\ \A t \in Threads : txn[t] = Idle
  BY DEF Init
<1>2. \A s \in Sessions : memory[s].files = <<>> /\ memory[s].identity
  BY DEF Init
<1> QED
  BY <1>1, <1>2, IdleIsTxn DEF Opens, Clear, Bare

LEMMA OpensSubmit ==
  ASSUME Steady, Opens, NEW t \in Threads, NEW s \in Sessions, Submit(t, s)
  PROVE  Opens'
<1>1. Reads(t, "submit", s, 1) /\ UNCHANGED reports
  BY DEF Submit
<1>2. /\ \A u \in Threads \ {t} : txn'[u] = txn[u]
      /\ txn'[t].stage = "read" /\ txn'[t].op = "submit" /\ txn'[t].s = s /\ txn'[t].row = {}
  BY <1>1, SubmissionAssumption, ReadsGives DEF Steady
<1>3. \A v \in Sessions : /\ memory'[v].user = memory[v].user /\ memory'[v].files = memory[v].files
                          /\ memory'[v].later = memory[v].later
                          /\ memory'[v].identity = IF v = s THEN TRUE ELSE memory[v].identity
  BY SubmitGives
<1>4. \A v \in Sessions : Bare(memory'[v])
  BY <1>3 DEF Opens, Bare
<1>5. \A u \in Threads : Working(u) => txn[u].s \in Sessions
  BY DEF Steady, TypeOK, Sound, Txn, Working
<1>6. ASSUME NEW u \in Threads \ {t} PROVE Clear(txn[u])'
  <2>1. txn'[u] = txn[u] /\ Clear(txn[u])
    BY <1>2 DEF Opens
  <2>2. Working(u) => /\ memory[txn[u].s].identity => memory'[txn[u].s].identity
                      /\ memory'[txn[u].s].later = memory[txn[u].s].later
    BY <1>3, <1>5
  <2> QED
    BY <2>1, <2>2 DEF Clear, Working
<1>7. Clear(txn[t])'
  BY <1>2, <1>3 DEF Clear
<1> QED
  BY <1>1, <1>4, <1>6, <1>7 DEF Opens

LEMMA OpensAdd ==
  ASSUME Steady, Opens, NEW t \in Threads, NEW s \in Sessions, NEW op \in Ops, Add(t, op, s)
  PROVE  Opens'
<1>1. op # "submit" /\ Reads(t, op, s, 1) /\ UNCHANGED <<reports, outcome>>
  BY DEF Add
<1>2. /\ \A u \in Threads \ {t} : txn'[u] = txn[u]
      /\ txn'[t].stage = "read" /\ txn'[t].op = op /\ txn'[t].s = s /\ txn'[t].row = {}
  BY <1>1, SubmissionAssumption, ReadsGives DEF Steady
<1>3. /\ \A v \in Sessions : /\ memory'[v].files = memory[v].files /\ memory'[v].user = memory[v].user
                             /\ memory'[v].identity = memory[v].identity
                             /\ memory'[v].later \in {memory[v].later, <<>>}
      /\ op = "attach" => memory'[s].later = <<>>
  BY AddGives
<1>4. \A v \in Sessions : Bare(memory'[v])
  BY <1>3 DEF Opens, Bare
<1>5. \A u \in Threads : Working(u) => txn[u].s \in Sessions
  BY DEF Steady, TypeOK, Sound, Txn, Working
<1>6. \A u \in Threads \ {t} : Clear(txn[u])'
  BY <1>2, <1>3, <1>4, <1>5 DEF Opens, Clear, Working
<1>7. Clear(txn[t])'
  BY <1>1, <1>2, <1>3 DEF Clear
<1> QED
  BY <1>1, <1>4, <1>6, <1>7 DEF Opens

LEMMA OpensWrite ==
  ASSUME Steady, Opens, NEW t \in Threads, Write(t)
  PROVE  Opens'
<1> DEFINE x == txn[t]  y == txn'[t]  m == memory[x.s]
<1>1. /\ x.stage = "read" /\ \A u \in Threads \ {t} : txn'[u] = txn[u]
      /\ y.stage = "written" /\ y.s = x.s /\ y.op = x.op
      /\ \A v \in Sessions \ {x.s} : memory'[v] = memory[v]
      /\ memory'[x.s].user[2] = 0 => memory'[x.s].files = m.files /\ m.user[2] = 0
      /\ UNCHANGED <<reports, outcome>>
      /\ \/ x.op = "submit" /\ y.n = Progressive(x) /\ y.row = {Report(x, m)}
         \/ x.op = "additional" /\ y.row = {Answered(r, x.schema) : r \in Of(x.s)}
         \/ x.op = "attach" /\ y.row = {Attached(r, Append(m.later, m.user)) : r \in Of(x.s)}
  BY WriteGives
<1>2. /\ x \in Txn /\ x.s \in Sessions /\ m \in Memo /\ x.schema \in Schemas
      /\ m.user \in Ids
  BY <1>1, Reader DEF Txn
<1>3. \A r \in Of(x.s) : r \in Row /\ Readable(r) /\ r.id = m.user
  BY <1>2, OfGives DEF Opens
<1>4. \A r \in y.row : Readable(r)
  <2>1. CASE x.op = "submit"
    <3> DEFINE r == Report(x, m)
    <3>1. Bare(m) /\ m.identity
      BY <1>1, <1>2, <2>1 DEF Opens, Clear
    <3>2. /\ r.files = Append(m.files, r.id) /\ r.later = <<>> /\ r.identity = m.identity
          /\ r.id = NewId(x, m)
      BY <1>1, ReportIsRow
    <3>a. m.user[2] \in Nat
      BY <1>2 DEF Ids
    <3> HIDE DEF r, x, m
    <3>b. r.id[2] = m.user[2] + 1
      BY <3>2 DEF NewId
    <3>c. r.id[2] = 1 => m.user[2] = 0
      BY <3>a, <3>b
    <3>d. r.id[2] = 1 => m.files = <<>>
      BY <3>1, <3>c DEF Bare
    <3>3. r.id[2] = 1 => r.files = <<r.id>>
      <4>1. m.files = <<>> => r.files = <<r.id>>
        BY <3>2
      <4> QED
        BY <4>1, <3>d
    <3>4. r.identity
      BY <3>1, <3>2 DEF Bare
    <3>5. Readable(r)
      BY <3>2, <3>3, <3>4 DEF Readable
    <3>6. y.row = {r}
      BY <1>1, <2>1 DEF r
    <3> QED
      BY <3>5, <3>6
  <2>2. CASE x.op = "additional"
    <3>1. \A r \in Of(x.s) : Readable(Answered(r, x.schema))
      BY <1>2, <1>3, AnsweredIsRow DEF Readable
    <3> QED
      BY <1>1, <2>2, <3>1
  <2>3. CASE x.op = "attach"
    <3> DEFINE f == Append(m.later, m.user)
    <3>1. f \in Seq(Ids)
      BY <1>2, EncryptedIsMemo
    <3>2. f = <<m.user>>
      <4>1. m.later = <<>>
        BY <1>1, <2>3 DEF Opens, Clear
      <4> QED
        BY <4>1
    <3> HIDE DEF f
    <3>3. ASSUME NEW r \in Of(x.s) PROVE Readable(Attached(r, f))
      <4> DEFINE a == Attached(r, f)
      <4>1. r \in Row /\ Readable(r) /\ r.id = m.user
        BY <1>3
      <4>2. a.id = r.id /\ a.files = r.files /\ a.later = f /\ a.identity = r.identity
        BY <3>1, <4>1, AttachedIsRow
      <4> HIDE DEF a, m
      <4>3. a.later = <<a.id>>
        BY <3>2, <4>1, <4>2
      <4>4. (a.id[2] = 1 => a.files = <<a.id>>) /\ a.identity
        BY <4>1, <4>2 DEF Readable
      <4> QED
        BY <4>3, <4>4 DEF Readable, a
    <3> QED
      BY <1>1, <2>3, <3>3 DEF f
  <2> QED
    BY <1>1, <2>1, <2>2, <2>3
<1>5. Clear(txn[t])'
  BY <1>1, <1>4 DEF Clear
<1>6. ASSUME NEW u \in Threads \ {t} PROVE Clear(txn[u])'
  <2>1. txn'[u] = txn[u] /\ Clear(txn[u])
    BY <1>1 DEF Opens
  <2>2. Working(u) => txn[u].s \in Sessions \ {x.s}
    BY <1>1 DEF Steady, Turns, TypeOK, Sound, Txn, Working
  <2>3. Working(u) => memory'[txn[u].s] = memory[txn[u].s]
    BY <1>1, <2>2
  <2> QED
    BY <2>1, <2>3 DEF Clear, Working
<1>7. \A s \in Sessions : Bare(memory'[s])
  BY <1>1, <1>2 DEF Opens, Bare
<1> QED
  BY <1>1, <1>5, <1>6, <1>7 DEF Opens

(* A thread that ends, and what others do. *)
LEMMA OpensEnd ==
  ASSUME Steady, Opens, NEW t \in Threads, NEW what \in {"done", "failed"}, Told(txn[t], what),
         txn' = [txn EXCEPT ![t] = Idle], reports' \subseteq reports \cup txn[t].row, memory' = memory
  PROVE  Opens'
<1>1. txn'[t] = Idle /\ \A u \in Threads \ {t} : txn'[u] = txn[u]
  BY DEF Steady, TypeOK
<1>3. \A u \in Threads : Clear(txn[u])'
  BY <1>1, IdleIsTxn DEF Opens, Clear
<1>4. \A r \in reports' : Readable(r)
  BY DEF Opens, Clear
<1> QED
  BY <1>3, <1>4 DEF Opens

LEMMA OpensRest ==
  ASSUME Opens, reports' \subseteq reports, UNCHANGED <<memory, txn, outcome>>
  PROVE  Opens'
BY DEF Opens, Clear, Readable, Bare

-----------------------------------------------------------------------------
(* Schemas and numbers, while one thread works alone: what it has read of  *)
(* the archive and of the counter is still so when it commits.             *)
Alone == \A t, u \in Threads : t = u

Top(x)       == IF x.op = "submit" THEN x.n ELSE counter
ToArchive(x) == IF Archives(x) THEN archived \cup {x.schema} ELSE archived

Fits(x) ==
  /\ x.stage \in {"read", "written"} /\ x.found # {} => x.schema \in archived
  /\ x.stage = "read" => x.n = counter
  /\ x.stage = "written" /\ x.op = "submit" => x.n = counter + 1
  /\ \A r \in x.row : r.schemas \subseteq ToArchive(x) /\ r.number <= Top(x)

Ordered ==
  /\ \A t \in Threads : Fits(txn[t])
  /\ \A r \in reports : r.schemas \subseteq archived /\ r.number <= counter

LEMMA IdleFits == Fits(Idle) /\ Fits(Idle)'
BY IdleIsTxn DEF Fits

LEMMA OrderedInit == ASSUME Init PROVE Ordered
<1>1. reports = {} /\ \A t \in Threads : txn[t] = Idle
  BY DEF Init
<1> QED
  BY <1>1, IdleFits DEF Ordered

LEMMA OrderedReads ==
  ASSUME Steady, Alone, Ordered, NEW t \in Threads, NEW op \in Ops, NEW s \in Sessions,
         NEW k \in 0 .. Retries, Reads(t, op, s, k), UNCHANGED <<archived, counter, reports>>
  PROVE  Ordered'
<1>1. /\ txn'[t].stage = "read" /\ txn'[t].row = {} /\ txn'[t].schema = SchemaFor(op)
      /\ txn'[t].n = counter /\ txn'[t].found = archived \cap {SchemaFor(op)}
  BY ReadsGives DEF Steady
<1>2. Fits(txn[t])'
  BY <1>1 DEF Fits
<1> QED
  BY <1>2 DEF Ordered, Alone

LEMMA OrderedWrite ==
  ASSUME Steady, Alone, Ordered, NEW t \in Threads, Write(t)
  PROVE  Ordered'
<1> DEFINE x == txn[t]  y == txn'[t]  m == memory[x.s]
<1>1. /\ x.stage = "read" /\ y.stage = "written" /\ y.s = x.s /\ y.op = x.op
      /\ y.schema = x.schema /\ y.found = x.found /\ UNCHANGED <<archived, counter, reports>>
      /\ \/ x.op = "submit" /\ y.n = Progressive(x) /\ y.row = {Report(x, m)}
         \/ x.op = "additional" /\ y.row = {Answered(r, x.schema) : r \in Of(x.s)}
         \/ x.op = "attach" /\ y.row = {Attached(r, Append(m.later, m.user)) : r \in Of(x.s)}
  BY WriteGives
<1>2. /\ x \in Txn /\ x.s \in Sessions /\ m \in Memo /\ x.schema \in Schemas /\ m.user \in Ids
      /\ counter \in Nat
  BY <1>1, Reader DEF Txn, Steady, TypeOK
<1>3. x.n = counter /\ (x.found # {} => x.schema \in archived)
  BY <1>1 DEF Ordered, Fits
<1>4. x.op = "submit" => y.n = counter + 1
  BY <1>1, <1>2, <1>3 DEF Progressive
<1>5. x.op # "attach" => x.schema \in ToArchive(txn[t])'
  BY <1>1, <1>3 DEF ToArchive, Archives
<1>6. archived \subseteq ToArchive(txn[t])' /\ (x.op # "submit" => Top(txn[t])' = counter)
  BY <1>1 DEF ToArchive, Top
<1>7. \A r \in Of(x.s) : r \in Row /\ r.schemas \subseteq archived /\ r.number <= counter
  BY <1>2, OfGives DEF Ordered
<1>8. \A r \in y.row : r.schemas \subseteq ToArchive(txn[t])' /\ r.number <= Top(txn[t])'
  <2>1. CASE x.op = "submit"
    <3>1. Report(x, m).number = Progressive(x) /\ Report(x, m).schemas = {x.schema}
      BY <1>1, ReportIsRow
    <3>2. Top(txn[t])' = Progressive(x) /\ Progressive(x) \in Nat
      BY <1>1, <2>1, Reader DEF Top
    <3> QED
      BY <1>1, <1>5, <2>1, <3>1, <3>2
  <2>2. CASE x.op = "additional"
    <3>1. ASSUME NEW r \in Of(x.s)
          PROVE  /\ Answered(r, x.schema).schemas \subseteq ToArchive(txn[t])'
                 /\ Answered(r, x.schema).number <= Top(txn[t])'
      <4>1. /\ Answered(r, x.schema).schemas = r.schemas \cup {x.schema}
            /\ Answered(r, x.schema).number = r.number
        BY <1>2, <1>7, AnsweredIsRow
      <4> QED
        BY <1>5, <1>6, <1>7, <2>2, <4>1
    <3> QED
      BY <1>1, <2>2, <3>1
  <2>3. CASE x.op = "attach"
    <3> DEFINE f == Append(m.later, m.user)
    <3>1. f \in Seq(Ids)
      BY <1>2, EncryptedIsMemo
    <3> HIDE DEF f
    <3>2. ASSUME NEW r \in Of(x.s)
          PROVE  Attached(r, f).schemas \subseteq ToArchive(txn[t])' /\ Attached(r, f).number <= Top(txn[t])'
      <4>1. Attached(r, f).schemas = r.schemas /\ Attached(r, f).number = r.number
        BY <1>7, <3>1, AttachedIsRow
      <4> QED
        BY <1>6, <1>7, <2>3, <4>1
    <3> QED
      BY <1>1, <2>3, <3>2 DEF f
  <2> QED
    BY <1>1, <2>1, <2>2, <2>3
<1>9. Fits(txn[t])'
  BY <1>1, <1>3, <1>4, <1>8 DEF Fits
<1> QED
  BY <1>1, <1>9 DEF Ordered, Alone

LEMMA OrderedCommit ==
  ASSUME Steady, Alone, Ordered, NEW t \in Threads, Commit(t)
  PROVE  Ordered'
<1> DEFINE x == txn[t]
<1>1. /\ x.stage = "written" /\ reports' = Stored(x) /\ counter' = Top(x)
      /\ archived' = ToArchive(x) /\ txn' = [txn EXCEPT ![t] = Idle]
  BY DEF Commit, Top, ToArchive
<1>2. /\ counter \in Nat /\ x.n \in Nat /\ reports \subseteq Row /\ x.row \subseteq Row /\ txn'[t] = Idle
  BY <1>1 DEF Steady, TypeOK, Txn
<1>3. counter <= Top(x) /\ Top(x) \in Nat /\ archived \subseteq ToArchive(x)
  BY <1>1, <1>2 DEF Ordered, Fits, Top, ToArchive
<1>4. ASSUME NEW r \in reports' PROVE r.schemas \subseteq archived' /\ r.number <= counter'
  <2>1. r.number \in Nat
    BY <1>1, <1>2 DEF Stored, Row
  <2>2. CASE r \in x.row
    BY <1>1, <2>2 DEF Ordered, Fits
  <2>3. CASE r \in reports
    BY <1>1, <1>2, <1>3, <2>1, <2>3 DEF Ordered
  <2> QED
    BY <1>1, <2>2, <2>3 DEF Stored
<1> QED
  BY <1>2, <1>4, IdleFits DEF Ordered, Alone

(* A thread that leaves its transaction, to run again or not, has written  *)
(* nothing.                                                                *)
LEMMA OrderedLeave ==
  ASSUME Steady, Alone, Ordered, NEW t \in Threads, Refuse(t) \/ Collide(t) \/ Wait(t)
  PROVE  Ordered'
<1> DEFINE x == txn[t]
           y == [Idle EXCEPT !.stage = "again", !.op = x.op, !.s = x.s, !.try = x.try + 1]
<1>1. /\ UNCHANGED <<archived, counter, reports>>
      /\ \/ txn' = [txn EXCEPT ![t] = Idle]
         \/ x.try < Retries /\ txn' = [txn EXCEPT ![t] = y]
  BY DEF Refuse, Collide, Wait, AfterLocked
<1>2. x \in Txn /\ txn \in [Threads -> Txn]
  BY DEF Steady, TypeOK
<1>3. x.try < Retries => y.stage = "again" /\ y.row = {}
  BY <1>2, AgainIsTxn
<1> HIDE DEF y
<1>4. txn'[t] = Idle \/ (txn'[t].stage = "again" /\ txn'[t].row = {})
  BY <1>1, <1>2, <1>3
<1>5. Fits(txn[t])'
  BY <1>4, IdleFits DEF Fits
<1> QED
  BY <1>1, <1>5 DEF Ordered, Alone

LEMMA OrderedRest ==
  ASSUME Steady, Alone, Ordered,
         \/ \E expired \in SUBSET reports : Clean(expired)
         \/ \E r \in reports : Delete(r)
         \/ \E q \in Questionnaires, v \in Versions : Edit(q, v)
         \/ UNCHANGED vars
  PROVE  Ordered'
<1>1. CASE \E expired \in SUBSET reports : Clean(expired)
  <2>1. /\ UNCHANGED <<txn, counter>> /\ reports' \subseteq reports /\ archived' = archived \cap Used(reports')
        /\ \E t \in Threads : txn[t] = Idle
    BY <1>1 DEF Clean, Free
  <2>2. \A t \in Threads : Fits(txn[t])'
    BY <2>1, IdleFits DEF Alone
  <2>3. \A r \in reports' : r.schemas \subseteq archived' /\ r.number <= counter'
    BY <2>1 DEF Ordered, Used
  <2> QED
    BY <2>2, <2>3 DEF Ordered
<1>2. CASE ~\E expired \in SUBSET reports : Clean(expired)
  BY <1>2 DEF Delete, Edit, vars, Ordered, Fits, Top, ToArchive, Archives
<1> QED
  BY <1>1, <1>2

-----------------------------------------------------------------------------
(* The inductive invariant. *)
Kept == Steady /\ (~Locked => Opens) /\ (Alone => Ordered)

LEMMA KeptNext == ASSUME Kept, [Next]_vars PROVE Kept'
<1>1. CASE \E t \in Threads, s \in Sessions : Submit(t, s)
  <2>1. PICK t \in Threads, s \in Sessions : Submit(t, s)
    BY <1>1
  <2>2. /\ "submit" \in Ops /\ 1 \in 0 .. Retries /\ Reads(t, "submit", s, 1)
        /\ UNCHANGED <<archived, counter, reports>>
    BY <2>1, SubmissionAssumption DEF Submit
  <2> QED
    BY <2>1, <2>2, SubmitGives, OpensSubmit, OrderedReads DEF Kept, Alone
<1>2. CASE \E t \in Threads, s \in Sessions, op \in Ops : Add(t, op, s)
  <2>1. PICK t \in Threads, s \in Sessions, op \in Ops : Add(t, op, s)
    BY <1>2
  <2>2. 1 \in 0 .. Retries /\ Reads(t, op, s, 1) /\ UNCHANGED <<archived, counter, reports>>
    BY <2>1, SubmissionAssumption DEF Add
  <2> QED
    BY <2>1, <2>2, AddGives, OpensAdd, OrderedReads DEF Kept, Alone
<1>3. CASE \E t \in Threads : ReadAgain(t)
  <2>1. PICK t \in Threads : ReadAgain(t)
    BY <1>3
  <2>2. /\ txn[t].stage = "again" /\ Reads(t, txn[t].op, txn[t].s, txn[t].try)
        /\ UNCHANGED <<archived, counter, reports>>
    BY <2>1 DEF ReadAgain
  <2>3. txn[t].op \in Ops /\ txn[t].s \in Sessions /\ txn[t].try \in 0 .. Retries
    BY <2>2 DEF Kept, Steady, TypeOK, Sound, Txn
  <2>4. Opens => FALSE
    BY <2>2 DEF Opens, Clear
  <2> QED
    BY <2>1, <2>2, <2>3, <2>4, AgainGives, OrderedReads DEF Kept, Alone
<1>4. CASE \E t \in Threads : Write(t)
  BY <1>4, WriteGives, OpensWrite, OrderedWrite DEF Kept, Alone
<1>5. CASE \E t \in Threads : Commit(t)
  <2>1. PICK t \in Threads : Commit(t)
    BY <1>5
  <2>2. Told(txn[t], "done") /\ txn' = [txn EXCEPT ![t] = Idle] /\ memory' = memory
    BY <2>1 DEF Commit
  <2> QED
    BY <2>1, <2>2, CommitGives, OpensEnd, OrderedCommit DEF Kept, Alone
<1>6. CASE \E t \in Threads : Refuse(t)
  <2>1. PICK t \in Threads : Refuse(t)
    BY <1>6
  <2>2. /\ Told(txn[t], "failed") /\ txn' = [txn EXCEPT ![t] = Idle]
        /\ memory' = memory /\ reports' = reports
    BY <2>1 DEF Refuse
  <2> QED
    BY <2>1, <2>2, RefuseGives, OpensEnd, OrderedLeave DEF Kept, Alone
<1>9. CASE \E t \in Threads : Collide(t)
  <2>1. PICK t \in Threads : Collide(t)
    BY <1>9
  <2>2. /\ Told(txn[t], "failed") /\ txn' = [txn EXCEPT ![t] = Idle]
        /\ memory' = memory /\ reports' = reports
    BY <2>1 DEF Collide
  <2> QED
    BY <2>1, <2>2, CollideGives, OpensEnd, OrderedLeave DEF Kept, Alone
<1>7. CASE \E t \in Threads : Wait(t)
  <2>1. PICK t \in Threads : Wait(t)
    BY <1>7
  <2>2. Locked
    BY <2>1 DEF Wait
  <2> QED
    BY <2>1, <2>2, WaitGives, OrderedLeave DEF Kept, Alone
<1>8. CASE \/ \E expired \in SUBSET reports : Clean(expired)
           \/ \E r \in reports : Delete(r)
           \/ \E q \in Questionnaires, v \in Versions : Edit(q, v)
           \/ UNCHANGED vars
  <2>1. Steady' /\ reports' \subseteq reports /\ UNCHANGED <<memory, txn, outcome, made>>
    BY <1>8, RestGives DEF Kept
  <2> QED
    BY <1>8, <2>1, OpensRest, OrderedRest DEF Kept, Alone
<1> QED
  BY <1>1, <1>2, <1>3, <1>4, <1>5, <1>6, <1>7, <1>8, <1>9 DEF Next

(* A whistleblower is told that a report was sent if and only if it was,   *)
(* and then it was sent once, for any number of threads and tries          *)
(* (orm.transact); every report can be read while no transaction runs      *)
(* twice; with one thread, its questionnaires are archived and its number  *)
(* is not given to another.                                                *)
THEOREM SubmissionsTrueAlways == Spec => []SubmissionsTrue
<1>1. Init => Kept
  BY SteadyInit, OpensInit, OrderedInit DEF Kept
<1>2. Kept /\ [Next]_vars => Kept'
  BY KeptNext
<1>3. Kept => SubmissionsTrue
  <2> SUFFICES ASSUME Kept PROVE SubmissionsTrue
    OBVIOUS
  <2>1. TypeOK /\ OutcomeIsTrue
    BY DEF Kept, Steady
  <2>2. ~Locked => ReportsReadable
    BY DEF Kept, Opens, Readable, ReportsReadable
  <2>3. Alone => SchemaKept /\ CounterLeads
    BY DEF Kept, Ordered, SchemaKept, CounterLeads
  <2> QED
    BY <2>1, <2>2, <2>3 DEF SubmissionsTrue, Alone
<1> QED
  BY <1>1, <1>2, <1>3, PTL DEF Spec
=============================================================================
