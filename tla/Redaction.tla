----------------------------- MODULE Redaction -----------------------------
(***************************************************************************)
(* Masking and redaction of what a report says.  A recipient who may mask  *)
(* hides parts of a text from the recipients who may not, and one who may  *)
(* redact removes masked parts for good.                                   *)
(*                                                                         *)
(* The handler that updates a redaction reads and decrypts the report in   *)
(* one transaction and writes what it computed of it in another; the one   *)
(* that shows a report reads it in one and applies the masks in another.   *)
(*                                                                         *)
(* Lists of ranges are sets of positions: the functions on ranges are      *)
(* compared with these in module Ranges.                                   *)
(***************************************************************************)
EXTENDS Naturals, FiniteSets

CONSTANTS
  Users,       (* The recipients of the report.                            *)
  MayMask, MayRedact, (* Those with a permission.                          *)
  Viewers,     (* Those who open or export it.                             *)
  Texts,
  KindOf(_),   (* "answer" of the questionnaire, "later" of the additional *)
               (* one, "comment", "identity" or "file".                    *)
  Positions,   (* Of a text.                                               *)
  MaxReds,     (* Bound on redactions created.                             *)
  Together,    (* Recipients work on the report at the same time.          *)
  None

RedactionAssumption ==
  /\ Viewers \cup MayMask \subseteq Users /\ MayRedact \subseteq Users
  /\ \A t \in Texts : KindOf(t) \in {"answer", "later", "comment", "identity", "file"}
  /\ MaxReds \in Nat /\ Together \in BOOLEAN

VARIABLES
  content,  (* Of each text, the positions that can still be read.         *)
  reds,     (* Of each redaction, in the order of creation, None or its    *)
            (* text with its temporary and permanent redaction.            *)
  created,  (* How many have been.                                         *)
  first,    (* The questionnaire whose answers come first by their hash.   *)
  put,      (* Of each recipient, None or the update under way: the        *)
            (* request, and the report as it was read.                     *)
  view,     (* Of each recipient, None or a report to be shown.            *)
  shown,    (* What the last view showed more than it should have.         *)
  masked,   (* History: the positions of each text that ever were masked.  *)
  overrun   (* History: texts written over what somebody had written since *)
            (* the update read them.                                       *)

vars == <<content, reds, created, first, put, view, shown, masked, overrun>>

Ids    == 1 .. MaxReds
Some   == {i \in Ids : reds[i] # None}
Of(rs, t) == {i \in Ids : rs[i] # None /\ rs[i].ref = t}

Masks(rs, t) == UNION {rs[i].temp : i \in Of(rs, t)}

(* What a recipient without permissions is meant to see. *)
Visible(t) == IF KindOf(t) = "file" /\ Of(reds, t) # {} THEN {} ELSE content[t] \ Masks(reds, t)

Idle == \A u \in Users : put[u] = None /\ view[u] = None

-----------------------------------------------------------------------------
(* create_redaction.  The web client updates the redaction of a text when  *)
(* the page shows one.                                                     *)
Create(u, t, temp) ==
  /\ u \in MayMask /\ created < MaxReds
  /\ IF Together THEN TRUE ELSE Idle /\ Of(reds, t) = {}
  /\ created' = created + 1
  /\ reds' = [reds EXCEPT ![created + 1] = [ref |-> t, temp |-> temp, perm |-> {}]]
  /\ masked' = [masked EXCEPT ![t] = @ \cup temp]
  /\ UNCHANGED <<content, first, put, view, shown, overrun>>

(* The handler's first transaction. *)
PutReads(u, i, operation, range) ==
  /\ put[u] = None /\ i \in Some /\ (Together \/ Idle)
  /\ put' = [put EXCEPT ![u] = [op |-> operation, id |-> i, range |-> range, text |-> content, reds |-> reds]]
  /\ UNCHANGED <<content, reds, created, first, view, shown, masked, overrun>>

Written(rs, cs) ==
  /\ reds' = rs /\ content' = cs
  /\ masked' = [t \in Texts |-> masked[t] \cup Masks(rs, t)]

MaskMutant(u) ==
  LET p == put[u]
      i == p.id
      temp == IF p.op = "full-unmask" THEN {} ELSE p.range \ reds[i].perm
  IN /\ p.op \in {"mask", "full-unmask"} /\ reds[i] # None /\ u \in MayMask
     /\ Written([reds EXCEPT ![i] = IF temp = {} THEN None ELSE [@ EXCEPT !.temp = temp]], content)

(* db_update_temporary_redaction, and what "full-unmask" adds. *)
Mask(u) ==
  LET p == put[u]
      i == p.id
      temp == IF p.op = "full-unmask" THEN {} ELSE p.range \ reds[i].perm
  IN /\ p.op \in {"mask", "full-unmask"} /\ reds[i] # None /\ u \in MayMask
     /\ Written([reds EXCEPT ![i] = IF temp = {} /\ @.perm = {} THEN None ELSE [@ EXCEPT !.temp = temp]], content)

(* db_redact_data: both come from the report as it was read. *)
Redacted(p) == [reds EXCEPT ![p.id] = [@ EXCEPT !.temp = p.reds[p.id].temp \ p.range,
                                                !.perm = p.reds[p.id].perm \cup p.range]]

(* validate_ranges *)
ValidRanges(p) == p.range \subseteq p.reds[p.id].temp

(* redact_content: the text as it was read, with the ranges blackened. *)
Blackened(p) == p.text[p.reds[p.id].ref] \ (p.reds[p.id].perm \cup p.range)

RedactText(p, t) == ValidRanges(p) /\ Written(Redacted(p), [content EXCEPT ![t] = Blackened(p)])

RedactComment(u) ==
  LET t == put[u].reds[put[u].id].ref
  IN KindOf(t) = "comment" /\ RedactText(put[u], t)

RedactIdentity(u) ==
  LET t == put[u].reds[put[u].id].ref
  IN KindOf(t) = "identity" /\ RedactText(put[u], t)

(* What db_redact_answers looks through. *)
Answers == {x \in Texts : KindOf(x) = "answer"}

(* All the answers of the questionnaire are written again, over those of   *)
(* the questionnaire that comes first; answers of the additional one are   *)
(* not looked for.                                                         *)
RedactAnswer(u) ==
  LET p == put[u]
      t == p.reds[p.id].ref
      new == [x \in Answers |-> IF x = t THEN Blackened(p) ELSE p.text[x]]
  IN /\ KindOf(t) \in {"answer", "later"} /\ ValidRanges(p)
     /\ Written(Redacted(p),
                [x \in Texts |-> CASE first = "answer" /\ x \in Answers -> new[x]
                                   [] first = "later" /\ KindOf(x) = "later" -> {}
                                   [] OTHER -> content[x]])

(* The file is deleted, with its redaction. *)
RedactFile(u) ==
  LET p == put[u]
      t == p.reds[p.id].ref
  IN /\ KindOf(t) = "file" /\ reds[p.id].temp = Positions
     /\ Written([reds EXCEPT ![p.id] = None], [content EXCEPT ![t] = {}])

Redact(u) ==
  /\ put[u].op = "redact" /\ reds[put[u].id] # None /\ u \in MayRedact
  /\ RedactComment(u) \/ RedactIdentity(u) \/ RedactAnswer(u) \/ RedactFile(u)

Ignored(u) ==
  LET p == put[u]
      file == KindOf(p.reds[p.id].ref) = "file"
  IN /\ reds[p.id] # None =>
          IF p.op = "redact"
          THEN u \in MayRedact => (IF file THEN reds[p.id].temp # Positions ELSE ~ValidRanges(p))
          ELSE u \notin MayMask
     /\ UNCHANGED <<content, reds, masked>>

(* The texts an update that redacts writes: of the answers, all of them.   *)
Rewrites(p) ==
  LET t == p.reds[p.id].ref
  IN {t} \cup {x \in Texts : {KindOf(x), KindOf(t)} \subseteq {"answer", "later"}}

(* Others have changed the text, or its redactions, since the update read. *)
Stale(p, t) == p.text[t] # content[t] \/ \E i \in Of(reds, t) : p.reds[i] # reds[i]

(* The handler's second transaction. *)
PutWrites(u) ==
  /\ put[u] # None
  /\ overrun' = overrun \cup {t \in Rewrites(put[u]) : put[u].op = "redact" /\ Stale(put[u], t)}
  /\ Mask(u) \/ Redact(u) \/ Ignored(u)
  /\ put' = [put EXCEPT ![u] = None]
  /\ UNCHANGED <<created, first, view, shown>>

-----------------------------------------------------------------------------
(* A recipient without permissions opens the report, or any one exports it.*)
ViewReads(u) ==
  /\ view[u] = None /\ (Together \/ Idle)
  /\ view' = [view EXCEPT ![u] = [text |-> content, meant |-> [t \in Texts |-> Visible(t)]]]
  /\ UNCHANGED <<content, reds, created, first, put, shown, masked, overrun>>

(* redact_report: of several redactions of a comment the first one counts. *)
Shows(v, t) ==
  CASE KindOf(t) \in {"answer", "later"} -> v.text[t] \ Masks(reds, t)
    [] KindOf(t) = "comment" /\ Of(reds, t) # {} ->
         v.text[t] \ reds[CHOOSE i \in Of(reds, t) : \A j \in Of(reds, t) : i <= j].temp
    [] KindOf(t) = "file" /\ Of(reds, t) # {} -> {}
    [] OTHER -> v.text[t]

ViewShows(u) ==
  /\ view[u] # None
  /\ shown' = {t \in Texts : ~(Shows(view[u], t) \subseteq view[u].meant[t] \cup Visible(t))}
  /\ view' = [view EXCEPT ![u] = None]
  /\ UNCHANGED <<content, reds, created, first, put, masked, overrun>>

-----------------------------------------------------------------------------
Init ==
  /\ content = [t \in Texts |-> Positions]
  /\ reds = [i \in Ids |-> None]
  /\ created = 0
  /\ first \in {"answer"} \cup {KindOf(t) : t \in {x \in Texts : KindOf(x) = "later"}}
  /\ put = [u \in Users |-> None]
  /\ view = [u \in Users |-> None]
  /\ shown = {}
  /\ masked = [t \in Texts |-> {}]
  /\ overrun = {}

Next ==
  \E u \in Users :
    \/ \E t \in Texts, range \in SUBSET Positions :
         (KindOf(t) = "file" => range = Positions) /\ Create(u, t, range)
    \/ \E i \in Ids, operation \in {"mask", "redact", "full-unmask"}, range \in SUBSET Positions :
         (operation = "full-unmask" => range = {}) /\ PutReads(u, i, operation, range)
    \/ PutWrites(u)
    \/ u \in Viewers /\ ViewReads(u)
    \/ ViewShows(u)

Spec == Init /\ [][Next]_vars

-----------------------------------------------------------------------------
TypeOK ==
  /\ content \in [Texts -> SUBSET Positions] /\ masked \in [Texts -> SUBSET Positions]
  /\ reds \in [Ids -> [ref : Texts, temp : SUBSET Positions, perm : SUBSET Positions] \cup {None}]
  /\ created \in 0 .. MaxReds /\ \A i \in Some : i <= created
  /\ shown \cup overrun \subseteq Texts

(* Who may redact takes away only what somebody who may mask had marked:   *)
(* whatever is gone of a text was masked at some time, also when several   *)
(* recipients work on stale pages.                                         *)
RedactedWasMasked ==
  \A t \in Texts : Positions \ content[t] \subseteq masked[t]

(* What a record calls redacted is no longer in the text, nor masked,      *)
(* unless another update of the text was written over.                     *)
RecordsFit ==
  \A i \in Some : LET t == reds[i].ref IN
    t \notin overrun => reds[i].perm \cap (content[t] \cup reds[i].temp) = {}

(* A part that was redacted does not come back, and neither does its       *)
(* record go away.  One exception: what another redaction has changed      *)
(* between the two transactions of an update that redacts.                 *)
RedactionHolds ==
  /\ \A t \in Texts : t \notin overrun' => content'[t] \subseteq content[t]
  /\ \A i \in Some : reds[i].perm # {} /\ reds[i].ref \notin overrun' =>
        reds'[i] # None /\ reds[i].perm \subseteq reds'[i].perm

(* A report that is exported, or shown to a recipient who may neither mask *)
(* nor redact, shows no part that was masked, or gone, both when it was    *)
(* asked for and when it was shown.  Three exceptions: the identity of the *)
(* whistleblower, which redact_report passes by, a comment with more than  *)
(* one redaction, and a text that was redacted between the reading and the *)
(* masking of the report.                                                  *)
MaskedIsHidden ==
  \A u \in Users : view[u] # None /\ view'[u] = None =>
    \A t \in shown' :
      \/ KindOf(t) = "identity"
      \/ KindOf(t) = "comment" /\ Cardinality(Of(reds, t)) > 1
      \/ view[u].text[t] # content[t]
=============================================================================
