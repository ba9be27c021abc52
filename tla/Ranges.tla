------------------------------- MODULE Ranges -------------------------------
(***************************************************************************)
(* The functions on lists of ranges that masking and redaction are built   *)
(* from, on one text: what a list stands for is a set of positions, and    *)
(* the functions have to do with lists what module Redaction does with     *)
(* sets.  Ranges include both their ends.                                  *)
(***************************************************************************)
EXTENDS Integers, Sequences, SequencesExt

CONSTANTS
  Length  (* Of the text.                                                  *)

RangesAssumption == Length \in Nat

VARIABLES
  text,       (* Of each position, "clear" or "black".                     *)
  temporary,  (* The two lists of the redaction.                           *)
  permanent,
  request     (* History: what the last step was asked for.                *)

vars == <<text, temporary, permanent, request>>

Span(s, e) == [start |-> s, end |-> e]
Covers(list) == UNION {list[i].start .. list[i].end : i \in DOMAIN list}
Mx(a, b) == IF a > b THEN a ELSE b

(* Ranges one after the other, each merged into the one before when they   *)
(* overlap or touch.                                                       *)
Merged(list) ==
  FoldLeft(LAMBDA done, r :
             IF done # <<>> /\ r.start <= Last(done).end + 1
             THEN Front(done) \o <<Span(Last(done).start, Mx(Last(done).end, r.end))>>
             ELSE Append(done, r),
           <<>>, list)

ByStart(list) == SortSeq(list, LAMBDA a, b : a.start < b.start)

(* merge_and_sort_ranges *)
MergeAndSort(list1, list2) == Merged(ByStart(list1 \o Merged(list2)))

Cut(current, new) ==
  IF new.end < current.start \/ new.start > current.end THEN <<current>>
  ELSE (IF new.start > current.start THEN <<Span(current.start, new.start - 1)>> ELSE <<>>)
       \o (IF new.end < current.end THEN <<Span(new.end + 1, current.end)>> ELSE <<>>)

(* get_new_temporary_redaction *)
NewTemporary(current, new) ==
  MergeAndSort(FoldLeft(LAMBDA left, n : FlattenSeq([i \in DOMAIN left |-> Cut(left[i], n)]),
                        current, new), <<>>)

(* validate_ranges *)
Valid(current, new) ==
  \A i \in DOMAIN new : \E j \in DOMAIN current :
    current[j].start <= new[i].start /\ new[i].start <= new[i].end /\ new[i].end <= current[j].end

(* redact_content, of a text the ranges do not go beyond. *)
RedactContent(content, list) ==
  [p \in DOMAIN content |-> IF p \in Covers(list) THEN "black" ELSE content[p]]

-----------------------------------------------------------------------------
(* Lists of up to two ranges, sorted and apart, as the web client sends    *)
(* them: unsorted, merge_and_sort_ranges would lose some.                  *)
Lists ==
  LET one == {Span(s, e) : s \in 1 .. Length, e \in 1 .. Length}
      fit == {r \in one : r.start <= r.end}
  IN {<<>>} \cup {<<r>> : r \in fit}
     \cup {l \in {<<a, b>> : a \in fit, b \in fit} : l[1].end < l[2].start}

(* db_update_temporary_redaction. *)
Mask(list) ==
  /\ temporary' = NewTemporary(list, permanent)
  /\ request' = [op |-> "mask", list |-> list]
  /\ UNCHANGED <<text, permanent>>

(* Redaction of a comment or an answer, with nobody else at work. *)
Redact(list) ==
  /\ Valid(temporary, list)
  /\ temporary' = NewTemporary(temporary, list)
  /\ permanent' = MergeAndSort(permanent, list)
  /\ text' = RedactContent(text, permanent')
  /\ request' = [op |-> "redact", list |-> list]

Init ==
  /\ text = [p \in 1 .. Length |-> "clear"]
  /\ temporary \in Lists
  /\ permanent = <<>>
  /\ request = [op |-> "create", list |-> temporary]

Next == \E list \in Lists : Mask(list) \/ Redact(list)

Spec == Init /\ [][Next]_vars

-----------------------------------------------------------------------------
(* The permanent redaction is kept sorted, and in as few ranges as can be; *)
(* no position is in both lists.                                           *)
InOrder(list) == \A i \in 1 .. Len(list) - 1 : list[i].end + 1 < list[i + 1].start

ListsFit ==
  /\ InOrder(permanent) /\ (request.op # "create" => InOrder(temporary))
  /\ Covers(temporary) \cap Covers(permanent) = {}

(* The text is black exactly where the permanent redaction says.           *)
TextFits == {p \in DOMAIN text : text[p] = "black"} = Covers(permanent)

(* With sets of positions in place of lists, the steps are those of module *)
(* Redaction: what is asked for is masked but where it is redacted, and    *)
(* what is asked for of a mask is redacted.                                *)
ListsAreSets ==
  LET new == Covers(request'.list)
  IN IF request'.op = "mask"
     THEN Covers(temporary') = new \ Covers(permanent) /\ permanent' = permanent
     ELSE /\ new \subseteq Covers(temporary)
          /\ Covers(temporary') = Covers(temporary) \ new
          /\ Covers(permanent') = Covers(permanent) \cup new
=============================================================================
