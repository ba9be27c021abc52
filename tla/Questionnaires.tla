--------------------------- MODULE Questionnaires ---------------------------
(***************************************************************************)
(* The questionnaires of a site: steps, questions nested in groups, the    *)
(* answers to choose from, the conditions that show a question after an    *)
(* answer, and the templates that questionnaires refer to.                 *)
(*                                                                         *)
(* Every action is the transaction of one handler.  The identifiers come   *)
(* with the requests.  A question is shown with the children and options   *)
(* of its Source: the template it names, or itself.                        *)
(***************************************************************************)
EXTENDS Integers, FiniteSets

CONSTANTS
  Questionnaires, Steps, Fields, Options,
  Identity,   (* The template whistleblower_identity of the root site.     *)
  None

QuestionnaireAssumption ==
  /\ Identity \notin Fields
  /\ None \notin Questionnaires \cup Steps \cup Fields \cup Options \cup {Identity}

VARIABLES
  questionnaires, (* Those that exist.                                     *)
  step,           (* The questionnaire of each step, or None.              *)
  field,          (* The row of each question, or None.                    *)
  option,         (* The question of each option, or None.                 *)
  triggers,       (* Pairs of an option and the question or step it shows. *)
  stuck           (* A database thread serializes a loop and never ends.   *)

vars == <<questionnaires, step, field, option, triggers, stuck>>

Row(inst, s, group, template) ==
  [instance |-> inst, step |-> s, group |-> group, template |-> template]

Alive     == {f \in Fields : field[f] # None}
Fresh(S, row) == {x \in S : row[x] = None}
StepsOf(q)    == {s \in Steps : step[s] = q}
OptionsOf(f)  == {o \in Options : option[o] = f}
ChildrenOf(f) == {c \in Alive : field[c].group = f}

(* What db_prepare_fields_serialization and serialize_field look up. *)
Source(f)       == IF field[f].template # None THEN field[f].template ELSE f
ShownOptions(f) == OptionsOf(Source(f))
ShownUnder(f)   == IF field[f].instance = "reference" THEN {} ELSE ChildrenOf(Source(f))

Below(S, under) ==
  LET reach[n \in 0..Cardinality(Fields)] ==
        IF n = 0 THEN S
        ELSE LET before == reach[n-1] IN before \cup UNION {under[f] : f \in before}
  IN reach[Cardinality(Fields)]

Top(q)  == {f \in Alive : field[f].step \in StepsOf(q)}
Tree(q) == Below(Top(q), [f \in Alive |-> ShownUnder(f)])
Conditions(q) == {t \in triggers : t[2] \in Tree(q) \cup StepsOf(q)}

(* What goes with the questions F and the steps S: the questions grouped   *)
(* under them, their options and the conditions on all of these.           *)
Drop(F, S) ==
  LET gone == Below(F, [f \in Alive |-> ChildrenOf(f)])
      left == {o \in Options : option[o] \notin gone}
  IN /\ field'  = [f \in Fields |-> IF f \in gone THEN None ELSE field[f]]
     /\ option' = [o \in Options |-> IF o \in left THEN option[o] ELSE None]
     /\ triggers' = {t \in triggers : t[1] \in left /\ t[2] \notin gone \cup S}
     /\ step' = [s \in Steps |-> IF s \in S THEN None ELSE step[s]]
     /\ \A f \in Alive \ gone : field[f].template \notin gone

-----------------------------------------------------------------------------
CreateQuestionnaire(q) ==
  /\ q \notin questionnaires
  /\ questionnaires' = questionnaires \cup {q}
  /\ UNCHANGED <<step, field, option, triggers, stuck>>

CreateStep(q, s, T) ==
  /\ q \in questionnaires /\ step[s] = None
  /\ step' = [step EXCEPT ![s] = q]
  /\ triggers' = triggers \cup (T \X {s})
  /\ UNCHANGED <<questionnaires, field, option, stuck>>

(* The conditions of a step, after its questions. *)
UpdateStep(s, T) ==
  /\ step[s] # None
  /\ triggers' = {t \in triggers : t[2] # s} \cup (T \X {s})
  /\ UNCHANGED <<questionnaires, step, field, option, stuck>>

DeleteStep(s) ==
  /\ step[s] # None
  /\ Drop({f \in Alive : field[f].step = s}, {s})
  /\ UNCHANGED <<questionnaires, stuck>>

DeleteQuestionnaire(q) ==
  /\ q \in questionnaires
  /\ questionnaires' = questionnaires \ {q}
  /\ Drop(Top(q), StepsOf(q))
  /\ UNCHANGED stuck

-----------------------------------------------------------------------------
(* Questions. *)

CreateInstance(f, row, O, T) ==
  /\ field[f] = None /\ row.template = None
  /\ field' = [field EXCEPT ![f] = row]
  /\ option' = [o \in Options |-> IF o \in O THEN f ELSE option[o]]
  /\ triggers' = triggers \cup (T \X {f})
  /\ UNCHANGED <<questionnaires, step, stuck>>

IdentityIn(q) == {f \in Alive : field[f].template = Identity /\ field[f].step \in StepsOf(q)}

(* A question from a template has no options and no conditions of its own. *)
CreateReference(f, row) ==
  /\ field[f] = None /\ row.template # None
  /\ row.template = Identity => row.step # None /\ IdentityIn(step[row.step]) = {}
  /\ field' = [field EXCEPT ![f] = row]
  /\ UNCHANGED <<questionnaires, step, option, triggers, stuck>>

(* check_field_association and fieldtree_ancestors: the loop of the check  *)
(* yields the group of the group and, for all above it, a generator.       *)
Ancestors(group) == {field[group].group} \ {None}
Associable(f, group) == group # None => f # group /\ f \notin Ancestors(group)

Loops(f, group) == f \in Below({group} \cap Fields, [g \in Alive |-> {field[g].group} \cap Fields])

(* The options sent; without any the old ones stay. *)
WithOptions(f, O) ==
  [o \in Options |-> IF o \in O THEN f
                     ELSE IF option[o] = f /\ O # {} THEN None ELSE option[o]]

(* A question that is not a reference is updated as a whole.  Its options  *)
(* are written under the identifiers that were sent: one of another        *)
(* question is a duplicate key.                                            *)
UpdateInstance(f, s, group, O, T) ==
  /\ field[f] # None /\ field[f].instance # "reference"
  /\ Associable(f, group)
  /\ \A o \in O : option[o] \in {None, f}
  /\ IF Loops(f, group)
     THEN /\ stuck' = TRUE
          /\ UNCHANGED <<field, option, triggers>>
     ELSE /\ field' = [field EXCEPT ![f].step = s, ![f].group = group]
          /\ option' = WithOptions(f, O)
          /\ triggers' = {t \in triggers : t[2] # f /\ option'[t[1]] # None}
                           \cup ({o \in T : option'[o] # None} \X {f})
          /\ T \subseteq {o \in Options : option'[o] # None}
          /\ UNCHANGED stuck
  /\ UNCHANGED <<questionnaires, step>>

(* Of a reference only what is not in the template, and its conditions. *)
UpdateReference(f, T) ==
  /\ field[f] # None /\ field[f].instance = "reference"
  /\ triggers' = {t \in triggers : t[2] # f} \cup (T \X {f})
  /\ UNCHANGED <<questionnaires, step, field, option, stuck>>

DeleteField(f) ==
  /\ field[f] # None
  /\ field[f].instance = "template" => \A g \in Alive : field[g].template # f
  /\ Drop({f}, {})
  /\ UNCHANGED <<questionnaires, stuck>>

-----------------------------------------------------------------------------
(* Duplication: the questionnaire is serialized without its templates,     *)
(* given new identifiers, and created again.  sm, fm and om are the maps   *)
(* from the old identifiers.  The options of a template that a question    *)
(* refers to get new identifiers too, under which nothing is created.      *)

Copy(f, sm, fm) ==
  LET parent == {g \in DOMAIN fm : f \in ShownUnder(g)} IN
  Row("instance",
      IF field[f].step \in DOMAIN sm THEN sm[field[f].step] ELSE None,
      IF parent = {} THEN None ELSE fm[CHOOSE g \in parent : TRUE],
      field[f].template)

CopiesMutant(q, sm, fm, om) ==
  {<<t[1], sm[t[2]]>> : t \in {c \in Conditions(q) : c[2] \in DOMAIN sm}}
    \cup {<<om[t[1]], fm[t[2]]>> : t \in {c \in Conditions(q) :
              c[2] \in DOMAIN fm /\ field[c[2]].template = None}}

(* The conditions of the copy: none for questions from templates. *)
Copies(q, sm, fm, om) ==
  {<<om[t[1]], IF t[2] \in DOMAIN sm THEN sm[t[2]] ELSE fm[t[2]]>> :
     t \in {c \in Conditions(q) :
              c[2] \in DOMAIN sm \/ (c[2] \in DOMAIN fm /\ field[c[2]].template = None)}}

Injections(S, T) == {m \in [S -> T] : \A x, y \in S : x # y => m[x] # m[y]}

DuplicateQuestionnaire(q, p) ==
  LET F == Tree(q)
      made == UNION {OptionsOf(f) : f \in {g \in F : field[g].template = None}}
  IN
  /\ q \in questionnaires /\ p \notin questionnaires
  /\ \A t \in Conditions(q) : option[t[1]] \in F  (* else KeyError in the map *)
  /\ \A f \in F : Cardinality({g \in F : f \in ShownUnder(g)}) <= 1
  /\ questionnaires' = questionnaires \cup {p}
  /\ \E sm \in Injections(StepsOf(q), Fresh(Steps, step)),
        fm \in Injections(F, Fresh(Fields, field)),
        om \in Injections(made, Fresh(Options, option)) :
       /\ step' = [s \in Steps |-> IF \E x \in DOMAIN sm : sm[x] = s THEN p ELSE step[s]]
       /\ field' = [f \in Fields |->
            IF \E x \in F : fm[x] = f
            THEN Copy(CHOOSE x \in F : fm[x] = f, sm, fm) ELSE field[f]]
       /\ option' = [o \in Options |->
            IF \E x \in made : om[x] = o
            THEN fm[option[CHOOSE x \in made : om[x] = o]] ELSE option[o]]
       /\ triggers' = triggers \cup Copies(q, sm, fm, om)
  /\ UNCHANGED stuck

-----------------------------------------------------------------------------
Init ==
  /\ questionnaires = {}
  /\ step = [s \in Steps |-> None]
  /\ field = [f \in Fields |-> None]
  /\ option = [o \in Options |-> None]
  /\ triggers = {}
  /\ stuck = FALSE

(* The options that the page offers for conditions in questionnaire q.     *)
Offered(q) == UNION {ShownOptions(f) : f \in Tree(q) \cap Alive}
Sets(S)    == {{}} \cup {{x} : x \in S}

Next ==
  /\ ~stuck
  /\ \/ \E q \in Questionnaires :
          \/ CreateQuestionnaire(q) \/ DeleteQuestionnaire(q)
          \/ \E s \in Steps, T \in Sets(Offered(q)) : CreateStep(q, s, T)
          \/ \E s \in StepsOf(q), T \in Sets(Offered(q)) : UpdateStep(s, T)
          \/ \E p \in Questionnaires : DuplicateQuestionnaire(q, p)
          \/ \E f \in Fields, s \in StepsOf(q) :
               \/ \E O \in Sets(Fresh(Options, option)), T \in Sets(Offered(q)) :
                    CreateInstance(f, Row("instance", s, None, None), O, T)
               \/ \E t \in {x \in Alive : field[x].instance = "template"} \cup {Identity} :
                    CreateReference(f, Row("reference", s, None, t))
          \/ \E f \in Tree(q) \cap Alive, T \in Sets(Offered(q)) :
               \/ UpdateReference(f, T)
               \/ \E g \in {x \in Tree(q) \cap Alive : field[x].template = None},
                     O \in Sets(ShownOptions(f) \cup Fresh(Options, option)) :
                    \/ UpdateInstance(f, None, g, O, T)
                    \/ UpdateInstance(f, field[f].step, field[f].group, O, T)
     \/ \E f \in Fields, O \in Sets(Fresh(Options, option)) :
          CreateInstance(f, Row("template", None, None, None), O, {})
     \/ \E s \in Steps : DeleteStep(s)
     \/ \E f \in Fields : DeleteField(f)

Spec == Init /\ [][Next]_vars

-----------------------------------------------------------------------------
TypeOK ==
  /\ questionnaires \subseteq Questionnaires
  /\ step \in [Steps -> questionnaires \cup {None}]
  /\ \A f \in Alive : /\ field[f].step \in Steps \cup {None}
                      /\ field[f].group \in Fields \cup {None}
                      /\ field[f].template \in Fields \cup {Identity, None}
  /\ option \in [Options -> Alive \cup {None}]
  /\ triggers \subseteq Options \X (Fields \cup Steps)

(* The whistleblower is asked for the identity at most once, through       *)
(* creations, moves and duplications: a submission looks for one question  *)
(* and fails with two.                                                     *)
OneIdentity == \A q \in questionnaires : Cardinality(IdentityIn(q)) <= 1

(* A condition of a questionnaire waits for an answer that this            *)
(* questionnaire asks, or for one of a template, also in a duplicate:      *)
(* otherwise what it hides is never shown.                                 *)
OwnConditions ==
  \A q \in questionnaires : \A t \in Conditions(q) :
    \/ option[t[1]] \in Tree(q)
    \/ field[option[t[1]]].instance = "template"

(* No accepted change puts a group inside itself ("Provided field          *)
(* association would cause recursion loop").                               *)
NeverStuck == ~stuck

(* What check_field_association does see to: a group is not put inside     *)
(* itself, nor inside one that is in it; only with three levels of groups  *)
(* a loop is accepted, through whatever is created, moved and deleted.     *)
LoopsNeedThree ==
  stuck => \E f, g, h \in Alive : field[h].group = g /\ field[g].group = f

(* What the page of a question shows of its options can be saved as it is  *)
(* ("make a raw copy").                                                    *)
ShownCanBeSaved ==
  \A q \in questionnaires : \A f \in Tree(q) \cap Alive :
    field[f].instance # "reference" /\ field[f].template # Identity
       => ShownOptions(f) \subseteq OptionsOf(f)

(* A duplicate has as many conditions as what it was made from. *)
CopyKeepsConditions ==
  [][\A p \in questionnaires' \ questionnaires :
       StepsOf(p)' # {} => \E q \in questionnaires :
          Cardinality(Conditions(p)') = Cardinality(Conditions(q))]_vars
=============================================================================
