------------------------------ MODULE Profiles ------------------------------
(***************************************************************************)
(* What a model's output means for a case: the adapters of the profiles    *)
(* (src/authority/src/profiles.rs).  An output is what the code cuts it    *)
(* into: the values of the verdict lines and of the category lines, each   *)
(* in order, whether a reasoning block was left open, whether there is     *)
(* text beyond the answer token, and the softmax of the first token, in    *)
(* units of which the code rounds away all but every other.  The exact     *)
(* outputs of a profile are its one verdict line; a taxonomy that names    *)
(* its codes on the lines after the label has one category line.           *)
(***************************************************************************)
EXTENDS Naturals, Sequences

CONSTANTS
  Class, Code, Label,
  Profile,   \* see ProfilesAssumption
  Output,    \* the outputs it may give, as the profile's shape cuts them
  Half,      \* half a unit of the precision scores are rounded to
  None

ModelOutput ==
  [verdicts: Seq(Label), categories: Seq(SUBSET Code), open: BOOLEAN,
   extra: BOOLEAN, score: Nat \cup {None}]

Adapter ==
  [kind: {"score"}, banAt: Nat, dismissAt: Nat, rejectExtra: BOOLEAN]
    \cup [kind: {"line"}, ban: Label, dismiss: Label, requireClosed: BOOLEAN]
    \cup [kind: {"taxonomy"}, unsafe: Label, safe: Label, undecided: SUBSET Label,
          empty: SUBSET Code, known: SUBSET Code, required: [Class -> Code \cup {None}]]

\* rules: the classes the authority's policy has a canonical rule for.
ModelProfile == [id: STRING, maxImages: Nat, rules: SUBSET Class, adapter: Adapter]

ASSUME ProfilesAssumption ==
  /\ Half \in Nat \ {0}
  /\ Profile \subseteq ModelProfile
  /\ \A p \in Profile : p.adapter.kind = "score" => p.adapter.dismissAt < p.adapter.banAt
  /\ Output \in [Profile -> SUBSET ModelOutput]

Outcome == {"ban", "dismiss", "no-decision"}

CanDecide(p, class) ==
  IF p.adapter.kind = "taxonomy" THEN p.adapter.required[class] # None
  ELSE class \in p.rules

\* round_to: thresholds are published in the coarser unit, and a softmax
\* lands a hair off them.
Round(score) == ((score + Half) \div (2 * Half)) * (2 * Half)

EvaluateScore(a, o) ==
  IF (a.rejectExtra /\ o.extra) \/ o.score = None THEN "no-decision"
  ELSE IF Round(o.score) >= a.banAt THEN "ban"
  ELSE IF Round(o.score) <= a.dismissAt THEN "dismiss"
  ELSE "no-decision"

EvaluateLine(a, o) ==
  IF a.requireClosed /\ o.open THEN "no-decision"
  ELSE IF o.verdicts = <<a.ban>> THEN "ban"
  ELSE IF o.verdicts = <<a.dismiss>> THEN "dismiss"
  ELSE "no-decision"

\* The reading of a labelled field: each has to be there, once.  A mutant
\* takes a field that is missing for one that is empty.
OmittedIsEmpty(o) == Len(o.verdicts) = 1 /\ Len(o.categories) <= 1
Fields(o) == Len(o.verdicts) = 1 /\ Len(o.categories) = 1

Codes(o) == IF o.categories = <<>> THEN {} ELSE o.categories[1]

EvaluateTaxonomy(a, class, o) ==
  IF \/ a.required[class] = None
     \/ ~Fields(o)
     \/ o.verdicts[1] \in a.undecided
     \/ a.known # {} /\ ~(Codes(o) \subseteq a.known)
  THEN "no-decision"
  ELSE IF o.verdicts[1] = a.unsafe /\ a.required[class] \in Codes(o) THEN "ban"
  ELSE IF o.verdicts[1] = a.safe /\ Codes(o) \subseteq a.empty THEN "dismiss"
  ELSE "no-decision"

Evaluate(p, class, o) ==
  CASE p.adapter.kind = "score" -> EvaluateScore(p.adapter, o)
    [] p.adapter.kind = "line" -> EvaluateLine(p.adapter, o)
    [] p.adapter.kind = "taxonomy" -> EvaluateTaxonomy(p.adapter, class, o)

-----------------------------------------------------------------------------
(* What the published terms document, written the other way round: the     *)
(* outputs that may decide, instead of the checks an output has to pass.   *)

Means(p, class, outcome, o) ==
  LET a == p.adapter IN
  CASE a.kind = "score" ->
         /\ o.score # None
         /\ o.extra => ~a.rejectExtra
         /\ IF outcome = "ban" THEN o.score + Half >= a.banAt
                               ELSE o.score < a.dismissAt + Half
    [] a.kind = "line" ->
         /\ o.verdicts = << IF outcome = "ban" THEN a.ban ELSE a.dismiss >>
         /\ o.open => ~a.requireClosed
    [] a.kind = "taxonomy" ->
         IF outcome = "ban"
           THEN \E codes \in SUBSET (IF a.known = {} THEN Code ELSE a.known) :
                  /\ a.required[class] \in codes
                  /\ o.verdicts = <<a.unsafe>> /\ o.categories = <<codes>>
           ELSE \E codes \in SUBSET a.empty :
                  o.verdicts = <<a.safe>> /\ o.categories = <<codes>>
=============================================================================
