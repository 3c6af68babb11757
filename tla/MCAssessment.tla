---------------------------- MODULE MCAssessment -----------------------------
(***************************************************************************)
(* A small instance of Assessment for TLC: a case of a text, to which      *)
(* pictures may be added, before profiles of the three kinds of adapter,   *)
(* and outputs on either side of their checks.                             *)
(***************************************************************************)
EXTENDS Assessment, ReferenceProfiles

CONSTANTS c1, text

Shipped == {Qwen3Guard, Nemotron, Shieldstral}

Lines(verdicts, categories, open) ==
  [verdicts |-> verdicts, categories |-> categories, open |-> open,
   extra |-> FALSE, score |-> None]
Softmax(score, extra) ==
  [verdicts |-> <<>>, categories |-> <<>>, open |-> FALSE, extra |-> extra, score |-> score]

Native == "Sexual Content or Sexual Acts"
Outputs ==
  Qwen3Guard :> { Lines(<<"Unsafe">>, <<{Native}>>, FALSE),
                  Lines(<<"Unsafe">>, <<{Native, "WHAT"}>>, FALSE),
                  Lines(<<"Safe">>, <<>>, FALSE) }
    @@ Nemotron :> {Lines(<<"unsafe">>, <<>>, TRUE), Lines(<<"safe">>, <<>>, FALSE)}
    @@ Shieldstral :> {Softmax(1799999, FALSE), Softmax(1800000, TRUE)}

KnownAndNot == Qwen3Guard.adapter.known \cup {"WHAT"}
Labels == {"Unsafe", "Safe", "Controversial", "unsafe", "safe"}
Opening == c1 :> 0
Classes == c1 :> "csam"
Filed == c1 :> <<text>>

\* Every profile the build ships can decide every class the policy rules on.
ASSUME ShippedProfilesDecide == \A p \in Builtin, class \in RuledClasses : CanDecide(p, class)
=============================================================================
