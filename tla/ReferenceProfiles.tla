-------------------------- MODULE ReferenceProfiles --------------------------
(***************************************************************************)
(* The six model profiles this build ships (src/authority/src/profiles.rs) *)
(* as far as they bear on a decision.  Scores are in units of 5e-7: the    *)
(* code rounds to six decimals, two of these.                              *)
(***************************************************************************)
EXTENDS Profiles

\* policy.rs: the classes with a canonical rule.
RuledClasses == {"csam", "credible-violence", "unsolicited-pornography"}

score_thresholds == [ban |-> 1800000, dismiss |-> 400000]

NativeCodes(csam, violence, porn) ==
  [c \in Class |-> CASE c = "csam" -> csam
                     [] c = "credible-violence" -> violence
                     [] c = "unsolicited-pornography" -> porn
                     [] OTHER -> None]

Score(rejectExtra) ==
  [kind |-> "score", banAt |-> score_thresholds.ban, dismissAt |-> score_thresholds.dismiss,
   rejectExtra |-> rejectExtra]

Shieldstral ==
  [id |-> "shieldstral-3b", maxImages |-> 1, rules |-> RuledClasses, adapter |-> Score(TRUE)]

GptOssSafeguard ==
  [id |-> "gpt-oss-safeguard-20b", maxImages |-> 0, rules |-> RuledClasses,
   adapter |-> [kind |-> "line", ban |-> "1", dismiss |-> "0", requireClosed |-> FALSE]]

Qwen3Guard ==
  [id |-> "qwen3guard-8b", maxImages |-> 0, rules |-> {},
   adapter |->
     [kind |-> "taxonomy", unsafe |-> "Unsafe", safe |-> "Safe", undecided |-> {"Controversial"},
      empty |-> {"None"},
      known |-> {"None", "Violent", "Non-violent Illegal Acts", "Sexual Content or Sexual Acts",
                 "PII", "Suicide & Self-Harm", "Unethical Acts", "Politically Sensitive Topics",
                 "Copyright Violation", "Jailbreak"},
      required |-> NativeCodes("Sexual Content or Sexual Acts", "Violent",
                               "Sexual Content or Sexual Acts")]]

Nemotron ==
  [id |-> "nemotron-3.5-content-safety-4b", maxImages |-> 1, rules |-> RuledClasses,
   adapter |-> [kind |-> "line", ban |-> "unsafe", dismiss |-> "safe", requireClosed |-> TRUE]]

LlamaGuard ==
  [id |-> "llama-guard-4-12b", maxImages |-> 3, rules |-> {},
   adapter |->
     [kind |-> "taxonomy", unsafe |-> "unsafe", safe |-> "safe", undecided |-> {}, empty |-> {},
      known |-> {"S1", "S2", "S3", "S4", "S5", "S6", "S7", "S8", "S9", "S10", "S11", "S12", "S13"},
      required |-> NativeCodes("S4", "S1", "S12")]]

ShieldGemma ==
  [id |-> "shieldgemma-9b", maxImages |-> 0, rules |-> RuledClasses, adapter |-> Score(FALSE)]

Builtin == {Shieldstral, GptOssSafeguard, Qwen3Guard, Nemotron, LlamaGuard, ShieldGemma}
=============================================================================
