---------------------------- MODULE CaseContract ----------------------------
(***************************************************************************)
(* What the authority promises about one (accused, class) pair, with every *)
(* request, lock, notice and clock left out.                               *)
(*                                                                         *)
(* A case is opened on a report, collects further reports while it is      *)
(* open, is ruled on once, and only a ban can be moved again - to a        *)
(* reversal, once.  Reports enter a case file while the case is open and   *)
(* the file is frozen by the ruling; a report serves one case only.        *)
(*                                                                         *)
(* CaseLifecycle implements this module.                                   *)
(***************************************************************************)
CONSTANTS Case,    \* case identifiers
          Report   \* report identifiers

VARIABLES phase,   \* phase[c]: where case c stands
          file     \* file[c]: the reports attached to case c

contractVars == <<phase, file>>

Phase == {"absent", "open", "dismissed", "banned", "reversed"}

ContractInit ==
  /\ phase = [c \in Case |-> "absent"]
  /\ file  = [c \in Case |-> {}]

Unfiled(r) == \A c \in Case : r \notin file[c]

Open(c, r) ==
  /\ \A d \in Case : phase[d] # "open"
  /\ phase[c] = "absent"
  /\ Unfiled(r)
  /\ phase' = [phase EXCEPT ![c] = "open"]
  /\ file'  = [file EXCEPT ![c] = {r}]

Join(c, r) ==
  /\ phase[c] = "open"
  /\ Unfiled(r)
  /\ file' = [file EXCEPT ![c] = @ \cup {r}]
  /\ UNCHANGED phase

Rule(c) ==
  /\ phase[c] = "open"
  /\ \E outcome \in {"dismissed", "banned"} :
        phase' = [phase EXCEPT ![c] = outcome]
  /\ UNCHANGED file

Reverse(c) ==
  /\ phase[c] = "banned"
  /\ phase' = [phase EXCEPT ![c] = "reversed"]
  /\ UNCHANGED file

ContractNext ==
  \E c \in Case :
     \/ Rule(c)
     \/ Reverse(c)
     \/ \E r \in Report : Open(c, r) \/ Join(c, r)

ContractSpec == ContractInit /\ [][ContractNext]_contractVars
=============================================================================
