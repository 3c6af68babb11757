----------------------------- MODULE MCConsent ------------------------------
(***************************************************************************)
(* A small instance of Consent for TLC: a user who enrolls twice, checks   *)
(* the gate, consents twice to a manifest, once by a clock that runs       *)
(* ahead, and again to its next edition.                                   *)
(***************************************************************************)
EXTENDS Consent, TLC

CONSTANTS u1, c1, c2, c3

TwoEditions == (1 :> 0) @@ (2 :> 1)
Consents == {[user |-> u1, manifest |-> 1, acceptedAt |-> 1],
             [user |-> u1, manifest |-> 1, acceptedAt |-> 0],
             [user |-> u1, manifest |-> 2, acceptedAt |-> 0]}
Requests == {[user |-> u1, purpose |-> "enroll", challenge |-> c, stamp |-> 1] :
               c \in {c1, c3}}
            \cup {[user |-> u1, purpose |-> "gate", challenge |-> c2, stamp |-> 1]}

Symmetric == Permutations(Caller) \cup Permutations(Binding)
=============================================================================
