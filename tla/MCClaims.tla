------------------------------ MODULE MCClaims ------------------------------
(***************************************************************************)
(* Small instances of Claims for TLC.                                      *)
(***************************************************************************)
EXTENDS Claims, TLC

CONSTANTS a1, a2, k1, k2, m1, m2

\* Requests and moderators are interchangeable.
Symmetric ==
  Permutations(Appellant) \cup Permutations(Claimant) \cup Permutations(Moderator)
=============================================================================
