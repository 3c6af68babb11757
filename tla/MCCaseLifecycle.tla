-------------------------- MODULE MCCaseLifecycle ---------------------------
(***************************************************************************)
(* Small instances of CaseLifecycle for TLC.                               *)
(***************************************************************************)
EXTENDS CaseLifecycle, TLC

CONSTANTS c1, c2, r1, r2, r3, e1, e2, e3

\* Two reports with evidence of their own.
DistinctEvidence == (r1 :> e1) @@ (r2 :> e2)

\* Two with the same material, a third with new material.
MixedEvidence == (r1 :> e1) @@ (r2 :> e1) @@ (r3 :> e2)

=============================================================================
