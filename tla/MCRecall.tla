------------------------------ MODULE MCRecall ------------------------------
(***************************************************************************)
(* Small instances of Recall for TLC.                                      *)
(***************************************************************************)
EXTENDS Recall

CONSTANTS a, b, u1, u2

Signed(c, kind, decidedAt, executeAfter, expires) ==
  [case |-> c, user |-> u1, kind |-> kind, decidedAt |-> decidedAt,
   executeAfter |-> executeAfter, expires |-> expires]

\* A ban that waits for its day and expires, beside a case that stays open.
BanBesideOpen ==
  {Signed(a, "ban", 0, 1, 2), Signed(b, "open-case", 0, 0, Permanent)}
=============================================================================
