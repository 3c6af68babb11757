----------------------------- MODULE MarksFold ------------------------------
(***************************************************************************)
(* The loop of intended_marks over the verdicts on file, read back in the  *)
(* order of verdicts_for_device.  Docket.tla has the steps that put them   *)
(* on file, and compares the loop with the definitions of Marks.tla that   *)
(* the enforcement model uses.                                             *)
(*                                                                         *)
(* The loop pushes to its lists what it reads, as it reads it, so a list   *)
(* is the set of what is on it: its last entry is the one read last.       *)
(***************************************************************************)
EXTENDS Marks, SequencesExt

VARIABLES
  arrived,    \* verdicts on file, in order of receipt
  executed,   \* those flagged executed
  superseded, \* those flagged superseded
  at          \* the time the record is read at

File == Range(arrived)
Live == File \ superseded
Position(v) == CHOOSE i \in DOMAIN arrived : arrived[i] = v

\* A mutant of ReadsBefore.
ReadsByArrival(v, w) == Position(v) < Position(w)

\* ORDER BY decided_at, precedence, received_at, read backwards.
ReadsBefore(v, w) ==
  \/ Later(w, v)
  \/ ~Later(v, w) /\ Position(v) < Position(w)

ReadLast(S) == CHOOSE v \in S : \A w \in S \ {v} : ReadsBefore(w, v)

-----------------------------------------------------------------------------
\* The accumulators of the loop: open_cases, bans, authorized_by (empty where
\* the code names a rule, expiry or reconciliation, instead of a verdict),
\* realizes.
Fold == [open: SUBSET Verdict, bans: SUBSET Verdict,
         by: SUBSET Verdict, realizes: SUBSET Verdict]
EmptyFold == [open |-> {}, bans |-> {}, by |-> {}, realizes |-> {}]

OfCase(S, c) == {v \in S : v.case = c}

CloseOpenCase(f, c) ==
  [f EXCEPT !.open = @ \ OfCase(@, c), !.realizes = @ \ OfCase(f.open, c)]
LiftBan(f, c) ==
  [f EXCEPT !.bans = @ \ OfCase(@, c), !.realizes = @ \ OfCase(f.bans, c)]

FoldOpen(f, v) ==
  IF OfCase(f.open, v.case) = {}
    THEN [f EXCEPT !.open = @ \cup {v}, !.realizes = @ \cup {v}, !.by = {v}]
    ELSE [f EXCEPT !.by = {v}]

FoldDismiss(f, v) ==
  LET lifted == LiftBan(CloseOpenCase(f, v.case), v.case)
  IN  [lifted EXCEPT !.by = {v}, !.realizes = @ \cup {v}]

FoldBan(f, v) ==
  LET closed == CloseOpenCase(f, v.case)
      lifted == LiftBan(closed, v.case)
  IN  IF InForce(v, at)
        THEN [lifted EXCEPT !.bans = @ \cup {v}, !.by = {v}, !.realizes = @ \cup {v}]
      ELSE IF Expired(v, at)
        THEN [lifted EXCEPT !.by = {}]
      ELSE [closed EXCEPT !.by = {v}]

FoldVerdict(f, v) ==
  CASE v.kind = "open-case" -> FoldOpen(f, v)
    [] v.kind = "dismiss" -> FoldDismiss(f, v)
    [] v.kind = "ban" -> FoldBan(f, v)

\* The accumulators once the verdicts of S are read.
Loop[S \in SUBSET Live] ==
  IF S = {} THEN EmptyFold
  ELSE LET v == ReadLast(S) IN FoldVerdict(Loop[S \ {v}], v)

Folded == Loop[Live]

FoldedBits == [caseOpen |-> Folded.open # {}, banned |-> Folded.bans # {}]
FoldedBanExecuted == Folded.bans \cap executed # {}

AuthorizedBy == IF Folded.bans # {} THEN {ReadLast(Folded.bans)}
                ELSE IF Folded.open # {} THEN {ReadLast(Folded.open)}
                ELSE Folded.by
=============================================================================
