------------------------------- MODULE Marks --------------------------------
(***************************************************************************)
(* What a set of verdicts on file says of a device's two marks at a given  *)
(* time: the interface's intended_marks, binding_state and                 *)
(* open_case_notices (src/apple/src/enforcement.rs), written without the   *)
(* loop.  MarksFold.tla has the loop and shows that the two agree.         *)
(*                                                                         *)
(* A verdict carries what its document says of time: when it was decided,  *)
(* and for a ban when it takes effect and when it expires.  Only the flags *)
(* of bans are followed: the code sets `executed` on other rows too, and   *)
(* reads it on bans alone.                                                 *)
(***************************************************************************)
EXTENDS Naturals

CONSTANTS
  Case,      \* cases at the authority
  User,      \* identities; each has the one enrollment of its own
  Verdict,   \* verdicts the authority signs
  Permanent  \* banExpires of a ban that never expires

ASSUME MarksAssumption ==
  /\ Permanent \notin Nat
  /\ Verdict \subseteq
       [case: Case, user: User, kind: {"open-case", "ban", "dismiss"},
        decidedAt: Nat, executeAfter: Nat, expires: Nat \cup {Permanent}]
  \* an authority never rules twice on a case in the same second
  /\ \A v, w \in Verdict :
       v.kind = "ban" /\ w.kind = "ban" /\ v.case = w.case
         /\ v.decidedAt = w.decidedAt => v = w

\* Mutants of InForce and Unresolved.
InForceWhenDecided(v, t) == v.expires = Permanent \/ v.expires > t
UnresolvedWhenInForce(v, t) ==
  v.executeAfter <= t /\ (v.expires = Permanent \/ v.expires > t)

Precedence(v) == CASE v.kind = "open-case" -> 0
                   [] v.kind = "ban" -> 1
                   [] v.kind = "dismiss" -> 2

\* The order of the record: by decision, then by precedence.  How the store
\* breaks the remaining ties (by arrival) makes no difference here.
Later(v, w) ==
  \/ v.decidedAt > w.decidedAt
  \/ v.decidedAt = w.decidedAt /\ Precedence(v) > Precedence(w)

Expired(v, t) == v.expires # Permanent /\ v.expires <= t
InForce(v, t) == v.executeAfter <= t /\ ~Expired(v, t)

\* A ban recovery may not move: in force, or still waiting for its day.
Unresolved(v, t) == ~Expired(v, t)

\* Cases with an open-case verdict and no terminal one after it; a ban
\* closes its case whether or not it is in force.
OpenCases(file) ==
  {c \in Case : \E o \in file :
     /\ o.case = c
     /\ o.kind = "open-case"
     /\ \A w \in file : w.case = c /\ Later(w, o) => w.kind = "open-case"}

\* Bans in force that no later verdict of their case has ended: a
\* dismissal, an expired ban or a replacement in force does, a ban still
\* waiting for its day does not.
BansInForce(file, t) ==
  {b \in file :
     /\ b.kind = "ban"
     /\ InForce(b, t)
     /\ \A w \in file : w.case = b.case /\ Later(w, b) =>
          \/ w.kind = "open-case"
          \/ w.kind = "ban" /\ w.executeAfter > t /\ ~Expired(w, t)}

Bits == [caseOpen: BOOLEAN, banned: BOOLEAN]
Clean == [caseOpen |-> FALSE, banned |-> FALSE]

Intended(file, t) ==
  [caseOpen |-> OpenCases(file) # {}, banned |-> BansInForce(file, t) # {}]

\* binding_state: the newest verdict of each case governs it.
Governs(v, file) ==
  /\ v \in file
  /\ \A w \in file : w.case = v.case => ~Later(w, v)

StateOpen(file) == \E v \in file : Governs(v, file) /\ v.kind = "open-case"
StateBanned(file, t) ==
  \E v \in file : Governs(v, file) /\ v.kind = "ban" /\ Unresolved(v, t)
=============================================================================
