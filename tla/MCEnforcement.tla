--------------------------- MODULE MCEnforcement ----------------------------
(***************************************************************************)
(* Small instances of Enforcement for TLC.                                 *)
(***************************************************************************)
EXTENDS Enforcement

CONSTANTS a, b, u1, u2

Signed(c, kind, decidedAt, executeAfter, expires) ==
  [case |-> c, user |-> u1, kind |-> kind, decidedAt |-> decidedAt,
   executeAfter |-> executeAfter, expires |-> expires]

Opened(c, at) == Signed(c, "open-case", at, at, Permanent)
Dismissed(c, at) == Signed(c, "dismiss", at, at, Permanent)
Banned(c, at, expires) == Signed(c, "ban", at, at, expires)

\* A case whose ban waits out the appeal window and is then reversed, beside
\* one with a ban that stands.
SuspendedBesideBan ==
  {Opened(a, 0), Signed(a, "ban", 0, 2, Permanent), Dismissed(a, 1),
   Banned(b, 0, Permanent)}
SuspendedUnnoticed == SuspendedBesideBan \ {Opened(a, 0)}

\* A ban that expires, and a second case that is opened and dismissed.
ExpiresBesideDismissed ==
  {Opened(a, 0), Banned(a, 1, 2), Opened(b, 0), Dismissed(b, 1)}

\* A recovery grant for the case, and an unban grant.
ForA(id, u) == [id |-> id, grantee |-> u, case |-> a]
Unban(id, u) == [id |-> id, grantee |-> u, case |-> None]
NoGrants == {}
GrantAndUnban == {ForA(1, u2), Unban(2, u2)}

\* The instances meet the hypothesis of RecoveredForGood.
ASSUME InstancesAreFinal == RulingsFinal
=============================================================================
