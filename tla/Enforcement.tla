---------------------------- MODULE Enforcement -----------------------------
(***************************************************************************)
(* The Apple interface: verdicts received from the authority, gate checks  *)
(* that bring a device's bits in line with the record, and the recovery    *)
(* and unban grants (src/apple/src/api.rs, enforcement.rs, store.rs).      *)
(*                                                                         *)
(* A store method holds the connection lock for its whole body, so a step  *)
(* is one store call, or one request to Apple, with the lock-free work     *)
(* next to it.  What a session or a handler has read is kept in its own    *)
(* record and may be stale when used.  Apple is external: it keeps two     *)
(* bits per device, and an update may be executed, executed with the       *)
(* answer lost, or lost on the way.                                        *)
(*                                                                         *)
(* Identities are enrolled and their mandates on file from the start; a    *)
(* binding is named by the identity it was made for.  Verdicts and grants  *)
(* that do not verify are refused before they reach this state, so the     *)
(* constants hold only those that do.                                      *)
(***************************************************************************)
EXTENDS Marks, FiniteSets

CONSTANTS
  Device,    \* devices, as Apple tells them apart and the interface cannot
  Grant,     \* recovery grants, and unban grants (those that name no case)
  Session,   \* gate checks and recoveries that may be in flight at once
  Ingest,    \* receive_verdict handlers that may be in flight at once
  None,
  MaxTime,   \* bound: the clock stops here
  MaxFaults  \* bound: failed updates and restarts

ASSUME EnforcementAssumption ==
  /\ Grant \subseteq [id: Nat, grantee: User, case: Case \cup {None}]
  /\ None \notin User \cup Case \cup Verdict \cup Grant \cup Device
  /\ {MaxTime, MaxFaults} \subseteq Nat

VARIABLES
  now,
  bits,        \* Apple's: the two bits of each device
  \* the verdicts table: device_binding (None until stored), superseded, executed
  boundTo, superseded, executed,
  \* the recoveries and unban_recoveries tables; the newest recovery per case
  redeemed, movedTo, movedAt,
  ingest, session,
  carried,     \* history: the bans a write to the device put into effect
  faults

rowVars    == <<boundTo, superseded, executed>>
grantVars  == <<redeemed, movedTo, movedAt>>
deviceVars == <<bits, carried>>
vars == <<now, deviceVars, rowVars, grantVars, ingest, session, faults>>

IdleIngest == [pc |-> "idle", verdict |-> None, to |-> None]
Receiving == {IdleIngest} \cup [pc: {"put", "supersede"}, verdict: Verdict, to: User]

Checking == [pc: {"idle", "presented", "resolved", "verified", "sourced",
                  "checked", "unban", "unbanWrite", "queried", "write", "mark"},
             user: User \cup {None}, device: Device \cup {None}, at: Nat,
             seen: Bits, grant: Grant \cup {None}, from: User \cup {None},
             write: Bits, realizes: SUBSET Verdict]
IdleSession == [pc |-> "idle", user |-> None, device |-> None, at |-> 0,
                seen |-> Clean, grant |-> None, from |-> None,
                write |-> Clean, realizes |-> {}]

TypeOK ==
  /\ now \in Nat
  /\ bits \in [Device -> Bits]
  /\ boundTo \in [Verdict -> User \cup {None}]
  /\ superseded \subseteq Verdict
  /\ executed \subseteq Verdict
  /\ redeemed \subseteq Grant
  /\ movedTo \in [Case -> User \cup {None}]
  /\ movedAt \in [Case -> Nat]
  /\ ingest \in [Ingest -> Receiving]
  /\ session \in [Session -> Checking]
  /\ carried \in [Device -> SUBSET Verdict]
  /\ faults \in Nat

Init ==
  /\ now = 0
  /\ bits = [d \in Device |-> Clean]
  /\ boundTo = [v \in Verdict |-> None]
  /\ superseded = {}
  /\ executed = {}
  /\ redeemed = {}
  /\ movedTo = [c \in Case |-> None]
  /\ movedAt = [c \in Case |-> 0]
  /\ ingest = [i \in Ingest |-> IdleIngest]
  /\ session = [s \in Session |-> IdleSession]
  /\ carried = [d \in Device |-> {}]
  /\ faults = 0

-----------------------------------------------------------------------------
(* Mutants: the definitions below as a plausible mistake would have them.  *)

BrandAnyDevice(s) == FALSE
AnyBanWithheld(s) == TRUE
MovesWholeBinding(v, g, from) == boundTo[v] = from
AcknowledgedOrNot(ok) == TRUE

-----------------------------------------------------------------------------
(* The record.                                                             *)

RowsOf(u) == {v \in Verdict : boundTo[v] = u}
FileOf(u) == RowsOf(u) \ superseded
CaseFile(u, c) == {v \in FileOf(u) : v.case = c}

\* What a session's reading of the record, at its own time, makes of the
\* device.
IntendedFor(s) == Intended(FileOf(session[s].user), session[s].at)
BansFor(s) == BansInForce(FileOf(session[s].user), session[s].at)

\* A ban already put on a device meets a device without it.
AlreadyBranded(s) == BansFor(s) \cap executed # {}
WouldBrandAnother(s) ==
  IntendedFor(s).banned /\ ~session[s].seen.banned /\ AlreadyBranded(s)

\* Only an accepted write executes the verdicts behind it.
Accepted(ok) == ok

\* The rows adopt_binding moves.
MovedBy(v, g, from) == boundTo[v] = from /\ v.case = g.case

\* binding_for_ingest: a recovered case's verdicts follow it.
IngestTarget(v) == IF movedTo[v.case] = None THEN v.user ELSE movedTo[v.case]

BindingsOf(c) == {boundTo[v] : v \in {w \in Verdict : w.case = c}} \ {None}

\* A session opens with the clock and the bits Apple answered with.
Opening(pc, u, d, g) ==
  [pc |-> pc, user |-> u, device |-> d, at |-> now, seen |-> bits[d],
   grant |-> g, from |-> None, write |-> Clean, realizes |-> {}]
Enter(s, pc) == session' = [session EXCEPT ![s].pc = pc]
Leave(s) == session' = [session EXCEPT ![s] = IdleSession]

-----------------------------------------------------------------------------
(* receive_verdict: the binding the row goes under is looked up, the row   *)
(* stored unless it is on file, and a terminal verdict supersedes the      *)
(* notices of its case; each under a lock of its own.                      *)

Receive(i, v) ==
  /\ ingest[i].pc = "idle"
  /\ v.decidedAt <= now
  /\ ingest' = [ingest EXCEPT ![i] =
       [pc |-> "put", verdict |-> v, to |-> IngestTarget(v)]]
  /\ UNCHANGED <<now, deviceVars, rowVars, grantVars, session, faults>>

PutVerdict(i) ==
  LET v == ingest[i].verdict IN
  /\ ingest[i].pc = "put"
  /\ boundTo' = IF boundTo[v] = None THEN [boundTo EXCEPT ![v] = ingest[i].to]
                                     ELSE boundTo
  /\ ingest' = [ingest EXCEPT ![i] =
       IF v.kind = "open-case" THEN IdleIngest ELSE [@ EXCEPT !.pc = "supersede"]]
  /\ UNCHANGED <<now, deviceVars, superseded, executed, grantVars, session, faults>>

Supersede(i) ==
  /\ ingest[i].pc = "supersede"
  /\ superseded' = superseded \cup
       {o \in Verdict : /\ boundTo[o] # None
                        /\ o.case = ingest[i].verdict.case
                        /\ o.kind = "open-case"}
  /\ ingest' = [ingest EXCEPT ![i] = IdleIngest]
  /\ UNCHANGED <<now, deviceVars, boundTo, executed, grantVars, session, faults>>

-----------------------------------------------------------------------------
(* gate_check: the clock, the query to Apple, the fold, the write.         *)

GateStart(s, u, d) ==
  /\ session[s].pc = "idle"
  /\ session' = [session EXCEPT ![s] = Opening("queried", u, d, None)]
  /\ UNCHANGED <<now, deviceVars, rowVars, grantVars, ingest, faults>>

\* reconcile leaves the bits alone.
Answer(s) ==
  /\ session[s].pc = "queried"
  /\ \/ RowsOf(session[s].user) = {}
     \/ IntendedFor(s) = session[s].seen
     \/ WouldBrandAnother(s)
  /\ Leave(s)
  /\ UNCHANGED <<now, deviceVars, rowVars, grantVars, ingest, faults>>

\* ... or has a write to make.
Reconcile(s) ==
  /\ session[s].pc = "queried"
  /\ RowsOf(session[s].user) # {}
  /\ IntendedFor(s) # session[s].seen
  /\ ~WouldBrandAnother(s)
  /\ session' = [session EXCEPT ![s] = [@ EXCEPT
       !.pc = "write", !.write = IntendedFor(s), !.realizes = BansFor(s)]]
  /\ UNCHANGED <<now, deviceVars, rowVars, grantVars, ingest, faults>>

\* write_bits.  An unaccepted write ends the session with an error.
Write(s, executes, ok) ==
  LET d == session[s].device IN
  /\ session[s].pc = "write"
  /\ ok => executes
  /\ IF ok THEN UNCHANGED faults ELSE faults < MaxFaults /\ faults' = faults + 1
  /\ IF executes
       THEN /\ bits' = [bits EXCEPT ![d] = session[s].write]
            /\ carried' = [carried EXCEPT ![d] = @ \cup session[s].realizes]
       ELSE UNCHANGED deviceVars
  /\ IF Accepted(ok) THEN Enter(s, "mark") ELSE Leave(s)
  /\ UNCHANGED <<now, rowVars, grantVars, ingest>>

\* mark_executed, one row at a time.
MarkExecuted(s, v) ==
  /\ session[s].pc = "mark"
  /\ v \in session[s].realizes
  /\ executed' = executed \cup {v}
  /\ session' = [session EXCEPT ![s].realizes = @ \ {v}]
  /\ UNCHANGED <<now, deviceVars, boundTo, superseded, grantVars, ingest, faults>>

Marked(s) ==
  /\ session[s].pc = "mark"
  /\ session[s].realizes = {}
  /\ Leave(s)
  /\ UNCHANGED <<now, deviceVars, rowVars, grantVars, ingest, faults>>

-----------------------------------------------------------------------------
(* recover: a banned device presents a grant.  One read per step until the *)
(* transaction, then ordinary reconciliation on the bits first read.       *)

RecoverStart(s, g, d) ==
  /\ session[s].pc = "idle"
  /\ bits[d].banned
  /\ session' = [session EXCEPT ![s] = Opening("presented", g.grantee, d, g)]
  /\ UNCHANGED <<now, deviceVars, rowVars, grantVars, ingest, faults>>

\* binding_for_case: no binding, or more than one, is a refusal.
Resolve(s) ==
  LET c == session[s].grant.case IN
  /\ session[s].pc = "presented"
  /\ c # None
  /\ \E u \in User :
       /\ BindingsOf(c) = {u}
       /\ session' = [session EXCEPT ![s] = [@ EXCEPT !.pc = "resolved", !.from = u]]
  /\ UNCHANGED <<now, deviceVars, rowVars, grantVars, ingest, faults>>

\* verify_grant_signature needs a row of the case; then grant_redeemed.
CanVerify(s) ==
  /\ \E v \in RowsOf(session[s].from) : v.case = session[s].grant.case
  /\ session[s].grant \notin redeemed
Verify(s) ==
  /\ session[s].pc = "resolved"
  /\ CanVerify(s)
  /\ Enter(s, "verified")
  /\ UNCHANGED <<now, deviceVars, rowVars, grantVars, ingest, faults>>

\* The named case must be terminal where it is ...
SourceSettled(s) ==
  LET file == CaseFile(session[s].from, session[s].grant.case)
  IN  ~StateBanned(file, session[s].at) /\ ~StateOpen(file)
SourceState(s) ==
  /\ session[s].pc = "verified"
  /\ SourceSettled(s)
  /\ Enter(s, "sourced")
  /\ UNCHANGED <<now, deviceVars, rowVars, grantVars, ingest, faults>>

\* ... and the grantee must carry no ban of their own.
DestUnbanned(s) == ~StateBanned(FileOf(session[s].user), session[s].at)
DestState(s) ==
  /\ session[s].pc = "sourced"
  /\ DestUnbanned(s)
  /\ Enter(s, "checked")
  /\ UNCHANGED <<now, deviceVars, rowVars, grantVars, ingest, faults>>

\* adopt_binding: the redemption, the rows and the log entry, or nothing.
\* Recoveries are ordered by the clock each session read, not by commit.
Adopt(s) ==
  LET g == session[s].grant
      at == session[s].at
  IN
  /\ session[s].pc = "checked"
  /\ g \notin redeemed
  /\ redeemed' = redeemed \cup {g}
  /\ boundTo' = [v \in Verdict |->
       IF MovedBy(v, g, session[s].from) THEN session[s].user ELSE boundTo[v]]
  /\ IF movedTo[g.case] = None \/ at >= movedAt[g.case]
       THEN /\ movedTo' = [movedTo EXCEPT ![g.case] = session[s].user]
            /\ movedAt' = [movedAt EXCEPT ![g.case] = at]
       ELSE UNCHANGED <<movedTo, movedAt>>
  /\ Enter(s, "queried")
  /\ UNCHANGED <<now, deviceVars, superseded, executed, ingest, faults>>

\* recover_unban_grant: no case is named; the grantee's own record must be
\* settled, the grant is spent, and the write follows it.
UnbanCheck(s) ==
  LET file == FileOf(session[s].user) IN
  /\ session[s].pc = "presented"
  /\ session[s].grant.case = None
  /\ session[s].grant \notin redeemed
  /\ ~StateBanned(file, session[s].at) /\ ~StateOpen(file)
  /\ Enter(s, "unban")
  /\ UNCHANGED <<now, deviceVars, rowVars, grantVars, ingest, faults>>

UnbanRedeem(s) ==
  /\ session[s].pc = "unban"
  /\ session[s].grant \notin redeemed
  /\ redeemed' = redeemed \cup {session[s].grant}
  /\ Enter(s, "unbanWrite")
  /\ UNCHANGED <<now, deviceVars, rowVars, movedTo, movedAt, ingest, faults>>

UnbanWrite(s, executes, ok) ==
  /\ session[s].pc = "unbanWrite"
  /\ ok => executes
  /\ IF ok THEN UNCHANGED faults ELSE faults < MaxFaults /\ faults' = faults + 1
  /\ bits' = IF executes THEN [bits EXCEPT ![session[s].device] = Clean] ELSE bits
  /\ IF ok THEN session' = [session EXCEPT ![s] = [@ EXCEPT !.pc = "queried", !.seen = Clean]]
           ELSE Leave(s)
  /\ UNCHANGED <<now, carried, rowVars, grantVars, ingest>>

\* Every other answer a presented grant may get moves nothing.
Refuse(s) ==
  LET g == session[s].grant
      own == FileOf(session[s].user)
  IN
  /\ \/ /\ session[s].pc = "presented" /\ g.case # None
        /\ Cardinality(BindingsOf(g.case)) # 1
     \/ session[s].pc = "resolved" /\ ~CanVerify(s)
     \/ session[s].pc = "verified" /\ ~SourceSettled(s)
     \/ session[s].pc = "sourced" /\ ~DestUnbanned(s)
     \/ session[s].pc \in {"checked", "unban"} /\ g \in redeemed
     \/ /\ session[s].pc = "presented" /\ g.case = None
        /\ \/ g \in redeemed
           \/ StateBanned(own, session[s].at) \/ StateOpen(own)
  /\ Leave(s)
  /\ UNCHANGED <<now, deviceVars, rowVars, grantVars, ingest, faults>>

-----------------------------------------------------------------------------
Tick ==
  /\ now < MaxTime
  /\ now' = now + 1
  /\ UNCHANGED <<deviceVars, rowVars, grantVars, ingest, session, faults>>

Restart ==
  /\ faults < MaxFaults
  /\ faults' = faults + 1
  /\ ingest' = [i \in Ingest |-> IdleIngest]
  /\ session' = [s \in Session |-> IdleSession]
  /\ UNCHANGED <<now, deviceVars, rowVars, grantVars>>

IngestStep(i) ==
  \/ \E v \in Verdict : Receive(i, v)
  \/ PutVerdict(i)
  \/ Supersede(i)

GateStep(s) ==
  \/ Answer(s)
  \/ Reconcile(s)
  \/ \E executes, ok \in BOOLEAN : Write(s, executes, ok)
  \/ \E v \in Verdict : MarkExecuted(s, v)
  \/ Marked(s)

GrantStep(s) ==
  \/ Resolve(s)
  \/ Verify(s)
  \/ SourceState(s)
  \/ DestState(s)
  \/ Adopt(s)
  \/ UnbanCheck(s)
  \/ UnbanRedeem(s)
  \/ \E executes, ok \in BOOLEAN : UnbanWrite(s, executes, ok)
  \/ Refuse(s)

Next ==
  \/ \E i \in Ingest : IngestStep(i)
  \/ \E s \in Session, u \in User, d \in Device : GateStart(s, u, d)
  \/ \E s \in Session, g \in Grant, d \in Device : RecoverStart(s, g, d)
  \/ \E s \in Session : GateStep(s) \/ GrantStep(s)
  \/ Tick
  \/ Restart

Spec == Init /\ [][Next]_vars

\* A request that has begun ends (Apple's client has a timeout), and every
\* enrolled device keeps verifying itself, as it does at each session; the
\* bound on sessions must not keep one of them out for ever.
FairSpec ==
  /\ Spec
  /\ \A s \in Session : WF_vars(GateStep(s) \/ GrantStep(s))
  /\ \A u \in User, d \in Device : SF_vars(\E s \in Session : GateStart(s, u, d))

-----------------------------------------------------------------------------
(* Properties.                                                             *)

\* Marks move only on verdicts, and never early: a device is marked banned
\* only after a write that carried a ban on file whose executeAfter had
\* come, although sessions write what they folded from an older record and
\* an older clock.
MarkCarriedByABan ==
  \A d \in Device : bits[d].banned =>
    \E v \in carried[d] :
       /\ v.kind = "ban"
       /\ boundTo[v] # None
       /\ v.executeAfter <= now

\* A ban is flagged executed only when a device did take its mark: lost
\* requests, lost answers and restarts leave it unflagged.
ExecutedWasCarried ==
  \A v \in executed : \E d \in Device : v \in carried[d]

\* A verdict is on a binding other than its mandate's only because a grant
\* for its own case, made out to that identity, has been spent: neither
\* concurrent redemptions nor a verdict that arrives during one carry
\* another case along.
MovedOnlyByGrant ==
  \A v \in Verdict : boundTo[v] \notin {None, v.user} =>
    \E g \in redeemed : g.case = v.case /\ g.grantee = boundTo[v]

\* Recovery never hands a live ban over: no ban of a recovered case is in
\* force for the grantee, then or later, whatever arrives late.
RecoveredStaysClear ==
  \A g \in redeemed : g.case # None =>
    BansInForce(CaseFile(g.grantee, g.case), now) = {}

\* A banned identity that moves to new hardware is refused, and the new
\* device is left alone: one ban marks one device, and one more for each
\* write whose answer or flag was lost.
OneDevicePerBan ==
  \A v \in Verdict : Cardinality({d \in Device : v \in carried[d]}) <= 1 + faults

\* A ban that was executed and is still in force is on a device, once the
\* sessions in flight have ended.
ExecutedBanIsMarked ==
  (\A s \in Session : session[s].pc = "idle") =>
    \A v \in executed :
      v \in BansInForce(FileOf(boundTo[v]), now) => \E d \in Device : bits[d].banned

\* A device that keeps verifying itself ends up with the marks its record
\* implies: set for a ban in force, cleared on reversal, expiry and
\* dismissal, in whatever order the verdicts arrived; or without a mark,
\* because another device bears it.
MarksConverge ==
  \A u \in User, d \in Device :
    <>[](RowsOf(u) # {} =>
           \/ bits[d] = Intended(FileOf(u), now)
           \/ ~bits[d].banned /\ \E e \in Device : bits[e].banned)

-----------------------------------------------------------------------------
(* The inductive invariant.                                                *)

\* What a handler or a session may still rely on of what it read.
GrantFor(c, u) == \E g \in redeemed : g.case = c /\ g.grantee = u

IngestInv ==
  \A i \in Ingest :
    ingest[i].pc = "put" /\ ingest[i].to # ingest[i].verdict.user =>
      GrantFor(ingest[i].verdict.case, ingest[i].to)

Sound(r) ==
  /\ r.at <= now
  /\ r.pc # "idle" => r.user \in User /\ r.device \in Device
  /\ r.pc \in {"presented", "resolved", "verified", "sourced", "checked",
              "unban", "unbanWrite"} =>
        r.grant \in Grant /\ r.user = r.grant.grantee
  /\ r.pc \in {"resolved", "verified", "sourced", "checked"} =>
        r.grant.case \in Case /\ r.from \in User
  /\ r.pc = "write" =>
        /\ r.write.banned => r.realizes # {}
        /\ \A v \in r.realizes :
              v.kind = "ban" /\ boundTo[v] # None /\ v.executeAfter <= now
  /\ r.pc = "mark" => r.realizes \subseteq carried[r.device]

SessionInv == \A s \in Session : Sound(session[s])

MovedInv ==
  /\ \A c \in Case : movedTo[c] # None => GrantFor(c, movedTo[c])
  /\ \A v \in Verdict :
        boundTo[v] \notin {None, v.user} => GrantFor(v.case, boundTo[v])

CarriedInv ==
  /\ \A d \in Device : \A v \in carried[d] :
        v.kind = "ban" /\ boundTo[v] # None /\ v.executeAfter <= now
  /\ \A d \in Device : bits[d].banned => carried[d] # {}
  /\ \A v \in executed : \E d \in Device : v \in carried[d]

IInv ==
  /\ TypeOK
  /\ IngestInv
  /\ SessionInv
  /\ MovedInv
  /\ CarriedInv

-----------------------------------------------------------------------------
(* What keeps a recovered case clear: an authority whose rulings are final *)
(* and that grants a case to one identity.                                 *)

\* A case has one accused and at most one ban, its dismissal is the later of
\* the two (CaseContract.tla), and no two identities are granted it.
RulingsFinal ==
  /\ \A v, w \in Verdict : v.case = w.case =>
       /\ v.user = w.user
       /\ v.kind = "ban" /\ w.kind = "ban" => v = w
       /\ v.kind = "dismiss" /\ w.kind = "ban" => Later(v, w)
  /\ \A g, h \in Grant : g.case = h.case /\ g.case # None => g.grantee = h.grantee

Stored == {v \in Verdict : boundTo[v] # None}

\* The case carries no ban for u: its dismissal is with u, or its ban is over.
Cleared(c, u) ==
  \E v \in Verdict :
    /\ v.case = c
    /\ \/ v.kind = "dismiss" /\ boundTo[v] = u
       \/ v.kind = "ban" /\ Expired(v, now)

Recovered(c) == \E g \in redeemed : g.case = c

\* Notices are superseded by a ruling on file.
SupersededInv ==
  /\ \A o \in superseded :
       /\ o.kind = "open-case"
       /\ \E w \in Stored : w.case = o.case /\ w.kind # "open-case"
  /\ \A i \in Ingest : ingest[i].pc = "supersede" =>
       ingest[i].verdict \in Stored /\ ingest[i].verdict.kind # "open-case"

\* Until a case is recovered its rows are with the accused; a session that
\* found it settled there may still rely on that.
Relies(r) ==
  /\ r.pc \in {"resolved", "verified", "sourced", "checked"} =>
       /\ \E v \in Stored : v.case = r.grant.case
       /\ \/ Recovered(r.grant.case)
          \/ \A v \in Verdict : v.case = r.grant.case => v.user = r.from
  /\ r.pc \in {"sourced", "checked"} =>
       Recovered(r.grant.case) \/ Cleared(r.grant.case, r.from)
  /\ r.pc = "unban" => r.grant.case = None

RecoveredInv ==
  /\ IsFiniteSet(Stored)
  /\ SupersededInv
  /\ \A s \in Session : Relies(session[s])
  /\ \A g \in redeemed : g.case # None => Cleared(g.case, g.grantee)
-----------------------------------------------------------------------------
(* What sessions keep that do not overlap: the code reads the flags before *)
(* the write and sets them after it, so each property has conditions.      *)

OneAtATime == \A s, q \in Session : s = q
OneBan == \A v, w \in Verdict : v.kind = "ban" /\ w.kind = "ban" => v = w
OneIdentity == \A u, w \in User : u = w

Bears(v) == {d \in Device : v \in carried[d]}

\* A session is about to flag the ban, which the device has taken.
Owed(v) == \E s \in Session : session[s].pc = "mark" /\ v \in session[s].realizes

\* A session brands no device for a ban another device bears already.
BrandsOnce(r) ==
  /\ r.pc # "idle" /\ r.seen.banned => carried[r.device] # {}
  /\ r.pc = "write" => \A v \in r.realizes : v \notin executed \/ v \in carried[r.device]

\* Each device beyond the first is paid for with a fault, and the first one
\* too until the ban is flagged or about to be.
BrandInv ==
  /\ \A v \in Verdict :
       /\ IsFiniteSet(Bears(v))
       /\ Cardinality(Bears(v)) <= 1 + faults
       /\ v \in executed \/ Owed(v) \/ Cardinality(Bears(v)) <= faults
  /\ \A s \in Session : BrandsOnce(session[s])

Stands(v) == v \in executed /\ v \in BansInForce(FileOf(boundTo[v]), now)

\* A session folds no clock older than a ban that was executed before, and
\* clears a device only when no such ban stands.
ClearsNone(r) ==
  /\ r.pc \in {"unban", "unbanWrite"} => \A v \in Verdict : ~Stands(v)
  /\ r.pc \notin {"idle", "write", "mark"} =>
       \A v \in executed : v.executeAfter <= r.at
  /\ r.pc = "write" =>
       /\ r.realizes # {} => r.write.banned
       /\ ~r.write.banned => \A v \in Verdict : ~Stands(v)
  /\ r.pc = "mark" /\ r.realizes # {} => bits[r.device].banned

StandInv ==
  /\ IsFiniteSet(Stored)
  /\ \A v \in Verdict : Stands(v) => \E d \in Device : bits[d].banned
  /\ \A s \in Session : ClearsNone(session[s])
=============================================================================
