------------------------------- MODULE Recall -------------------------------
(***************************************************************************)
(* The Android interface: verdicts received from the authority and gate    *)
(* checks that bring a device's Play Integrity recall values in line with  *)
(* the record (src/android/src/api.rs, enforcement.rs, store.rs,           *)
(* play_integrity.rs, classifier.rs).                                      *)
(*                                                                         *)
(* The record is folded as on the Apple side (Marks.tla).  The platform    *)
(* differs: a decoded token may lag a write Google has accepted, may carry *)
(* no recall object at all, and a write names only the values that differ  *)
(* from what the token showed.  There is no recovery: a case stays on its  *)
(* mandate's binding.                                                      *)
(*                                                                         *)
(* A store method holds the connection lock for its whole body, so a step  *)
(* is one store call or one request to Google.  A tick of the clock is a   *)
(* day; a write becomes visible, and its grace window lapses, by steps of  *)
(* their own.  The window outlasts the lag, but it is counted from the     *)
(* clock the writing session opened with: after a slow session, counted    *)
(* among the faults, it may lapse before the write is visible.             *)
(***************************************************************************)
EXTENDS Marks, FiniteSets, Sequences

CONSTANTS
  Device,         \* devices, as Google tells them apart
  Session,        \* gate checks that may be in flight at once
  Ingest,         \* receive_verdict handlers that may be in flight at once
  RequireRecall,  \* MODERATION_REQUIRE_RECALL
  None,
  MaxTime,        \* bound: the clock stops here
  MaxFaults       \* bound: tokens not trusted, failed requests to Google, slow
                  \* sessions and restarts

ASSUME RecallAssumption ==
  /\ None \notin User \cup Verdict \cup Device \cup Bits
  /\ RequireRecall \in BOOLEAN
  /\ IsFiniteSet(Session)
  /\ {MaxTime, MaxFaults} \subseteq Nat

VARIABLES
  now,
  held,        \* Google's: the recall values of each device
  shown,       \* ... as a decoded token shows them
  \* the verdicts table
  stored, superseded, executed,
  lastWrite,   \* recall_writes: the state last accepted, while in its window
  log,         \* write_log
  ingest, session,
  carried,     \* history: bans whose write to the device was accepted
  calls,       \* history: write requests sent
  faults

deviceVars == <<held, shown, carried, calls>>
rowVars == <<stored, superseded, executed>>
vars == <<now, deviceVars, rowVars, lastWrite, log, ingest, session, faults>>

IdleIngest == [pc |-> "idle", verdict |-> None]
IdleSession == [pc |-> "idle", user |-> None, device |-> None, at |-> 0, had |-> {},
                seen |-> Clean, readable |-> FALSE, onFile |-> FALSE, want |-> Clean,
                realizes |-> {}, branded |-> FALSE, by |-> None, answer |-> None]

Gate == [pc: {"idle", "decode", "fold", "decide", "write", "log", "record", "mark",
              "answer", "answered"},
         user: User \cup {None}, device: Device \cup {None}, at: Nat,
         had: SUBSET Verdict, seen: Bits, readable: BOOLEAN, onFile: BOOLEAN,
         want: Bits, realizes: SUBSET Verdict, branded: BOOLEAN,
         by: Verdict \cup {None},
         answer: {None, "clear", "caseOpen", "banned", "checkRequired", "failed"}]

Value == {"caseOpen", "banned"}   \* bitFirst, bitSecond
Entry == [previous: Nat, user: User, by: Verdict \cup {None}, want: Bits,
          values: SUBSET Value, ok: BOOLEAN, at: Nat]

TypeOK ==
  /\ now \in Nat
  /\ held \in [Device -> Bits]
  /\ shown \in [Device -> Bits]
  /\ stored \subseteq Verdict
  /\ superseded \subseteq stored
  /\ executed \subseteq Verdict
  /\ lastWrite \in [User -> Bits \cup {None}]
  /\ log \in Seq(Entry)
  /\ ingest \in [Ingest -> {IdleIngest} \cup [pc: {"put", "supersede"}, verdict: Verdict]]
  /\ session \in [Session -> Gate]
  /\ carried \in [Device -> SUBSET Verdict]
  /\ calls \in Nat
  /\ faults \in Nat

Init ==
  /\ now = 0
  /\ held = [d \in Device |-> Clean]
  /\ shown = held
  /\ stored = {}
  /\ superseded = {}
  /\ executed = {}
  /\ lastWrite = [u \in User |-> None]
  /\ log = <<>>
  /\ ingest = [i \in Ingest |-> IdleIngest]
  /\ session = [s \in Session |-> IdleSession]
  /\ carried = [d \in Device |-> {}]
  /\ calls = 0
  /\ faults = 0

-----------------------------------------------------------------------------
(* Mutants: the definitions below as a plausible mistake would have them.  *)

EffectiveAsSeen(s) == session[s].seen
PreviousAsCalled(s) == calls - 1
AnyBanWithheld(s) == session[s].want.banned /\ ~session[s].seen.banned

-----------------------------------------------------------------------------
(* The record.                                                             *)

RowsOf(u) == {v \in stored : v.user = u}
FileOf(u) == RowsOf(u) \ superseded

\* The verdict a write is logged against: the newest ban in force, or else
\* the first notice of the newest open case; None where the code names a
\* dismissal or a rule instead.
NewestOf(rows) == {v \in rows : \A w \in rows : ~Later(w, v)}
Notices(file) == {v \in file : v.kind = "open-case" /\ v.case \in OpenCases(file)}
FirstNotice(file, c) ==
  {v \in Notices(file) : v.case = c /\
     \A w \in Notices(file) : w.case = c => ~Later(v, w)}
AuthorizedBy(file, t) ==
  LET bans == BansInForce(file, t)
      firsts == UNION {FirstNotice(file, c) : c \in OpenCases(file)}
  IN  IF bans # {} THEN NewestOf(bans)
      ELSE IF firsts # {} THEN NewestOf(firsts) ELSE {None}

-----------------------------------------------------------------------------
(* receive_verdict: validated, stored once, and a terminal verdict         *)
(* supersedes the notices of its case that are on file.                    *)

Receive(i, v) ==
  /\ ingest[i].pc = "idle"
  /\ v.decidedAt <= now
  /\ ingest' = [ingest EXCEPT ![i] = [pc |-> "put", verdict |-> v]]
  /\ UNCHANGED <<now, deviceVars, rowVars, lastWrite, log, session, faults>>

PutVerdict(i) ==
  LET v == ingest[i].verdict IN
  /\ ingest[i].pc = "put"
  /\ stored' = stored \cup {v}
  /\ ingest' = [ingest EXCEPT ![i] =
       IF v.kind = "open-case" THEN IdleIngest ELSE [@ EXCEPT !.pc = "supersede"]]
  /\ UNCHANGED <<now, deviceVars, superseded, executed, lastWrite, log, session, faults>>

SupersedeOpenCase(i) ==
  /\ ingest[i].pc = "supersede"
  /\ superseded' = superseded \cup
       {o \in stored : o.case = ingest[i].verdict.case /\ o.kind = "open-case"}
  /\ ingest' = [ingest EXCEPT ![i] = IdleIngest]
  /\ UNCHANGED <<now, deviceVars, stored, executed, lastWrite, log, session, faults>>

-----------------------------------------------------------------------------
(* gate_check.                                                             *)

Goto(s, pc) == session' = [session EXCEPT ![s].pc = pc]
Answered(s, a) == session' = [session EXCEPT ![s].pc = "answered", ![s].answer = a]
Fault == faults < MaxFaults /\ faults' = faults + 1

\* The clock is read once, before the token is decoded.
GateStart(s, u, d) ==
  /\ session[s].pc = "idle"
  /\ session' = [session EXCEPT ![s] = [IdleSession EXCEPT
       !.pc = "decode", !.user = u, !.device = d, !.at = now, !.had = FileOf(u)]]
  /\ UNCHANGED <<now, deviceVars, rowVars, lastWrite, log, ingest, faults>>

\* A token as Google decodes it: what it lacks of a fresh request for this
\* package and payload, a recognized app with a known certificate, a licence
\* and device integrity; and whether it has a recall object.
Token == [lacks: SUBSET {"request", "app", "licence", "integrity"}, recall: BOOLEAN]
Prerequisites(t) == t.lacks = {}
Classified(t) == Prerequisites(t) /\ t.recall

\* A token without a recall object passes only where the deployment does
\* not require one, and then shows no mark.
PassesWithoutRecall(t) == Prerequisites(t) /\ ~t.recall /\ ~RequireRecall

\* A token that fails the classifier, and likewise one Google rejects, none
\* at all or no credentials: no trustworthy answer, so nobody is cleared.
Untrusted(s) ==
  /\ session[s].pc = "decode"
  /\ \E t \in Token : ~Classified(t) /\ ~PassesWithoutRecall(t)
  /\ Answered(s, "checkRequired")
  /\ Fault
  /\ UNCHANGED <<now, deviceVars, rowVars, lastWrite, log, ingest>>

\* Google unreachable: an error, not an answer.
Unreachable(s) ==
  /\ session[s].pc = "decode"
  /\ Answered(s, "failed")
  /\ Fault
  /\ UNCHANGED <<now, deviceVars, rowVars, lastWrite, log, ingest>>

Decode(s) ==
  /\ session[s].pc = "decode"
  /\ \E t \in Token : Classified(t)
  /\ session' = [session EXCEPT ![s] = [@ EXCEPT
       !.pc = "fold", !.seen = shown[session[s].device], !.readable = TRUE]]
  /\ UNCHANGED <<now, deviceVars, rowVars, lastWrite, log, ingest, faults>>

DecodeWithoutRecall(s) ==
  /\ session[s].pc = "decode"
  /\ \E t \in Token : PassesWithoutRecall(t)
  /\ session' = [session EXCEPT ![s] = [@ EXCEPT
       !.pc = "fold", !.seen = Clean, !.readable = FALSE]]
  /\ UNCHANGED <<now, deviceVars, rowVars, lastWrite, log, ingest, faults>>

\* intended_marks, at the time the session opened.
IntendedMarks(s) ==
  LET r == session[s]
      file == FileOf(r.user)
      bans == BansInForce(file, r.at)
  IN
  /\ r.pc = "fold"
  /\ \E by \in AuthorizedBy(file, r.at) :
       session' = [session EXCEPT ![s] = [@ EXCEPT
         !.pc = "decide",
         !.onFile = RowsOf(r.user) # {},
         !.want = Intended(file, r.at),
         !.realizes = bans,
         !.branded = bans \cap executed # {},
         !.by = by]]
  /\ UNCHANGED <<now, deviceVars, rowVars, lastWrite, log, ingest, faults>>

Diverges(s) == session[s].onFile /\ session[s].want # session[s].seen
WouldBrandAnother(s) ==
  session[s].want.banned /\ ~session[s].seen.banned /\ session[s].branded
WithinWindow(s) == lastWrite[session[s].user] = session[s].want
Writable(s) == session[s].readable

\* A divergence is repaired only through a recall object that can be
\* written, on the device the ban is on, and not while the read may merely
\* lag the write that repaired it.
Decide(s) ==
  /\ session[s].pc = "decide"
  /\ Goto(s, IF /\ Diverges(s)
                /\ Writable(s)
                /\ ~WouldBrandAnother(s)
                /\ ~WithinWindow(s)
             THEN "write" ELSE "answer")
  /\ UNCHANGED <<now, deviceVars, rowVars, lastWrite, log, ingest, faults>>

\* RecallChanges::diff: the values that differ from what the token showed.
Changes(s) == {f \in Value : session[s].seen[f] # session[s].want[f]}
Written(s, d) ==
  [f \in Value |-> IF f \in Changes(s) THEN session[s].want[f] ELSE held[d][f]]

\* write_recall.  Google may execute it, execute it and lose the answer, or
\* never see it.
WriteRecall(s, executes, ok) ==
  LET d == session[s].device IN
  /\ session[s].pc = "write"
  /\ ok => executes
  /\ IF ok THEN UNCHANGED faults ELSE Fault
  /\ held' = IF executes THEN [held EXCEPT ![d] = Written(s, d)] ELSE held
  /\ carried' = IF executes THEN [carried EXCEPT ![d] = @ \cup session[s].realizes]
                            ELSE carried
  /\ calls' = calls + 1
  /\ session' = [session EXCEPT ![s].pc = "log",
                                ![s].answer = IF ok THEN None ELSE "failed"]
  /\ UNCHANGED <<now, shown, rowVars, lastWrite, log, ingest>>

WasAccepted(s) == session[s].answer # "failed"

\* The entry before the one being appended, read under the same lock.
Previous(s) == Len(log)

\* append_write_log: chained to its predecessor, whatever Google answered.
AppendWriteLog(s) ==
  LET r == session[s] IN
  /\ r.pc = "log"
  /\ log' = Append(log, [previous |-> Previous(s), user |-> r.user, by |-> r.by,
                         want |-> r.want, values |-> Changes(s),
                         ok |-> r.answer # "failed", at |-> r.at])
  /\ IF WasAccepted(s) THEN Goto(s, "record") ELSE Answered(s, "failed")
  /\ UNCHANGED <<now, deviceVars, rowVars, lastWrite, ingest, faults>>

RecordRecallWrite(s) ==
  /\ session[s].pc = "record"
  /\ lastWrite' = [lastWrite EXCEPT ![session[s].user] = session[s].want]
  /\ Goto(s, "mark")
  /\ UNCHANGED <<now, deviceVars, rowVars, log, ingest, faults>>

\* mark_executed, one row at a time.
MarkExecuted(s, v) ==
  /\ session[s].pc = "mark"
  /\ v \in session[s].realizes \ executed
  /\ executed' = executed \cup {v}
  /\ UNCHANGED <<now, deviceVars, stored, superseded, lastWrite, log, ingest, session, faults>>

Marked(s) ==
  /\ session[s].pc = "mark"
  /\ session[s].realizes \subseteq executed
  /\ Goto(s, "answer")
  /\ UNCHANGED <<now, deviceVars, rowVars, lastWrite, log, ingest, faults>>

\* What the answer is taken from: the record where there is one, the device
\* where there is none.
Effective(s) == IF session[s].onFile THEN session[s].want ELSE session[s].seen

\* A ban nobody can name the verdict of is a matter for re-identification.
Answer(s) ==
  /\ session[s].pc = "answer"
  /\ Answered(s, IF Effective(s).banned
                   THEN IF session[s].realizes # {} THEN "banned" ELSE "checkRequired"
                 ELSE IF Effective(s).caseOpen THEN "caseOpen"
                 ELSE "clear")
  /\ UNCHANGED <<now, deviceVars, rowVars, lastWrite, log, ingest, faults>>

Leave(s) ==
  /\ session[s].pc = "answered"
  /\ session' = [session EXCEPT ![s] = IdleSession]
  /\ UNCHANGED <<now, deviceVars, rowVars, lastWrite, log, ingest, faults>>

-----------------------------------------------------------------------------
(* Google, the clock and the process.                                      *)

Propagate(d) ==
  /\ shown[d] # held[d]
  /\ shown' = [shown EXCEPT ![d] = held[d]]
  /\ UNCHANGED <<now, held, carried, calls, rowVars, lastWrite, log, ingest, session, faults>>

\* Past the grace, which outlasts the lag unless the session was slow.
WindowLapses(u) ==
  /\ lastWrite[u] # None
  /\ IF shown = held THEN UNCHANGED faults ELSE Fault
  /\ lastWrite' = [lastWrite EXCEPT ![u] = None]
  /\ UNCHANGED <<now, deviceVars, rowVars, log, ingest, session>>

Tick ==
  /\ now < MaxTime
  /\ now' = now + 1
  /\ UNCHANGED <<deviceVars, rowVars, lastWrite, log, ingest, session, faults>>

Restart ==
  /\ Fault
  /\ ingest' = [i \in Ingest |-> IdleIngest]
  /\ session' = [s \in Session |-> IdleSession]
  /\ UNCHANGED <<now, deviceVars, rowVars, lastWrite, log>>

-----------------------------------------------------------------------------
GateStep(s) ==
  \/ Untrusted(s)
  \/ Unreachable(s)
  \/ Decode(s)
  \/ DecodeWithoutRecall(s)
  \/ IntendedMarks(s)
  \/ Decide(s)
  \/ \E executes, ok \in BOOLEAN : WriteRecall(s, executes, ok)
  \/ AppendWriteLog(s)
  \/ RecordRecallWrite(s)
  \/ \E v \in Verdict : MarkExecuted(s, v)
  \/ Marked(s)
  \/ Answer(s)
  \/ Leave(s)

Next ==
  \/ \E i \in Ingest, v \in Verdict : Receive(i, v)
  \/ \E i \in Ingest : PutVerdict(i) \/ SupersedeOpenCase(i)
  \/ \E s \in Session, u \in User, d \in Device : GateStart(s, u, d)
  \/ \E s \in Session : GateStep(s)
  \/ \E d \in Device : Propagate(d)
  \/ \E u \in User : WindowLapses(u)
  \/ Tick
  \/ Restart

Spec == Init /\ [][Next]_vars

DecodeFor(s, u, d) ==
  /\ session[s].user = u
  /\ session[s].device = d
  /\ Decode(s)

\* A request that has begun ends (the client to Google has a timeout), a
\* write becomes visible and its window lapses, and every device keeps
\* verifying itself with a token that has a recall object now and then.
FairSpec ==
  /\ Spec
  /\ \A s \in Session : WF_vars(GateStep(s))
  /\ \A d \in Device : WF_vars(Propagate(d))
  /\ \A u \in User : WF_vars(WindowLapses(u))
  /\ \A u \in User, d \in Device :
       /\ SF_vars(\E s \in Session : GateStart(s, u, d))
       /\ SF_vars(\E s \in Session : DecodeFor(s, u, d))

-----------------------------------------------------------------------------
(* Properties.                                                             *)

\* Nobody passes the gate past a ban: not when the ban was on file when the
\* session opened and still stands, whether the device shows its mark, lags
\* or has no recall object; and not on a marked device with an identity the
\* record knows nothing of, as after a reinstall.
RefusedWhileBanned ==
  \A s \in Session :
    session[s].pc = "answered" /\ session[s].answer \in {"clear", "caseOpen"} =>
      /\ BansInForce(session[s].had, session[s].at)
           \cap BansInForce(FileOf(session[s].user), session[s].at) = {}
      /\ session[s].seen.banned => session[s].onFile

\* The audit trail: verify_write_log finds the chain intact however sessions
\* interleave, each write that sets the banned mark is logged against a ban
\* on file that was due, and a write without an entry is one in flight or
\* one a restart interrupted, which it may have done to every session.
InLog == {s \in Session : session[s].pc = "log"}
LogAccounts ==
  /\ \A i \in DOMAIN log :
       /\ log[i].previous = i - 1
       /\ log[i].want.banned =>
            /\ log[i].by \in stored
            /\ log[i].by.kind = "ban"
            /\ log[i].by.executeAfter <= log[i].at
  /\ calls <= Len(log) + faults * Cardinality(Session) + Cardinality(InLog)

\* Marks move only on verdicts, and never early: although reads lag, tokens
\* come without marks and writes are partial, a device holds the banned mark
\* only after a write behind which stood a ban on file in force.
MarkCarriedByABan ==
  \A d \in Device : held[d].banned =>
    \E v \in carried[d] : v.kind = "ban" /\ v \in stored /\ v.executeAfter <= now

\* Every banned mark on a device and every entry of the log stand on a
\* verdict (enforcement.rs, reconcile and write_recall).
WritesAccounted == MarkCarriedByABan /\ LogAccounts

\* A device that keeps verifying itself ends up with the marks its record
\* implies, through lagging reads, lost answers and tokens without marks; or
\* without the banned mark, where the ban has been executed before and this
\* device is taken for another.
MarksConverge ==
  \A u \in User, d \in Device :
    <>[](RowsOf(u) # {} =>
           \/ held[d] = Intended(FileOf(u), now)
           \/ ~held[d].banned /\ BansInForce(FileOf(u), now) \cap executed # {})

-----------------------------------------------------------------------------
(* The inductive invariant.                                                *)

\* Terminal verdicts stay on file.
RecordInv == \A v \in superseded : v.kind = "open-case"

\* No ban that was on file when the session opened still stands.
NoneStands(r) ==
  BansInForce(r.had, r.at) \cap BansInForce(FileOf(r.user), r.at) = {}

\* A ban on file, due by the session's clock.
Due(v, t) == v \in stored /\ v.kind = "ban" /\ v.executeAfter <= t

\* What a session may still rely on of what it read: the bans it folded are
\* on file and due, and where it found none, none that it opened on has come
\* back into force since.
Folded(r) ==
  /\ r.want.banned <=> r.realizes # {}
  /\ \A v \in r.realizes : Due(v, r.at)
  /\ r.want.banned => Due(r.by, r.at)
  /\ r.realizes = {} => NoneStands(r)
  /\ ~r.onFile => r.had = {}

Sound(r) ==
  /\ r.at <= now
  /\ r.pc # "idle" =>
        /\ r.user \in User /\ r.device \in Device
        /\ r.had \subseteq RowsOf(r.user)
  /\ r.pc \in {"decide", "write", "log", "record", "mark", "answer"} => Folded(r)
  /\ r.pc = "answered" /\ r.answer \in {"clear", "caseOpen"} =>
        NoneStands(r) /\ (r.seen.banned => r.onFile)

SessionInv == \A s \in Session : Sound(session[s])

CarriedInv ==
  /\ \A d \in Device : \A v \in carried[d] : Due(v, now)
  /\ \A d \in Device : held[d].banned => carried[d] # {}

IInv ==
  /\ TypeOK
  /\ RecordInv
  /\ SessionInv
  /\ CarriedInv
  /\ LogAccounts
=============================================================================
