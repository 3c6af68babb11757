------------------------------ MODULE Delivery ------------------------------
(***************************************************************************)
(* Delivery of signed verdicts from the authority to the interface:        *)
(* flush_soon with its single-flight gate and re-arm flag, the flushes it  *)
(* and the sweep run over the same backlog, the refusal budget, and the    *)
(* operator's requeue (src/authority/src/delivery.rs, store.rs).           *)
(*                                                                         *)
(* An atomic operation, a store call and a request are one step each; the  *)
(* flags live in memory, the verdict rows survive a restart.  A verdict is *)
(* its place in the order of issued_at.  The interface is external: a      *)
(* request may be executed and acknowledged, executed with the answer      *)
(* lost, lost on the way, or refused.                                      *)
(***************************************************************************)
EXTENDS Naturals

CONSTANTS
  Issuance,      \* verdicts, as 1..n in the order they are issued
  Caller,       \* handlers that enqueue a verdict and call flush_soon
  Drain,        \* background tasks flush_soon may have alive at once (bound)
  MaxRefusals,  \* MAX_REFUSALS
  MaxFaults     \* bound: failed flushes, panics and restarts

Sweeper == "sweeper"
Flusher == Drain \cup {Sweeper}

ASSUME DeliveryAssumption ==
  /\ Issuance \subseteq Nat \ {0}
  /\ Sweeper \notin Drain
  /\ MaxRefusals \in Nat \ {0}
  /\ MaxFaults \in Nat

VARIABLES
  \* the verdicts table
  issued, delivered, undeliverable, refusals,
  received,   \* the interface's side: verdicts it has executed
  requeued,   \* history: verdicts an operator has requeued
  \* delivery.flush_in_flight and delivery.flush_again
  inFlight, again,
  caller,     \* caller[k]: where handler k is in its call of flush_soon
  flusher,    \* flusher[t]: where task t is in its flush
  faults

rowVars == <<issued, delivered, undeliverable, refusals, requeued>>
deliveryVars == <<rowVars, received, inFlight, again, caller, flusher, faults>>

Flush == [pc: {"idle", "start", "flush", "answered", "giveup",
               "check", "drop", "recheck", "call", "lost"},
          todo: SUBSET Issuance, at: Issuance \cup {0},
          answer: {"none", "delivered", "retry", "refused"}]
IdleFlush == [pc |-> "idle", todo |-> {}, at |-> 0, answer |-> "none"]

DeliveryTypeOK ==
  /\ issued \subseteq Issuance
  /\ delivered \subseteq issued
  /\ undeliverable \subseteq issued
  /\ refusals \in [Issuance -> Nat]
  /\ received \subseteq issued
  /\ requeued \subseteq issued
  /\ inFlight \in BOOLEAN
  /\ again \in BOOLEAN
  /\ caller \in [Caller -> {"idle", "call", "lost"}]
  /\ flusher \in [Flusher -> Flush]
  /\ faults \in Nat

DeliveryInit ==
  /\ issued = {}
  /\ delivered = {}
  /\ undeliverable = {}
  /\ refusals = [v \in Issuance |-> 0]
  /\ received = {}
  /\ requeued = {}
  /\ inFlight = FALSE
  /\ again = FALSE
  /\ caller = [k \in Caller |-> "idle"]
  /\ flusher = [t \in Flusher |-> IdleFlush]
  /\ faults = 0

-----------------------------------------------------------------------------
(* Mutants: the definitions below as a plausible mistake would have them.  *)

BacklogUntried == {v \in issued \ (delivered \cup undeliverable) : refusals[v] = 0}
SettlesUnlessRefused(answer) == answer # "refused"
PanicKeepsGate == TRUE

-----------------------------------------------------------------------------
(* undelivered_verdicts; the refusal budget; what an attempt came to.      *)

Backlog == issued \ (delivered \cup undeliverable)

\* Only an acknowledged verdict is marked delivered.
Settles(answer) == answer = "delivered"

BudgetSpent(n) == n >= MaxRefusals

\* FlushGate: the gate after a drain has panicked.
GateAfterPanic == FALSE

\* Where a flush goes when it has nothing left to send.
AfterFlush(t) == IF t = Sweeper THEN "idle" ELSE "check"

Step(t, pc) == flusher' = [flusher EXCEPT ![t].pc = pc]

NextVerdict(t) == flusher' = [flusher EXCEPT ![t] =
  [@ EXCEPT !.pc = "flush", !.at = 0, !.answer = "none"]]

-----------------------------------------------------------------------------
(* Handlers: a verdict is issued, or an operator requeues one; either then *)
(* calls flush_soon.                                                       *)

Enqueue(k, v) ==
  /\ caller[k] = "idle"
  /\ v \notin issued
  /\ \A w \in Issuance : w < v => w \in issued
  /\ issued' = issued \cup {v}
  /\ caller' = [caller EXCEPT ![k] = "call"]
  /\ UNCHANGED <<delivered, undeliverable, refusals, received, requeued,
                 inFlight, again, flusher, faults>>

\* requeue_verdict: as often as it takes.
Requeue(k, v) ==
  /\ caller[k] = "idle"
  /\ v \in undeliverable \ delivered
  /\ undeliverable' = undeliverable \ {v}
  /\ refusals' = [refusals EXCEPT ![v] = 0]
  /\ requeued' = requeued \cup {v}
  /\ caller' = [caller EXCEPT ![k] = "call"]
  /\ UNCHANGED <<issued, delivered, received, inFlight, again, flusher, faults>>

\* swap(flush_in_flight, true) finds the gate open: a drain is spawned.
FlushSoon(k, t) ==
  /\ caller[k] = "call"
  /\ ~inFlight
  /\ flusher[t].pc = "idle"
  /\ inFlight' = TRUE
  /\ flusher' = [flusher EXCEPT ![t] = [IdleFlush EXCEPT !.pc = "start"]]
  /\ caller' = [caller EXCEPT ![k] = "idle"]
  /\ UNCHANGED <<rowVars, received, again, faults>>

\* ... finds it closed: storing flush_again is a second atomic operation.
FlushSoonLost(k) ==
  /\ caller[k] = "call"
  /\ inFlight
  /\ caller' = [caller EXCEPT ![k] = "lost"]
  /\ UNCHANGED <<rowVars, received, inFlight, again, flusher, faults>>

Rearm(k) ==
  /\ caller[k] = "lost"
  /\ again' = TRUE
  /\ caller' = [caller EXCEPT ![k] = "idle"]
  /\ UNCHANGED <<rowVars, received, inFlight, flusher, faults>>

-----------------------------------------------------------------------------
(* flush, run by a drain or by the sweep.                                  *)

SweepFlush ==
  /\ flusher[Sweeper].pc = "idle"
  /\ Step(Sweeper, "start")
  /\ UNCHANGED <<rowVars, received, inFlight, again, caller, faults>>

\* The backlog is read once, before the loop.
Snapshot(t) ==
  /\ flusher[t].pc = "start"
  /\ flusher' = [flusher EXCEPT ![t] = [@ EXCEPT !.pc = "flush", !.todo = Backlog]]
  /\ UNCHANGED <<rowVars, received, inFlight, again, caller, faults>>

\* One request.  `executed` is the interface's doing, `answer` what the
\* flush makes of the response (classify_response).
Send(t, v, executed, answer) ==
  /\ flusher[t].pc = "flush"
  /\ v \in flusher[t].todo
  /\ \A w \in flusher[t].todo : v <= w
  /\ answer = "delivered" => executed
  /\ answer = "refused" => ~executed
  /\ received' = IF executed THEN received \cup {v} ELSE received
  /\ flusher' = [flusher EXCEPT ![t] =
       [pc |-> "answered", todo |-> @.todo \ {v}, at |-> v, answer |-> answer]]
  /\ UNCHANGED <<rowVars, inFlight, again, caller, faults>>

\* mark_delivered or record_delivery_failure.
RecordOutcome(t) ==
  LET v == flusher[t].at
      answer == flusher[t].answer
  IN
  /\ flusher[t].pc = "answered"
  /\ delivered' = IF Settles(answer) THEN delivered \cup {v} ELSE delivered
  /\ IF answer = "refused"
       THEN refusals' = [refusals EXCEPT ![v] = @ + 1]
       ELSE UNCHANGED refusals
  /\ IF answer = "refused" /\ BudgetSpent(refusals[v] + 1)
       THEN flusher' = [flusher EXCEPT ![t] = [@ EXCEPT !.pc = "giveup", !.answer = "none"]]
       ELSE NextVerdict(t)
  /\ UNCHANGED <<issued, undeliverable, requeued, received, inFlight, again,
                 caller, faults>>

\* mark_undeliverable, a store call of its own.
GiveUp(t) ==
  /\ flusher[t].pc = "giveup"
  /\ undeliverable' = undeliverable \cup {flusher[t].at}
  /\ NextVerdict(t)
  /\ UNCHANGED <<issued, delivered, refusals, requeued, received, inFlight, again,
                 caller, faults>>

FlushDone(t) ==
  /\ flusher[t].pc = "flush"
  /\ flusher[t].todo = {}
  /\ Step(t, AfterFlush(t))
  /\ UNCHANGED <<rowVars, received, inFlight, again, caller, faults>>

\* A store error ends the flush and leaves the rest of its snapshot unsent.
FlushFails(t) ==
  /\ faults < MaxFaults
  /\ flusher[t].pc \in {"start", "answered", "giveup"}
  /\ faults' = faults + 1
  /\ flusher' = [flusher EXCEPT ![t] = [IdleFlush EXCEPT !.pc = AfterFlush(t)]]
  /\ UNCHANGED <<rowVars, received, inFlight, again, caller>>

-----------------------------------------------------------------------------
(* The drain's loop, the release of its gate and the check after it.       *)

InGate(t) ==
  flusher[t].pc \in {"start", "flush", "answered", "giveup", "check", "drop"}

Check(t) ==
  /\ flusher[t].pc = "check"
  /\ again' = FALSE
  /\ Step(t, IF again THEN "start" ELSE "drop")
  /\ UNCHANGED <<rowVars, received, inFlight, caller, faults>>

Drop(t) ==
  /\ flusher[t].pc = "drop"
  /\ inFlight' = FALSE
  /\ Step(t, "recheck")
  /\ UNCHANGED <<rowVars, received, again, caller, faults>>

Recheck(t) ==
  /\ flusher[t].pc = "recheck"
  /\ again' = FALSE
  /\ Step(t, IF again THEN "call" ELSE "idle")
  /\ UNCHANGED <<rowVars, received, inFlight, caller, faults>>

\* flush_soon called by the ending drain: the task it spawns replaces it.
Recall(t) ==
  /\ flusher[t].pc = "call"
  /\ inFlight' = TRUE
  /\ Step(t, IF inFlight THEN "lost" ELSE "start")
  /\ UNCHANGED <<rowVars, received, again, caller, faults>>

RecallRearm(t) ==
  /\ flusher[t].pc = "lost"
  /\ again' = TRUE
  /\ Step(t, "idle")
  /\ UNCHANGED <<rowVars, received, inFlight, caller, faults>>

\* Unwinding drops the gate and nothing after it runs.
Panic(t) ==
  /\ faults < MaxFaults
  /\ InGate(t)
  /\ faults' = faults + 1
  /\ inFlight' = GateAfterPanic
  /\ flusher' = [flusher EXCEPT ![t] = IdleFlush]
  /\ UNCHANGED <<rowVars, received, again, caller>>

DeliveryRestart ==
  /\ faults < MaxFaults
  /\ faults' = faults + 1
  /\ inFlight' = FALSE
  /\ again' = FALSE
  /\ caller' = [k \in Caller |-> "idle"]
  /\ flusher' = [t \in Flusher |-> IdleFlush]
  /\ UNCHANGED <<rowVars, received>>

-----------------------------------------------------------------------------
CallerStep(k) ==
  \/ \E v \in Issuance : Enqueue(k, v) \/ Requeue(k, v)
  \/ \E t \in Drain : FlushSoon(k, t)
  \/ FlushSoonLost(k)
  \/ Rearm(k)

Answer == {"delivered", "retry", "refused"}

FlushStep(t) ==
  \/ Snapshot(t)
  \/ \E v \in Issuance, executed \in BOOLEAN, answer \in Answer :
        Send(t, v, executed, answer)
  \/ RecordOutcome(t)
  \/ GiveUp(t)
  \/ FlushDone(t)

DrainStep(t) == Check(t) \/ Drop(t) \/ Recheck(t) \/ Recall(t) \/ RecallRearm(t)

DeliveryNext ==
  \/ \E k \in Caller : CallerStep(k)
  \/ SweepFlush
  \/ \E t \in Flusher : FlushStep(t) \/ FlushFails(t)
  \/ \E t \in Drain : DrainStep(t) \/ Panic(t)
  \/ DeliveryRestart

DeliverySpec == DeliveryInit /\ [][DeliveryNext]_deliveryVars

\* The sweep task loops for ever and every request ends within its timeout,
\* so the sweep's flushes make progress; an interface that is not down for
\* ever now and then answers a request for each verdict.
Replied(v) ==
  \E executed \in BOOLEAN, answer \in {"delivered", "refused"} :
     Send(Sweeper, v, executed, answer)

FairSpec ==
  /\ DeliverySpec
  /\ WF_deliveryVars(SweepFlush \/ FlushStep(Sweeper))
  /\ \A v \in Issuance : SF_deliveryVars(Replied(v))

-----------------------------------------------------------------------------
(* Properties.                                                             *)

\* Single flight: the gate is closed exactly while one background drain is
\* inside it, through every re-arm, late call, failed flush and panic, so it
\* is never pinned shut and two drains never send the same backlog.
GateHeldByOneDrain ==
  /\ inFlight <=> \E t \in Drain : InGate(t)
  /\ \A t, u \in Drain : InGate(t) /\ InGate(u) => t = u

\* Giving up is for a verdict the interface itself refuses: without an
\* operator's requeue no verdict is undeliverable before its refusal budget
\* is spent, however many flushes fail over the same rows, and whatever
\* outages come in between.
GivenUpOnlyAfterBudget ==
  \A v \in undeliverable \ requeued : refusals[v] >= MaxRefusals

\* A verdict counts as delivered only when the interface has executed it,
\* although answers are lost and two flushes race over one row.
DeliveredWasExecuted == delivered \subseteq received

\* An undelivered verdict is a delivery problem, never a lost one: with an
\* interface that comes back, every issued verdict is delivered or surfaces
\* as undeliverable.
EveryVerdictSettles ==
  \A v \in Issuance : v \in issued ~> v \in delivered \cup undeliverable

-----------------------------------------------------------------------------
(* The inductive invariant: what a task knows of the verdict it handles.   *)

FlushInv ==
  \A t \in Flusher :
    /\ flusher[t].todo \subseteq issued
    /\ flusher[t].pc \in {"answered", "giveup"} => flusher[t].at \in issued
    /\ flusher[t].pc = "answered" /\ flusher[t].answer = "delivered" =>
          flusher[t].at \in received
    /\ flusher[t].pc = "giveup" =>
          flusher[t].at \in requeued \/ refusals[flusher[t].at] >= MaxRefusals

DeliveryInv ==
  /\ DeliveryTypeOK
  /\ FlushInv
  /\ GateHeldByOneDrain
  /\ GivenUpOnlyAfterBudget
  /\ DeliveredWasExecuted
=============================================================================
