--------------------------- MODULE CaseLifecycle ----------------------------
(***************************************************************************)
(* The authority's cases for one (accused, class) pair: reports filed      *)
(* against it, the case they open or join, the accused's responses, the    *)
(* rulings of moderators and of the automated triage, and the sweep that   *)
(* dismisses an overdue case.                                              *)
(*                                                                         *)
(* Every store method of src/authority/src/store.rs takes the connection   *)
(* lock once, so one step of this module is one store call (a transaction  *)
(* where the code opens one) together with the lock-free work next to it.  *)
(* A handler is a sequence of steps of one filer or decider: what it read  *)
(* before an unlock is kept in its own record and may be stale when used.  *)
(*                                                                         *)
(* Time is counted in ticks; the windows are those of the manifest the     *)
(* accused consented to, so they are constants.  Delivery of a notice is   *)
(* the single step MarkDelivered here; Delivery.tla has the machinery.     *)
(* Appeals and new-holder claims are not in this module: a reversal is     *)
(* here only as the second ruling a banned case may receive.               *)
(***************************************************************************)
EXTENDS Naturals, FiniteSets

CONSTANTS
  Case,            \* case identifiers (uuids, never reused)
  Report,          \* reports a client may file, by (reporter, reportId)
  Evidence,        \* digests of evidence
  EvidenceOf,      \* EvidenceOf[r]: the digest of report r's evidence
  Filer,           \* file-report requests that may be in flight at once
  Moderator,       \* human decisions that may be in flight at once
  Triage,          \* the triage task (empty: no model configured)
  None,            \* no case, no report, no evidence, nobody
  ResponseWindow,  \* responseWindow of the consented class, in ticks
  DecisionWindow,  \* decisionDeadline of the consented class, in ticks
  ValidUntil,      \* last instant at which a case may open or be joined
  MaxNotices,      \* MAX_NOTICES_PER_CASE
  MaxResponses,    \* MAX_RESPONSES_PER_CASE
  EarlyBanForQA,   \* allow_early_ban_for_qa
  MaxTime          \* bound: the clock stops here

Decider == Moderator \cup Triage
Sweep == "sweep"

ASSUME CaseLifecycleAssumption ==
  /\ EvidenceOf \in [Report -> Evidence]
  /\ None \notin Case \cup Report \cup Evidence \cup Decider \cup {Sweep}
  /\ Sweep \notin Decider
  /\ Moderator \cap Triage = {}
  /\ ResponseWindow \in Nat \ {0}
  /\ DecisionWindow \in Nat \ {0}
  /\ MaxNotices \in Nat \ {0}
  /\ {ValidUntil, MaxResponses, MaxTime} \subseteq Nat
  /\ EarlyBanForQA \in BOOLEAN

VARIABLES
  now,          \* the wall clock
  \* the cases table
  stage,        \* "absent" until the row is inserted
  disposition,
  respDeadline, \* response_deadline
  decDeadline,  \* decision_deadline
  responses,    \* rows of the responses table
  revision,
  \* case_events, reports, verdicts, reporters, assessments
  noticed,      \* noticed[c]: the notice_evidence events of c
  ruledBy,      \* who made the first-instance ruling
  stored,       \* reports on file
  reportCase,   \* reports.case_id
  verdicts,     \* signed verdicts
  delivered,    \* those with delivered = 1
  credited,     \* credited[c]: reporters whose standing moved with c
  assessment,   \* assessment[c]: the stored decision of the model
  \* requests and tasks in flight, lost by a crash
  filing, deciding, sweeping

caseVars    == <<stage, disposition, respDeadline, decDeadline, responses, revision>>
recordVars  == <<noticed, ruledBy, stored, reportCase, verdicts, credited>>
requestVars == <<filing, deciding, sweeping>>
vars == <<now, caseVars, recordVars, delivered, assessment, requestVars>>

-----------------------------------------------------------------------------
(* Records.                                                                *)

Verdict == [case: Case, kind: {"open-case", "dismiss", "ban"},
            evidence: Evidence \cup {None}, decidedAt: Nat]

Notice(c, e, at) ==
  [case |-> c, kind |-> "open-case", evidence |-> e, decidedAt |-> at]
Ruling(c, kind, at) ==
  [case |-> c, kind |-> kind, evidence |-> None, decidedAt |-> at]

NoticesOf(c) == {v \in verdicts : v.case = c /\ v.kind = "open-case"}
ReportsOf(c) == {r \in Report : reportCase[r] = c}

Filing == [pc: {"idle", "looked", "stored", "attach", "renotice", "lost", "done"},
           report: Report \cup {None}, fresh: BOOLEAN,
           joins: Case \cup {None}, horizon: Nat, at: Nat]
IdleFiling == [pc |-> "idle", report |-> None, fresh |-> FALSE,
               joins |-> None, horizon |-> 0, at |-> 0]

Deciding == [pc: {"idle", "assessing", "read", "gathered", "checked"},
             case: Case \cup {None}, ruling: {"dismiss", "ban", "reverse"},
             at: Nat, basis: Nat, reporters: SUBSET Report]
IdleDecider == [pc |-> "idle", case |-> None, ruling |-> "dismiss",
                at |-> 0, basis |-> 0, reporters |-> {}]

Assessment == [ruling: {"dismiss", "ban"}, basis: Nat]
NoAssessment == [ruling |-> "none", basis |-> 0]

IdleSweep == [at |-> 0, overdue |-> {}]

TypeOK ==
  /\ now \in Nat
  /\ stage \in [Case -> {"absent", "open", "decided"}]
  /\ disposition \in [Case -> {"none", "dismiss", "ban", "reversed"}]
  /\ respDeadline \in [Case -> Nat]
  /\ decDeadline \in [Case -> Nat]
  /\ responses \in [Case -> Nat]
  /\ revision \in [Case -> Nat]
  /\ noticed \in [Case -> SUBSET Evidence]
  /\ ruledBy \in [Case -> Decider \cup {None, Sweep}]
  /\ stored \subseteq Report
  /\ reportCase \in [Report -> Case \cup {None}]
  /\ verdicts \subseteq Verdict
  /\ delivered \subseteq verdicts
  /\ credited \in [Case -> SUBSET Report]
  /\ assessment \in [Case -> Assessment \cup {NoAssessment}]
  /\ filing \in [Filer -> Filing]
  /\ deciding \in [Decider -> Deciding]
  /\ sweeping \in [at: Nat, overdue: SUBSET Case]

Init ==
  /\ now = 0
  /\ stage = [c \in Case |-> "absent"]
  /\ disposition = [c \in Case |-> "none"]
  /\ respDeadline = [c \in Case |-> 0]
  /\ decDeadline = [c \in Case |-> 0]
  /\ responses = [c \in Case |-> 0]
  /\ revision = [c \in Case |-> 0]
  /\ noticed = [c \in Case |-> {}]
  /\ ruledBy = [c \in Case |-> None]
  /\ stored = {}
  /\ reportCase = [r \in Report |-> None]
  /\ verdicts = {}
  /\ delivered = {}
  /\ credited = [c \in Case |-> {}]
  /\ assessment = [c \in Case |-> NoAssessment]
  /\ filing = [f \in Filer |-> IdleFiling]
  /\ deciding = [d \in Decider |-> IdleDecider]
  /\ sweeping = IdleSweep

-----------------------------------------------------------------------------
(* Mutants: the guards below as a plausible mistake would have them.  Each *)
(* is used only to show that some property notices the mistake.            *)

NoIndex == TRUE
AnyNoticeCounts(c, e) == noticed[c] # {}
HorizonRestarted(f) == filing[f].at + DecisionWindow
WindowAnswered(c, at) == at >= respDeadline[c] \/ responses[c] > 0
OverdueStrictly(at) == {c \in Case : stage[c] = "open" /\ decDeadline[c] < at}
AnyStage(c, ruling) == stage[c] # "absent"
RevisionIgnored(d) == TRUE

-----------------------------------------------------------------------------
(* Guards the store re-asserts inside its transactions, and the guards a   *)
(* decision passes before it is signed.                                    *)

\* The wire vocabulary of a verdict: a reversal is a dismissal (cases.rs).
VerdictKind(ruling) == IF ruling = "ban" THEN "ban" ELSE "dismiss"

\* The partial unique index: one row with stage 'open' per accused and class.
IndexFree == \A c \in Case : stage[c] # "open"

\* `case_id IS NULL`: an attachment is made once.
Unattached(r) == reportCase[r] = None

\* The case an open_case_for lookup returns.
IsOpenCase(c) == stage[c] = "open"

\* notice_status: a notice of the case already covers this evidence.
AlreadyNoticed(c, e) == e \in noticed[c]

\* The cap on notices, read before the join and again inside it.
NoticeRoom(c) == Cardinality(noticed[c]) < MaxNotices

\* The conditional UPDATE of a joined report.
StillJoinable(c, at) == stage[c] = "open" /\ decDeadline[c] > at

\* The horizon a join writes back: the one it read with the case.
RevisedHorizon(f) == filing[f].horizon

\* require_response_window_closed and require_decision_deadline_not_passed.
WindowElapsed(c, at) == at >= respDeadline[c]
HorizonAhead(c, at) == at <= decDeadline[c]

\* NoticeDelivery::AllDelivered, and at least one notice.
AllNoticesDelivered(c) == NoticesOf(c) # {} /\ NoticesOf(c) \subseteq delivered

\* cases_overdue.
OverdueCases(at) == {c \in Case : stage[c] = "open" /\ decDeadline[c] <= at}

\* The WHERE clause of commit_decision: the stage, and for a reversal the
\* disposition, that the guards found.
ExpectationHolds(c, ruling) ==
  IF ruling = "reverse" THEN stage[c] = "decided" /\ disposition[c] = "ban"
                        ELSE stage[c] = "open"

\* expect_revision: only an automated decision carries one.
RevisionHolds(d) ==
  d \in Triage => revision[deciding[d].case] = deciding[d].basis

-----------------------------------------------------------------------------
(* file-report.                                                            *)

\* The report row and the open case are looked up, in two calls that one
\* step stands for: the row matters only while it has no case, and every
\* transaction below asserts again that it has none.  A report that has a
\* case is answered with its receipt, which changes nothing.
FileLook(f, r) ==
  /\ filing[f].pc = "idle"
  /\ Unattached(r)
  /\ \E j \in Case \cup {None} :
       /\ IF j = None THEN IndexFree ELSE IsOpenCase(j)
       /\ filing' = [filing EXCEPT ![f] =
            [pc |-> "looked", report |-> r, fresh |-> r \notin stored,
             joins |-> j, horizon |-> IF j = None THEN 0 ELSE decDeadline[j],
             at |-> 0]]
  /\ UNCHANGED <<now, caseVars, recordVars, delivered, assessment,
                 deciding, sweeping>>

\* The clock is read and the report goes on file before it has a case.
FileStore(f) ==
  /\ filing[f].pc = "looked"
  /\ filing[f].fresh => filing[f].report \notin stored
  /\ stored' = stored \cup {filing[f].report}
  /\ filing' = [filing EXCEPT ![f] = [@ EXCEPT !.pc = "stored", !.at = now]]
  /\ UNCHANGED <<now, caseVars, noticed, ruledBy, reportCase, verdicts,
                 credited, delivered, assessment, deciding, sweeping>>

\* join_case up to the notice_status read: consent and horizon, then
\* whether the evidence is already before the accused.
JoinCheck(f) ==
  LET c == filing[f].joins
      noticedAlready == AlreadyNoticed(c, EvidenceOf[filing[f].report])
  IN
  /\ filing[f].pc = "stored"
  /\ c # None
  /\ filing[f].at <= ValidUntil
  /\ filing[f].at <= filing[f].horizon
  /\ noticedAlready \/ NoticeRoom(c)
  /\ filing' = [filing EXCEPT ![f].pc = IF noticedAlready THEN "attach" ELSE "renotice"]
  /\ UNCHANGED <<now, caseVars, recordVars, delivered, assessment,
                 deciding, sweeping>>

\* attach_noticed_report.
JoinAttach(f) ==
  LET c == filing[f].joins
      r == filing[f].report
  IN
  /\ filing[f].pc = "attach"
  /\ StillJoinable(c, filing[f].at)
  /\ AlreadyNoticed(c, EvidenceOf[r])
  /\ Unattached(r)
  /\ reportCase' = [reportCase EXCEPT ![r] = c]
  /\ revision' = [revision EXCEPT ![c] = @ + 1]
  /\ filing' = [filing EXCEPT ![f].pc = "done"]
  /\ UNCHANGED <<now, stage, disposition, respDeadline, decDeadline,
                 responses, noticed, ruledBy, stored, verdicts, credited,
                 delivered, assessment, deciding, sweeping>>

\* renotice_case_atomically: attach, restart the response window, enqueue
\* the revised notice.
JoinRenotice(f) ==
  LET c == filing[f].joins
      r == filing[f].report
      e == EvidenceOf[r]
      at == filing[f].at
  IN
  /\ filing[f].pc = "renotice"
  /\ NoticeRoom(c)
  /\ ~AlreadyNoticed(c, e)
  /\ StillJoinable(c, at)
  /\ Unattached(r)
  /\ reportCase' = [reportCase EXCEPT ![r] = c]
  /\ respDeadline' = [respDeadline EXCEPT ![c] = at + ResponseWindow]
  /\ decDeadline' = [decDeadline EXCEPT ![c] = RevisedHorizon(f)]
  /\ revision' = [revision EXCEPT ![c] = @ + 1]
  /\ noticed' = [noticed EXCEPT ![c] = @ \cup {e}]
  /\ verdicts' = verdicts \cup {Notice(c, e, at)}
  /\ filing' = [filing EXCEPT ![f].pc = "done"]
  /\ UNCHANGED <<now, stage, disposition, responses, ruledBy, stored,
                 credited, delivered, assessment, deciding, sweeping>>

\* open_case_atomically: the row, the attachment, the opening notice.
OpenCase(f, c) ==
  LET r == filing[f].report
      e == EvidenceOf[r]
      at == filing[f].at
  IN
  /\ filing[f].pc = "stored"
  /\ filing[f].joins = None
  /\ at <= ValidUntil
  /\ stage[c] = "absent"
  /\ IndexFree
  /\ Unattached(r)
  /\ stage' = [stage EXCEPT ![c] = "open"]
  /\ respDeadline' = [respDeadline EXCEPT ![c] = at + ResponseWindow]
  /\ decDeadline' = [decDeadline EXCEPT ![c] = at + DecisionWindow]
  /\ reportCase' = [reportCase EXCEPT ![r] = c]
  /\ noticed' = [noticed EXCEPT ![c] = {e}]
  /\ verdicts' = verdicts \cup {Notice(c, e, at)}
  /\ filing' = [filing EXCEPT ![f] = [@ EXCEPT !.pc = "done", !.joins = c]]
  /\ UNCHANGED <<now, disposition, responses, revision, ruledBy, stored,
                 credited, delivered, assessment, deciding, sweeping>>

\* The index refuses the insert: another request opened a case first.
OpenLost(f) ==
  /\ filing[f].pc = "stored"
  /\ filing[f].joins = None
  /\ filing[f].at <= ValidUntil
  /\ ~IndexFree
  /\ filing' = [filing EXCEPT ![f].pc = "lost"]
  /\ UNCHANGED <<now, caseVars, recordVars, delivered, assessment,
                 deciding, sweeping>>

\* ... and the loser joins that case, if it is still open when looked up.
Relook(f, c) ==
  /\ filing[f].pc = "lost"
  /\ IsOpenCase(c)
  /\ filing' = [filing EXCEPT ![f] = [@ EXCEPT
       !.pc = "stored", !.joins = c, !.horizon = decDeadline[c]]]
  /\ UNCHANGED <<now, caseVars, recordVars, delivered, assessment,
                 deciding, sweeping>>

\* The last write of file_report: unconditional.
FileAttach(f) ==
  /\ filing[f].pc = "done"
  /\ reportCase' = [reportCase EXCEPT ![filing[f].report] = filing[f].joins]
  /\ filing' = [filing EXCEPT ![f] = IdleFiling]
  /\ UNCHANGED <<now, caseVars, noticed, ruledBy, stored, verdicts,
                 credited, delivered, assessment, deciding, sweeping>>

\* Any refusal on the way: the transaction rolls back, the report stays on
\* file without a case, and the client may file it again.
FileRefused(f) ==
  LET c == filing[f].joins
      r == filing[f].report
      at == filing[f].at
  IN
  /\ \/ filing[f].pc = "looked" /\ filing[f].fresh /\ r \in stored
     \/ filing[f].pc = "stored" /\ at > ValidUntil
     \/ /\ filing[f].pc = "stored" /\ c # None
        /\ \/ at > filing[f].horizon
           \/ ~AlreadyNoticed(c, EvidenceOf[r]) /\ Cardinality(noticed[c]) >= MaxNotices
     \/ filing[f].pc = "stored" /\ c = None /\ IndexFree /\ ~Unattached(r)
     \/ filing[f].pc = "lost" /\ IndexFree
     \/ /\ filing[f].pc \in {"attach", "renotice"}
        /\ ~StillJoinable(c, at) \/ ~Unattached(r)
     \/ /\ filing[f].pc = "renotice"
        /\ AlreadyNoticed(c, EvidenceOf[r]) \/ ~NoticeRoom(c)
  /\ filing' = [filing EXCEPT ![f] = IdleFiling]
  /\ UNCHANGED <<now, caseVars, recordVars, delivered, assessment,
                 deciding, sweeping>>

-----------------------------------------------------------------------------
(* respond: put_response counts, inserts, and moves the flag and the       *)
(* revision only while the case is open.                                   *)

Respond(c) ==
  /\ stage[c] = "open"
  /\ responses[c] < MaxResponses
  /\ responses' = [responses EXCEPT ![c] = @ + 1]
  /\ revision' = [revision EXCEPT ![c] = @ + 1]
  /\ UNCHANGED <<now, stage, disposition, respDeadline, decDeadline,
                 recordVars, delivered, assessment, requestVars>>

-----------------------------------------------------------------------------
(* Decisions: apply_inner reads the case, gathers, signs and commits.      *)

\* A decider reads the clock and the case row; the guards that need
\* nothing else are evaluated on that reading.
ReadCase(d, c, ruling) ==
  /\ ExpectationHolds(c, ruling)
  /\ ruling = "ban" =>
       /\ HorizonAhead(c, now)
       /\ WindowElapsed(c, now) \/ (EarlyBanForQA /\ d \in Moderator)

ModeratorRead(d, c, ruling) ==
  /\ deciding[d].pc = "idle"
  /\ ReadCase(d, c, ruling)
  /\ deciding' = [deciding EXCEPT ![d] =
       [pc |-> "read", case |-> c, ruling |-> ruling, at |-> now,
        basis |-> 0, reporters |-> {}]]
  /\ UNCHANGED <<now, caseVars, recordVars, delivered, assessment,
                 filing, sweeping>>

\* The reporters to credit.
DeciderGather(d) ==
  /\ deciding[d].pc = "read"
  /\ deciding' = [deciding EXCEPT ![d] = [@ EXCEPT
       !.pc = IF deciding[d].ruling = "ban" THEN "gathered" ELSE "checked",
       !.reporters = ReportsOf(deciding[d].case)]]
  /\ UNCHANGED <<now, caseVars, recordVars, delivered, assessment,
                 filing, sweeping>>

\* require_notice_delivered, for a ban only: a reading of its own.
DeciderNotices(d) ==
  /\ deciding[d].pc = "gathered"
  /\ AllNoticesDelivered(deciding[d].case)
  /\ deciding' = [deciding EXCEPT ![d].pc = "checked"]
  /\ UNCHANGED <<now, caseVars, recordVars, delivered, assessment,
                 filing, sweeping>>

\* commit_decision: the case moves, the verdict is stored and the
\* reporters are credited, or nothing is.
DeciderCommit(d) ==
  LET c == deciding[d].case
      ruling == deciding[d].ruling
      at == deciding[d].at
  IN
  /\ deciding[d].pc = "checked"
  /\ ExpectationHolds(c, ruling)
  /\ RevisionHolds(d)
  /\ stage' = [stage EXCEPT ![c] = "decided"]
  /\ disposition' = [disposition EXCEPT ![c] =
        IF ruling = "reverse" THEN "reversed" ELSE ruling]
  /\ verdicts' = verdicts \cup {Ruling(c, VerdictKind(ruling), at)}
  /\ IF ruling = "reverse"
       THEN UNCHANGED <<credited, ruledBy>>
       ELSE /\ credited' = [credited EXCEPT ![c] = deciding[d].reporters]
            /\ ruledBy' = [ruledBy EXCEPT ![c] = d]
  /\ deciding' = [deciding EXCEPT ![d] = IdleDecider]
  /\ UNCHANGED <<now, respDeadline, decDeadline, responses, revision,
                 noticed, stored, reportCase, delivered, assessment, filing, sweeping>>

DeciderRefused(d) ==
  LET c == deciding[d].case
      ruling == deciding[d].ruling
  IN
  /\ \/ deciding[d].pc = "gathered" /\ ~AllNoticesDelivered(c)
     \/ /\ deciding[d].pc = "checked"
        /\ ~ExpectationHolds(c, ruling) \/ ~RevisionHolds(d)
  /\ deciding' = [deciding EXCEPT ![d] = IdleDecider]
  /\ UNCHANGED <<now, caseVars, recordVars, delivered, assessment,
                 filing, sweeping>>

-----------------------------------------------------------------------------
(* Triage: the model reads the case file once the response window has      *)
(* closed, and its stored decision is applied, and applied again after a   *)
(* refusal, at the revision it was read at.                                *)

TriageRead(d, c, ruling) ==
  /\ deciding[d].pc = "idle"
  /\ stage[c] = "open"
  /\ WindowElapsed(c, now)
  /\ assessment[c] = NoAssessment
  /\ deciding' = [deciding EXCEPT ![d] =
       [pc |-> "assessing", case |-> c, ruling |-> ruling, at |-> 0,
        basis |-> revision[c], reporters |-> {}]]
  /\ UNCHANGED <<now, caseVars, recordVars, delivered, assessment,
                 filing, sweeping>>

\* The file is built again after the inference; a reading of a file that
\* has changed is stored as no decision.
TriageRecord(d) ==
  LET c == deciding[d].case IN
  /\ deciding[d].pc = "assessing"
  /\ assessment' = IF revision[c] = deciding[d].basis
       THEN [assessment EXCEPT ![c] =
               [ruling |-> deciding[d].ruling, basis |-> deciding[d].basis]]
       ELSE assessment
  /\ deciding' = [deciding EXCEPT ![d] = IdleDecider]
  /\ UNCHANGED <<now, caseVars, recordVars, delivered, filing, sweeping>>

\* apply_automated, right after the assessment or on a later tick.  The
\* clock is read here, not when the inference began.
TriageApply(d, c) ==
  /\ deciding[d].pc = "idle"
  /\ assessment[c] # NoAssessment
  /\ ReadCase(d, c, assessment[c].ruling)
  /\ deciding' = [deciding EXCEPT ![d] =
       [pc |-> "read", case |-> c, ruling |-> assessment[c].ruling, at |-> now,
        basis |-> assessment[c].basis, reporters |-> {}]]
  /\ UNCHANGED <<now, caseVars, recordVars, delivered, assessment,
                 filing, sweeping>>

\* retry_unapplied_decisions discards a decision whose case file moved.
TriageInvalidate(d, c) ==
  /\ deciding[d].pc = "idle"
  /\ stage[c] = "open"
  /\ assessment[c] # NoAssessment
  /\ assessment[c].basis # revision[c]
  /\ assessment' = [assessment EXCEPT ![c] = NoAssessment]
  /\ UNCHANGED <<now, caseVars, recordVars, delivered, requestVars>>

-----------------------------------------------------------------------------
(* The deadline sweep: one reading of the overdue cases, then a commit     *)
(* per case, each of which a moderator may have won.                       *)

SweepStart ==
  /\ sweeping.overdue = {}
  /\ OverdueCases(now) # {}
  /\ sweeping' = [at |-> now, overdue |-> OverdueCases(now)]
  /\ UNCHANGED <<now, caseVars, recordVars, delivered, assessment,
                 filing, deciding>>

SweepDismiss(c) ==
  /\ c \in sweeping.overdue
  /\ ExpectationHolds(c, "dismiss")
  /\ stage' = [stage EXCEPT ![c] = "decided"]
  /\ disposition' = [disposition EXCEPT ![c] = "dismiss"]
  /\ verdicts' = verdicts \cup {Ruling(c, "dismiss", sweeping.at)}
  /\ ruledBy' = [ruledBy EXCEPT ![c] = Sweep]
  /\ sweeping' = [sweeping EXCEPT !.overdue = @ \ {c}]
  /\ UNCHANGED <<now, respDeadline, decDeadline, responses, revision,
                 noticed, stored, reportCase, credited, delivered, assessment,
                 filing, deciding>>

SweepLost(c) ==
  /\ c \in sweeping.overdue
  /\ ~ExpectationHolds(c, "dismiss")
  /\ sweeping' = [sweeping EXCEPT !.overdue = @ \ {c}]
  /\ UNCHANGED <<now, caseVars, recordVars, delivered, assessment,
                 filing, deciding>>

-----------------------------------------------------------------------------
(* The environment: the interface acknowledges a verdict, time passes, the *)
(* service is killed and started again on the same database.               *)

MarkDelivered(v) ==
  /\ v \in verdicts \ delivered
  /\ delivered' = delivered \cup {v}
  /\ UNCHANGED <<now, caseVars, recordVars, assessment, requestVars>>

Tick ==
  /\ now < MaxTime
  /\ now' = now + 1
  /\ UNCHANGED <<caseVars, recordVars, delivered, assessment, requestVars>>

Restart ==
  /\ filing' = [f \in Filer |-> IdleFiling]
  /\ deciding' = [d \in Decider |-> IdleDecider]
  /\ sweeping' = IdleSweep
  /\ UNCHANGED <<now, caseVars, recordVars, delivered, assessment>>

-----------------------------------------------------------------------------
FilerStep(f) ==
  \/ \E r \in Report : FileLook(f, r)
  \/ FileStore(f)
  \/ JoinCheck(f)
  \/ JoinAttach(f)
  \/ JoinRenotice(f)
  \/ \E c \in Case : OpenCase(f, c) \/ Relook(f, c)
  \/ OpenLost(f)
  \/ FileAttach(f)
  \/ FileRefused(f)

ModeratorStep(d) ==
  \E c \in Case, ruling \in {"dismiss", "ban", "reverse"} : ModeratorRead(d, c, ruling)

TriageStep(d) ==
  \/ \E c \in Case, ruling \in {"dismiss", "ban"} : TriageRead(d, c, ruling)
  \/ TriageRecord(d)
  \/ \E c \in Case : TriageApply(d, c) \/ TriageInvalidate(d, c)

DeciderStep(d) ==
  DeciderGather(d) \/ DeciderNotices(d) \/ DeciderCommit(d) \/ DeciderRefused(d)

SweepStep ==
  \/ SweepStart
  \/ \E c \in Case : SweepDismiss(c) \/ SweepLost(c)

Next ==
  \/ \E f \in Filer : FilerStep(f)
  \/ \E c \in Case : Respond(c)
  \/ \E d \in Moderator : ModeratorStep(d)
  \/ \E d \in Triage : TriageStep(d)
  \/ \E d \in Decider : DeciderStep(d)
  \/ SweepStep
  \/ \E v \in verdicts : MarkDelivered(v)
  \/ Tick
  \/ Restart

Spec == Init /\ [][Next]_vars

\* The deadline task runs in a loop of its own and logs its errors, so the
\* sweep is weakly fair; nothing else is assumed to make progress.
FairSpec == Spec /\ WF_vars(SweepStep) /\ <>[][~Restart]_vars

-----------------------------------------------------------------------------
(* Properties.                                                             *)

RulingsOf(c) == {v \in verdicts : v.case = c /\ v.kind # "open-case"}

\* Whoever is accused is told what of: a report becomes part of a case (and
\* so may support a ban) only together with a signed notice of that case
\* covering its evidence, whichever way file-report attached it.
NoticeForEveryAllegation ==
  \A r \in Report, c \in Case :
    reportCase[r] = c => \E v \in NoticesOf(c) : v.evidence = EvidenceOf[r]

\* Concurrent joins never carry a case past its notice limit, which is what
\* keeps a stream of reports from burying the accused in notices.
NoticesBounded == \A c \in Case : Cardinality(NoticesOf(c)) <= MaxNotices

\* The case row and the signed verdicts never disagree, whoever races to
\* decide and wherever the service is killed: an undecided case has no
\* ruling, a dismissed or banned one exactly that ruling, a reversed one
\* its ban and the verdict that clears it.
RulingJustified ==
  \A c \in Case :
    LET kinds == {v.kind : v \in RulingsOf(c)} IN
    /\ \A v, w \in RulingsOf(c) : v.kind = w.kind => v = w
    /\ stage[c] # "decided" =>
         disposition[c] = "none" /\ kinds = {} /\ ruledBy[c] = None
    /\ stage[c] = "decided" =>
         /\ ruledBy[c] # None
         /\ \/ disposition[c] = "dismiss"  /\ kinds = {"dismiss"}
            \/ disposition[c] = "ban"      /\ kinds = {"ban"}
            \/ disposition[c] = "reversed" /\ kinds = {"ban", "dismiss"}

\* No sanction before notice, for any decider: a ban is stamped no earlier
\* than one full response window after some notice of the case that has
\* reached the interface.  (The QA exemption drops the window, never the
\* notice.)
BanAfterAServedWindow ==
  \A b \in verdicts : b.kind = "ban" =>
    \E v \in NoticesOf(b.case) :
       /\ v \in delivered
       /\ ~EarlyBanForQA => v.decidedAt + ResponseWindow <= b.decidedAt

\* An automated ban goes further, because it is conditioned on the revision
\* the model read: every notice of the case has been delivered and the
\* running response window is over, joins that raced it included.
AutomatedBanServed ==
  \A b \in verdicts : b.kind = "ban" /\ ruledBy[b.case] \in Triage =>
    /\ AllNoticesDelivered(b.case)
    /\ b.decidedAt >= respDeadline[b.case]

\* The model rules only on the file it read: no response and no joined
\* report entered the case between the reading and the ruling.
AutomatedRulingReadFile ==
  \A c \in Case : ruledBy[c] \in Triage => assessment[c].basis = revision[c]

\* Undecided is dismissal, at the horizon and not before it: a default
\* dismissal is never early and a ban never late, although joins rewrite
\* the deadline from a stale reading and the sweep works from a snapshot.
RulingsRespectHorizon ==
  \A v \in verdicts :
    /\ v.kind = "ban" => v.decidedAt <= decDeadline[v.case]
    /\ v.kind = "dismiss" /\ ruledBy[v.case] = Sweep => v.decidedAt >= decDeadline[v.case]

\* Standing moves only for reporters of the case and never on a default
\* dismissal; an automated ruling credits the whole file.
CreditMatchesFile ==
  \A c \in Case :
    /\ credited[c] \subseteq ReportsOf(c)
    /\ ruledBy[c] \in {None, Sweep} => credited[c] = {}
    /\ ruledBy[c] \in Triage => credited[c] = ReportsOf(c)

\* What a triage commits by is the revision it read, and it protects the
\* whole of the ruling: the file, the reporters it credits and, for a ban,
\* the notices and the window of the accused.
AutomatedRulingsSound ==
  AutomatedRulingReadFile /\ CreditMatchesFile /\ AutomatedBanServed

\* The lifecycle implements the contract: one case at a time, reports enter
\* only an open case and stay there, one ruling, one reversal of a ban.
PhaseOf ==
  [c \in Case |-> CASE stage[c] = "absent" -> "absent"
                    [] stage[c] = "open" -> "open"
                    [] stage[c] = "decided" /\ disposition[c] = "dismiss" -> "dismissed"
                    [] stage[c] = "decided" /\ disposition[c] = "ban" -> "banned"
                    [] OTHER -> "reversed"]
FileOf == [c \in Case |-> ReportsOf(c)]
Contract == INSTANCE CaseContract WITH phase <- PhaseOf, file <- FileOf
ImplementsContract == Contract!ContractSpec

\* A case whose decision deadline has passed is decided, by a crash-prone
\* service and against any interleaving of filings and decisions.
OverdueDecided ==
  \A c \in Case :
    (stage[c] = "open" /\ decDeadline[c] <= now) ~> stage[c] = "decided"

-----------------------------------------------------------------------------
(* The inductive invariant.  Each part says what a request in flight may   *)
(* still rely on of what it read, or ties two tables together.             *)

\* A request that is under way names its report and its case.
RequestsNamed ==
  /\ \A f \in Filer :
       /\ filing[f].pc # "idle" => filing[f].report \in Report
       /\ filing[f].pc \in {"attach", "renotice", "done"} => filing[f].joins \in Case
       /\ filing[f].pc = "lost" => filing[f].joins = None
  /\ \A d \in Decider :
       /\ deciding[d].pc # "idle" => deciding[d].case \in Case
       /\ deciding[d].pc = "assessing" => deciding[d].ruling # "reverse"
       /\ deciding[d].pc # "idle" /\ deciding[d].ruling = "reverse" => d \in Moderator

\* A filer's stale reading: the case it joins exists and its horizon, which
\* never moves, is still the one it read; a finished filing is attached.
FilingInv ==
  \A f \in Filer :
    /\ filing[f].joins \in Case =>
         /\ stage[filing[f].joins] # "absent"
         /\ filing[f].pc # "done" => filing[f].horizon = decDeadline[filing[f].joins]
    /\ filing[f].pc = "done" => reportCase[filing[f].report] = filing[f].joins

\* Reports, notice events and notice verdicts of a case.
RecordInv ==
  /\ \A c \in Case : stage[c] = "absent" =>
        /\ noticed[c] = {}
        /\ \A r \in Report : reportCase[r] # c
        /\ \A v \in verdicts : v.case # c
  /\ \A r \in Report, c \in Case : reportCase[r] = c => EvidenceOf[r] \in noticed[c]
  /\ \A c \in Case : \A e \in noticed[c] :
        \E v \in verdicts : v.case = c /\ v.kind = "open-case" /\ v.evidence = e
  /\ \A c \in Case : stage[c] # "absent" =>
        \E v \in verdicts : /\ v.case = c /\ v.kind = "open-case"
                            /\ respDeadline[c] = v.decidedAt + ResponseWindow

\* A decider's stale reading.
DecidingInv ==
  \A d \in Decider :
    LET c == deciding[d].case IN
    deciding[d].pc \in {"read", "gathered", "checked"} =>
      /\ stage[c] # "absent"
      /\ deciding[d].pc # "read" => deciding[d].reporters \subseteq ReportsOf(c)
      /\ deciding[d].ruling = "ban" =>
           /\ deciding[d].at <= decDeadline[c]
           /\ \E v \in verdicts :
                 /\ v.case = c /\ v.kind = "open-case"
                 /\ deciding[d].pc = "checked" => v \in delivered
                 /\ ~EarlyBanForQA => v.decidedAt + ResponseWindow <= deciding[d].at

\* What the revision protects: an automated decision that may still commit
\* has read the current window, and once gathered the current reporters and
\* notices.
RevisionInv ==
  /\ \A c \in Case : assessment[c] # NoAssessment => assessment[c].basis <= revision[c]
  /\ \A d \in Triage :
       LET c == deciding[d].case IN
       /\ deciding[d].pc = "assessing" =>
            stage[c] # "absent" /\ deciding[d].basis <= revision[c]
       /\ deciding[d].pc \in {"read", "gathered", "checked"} =>
            /\ deciding[d].basis <= revision[c]
            /\ deciding[d].basis = revision[c] =>
                 /\ assessment[c].basis = revision[c]
                 /\ deciding[d].pc # "read" => deciding[d].reporters = ReportsOf(c)
                 /\ deciding[d].ruling = "ban" =>
                      /\ deciding[d].at >= respDeadline[c]
                      /\ deciding[d].pc = "checked" => AllNoticesDelivered(c)

\* The sweep's snapshot.
SweepInv ==
  \A c \in sweeping.overdue : stage[c] # "absent" /\ decDeadline[c] <= sweeping.at

\* A default dismissal stands: only a ban can be reversed.
DefaultInv ==
  \A c \in Case : ruledBy[c] = Sweep => disposition[c] = "dismiss"

OneOpenCase ==
  \A c, d \in Case : stage[c] = "open" /\ stage[d] = "open" => c = d

Typed == TypeOK /\ RequestsNamed

IInv ==
  /\ Typed
  /\ FilingInv
  /\ RecordInv
  /\ DecidingInv
  /\ RevisionInv
  /\ SweepInv
  /\ OneOpenCase
  /\ RulingJustified
  /\ DefaultInv
  /\ RulingsRespectHorizon
  /\ BanAfterAServedWindow
  /\ AutomatedBanServed
  /\ AutomatedRulingReadFile
  /\ CreditMatchesFile
=============================================================================
