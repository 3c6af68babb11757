----------------------------- MODULE Assessment ------------------------------
(***************************************************************************)
(* The automated triage (src/authority/src/triage.rs, casedoc.rs and       *)
(* triage_sweep in deadlines.rs): which cases are put to the model, what   *)
(* document it is shown, what becomes of its answer, and what the case     *)
(* does in the meantime.  CaseLifecycle.tla has the decision itself among  *)
(* the other deciders; here it is the guards an automated one meets.       *)
(*                                                                         *)
(* A step is one store call with the lock-free work beside it, or one      *)
(* answer of the model.  An item of a case is a text or an image; fencing, *)
(* prompts and the wording of notes are left out, and the digest of a      *)
(* document is the document.  A report whose material the accused has      *)
(* notice of already joins without a new window: CaseLifecycle.tla has it. *)
(***************************************************************************)
EXTENDS Profiles, FiniteSets, FiniteSetsExt, SequencesExt

CONSTANTS
  Case, ClassOf, OpenedAt,
  Reported,      \* the items each case opens with
  Image, Text,
  Window, DecisionWindow,
  MaxAttempts,   \* MAX_ASSESSMENT_ATTEMPTS
  Batch,         \* MAX_ASSESSMENTS_PER_SWEEP
  Base, Ceiling, \* of retry_due
  MaxResponses,  \* MAX_RESPONSES_PER_CASE
  MaxTime,       \* bound: the clock stops here
  MaxSteps       \* bound: filings, holds and restarts

Item == Image \cup {Text}
Document == [reports: Seq(Item), responses: Seq(Item), viewable: SUBSET Image]

\* A row of the assessments table, without its key.
Assessed ==
  [outcome: Outcome, recommendation: Outcome, raw: ModelOutput \cup {None},
   document: Document, profile: Profile, revision: Nat, at: Nat, attempts: Nat,
   applied: BOOLEAN]

ASSUME AssessmentAssumption ==
  /\ {Window, DecisionWindow, MaxAttempts, Batch, Base, Ceiling, MaxResponses,
      MaxTime, MaxSteps} \subseteq Nat
  /\ IsFiniteSet(Case)
  /\ Text \notin Image
  /\ None \notin Profile \cup Assessed
  /\ ClassOf \in [Case -> Class] /\ OpenedAt \in [Case -> Nat]
  /\ Reported \in [Case -> Seq(Item)]

VARIABLES
  now,
  stage, revision, reports, responses, respDeadline, delivered,  \* by case
  declared,    \* the profile the manifest a case's mandate pins declares, or None
  viewable,    \* images whose derivative is on file
  preserved,   \* cases under a preservation duty
  assessment,  \* the assessments table
  config,      \* mode and profile the process was started with
  worker,      \* the sweep: where it is, and what it has read
  queue,       \* the cases it has yet to visit in this phase
  \* history
  calls,       \* requests to the model, by case
  voided,      \* how often a case's document moved, or a request was lost
  ruled,       \* the assessment an automated ruling was made from
  steps

caseVars == <<stage, revision, reports, responses, respDeadline, delivered, ruled>>
holdVars == <<viewable, preserved>>
workVars == <<assessment, worker, queue, calls>>
vars == <<now, declared, config, voided, steps, caseVars, holdVars, workVars>>

Named(c) == (Range(reports[c]) \cup Range(responses[c])) \cap Image
Idle == [pc |-> "idle"]

\* Where the sweep goes on from.
Resume == [pc: {"load"}, at: Nat] \cup [pc: {"retry"}]
Worker ==
  [pc: {"idle"}]
    \cup Resume
    \cup [pc: {"build"}, at: Nat, case: Case, revision: Nat]
    \cup [pc: {"infer"}, at: Nat, case: Case, revision: Nat, document: Document]
    \cup [pc: {"apply"}, case: Case, then: Resume]

TypeOK ==
  /\ now \in Nat /\ steps \in Nat
  /\ stage \in [Case -> {"open", "decided"}]
  /\ revision \in [Case -> Nat]
  /\ reports \in [Case -> Seq(Item)] /\ responses \in [Case -> Seq(Item)]
  /\ respDeadline \in [Case -> Nat] /\ delivered \in [Case -> BOOLEAN]
  /\ declared \in [Case -> Profile \cup {None}]
  /\ viewable \subseteq Image /\ preserved \subseteq Case
  /\ assessment \in [Case -> Assessed \cup {None}]
  /\ ruled \in [Case -> Assessed \cup {None}]
  /\ config \in [mode: {"advisory", "autonomous"}, profile: Profile]
  /\ worker \in Worker
  /\ calls \in [Case -> Nat] /\ voided \in [Case -> Nat]

Init ==
  /\ now = 0 /\ steps = 0
  /\ stage = [c \in Case |-> "open"]
  /\ revision = [c \in Case |-> 0]
  /\ reports = Reported
  /\ responses = [c \in Case |-> <<>>]
  /\ respDeadline = [c \in Case |-> OpenedAt[c] + Window]
  /\ delivered = [c \in Case |-> FALSE]
  /\ config \in [mode: {"advisory", "autonomous"}, profile: Profile]
  \* other terms than the service's arise by a restart
  /\ declared \in [Case -> {config.profile, None}]
  /\ viewable = Image /\ preserved = {}
  /\ assessment = [c \in Case |-> None]
  /\ worker = Idle /\ queue = <<>>
  /\ calls = [c \in Case |-> 0] /\ voided = [c \in Case |-> 0]
  /\ ruled = [c \in Case |-> None]

-----------------------------------------------------------------------------
(* The document: what it names, and what of that can be looked at.         *)

DocumentOf(c) ==
  [reports |-> reports[c], responses |-> responses[c],
   viewable |-> viewable \cap Named(c)]

Images(items) == SelectSeq(items, LAMBDA i : i \in Image)

\* unresolved_media: a commitment in a report or in counter-evidence whose
\* bytes cannot be produced.
Unresolved(d) == ((Range(d.reports) \cup Range(d.responses)) \cap Image) \ d.viewable

\* What of the document's images goes with the request, the report's first.
Shown(p, d) ==
  LET filed == Images(d.reports)
      rebuttal == Images(d.responses)
      shownReports == Min({Len(filed), p.maxImages})
  IN SubSeq(filed, 1, shownReports)
       \o SubSeq(rebuttal, 1, Min({Len(rebuttal), p.maxImages - shownReports}))

-----------------------------------------------------------------------------
(* Mutants.                                                                *)

AnyTerms(c, p) == TRUE
WithinBudget(p, d) == Len(Images(d.reports \o d.responses)) <= p.maxImages
FailureIsFree(c) == FALSE
AtAnyRevision(c) == TRUE
NeverRetried(c) == FALSE

-----------------------------------------------------------------------------
(* The guards.                                                             *)

\* consented_model_profile: a manifest that declares none binds nothing.
Consented(c, p) == declared[c] \in {p, None}

\* The modality check: reviews_images.
Reviewable(p, d) == p.maxImages > 0 \/ Images(d.reports) = <<>>

Askable(c, p, d) ==
  /\ Consented(c, p)
  /\ CanDecide(p, ClassOf[c])
  /\ d.reports # <<>>
  /\ c \notin preserved
  /\ Unresolved(d) = {}
  /\ Reviewable(p, d)

Attempts(c) == IF assessment[c] = None THEN 0 ELSE assessment[c].attempts

RetryDue(c) ==
  assessment[c] = None
    \/ now >= assessment[c].at
                + Min({Base * 2 ^ Min({assessment[c].attempts, 7}), Ceiling})

\* cases_awaiting_assessment, and the filter of triage_sweep.
Due(c) ==
  /\ stage[c] = "open"
  /\ respDeadline[c] <= now
  /\ assessment[c] = None \/ assessment[c].recommendation = "no-decision"
  /\ Attempts(c) < MaxAttempts
  /\ RetryDue(c)

\* cases_with_unapplied_decision.
Unapplied(c) ==
  /\ stage[c] = "open"
  /\ assessment[c] # None
  /\ ~assessment[c].applied /\ assessment[c].recommendation \in {"ban", "dismiss"}

\* ORDER BY opened_at, which leaves open what comes first of a tie.
OldestFirst(cases) ==
  {order \in [1..Cardinality(cases) -> cases] :
     /\ IsInjective(order)
     /\ \A i, j \in DOMAIN order : i < j => OpenedAt[order[i]] <= OpenedAt[order[j]]}

\* apply_inner for an automated decider, its clock read after the model.
AtRevision(c) == revision[c] = assessment[c].revision
Ruleable(c) ==
  /\ stage[c] = "open"
  /\ AtRevision(c)
  /\ assessment[c].outcome = "ban" =>
       /\ now <= OpenedAt[c] + DecisionWindow
       /\ delivered[c]
       /\ now >= respDeadline[c]

\* A failed round trip is charged to the case.
ChargesFailure(c) == TRUE

-----------------------------------------------------------------------------
(* What happens to cases meanwhile.                                        *)

Counted == steps < MaxSteps /\ steps' = steps + 1

Moved(c) ==
  /\ revision' = [revision EXCEPT ![c] = @ + 1]
  /\ voided' = [voided EXCEPT ![c] = @ + 1]

\* Intake takes no image that the configured profile cannot review.
Admissible(i) == i \in Image => config.profile.maxImages > 0

\* The accused answers, for as long as the case is open.
Respond(c, i) ==
  /\ Counted
  /\ stage[c] = "open" /\ Admissible(i)
  /\ Len(responses[c]) < MaxResponses
  /\ responses' = [responses EXCEPT ![c] = Append(@, i)]
  /\ Moved(c)
  /\ UNCHANGED <<now, declared, config, stage, reports, respDeadline, delivered, ruled,
                 holdVars, workVars>>

\* Another report joins: a fresh notice, a fresh response window.
Join(c, i) ==
  /\ Counted
  /\ stage[c] = "open" /\ Admissible(i)
  /\ now < OpenedAt[c] + DecisionWindow
  /\ reports' = [reports EXCEPT ![c] = Append(@, i)]
  /\ respDeadline' = [respDeadline EXCEPT ![c] = now + Window]
  /\ delivered' = [delivered EXCEPT ![c] = FALSE]
  /\ Moved(c)
  /\ UNCHANGED <<now, declared, config, stage, responses, ruled, holdVars, workVars>>

Deliver(c) ==
  /\ ~delivered[c]
  /\ delivered' = [delivered EXCEPT ![c] = TRUE]
  /\ UNCHANGED <<now, declared, config, voided, steps, stage, revision, reports,
                 responses, respDeadline, ruled, holdVars, workVars>>

\* The bytes turn up under a preservation duty here or elsewhere, and the
\* copy that can be looked at goes for every case that names them.
DropDerivative(i) ==
  /\ Counted
  /\ i \in viewable
  /\ viewable' = viewable \ {i}
  /\ voided' = [c \in Case |-> voided[c] + IF i \in Named(c) THEN 1 ELSE 0]
  /\ UNCHANGED <<now, declared, config, preserved, caseVars, workVars>>

\* place_preservation, on the case.
Preserve(c) ==
  /\ Counted
  /\ c \notin preserved
  /\ preserved' = preserved \cup {c}
  /\ UNCHANGED <<now, declared, config, voided, viewable, caseVars, workVars>>

\* A moderator decides, or the deadline does.
Close(c) ==
  /\ stage[c] = "open"
  /\ stage' = [stage EXCEPT ![c] = "decided"]
  /\ UNCHANGED <<now, declared, config, voided, steps, revision, reports, responses,
                 respDeadline, delivered, ruled, holdVars, workVars>>

Overdue(c) == now >= OpenedAt[c] + DecisionWindow

Tick ==
  /\ now < MaxTime
  /\ now' = now + 1
  /\ UNCHANGED <<declared, config, voided, steps, caseVars, holdVars, workVars>>

\* The process ends and starts, perhaps configured anew; a request to the
\* model that was under way leaves no row.
Restart ==
  /\ Counted
  /\ config' \in [mode: {"advisory", "autonomous"}, profile: Profile]
  /\ worker' = Idle /\ queue' = <<>>
  /\ voided' = IF worker.pc = "infer" THEN [voided EXCEPT ![worker.case] = @ + 1] ELSE voided
  /\ UNCHANGED <<now, declared, assessment, calls, caseVars, holdVars>>

-----------------------------------------------------------------------------
(* triage_sweep: assess what is due, a case at a time.                     *)

workUnchanged == UNCHANGED <<now, declared, config, voided, steps, holdVars>>

StartSweep ==
  /\ worker = Idle
  /\ worker' = [pc |-> "load", at |-> now]
  /\ \E due \in OldestFirst({c \in Case : Due(c)}) :
       queue' = SubSeq(due, 1, Min({Len(due), Batch}))
  /\ UNCHANGED <<assessment, calls, caseVars>>
  /\ workUnchanged

\* assess_and_maybe_decide: the case is read anew, the clock is the sweep's.
Load ==
  /\ worker.pc = "load" /\ queue # <<>>
  /\ LET c == Head(queue)
     IN worker' = IF stage[c] = "open" /\ respDeadline[c] <= worker.at
                    THEN [pc |-> "build", at |-> worker.at, case |-> c, revision |-> revision[c]]
                    ELSE worker
  /\ queue' = Tail(queue)
  /\ UNCHANGED <<assessment, calls, caseVars>>
  /\ workUnchanged

\* record_with and put_assessment: the row is replaced, its attempts grow
\* if the reading is charged, its applied flag stays.
Record(c, outcome, raw, document, charged) ==
  assessment' = [assessment EXCEPT ![c] =
    [outcome |-> outcome, recommendation |-> outcome, raw |-> raw, document |-> document,
     profile |-> config.profile, revision |-> worker.revision, at |-> now,
     attempts |-> Attempts(c) + IF charged THEN 1 ELSE 0,
     applied |-> assessment[c] # None /\ assessment[c].applied]]

Onward == worker' = [pc |-> "load", at |-> worker.at]

\* assess, up to the request.
Refuse ==
  LET c == worker.case IN
  /\ worker.pc = "build"
  /\ ~Askable(c, config.profile, DocumentOf(c))
  /\ Record(c, "no-decision", None, DocumentOf(c), TRUE)
  /\ Onward
  /\ UNCHANGED <<queue, calls, caseVars>>
  /\ workUnchanged

Ask ==
  LET c == worker.case IN
  /\ worker.pc = "build"
  /\ Askable(c, config.profile, DocumentOf(c))
  /\ worker' = [pc |-> "infer", at |-> worker.at, case |-> c, revision |-> worker.revision,
                document |-> DocumentOf(c)]
  /\ calls' = [calls EXCEPT ![c] = @ + 1]
  /\ UNCHANGED <<queue, assessment, caseVars>>
  /\ workUnchanged

\* No answer: a host that is not local, an error, a timeout, no completion.
Fail ==
  /\ worker.pc = "infer"
  /\ Record(worker.case, "no-decision", None, worker.document, ChargesFailure(worker.case))
  /\ Onward
  /\ UNCHANGED <<queue, calls, caseVars>>
  /\ workUnchanged

\* The document is built again: an answer about one that is gone decides
\* nothing and costs nothing.
AnswerStale(o) ==
  LET c == worker.case IN
  /\ worker.pc = "infer"
  /\ DocumentOf(c) # worker.document
  /\ Record(c, "no-decision", o, DocumentOf(c), FALSE)
  /\ Onward
  /\ UNCHANGED <<queue, calls, caseVars>>
  /\ workUnchanged

Answer(o) ==
  LET c == worker.case
      outcome == Evaluate(config.profile, ClassOf[c], o)
  IN
  /\ worker.pc = "infer"
  /\ DocumentOf(c) = worker.document
  /\ Record(c, outcome, o, worker.document, TRUE)
  /\ IF config.mode = "autonomous" /\ outcome # "no-decision"
       THEN worker' = [pc |-> "apply", case |-> c, then |-> [pc |-> "load", at |-> worker.at]]
       ELSE Onward
  /\ UNCHANGED <<queue, calls, caseVars>>
  /\ workUnchanged

\* retry_unapplied_decisions: a list of the cases as they are now.
StartRetry ==
  /\ worker.pc = "load" /\ queue = <<>>
  /\ IF config.mode = "autonomous"
       THEN /\ worker' = [pc |-> "retry"]
            /\ \E due \in OldestFirst({c \in Case : Unapplied(c)}) :
                 queue' = [k \in DOMAIN due |->
                             [case |-> due[k], revision |-> revision[due[k]]]]
       ELSE worker' = Idle /\ queue' = <<>>
  /\ UNCHANGED <<assessment, calls, caseVars>>
  /\ workUnchanged

RetryNext ==
  /\ worker.pc = "retry" /\ queue # <<>>
  /\ LET c == Head(queue).case IN
       IF Head(queue).revision # assessment[c].revision
         THEN /\ assessment' = [assessment EXCEPT ![c].recommendation = "no-decision"]
              /\ UNCHANGED worker
         ELSE /\ worker' = [pc |-> "apply", case |-> c, then |-> [pc |-> "retry"]]
              /\ UNCHANGED assessment
  /\ queue' = Tail(queue)
  /\ UNCHANGED <<calls, caseVars>>
  /\ workUnchanged

EndSweep ==
  /\ worker.pc = "retry" /\ queue = <<>>
  /\ worker' = Idle
  /\ UNCHANGED <<queue, assessment, calls, caseVars>>
  /\ workUnchanged

\* apply_automated: a ruling, or a refusal by the guards.
Apply ==
  LET c == worker.case IN
  /\ worker.pc = "apply"
  /\ IF Ruleable(c)
       THEN /\ stage' = [stage EXCEPT ![c] = "decided"]
            /\ ruled' = [ruled EXCEPT ![c] = assessment[c]]
            /\ assessment' = [assessment EXCEPT ![c].applied = TRUE]
       ELSE UNCHANGED <<stage, ruled, assessment>>
  /\ worker' = worker.then
  /\ UNCHANGED <<queue, calls, revision, reports, responses, respDeadline, delivered>>
  /\ workUnchanged

Sweep ==
  \/ StartSweep \/ Load \/ Refuse \/ Ask \/ Fail
  \/ \E o \in Output[config.profile] : AnswerStale(o) \/ Answer(o)
  \/ StartRetry \/ RetryNext \/ EndSweep \/ Apply

Next ==
  \/ Sweep
  \/ \E c \in Case : Deliver(c) \/ Close(c) \/ Preserve(c)
  \/ \E c \in Case, i \in Item : Respond(c, i) \/ Join(c, i)
  \/ \E i \in Image : DropDerivative(i)
  \/ Tick \/ Restart

Spec == Init /\ [][Next]_vars

\* The sweep runs every few seconds and awaits each case; the outbox and
\* the deadline sweep are fair in Delivery.tla and CaseLifecycle.tla.
FairSpec ==
  /\ Spec
  /\ WF_vars(Sweep)
  /\ \A c \in Case : WF_vars(Deliver(c)) /\ WF_vars(Overdue(c) /\ Close(c))
  /\ <>[][~Restart]_vars

-----------------------------------------------------------------------------
(* Properties.                                                             *)

\* Every request to the model is charged to the attempts of its case, and
\* those end, but for the requests whose document moved under them or that a
\* restart lost: a model that is down is not hit for ever
\* (triage.rs assess, deadlines.rs triage_sweep).
Asking(c) == IF worker.pc = "infer" /\ worker.case = c THEN 1 ELSE 0
CallsBounded ==
  \A c \in Case :
    /\ Attempts(c) <= MaxAttempts
    /\ calls[c] <= Attempts(c) + voided[c] + Asking(c)

\* Whatever the service was restarted with in between, an automated ruling
\* rests on a reading by the profile the accused consented to, and no other
\* (triage.rs assess, retry_unapplied_decisions).
RuledUnderTerms ==
  \A c \in Case : ruled[c] # None /\ declared[c] # None => ruled[c].profile = declared[c]

\* An automated ruling rests on the record as it was when it was made: no
\* report and no response was filed since it was read, and nothing it names
\* was beyond the reach of the model's reader (triage.rs, decisions.rs).
RulingReadWhole ==
  [][\A c \in Case : ruled'[c] # ruled[c] =>
       /\ ruled'[c].document.reports = reports[c]
       /\ ruled'[c].document.responses = responses[c]
       /\ Named(c) \subseteq ruled'[c].document.viewable]_vars

\* Filing more never buys an acquittal: a case the model could be asked
\* about as it was reported can be asked about with whatever was filed since,
\* while all of it can be produced (triage.rs:332, the image budget).
FloodingNeverAcquits ==
  \A c \in Case, p \in Profile :
    LET asReported == [reports |-> Reported[c], responses |-> <<>>,
                       viewable |-> viewable \cap Range(Reported[c])]
    IN /\ p.maxImages > 0 /\ Named(c) \subseteq viewable
       /\ Askable(c, p, asReported)
       => Askable(c, p, DocumentOf(c))

\* A recorded decision is one the published terms of the profile read out
\* of the stored output, for the class of the case (profiles.rs evaluate).
VerdictsReadable ==
  \A c \in Case : assessment[c] # None /\ assessment[c].outcome # "no-decision" =>
    Means(assessment[c].profile, ClassOf[c], assessment[c].outcome, assessment[c].raw)

\* In autonomous mode a decision the model reached is not left lying while
\* the case runs out: it is applied, or discarded, or the case ends
\* (triage.rs retry_unapplied_decisions).
LyingDecision(c) ==
  /\ config.mode = "autonomous" /\ stage[c] = "open" /\ assessment[c] # None
  /\ ~assessment[c].applied /\ assessment[c].recommendation \in {"ban", "dismiss"}
DecisionsSettle == \A c \in Case : LyingDecision(c) ~> ~LyingDecision(c)

-----------------------------------------------------------------------------
(* The inductive invariant.                                                *)

\* The phases of a sweep: what is due, then what was decided and not applied.
Assessing ==
  \/ worker.pc \in {"load", "build", "infer"}
  \/ worker.pc = "apply" /\ worker.then.pc = "load"
Retrying ==
  \/ worker.pc = "retry"
  \/ worker.pc = "apply" /\ worker.then.pc = "retry"

\* A case that is still to be asked about, or is being, has attempts left, and
\* comes up once in a sweep.
DueInv ==
  /\ \A c \in Case : Attempts(c) <= MaxAttempts
  /\ Assessing =>
       /\ queue \in Seq(Case)
       /\ \A i, j \in DOMAIN queue : queue[i] = queue[j] => i = j
       /\ \A i \in DOMAIN queue : Attempts(queue[i]) < MaxAttempts
  /\ worker.pc \in {"build", "infer"} =>
       /\ Attempts(worker.case) < MaxAttempts
       /\ \A i \in DOMAIN queue : queue[i] # worker.case

\* What a request in flight owes the count, until its document moves.
Owing(c) ==
  IF worker.pc = "infer" /\ worker.case = c /\ DocumentOf(c) = worker.document THEN 1 ELSE 0
CallsInv == \A c \in Case : calls[c] <= Attempts(c) + voided[c] + Owing(c)

\* What the sweep may rely on of its own reading.
ReadInv ==
  /\ worker.pc \in {"build", "infer"} => worker.revision <= revision[worker.case]
  /\ worker.pc = "infer" =>
       Consented(worker.case, config.profile) /\ Unresolved(worker.document) = {}

\* A decision rests on the consented profile and on a document all of which
\* could be looked at; at the revision it was read at, the case is that document.
Decided(c) == assessment[c] # None /\ assessment[c].outcome # "no-decision"
Rests(c, a) ==
  /\ declared[c] # None => a.profile = declared[c]
  /\ Means(a.profile, ClassOf[c], a.outcome, a.raw)
  /\ Unresolved(a.document) = {}
DecidedInv ==
  \A c \in Case :
    /\ assessment[c] # None =>
         assessment[c].recommendation \in {"no-decision", assessment[c].outcome}
    /\ Decided(c) =>
         /\ Rests(c, assessment[c])
         /\ assessment[c].revision <= revision[c]
         /\ assessment[c].revision = revision[c] =>
              /\ assessment[c].document.reports = reports[c]
              /\ assessment[c].document.responses = responses[c]

\* Only decisions are applied.
ApplyInv ==
  /\ worker.pc = "apply" => Decided(worker.case)
  /\ Retrying => \A i \in DOMAIN queue : queue[i].case \in Case /\ Decided(queue[i].case)
  /\ Retrying => queue \in Seq([case: Case, revision: Nat])

\* Nothing that was reported is ever taken out.
GrownInv == \A c \in Case : Reported[c] # <<>> => reports[c] # <<>>

IInv ==
  /\ TypeOK
  /\ DueInv
  /\ CallsInv
  /\ ReadInv
  /\ DecidedInv
  /\ ApplyInv
  /\ GrownInv
  /\ RuledUnderTerms
=============================================================================
