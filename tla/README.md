# onym-moderation, in TLA+

A verification development for the moderation services of this repository: the
authority (`authority/`), which takes reports, opens cases and signs verdicts,
and the interfaces (`apple/`, `android/`), which execute verdicts as marks on
devices. The specifications are checked with TLC on small instances, and most
of their safety properties are proved with TLAPS for every value of the
constants.

## 1. The system

A user consents to an authority by a *mandate* that an interface countersigns
and that pins the hash of a *manifest*: the classes of violation, their response
windows and decision deadlines, the authority's key. Reporters file *reports*
with the authority; a report opens a case or joins the open one; each signed
*notice* is delivered to the interface, which sets the case-open mark at the
device's next session. The accused responds; a moderator, the triage model or
the deadline sweep rules; a ban is appealed, reversed, or outlived.

Both services are async Rust over one SQLite connection behind a mutex. Every
store method takes the lock for its whole body, so a store call is atomic and a
handler is a sequence of them: **what a handler read before an unlock may be
stale when it is used**. That is the shape of nearly every hazard below.

| component | state | operations | interacts by |
|---|---|---|---|
| case lifecycle (`authority/src/api.rs`, `decisions.rs`, `cases.rs`) | cases, reports, responses, case events, verdicts, reporters | file-report, join, open, respond, decide | store; enqueues verdicts |
| scheduling (`deadlines.rs`) | none of its own | overdue sweep, triage sweep, retention sweep | calls decisions, triage, delivery |
| triage (`triage.rs`, `profiles.rs`, `casedoc.rs`) | assessments | assess, record, apply, retry, discard | inference server; decisions |
| delivery (`delivery.rs`) | verdict rows' delivery columns, two atomic flags | flush, flush_soon, requeue | HTTP to the interface |
| claims (`api.rs`, `admin.rs`, `decisions.rs`) | appeal and new-holder columns, `claim_revision`, claim events | appeal, supplement, new-holder claim, uphold, refuse, reverse | decisions |
| device recovery (`recovery.rs`, `admin.rs`) | recovery claims, signed grants | file, grant, refuse | grants redeemed at the interface |
| evidence and retention (`media.rs`, `referral.rs`, `deadlines.rs`) | blobs, holds, referrals | upload, attach, hold, release, expire | case lifecycle |
| moderator panel (`admin.rs`) | sessions | pages and forms | decisions, claims |
| ingest (`apple/src/api.rs`, `verdict.rs`) | verdicts, mandates | receive_verdict | authority's delivery |
| marks (`apple/src/enforcement.rs`) | two bits per device at Apple | gate check, reconcile | DeviceCheck |
| recovery (`enforcement.rs`, `store.rs`) | recoveries, unban recoveries | recover, recover with an unban grant | authority's grants |
| consent (`countersigning.rs`, `api.rs`) | enrollments, mandates, signatures | enroll, countersign | authority |
| write log (`store.rs`) | a hash chain | append, verify | every write of bits |
| Android interface (`android/`) | as Apple, challenges, a recall window | as Apple, without recovery | Play Integrity |

**Hard behaviours.** Handlers interleave between their store calls. The clock is
read once per request and used later. The model answers minutes after it read.
The sweep works from a snapshot. Requests to Apple and to the interface may be
executed and their answer lost. The drain of verdicts has a lock-free gate.
Either service may be killed between any two steps. `PROJECT.json` lists each
hazard at its line.

**What makes each part correct.**
*Lifecycle*: one open case per accused and class; no allegation without a
notice; no ban before a served window; one ruling, reversed at most once;
undecided is dismissal; an automated ruling on the current file.
*Delivery*: one drain at a time; a verdict is delivered or surfaces as stuck;
never counted as delivered unless executed.
*Marks*: a function of the signed decisions, whatever the order of arrival; set
only by a ban in force; one ban, one device; convergence at the next sessions.
*Recovery*: only the granted case moves, never with a live ban, once per grant.
*Claims*: a claim is answered once, on the material as it stands, and an outcome
is the record of a review that happened; a stranger's filings can neither exhaust
the genuine holder's remedy nor touch the accused's appeal.
*Retention*: nothing under a hold or in a live case is deleted, and a mandate
outlives the cases judged under it.
*Triage*: a model's reading decides only as the profile's published terms
document, under the profile consented to, on all of the file; requests end.
*Consent*: one challenge, one session; a rotation of keys strands nobody; a
verdict is checked against the manifest its mandate pinned.
*Recovery claims*: one grant per claim, the one in the case's ledger.

## 2. Modules

A step is one store call together with the lock-free work next to it, one
request to a platform, or one look at an atomic flag; a handler is a record with
a program counter that keeps what it read. Guards that read the same reading of
a row share a step. A definition under "Mutants" is a guard as a plausible
mistake would have it: it occurs in no behaviour and is there to show that some
property notices the mistake. The `MC*` modules give the constants for TLC.

**The authority's cases.** `CaseContract` is what the authority promises about
one (accused, class) pair, with requests, clocks and notices left out: open on a
report, collect reports while open, rule once, reverse a ban once.

`CaseLifecycle` is the code: `filing[f]` is a `file_report` request
(`FileLook`, `FileStore`, then `JoinCheck`/`JoinAttach`/`JoinRenotice` or
`OpenCase`/`OpenLost`/`Relook`, then `FileAttach`), `deciding[d]` a decision in
`apply_inner` (`ModeratorRead` or `TriageApply`, `DeciderGather`,
`DeciderNotices`, `DeciderCommit`), `sweeping` the overdue sweep with its
snapshot. The rest are table columns. Two lookups of `file_report` (the report
row, the open case) are one step: the row matters only while it has no case,
and every later transaction asserts that again. Time is a tick counter; the
windows come from the manifest the accused consented to and are constants.

`Claims` is one decided case and what may follow: `ReadForAppeal` then
`FileFirst` or `FileSupplement` for the accused, `ReadForClaim` then
`RecordClaim` for strangers, and for a moderator `OpenPage`, then `SubmitForm`
and `Uphold` or `ReadForReversal` and `CommitReversal`, or `SubmitReversal` (`/decide`)
and `CommitReversal`. A request either posts the `claim_revision` of its page
(`pinned`) or, like an older form or a `/decide` without `claimRevision`, keeps
nothing of it. Filings are counted, because they are only ever added.

`Panel` is the recovery claim of a holder who lost a device: `File`, the
panel's sessions and pages, the form worked off in three store calls
(`SendForm`, `ReadCase`, `Answer`), the signed grant and its entry in the case's
ledger, the poll, and the redemption.

`Evidence` is the custody of images: uploads, reports and responses that attach
them, preservation and holds, referral, and the retention sweep over media,
cases, sanctions and mandates, with the boot check of the schedule. Its tick is
a day, the unit of every period, so a request ends in the tick it began in.

**Triage.** `Profiles` is `evaluate` for the three kinds of adapter, and
`Means` what the terms document, written the other way round: the outputs that
may decide, instead of the checks one has to pass. An output is what the code
cuts it into (verdict lines, category lines, an open reasoning block, a softmax).
`ReferenceProfiles` is the six shipped profiles. `Assessment` is the sweep:
`StartSweep`, `Load`, then `Refuse` or `Ask`, then `Fail`, `AnswerStale` or
`Answer`, `Apply`, and `StartRetry`/`RetryNext` for decisions not yet applied,
while responses, joins, lost derivatives, duties and restarts go on.

**Delivery.** `Delivery` has the atomic flags `flush_in_flight` and
`flush_again` as steps of their own, the store calls of a flush, the refusal
counter, requeue, the sweep's ungated flush, panics and restarts. The interface
is external: a request is executed or not, answered or not.

**The interfaces.** `Marks` says what a set of verdicts means for a device's two
bits, in sets and quantifiers; `MarksFold` is the loop of `intended_marks` over
the ordered record, less the notices a ruling has superseded, which the loop
passes over. The loop pushes to its lists what it reads as it reads it, so a list
is modelled as the set of what is on it, in reading order. `Docket` composes that loop with the way verdicts get on
file at the Apple interface (`validate`, the manifest a mandate pins,
`put_verdict`, `supersede`, a mandate put again) and with the notices a session
serves. `Enforcement` uses `Marks`: ingest in three steps (`Receive`,
`PutVerdict`, `Supersede`) and a session that queries Apple, folds, writes and
flags, or presents a grant. `Recall` is the same on Android, where a token may
lag an accepted write or carry no recall object, a write names only the values
that differ from what the token showed, and each is logged.

**Consent.** `Consent` has challenges and their window, signed sessions that are
admitted once, enrollment, countersigning under an epoch, registration at the
authority, and the operators' rotation of the key on two machines. Its clock
counts half seconds, because the tables truncate and the stamps do not.

The modules meet where the code does, and each names the other for what it
leaves out: the revision that `CaseLifecycle` commits against is the one
`Assessment` reads at; the reports that `Evidence` keeps material for are filed
there; `Delivery` hands over what `Docket` and `Enforcement` receive; the grant
that `Panel` signs is the one `Enforcement` redeems.

## 3. Runs

| run | question | bounds |
|---|---|---|
| `CaseDecide` | who may rule, when, on what reading | 1 case, 2 reports, 1 filer, 1 moderator, 1 triage, 1 response, 4 instants |
| `CaseIntake` | notices; implements `CaseContract`; undecided is dismissal | 2 cases, 3 reports of which two share evidence, 2 filers, limit of 2 notices, 2 instants |
| `ClaimsReview` | pinned reviews, outcomes, refusals | 2 requests of the accused, 1 of a stranger, 2 moderators, caps of 2 |
| `Panel` | one grant per claim, and the ledger | 2 holders, 2 moderators, 2 claims, 1 case, 2 logins, 3 instants |
| `Evidence` | what a sweep, a refusal and a filing may delete | 3 cases of three classes, 1 photo and 1 that is none, 1 request, 3 days |
| `Assessment` | what is put to a model, how often, what comes of it | 1 case, 3 profiles (one per adapter), 1 image, 2 attempts, 2 outside steps, 4 instants |
| `Delivery` | gate, no false delivery, every verdict settles | 1 verdict, 2 handlers, 2 drains, 2 faults, 2 refusals |
| `Docket` | loop = set definition, notices, consented terms | 8 submissions of 2 cases, 2 mandates, 4 on file, instants 0, 10, 21, 32 |
| `EnforceConverge` | convergence, flagged bans, one device per ban | 4 verdicts, 2 devices, 1 session at a time, 1 fault, 4 instants |
| `EnforceRecover` | grants move one case, never a live ban | 2 sessions, 2 grants, 3 verdicts, 1 fault, 3 instants |
| `Recall` | the gate, the log, convergence under lag | 2 verdicts, 2 identities, 1 device, 1 session, 1 fault, 3 instants |
| `Consent` | the cap, one session per challenge, rotation, newest terms | 1 user, 3 challenges, 2 challenge handlers, 1 session, 3 mandates, 8 counted steps |

The bounds are the smallest at which the cases of the hazard list happen: two
actors of a kind where they race, two items of a kind where one could be taken
for the other, time up to one instant past the last deadline, caps of 1 or 2 so
that they are met. In `ClaimsReview` one request of a stranger at a time is
enough because `RecordClaim` re-reads all it depends on, and it may be made
again, so a claim follows a refusal. In `Docket` one request is in flight: two
with three verdicts on file is beyond what is run here, and every order of
arrival is reached without. In `Assessment` one case is enough for each guard;
the order and budget of the queue matter to the theorem on requests, which is
proved for any number of cases. The limit on notices is met in `CaseIntake`
before a third piece of evidence could exceed it, so `NoticesBounded` is not a
property of a run but a theorem (`Limited`). Every bound is a named constant.
Deadlock is not checked: each system stops when its clock, its reports or its
faults run out. The type invariants (`TypeOK`, `DeliveryTypeOK`, `DocketTypeOK`)
are proved and not run.

Every property has a mutant: a definition as a plausible bug would have it,
under which TLC finds the property violated in the same run.

**Fairness.** `CaseIntake` assumes that the sweep's loop goes on, which `spawn`
does whatever its errors, and that the process is not restarted for ever.
`Delivery` assumes that the sweep's flush goes on and that the interface
answers, in the long run, what it is asked. `EnforceConverge` and `Recall`
assume that a request begun ends (the clients have timeouts) and that every
device keeps verifying itself at its sessions (strong fairness, because the
model has one session slot and the devices take turns at it); `Recall` also that
an accepted write becomes visible and its grace window lapses. `Assessment`
assumes the sweep, the outbox and the deadline sweep go on and restarts end. No
fairness is assumed of users, moderators, the model or prompt drains.

## 4. Proofs

| module | theorems | properties |
|---|---|---|
| `CaseLifecycle_proofs` | `Typing`, `Notified`, `Rulings`, `Horizons`, `NoSanctionBeforeNotice`, `AutomatedOnTheWholeFile`, `Limited`, `Implements` | `NoticeForEveryAllegation`, `RulingJustified`, `RulingsRespectHorizon`, `BanAfterAServedWindow`, `AutomatedRulingsSound`, `NoticesBounded`, `ImplementsContract` |
| `Exchange_proofs`, on `Claims` | `Typing`, `FilingsStayBounded`, `ReviewsReadTheFile`, `OutcomesHaveReviews`, `RefusalsHeardThemAll`, `OneReviewPerAppeal` | `FilingsBounded`, `PinnedReviewReadFile`, `OutcomesReviewed`, `RefusalHeardEveryClaim`, `AppealReviewedOnce` |
| `Panel_proofs` | `Typing`, `Accounted`, `Followed`, `Answers` | `GrantsAccounted`, `GrantsFollowDecisions`, `AnswersStand` |
| `Evidence_proofs` | `Typing`, `OnFile`, `Duty`, `TermsKept`, `Held` | `MediaOnFile`, `DutyOnBooks`, `TermsOutliveRecord`, `HeldKept` |
| `Assessment_proofs` | `Typing`, `Calls`, `UnderTerms`, `ReadWhole`, `NoAcquittal`, `Readings` | `CallsBounded`, `RuledUnderTerms`, `RulingReadWhole`, `FloodingNeverAcquits`, `VerdictsReadable` |
| `Exchange_proofs`, on `Delivery` | `DeliverySafe`, `Executed` | `GateHeldByOneDrain`, `GivenUpOnlyAfterBudget`, `DeliveredWasExecuted` |
| `Exchange_proofs`, on `Docket` | `DocketTyping`, `OnlyValidBans`, `SanctionsAgreed`, `OneRecordOneReading`, `NoticesNeverGoBack` | `BanWithinConsent`, `ReadingsAgree`, `NoticesAdvance` |
| `Enforcement_proofs` | `Typing`, `MarksOnlyByVerdicts`, `CasesMoveOnlyByGrants`, `RecoveredForGood`, `OneDeviceEach`, `ExecutedStands` | `MarkCarriedByABan`, `ExecutedWasCarried`, `MovedOnlyByGrant`, `RecoveredStaysClear`, `OneDevicePerBan`, `ExecutedBanIsMarked` |
| `Recall_proofs` | `Typing`, `Refused`, `Accounted` | `RefusedWhileBanned`, `WritesAccounted` |
| `Consent_proofs` | `Typing`, `OneSession`, `Bounded`, `Rotation`, `Registered`, `Governs` | `AdmittedOnce`, `OutstandingBounded`, `RotationGapless`, `RegisteredOnFile`, `NewestGoverns` |

They hold for any sets of cases, reports, requests, moderators, devices, grants,
profiles and outputs, any windows and any caps, from the `ASSUME` of each module
(which TLC evaluates on every run). Each module also proves its inductive
invariant as a theorem, `Inductive` (`IInv`, or `Inv` in `Claims`);
`OnlyValidBans` is that of `Docket` (`DocketInv`), and `DeliverySafe` states
the properties of `Delivery` together. `Exchange_proofs` is about three modules
that share no state: what the authority hears, what it sends, and what becomes
of it at the interface.

None of the properties is inductive: each speaks of rows, and what keeps it is
what a *request in flight* still may rely on of what it read.

- `CaseLifecycle`: a filer's case exists and its horizon is the one it read
  (joins write it back, so it never moves: the key fact behind
  `RulingsRespectHorizon`); a decider about to ban has a served notice a full
  window older; an automated decider whose basis is still the revision has read
  the current window, reporters and notices; the sweep's snapshot is overdue. The
  limit on notices holds because a notice and its piece of evidence are written
  by one transaction, which re-checks the room (`CountInv`, an argument about
  cardinalities).
- `Claims`: a page at the current `claim_revision` shows the whole file, because
  every filing moves it; a pinned reversal at the current revision still finds
  pending what it found pending; an appeal not yet filed has no supplement in
  flight.
- `Panel`: a form in flight names the claim's own holder, and a case it may
  grant has a disposition, which never goes away.
- `Evidence`: a request in flight began today, so its case is not past its
  deadline; what it found is on file or the request is overtaken; what the sweep
  listed may still go, or is checked again where it is deleted; a preserving
  case without hold or referral is one whose own filing is about to place it; a
  mandate goes only when no case needs it.
- `Assessment`: a case comes up once in a sweep and with attempts left, so a
  failed round trip is charged within the budget; a request in flight owes the
  count one, until its document moves, which is counted too; a decision rests on
  a document all of which could be looked at and which, at its revision, is the
  case; only decisions are applied.
- `Delivery`: an answer "delivered" was an execution, and a task about to give
  up has counted the budget or met a requeue.
- `Enforcement`: a session about to write a ban holds bans on file whose day had
  come by its own clock, which is not ahead of the real one; a handler about to
  store a row elsewhere than its mandate says has a spent grant for it.
- `Enforcement`, recovered cases: `RecoveredForGood` has a hypothesis,
  `RulingsFinal`, and an invariant of its own beside `IInv`, `RecoveredInv`. The
  interface checks the source before the transaction that adopts the case, and
  only a row's absence could make it wrong: until a case is recovered its rows
  are all with the accused (`IngestTarget` follows recoveries alone), so the row
  that governs the case file governs the case; if that settles it, its dismissal
  is there or its ban is over, and neither ends. The redemption then takes the
  dismissal along. A ban that arrives later lies under the dismissal, or is the
  one that is over. `RulingsFinal` says that a case has one accused, one ban at
  most and no dismissal before it (what `CaseContract` promises), and one grantee.
  The last is the authority's to keep: TLC finds two redemptions, for two
  grantees, where the dismissal goes to the second and the ban, which arrives
  between, to the first. `MCEnforcement` assumes `RulingsFinal`, so
  TLC checks that the instances meet it.
- `Enforcement`, one session at a time: the code reads the flag of a ban before
  it writes and sets it afterwards, so what the flag is for holds under
  conditions. `OneDeviceEach` (`BrandInv`): while no session overlaps and there
  is one ban, each device that bears it beyond the first, and the first one too
  until the ban is flagged or about to be, is paid for with a fault; a device
  found marked bears that ban. `ExecutedStands` (`StandInv`): for one identity,
  a session folds no clock older than a ban executed before it, and rulings stay
  on file, so a fold that clears a device meets no executed ban that stands
  (`StoodBefore`); nor does an unban grant, because where a ban is in force the
  record reads as banned or open (`InForceReads`). The conditions are needed: two
  devices that fold before either is flagged both get the mark; with two bans,
  a second device takes the mark of the later one while the first is still
  marked for the earlier, and the first gets the later one as well when its other
  bit is next written (TLC finds that without overlapping sessions); and a second
  identity without a ban, on the same device, clears it. `EnforceConverge` has one
  session, one identity and one ban.
- `Recall`: the bans a session folded are on file and due by its own clock, and
  where it found none, no ban it opened on stands; that survives whatever is
  filed meanwhile, because a row that ends a ban stays on file and only notices
  are superseded. A call without an entry in the log belongs to a session about
  to write it or was cut off by a restart, which cuts off at most every session
  once.
- `Docket`: a ban was judged against the manifest its mandate pins before it was
  taken up, and stays judged although the mandate's row may lose its manifest
  before the ban is filed; a notice is superseded only once a ruling of its case
  is on file.
- `Consent`: a challenge that admitted a session is spent or swept, and never
  issued again; handlers that counted together hold the places they may yet
  take above the cap; the authority lists the epoch in use. For `NewestGoverns`,
  the governing row is the last of the largest stamps (`LastRow`), and a row that
  is already there changes no stamp.

Each lemma takes the actions one by one.

**The loop.** `ReadingsAgree` speaks of what a loop computes, for any record.
`LastOfThem` finds in every set of verdicts on file the one that is read last:
what is read after x is a finite set, and by the library's theorem on strict
subsets some x has a smallest one. `LoopUnfolds` shows the loop defined, one
verdict after another, by a least number for which it would not be. `FoldStep` is
the heart: if the accumulators are the open cases and the bans in force of what
was read, and v is read after all of it, then `FoldVerdict` leaves those of the
record with v. It needs that two bans of one case never share a second, which
is an assumption of `Marks`. `LoopIs` then follows from a smallest set of
verdicts on which the loop would go wrong. `SupersedingIsRedundant` is
conditional on a record in which no notice is later than a ruling of its case: in
others the code's answer depends on which of the two arrived first, see the
remarks on notices in section 5.

**Only model-checked** are liveness (`OverdueDecided`, `EveryVerdictSettles`,
`MarksConverge` twice, `DecisionsSettle`), which needs fairness and ENABLED.
Every invariant and every safety property of a run is stated by a theorem; three
of them under the conditions named above for `Enforcement`.

## 5. Where the code and its documentation part

The models do what the code does. Met on the way, and not claimed by any run:

- authority `README.md:44`, "every notice must reach the interface before a ban
  can issue": `decisions.rs:283` checks the notices before the commit, and the
  commit of a moderator expects no revision, so a join in between leaves a
  notice undelivered under the ban. `BanAfterAServedWindow` says what remains.
- apple `store.rs:639`, "a case never splits across bindings":
  `receive_verdict` looks the binding up under one lock and stores under another
  (`api.rs:297`), so a verdict in flight across a recovery stays behind.
- authority `README.md:147`, "a reversal cannot leave an appeal queued": a
  filing that read a ban (`api.rs:1423`) is queued after the reversal, because
  it expects only that no appeal is filed.
- `deadlines.rs:284`, "a case whose terms can no longer be resolved and whose
  content is therefore kept forever": it does happen, when the schedule keeps case
  media longer than the sanction record, which `types.rs:228` lets through.
- `triage.rs`, on attempts: a decision invalidated by a later response keeps its
  counted attempt, so many responses can spend the budget; an error before the
  request (no consented profile, a missing derivative) is not counted at all.
- A decision recorded in advisory mode is applied by the retry after a restart in
  autonomous mode. A derivative the accused's own image lost stops every
  automated decision of the case.
- Joins that commit against the order of their clocks move the response window
  back (`store.rs:1293`). Two grants of one case to one grantee in one second
  share a reference. A signed claim can be filed again, while fresh, once the
  first is answered.
- apple `README.md:352`, a banned identity's second device is left alone once
  "the ban has already been written somewhere": with two bans that holds of the
  one flagged; when it has expired, the other, which the marked device never had
  to be written for, marks a clean device. `OneDeviceEach` assumes one ban.
- Apple: a session's late write of an older fold clears the mark of an executed
  ban (`enforcement.rs:146`), after which the ban is withheld from its own
  device; a grant is spent before the clearing write (`:485`); the newest
  recovery is found by the clock its session read (`store.rs:662`); a notice that
  arrives after its case ended is served (`enforcement.rs:879`); a human
  dismissal stamped before a join's notice leaves the notice newest
  (`decisions.rs:321`); a countersign that is retried drops the manifest
  (`store.rs:406`) and with it the notices, until the next verdict.
- Android: a ban that was executed but not shown by a lagging token is not
  re-written; a second identity with a clean record clears the mark of the
  first. The cap on challenges counts unspent ones and is checked before the
  insert: `OutstandingBounded` says by how much it may be passed.

## 6. Not modelled, and what is left

Not modelled: canonical encodings, prompts and the wording of requests, HTML,
media pages and lists of the panel, the login throttle, the parsing of
configuration, HTTP clients. They keep no state of their own; where their
outcome matters it is a parameter or a nondeterministic choice. The Android
verdict validation and the Apple countersigning are the same code as the ones
modelled. The write log of the Apple interface is left to that of Android; its
hash chain and the audit are not modelled.

Hazards of the code that no model has yet: the case-wide ceiling on media is
checked before the attachment; a crash between attaching a report and its
images, and between holding the images and the case; a duty placed again keeps
its referral; the deletion of a case record does not look at the hold again; a
mandate with several cases is never dropped; the sanction record of a reversed
permanent ban is kept.

Left, in order: a contract of the marks that `Enforcement` and `Recall` both
implement; a composition of lifecycle, delivery and enforcement for one accused,
with the clock of each decision carried into the marks; the Apple write log; two
overlapping deliveries in `Docket`.
