------------------------------- MODULE Claims -------------------------------
(***************************************************************************)
(* What follows a verdict at the authority: the accused's appeal, the      *)
(* new-holder claims anyone who knows the case may file, the moderators'   *)
(* reviews of both through the panel and the JSON API, and the reversal    *)
(* (src/authority/src/api.rs, admin.rs, decisions.rs, store.rs).           *)
(*                                                                         *)
(* One case, seen from the store: each store call is one step, and a       *)
(* handler that reads the case and then writes is two, with other requests *)
(* in between.  Filings are counted, what they say is left out.            *)
(***************************************************************************)
EXTENDS Naturals, Sequences

CONSTANTS
  Appellant,              \* requests of the accused in flight at once (bound)
  Claimant,               \* new-holder requests in flight at once (bound)
  Moderator,
  MaxAppeals,             \* MAX_APPEALS_PER_CASE
  MaxNewHolderClaims      \* MAX_NEW_HOLDER_CLAIMS

ASSUME ClaimsAssumption ==
  /\ MaxAppeals \in Nat \ {0}
  /\ MaxNewHolderClaims \in Nat

VARIABLES
  \* the cases row
  disposition, appealState, holderState, claimRevision,
  windowOpen,    \* the appeal deadline has not passed
  \* the case_events of the two kinds of filing
  appeals, claims,
  reviews,       \* history: the review events, in order
  heard,         \* history: the new-holder claims on file at the last refusal
  \* requests between two of their store calls
  appellant, claimant, moderator

case == <<disposition, appealState, holderState, claimRevision, windowOpen>>
filings == <<appeals, claims>>
requests == <<appellant, claimant, moderator>>
history == <<reviews, heard>>
vars == <<case, filings, history, requests>>

NoClaim == "none"
Reviewed == {"appeal", "new-holder", NoClaim}

\* Filings are only ever added, so their number tells one file from another.
OnFile == appeals + claims

\* What a moderator's request carries: where it is, the claim it names (at
\* "commit", the claim it answers), the claim_revision and the filings of the
\* page it was made from, whether it posts that revision, and which claims
\* apply_inner found pending.
Job == [at : {"idle", "page", "uphold", "reverse", "commit"}, claim : Reviewed,
        rev : Nat, pinned : BOOLEAN, shown : Nat,
        sawAppeal : BOOLEAN, sawClaim : BOOLEAN]

Idle == [at |-> "idle", claim |-> NoClaim, rev |-> 0, pinned |-> FALSE,
         shown |-> 0,
         sawAppeal |-> FALSE, sawClaim |-> FALSE]

\* A review event, and whether its page showed every filing then on file.
Review == [claim : Reviewed, outcome : {"upheld", "refused", "reversed", "granted"},
           pinned : BOOLEAN, readAll : BOOLEAN]

TypeOK ==
  /\ disposition \in {"none", "dismiss", "ban", "reversed"}
  /\ appealState \in {"none", "pending", "upheld", "reversed", "moot"}
  /\ holderState \in {"none", "pending", "refused", "granted", "moot"}
  /\ claimRevision \in Nat
  /\ windowOpen \in BOOLEAN
  /\ appeals \in Nat /\ claims \in Nat
  /\ reviews \in Seq(Review) /\ heard \in Nat
  /\ appellant \in [Appellant -> {"idle", "first", "supplement"}]
  /\ claimant \in [Claimant -> {"idle", "looked"}]
  /\ moderator \in [Moderator -> Job]

Init ==
  /\ disposition = "none" /\ appealState = "none" /\ holderState = "none"
  /\ claimRevision = 0 /\ windowOpen = TRUE
  /\ appeals = 0 /\ claims = 0
  /\ reviews = << >> /\ heard = 0
  /\ appellant = [a \in Appellant |-> "idle"]
  /\ claimant = [k \in Claimant |-> "idle"]
  /\ moderator = [m \in Moderator |-> Idle]

-----------------------------------------------------------------------------
(* Mutants: the definitions below as a plausible mistake would have them.  *)

RevisionUnmoved == claimRevision
RequeuedOnce(state) == IF state = "none" THEN "pending" ELSE state
BothAnswered(state, saw, answered, outcome) == IF saw THEN outcome ELSE state

-----------------------------------------------------------------------------
(* The first-instance decision and the clock.                              *)

\* commit_decision of a dismissal or a ban of the open case (CaseLifecycle
\* says when); it answers no claim.
DecideCase ==
  /\ disposition = "none"
  /\ disposition' \in {"dismiss", "ban"}
  /\ UNCHANGED <<appealState, holderState, claimRevision, windowOpen, filings,
                 history, requests>>

\* The deadline of an appeal is set by the ban.
CloseWindow ==
  /\ disposition = "ban" /\ windowOpen
  /\ windowOpen' = FALSE
  /\ UNCHANGED <<disposition, appealState, holderState, claimRevision, filings,
                 history, requests>>

-----------------------------------------------------------------------------
(* Filing: appeal and record_new_holder_claim.                             *)

\* Every filing moves claim_revision.
AfterFiling == claimRevision + 1

\* set_appeal_state of a first filing is conditioned on `none`.
FirstFilingHolds == appealState = "none"

SupplementHasRoom == appeals < MaxAppeals

\* appeal reads the case: only a ban, only in its window, and a decided
\* review is not re-opened.
ReadForAppeal(a) ==
  /\ appellant[a] = "idle"
  /\ disposition = "ban" /\ windowOpen
  /\ appealState \in {"none", "pending"}
  /\ appellant' = [appellant EXCEPT ![a] =
                     IF appealState = "none" THEN "first" ELSE "supplement"]
  /\ UNCHANGED <<case, filings, history, claimant, moderator>>

FileFirst(a) ==
  /\ appellant[a] = "first"
  /\ appellant' = [appellant EXCEPT ![a] = "idle"]
  /\ IF FirstFilingHolds
     THEN /\ appealState' = "pending"
          /\ appeals' = appeals + 1
          /\ claimRevision' = AfterFiling
     ELSE UNCHANGED <<appealState, appeals, claimRevision>>
  /\ UNCHANGED <<disposition, holderState, windowOpen, claims, history, claimant, moderator>>

\* append_claim_event_bounded asks for room, and nothing of the state.
FileSupplement(a) ==
  /\ appellant[a] = "supplement"
  /\ appellant' = [appellant EXCEPT ![a] = "idle"]
  /\ IF SupplementHasRoom
     THEN /\ appeals' = appeals + 1
          /\ claimRevision' = AfterFiling
     ELSE UNCHANGED <<appeals, claimRevision>>
  /\ UNCHANGED <<disposition, appealState, holderState, windowOpen, claims, history, claimant, moderator>>

\* A stranger's claim is looked at only against a ban.
ReadForClaim(k) ==
  /\ claimant[k] = "idle"
  /\ disposition = "ban"
  /\ claimant' = [claimant EXCEPT ![k] = "looked"]
  /\ UNCHANGED <<case, filings, history, appellant, moderator>>

\* A claim queues the case again after a refusal, not after a grant.
Requeued(state) == IF state \in {"none", "refused"} THEN "pending" ELSE state

RecordClaim(k) ==
  /\ claimant[k] = "looked"
  /\ claimant' = [claimant EXCEPT ![k] = "idle"]
  /\ IF claims < MaxNewHolderClaims
     THEN /\ claims' = claims + 1
          /\ holderState' = Requeued(holderState)
          /\ claimRevision' = AfterFiling
     ELSE UNCHANGED <<claims, holderState, claimRevision>>
  /\ UNCHANGED <<disposition, appealState, windowOpen, appeals, history, appellant, moderator>>

-----------------------------------------------------------------------------
(* Reviewing: the panel's page and form, and decide of the JSON API.       *)

Pending(claim) ==
  \/ claim = "appeal" /\ appealState = "pending"
  \/ claim = "new-holder" /\ holderState = "pending"

\* The claims a form's subject may name: `none` stands for the one pending,
\* and is refused when both are.
Subjects(subject) ==
  IF subject # NoClaim THEN {subject}
  ELSE IF Pending("appeal") /\ Pending("new-holder") THEN {}
  ELSE IF \E c \in Reviewed : Pending(c) THEN {c \in Reviewed : Pending(c)}
  ELSE {NoClaim}

\* A review commits only against the filings its page showed, when it posts
\* the revision of that page.
PinHolds(job) == job.pinned => job.rev = claimRevision

ReviewOf(job, claim, outcome) ==
  [claim |-> claim, outcome |-> outcome, pinned |-> job.pinned,
   readAll |-> job.shown = OnFile]

\* The request made from a page; one that posts no revision keeps nothing of it.
Submitted(page, at, claim, pinned) ==
  [(IF pinned THEN page ELSE Idle) EXCEPT !.at = at, !.claim = claim, !.pinned = pinned]

\* The page offers a review of a ban, or of whatever is pending.
OpenPage(m) ==
  /\ moderator[m].at = "idle"
  /\ disposition = "ban" \/ Pending("appeal") \/ Pending("new-holder")
  /\ moderator' = [moderator EXCEPT ![m] =
                     [Idle EXCEPT !.at = "page", !.rev = claimRevision, !.shown = OnFile]]
  /\ UNCHANGED <<case, filings, history, appellant, claimant>>

\* review reads the case: an uphold needs its claim pending, a reversal a
\* ban; a reversal that answers nothing names the appeal.  Anything else is
\* refused.
SubmitForm(m, subject, outcome, pinned) ==
  /\ moderator[m].at = "page"
  /\ \/ \E claim \in Subjects(subject) :
          \/ /\ outcome = "uphold" /\ Pending(claim)
             /\ moderator' = [moderator EXCEPT ![m] = Submitted(@, "uphold", claim, pinned)]
          \/ /\ outcome = "reverse" /\ disposition = "ban"
             /\ moderator' = [moderator EXCEPT ![m] = Submitted(@, "reverse",
                  IF claim = "new-holder" THEN claim ELSE "appeal", pinned)]
     \/ moderator' = [moderator EXCEPT ![m] = Idle]
  /\ UNCHANGED <<case, filings, history, appellant, claimant>>

\* set_appeal_state and set_new_holder_state of a review.
UpholdHolds(job) == Pending(job.claim) /\ PinHolds(job)

Uphold(m) ==
  LET job == moderator[m]
      outcome == IF job.claim = "appeal" THEN "upheld" ELSE "refused"
  IN /\ job.at = "uphold"
     /\ moderator' = [moderator EXCEPT ![m] = Idle]
     /\ IF UpholdHolds(job)
        THEN /\ appealState' = IF job.claim = "appeal" THEN outcome ELSE appealState
             /\ holderState' = IF job.claim = "appeal" THEN holderState ELSE outcome
             /\ claimRevision' = claimRevision + 1
             /\ reviews' = Append(reviews, ReviewOf(job, job.claim, outcome))
             /\ heard' = IF job.claim = "appeal" THEN heard ELSE claims
        ELSE UNCHANGED <<appealState, holderState, claimRevision, history>>
     /\ UNCHANGED <<disposition, windowOpen, filings, appellant, claimant>>

\* The claim a reversal answers: the one it names, if it is pending.
Answered(claim) == IF Pending(claim) THEN claim ELSE NoClaim

Found(job) ==
  [job EXCEPT !.at = "commit", !.claim = Answered(job.claim),
              !.sawAppeal = Pending("appeal"), !.sawClaim = Pending("new-holder")]

\* What a reversal goes on with: only a ban can be reversed.
Read(job) == IF disposition = "ban" THEN Found(job) ELSE Idle

\* apply_inner reads the case.
ReadForReversal(m) ==
  /\ moderator[m].at = "reverse"
  /\ moderator' = [moderator EXCEPT ![m] = Read(@)]
  /\ UNCHANGED <<case, filings, history, appellant, claimant>>

\* decide asks nothing of the case before apply_inner, and a reversal that
\* names no claim carries no revision.
SubmitReversal(m, claim, pinned) ==
  /\ moderator[m].at = "page"
  /\ claim = NoClaim => ~pinned
  /\ moderator' = [moderator EXCEPT ![m] = Read(Submitted(@, "reverse", claim, pinned))]
  /\ UNCHANGED <<case, filings, history, appellant, claimant>>

\* What a reversal writes to a claim: nothing unless it was found pending.
ReversedTo(state, saw, answered, outcome) ==
  IF ~saw THEN state ELSE IF answered THEN outcome ELSE "moot"

\* Each claim it moves takes the claim revision with it.
Moves(job) == (IF job.sawAppeal THEN 1 ELSE 0) + (IF job.sawClaim THEN 1 ELSE 0)

CommitHolds(job) == disposition = "ban" /\ PinHolds(job)

\* commit_decision of a reversal.
CommitReversal(m) ==
  LET job == moderator[m]
  IN /\ job.at = "commit"
     /\ moderator' = [moderator EXCEPT ![m] = Idle]
     /\ IF CommitHolds(job)
        THEN /\ disposition' = "reversed"
             /\ appealState' = ReversedTo(appealState, job.sawAppeal, job.claim = "appeal", "reversed")
             /\ holderState' = ReversedTo(holderState, job.sawClaim, job.claim = "new-holder", "granted")
             /\ claimRevision' = claimRevision + Moves(job)
             /\ reviews' = IF job.claim = NoClaim THEN reviews
                           ELSE Append(reviews, ReviewOf(job, job.claim,
                                  IF job.claim = "appeal" THEN "reversed" ELSE "granted"))
        ELSE UNCHANGED <<disposition, appealState, holderState, claimRevision, reviews>>
     /\ UNCHANGED <<heard, windowOpen, filings, appellant, claimant>>

-----------------------------------------------------------------------------
Appealing == \E a \in Appellant : ReadForAppeal(a) \/ FileFirst(a) \/ FileSupplement(a)

Claiming == \E k \in Claimant : ReadForClaim(k) \/ RecordClaim(k)

Reviewing == \E m \in Moderator :
  \/ OpenPage(m)
  \/ \E s \in Reviewed, outcome \in {"uphold", "reverse"}, pinned \in BOOLEAN :
       SubmitForm(m, s, outcome, pinned)
  \/ \E s \in Reviewed, pinned \in BOOLEAN : SubmitReversal(m, s, pinned)
  \/ Uphold(m) \/ ReadForReversal(m) \/ CommitReversal(m)

Next == DecideCase \/ CloseWindow \/ Appealing \/ Claiming \/ Reviewing

Spec == Init /\ [][Next]_vars

-----------------------------------------------------------------------------
(* Properties.                                                             *)

ReviewsOf(claim) == {i \in DOMAIN reviews : reviews[i].claim = claim}

\* The endpoints cannot be used as storage: however many requests race past
\* their reads, an appeal and the claims beside it stay within their caps.
FilingsBounded ==
  /\ appeals <= MaxAppeals
  /\ claims <= MaxNewHolderClaims

\* A review that posts the revision of its page decided the very filings the
\* page showed: no supplement, no claim and no other answer slipped under it.
PinnedReviewReadFile ==
  \A i \in DOMAIN reviews : reviews[i].pinned => reviews[i].readAll

\* An outcome is the record of a review that happened, and a reversal answers
\* one claim: a state that says upheld, refused, reversed or granted has its
\* review, an appeal nobody reviewed stays unreviewed through everything a
\* stranger files, and clearing the marks for one claimant never decides the
\* other's claim.
OutcomesReviewed ==
  /\ appealState \in {"upheld", "reversed"} =>
       \E i \in ReviewsOf("appeal") : reviews[i].outcome = appealState
  /\ holderState \in {"refused", "granted"} =>
       \E i \in ReviewsOf("new-holder") : reviews[i].outcome = holderState
  /\ appealState \in {"none", "pending"} => ReviewsOf("appeal") = {}
  /\ appealState = "reversed" \/ holderState = "granted" => disposition = "reversed"
  /\ ~(appealState = "reversed" /\ holderState = "granted")

\* A refusal never consumes the genuine holder's remedy: while the claim
\* stands refused, every claim on file was there when it was refused.
RefusalHeardEveryClaim ==
  holderState = "refused" => heard = claims

\* Two moderators on one appeal leave one review of it, as long as both post
\* the revision of the page they read.
AppealReviewedOnce ==
  (\A i \in DOMAIN reviews : reviews[i].pinned) =>
    \A i, j \in ReviewsOf("appeal") : i = j

-----------------------------------------------------------------------------
(* The inductive invariant behind the theorems.                            *)

\* An appeal not yet filed has no filings, and nothing to supplement.
UnfiledIsEmpty ==
  appealState = "none" =>
    appeals = 0 /\ \A a \in Appellant : appellant[a] # "supplement"

\* A page at the current revision shows the whole file, and a pinned reversal
\* at the current revision found what is still pending.
JobInv ==
  \A m \in Moderator :
    LET job == moderator[m] IN
    /\ job.at = "page" \/ job.pinned =>
         /\ job.rev <= claimRevision
         /\ job.rev = claimRevision => job.shown = OnFile
    /\ job.at = "commit" =>
         /\ job.claim = "appeal" => job.sawAppeal
         /\ job.claim = "new-holder" => job.sawClaim
         /\ job.pinned /\ job.rev = claimRevision /\ job.sawAppeal => Pending("appeal")

Inv ==
  /\ TypeOK /\ UnfiledIsEmpty /\ JobInv
  /\ FilingsBounded /\ PinnedReviewReadFile /\ OutcomesReviewed
  /\ RefusalHeardEveryClaim /\ AppealReviewedOnce
=============================================================================
