--------------------------- MODULE Exchange_proofs --------------------------
(***************************************************************************)
(* Theorems, for every value of the constants, about what the authority    *)
(* and those outside it send each other: the claims and appeals it hears   *)
(* (Claims), the verdicts it delivers (Delivery) and their reception and   *)
(* filing by the interface (Docket).                                       *)
(***************************************************************************)
EXTENDS Claims, Delivery, Docket, TLAPS, FiniteSetTheorems

-----------------------------------------------------------------------------
(* Claims.                                                                 *)

\* Appending a review adds one place and leaves the others.
LEMMA Appended ==
  ASSUME NEW S, NEW s \in Seq(S), NEW r \in S
  PROVE  /\ Append(s, r) \in Seq(S)
         /\ Len(s) + 1 \notin DOMAIN s
         /\ DOMAIN Append(s, r) = DOMAIN s \cup {Len(s) + 1}
         /\ \A i \in DOMAIN s : Append(s, r)[i] = s[i]
         /\ Append(s, r)[Len(s) + 1] = r
  OBVIOUS

\* No request at all is a value of a moderator's variable.
LEMMA IdleIsAJob ==
  Idle \in Job /\ Idle.at = "idle" /\ Idle.pinned = FALSE
  BY DEF Idle, Job, Reviewed, NoClaim

\* What a form or an API call may name is a claim.
LEMMA SubjectsAreClaims ==
  ASSUME NEW subject \in Reviewed PROVE Subjects(subject) \subseteq Reviewed
  BY DEF Subjects, Reviewed, NoClaim

\* The moderator's page gives way to a request made from it, or to nothing.
PageReplaced(m) ==
  \E job \in Job :
    /\ moderator' = [moderator EXCEPT ![m] = job]
    /\ job.at \in {"idle", "uphold", "reverse"}
    /\ job.pinned => job.rev = moderator[m].rev /\ job.shown = moderator[m].shown

\* A form replaces the moderator's page by a request made from it, or by
\* nothing; the rest stands.
LEMMA SubmissionKeepsThePage ==
  ASSUME TypeOK, NEW m \in Moderator,
         \E s \in Reviewed, outcome \in {"uphold", "reverse"}, pinned \in BOOLEAN :
           SubmitForm(m, s, outcome, pinned)
  PROVE  /\ moderator[m].at = "page"
         /\ UNCHANGED <<case, filings, history, appellant, claimant>>
         /\ PageReplaced(m)
<1>0. moderator[m] \in Job
  BY DEF TypeOK
<1>1. CASE \E s \in Reviewed, outcome \in {"uphold", "reverse"}, pinned \in BOOLEAN :
             SubmitForm(m, s, outcome, pinned)
  <2>1. PICK s \in Reviewed, outcome \in {"uphold", "reverse"}, pinned \in BOOLEAN :
          SubmitForm(m, s, outcome, pinned)
    BY <1>1
  <2>2. CASE moderator' = [moderator EXCEPT ![m] = Idle]
    BY <2>1, <2>2, IdleIsAJob DEF SubmitForm, PageReplaced
  <2>3. ASSUME NEW claim \in Subjects(s), NEW to \in {"uphold", "reverse"}, NEW named \in Reviewed,
               moderator' = [moderator EXCEPT ![m] = Submitted(@, to, named, pinned)]
        PROVE  PageReplaced(m)
    <3> DEFINE job == Submitted(moderator[m], to, named, pinned)
    <3>1. moderator' = [moderator EXCEPT ![m] = job]
      BY <2>3
    <3>2. /\ job \in Job /\ job.at = to /\ job.pinned = pinned
          /\ pinned => job.rev = moderator[m].rev /\ job.shown = moderator[m].shown
      BY <1>0 DEF Submitted, Idle, Job, Reviewed, NoClaim
    <3> HIDE DEF job
    <3>3. QED
      BY <3>1, <3>2 DEF PageReplaced
  <2>4. CASE \E claim \in Subjects(s) :
               \/ moderator' = [moderator EXCEPT ![m] = Submitted(@, "uphold", claim, pinned)]
               \/ moderator' = [moderator EXCEPT ![m] = Submitted(@, "reverse",
                    IF claim = "new-holder" THEN claim ELSE "appeal", pinned)]
    <3>1. PICK claim \in Subjects(s) :
               \/ moderator' = [moderator EXCEPT ![m] = Submitted(@, "uphold", claim, pinned)]
               \/ moderator' = [moderator EXCEPT ![m] = Submitted(@, "reverse",
                    IF claim = "new-holder" THEN claim ELSE "appeal", pinned)]
      BY <2>4
    <3>2. claim \in Reviewed /\ (IF claim = "new-holder" THEN claim ELSE "appeal") \in Reviewed
      BY SubjectsAreClaims DEF Reviewed
    <3>3. PageReplaced(m)
      BY <2>3, <3>1, <3>2
    <3>4. QED
      BY <2>1, <3>3 DEF SubmitForm
  <2>5. QED
    BY <2>1, <2>2, <2>4 DEF SubmitForm
<1>2. QED
  BY <1>1

-----------------------------------------------------------------------------
(* Steps that record no review.                                            *)

LEMMA ReviewsKept ==
  ASSUME reviews' = reviews, PinnedReviewReadFile, AppealReviewedOnce
  PROVE  /\ PinnedReviewReadFile' /\ AppealReviewedOnce'
         /\ \A c : ReviewsOf(c)' = ReviewsOf(c)
  BY DEF PinnedReviewReadFile, AppealReviewedOnce, ReviewsOf

\* While the requests of the moderators stand, filing only moves the revision
\* away from them.
LEMMA JobsOutdated ==
  ASSUME TypeOK, JobInv, moderator' = moderator,
         claimRevision' = claimRevision + 1
  PROVE  JobInv'
<1> SUFFICES ASSUME NEW m \in Moderator
             PROVE LET job == moderator[m] IN
               /\ job.at = "page" \/ job.pinned =>
                    /\ job.rev <= claimRevision'
                    /\ job.rev # claimRevision'
               /\ job.at = "commit" =>
                    /\ job.claim = "appeal" => job.sawAppeal
                    /\ job.claim = "new-holder" => job.sawClaim
                    /\ ~(job.pinned /\ job.rev = claimRevision')
  BY DEF JobInv
<1> DEFINE job == moderator[m]
<1>1. job.rev \in Nat /\ claimRevision \in Nat
  BY DEF TypeOK, Job
<1>2. /\ job.at = "page" \/ job.pinned => job.rev <= claimRevision
      /\ job.at = "commit" =>
           /\ job.claim = "appeal" => job.sawAppeal
           /\ job.claim = "new-holder" => job.sawClaim
  BY DEF JobInv
<1> HIDE DEF job
<1>3. job.at = "page" \/ job.pinned => job.rev <= claimRevision' /\ job.rev # claimRevision'
  BY <1>1, <1>2
<1>4. QED
  BY <1>2, <1>3 DEF job

\* A filing by the accused.
LEMMA AppealingInv ==
  ASSUME Inv, NEW a \in Appellant, ReadForAppeal(a) \/ FileFirst(a) \/ FileSupplement(a)
  PROVE  Inv'
<1> USE DEF Inv
<1>1. CASE ReadForAppeal(a)
  <2>1. TypeOK'
    BY <1>1 DEF TypeOK, ReadForAppeal, case, filings, history
  <2>2. UnfiledIsEmpty'
    BY <1>1 DEF TypeOK, UnfiledIsEmpty, ReadForAppeal, case, filings
  <2>3. QED
    BY <1>1, <2>1, <2>2, ReviewsKept
    DEF ReadForAppeal, case, filings, history, JobInv, FilingsBounded,
        OutcomesReviewed, RefusalHeardEveryClaim, OnFile, Pending
<1>2. CASE FileFirst(a)
  <2>1. TypeOK'
    BY <1>2 DEF TypeOK, FileFirst, AfterFiling, history
  <2>2. reviews' = reviews /\ heard' = heard /\ moderator' = moderator
        /\ UNCHANGED <<disposition, holderState, claims>>
    BY <1>2 DEF FileFirst, history
  <2>6. \A b \in Appellant : appellant'[b] = "supplement" => appellant[b] = "supplement"
    BY <1>2 DEF TypeOK, FileFirst
  <2>3. CASE UNCHANGED <<appealState, appeals, claimRevision>>
    BY <2>1, <2>2, <2>3, <2>6, ReviewsKept
    DEF UnfiledIsEmpty, JobInv, FilingsBounded, OutcomesReviewed,
        RefusalHeardEveryClaim, OnFile, Pending
  <2>4. CASE appealState = "none" /\ appealState' = "pending" /\ appeals' = appeals + 1
             /\ claimRevision' = claimRevision + 1
    <3>1. JobInv'
      BY <2>2, <2>4, JobsOutdated
    <3>2. appeals' <= MaxAppeals
      BY <2>4, ClaimsAssumption DEF UnfiledIsEmpty
    <3>3. OutcomesReviewed'
      BY <2>2, <2>4, ReviewsKept DEF OutcomesReviewed
    <3>4. QED
      BY <2>1, <2>2, <2>4, <3>1, <3>2, <3>3, ReviewsKept
      DEF UnfiledIsEmpty, FilingsBounded, RefusalHeardEveryClaim
  <2>5. QED
    BY <1>2, <2>3, <2>4 DEF FileFirst, FirstFilingHolds, AfterFiling
<1>3. CASE FileSupplement(a)
  <2>1. TypeOK'
    BY <1>3 DEF TypeOK, FileSupplement, AfterFiling, history
  <2>2. reviews' = reviews /\ heard' = heard /\ moderator' = moderator
        /\ UNCHANGED <<disposition, appealState, holderState, claims>>
    BY <1>3 DEF FileSupplement, history
  <2>3. \A b \in Appellant : appellant'[b] = "supplement" => appellant[b] = "supplement"
    BY <1>3 DEF TypeOK, FileSupplement
  <2>4. QED
    <3>1. CASE UNCHANGED <<appeals, claimRevision>>
      BY <2>1, <2>2, <2>3, <3>1, ReviewsKept
      DEF UnfiledIsEmpty, JobInv, FilingsBounded, OutcomesReviewed,
          RefusalHeardEveryClaim, OnFile, Pending
    <3>2. CASE /\ appeals < MaxAppeals /\ appeals' = appeals + 1
               /\ claimRevision' = claimRevision + 1
      <4>1. JobInv'
        BY <2>2, <3>2, JobsOutdated
      <4>2. appeals' <= MaxAppeals
        BY <3>2, ClaimsAssumption DEF TypeOK
      <4>3. appealState # "none"
        BY <1>3 DEF UnfiledIsEmpty, FileSupplement
      <4>4. QED
        BY <2>1, <2>2, <3>2, <4>1, <4>2, <4>3, ReviewsKept
        DEF UnfiledIsEmpty, FilingsBounded, OutcomesReviewed, RefusalHeardEveryClaim
    <3>3. QED
      BY <1>3, <3>1, <3>2 DEF FileSupplement, SupplementHasRoom, AfterFiling
<1>4. QED
  BY <1>1, <1>2, <1>3

\* A claim of a stranger.
LEMMA ClaimingInv ==
  ASSUME Inv, NEW k \in Claimant, ReadForClaim(k) \/ RecordClaim(k)
  PROVE  Inv'
<1> USE DEF Inv
<1>1. CASE ReadForClaim(k)
  <2>1. TypeOK'
    BY <1>1 DEF TypeOK, ReadForClaim, case, filings, history
  <2>2. QED
    BY <1>1, <2>1, ReviewsKept
    DEF ReadForClaim, case, filings, history, UnfiledIsEmpty, JobInv, FilingsBounded,
        OutcomesReviewed, RefusalHeardEveryClaim, OnFile, Pending
<1>2. CASE RecordClaim(k)
  <2>1. reviews' = reviews /\ heard' = heard /\ moderator' = moderator
        /\ UNCHANGED <<disposition, appealState, appeals, appellant>>
    BY <1>2 DEF RecordClaim, history
  <2>2. CASE UNCHANGED <<claims, holderState, claimRevision>>
    <3>1. TypeOK'
      BY <1>2, <2>2 DEF TypeOK, RecordClaim, history
    <3>2. QED
      BY <2>1, <2>2, <3>1, ReviewsKept
      DEF UnfiledIsEmpty, JobInv, FilingsBounded, OutcomesReviewed,
          RefusalHeardEveryClaim, OnFile, Pending
  <2>3. CASE /\ claims < MaxNewHolderClaims /\ claims' = claims + 1
             /\ holderState' = Requeued(holderState) /\ claimRevision' = claimRevision + 1
    <3>1. /\ holderState' \in {"pending", "granted", "moot"}
          /\ holderState' = "granted" => holderState = "granted"
      BY <2>3 DEF Requeued, TypeOK
    <3>2. TypeOK'
      BY <1>2, <2>3, <3>1 DEF TypeOK, RecordClaim, history
    <3>3. JobInv'
      BY <2>1, <2>3, JobsOutdated
    <3>4. claims' <= MaxNewHolderClaims
      BY <2>3, ClaimsAssumption DEF TypeOK
    <3>5. QED
      BY <2>1, <3>1, <3>2, <3>3, <3>4, ReviewsKept
      DEF UnfiledIsEmpty, FilingsBounded, OutcomesReviewed, RefusalHeardEveryClaim
  <2>4. QED
    BY <1>2, <2>2, <2>3 DEF RecordClaim, AfterFiling
<1>3. QED
  BY <1>1, <1>2

\* The first-instance decision and the end of the window.
LEMMA DecidingInv ==
  ASSUME Inv, DecideCase \/ CloseWindow
  PROVE  Inv'
<1>1. TypeOK'
  BY DEF Inv, TypeOK, DecideCase, CloseWindow, filings, history, requests
<1>2. /\ UNCHANGED <<appealState, holderState, claimRevision, appeals, claims, reviews,
                     heard, appellant, moderator>>
      /\ disposition = "reversed" => disposition' = "reversed"
  BY DEF DecideCase, CloseWindow, filings, history, requests
<1>3. QED
  BY <1>1, <1>2, ReviewsKept
  DEF Inv, UnfiledIsEmpty, JobInv, FilingsBounded, OutcomesReviewed,
      RefusalHeardEveryClaim, OnFile, Pending

\* The steps of a moderator that only read: the page, the submission and the
\* reading of apply_inner.
LEMMA ReadingInv ==
  ASSUME Inv, NEW m \in Moderator,
         \/ OpenPage(m)
         \/ \E s \in Reviewed, outcome \in {"uphold", "reverse"}, pinned \in BOOLEAN :
              SubmitForm(m, s, outcome, pinned)
         \/ \E s \in Reviewed, pinned \in BOOLEAN : SubmitReversal(m, s, pinned)
         \/ ReadForReversal(m)
  PROVE  Inv'
<1> DEFINE Fits(job) ==
      /\ job \in Job
      /\ job.at = "page" \/ job.pinned =>
           /\ job.rev <= claimRevision
           /\ job.rev = claimRevision => job.shown = OnFile
      /\ job.at = "commit" =>
           /\ job.claim = "appeal" => job.sawAppeal
           /\ job.claim = "new-holder" => job.sawClaim
           /\ job.pinned /\ job.rev = claimRevision /\ job.sawAppeal => Pending("appeal")
<1>1. moderator \in [Moderator -> Job] /\ claimRevision \in Nat /\ OnFile \in Nat
  BY DEF Inv, TypeOK, OnFile
<1>2. Fits(moderator[m])
  BY <1>1 DEF Inv, JobInv
<1>3. ASSUME NEW job \in Job, Fits(job)
      PROVE  Fits(Read(job))
  <2>1. Fits(Idle)
    BY IdleIsAJob
  <2>2. Fits(Found(job))
    <3>1. Answered(job.claim) \in Reviewed
      BY DEF Answered, Reviewed, Job, NoClaim
    <3>2. /\ Answered(job.claim) = "appeal" => Pending("appeal")
          /\ Answered(job.claim) = "new-holder" => Pending("new-holder")
      BY DEF Answered, NoClaim
    <3>3. Pending("appeal") \in BOOLEAN /\ Pending("new-holder") \in BOOLEAN
      BY DEF Pending
    <3>4. QED
      BY <1>1, <1>3, <3>1, <3>2, <3>3 DEF Found, Job
  <2>3. Read(job) = Idle \/ Read(job) = Found(job)
    BY DEF Read
  <2> HIDE DEF Fits
  <2>4. QED
    BY <2>1, <2>2, <2>3
<1>4. /\ UNCHANGED <<case, filings, history, appellant, claimant>>
      /\ \E job : moderator' = [moderator EXCEPT ![m] = job] /\ Fits(job)
  <2>1. CASE OpenPage(m)
    <3> DEFINE job == [Idle EXCEPT !.at = "page", !.rev = claimRevision, !.shown = OnFile]
    <3>0. job \in Job /\ job.at = "page" /\ job.rev = claimRevision /\ job.shown = OnFile
      BY <1>1 DEF Idle, Job, Reviewed, NoClaim
    <3>1. Fits(job)
      BY <1>1, <3>0
    <3>2. moderator' = [moderator EXCEPT ![m] = job]
      BY <2>1 DEF OpenPage
    <3> HIDE DEF job, Fits
    <3>3. QED
      BY <2>1, <3>1, <3>2 DEF OpenPage
  <2>2. CASE \E s \in Reviewed, outcome \in {"uphold", "reverse"}, pinned \in BOOLEAN :
               SubmitForm(m, s, outcome, pinned)
    <3>1. /\ moderator[m].at = "page" /\ PageReplaced(m)
          /\ UNCHANGED <<case, filings, history, appellant, claimant>>
      BY <2>2, SubmissionKeepsThePage DEF Inv
    <3>2. PICK job \in Job :
            /\ moderator' = [moderator EXCEPT ![m] = job]
            /\ job.at \in {"idle", "uphold", "reverse"}
            /\ job.pinned => job.rev = moderator[m].rev /\ job.shown = moderator[m].shown
      BY <3>1 DEF PageReplaced
    <3>3. Fits(job)
      BY <1>2, <3>1, <3>2
    <3>4. QED
      BY <3>1, <3>2, <3>3
  <2>3. CASE \E s \in Reviewed, pinned \in BOOLEAN : SubmitReversal(m, s, pinned)
    <3>1. PICK s \in Reviewed, pinned \in BOOLEAN : SubmitReversal(m, s, pinned)
      BY <2>3
    <3> DEFINE job == Submitted(moderator[m], "reverse", s, pinned)
    <3>2. /\ job \in Job /\ job.at = "reverse" /\ job.pinned = pinned
          /\ pinned => job.rev = moderator[m].rev /\ job.shown = moderator[m].shown
      BY <1>1 DEF Submitted, Idle, Job, Reviewed, NoClaim
    <3>3. moderator[m].at = "page"
      BY <3>1 DEF SubmitReversal
    <3>4. moderator' = [moderator EXCEPT ![m] = Read(job)]
      BY <3>1 DEF SubmitReversal
    <3> HIDE DEF job
    <3>5. Fits(job)
      BY <1>2, <3>2, <3>3
    <3>6. Fits(Read(job))
      BY <1>3, <3>2, <3>5
    <3> HIDE DEF Fits
    <3>7. QED
      BY <3>1, <3>4, <3>6 DEF SubmitReversal
  <2>4. CASE ReadForReversal(m)
    <3>1. Fits(Read(moderator[m]))
      BY <1>1, <1>2, <1>3
    <3> HIDE DEF Fits
    <3>2. QED
      BY <2>4, <3>1 DEF ReadForReversal
  <2>5. QED
    BY <2>1, <2>2, <2>3, <2>4
<1>5. PICK job : moderator' = [moderator EXCEPT ![m] = job] /\ Fits(job)
  BY <1>4
<1>6. TypeOK'
  BY <1>1, <1>4, <1>5 DEF Inv, TypeOK, case, filings, history
<1>7. JobInv'
  BY <1>1, <1>4, <1>5 DEF Inv, JobInv, case, filings, OnFile, Pending
<1>8. QED
  BY <1>4, <1>6, <1>7, ReviewsKept
  DEF Inv, case, filings, history, UnfiledIsEmpty, FilingsBounded, OutcomesReviewed,
      RefusalHeardEveryClaim

-----------------------------------------------------------------------------
(* Steps that record a review.                                             *)

\* A new review joins those of its claim; the others stand.
LEMMA ReviewRecorded ==
  ASSUME TypeOK, PinnedReviewReadFile, AppealReviewedOnce, NEW r \in Review,
         reviews' = Append(reviews, r),
         r.pinned => r.readAll,
         r.claim = "appeal" /\ r.pinned => ReviewsOf("appeal") = {}
  PROVE  /\ reviews' \in Seq(Review) /\ PinnedReviewReadFile' /\ AppealReviewedOnce'
         /\ \E n : /\ DOMAIN reviews' = DOMAIN reviews \cup {n}
                   /\ \A i \in DOMAIN reviews : i # n /\ reviews'[i] = reviews[i]
                   /\ reviews'[n] = r
<1> DEFINE n == Len(reviews) + 1
<1>1. /\ reviews' \in Seq(Review)
      /\ n \notin DOMAIN reviews /\ DOMAIN reviews' = DOMAIN reviews \cup {n}
      /\ \A i \in DOMAIN reviews : reviews'[i] = reviews[i]
      /\ reviews'[n] = r
  BY Appended DEF TypeOK
<1> HIDE DEF n
<1>2. PinnedReviewReadFile'
  BY <1>1 DEF PinnedReviewReadFile
<1>3. AppealReviewedOnce'
  <2>1. CASE r.claim = "appeal" /\ r.pinned
    BY <1>1, <2>1 DEF AppealReviewedOnce, ReviewsOf
  <2>2. CASE r.claim # "appeal" \/ ~r.pinned
    BY <1>1, <2>2 DEF AppealReviewedOnce, ReviewsOf
  <2>3. QED
    BY <2>1, <2>2
<1>4. QED
  BY <1>1, <1>2, <1>3

\* A request that ends leaves its moderator idle.
LEMMA JobDone ==
  ASSUME TypeOK, JobInv, NEW m \in Moderator,
         moderator' = [moderator EXCEPT ![m] = Idle],
         UNCHANGED filings,
         claimRevision' \in Nat,
         \/ UNCHANGED <<appealState, claimRevision>>
         \/ claimRevision' > claimRevision
  PROVE  JobInv'
<1> SUFFICES ASSUME NEW k \in Moderator
             PROVE LET job == moderator'[k] IN
               /\ job.at = "page" \/ job.pinned =>
                    /\ job.rev <= claimRevision'
                    /\ job.rev = claimRevision' => job.shown = OnFile'
               /\ job.at = "commit" =>
                    /\ job.claim = "appeal" => job.sawAppeal
                    /\ job.claim = "new-holder" => job.sawClaim
                    /\ job.pinned /\ job.rev = claimRevision' /\ job.sawAppeal
                         => Pending("appeal")'
  BY DEF JobInv
<1>1. CASE k = m
  BY <1>1, IdleIsAJob DEF TypeOK
<1>2. CASE k # m
  <2> DEFINE job == moderator[k]
  <2>1. moderator'[k] = job /\ job.rev \in Nat /\ claimRevision \in Nat
    BY <1>2 DEF TypeOK, Job
  <2>2. /\ job.at = "page" \/ job.pinned =>
             /\ job.rev <= claimRevision
             /\ job.rev = claimRevision => job.shown = OnFile
        /\ job.at = "commit" =>
             /\ job.claim = "appeal" => job.sawAppeal
             /\ job.claim = "new-holder" => job.sawClaim
             /\ job.pinned /\ job.rev = claimRevision /\ job.sawAppeal => Pending("appeal")
    BY DEF JobInv
  <2>3. OnFile' = OnFile
    BY DEF OnFile, filings
  <2> HIDE DEF job
  <2>4. CASE UNCHANGED <<appealState, claimRevision>>
    BY <2>1, <2>2, <2>3, <2>4 DEF Pending
  <2>5. CASE claimRevision' > claimRevision
    <3>1. job.rev <= claimRevision => job.rev <= claimRevision' /\ job.rev # claimRevision'
      BY <2>1, <2>5
    <3>2. QED
      BY <2>1, <2>2, <3>1
  <2>6. QED
    BY <2>4, <2>5
<1>3. QED
  BY <1>1, <1>2

\* A review that upholds or refuses.
LEMMA UpholdInv ==
  ASSUME Inv, NEW m \in Moderator, Uphold(m)
  PROVE  Inv'
<1> DEFINE job == moderator[m]
           outcome == IF job.claim = "appeal" THEN "upheld" ELSE "refused"
           r == ReviewOf(job, job.claim, outcome)
<1>0. /\ TypeOK /\ UnfiledIsEmpty /\ JobInv
      /\ FilingsBounded /\ PinnedReviewReadFile /\ OutcomesReviewed
      /\ RefusalHeardEveryClaim /\ AppealReviewedOnce
  BY DEF Inv
<1>1. /\ job \in Job /\ claimRevision \in Nat
      /\ moderator' = [moderator EXCEPT ![m] = Idle] /\ moderator' \in [Moderator -> Job]
      /\ UNCHANGED <<disposition, windowOpen, filings, appellant, claimant>>
  BY <1>0, IdleIsAJob DEF Uphold, TypeOK
<1>2. CASE UNCHANGED <<appealState, holderState, claimRevision, history>>
  <2>1. TypeOK'
    BY <1>0, <1>1, <1>2 DEF TypeOK, filings, history
  <2>2. JobInv'
    BY <1>0, <1>1, <1>2, JobDone
  <2>3. QED
    BY <1>0, <1>1, <1>2, <2>1, <2>2, ReviewsKept
    DEF Inv, filings, history, UnfiledIsEmpty, FilingsBounded, OutcomesReviewed,
        RefusalHeardEveryClaim
<1>3. CASE /\ UpholdHolds(job)
           /\ appealState' = IF job.claim = "appeal" THEN outcome ELSE appealState
           /\ holderState' = IF job.claim = "appeal" THEN holderState ELSE outcome
           /\ claimRevision' = claimRevision + 1
           /\ reviews' = Append(reviews, r)
           /\ heard' = IF job.claim = "appeal" THEN heard ELSE claims
  <2>1. /\ \/ job.claim = "appeal" /\ appealState = "pending"
           \/ job.claim = "new-holder" /\ holderState = "pending"
        /\ job.pinned => job.rev = claimRevision
    BY <1>3 DEF UpholdHolds, Pending, PinHolds
  <2>2. /\ r \in Review /\ r.claim = job.claim /\ r.outcome = outcome
        /\ r.pinned = job.pinned
        /\ r.readAll = (job.shown = OnFile)
    BY <1>1 DEF ReviewOf, Review, Job
  <2>3. r.pinned => r.readAll
    BY <1>0, <2>1, <2>2 DEF JobInv
  <2>4. r.claim = "appeal" => ReviewsOf("appeal") = {}
    BY <1>0, <2>1, <2>2 DEF OutcomesReviewed
  <2> HIDE DEF r
  <2>5. /\ reviews' \in Seq(Review) /\ PinnedReviewReadFile' /\ AppealReviewedOnce'
        /\ \E n : /\ DOMAIN reviews' = DOMAIN reviews \cup {n}
                  /\ \A i \in DOMAIN reviews : i # n /\ reviews'[i] = reviews[i]
                  /\ reviews'[n] = r
    BY <1>0, <1>3, <2>2, <2>3, <2>4, ReviewRecorded
  <2>6. TypeOK'
    BY <1>0, <1>1, <1>3, <2>1, <2>5 DEF TypeOK, filings
  <2>7. JobInv'
    <3>1. claimRevision' \in Nat /\ claimRevision' > claimRevision
      BY <1>1, <1>3
    <3>2. QED
      BY <1>0, <1>1, <3>1, JobDone
  <2>8. /\ UnfiledIsEmpty' /\ FilingsBounded' /\ RefusalHeardEveryClaim'
    BY <1>0, <1>1, <1>3, <2>1
    DEF filings, UnfiledIsEmpty, FilingsBounded, RefusalHeardEveryClaim
  <2>9. OutcomesReviewed'
    <3>1. CASE job.claim = "appeal"
      BY <1>0, <1>1, <1>3, <2>1, <2>2, <2>5, <3>1 DEF OutcomesReviewed, ReviewsOf
    <3>2. CASE job.claim = "new-holder"
      BY <1>0, <1>1, <1>3, <2>1, <2>2, <2>5, <3>2 DEF OutcomesReviewed, ReviewsOf
    <3>3. QED
      BY <2>1, <3>1, <3>2
  <2>10. QED
    BY <2>5, <2>6, <2>7, <2>8, <2>9 DEF Inv
<1>4. QED
  BY <1>2, <1>3 DEF Uphold

\* A reversal.
LEMMA ReverseInv ==
  ASSUME Inv, NEW m \in Moderator, CommitReversal(m)
  PROVE  Inv'
<1> DEFINE job == moderator[m]
           r == ReviewOf(job, job.claim, IF job.claim = "appeal" THEN "reversed" ELSE "granted")
<1>0. /\ TypeOK /\ UnfiledIsEmpty /\ JobInv
      /\ FilingsBounded /\ PinnedReviewReadFile /\ OutcomesReviewed
      /\ RefusalHeardEveryClaim /\ AppealReviewedOnce
  BY DEF Inv
<1>1. /\ job \in Job /\ claimRevision \in Nat
      /\ moderator' = [moderator EXCEPT ![m] = Idle] /\ moderator' \in [Moderator -> Job]
      /\ UNCHANGED <<heard, windowOpen, filings, appellant, claimant>>
  BY <1>0, IdleIsAJob DEF CommitReversal, TypeOK
<1>2. CASE UNCHANGED <<disposition, appealState, holderState, claimRevision, reviews>>
  <2>1. TypeOK'
    BY <1>0, <1>1, <1>2 DEF TypeOK, filings
  <2>2. JobInv'
    BY <1>0, <1>1, <1>2, JobDone
  <2>3. QED
    BY <1>0, <1>1, <1>2, <2>1, <2>2, ReviewsKept
    DEF Inv, filings, UnfiledIsEmpty, FilingsBounded, OutcomesReviewed,
        RefusalHeardEveryClaim
<1>3. CASE /\ CommitHolds(job)
           /\ disposition' = "reversed"
           /\ appealState' = ReversedTo(appealState, job.sawAppeal, job.claim = "appeal", "reversed")
           /\ holderState' = ReversedTo(holderState, job.sawClaim, job.claim = "new-holder", "granted")
           /\ claimRevision' = claimRevision + Moves(job)
           /\ reviews' = IF job.claim = NoClaim THEN reviews ELSE Append(reviews, r)
  <2>1. /\ disposition = "ban"
        /\ job.pinned => job.rev = claimRevision
        /\ appealState # "reversed" /\ holderState # "granted"
    BY <1>0, <1>3 DEF CommitHolds, PinHolds, OutcomesReviewed
  <2>2. /\ job.claim = "appeal" => job.sawAppeal
        /\ job.claim = "new-holder" => job.sawClaim
        /\ job.pinned /\ job.sawAppeal => appealState = "pending"
    BY <1>0, <1>3, <2>1 DEF CommitReversal, JobInv, Pending
  <2>3. /\ ~job.sawAppeal => appealState' = appealState
        /\ job.sawAppeal => appealState' = IF job.claim = "appeal" THEN "reversed" ELSE "moot"
        /\ ~job.sawClaim => holderState' = holderState
        /\ job.sawClaim => holderState' = IF job.claim = "new-holder" THEN "granted" ELSE "moot"
    BY <1>3 DEF ReversedTo
  <2>4. /\ claimRevision' \in Nat
        /\ \/ UNCHANGED <<appealState, claimRevision>>
           \/ claimRevision' > claimRevision
    <3>1. CASE job.sawAppeal \/ job.sawClaim
      BY <1>1, <1>3, <3>1 DEF Moves
    <3>2. CASE ~job.sawAppeal /\ ~job.sawClaim
      BY <1>1, <1>3, <2>3, <3>2 DEF Moves
    <3>3. QED
      BY <3>1, <3>2
  <2>5. JobInv'
    BY <1>0, <1>1, <2>4, JobDone
  <2>6. /\ UnfiledIsEmpty' /\ FilingsBounded' /\ RefusalHeardEveryClaim'
    BY <1>0, <1>1, <2>3
    DEF filings, UnfiledIsEmpty, FilingsBounded, RefusalHeardEveryClaim
  <2>7. /\ disposition' = "reversed"
        /\ appealState' \in {"none", "pending", "upheld", "reversed", "moot"}
        /\ holderState' \in {"none", "pending", "refused", "granted", "moot"}
    BY <1>0, <1>3, <2>3 DEF TypeOK
  <2>8. CASE job.claim = NoClaim
    <3>1. reviews' = reviews
      BY <1>3, <2>8
    <3>2. TypeOK'
      BY <1>0, <1>1, <2>4, <2>7, <3>1 DEF TypeOK, filings
    <3>3. OutcomesReviewed'
      BY <1>0, <2>1, <2>2, <2>3, <2>7, <2>8, <3>1 DEF OutcomesReviewed, ReviewsOf, NoClaim
    <3>4. QED
      BY <1>0, <2>5, <2>6, <3>1, <3>2, <3>3, ReviewsKept DEF Inv
  <2>9. CASE job.claim # NoClaim
    <3>1. job.claim \in {"appeal", "new-holder"} /\ reviews' = Append(reviews, r)
      BY <1>1, <1>3, <2>9 DEF Job, Reviewed
    <3>2. /\ r \in Review /\ r.claim = job.claim
          /\ r.outcome = IF job.claim = "appeal" THEN "reversed" ELSE "granted"
          /\ r.pinned = job.pinned /\ r.readAll = (job.shown = OnFile)
      BY <1>1 DEF ReviewOf, Review, Job
    <3>3. r.pinned => r.readAll
      BY <1>0, <2>1, <3>2 DEF JobInv
    <3>4. r.claim = "appeal" /\ r.pinned => ReviewsOf("appeal") = {}
      BY <1>0, <2>2, <3>2 DEF OutcomesReviewed
    <3> HIDE DEF r
    <3>5. /\ reviews' \in Seq(Review) /\ PinnedReviewReadFile' /\ AppealReviewedOnce'
          /\ \E n : /\ DOMAIN reviews' = DOMAIN reviews \cup {n}
                    /\ \A i \in DOMAIN reviews : i # n /\ reviews'[i] = reviews[i]
                    /\ reviews'[n] = r
      BY <1>0, <3>1, <3>2, <3>3, <3>4, ReviewRecorded
    <3>6. TypeOK'
      BY <1>0, <1>1, <2>4, <2>7, <3>5 DEF TypeOK, filings
    <3>7. OutcomesReviewed'
      <4>1. CASE job.claim = "appeal"
        BY <1>0, <2>1, <2>2, <2>3, <2>7, <3>2, <3>5, <4>1 DEF OutcomesReviewed, ReviewsOf
      <4>2. CASE job.claim = "new-holder"
        BY <1>0, <2>1, <2>2, <2>3, <2>7, <3>2, <3>5, <4>2 DEF OutcomesReviewed, ReviewsOf
      <4>3. QED
        BY <3>1, <4>1, <4>2
    <3>8. QED
      BY <2>5, <2>6, <3>5, <3>6, <3>7 DEF Inv
  <2>10. QED
    BY <2>8, <2>9
<1>4. QED
  BY <1>2, <1>3 DEF CommitReversal

-----------------------------------------------------------------------------
(* The theorems.                                                           *)

LEMMA InitInv == Init => Inv
<1> SUFFICES ASSUME Init PROVE Inv
  OBVIOUS
<1>1. TypeOK
  BY IdleIsAJob DEF Init, TypeOK
<1>2. JobInv
  BY DEF Init, JobInv, Idle
<1>3. ReviewsOf("appeal") = {} /\ PinnedReviewReadFile /\ AppealReviewedOnce
  BY DEF Init, ReviewsOf, PinnedReviewReadFile, AppealReviewedOnce
<1>4. QED
  BY <1>1, <1>2, <1>3, ClaimsAssumption
  DEF Init, Inv, UnfiledIsEmpty, FilingsBounded, OutcomesReviewed, RefusalHeardEveryClaim

LEMMA NextInv == Inv /\ [Next]_vars => Inv'
<1> SUFFICES ASSUME Inv, [Next]_vars PROVE Inv'
  OBVIOUS
<1>1. CASE DecideCase \/ CloseWindow
  BY <1>1, DecidingInv
<1>2. CASE Appealing
  BY <1>2, AppealingInv DEF Appealing
<1>3. CASE Claiming
  BY <1>3, ClaimingInv DEF Claiming
<1>4. CASE Reviewing
  <2>1. PICK m \in Moderator :
          \/ OpenPage(m)
          \/ \E s \in Reviewed, outcome \in {"uphold", "reverse"}, pinned \in BOOLEAN :
               SubmitForm(m, s, outcome, pinned)
          \/ \E s \in Reviewed, pinned \in BOOLEAN : SubmitReversal(m, s, pinned)
          \/ Uphold(m) \/ ReadForReversal(m) \/ CommitReversal(m)
    BY <1>4 DEF Reviewing
  <2>2. QED
    BY <2>1, ReadingInv, UpholdInv, ReverseInv
<1>5. CASE UNCHANGED vars
  <2>1. TypeOK'
    BY <1>5 DEF Inv, TypeOK, vars, case, filings, history, requests
  <2>2. QED
    BY <1>5, <2>1, ReviewsKept
    DEF Inv, vars, case, filings, history, requests, UnfiledIsEmpty, JobInv, FilingsBounded,
        OutcomesReviewed, RefusalHeardEveryClaim, OnFile, Pending
<1>6. QED
  BY <1>1, <1>2, <1>3, <1>4, <1>5 DEF Next

\* The inductive invariant holds of every behaviour.
THEOREM Inductive == Spec => []Inv
  BY InitInv, NextInv, PTL DEF Spec

\* The variables keep their types.
THEOREM Typing == Spec => []TypeOK
<1>1. Inv => TypeOK
  BY DEF Inv
<1>2. QED
  BY <1>1, Inductive, PTL

\* However many requests of the accused and of strangers are in flight, the
\* filings of a case stay within their caps.
THEOREM FilingsStayBounded == Spec => []FilingsBounded
<1>1. Inv => FilingsBounded
  BY DEF Inv
<1>2. QED
  BY <1>1, Inductive, PTL

\* A review that posts the revision of its page decided the file it was shown.
THEOREM ReviewsReadTheFile == Spec => []PinnedReviewReadFile
<1>1. Inv => PinnedReviewReadFile
  BY DEF Inv
<1>2. QED
  BY <1>1, Inductive, PTL

\* No claim carries an outcome without the review that gave it.
THEOREM OutcomesHaveReviews == Spec => []OutcomesReviewed
<1>1. Inv => OutcomesReviewed
  BY DEF Inv
<1>2. QED
  BY <1>1, Inductive, PTL

\* A new-holder claim stands refused only while nothing was filed since.
THEOREM RefusalsHeardThemAll == Spec => []RefusalHeardEveryClaim
<1>1. Inv => RefusalHeardEveryClaim
  BY DEF Inv
<1>2. QED
  BY <1>1, Inductive, PTL

\* Moderators who post the revision they read review an appeal once.
THEOREM OneReviewPerAppeal == Spec => []AppealReviewedOnce
<1>1. Inv => AppealReviewedOnce
  BY DEF Inv
<1>2. QED
  BY <1>1, Inductive, PTL

-----------------------------------------------------------------------------
(* Delivery.                                                               *)

\* A count that does not fall stays above a bound.
LEMMA StaysAbove ==
  ASSUME NEW bound \in Nat, NEW before \in Nat, NEW after \in Nat,
         after >= before
  PROVE  before >= bound => after >= bound
  OBVIOUS

\* A flush's own step keeps the types and what it knows of its verdict.
LEMMA FlushStepInv ==
  ASSUME DeliveryTypeOK, FlushInv, GivenUpOnlyAfterBudget, DeliveredWasExecuted,
         NEW t \in Flusher, FlushStep(t)
  PROVE DeliveryTypeOK' /\ FlushInv' /\ GivenUpOnlyAfterBudget' /\ DeliveredWasExecuted'
<1> USE DeliveryAssumption
    DEF DeliveryTypeOK, FlushInv, GivenUpOnlyAfterBudget, DeliveredWasExecuted, rowVars
<1>0. flusher[t] \in Flush
  OBVIOUS
<1>1. CASE Snapshot(t)
  <2> DEFINE new == [flusher[t] EXCEPT !.pc = "flush", !.todo = Backlog]
  <2>1. Backlog \subseteq issued /\ Backlog \in SUBSET Issuance
    BY DEF Backlog
  <2>2. /\ new \in Flush /\ new.todo = Backlog /\ new.pc = "flush"
    BY <1>0, <2>1 DEF Flush
  <2>3. flusher' = [flusher EXCEPT ![t] = new] /\ UNCHANGED <<rowVars, received, inFlight, again, caller, faults>>
    BY <1>1 DEF Snapshot
  <2> HIDE DEF new
  <2>4. QED
    BY <2>1, <2>2, <2>3
<1>2. ASSUME NEW v \in Issuance, NEW ran \in BOOLEAN, NEW answer \in Answer,
             Send(t, v, ran, answer)
      PROVE DeliveryTypeOK' /\ FlushInv' /\ GivenUpOnlyAfterBudget' /\ DeliveredWasExecuted'
  <2> DEFINE new == [pc |-> "answered", todo |-> flusher[t].todo \ {v}, at |-> v, answer |-> answer]
  <2>1. new \in Flush /\ new.pc = "answered" /\ new.at = v /\ new.answer = answer
        /\ new.todo \subseteq flusher[t].todo
    BY <1>0 DEF Flush, Answer
  <2>2. /\ flusher' = [flusher EXCEPT ![t] = new]
        /\ UNCHANGED <<rowVars, inFlight, again, caller, faults>>
        /\ v \in issued
        /\ received' = IF ran THEN received \cup {v} ELSE received
        /\ answer = "delivered" => v \in received'
    BY <1>2 DEF Send
  <2> HIDE DEF new
  <2>3. QED
    BY <2>1, <2>2
<1>3. CASE RecordOutcome(t)
  <2> DEFINE v == flusher[t].at
             next == [flusher[t] EXCEPT !.pc = "flush", !.at = 0, !.answer = "none"]
             stop == [flusher[t] EXCEPT !.pc = "giveup", !.answer = "none"]
  <2>1. /\ next \in Flush /\ next.pc = "flush" /\ next.todo = flusher[t].todo
        /\ stop \in Flush /\ stop.pc = "giveup" /\ stop.todo = flusher[t].todo /\ stop.at = v
    BY <1>0 DEF Flush
  <2>2. v \in issued /\ refusals[v] \in Nat
    BY <1>3 DEF RecordOutcome
  <2>3. /\ delivered' = delivered \/ (delivered' = delivered \cup {v} /\ v \in received)
        /\ refusals' = refusals \/ refusals' = [refusals EXCEPT ![v] = @ + 1]
        /\ \/ flusher' = [flusher EXCEPT ![t] = next]
           \/ flusher' = [flusher EXCEPT ![t] = stop] /\ refusals'[v] >= MaxRefusals
        /\ UNCHANGED <<issued, undeliverable, requeued, received, inFlight, again, caller, faults>>
    BY <1>3, <2>2 DEF RecordOutcome, Settles, BudgetSpent, NextVerdict
  <2>4. \A w \in Issuance : refusals'[w] \in Nat /\ refusals'[w] >= refusals[w]
    BY <2>2, <2>3
  <2>5. \A w \in Issuance : refusals[w] >= MaxRefusals => refusals'[w] >= MaxRefusals
    <3>1. TAKE w \in Issuance
    <3>2. MaxRefusals \in Nat /\ refusals[w] \in Nat
      OBVIOUS
    <3>3. refusals'[w] \in Nat /\ refusals'[w] >= refusals[w]
      BY <2>4
    <3>4. QED
      BY <3>2, <3>3, StaysAbove
  <2> HIDE DEF next, stop, v
  <2>6. DeliveryTypeOK'
    <3>1. flusher' \in [Flusher -> Flush]
      BY <2>1, <2>3
    <3>2. refusals' \in [Issuance -> Nat]
      BY <2>2, <2>3
    <3>3. QED
      BY <2>2, <2>3, <3>1, <3>2
  <2>7. FlushInv'
    <3>1. ASSUME NEW u \in Flusher, u # t PROVE flusher'[u] = flusher[u]
      BY <2>3, <3>1
    <3>2. flusher'[t] = next \/ (flusher'[t] = stop /\ refusals'[v] >= MaxRefusals)
      BY <2>3
    <3>3. QED
      BY <2>1, <2>2, <2>3, <2>5, <3>1, <3>2
  <2>8. QED
    BY <2>2, <2>3, <2>5, <2>6, <2>7
<1>4. CASE GiveUp(t)
  <2> DEFINE next == [flusher[t] EXCEPT !.pc = "flush", !.at = 0, !.answer = "none"]
  <2>1. next \in Flush /\ next.pc = "flush" /\ next.todo = flusher[t].todo
    BY <1>0 DEF Flush
  <2>2. /\ flusher' = [flusher EXCEPT ![t] = next]
        /\ undeliverable' = undeliverable \cup {flusher[t].at}
        /\ flusher[t].at \in issued
        /\ flusher[t].at \in requeued \/ refusals[flusher[t].at] >= MaxRefusals
        /\ UNCHANGED <<issued, delivered, refusals, requeued, received, inFlight, again, caller, faults>>
    BY <1>4 DEF GiveUp, NextVerdict
  <2> HIDE DEF next
  <2>3. QED
    BY <2>1, <2>2
<1>5. CASE FlushDone(t)
  BY <1>5 DEF FlushDone, Step, AfterFlush, Flush
<1>6. QED
  BY <1>1, <1>2, <1>3, <1>4, <1>5 DEF FlushStep

\* Every other step keeps them too.
LEMMA OtherStepInv ==
  ASSUME DeliveryTypeOK, FlushInv, GivenUpOnlyAfterBudget, DeliveredWasExecuted, [DeliveryNext]_deliveryVars,
         ~\E t \in Flusher : FlushStep(t)
  PROVE DeliveryTypeOK' /\ FlushInv' /\ GivenUpOnlyAfterBudget' /\ DeliveredWasExecuted'
<1> USE DeliveryAssumption
    DEF DeliveryTypeOK, FlushInv, GivenUpOnlyAfterBudget, DeliveredWasExecuted, rowVars
<1> DEFINE Goal == DeliveryTypeOK' /\ FlushInv' /\ GivenUpOnlyAfterBudget' /\ DeliveredWasExecuted'
<1>0. IdleFlush \in Flush /\ IdleFlush.pc = "idle" /\ IdleFlush.todo = {}
      /\ \A pc \in {"start", "check", "idle"} :
           LET f == [IdleFlush EXCEPT !.pc = pc] IN f \in Flush /\ f.pc = pc /\ f.todo = {}
  BY DEF Flush, IdleFlush
<1>1. ASSUME NEW k \in Caller, NEW v \in Issuance, Enqueue(k, v) PROVE Goal
  BY <1>1 DEF Enqueue
<1>10. ASSUME NEW k \in Caller, NEW v \in Issuance, Requeue(k, v) PROVE Goal
  <2>1. /\ flusher' = flusher /\ issued' = issued /\ received' = received
        /\ requeued' = requeued \cup {v} /\ refusals' = [refusals EXCEPT ![v] = 0]
        /\ v \in issued
    BY <1>10 DEF Requeue
  <2>2. DeliveryTypeOK'
    BY <1>10 DEF Requeue
  <2>3. FlushInv'
    <3> SUFFICES ASSUME NEW t \in Flusher, flusher[t].pc = "giveup"
                 PROVE flusher[t].at \in requeued' \/ refusals'[flusher[t].at] >= MaxRefusals
      BY <2>1
    <3>1. CASE flusher[t].at = v
      BY <2>1, <3>1
    <3>2. CASE flusher[t].at # v
      BY <2>1, <3>2
    <3>3. QED
      BY <3>1, <3>2
  <2>4. QED
    BY <1>10, <2>2, <2>3 DEF Requeue
<1>2. ASSUME NEW k \in Caller, NEW t \in Drain, FlushSoon(k, t) PROVE Goal
  <2> DEFINE f == [IdleFlush EXCEPT !.pc = "start"]
  <2>1. f \in Flush /\ f.pc = "start" /\ f.todo = {}
    BY <1>0
  <2>2. flusher' = [flusher EXCEPT ![t] = f] /\ t \in Flusher
    BY <1>2 DEF FlushSoon, Flusher
  <2> HIDE DEF f
  <2>3. QED
    BY <1>2, <2>1, <2>2 DEF FlushSoon
<1>3. ASSUME NEW k \in Caller, FlushSoonLost(k) \/ Rearm(k) PROVE Goal
  BY <1>3 DEF FlushSoonLost, Rearm
<1>4. ASSUME SweepFlush PROVE Goal
  BY <1>4 DEF SweepFlush, Step, Flush, Flusher
<1>5. ASSUME NEW t \in Flusher, FlushFails(t) PROVE Goal
  <2> DEFINE f == [IdleFlush EXCEPT !.pc = AfterFlush(t)]
  <2>1. f \in Flush /\ f.pc \in {"idle", "check"} /\ f.todo = {}
    BY <1>0 DEF AfterFlush
  <2>2. flusher' = [flusher EXCEPT ![t] = f]
    BY <1>5 DEF FlushFails
  <2> HIDE DEF f
  <2>3. QED
    <3>1. faults' \in Nat /\ UNCHANGED <<rowVars, received, inFlight, again, caller>>
      BY <1>5 DEF FlushFails
    <3>2. flusher' \in [Flusher -> Flush]
      BY <2>1, <2>2
    <3>3. FlushInv'
      BY <2>1, <2>2, <3>1
    <3>4. QED
      BY <3>1, <3>2, <3>3
<1>6. ASSUME NEW t \in Drain, DrainStep(t) PROVE Goal
  <2>1. t \in Flusher /\ flusher[t] \in Flush
    BY DEF Flusher
  <2>2. \E pc \in {"start", "drop", "call", "idle", "recheck", "lost"} :
           flusher' = [flusher EXCEPT ![t].pc = pc]
    BY <1>6 DEF DrainStep, Check, Drop, Recheck, Recall, RecallRearm, Step
  <2>3. UNCHANGED <<rowVars, received, caller, faults>> /\ inFlight' \in BOOLEAN /\ again' \in BOOLEAN
    BY <1>6 DEF DrainStep, Check, Drop, Recheck, Recall, RecallRearm
  <2>4. QED
    BY <2>1, <2>2, <2>3 DEF Flush
<1>7. ASSUME NEW t \in Drain, Panic(t) PROVE Goal
  <2>1. flusher' = [flusher EXCEPT ![t] = IdleFlush] /\ t \in Flusher
    BY <1>7 DEF Panic, Flusher
  <2>2. flusher' \in [Flusher -> Flush] /\ inFlight' \in BOOLEAN
    BY <1>0, <1>7, <2>1 DEF Panic, GateAfterPanic
  <2>3. faults' \in Nat /\ UNCHANGED <<rowVars, received, again, caller>>
    BY <1>7 DEF Panic
  <2>4. FlushInv'
    BY <1>0, <2>1, <2>3
  <2>5. QED
    BY <2>2, <2>3, <2>4
<1>8. ASSUME DeliveryRestart PROVE Goal
  <2>1. flusher' = [t \in Flusher |-> IdleFlush] /\ UNCHANGED <<rowVars, received>>
    BY <1>8 DEF DeliveryRestart
  <2>2. DeliveryTypeOK'
    <3>1. caller' = [k \in Caller |-> "idle"] /\ inFlight' = FALSE /\ again' = FALSE
          /\ faults' = faults + 1
      BY <1>8 DEF DeliveryRestart
    <3>2. flusher' \in [Flusher -> Flush]
      BY <1>0, <2>1
    <3>3. caller' \in [Caller -> {"idle", "call", "lost"}] /\ faults' \in Nat
      BY <3>1
    <3>6. inFlight' \in BOOLEAN /\ again' \in BOOLEAN
      BY <3>1
    <3>4. /\ issued' = issued /\ delivered' = delivered /\ undeliverable' = undeliverable
          /\ refusals' = refusals /\ requeued' = requeued /\ received' = received
      BY <2>1
    <3>5. QED
      BY <3>2, <3>3, <3>4, <3>6
  <2>3. FlushInv'
    BY <1>0, <2>1
  <2>4. QED
    BY <2>1, <2>2, <2>3
<1>9. ASSUME UNCHANGED deliveryVars PROVE Goal
  BY <1>9 DEF deliveryVars
<1>11. QED
  BY <1>1, <1>10, <1>2, <1>3, <1>4, <1>5, <1>6, <1>7, <1>8, <1>9 DEF DeliveryNext, CallerStep

\* The gate: only flush_soon closes it, by starting a drain, and only the
\* drain inside it opens it.
LEMMA GateStep == ASSUME DeliveryTypeOK, GateHeldByOneDrain, [DeliveryNext]_deliveryVars PROVE GateHeldByOneDrain'
<1> USE DeliveryAssumption DEF DeliveryTypeOK, GateHeldByOneDrain, InGate
<1>1. ASSUME inFlight' = inFlight, \A t \in Drain : InGate(t)' <=> InGate(t)
      PROVE GateHeldByOneDrain'
  BY <1>1
<1>2. ASSUME NEW k \in Caller, CallerStep(k) PROVE GateHeldByOneDrain'
  <2>1. ASSUME NEW t \in Drain, FlushSoon(k, t) PROVE GateHeldByOneDrain'
    <3>1. ~inFlight /\ inFlight' /\ flusher'[t].pc = "start"
      BY <2>1 DEF FlushSoon, IdleFlush, Flusher
    <3>2. \A u \in Drain : u # t => flusher'[u] = flusher[u]
      BY <2>1 DEF FlushSoon, Flusher
    <3>3. QED
      BY <3>1, <3>2
  <2>2. QED
    BY <1>1, <1>2, <2>1 DEF CallerStep, Enqueue, Requeue, FlushSoonLost, Rearm
<1>3. ASSUME SweepFlush PROVE GateHeldByOneDrain'
  BY <1>1, <1>3 DEF SweepFlush, Step, Flusher
<1>4. ASSUME NEW t \in Flusher, FlushStep(t) \/ FlushFails(t) PROVE GateHeldByOneDrain'
  <2>1. \A u \in Flusher : u # t => flusher'[u] = flusher[u]
    BY <1>4 DEF FlushStep, Snapshot, Send, RecordOutcome, GiveUp, FlushDone, FlushFails, Step, NextVerdict
  <2>2. inFlight' = inFlight
    BY <1>4 DEF FlushStep, Snapshot, Send, RecordOutcome, GiveUp, FlushDone, FlushFails
  <2>3. t \in Drain => InGate(t) /\ InGate(t)'
    <3>1. ASSUME t \in Drain PROVE t # Sweeper /\ AfterFlush(t) = "check"
      BY <3>1 DEF AfterFlush
    <3>2. CASE Snapshot(t)
      <4>1. flusher'[t] = [flusher[t] EXCEPT !.pc = "flush", !.todo = Backlog]
        BY <3>2 DEF Snapshot
      <4>2. flusher'[t].pc = "flush" /\ flusher[t].pc = "start"
        BY <3>2, <4>1 DEF Snapshot, Flush
      <4>3. QED
        BY <4>2
    <3>3. ASSUME NEW v \in Issuance, NEW ran \in BOOLEAN, NEW answer \in Answer,
                 Send(t, v, ran, answer)
          PROVE t \in Drain => InGate(t) /\ InGate(t)'
      BY <3>3 DEF Send
    <3>4. CASE RecordOutcome(t) \/ GiveUp(t)
      <4>1. flusher[t] \in Flush /\ flusher[t].pc \in {"answered", "giveup"}
        BY <3>4 DEF RecordOutcome, GiveUp
      <4>2. \/ flusher'[t] = [flusher[t] EXCEPT !.pc = "flush", !.at = 0, !.answer = "none"]
            \/ flusher'[t] = [flusher[t] EXCEPT !.pc = "giveup", !.answer = "none"]
        BY <3>4 DEF RecordOutcome, GiveUp, NextVerdict
      <4>3. flusher'[t].pc \in {"flush", "giveup"}
        BY <4>1, <4>2 DEF Flush
      <4>4. QED
        BY <4>1, <4>3
    <3>5. CASE FlushDone(t)
      BY <3>1, <3>5 DEF FlushDone, Step, Flush
    <3>6. CASE FlushFails(t)
      BY <3>1, <3>6 DEF FlushFails, IdleFlush
    <3>7. QED
      BY <1>4, <3>2, <3>3, <3>4, <3>5, <3>6 DEF FlushStep
  <2>4. QED
    BY <1>1, <2>1, <2>2, <2>3 DEF Flusher
<1>5. ASSUME NEW t \in Drain, DrainStep(t) PROVE GateHeldByOneDrain'
  <2>1. t \in Flusher /\ flusher[t] \in Flush
    BY DEF Flusher
  <2>2. \A u \in Drain : u # t => flusher'[u] = flusher[u]
    BY <1>5 DEF DrainStep, Check, Drop, Recheck, Recall, RecallRearm, Step, Flusher
  <2>3. CASE Check(t)
    BY <1>1, <2>1, <2>2, <2>3 DEF Check, Step, Flush
  <2>4. CASE Drop(t)
    <3>1. InGate(t) /\ ~InGate(t)' /\ ~inFlight'
      BY <2>1, <2>4 DEF Drop, Step, Flush
    <3>2. QED
      BY <2>2, <3>1
  <2>5. CASE Recheck(t) \/ RecallRearm(t)
    BY <1>1, <2>1, <2>2, <2>5 DEF Recheck, RecallRearm, Step, Flush
  <2>6. CASE Recall(t)
    <3>1. /\ ~InGate(t) /\ inFlight'
          /\ InGate(t)' <=> ~inFlight
      BY <2>1, <2>6 DEF Recall, Step, Flush
    <3>2. QED
      BY <2>2, <3>1
  <2>7. QED
    BY <1>5, <2>3, <2>4, <2>5, <2>6 DEF DrainStep
<1>6. ASSUME NEW t \in Drain, Panic(t) PROVE GateHeldByOneDrain'
  <2>1. /\ InGate(t) /\ ~inFlight' /\ ~InGate(t)'
        /\ \A u \in Drain : u # t => flusher'[u] = flusher[u]
    BY <1>6 DEF Panic, GateAfterPanic, IdleFlush, Flusher
  <2>2. QED
    BY <2>1
<1>7. ASSUME DeliveryRestart PROVE GateHeldByOneDrain'
  BY <1>7 DEF DeliveryRestart, IdleFlush, Flusher
<1>8. ASSUME UNCHANGED deliveryVars PROVE GateHeldByOneDrain'
  BY <1>8 DEF deliveryVars
<1>9. QED
  BY <1>2, <1>3, <1>4, <1>5, <1>6, <1>7, <1>8 DEF DeliveryNext

\* Types, single flight, the refusal budget and what "delivered" means hold
\* of every behaviour, for any number of handlers, drains and verdicts.
THEOREM DeliverySafe ==
  DeliverySpec => [](DeliveryTypeOK /\ GateHeldByOneDrain /\ GivenUpOnlyAfterBudget /\ DeliveredWasExecuted)
<1>1. DeliveryInit => DeliveryInv
  <2> SUFFICES ASSUME DeliveryInit PROVE DeliveryInv
    OBVIOUS
  <2>1. \A t \in Flusher : flusher[t].pc = "idle" /\ flusher[t].todo = {}
    BY DEF DeliveryInit, IdleFlush
  <2>2. DeliveryTypeOK
    BY DEF DeliveryInit, DeliveryTypeOK, IdleFlush, Flush
  <2>3. FlushInv /\ GateHeldByOneDrain
    BY <2>1 DEF DeliveryInit, FlushInv, GateHeldByOneDrain, InGate, Flusher
  <2>4. QED
    BY <2>2, <2>3 DEF DeliveryInit, DeliveryInv, GivenUpOnlyAfterBudget, DeliveredWasExecuted
<1>2. DeliveryInv /\ [DeliveryNext]_deliveryVars => DeliveryInv'
  BY FlushStepInv, OtherStepInv, GateStep DEF DeliveryInv
<1>3. DeliveryInv => DeliveryTypeOK /\ GateHeldByOneDrain /\ GivenUpOnlyAfterBudget /\ DeliveredWasExecuted
  BY DEF DeliveryInv
<1>4. QED
  BY <1>1, <1>2, <1>3, PTL DEF DeliverySpec

\* A verdict counts as delivered only when the interface ran it: a lost
\* answer never passes for one (delivery.rs:284).
THEOREM Executed == DeliverySpec => []DeliveredWasExecuted
  BY DeliverySafe, PTL

-----------------------------------------------------------------------------
(* Docket: the order of reading.                                           *)

RecordFiled == arrived \in Seq(Verdict) /\ IsInjective(arrived)

LEMMA Positions ==
  ASSUME RecordFiled
  PROVE  \A v \in File : /\ v \in Verdict
                         /\ Position(v) \in Nat
                         /\ arrived[Position(v)] = v
<1> TAKE v \in File
<1>1. PICK i \in DOMAIN arrived : v = arrived[i]
  BY DEF File, Range
<1>2. DOMAIN arrived \subseteq Nat /\ \A j \in DOMAIN arrived : arrived[j] \in Verdict
  BY DEF RecordFiled
<1>3. Position(v) \in DOMAIN arrived /\ arrived[Position(v)] = v
  BY <1>1 DEF Position
<1>4. QED
  BY <1>1, <1>2, <1>3

LEMMA FileIsFinite ==
  ASSUME RecordFiled
  PROVE  IsFiniteSet(File)
<1>1. DOMAIN arrived = 1..Len(arrived) /\ Len(arrived) \in Nat
  BY DEF RecordFiled
<1>2. arrived \in [DOMAIN arrived -> File]
  BY DEF RecordFiled, File, Range
<1>3. arrived \in Surjection(1..Len(arrived), File)
  BY <1>1, <1>2 DEF Surjection, File, Range
<1>4. IsFiniteSet(1..Len(arrived))
  BY <1>1, FS_Interval
<1>5. QED
  BY <1>3, <1>4, FS_Surjection

LEMMA Times ==
  \A v \in Verdict : /\ v.case \in Case /\ v.kind \in {"open-case", "ban", "dismiss"}
                     /\ v.decidedAt \in Nat /\ v.executeAfter \in Nat
                     /\ v.expires \in Nat \cup {Permanent}
                     /\ Precedence(v) \in Nat
BY MarksAssumption DEF Precedence

\* The rows are read in one order, each before or after each other.
LEMMA ReadingOrder ==
  ASSUME RecordFiled
  PROVE  /\ \A v, w \in File : v # w => ReadsBefore(v, w) \/ ReadsBefore(w, v)
         /\ \A v \in File : ~ReadsBefore(v, v)
         /\ \A u, v, w \in File : ReadsBefore(u, v) /\ ReadsBefore(v, w) => ReadsBefore(u, w)
         /\ \A v, w \in File : ReadsBefore(v, w) => ~Later(v, w)
<1>1. \A v \in File : /\ v.decidedAt \in Nat /\ Precedence(v) \in Nat /\ Position(v) \in Nat
                      /\ arrived[Position(v)] = v
  BY Positions, Times
<1>2. ASSUME NEW v \in File, NEW w \in File, v # w
      PROVE  ReadsBefore(v, w) \/ ReadsBefore(w, v)
  <2>1. Position(v) # Position(w)
    BY <1>1, <1>2
  <2>2. QED
    BY <1>1, <2>1 DEF ReadsBefore, Later
<1>3. \A v \in File : ~ReadsBefore(v, v)
  BY <1>1 DEF ReadsBefore, Later
<1>4. ASSUME NEW u \in File, NEW v \in File, NEW w \in File, ReadsBefore(u, v), ReadsBefore(v, w)
      PROVE  ReadsBefore(u, w)
  BY <1>1, <1>4 DEF ReadsBefore, Later
<1>5. \A v, w \in File : ReadsBefore(v, w) => ~Later(v, w)
  BY <1>1 DEF ReadsBefore, Later
<1>6. QED
  BY <1>2, <1>3, <1>4, <1>5

\* Of any verdicts on file one is read last.
LEMMA LastOfThem ==
  ASSUME RecordFiled, NEW S \in SUBSET File, S # {}
  PROVE  /\ ReadLast(S) \in S
         /\ \A w \in S \ {ReadLast(S)} : ReadsBefore(w, ReadLast(S))
<1> DEFINE After(x) == {y \in S : ReadsBefore(x, y)}
           T == {After(x) : x \in S}
<1>1. \A x \in S : After(x) \in FiniteSubsetsOf(File)
  <2> TAKE x \in S
  <2>1. After(x) \in SUBSET File
    OBVIOUS
  <2>2. IsFiniteSet(After(x))
    BY <2>1, FileIsFinite, FS_Subset
  <2>3. QED
    BY <2>1, <2>2 DEF FiniteSubsetsOf
<1>2. T \subseteq FiniteSubsetsOf(File) /\ T # {}
  BY <1>1
<1>3. \E s \in T : \A t \in T : <<t, s>> \notin StrictSubsetOrdering(File)
  BY <1>2, FS_StrictSubsetOrderingWellFounded, WFMin
<1>4. PICK x \in S : \A y \in S : <<After(y), After(x)>> \notin StrictSubsetOrdering(File)
  BY <1>3
<1>5. ASSUME NEW y \in S, ReadsBefore(x, y) PROVE FALSE
  <2>1. After(y) \subseteq After(x) /\ After(x) \subseteq File
    BY <1>5, ReadingOrder
  <2>2. y \in After(x) /\ y \notin After(y)
    BY <1>5, ReadingOrder
  <2>3. <<After(y), After(x)>> \in StrictSubsetOrdering(File)
    <3> HIDE DEF After
    <3>1. After(y) \in SUBSET File /\ After(x) \in SUBSET File
      BY <2>1
    <3>2. QED
      BY <2>1, <2>2, <3>1 DEF StrictSubsetOrdering
  <2>4. QED
    BY <1>4, <2>3
<1>6. \A w \in S \ {x} : ReadsBefore(w, x)
  BY <1>5, ReadingOrder
<1>7. QED
  BY <1>6 DEF ReadLast

-----------------------------------------------------------------------------
(* The loop is defined: it reads one verdict after another, from the first *)
(* to the last.                                                            *)

\* A set of numbers has a least one.
LEMMA LeastNumber ==
  ASSUME NEW T \in SUBSET Nat, T # {}
  PROVE  \E m \in T : \A k \in T : m <= k
<1>1. PICK n \in T : TRUE
  OBVIOUS
<1> DEFINE Upto(x) == {y \in T : y <= x}
           U == {Upto(x) : x \in T}
<1>2. \A x \in T : Upto(x) \in FiniteSubsetsOf(T)
  <2> TAKE x \in T
  <2>1. Upto(x) \in SUBSET Nat /\ \A y \in Upto(x) : y <= x
    OBVIOUS
  <2>2. IsFiniteSet(Upto(x))
    BY <2>1, FS_BoundedSetOfNaturals
  <2>3. QED
    BY <2>2 DEF FiniteSubsetsOf
<1>3. U \subseteq FiniteSubsetsOf(T) /\ U # {}
  BY <1>1, <1>2
<1>4. \E s \in U : \A t \in U : <<t, s>> \notin StrictSubsetOrdering(T)
  BY <1>3, FS_StrictSubsetOrderingWellFounded, WFMin
<1>5. PICK m \in T : \A k \in T : <<Upto(k), Upto(m)>> \notin StrictSubsetOrdering(T)
  BY <1>4
<1>6. ASSUME NEW k \in T, k < m PROVE FALSE
  <2>1. Upto(k) \subseteq Upto(m) /\ Upto(m) \subseteq T
    <3>1. k \in Nat /\ m \in Nat /\ \A y \in T : y \in Nat /\ (y <= k => y <= m)
      BY <1>6
    <3>2. QED
      BY <3>1
  <2>2. m \in Upto(m) /\ m \notin Upto(k)
    BY <1>6
  <2>3. <<Upto(k), Upto(m)>> \in StrictSubsetOrdering(T)
    <3> HIDE DEF Upto
    <3>1. Upto(k) \in SUBSET T /\ Upto(m) \in SUBSET T
      BY <2>1
    <3>2. QED
      BY <2>1, <2>2, <3>1 DEF StrictSubsetOrdering
  <2>4. QED
    BY <1>5, <2>3
<1>7. QED
  BY <1>6

\* What the loop has after the verdicts of S, given what it had before each
\* of them.
Folds(g, S) ==
  IF S = {} THEN EmptyFold ELSE FoldVerdict(g[S \ {ReadLast(S)}], ReadLast(S))

LEMMA LoopUnfolds ==
  ASSUME RecordFiled, NEW S \in SUBSET Live
  PROVE  Loop[S] = Folds(Loop, S)
<1> DEFINE Small(n) == {X \in SUBSET Live : Cardinality(X) <= n}
           Run(n) == \E g : g = [X \in Small(n) |-> Folds(g, X)]
<1>1. Live \subseteq File /\ IsFiniteSet(Live)
  BY FileIsFinite, FS_Subset DEF Live
<1>2. \A X \in SUBSET Live : IsFiniteSet(X) /\ Cardinality(X) \in Nat
  BY <1>1, FS_Subset, FS_CardinalityType
<1>3. Run(0)
  <2> DEFINE g == [X \in Small(0) |-> EmptyFold]
  <2>1. \A X \in Small(0) : X = {}
    BY <1>2, FS_EmptySet
  <2>2. \A X \in Small(0) : Folds(g, X) = EmptyFold
    BY <2>1 DEF Folds
  <2>3. g = [X \in Small(0) |-> Folds(g, X)]
    BY <2>2
  <2>4. QED
    BY <2>3
<1>4. ASSUME NEW n \in Nat, Run(n) PROVE Run(n + 1)
  <2>1. PICK g : g = [X \in Small(n) |-> Folds(g, X)]
    BY <1>4
  <2> DEFINE h == [X \in Small(n + 1) |-> Folds(g, X)]
  <2>2. \A X \in Small(n) : X \in Small(n + 1) /\ h[X] = g[X]
    BY <1>2, <2>1
  <2>3. ASSUME NEW X \in Small(n + 1), X # {} PROVE X \ {ReadLast(X)} \in Small(n)
    <3>1. ReadLast(X) \in X
      BY <1>1, <2>3, LastOfThem
    <3>2. Cardinality(X \ {ReadLast(X)}) = Cardinality(X) - 1
      BY <1>2, <3>1, FS_RemoveElement
    <3>3. QED
      BY <1>2, <3>2
  <2>4. \A X \in Small(n + 1) : Folds(g, X) = Folds(h, X)
    BY <2>2, <2>3 DEF Folds
  <2>5. h = [X \in Small(n + 1) |-> Folds(h, X)]
    BY <2>4
  <2>6. QED
    BY <2>5
<1>5. \A n \in Nat : Run(n)
  <2> HIDE DEF Run
  <2> DEFINE T == {n \in Nat : ~Run(n)}
  <2>1. SUFFICES ASSUME T # {} PROVE FALSE
    OBVIOUS
  <2>2. PICK m \in T : \A k \in T : m <= k
    BY <2>1, LeastNumber
  <2>3. m # 0 /\ m \in Nat /\ ~Run(m)
    BY <1>3
  <2>4. m - 1 \in Nat /\ (m - 1) \notin T /\ (m - 1) + 1 = m
    BY <2>2, <2>3
  <2>5. Run(m - 1)
    BY <2>4
  <2>6. QED
    BY <1>4, <2>3, <2>4, <2>5
<1>6. SUBSET Live = Small(Cardinality(Live))
  BY <1>1, <1>2, FS_Subset
<1>7. \E g : g = [X \in SUBSET Live |-> Folds(g, X)]
  <2>1. Cardinality(Live) \in Nat
    BY <1>2
  <2>2. Run(Cardinality(Live))
    BY <1>5, <2>1
  <2> HIDE DEF Small
  <2>3. QED
    BY <1>6, <2>2
<1>8. Loop = [X \in SUBSET Live |-> Folds(Loop, X)]
  <2> DEFINE L == CHOOSE g : g = [X \in SUBSET Live |-> Folds(g, X)]
  <2>1. L = [X \in SUBSET Live |-> Folds(L, X)]
    BY <1>7
  <2>2. Loop = L
    BY DEF Loop, Folds
  <2>3. QED
    BY <2>1, <2>2
<1>9. QED
  BY <1>8

-----------------------------------------------------------------------------
(* What the loop has computed of the verdicts it has read.                 *)

FoldIs(f, S) ==
  /\ f \in Fold
  /\ f.open \subseteq S /\ f.bans \subseteq S /\ f.realizes \subseteq S
  /\ \A o \in f.open : o.kind = "open-case"
  /\ {o.case : o \in f.open} = OpenCases(S)
  /\ f.bans = BansInForce(S, at)
  /\ {r \in f.realizes : r.kind = "ban"} = f.bans

\* v is read after the verdicts of S.
LastToRead(v, S) == v \notin S /\ \A w \in S : ~Later(w, v)

\* A ruling read after a notice or a ban of its case is the later of the two.
LEMMA RulingIsLater ==
  ASSUME NEW S \in SUBSET Verdict, NEW v \in Verdict, LastToRead(v, S), NEW w \in S,
         w.case = v.case,
         \/ w.kind = "open-case" /\ v.kind # "open-case"
         \/ w.kind = "ban" /\ v.kind \in {"ban", "dismiss"}
  PROVE  Later(v, w)
<1>1. /\ v.decidedAt \in Nat /\ w.decidedAt \in Nat /\ w \in Verdict
      /\ v.kind \in {"open-case", "ban", "dismiss"}
  BY Times
<1>2. ~Later(w, v) /\ v # w
  BY DEF LastToRead
<1>3. CASE v.kind = w.kind
  <2>1. v.decidedAt # w.decidedAt
    BY <1>1, <1>2, <1>3, MarksAssumption
  <2>2. QED
    BY <1>1, <1>2, <2>1 DEF Later
<1>4. CASE v.kind # w.kind
  <2>1. Precedence(v) \in Nat /\ Precedence(w) \in Nat /\ Precedence(v) > Precedence(w)
    BY <1>1, <1>4 DEF Precedence
  <2>2. QED
    BY <1>1, <1>2, <2>1 DEF Later
<1>5. QED
  BY <1>3, <1>4

LEMMA NeverLaterThanItself == \A v \in Verdict : ~Later(v, v)
BY Times DEF Later

\* What one more verdict makes of the cases that are open ...
LEMMA OpenCasesMove ==
  ASSUME NEW S \in SUBSET Verdict, NEW v \in Verdict, LastToRead(v, S)
  PROVE  /\ v.kind = "open-case" => OpenCases(S \cup {v}) = OpenCases(S) \cup {v.case}
         /\ v.kind # "open-case" => OpenCases(S \cup {v}) = OpenCases(S) \ {v.case}
<1>1. v.case \in Case /\ ~Later(v, v) /\ \A w \in S : ~Later(w, v)
  BY Times, NeverLaterThanItself DEF LastToRead
<1>2. CASE v.kind = "open-case"
  <2>1. OpenCases(S) \subseteq OpenCases(S \cup {v})
    BY <1>2 DEF OpenCases
  <2>2. v.case \in OpenCases(S \cup {v})
    BY <1>1, <1>2 DEF OpenCases
  <2>3. ASSUME NEW c \in OpenCases(S \cup {v}), c # v.case PROVE c \in OpenCases(S)
    BY <2>3 DEF OpenCases
  <2>4. QED
    BY <1>2, <2>1, <2>2, <2>3
<1>3. CASE v.kind # "open-case"
  <2>1. ASSUME NEW c \in OpenCases(S), c # v.case PROVE c \in OpenCases(S \cup {v})
    BY <2>1 DEF OpenCases
  <2>2. ASSUME NEW c \in OpenCases(S \cup {v}) PROVE c \in OpenCases(S) /\ c # v.case
    <3>1. PICK o \in S \cup {v} :
            /\ o.case = c /\ o.kind = "open-case"
            /\ \A w \in S \cup {v} : w.case = c /\ Later(w, o) => w.kind = "open-case"
      BY <2>2 DEF OpenCases
    <3>2. o \in S
      BY <1>3, <3>1
    <3>3. c # v.case
      BY <1>3, <3>1, <3>2, RulingIsLater
    <3>4. QED
      BY <2>2, <3>1, <3>2, <3>3 DEF OpenCases
  <2>3. QED
    BY <1>3, <2>1, <2>2
<1>4. QED
  BY <1>2, <1>3

\* ... and of the bans in force.
LEMMA BansMove ==
  ASSUME NEW S \in SUBSET Verdict, NEW v \in Verdict, LastToRead(v, S), at \in Nat
  PROVE  LET before == BansInForce(S, at)
             after == BansInForce(S \cup {v}, at)
             others == before \ OfCase(before, v.case)
         IN  /\ v.kind = "open-case" => after = before
             /\ v.kind = "dismiss" => after = others
             /\ v.kind = "ban" /\ InForce(v, at) => after = others \cup {v}
             /\ v.kind = "ban" /\ Expired(v, at) => after = others
             /\ v.kind = "ban" /\ ~InForce(v, at) /\ ~Expired(v, at) => after = before
<1> DEFINE Waits(w) == w.kind = "ban" /\ w.executeAfter > at /\ ~Expired(w, at)
           before == BansInForce(S, at)
           after == BansInForce(S \cup {v}, at)
<1>1. ~Later(v, v) /\ \A w \in S : ~Later(w, v)
  BY NeverLaterThanItself DEF LastToRead
<1>2. v.kind = "ban" => (Waits(v) <=> ~InForce(v, at) /\ ~Expired(v, at))
  BY Times DEF InForce
<1>3. ASSUME NEW b \in S, b.case # v.case PROVE b \in after <=> b \in before
  BY <1>3 DEF BansInForce
<1>4. ASSUME NEW b \in S, b.case = v.case, v.kind = "open-case" \/ Waits(v)
      PROVE  b \in after <=> b \in before
  BY <1>4 DEF BansInForce
<1>5. ASSUME NEW b \in S, b.case = v.case, v.kind # "open-case", ~Waits(v)
      PROVE  b \notin after
  <2>1. b.kind = "ban" => Later(v, b)
    BY <1>5, Times, RulingIsLater
  <2>2. QED
    BY <1>5, <2>1 DEF BansInForce
<1>6. v \in after <=> v.kind = "ban" /\ InForce(v, at)
  BY <1>1 DEF BansInForce
<1>7. before \subseteq S /\ after \subseteq S \cup {v} /\ v \notin S
  BY DEF BansInForce, LastToRead
<1>8. InForce(v, at) => ~Expired(v, at)
  BY DEF InForce
<1> HIDE DEF before, after, Waits
<1>9. OfCase(before, v.case) = {b \in before : b.case = v.case}
  BY DEF OfCase
<1>10. ASSUME v.kind = "open-case" \/ Waits(v), v \notin after PROVE after = before
  BY <1>3, <1>4, <1>7, <1>10
<1>11. ASSUME v.kind # "open-case", ~Waits(v)
       PROVE  after \ {v} = before \ OfCase(before, v.case)
  BY <1>3, <1>5, <1>7, <1>9, <1>11
<1>12. v.kind = "open-case" => after = before
  BY <1>6, <1>10
<1>13. v.kind = "dismiss" => after = before \ OfCase(before, v.case)
  BY <1>6, <1>11 DEF Waits
<1>14. v.kind = "ban" /\ InForce(v, at) => after = (before \ OfCase(before, v.case)) \cup {v}
  BY <1>2, <1>6, <1>11
<1>15. v.kind = "ban" /\ Expired(v, at) => after = before \ OfCase(before, v.case)
  BY <1>2, <1>6, <1>8, <1>11
<1>16. v.kind = "ban" /\ ~InForce(v, at) /\ ~Expired(v, at) => after = before
  BY <1>2, <1>6, <1>10
<1>17. QED
  BY <1>12, <1>13, <1>14, <1>15, <1>16 DEF before, after

\* Reading a verdict moves the accumulators as it moves what they stand for.
LEMMA FoldStep ==
  ASSUME NEW S \in SUBSET Verdict, NEW v \in Verdict, LastToRead(v, S), at \in Nat,
         NEW f, FoldIs(f, S)
  PROVE  FoldIs(FoldVerdict(f, v), S \cup {v})
<1> DEFINE c == v.case
           g == FoldVerdict(f, v)
           before == BansInForce(S, at)
           after == BansInForce(S \cup {v}, at)
<1>1. /\ f \in Fold
      /\ f.open \subseteq S /\ f.bans \subseteq S /\ f.realizes \subseteq S
      /\ \A o \in f.open : o.kind = "open-case"
      /\ {o.case : o \in f.open} = OpenCases(S)
      /\ f.bans = before
      /\ {r \in f.realizes : r.kind = "ban"} = f.bans
  BY DEF FoldIs
<1>2. v \notin S /\ v.kind \in {"open-case", "ban", "dismiss"}
  BY Times DEF LastToRead
<1>3. \A b \in f.bans : b.kind = "ban"
  BY <1>1 DEF BansInForce
<1>4. /\ v.kind = "open-case" => OpenCases(S \cup {v}) = OpenCases(S) \cup {c}
      /\ v.kind # "open-case" => OpenCases(S \cup {v}) = OpenCases(S) \ {c}
  BY OpenCasesMove
<1>5. /\ v.kind = "open-case" => after = before
      /\ v.kind = "dismiss" => after = before \ OfCase(before, c)
      /\ v.kind = "ban" /\ InForce(v, at) => after = (before \ OfCase(before, c)) \cup {v}
      /\ v.kind = "ban" /\ Expired(v, at) => after = before \ OfCase(before, c)
      /\ v.kind = "ban" /\ ~InForce(v, at) /\ ~Expired(v, at) => after = before
  BY BansMove
<1> HIDE DEF before, after
\* what leaves and what enters each accumulator
<1> DEFINE Shifts(shut, lifted, new, gained, got, by) ==
             /\ shut \subseteq f.open /\ lifted \subseteq f.bans
             /\ new \subseteq {v} /\ gained \subseteq {v} /\ got \subseteq {v}
             /\ by \subseteq Verdict
             /\ g = [open |-> (f.open \ shut) \cup new,
                     bans |-> (f.bans \ lifted) \cup gained,
                     by |-> by,
                     realizes |-> ((f.realizes \ shut) \ lifted) \cup got]
             /\ new # {} => v.kind = "open-case"
             /\ {o.case : o \in (f.open \ shut) \cup new} = OpenCases(S \cup {v})
             /\ after = (f.bans \ lifted) \cup gained
             /\ {r \in got : r.kind = "ban"} = gained
<1>6. ASSUME NEW shut, NEW lifted, NEW new, NEW gained, NEW got, NEW by,
             Shifts(shut, lifted, new, gained, got, by)
      PROVE  FoldIs(FoldVerdict(f, v), S \cup {v})
  <2> SUFFICES FoldIs(g, S \cup {v})
    OBVIOUS
  <2> HIDE DEF g
  <2>1. g \in Fold
    BY <1>1, <1>6 DEF Fold
  <2>2. /\ g.open \subseteq S \cup {v} /\ g.bans \subseteq S \cup {v}
        /\ g.realizes \subseteq S \cup {v}
        /\ \A o \in g.open : o.kind = "open-case"
    BY <1>1, <1>6
  <2>3. {o.case : o \in g.open} = OpenCases(S \cup {v}) /\ g.bans = after
    BY <1>6
  <2>4. {r \in g.realizes : r.kind = "ban"} = g.bans
    BY <1>1, <1>3, <1>6
  <2>5. QED
    BY <2>1, <2>2, <2>3, <2>4 DEF FoldIs, after
<1>7. /\ f = [open |-> f.open, bans |-> f.bans, by |-> f.by, realizes |-> f.realizes]
      /\ f.by \in SUBSET Verdict
  BY <1>1 DEF Fold
<1>8. {o.case : o \in f.open \ OfCase(f.open, c)} = OpenCases(S) \ {c}
  BY <1>1 DEF OfCase
<1>9. OfCase(f.open, c) \in SUBSET f.open /\ OfCase(f.bans, c) \in SUBSET f.bans
  BY DEF OfCase
<1>10. CASE v.kind = "open-case"
  <2>1. g = FoldOpen(f, v)
    BY <1>10 DEF FoldVerdict
  <2>2. CASE OfCase(f.open, c) = {}
    <3>1. g = [open |-> (f.open \ {}) \cup {v}, bans |-> (f.bans \ {}) \cup {}, by |-> {v},
               realizes |-> ((f.realizes \ {}) \ {}) \cup {v}]
      BY <1>7, <2>1, <2>2 DEF FoldOpen
    <3>2. {o.case : o \in (f.open \ {}) \cup {v}} = OpenCases(S \cup {v})
      BY <1>1, <1>4, <1>10
    <3>3. after = (f.bans \ {}) \cup {} /\ {r \in {v} : r.kind = "ban"} = {}
      BY <1>1, <1>5, <1>10
    <3>4. Shifts({}, {}, {v}, {}, {v}, {v})
      BY <1>9, <1>10, <3>1, <3>2, <3>3
    <3>5. QED
      <4> HIDE DEF Shifts
      <4> QED
        BY <1>6, <3>4
  <2>3. CASE OfCase(f.open, c) # {}
    <3>1. g = [open |-> (f.open \ {}) \cup {}, bans |-> (f.bans \ {}) \cup {}, by |-> {v},
               realizes |-> ((f.realizes \ {}) \ {}) \cup {}]
      BY <1>7, <2>1, <2>3 DEF FoldOpen
    <3>2. {o.case : o \in (f.open \ {}) \cup {}} = OpenCases(S \cup {v})
      BY <1>1, <1>4, <1>10, <2>3 DEF OfCase
    <3>3. after = (f.bans \ {}) \cup {} /\ {r \in {} : r.kind = "ban"} = {}
      BY <1>1, <1>5, <1>10
    <3>4. Shifts({}, {}, {}, {}, {}, {v})
      BY <1>9, <1>10, <3>1, <3>2, <3>3
    <3>5. QED
      <4> HIDE DEF Shifts
      <4> QED
        BY <1>6, <3>4
  <2>4. QED
    BY <2>2, <2>3
<1>11. CASE v.kind = "dismiss"
  <2>1. g = [open |-> (f.open \ OfCase(f.open, c)) \cup {},
             bans |-> (f.bans \ OfCase(f.bans, c)) \cup {}, by |-> {v},
             realizes |-> ((f.realizes \ OfCase(f.open, c)) \ OfCase(f.bans, c)) \cup {v}]
    BY <1>7, <1>11 DEF FoldVerdict, FoldDismiss, LiftBan, CloseOpenCase
  <2>2. {o.case : o \in (f.open \ OfCase(f.open, c)) \cup {}} = OpenCases(S \cup {v})
    BY <1>4, <1>8, <1>11
  <2>3. after = (f.bans \ OfCase(f.bans, c)) \cup {} /\ {r \in {v} : r.kind = "ban"} = {}
    BY <1>1, <1>5, <1>11
  <2>4. Shifts(OfCase(f.open, c), OfCase(f.bans, c), {}, {}, {v}, {v})
    BY <1>9, <1>11, <2>1, <2>2, <2>3
  <2>5. QED
    <3> HIDE DEF Shifts
    <3> QED
      BY <1>6, <2>4
<1>12. CASE v.kind = "ban"
  <2>1. {o.case : o \in (f.open \ OfCase(f.open, c)) \cup {}} = OpenCases(S \cup {v})
    BY <1>4, <1>8, <1>12
  <2>2. CASE InForce(v, at)
    <3>1. g = [open |-> (f.open \ OfCase(f.open, c)) \cup {},
               bans |-> (f.bans \ OfCase(f.bans, c)) \cup {v}, by |-> {v},
               realizes |-> ((f.realizes \ OfCase(f.open, c)) \ OfCase(f.bans, c)) \cup {v}]
      BY <1>7, <1>12, <2>2 DEF FoldVerdict, FoldBan, LiftBan, CloseOpenCase
    <3>2. after = (f.bans \ OfCase(f.bans, c)) \cup {v} /\ {r \in {v} : r.kind = "ban"} = {v}
      BY <1>1, <1>5, <1>12, <2>2
    <3>3. Shifts(OfCase(f.open, c), OfCase(f.bans, c), {}, {v}, {v}, {v})
      BY <1>9, <1>12, <2>1, <3>1, <3>2
    <3>4. QED
      <4> HIDE DEF Shifts
      <4> QED
        BY <1>6, <3>3
  <2>3. CASE Expired(v, at)
    <3>1. g = [open |-> (f.open \ OfCase(f.open, c)) \cup {},
               bans |-> (f.bans \ OfCase(f.bans, c)) \cup {}, by |-> {},
               realizes |-> ((f.realizes \ OfCase(f.open, c)) \ OfCase(f.bans, c)) \cup {}]
      BY <1>7, <1>12, <2>3 DEF FoldVerdict, FoldBan, LiftBan, CloseOpenCase, InForce
    <3>2. after = (f.bans \ OfCase(f.bans, c)) \cup {} /\ {r \in {} : r.kind = "ban"} = {}
      BY <1>1, <1>5, <1>12, <2>3
    <3>3. Shifts(OfCase(f.open, c), OfCase(f.bans, c), {}, {}, {}, {})
      BY <1>9, <1>12, <2>1, <3>1, <3>2
    <3>4. QED
      <4> HIDE DEF Shifts
      <4> QED
        BY <1>6, <3>3
  <2>4. CASE ~InForce(v, at) /\ ~Expired(v, at)
    <3>1. g = [open |-> (f.open \ OfCase(f.open, c)) \cup {},
               bans |-> (f.bans \ {}) \cup {}, by |-> {v},
               realizes |-> ((f.realizes \ OfCase(f.open, c)) \ {}) \cup {}]
      BY <1>7, <1>12, <2>4 DEF FoldVerdict, FoldBan, LiftBan, CloseOpenCase
    <3>2. after = (f.bans \ {}) \cup {} /\ {r \in {} : r.kind = "ban"} = {}
      BY <1>1, <1>5, <1>12, <2>4
    <3>3. Shifts(OfCase(f.open, c), {}, {}, {}, {}, {v})
      BY <1>9, <1>12, <2>1, <3>1, <3>2
    <3>4. QED
      <4> HIDE DEF Shifts
      <4> QED
        BY <1>6, <3>3
  <2>5. QED
    BY <2>2, <2>3, <2>4
<1>13. QED
  BY <1>2, <1>10, <1>11, <1>12

LEMMA LoopIs ==
  ASSUME RecordFiled, at \in Nat
  PROVE  \A S \in SUBSET Live : FoldIs(Loop[S], S)
<1> DEFINE Bad == {S \in SUBSET Live : ~FoldIs(Loop[S], S)}
<1>1. IsFiniteSet(Live) /\ Live \subseteq File /\ Live \subseteq Verdict
  BY FileIsFinite, FS_Subset, Positions DEF Live
<1>2. SUBSET Live = FiniteSubsetsOf(Live)
  BY <1>1, FS_FiniteSubsetsOfFinite
<1> SUFFICES ASSUME Bad # {} PROVE FALSE
  OBVIOUS
<1>3. Bad \subseteq FiniteSubsetsOf(Live)
  BY <1>2
<1>4. PICK S \in Bad : \A R \in Bad : <<R, S>> \notin StrictSubsetOrdering(Live)
  <2> HIDE DEF Bad
  <2>1. QED
    BY <1>3, FS_StrictSubsetOrderingWellFounded, WFMin
<1>5. S \in SUBSET Live /\ ~FoldIs(Loop[S], S)
  OBVIOUS
<1>6. S # {}
  <2>1. Folds(Loop, {}) = EmptyFold /\ {} \in SUBSET Live
    BY DEF Folds
  <2>2. Loop[{}] = EmptyFold
    BY <2>1, LoopUnfolds
  <2>3. FoldIs(EmptyFold, {})
    BY DEF FoldIs, EmptyFold, Fold, OpenCases, BansInForce
  <2>4. QED
    BY <1>5, <2>2, <2>3
<1> DEFINE v == ReadLast(S)
           R == S \ {v}
<1>7. v \in S /\ \A w \in R : ReadsBefore(w, v)
  BY <1>1, <1>5, <1>6, LastOfThem
<1>8. v \in Verdict /\ R \in SUBSET Verdict /\ R \cup {v} = S
  BY <1>1, <1>5, <1>7
<1>9. LastToRead(v, R)
  BY <1>1, <1>5, <1>7, ReadingOrder DEF LastToRead
<1>10. R \in SUBSET Live /\ <<R, S>> \in StrictSubsetOrdering(Live)
  BY <1>5, <1>7 DEF StrictSubsetOrdering
<1>11. FoldIs(Loop[R], R)
  BY <1>4, <1>10
<1>12. Loop[S] = FoldVerdict(Loop[R], v)
  BY <1>5, <1>6, LoopUnfolds DEF Folds
<1>13. FoldIs(FoldVerdict(Loop[R], v), S)
  <2> HIDE DEF R, v
  <2>1. QED
    BY <1>8, <1>9, <1>11, FoldStep
<1>14. QED
  BY <1>5, <1>12, <1>13

\* The loop leaves the open cases of the rows it reads, and their bans in
\* force.
LEMMA FoldedIs ==
  ASSUME RecordFiled, at \in Nat
  PROVE  FoldIs(Folded, Live)
<1>1. Live \in SUBSET Live
  OBVIOUS
<1>2. QED
  BY <1>1, LoopIs DEF Folded

-----------------------------------------------------------------------------
(* The record: what gets on file and what is passed over.                  *)

LEMMA AppendFiles ==
  ASSUME NEW S, NEW s \in Seq(S), NEW x \in S
  PROVE  Range(Append(s, x)) = Range(s) \cup {x}
<1>1. /\ DOMAIN s = 1..Len(s) /\ Len(s) \in Nat
      /\ DOMAIN Append(s, x) = 1..(Len(s) + 1)
      /\ Append(s, x)[Len(s) + 1] = x
      /\ \A i \in 1..Len(s) : Append(s, x)[i] = s[i]
  OBVIOUS
<1>2. ASSUME NEW y \in Range(Append(s, x)) PROVE y \in Range(s) \/ y = x
  <2>1. PICK i \in 1..(Len(s) + 1) : y = Append(s, x)[i]
    BY <1>1, <1>2 DEF Range
  <2>2. CASE i = Len(s) + 1
    BY <1>1, <2>1, <2>2
  <2>3. CASE i \in 1..Len(s)
    BY <1>1, <2>1, <2>3 DEF Range
  <2>4. QED
    BY <1>1, <2>2, <2>3
<1>3. ASSUME NEW y \in Range(s) PROVE y \in Range(Append(s, x))
  <2>1. PICK i \in 1..Len(s) : y = s[i]
    BY <1>1, <1>3 DEF Range
  <2>2. i \in DOMAIN Append(s, x) /\ Append(s, x)[i] = y
    BY <1>1, <2>1
  <2>3. QED
    BY <2>2 DEF Range
<1>4. x \in Range(Append(s, x))
  BY <1>1 DEF Range
<1>5. QED
  BY <1>2, <1>3, <1>4

\* A record to which a new verdict is added holds none twice.
LEMMA AppendOnce ==
  ASSUME NEW S, NEW s \in Seq(S), IsInjective(s), NEW x \in S \ Range(s)
  PROVE  IsInjective(Append(s, x))
<1>1. /\ DOMAIN s = 1..Len(s) /\ Len(s) \in Nat
      /\ DOMAIN Append(s, x) = 1..(Len(s) + 1)
      /\ Append(s, x)[Len(s) + 1] = x
      /\ \A i \in 1..Len(s) : Append(s, x)[i] = s[i]
  OBVIOUS
<1>2. \A i \in 1..Len(s) : s[i] # x
  BY <1>1 DEF Range
<1>3. QED
  <2> SUFFICES ASSUME NEW i \in 1..(Len(s) + 1), NEW j \in 1..(Len(s) + 1),
                      Append(s, x)[i] = Append(s, x)[j]
               PROVE  i = j
    BY <1>1 DEF IsInjective
  <2>1. CASE i \in 1..Len(s) /\ j \in 1..Len(s)
    BY <1>1, <2>1 DEF IsInjective
  <2>2. CASE i = Len(s) + 1 \/ j = Len(s) + 1
    BY <1>1, <1>2, <2>2
  <2>3. QED
    BY <1>1, <2>1, <2>2

\* A verdict that validation lets through is a ban in the terms its mandate
\* pins, or no ban.
LEMMA ValidIsJudged ==
  ASSUME NEW s \in Submission, Pins(s, Document[s.verdict].mandate), Valid(s)
  PROVE  Judged(s.verdict)
BY DEF Judged, Valid, Pins

LEMMA ReceiveKeeps ==
  ASSUME DocketInv, NEW h \in Handler, NEW s \in Submission, Receive(h, s)
  PROVE  DocketInv'
<1> DEFINE m == Document[s.verdict].mandate
           taken == [pc |-> "store", verdict |-> s.verdict]
<1>1. s.verdict \in Verdict /\ m \in Mandate
  BY DocketAssumption DEF VerdictSubmission, Rest
<1>2. taken \in [pc: {"store", "supersede"}, verdict: Verdict]
  BY <1>1
<1>3. /\ UNCHANGED <<arrived, executed, at, superseded>>
      /\ mandates' = [mandates EXCEPT ![m] = "pinned"]
      /\ handler' = handler \/ handler' = [handler EXCEPT ![h] = taken]
      /\ handler' # handler => Judged(s.verdict)
  BY ValidIsJudged DEF Receive
<1>4. taken.pc = "store" /\ taken.verdict = s.verdict
  OBVIOUS
<1> HIDE DEF taken, m
<1>5. DocketTypeOK'
  BY <1>1, <1>2, <1>3 DEF DocketInv, DocketTypeOK, File
<1>6. \A g \in Handler : handler'[g] = handler[g] \/ (handler'[g] = taken /\ Judged(s.verdict))
  BY <1>3 DEF DocketInv, DocketTypeOK
<1>7. JudgedInv'
  <2>1. \A v \in File' : Judged(v)'
    BY <1>3 DEF DocketInv, JudgedInv, Judged, File
  <2>2. ASSUME NEW g \in Handler, handler'[g] # Free PROVE Judged(handler'[g].verdict)
    BY <1>4, <1>6, <2>2 DEF DocketInv, JudgedInv
  <2>3. QED
    BY <2>1, <2>2 DEF JudgedInv, Judged
<1>8. SupersededInv'
  BY <1>3, <1>4, <1>6 DEF DocketInv, SupersededInv, File
<1>9. QED
  BY <1>5, <1>7, <1>8 DEF DocketInv

\* Filing keeps what is on file, and adds a verdict that was judged.
LEMMA PutKeeps ==
  ASSUME DocketInv, NEW h \in Handler, PutVerdict(h)
  PROVE  DocketInv'
<1> DEFINE v == handler[h].verdict
           next == [handler[h] EXCEPT !.pc = "supersede"]
<1>1. /\ handler[h] # Free /\ v \in Verdict
      /\ handler[h] \in [pc: {"store", "supersede"}, verdict: Verdict]
      /\ handler \in [Handler -> {Free} \cup [pc: {"store", "supersede"}, verdict: Verdict]]
  BY DEF DocketInv, DocketTypeOK, PutVerdict, Free
<1>2. Judged(v)
  BY <1>1 DEF DocketInv, JudgedInv
<1>3. /\ arrived' \in Seq(Verdict) /\ IsInjective(arrived')
      /\ File' = File \cup {v}
  <2>1. CASE v \in File
    BY <2>1 DEF PutVerdict, DocketInv, DocketTypeOK, File
  <2>2. CASE v \notin File
    <3>1. arrived' = Append(arrived, v)
      BY <2>2 DEF PutVerdict
    <3>2. arrived \in Seq(Verdict) /\ IsInjective(arrived)
      BY DEF DocketInv, DocketTypeOK
    <3>3. Append(arrived, v) \in Seq(Verdict)
      BY <1>1, <3>2
    <3>4. QED
      BY <1>1, <2>2, <3>1, <3>2, <3>3, AppendFiles, AppendOnce DEF File
  <2>3. QED
    BY <2>1, <2>2
<1>4. /\ UNCHANGED <<executed, at, mandates, superseded>>
      /\ handler' = [handler EXCEPT ![h] = IF v.kind = "open-case" THEN Free ELSE next]
  BY DEF PutVerdict, Stored
<1>5. /\ next \in [pc: {"store", "supersede"}, verdict: Verdict]
      /\ next.verdict = v
  BY <1>1
<1> HIDE DEF next, v
<1>6. handler' \in [Handler -> {Free} \cup [pc: {"store", "supersede"}, verdict: Verdict]]
  BY <1>1, <1>4, <1>5
<1>7. \A g \in Handler : \/ handler'[g] = handler[g]
                         \/ handler'[g] = Free
                         \/ handler'[g].verdict = v /\ v.kind # "open-case"
  BY <1>1, <1>4, <1>5
<1>8. DocketTypeOK'
  BY <1>3, <1>4, <1>6 DEF DocketInv, DocketTypeOK
<1>9. JudgedInv'
  <2>1. ASSUME NEW g \in Handler, handler'[g] # Free PROVE Judged(handler'[g].verdict)
    BY <1>2, <1>7, <2>1 DEF DocketInv, JudgedInv
  <2>2. QED
    BY <1>2, <1>3, <2>1 DEF DocketInv, JudgedInv, Judged
<1>10. SupersededInv'
  BY <1>3, <1>4, <1>7 DEF DocketInv, SupersededInv, Free
<1>11. QED
  BY <1>8, <1>9, <1>10 DEF DocketInv

\* The steps that file nothing and take nothing up.
LEMMA OthersKeep ==
  ASSUME DocketInv,
         /\ arrived' = arrived
         /\ executed' \subseteq File /\ superseded' = superseded /\ at' \in Instant
         /\ mandates' \in [Mandate -> {"absent", "bare", "pinned"}]
         /\ handler' \in [Handler -> {Free} \cup [pc: {"store", "supersede"}, verdict: Verdict]]
         /\ \A g \in Handler : handler'[g] = handler[g] \/ handler'[g] = Free
  PROVE  DocketInv'
<1>1. File' = File
  BY DEF File
<1>2. DocketTypeOK'
  BY <1>1 DEF DocketInv, DocketTypeOK
<1>3. JudgedInv'
  BY <1>1 DEF DocketInv, JudgedInv, Judged
<1>4. SupersededInv'
  BY <1>1 DEF DocketInv, SupersededInv, Free
<1>5. QED
  BY <1>2, <1>3, <1>4 DEF DocketInv

\* A ruling on file supersedes the notices of its case that are on file.
LEMMA SupersedeKeeps ==
  ASSUME DocketInv, NEW h \in Handler, SupersedeOpenCase(h)
  PROVE  DocketInv'
<1>1. handler[h].verdict \in File /\ handler[h].verdict.kind # "open-case"
  BY DEF SupersedeOpenCase, DocketInv, SupersededInv
<1>2. /\ UNCHANGED <<arrived, executed, at, mandates>> /\ File' = File
      /\ handler' = [handler EXCEPT ![h] = Free]
      /\ superseded' = superseded \cup
           {v \in File : v.kind = "open-case" /\ v.case = handler[h].verdict.case}
  BY DEF SupersedeOpenCase, File
<1>3. DocketTypeOK'
  BY <1>2 DEF DocketInv, DocketTypeOK
<1>4. \A g \in Handler : handler'[g] = handler[g] \/ handler'[g] = Free
  BY <1>2 DEF DocketInv, DocketTypeOK
<1>5. JudgedInv'
  BY <1>2, <1>4 DEF DocketInv, JudgedInv, Judged
<1>6. SupersededInv'
  BY <1>1, <1>2, <1>4 DEF DocketInv, SupersededInv, Free
<1>7. QED
  BY <1>3, <1>5, <1>6 DEF DocketInv

LEMMA Settled ==
  ASSUME DocketInv
  PROVE  RecordFiled /\ at \in Nat /\ superseded \subseteq File
BY DocketAssumption DEF DocketInv, DocketTypeOK, RecordFiled

LEMMA ExecuteKeeps ==
  ASSUME DocketInv, Execute
  PROVE  DocketInv'
<1>1. FoldIs(Folded, Live)
  BY Settled, FoldedIs
<1>2. Folded.realizes \subseteq File
  BY <1>1 DEF FoldIs, Live
<1>3. executed' \subseteq File /\ UNCHANGED <<arrived, at, mandates, superseded, handler>>
  BY <1>2 DEF Execute, DocketInv, DocketTypeOK
<1>4. QED
  BY <1>3, OthersKeep DEF DocketInv, DocketTypeOK

LEMMA DocketKept == DocketInv /\ [DocketNext]_docketVars => DocketInv'
<1> SUFFICES ASSUME DocketInv, [DocketNext]_docketVars PROVE DocketInv'
  OBVIOUS
<1>1. ASSUME NEW m \in Mandate, PutMandate(m) PROVE DocketInv'
  BY <1>1, OthersKeep DEF PutMandate, DocketInv, DocketTypeOK
<1>2. ASSUME NEW h \in Handler, NEW s \in Submission, Receive(h, s) PROVE DocketInv'
  BY <1>2, ReceiveKeeps
<1>3. ASSUME NEW h \in Handler, PutVerdict(h) PROVE DocketInv'
  BY <1>3, PutKeeps
<1>4. ASSUME NEW h \in Handler, SupersedeOpenCase(h) PROVE DocketInv'
  BY <1>4, SupersedeKeeps
<1>5. CASE Execute
  BY <1>5, ExecuteKeeps
<1>6. CASE DocketRestart
  BY <1>6, OthersKeep DEF DocketRestart, DocketInv, DocketTypeOK
<1>7. CASE Tick
  BY <1>7, OthersKeep DEF Tick, DocketInv, DocketTypeOK
<1>8. CASE UNCHANGED docketVars
  BY <1>8, OthersKeep DEF docketVars, DocketInv, DocketTypeOK
<1>9. QED
  BY <1>1, <1>2, <1>3, <1>4, <1>5, <1>6, <1>7, <1>8 DEF DocketNext

LEMMA DocketStarts == DocketInit => DocketInv
<1> SUFFICES ASSUME DocketInit PROVE DocketInv
  OBVIOUS
<1>1. arrived = <<>> /\ IsInjective(arrived) /\ File = {} /\ arrived \in Seq(Verdict)
  BY DEF DocketInit, File, Range, IsInjective
<1>2. DocketTypeOK
  BY <1>1, DocketAssumption DEF DocketInit, DocketTypeOK
<1>3. JudgedInv
  BY <1>1 DEF DocketInit, JudgedInv
<1>4. SupersededInv
  BY DEF DocketInit, SupersededInv, Free
<1>5. QED
  BY <1>2, <1>3, <1>4 DEF DocketInv

\* On file is what was valid under the manifest of its mandate, each verdict
\* once, and a notice is passed over only once its case is ruled on
\* (verdict.rs, validate; store.rs, put_verdict and supersede_open_case).
THEOREM OnlyValidBans == DocketSpec => []DocketInv
BY DocketStarts, DocketKept, PTL DEF DocketSpec

\* A ban that is valid begins and ends where its terms put it.
LEMMA ValidWithinTerms ==
  ASSUME NEW b \in Verdict, b.kind = "ban", Judged(b)
  PROVE  LET d == Document[b]
             terms == d.mandate.manifest.classes[d.class]
             start == IF terms.suspensive THEN b.decidedAt + terms.appeal ELSE b.decidedAt
             slips == IF terms.suspensive THEN 2 * Tolerance ELSE Tolerance
         IN  /\ b.executeAfter + slips >= start
             /\ b.executeAfter <= start + slips
             /\ IF b.expires = Permanent THEN terms.term = Permanent
                ELSE /\ terms.term # Permanent
                     /\ b.expires <= start + terms.term + slips + Tolerance
<1> DEFINE d == Document[b]
           terms == d.mandate.manifest.classes[d.class]
<1>1. d \in Rest /\ d.mandate \in Mandate /\ d.class \in Class
  BY DocketAssumption DEF Rest
<1>2. d.mandate.manifest \in AuthorityManifest
  BY <1>1, DocketAssumption DEF ModerationMandate
<1>3. ValidBan(b, d, terms)
  BY DEF Judged
<1>4. terms \in Terms
  BY <1>1, <1>2, <1>3 DEF AuthorityManifest, ValidBan
<1>5. /\ terms.appeal \in Nat /\ terms.suspensive \in BOOLEAN
      /\ terms.term \in Nat \cup {Permanent}
  BY <1>4 DEF Terms
<1>6. /\ b.decidedAt \in Nat /\ b.executeAfter \in Nat /\ b.expires \in Nat \cup {Permanent}
      /\ Permanent \notin Nat
  BY MarksAssumption
<1>7. d.appeal \in Nat /\ Tolerance \in Nat
  BY <1>1, <1>3, DocketAssumption DEF Rest, ValidBan
<1> HIDE DEF d, terms
<1>8. /\ Near(d.appeal, b.decidedAt + terms.appeal)
      /\ Near(b.executeAfter, IF terms.suspensive THEN d.appeal ELSE b.decidedAt)
      /\ ConsentedEnd(b, terms)
  BY <1>3 DEF ValidBan, ConsentedStart
<1>9. CASE terms.suspensive
  BY <1>5, <1>6, <1>7, <1>8, <1>9 DEF Near, ConsentedEnd, d, terms
<1>10. CASE ~terms.suspensive
  BY <1>5, <1>6, <1>7, <1>8, <1>10 DEF Near, ConsentedEnd, d, terms
<1>11. QED
  BY <1>5, <1>9, <1>10

\* The sanction a user can receive is the one they read before signing
\* (verdict.rs, validate_ban).
THEOREM SanctionsAgreed == DocketSpec => []BanWithinConsent
<1>1. DocketInv => BanWithinConsent
  <2> SUFFICES ASSUME DocketInv, NEW b \in File, b.kind = "ban"
               PROVE  b \in Verdict /\ Judged(b)
    BY ValidWithinTerms DEF BanWithinConsent
  <2>1. Judged(b)
    BY DEF DocketInv, JudgedInv
  <2>2. b \in Verdict
    BY DEF DocketInv, DocketTypeOK, File, Range
  <2>3. QED
    BY <2>1, <2>2
<1>2. QED
  BY <1>1, OnlyValidBans, PTL

\* The record and the requests are what the module says of them, and the
\* accumulators of the loop stay sets of verdicts on file.
THEOREM DocketTyping == DocketSpec => [](DocketTypeOK /\ Folded \in Fold)
<1>1. DocketInv => DocketTypeOK /\ Folded \in Fold
  BY Settled, FoldedIs DEF DocketInv, FoldIs
<1>2. QED
  BY <1>1, OnlyValidBans, PTL

-----------------------------------------------------------------------------
(* The readings of one record agree.                                       *)

LEMMA LoopAgrees == DocketInv => FoldMatchesReference
<1> SUFFICES ASSUME DocketInv PROVE FoldMatchesReference
  OBVIOUS
<1>1. FoldIs(Folded, Live)
  BY Settled, FoldedIs
<1>2. Folded.open = {} <=> OpenCases(Live) = {}
  BY <1>1 DEF FoldIs
<1>3. /\ Folded.bans = BansInForce(Live, at)
      /\ {v \in Folded.realizes : v.kind = "ban"} = BansInForce(Live, at)
  BY <1>1 DEF FoldIs
<1>4. FoldedBits = Intended(Live, at)
  BY <1>2, <1>3 DEF FoldedBits, Intended
<1>5. FoldedBanExecuted <=> BansInForce(Live, at) \cap executed # {}
  BY <1>3 DEF FoldedBanExecuted
<1>6. QED
  BY <1>3, <1>4, <1>5 DEF FoldMatchesReference

\* Each superseded notice has a ruling on file that is later: it opens no
\* case, and ends no ban.
LEMMA PassedOverSafely == DocketInv => SupersedingIsRedundant
<1> SUFFICES ASSUME DocketInv, NoNoticeAfterRuling
             PROVE  Intended(Live, at) = Intended(File, at)
  BY DEF SupersedingIsRedundant
<1>1. \A o \in superseded : /\ o \in File /\ o.kind = "open-case"
                            /\ \E w \in File : /\ w.kind # "open-case" /\ w.case = o.case
                                               /\ Later(w, o)
  BY Settled DEF DocketInv, SupersededInv, NoNoticeAfterRuling
<1>2. Live \subseteq File /\ File \ Live \subseteq superseded
  BY DEF Live
<1>3. OpenCases(Live) = OpenCases(File)
  <2>1. ASSUME NEW c \in OpenCases(Live) PROVE c \in OpenCases(File)
    BY <1>1, <1>2, <2>1 DEF OpenCases
  <2>2. ASSUME NEW c \in OpenCases(File) PROVE c \in OpenCases(Live)
    <3>1. PICK o \in File : /\ o.case = c /\ o.kind = "open-case"
                            /\ \A w \in File : w.case = c /\ Later(w, o) => w.kind = "open-case"
      BY <2>2 DEF OpenCases
    <3>2. o \notin superseded
      BY <1>1, <3>1
    <3>3. QED
      BY <1>2, <2>2, <3>1, <3>2 DEF OpenCases
  <2>3. QED
    BY <2>1, <2>2
<1>4. BansInForce(Live, at) = BansInForce(File, at)
  <2>1. ASSUME NEW b \in BansInForce(Live, at) PROVE b \in BansInForce(File, at)
    BY <1>1, <1>2, <2>1 DEF BansInForce
  <2>2. ASSUME NEW b \in BansInForce(File, at) PROVE b \in BansInForce(Live, at)
    <3>1. b \in File /\ b.kind = "ban"
      BY <2>2 DEF BansInForce
    <3>2. b \in Live
      BY <1>1, <1>2, <3>1
    <3>3. QED
      BY <1>2, <2>2, <3>2 DEF BansInForce
  <2>3. QED
    BY <2>1, <2>2
<1>5. QED
  BY <1>3, <1>4 DEF Intended

LEMMA AuthorizerStands == DocketInv => AuthorizerJustifies
<1> SUFFICES ASSUME DocketInv PROVE AuthorizerJustifies
  OBVIOUS
<1>1. FoldIs(Folded, Live) /\ RecordFiled /\ Live \subseteq File
  BY Settled, FoldedIs DEF Live
<1>2. /\ Folded.bans = BansInForce(Live, at) /\ Folded.bans \in SUBSET File
      /\ Folded.open \in SUBSET File /\ \A o \in Folded.open : o.kind = "open-case"
      /\ {o.case : o \in Folded.open} = OpenCases(Live)
  BY <1>1 DEF FoldIs
<1>3. ASSUME Folded.bans # {}
      PROVE  \E v \in AuthorizedBy : v \in BansInForce(Live, at)
  <2>1. ReadLast(Folded.bans) \in Folded.bans
    BY <1>1, <1>2, <1>3, LastOfThem
  <2>2. QED
    BY <1>2, <1>3, <2>1 DEF AuthorizedBy
<1>4. ASSUME Folded.bans = {}, Folded.open # {}
      PROVE  \E v \in AuthorizedBy : v.kind = "open-case" /\ v.case \in OpenCases(Live)
  <2>1. ReadLast(Folded.open) \in Folded.open
    BY <1>1, <1>2, <1>4, LastOfThem
  <2>2. QED
    BY <1>2, <1>4, <2>1 DEF AuthorizedBy
<1>5. QED
  BY <1>2, <1>3, <1>4 DEF AuthorizerJustifies, Intended

\* The row of a case that is read last governs the case.
LEMMA SomeRowGoverns ==
  ASSUME RecordFiled, NEW x \in Live
  PROVE  \E v \in Live : Governs(v, Live) /\ v.case = x.case /\ (v = x \/ ReadsBefore(x, v))
<1> DEFINE S == {w \in Live : w.case = x.case}
           v == ReadLast(S)
<1>1. S \in SUBSET File /\ x \in S /\ Live \subseteq File
  BY DEF Live
<1>2. v \in S /\ \A w \in S \ {v} : ReadsBefore(w, v)
  BY <1>1, LastOfThem
<1>3. \A w \in S : ~Later(w, v)
  BY <1>1, <1>2, ReadingOrder, Positions, NeverLaterThanItself
<1> HIDE DEF v
<1>4. QED
  BY <1>1, <1>2, <1>3 DEF Governs

LEMMA StateCovers == DocketInv => StateCoversMarks
<1> SUFFICES ASSUME DocketInv PROVE StateCoversMarks
  OBVIOUS
<1>1. FoldIs(Folded, Live) /\ RecordFiled
  BY Settled, FoldedIs
<1>2. \A v \in Live : v \in Verdict /\ v.decidedAt \in Nat /\ Precedence(v) \in Nat
  BY <1>1, Positions, Times DEF Live
<1>3. ASSUME FoldedBits.caseOpen PROVE StateOpen(Live)
  <2>1. OpenCases(Live) # {}
    <3>1. Folded.open # {}
      BY <1>3 DEF FoldedBits
    <3>2. QED
      BY <1>1, <3>1 DEF FoldIs
  <2>2. PICK o \in Live :
          /\ o.kind = "open-case"
          /\ \A w \in Live : w.case = o.case /\ Later(w, o) => w.kind = "open-case"
    BY <2>1 DEF OpenCases
  <2>3. PICK v \in Live : Governs(v, Live) /\ v.case = o.case /\ (v = o \/ ReadsBefore(o, v))
    BY <1>1, SomeRowGoverns
  <2>4. CASE Later(v, o)
    BY <2>2, <2>3, <2>4 DEF StateOpen
  <2>5. CASE ~Later(v, o)
    <3>1. v = o \/ Precedence(v) = Precedence(o)
      BY <1>2, <2>3, <2>5 DEF ReadsBefore, Later
    <3>2. v.kind = "open-case"
      BY <1>2, <2>2, <3>1, Times DEF Precedence
    <3>3. QED
      BY <2>3, <3>2 DEF StateOpen
  <2>6. QED
    BY <2>4, <2>5
<1>4. ASSUME FoldedBits.banned PROVE StateOpen(Live) \/ StateBanned(Live, at)
  <2>1. PICK b \in BansInForce(Live, at) : TRUE
    <3>1. Folded.bans # {}
      BY <1>4 DEF FoldedBits
    <3>2. QED
      BY <1>1, <3>1 DEF FoldIs
  <2>2. /\ b \in Live /\ b.kind = "ban" /\ Unresolved(b, at)
        /\ \A w \in Live : w.case = b.case /\ Later(w, b) =>
             w.kind = "open-case" \/ (w.kind = "ban" /\ Unresolved(w, at))
    BY <2>1 DEF BansInForce, InForce, Unresolved
  <2>3. PICK v \in Live : Governs(v, Live) /\ v.case = b.case /\ (v = b \/ ReadsBefore(b, v))
    BY <1>1, <2>2, SomeRowGoverns
  <2>4. CASE Later(v, b)
    BY <2>2, <2>3, <2>4 DEF StateOpen, StateBanned
  <2>5. CASE ~Later(v, b)
    <3>1. v = b \/ (v.decidedAt = b.decidedAt /\ Precedence(v) = Precedence(b))
      BY <1>2, <2>2, <2>3, <2>5 DEF ReadsBefore, Later
    <3>2. v.kind = "ban"
      BY <1>2, <2>2, <3>1, Times DEF Precedence
    <3>3. v = b
      BY <1>2, <2>2, <2>3, <3>1, <3>2, MarksAssumption
    <3>4. QED
      BY <2>2, <2>3, <3>3 DEF StateBanned
  <2>6. QED
    BY <2>4, <2>5
<1>5. QED
  BY <1>3, <1>4 DEF StateCoversMarks

\* The readings of one record agree: the loop with the definition, the row
\* it names with the mark it sets, and recovery's shortcut with both
\* (enforcement.rs, intended_marks and binding_state).
THEOREM OneRecordOneReading == DocketSpec => []ReadingsAgree
<1>1. DocketInv => ReadingsAgree
  BY LoopAgrees, PassedOverSafely, AuthorizerStands, StateCovers DEF ReadingsAgree
<1>2. QED
  BY <1>1, OnlyValidBans, PTL

-----------------------------------------------------------------------------
(* The notices.                                                            *)

\* A notice that is shown is the newest that stands of its case.
NewestShown ==
  \A n \in Notices :
    /\ n \in Live /\ n.kind = "open-case"
    /\ \A w \in Live : w.kind = "open-case" /\ w.case = n.case => ~Later(w, n)

LEMMA ShownIsNewest == DocketInv => NewestShown
<1> SUFFICES ASSUME DocketInv, NEW n \in Notices
             PROVE  /\ n \in Live /\ n.kind = "open-case"
                    /\ \A w \in Live :
                         w.kind = "open-case" /\ w.case = n.case => ~Later(w, n)
  BY DEF NewestShown
<1>1. PICK c \in Case : n \in Newest(Noticed(c))
  BY DEF Notices
<1>2. /\ RecordFiled /\ Noticed(c) \in SUBSET File /\ Live \subseteq File
      /\ Noticed(c) = {v \in Live : v.kind = "open-case" /\ v.case = c}
  BY Settled DEF Noticed, Live
<1>3. Noticed(c) # {} /\ n = ReadLast(Noticed(c))
  BY <1>1 DEF Newest
<1>4. n \in Noticed(c) /\ \A w \in Noticed(c) \ {n} : ReadsBefore(w, n)
  BY <1>2, <1>3, LastOfThem
<1>5. \A w \in Noticed(c) : ~Later(w, n)
  BY <1>2, <1>4, ReadingOrder, Positions, NeverLaterThanItself
<1>6. QED
  BY <1>2, <1>4, <1>5

LEMMA ShownIsNewestAfter == DocketInv' => NewestShown'
BY ShownIsNewest, PTL

\* Nothing leaves the file, and a notice stops to stand only when every
\* notice on file of its case does.
LEMMA NoticesStand ==
  ASSUME DocketInv, [DocketNext]_docketVars
  PROVE  /\ File \subseteq File'
         /\ \A n \in superseded' \ superseded, o \in File' :
              o.kind = "open-case" /\ o.case = n.case => o \in superseded'
<1>1. ASSUME NEW h \in Handler, PutVerdict(h)
      PROVE  File \subseteq File' /\ superseded' = superseded
  <2>1. arrived \in Seq(Verdict) /\ handler[h].verdict \in Verdict
    BY <1>1 DEF DocketInv, DocketTypeOK, PutVerdict, Free
  <2>2. Range(Append(arrived, handler[h].verdict)) = File \cup {handler[h].verdict}
    BY <2>1, AppendFiles DEF File
  <2>3. QED
    BY <1>1, <2>2 DEF PutVerdict, File
<1>2. ASSUME NEW h \in Handler, SupersedeOpenCase(h)
      PROVE  /\ File' = File
             /\ superseded' = superseded \cup
                  {v \in File : v.kind = "open-case" /\ v.case = handler[h].verdict.case}
  BY <1>2 DEF SupersedeOpenCase, File
<1>3. \/ \E h \in Handler : PutVerdict(h) \/ SupersedeOpenCase(h)
      \/ UNCHANGED <<arrived, superseded>>
  BY DEF DocketNext, docketVars, PutMandate, Receive, Execute, DocketRestart, Tick
<1>4. UNCHANGED <<arrived, superseded>> => File' = File /\ superseded' = superseded
  BY DEF File
<1>5. QED
  BY <1>1, <1>2, <1>3, <1>4

\* What an accused person is shown of a case never goes back to an earlier
\* notice (enforcement.rs, open_case_notices).
THEOREM NoticesNeverGoBack == DocketSpec => NoticesAdvance
<1>1. ASSUME DocketInv, DocketInv', [DocketNext]_docketVars,
             NEW n \in Notices, NEW o \in Notices', n.case = o.case
      PROVE  ~Later(n, o)
  <2>1. NewestShown /\ NewestShown'
    BY <1>1, ShownIsNewest, ShownIsNewestAfter
  <2>2. n \in File /\ n \notin superseded /\ n.kind = "open-case"
    BY <2>1 DEF NewestShown, Live
  <2>3. /\ o \in File' /\ o \notin superseded' /\ o.kind = "open-case"
        /\ n \in File' /\ n \notin superseded' => ~Later(n, o)
    BY <1>1, <2>1, <2>2 DEF NewestShown, Live
  <2>4. n \in File' /\ n \notin superseded'
    BY <1>1, <2>2, <2>3, NoticesStand
  <2>5. QED
    BY <2>3, <2>4
<1>2. DocketInv /\ DocketInv' /\ [DocketNext]_docketVars =>
        [\A n \in Notices, o \in Notices' : n.case = o.case => ~Later(n, o)]_docketVars
  BY <1>1
<1>3. QED
  BY <1>2, OnlyValidBans, PTL DEF NoticesAdvance, DocketSpec
=============================================================================
