------------------------------ MODULE Evidence ------------------------------
(***************************************************************************)
(* The authority's custody of evidence: the images reporters upload, the   *)
(* reports and responses that name them, the preservation duties some      *)
(* classes carry, the lawful referral that discharges a duty, and the      *)
(* retention sweep that deletes everything else on its schedule.           *)
(*                                                                         *)
(* Every store method takes the connection lock once, so a step is one     *)
(* store call, or several whose gaps no other step can observe.  A request *)
(* and the sweep are sequences of steps; what they read before an unlock   *)
(* may be stale when they use it.                                          *)
(*                                                                         *)
(* A tick is a day, the unit of every retention period, so a request or a  *)
(* sweep ends within the tick it began in.  One case per accused and class *)
(* is modelled: what happens to it is in CaseLifecycle.tla and Claims.tla, *)
(* and is here only as far as custody depends on it.                       *)
(***************************************************************************)
EXTENDS Integers, FiniteSets

CONSTANTS
  Key,            \* keys that consented to this authority
  Image,          \* the images clients may send
  Case,           \* cases, one per accused and class
  Mandate, MandateOf, ValidUntil,  \* the mandate a case pins; its validUntil
  Preserving,     \* cases of a class in CLASSES_REQUIRING_PRESERVATION
  Consented,      \* Consented[m]: the schedule of the manifest m pins, or None
  Published,      \* the schedule this authority publishes now
  ReviewsImages,  \* the pinned model profile can inspect an image
  Preimage,       \* Preimage[c]: the signed bytes filings on c may disclose
  Client,         \* requests that may be in flight at once
  None, Permanent,
  DecisionWindow, AppealWindow, BanTerm,   \* of the consented class, in days
  MaxParked,      \* MAX_UNREFERENCED_UPLOADS_PER_KEY
  MaxPerFiling,   \* MAX_MEDIA_PER_FILING
  MaxPerCase,     \* MAX_MEDIA_PER_CASE
  MaxTime         \* bound: the clock stops here

VARIABLES
  now,
  blob,      \* evidence_blobs: [at, by, viewable], or None
  attached,  \* evidence_blob_cases
  hold,      \* preservation_holds.release_after of a digest or case, or None
  referred,  \* cases whose hold row carries a referral_ref
  ledger,    \* the referrals table
  case,      \* the cases row and what is kept about it
  mandates,  \* rows of the mandates table
  request,   \* the requests in flight
  sweep,     \* the retention sweep in flight
  overtaken  \* history: digests deleted, or left by a restart, while a filing
             \* that had found them on file was still at work on them

custody == <<blob, attached, hold, referred, ledger>>
vars == <<now, custody, case, mandates, request, sweep, overtaken>>

-----------------------------------------------------------------------------
(* Uploads and commitments.                                                *)

\* accept_image: bytes within the ceiling, of a sniffed type, that decode
\* within the edge limit to a picture within the pixel budget.
Accepted(i) ==
  /\ i.bytes = "within"
  /\ i.format \in {"jpeg", "png"}
  /\ i.decodes
  /\ i.width > 0 /\ i.height > 0
  /\ i.pixels = "within"

Digest == {i.sha256 : i \in {j \in Image : Accepted(j)}}

\* parse_disclosed: the version decides how signed bytes are read.
Readable(preimage) ==
  \/ preimage.version = None
  \/ preimage.version = 1 /\ preimage.media = {}
  \/ preimage.version = 2 /\ preimage.media # {}
Commits(preimage) == IF preimage.version = 2 THEN preimage.media ELSE {}

Schedule == [unreferencedUpload: Nat \ {0}, caseMedia: Nat \ {0},
             caseRecord: Nat \ {0}, auditRecord: Nat \ {0},
             sanctionRecord: Nat \ {0}, preservation: [Preserving -> Nat]]

\* validate_retention, checked at boot: the sanction record carries the
\* mandate the other tails are resolved from, so it goes last.
ValidSchedule(s) ==
  /\ s.sanctionRecord >= s.caseRecord
  /\ s.sanctionRecord >= s.auditRecord

Terms(c) == Consented[MandateOf[c]]

\* preservation_terms: a class that needs a duty takes media only under a
\* consented period (0 stands for a class the schedule does not list).
NeedsTerms(c) == c \in Preserving
HasTerms(c) == Terms(c) # None /\ Terms(c).preservation[c] > 0
TakesMedia(c) == (NeedsTerms(c) => HasTerms(c)) /\ ReviewsImages

Parked(k) == {d \in Digest : /\ blob[d] # None
                             /\ blob[d].by = k
                             /\ \A c \in Case : <<d, c>> \notin attached}
MediaOf(c) == {d \in Digest : <<d, c>> \in attached}

\* Store::preserved: a hold in its period, or a case not yet referred.
Preserved(s, at) ==
  /\ hold[s] # None
  /\ hold[s] > at \/ (s \in Case /\ s \notin referred)

Holdable == Digest \cup Case

-----------------------------------------------------------------------------
(* State.                                                                  *)

Blob == [at: Nat, by: Key, viewable: BOOLEAN]

CaseRow == [stage: {"absent", "open", "decided"}, due: Nat, appeal: Nat,
            pending: BOOLEAN, term: Nat \cup {None, Permanent},
            record: BOOLEAN, trail: BOOLEAN, verdicts: BOOLEAN]
NoCase == [stage |-> "absent", due |-> 0, appeal |-> 0, pending |-> FALSE,
           term |-> None, record |-> FALSE, trail |-> FALSE, verdicts |-> FALSE]

Request == [pc: {"idle", "decode", "verified", "stored", "joined", "attached", "held"},
            kind: {"upload", "report", "response"}, key: Key \cup {None},
            case: Case \cup {None}, names: SUBSET Digest, at: Nat]
Idle == [pc |-> "idle", kind |-> "upload", key |-> None, case |-> None,
         names |-> {}, at |-> 0]

Sweep == [pc: {"idle", "release", "uploads", "media", "record", "sanction"},
          at: Nat, todo: SUBSET Holdable]
Resting == [pc |-> "idle", at |-> 0, todo |-> {}]

ASSUME EvidenceAssumption ==
  /\ None \notin Digest \cup Case \cup Key \cup Mandate \cup Nat \cup Blob
  /\ Permanent \notin Nat \cup {None}
  /\ Digest \cap Case = {}
  /\ MandateOf \in [Case -> Mandate]
  /\ ValidUntil \in [Mandate -> Nat]
  /\ Preserving \subseteq Case
  /\ Consented \in [Mandate -> Schedule \cup {None}]
  /\ Published \in Schedule \cup {None}
  /\ \A s \in {Consented[m] : m \in Mandate} \cup {Published} :
       s = None \/ ValidSchedule(s)
  /\ ReviewsImages \in BOOLEAN
  /\ \A c \in Case : Preimage[c] \subseteq [version: {1, 2, None}, media: SUBSET Digest]
  /\ {DecisionWindow, AppealWindow, BanTerm} \subseteq Nat \ {0}
  /\ {MaxParked, MaxPerFiling, MaxPerCase, MaxTime} \subseteq Nat

TypeOK ==
  /\ now \in Nat
  /\ blob \in [Digest -> Blob \cup {None}]
  /\ attached \subseteq Digest \X Case
  /\ hold \in [Holdable -> Nat \cup {None}]
  /\ referred \subseteq Case /\ ledger \subseteq Case
  /\ case \in [Case -> CaseRow]
  /\ mandates \subseteq Mandate
  /\ request \in [Client -> Request]
  /\ sweep \in Sweep
  /\ overtaken \subseteq Digest

Init ==
  /\ now = 0
  /\ blob = [d \in Digest |-> None]
  /\ attached = {}
  /\ hold = [s \in Holdable |-> None]
  /\ referred = {} /\ ledger = {}
  /\ case = [c \in Case |-> NoCase]
  /\ mandates = Mandate
  /\ request = [f \in Client |-> Idle]
  /\ sweep = Resting
  /\ overtaken = {}
-----------------------------------------------------------------------------
(* Mutants: the definitions below as a plausible mistake would have them.  *)

HeldByDutyAlone(d, at) == ~Preserved(d, at)
ReleasedByDateAlone(at) == {s \in Holdable : hold[s] # None /\ hold[s] <= at}
EligibleWhileHeld(c) == case[c].stage = "decided" /\ ~case[c].pending
MandateUnshared(c) == ValidUntil[MandateOf[c]] <= sweep.at

-----------------------------------------------------------------------------
(* Uploads: put_evidence_blob.                                             *)

\* unreferenced_uploads_by under the insert's own lock; bytes on file are
\* refreshed, never refused.
RoomToPark(k, d) == blob[d] # None \/ Cardinality(Parked(k)) < MaxParked

\* The request is authenticated and within budget, and waits for a decoder.
\* Its clock is read here and written to the row when decoding is over.
UploadAsk(f, k, i) ==
  /\ request[f].pc = "idle"
  /\ Accepted(i)
  /\ RoomToPark(k, i.sha256)
  /\ request' = [request EXCEPT ![f] =
       [Idle EXCEPT !.pc = "decode", !.key = k, !.names = {i.sha256}, !.at = now]]
  /\ UNCHANGED <<now, custody, case, mandates, sweep, overtaken>>

\* An upsert: the uploader and the derivative of bytes on file stay.
UploadStore(f) ==
  LET k == request[f].key IN
  /\ request[f].pc = "decode"
  /\ \E d \in request[f].names :
       blob' = IF ~RoomToPark(k, d) THEN blob
               ELSE IF blob[d] # None
                    THEN [blob EXCEPT ![d].at = request[f].at]
                    ELSE [blob EXCEPT ![d] =
                            [at |-> request[f].at, by |-> k, viewable |-> TRUE]]
  /\ request' = [request EXCEPT ![f] = Idle]
  /\ UNCHANGED <<now, attached, hold, referred, ledger, case, mandates,
                 sweep, overtaken>>

-----------------------------------------------------------------------------
(* Filings: file_report and respond, as far as their media goes.           *)

\* Digests some filing has found on file and not attached yet.
Relied == UNION {request[f].names : f \in {g \in Client :
                   request[g].pc \in {"verified", "stored", "joined"}}}

Delete(gone) ==
  /\ blob' = [d \in Digest |-> IF d \in gone THEN None ELSE blob[d]]
  /\ overtaken' = overtaken \cup (gone \cap Relied)

\* What the ceiling across the case is counted against.
AlreadyOn(c) == IF case[c].stage = "open" THEN MediaOf(c) ELSE {}

WithinBounds(c, names) ==
  /\ Cardinality(names) <= MaxPerFiling
  /\ Cardinality(AlreadyOn(c)) + Cardinality(names) <= MaxPerCase

\* Jurisdiction follows the accused's mandate; a response needs an open case.
MayFile(c, kind) ==
  /\ MandateOf[c] \in mandates
  /\ kind = "response" => case[c].stage = "open"
  /\ kind = "report" => case[c].stage \in {"absent", "open"}

\* No case rests on it and no duty is owed over it.
Unheld(d, at) == (\A c \in Case : <<d, c>> \notin attached) /\ ~Preserved(d, at)

\* A refusal deletes what this filing named, if it is the filer's own.
RefuseMedia(k, c, preimage) ==
  /\ \E kind \in {"report", "response"} : MayFile(c, kind)
  /\ Readable(preimage) /\ Commits(preimage) # {}
  /\ WithinBounds(c, Commits(preimage))
  /\ ~TakesMedia(c)
  /\ Delete({d \in Commits(preimage) : blob[d] # None /\ blob[d].by = k /\ Unheld(d, now)})
  /\ UNCHANGED <<now, attached, hold, referred, ledger, case, mandates,
                 request, sweep>>

\* verify_media_evidence: every committed image is on file; a filing without
\* images has nothing to verify.
Verify(f, c, kind, preimage) ==
  LET names == Commits(preimage) IN
  /\ request[f].pc = "idle"
  /\ MayFile(c, kind)
  /\ Readable(preimage)
  /\ names # {} => WithinBounds(c, names) /\ TakesMedia(c)
  /\ \A d \in names : blob[d] # None
  /\ request' = [request EXCEPT ![f] =
       [pc |-> "verified", kind |-> kind, key |-> None, case |-> c, names |-> names,
        at |-> now]]
  /\ UNCHANGED <<now, custody, case, mandates, sweep, overtaken>>

\* put_report and touch_evidence_blobs; a response is stored only on an open
\* case, and is on it from then on.
StoreFiling(f) ==
  LET r == request[f] IN
  /\ r.pc = "verified"
  /\ r.kind = "response" => case[r.case].stage = "open"
  /\ blob' = [d \in Digest |-> IF d \in r.names /\ blob[d] # None
                               THEN [blob[d] EXCEPT !.at = r.at] ELSE blob[d]]
  /\ request' = [request EXCEPT ![f].pc = IF r.kind = "response" THEN "joined" ELSE "stored"]
  /\ UNCHANGED <<now, attached, hold, referred, ledger, case, mandates,
                 sweep, overtaken>>

\* open_case or join_case: losing the race to open means joining.
OpenOrJoin(f) ==
  LET c == request[f].case IN
  /\ request[f].pc = "stored"
  /\ \/ /\ case[c].stage = "absent"
        /\ request[f].at <= ValidUntil[MandateOf[c]]
        /\ case' = [case EXCEPT ![c] =
             [NoCase EXCEPT !.stage = "open", !.due = request[f].at + DecisionWindow,
              !.record = TRUE, !.trail = TRUE, !.verdicts = TRUE]]
     \/ /\ case[c].stage = "open" /\ request[f].at < case[c].due
        /\ UNCHANGED case
  /\ request' = [request EXCEPT ![f].pc = "joined"]
  /\ UNCHANGED <<now, custody, mandates, sweep, overtaken>>

\* attach_evidence_blobs, and nothing more where there is no duty.
Attach(f) ==
  LET r == request[f] IN
  /\ r.pc = "joined"
  /\ attached' = attached \cup (r.names \X {r.case})
  /\ request' = [request EXCEPT ![f] =
       IF NeedsTerms(r.case) /\ r.names # {} THEN [r EXCEPT !.pc = "attached"] ELSE Idle]
  /\ UNCHANGED <<now, blob, hold, referred, ledger, case, mandates, sweep, overtaken>>

Later(s, release) == IF hold[s] # None /\ hold[s] > release THEN hold[s] ELSE release

\* drop_derivative of every image of the filing.
Sealed(f) == [d \in Digest |-> IF d \in request[f].names /\ blob[d] # None
                              THEN [blob[d] EXCEPT !.viewable = FALSE] ELSE blob[d]]

\* place_preservation: the images are held and no longer viewable ...
HoldImages(f) ==
  LET r == request[f] release == r.at + Terms(r.case).preservation[r.case] IN
  /\ r.pc = "attached"
  /\ hold' = [s \in Holdable |-> IF s \in r.names THEN Later(s, release) ELSE hold[s]]
  /\ blob' = Sealed(f)
  /\ request' = [request EXCEPT ![f].pc = "held"]
  /\ UNCHANGED <<now, attached, referred, ledger, case, mandates, sweep, overtaken>>

\* ... and then the case is, and waits for a referral.
HoldCase(f) ==
  LET r == request[f] IN
  /\ r.pc = "held"
  /\ hold' = [hold EXCEPT ![r.case] = Later(r.case, r.at + Terms(r.case).preservation[r.case])]
  /\ request' = [request EXCEPT ![f] = Idle]
  /\ UNCHANGED <<now, blob, attached, referred, ledger, case, mandates, sweep, overtaken>>

\* A step refused by the store, or a store error, ends the request there.
Fails(f) ==
  LET r == request[f] IN
  /\ \/ r.pc = "verified" /\ r.kind = "response" /\ case[r.case].stage # "open"
     \/ /\ r.pc = "stored"
        /\ ~(case[r.case].stage = "open" /\ r.at < case[r.case].due)
        /\ ~(case[r.case].stage = "absent" /\ r.at <= ValidUntil[MandateOf[r.case]])
  /\ request' = [request EXCEPT ![f] = Idle]
  /\ UNCHANGED <<now, custody, case, mandates, sweep, overtaken>>

-----------------------------------------------------------------------------
(* The case, as far as custody depends on it.                              *)

\* A dismissal, or a ban with its appeal deadline; a permanent ban's verdict
\* carries no expiry.
Decide(c) ==
  /\ case[c].stage = "open"
  /\ case' = [case EXCEPT ![c].stage = "decided"]
  /\ UNCHANGED <<now, custody, mandates, request, sweep, overtaken>>

Ban(c) ==
  /\ case[c].stage = "open" /\ now <= case[c].due
  /\ \E t \in {now + BanTerm, Permanent} :
       case' = [case EXCEPT ![c] =
         [@ EXCEPT !.stage = "decided", !.term = t, !.appeal = now + AppealWindow]]
  /\ UNCHANGED <<now, custody, mandates, request, sweep, overtaken>>

DismissOverdue(c) ==
  /\ case[c].stage = "open" /\ now >= case[c].due
  /\ case' = [case EXCEPT ![c].stage = "decided"]
  /\ UNCHANGED <<now, custody, mandates, request, sweep, overtaken>>

\* An appeal or a new-holder claim on a ban; the latter has no deadline.
FileClaim(c) ==
  /\ case[c].stage = "decided" /\ case[c].term # None /\ ~case[c].pending
  /\ case' = [case EXCEPT ![c].pending = TRUE]
  /\ UNCHANGED <<now, custody, mandates, request, sweep, overtaken>>

ResolveClaim(c) ==
  /\ case[c].pending
  /\ case' = [case EXCEPT ![c].pending = FALSE]
  /\ UNCHANGED <<now, custody, mandates, request, sweep, overtaken>>

-----------------------------------------------------------------------------
(* The referral, and the retention sweep.                                  *)

\* referral::build: who may be referred, and the originals the package carries.
Referable(c) == case[c].stage # "absent" /\ Preserved(c, now)
Package(c) == {d \in MediaOf(c) : blob[d] # None}

\* record_referral_reference: the hold row and the ledger.
RecordReferral(c) ==
  /\ hold[c] # None
  /\ c \notin referred
  /\ referred' = referred \cup {c}
  /\ ledger' = ledger \cup {c}
  /\ UNCHANGED <<now, blob, attached, hold, case, mandates, request, sweep, overtaken>>

\* released_holds: the duty has run out and, for a case, was discharged.
Released(at) == {s \in Holdable : /\ hold[s] # None /\ hold[s] <= at
                                  /\ s \in Case => s \in referred}

SweepBegin ==
  /\ sweep.pc = "idle"
  /\ sweep' = [pc |-> "release", at |-> now, todo |-> Released(now)]
  /\ UNCHANGED <<now, custody, case, mandates, request, overtaken>>

DropHold(s) ==
  /\ sweep.pc = "release" /\ s \in sweep.todo
  /\ hold' = [hold EXCEPT ![s] = None]
  /\ referred' = referred \ {s}
  /\ sweep' = [sweep EXCEPT !.todo = @ \ {s}]
  /\ UNCHANGED <<now, blob, attached, ledger, case, mandates, request, overtaken>>

\* sweep_unreferenced_evidence_blobs, if a schedule is published.
Expired(at) == IF Published = None THEN {}
               ELSE {d \in Digest : /\ blob[d] # None
                                    /\ blob[d].at < at - Published.unreferencedUpload}

SweepUploads ==
  /\ sweep.pc = "release" /\ sweep.todo = {}
  /\ Delete({d \in Expired(sweep.at) : Unheld(d, sweep.at)})
  /\ sweep' = [sweep EXCEPT !.pc = "uploads"]
  /\ UNCHANGED <<now, attached, hold, referred, ledger, case, mandates, request>>

\* Decided, no claim pending, no hold.
Eligible(c) ==
  /\ case[c].stage = "decided" /\ ~case[c].pending
  /\ ~Preserved(c, sweep.at)

\* The later of the appeal and decision deadlines.
Anchor(c) == IF case[c].appeal > case[c].due THEN case[c].appeal ELSE case[c].due

\* consented_schedule: nothing is on a timer without its terms.
ScheduleOf(c) == IF MandateOf[c] \in mandates THEN Terms(c) ELSE None
TailElapsed(anchor, tail) == sweep.at >= anchor + tail

ListMedia ==
  /\ sweep.pc = "uploads"
  /\ sweep' = [sweep EXCEPT !.pc = "media",
                            !.todo = {c \in Case : Eligible(c) /\ MediaOf(c) # {}}]
  /\ UNCHANGED <<now, custody, case, mandates, request, overtaken>>

MediaDue(c) ==
  /\ ScheduleOf(c) # None
  /\ TailElapsed(Anchor(c), ScheduleOf(c).caseMedia)
  /\ ~Preserved(c, sweep.at)

\* delete_evidence_blobs_for_case: detach, then delete what nothing holds.
DeleteMedia(c) ==
  /\ sweep.pc = "media" /\ c \in sweep.todo
  /\ IF MediaDue(c)
     THEN /\ attached' = attached \ (Digest \X {c})
          /\ Delete({d \in MediaOf(c) : /\ \A o \in Case \ {c} : <<d, o>> \notin attached
                                        /\ ~Preserved(d, sweep.at)})
     ELSE UNCHANGED <<attached, blob, overtaken>>
  /\ sweep' = [sweep EXCEPT !.todo = @ \ {c}]
  /\ UNCHANGED <<now, hold, referred, ledger, case, mandates, request>>

ListRecords ==
  /\ sweep.pc = "media" /\ sweep.todo = {}
  /\ sweep' = [sweep EXCEPT !.pc = "record", !.todo = {c \in Case : Eligible(c)}]
  /\ UNCHANGED <<now, custody, case, mandates, request, overtaken>>

\* delete_case_record and delete_case_events, each past its own tail.
DeleteRecord(c) ==
  /\ sweep.pc = "record" /\ c \in sweep.todo
  /\ case' = IF ScheduleOf(c) = None THEN case
             ELSE [case EXCEPT ![c] =
               [@ EXCEPT
                  !.record = case[c].record /\ ~TailElapsed(Anchor(c), ScheduleOf(c).caseRecord),
                  !.trail = case[c].trail /\ ~TailElapsed(Anchor(c), ScheduleOf(c).auditRecord)]]
  /\ sweep' = [sweep EXCEPT !.todo = @ \ {c}]
  /\ UNCHANGED <<now, custody, mandates, request, overtaken>>

\* cases_eligible_for_sanction_retention: never under an endless ban.
ListSanctions ==
  /\ sweep.pc = "record" /\ sweep.todo = {}
  /\ sweep' = [sweep EXCEPT !.pc = "sanction",
       !.todo = {c \in Case : Eligible(c) /\ case[c].verdicts /\ case[c].term # Permanent}]
  /\ UNCHANGED <<now, custody, case, mandates, request, overtaken>>

\* The latest horizon of the case's verdicts.
MarkHorizon(c) == IF case[c].term \in Nat /\ case[c].term > case[c].due
                  THEN case[c].term ELSE case[c].due

\* The last case pinning it is done and its own consent has run out.
MandateSpent(c) ==
  /\ \A o \in Case \ {c} : case[o].stage # "absent" => MandateOf[o] # MandateOf[c]
  /\ ValidUntil[MandateOf[c]] <= sweep.at

\* The record and the trail, then delete_sanction_record.
DeleteSanction(c) ==
  /\ sweep.pc = "sanction" /\ c \in sweep.todo
  /\ IF ScheduleOf(c) # None /\ TailElapsed(MarkHorizon(c), ScheduleOf(c).sanctionRecord)
     THEN /\ case' = [case EXCEPT ![c] =
               [@ EXCEPT !.record = FALSE, !.trail = FALSE, !.verdicts = FALSE]]
          /\ mandates' = IF MandateSpent(c) THEN mandates \ {MandateOf[c]} ELSE mandates
     ELSE UNCHANGED <<case, mandates>>
  /\ sweep' = [sweep EXCEPT !.todo = @ \ {c}]
  /\ UNCHANGED <<now, custody, request, overtaken>>

SweepEnd ==
  /\ sweep.pc = "sanction" /\ sweep.todo = {}
  /\ sweep' = Resting
  /\ UNCHANGED <<now, custody, case, mandates, request, overtaken>>

-----------------------------------------------------------------------------
(* The environment.                                                        *)

\* A day passes.  What is in flight takes far less, and the deadline sweep, run
\* every minute, leaves no case open for a day past its deadline.
Tick ==
  /\ now < MaxTime
  /\ \A f \in Client : request[f].pc = "idle"
  /\ sweep.pc = "idle"
  /\ \A c \in Case : case[c].stage = "open" => now < case[c].due
  /\ now' = now + 1
  /\ UNCHANGED <<custody, case, mandates, request, sweep, overtaken>>

Crash ==
  /\ request' = [f \in Client |-> Idle]
  /\ sweep' = Resting
  /\ overtaken' = overtaken \cup UNION {request[f].names : f \in {g \in Client :
                                request[g].pc \notin {"idle", "decode"}}}
  /\ UNCHANGED <<now, custody, case, mandates>>

Upload == \E f \in Client :
  \/ \E k \in Key, i \in Image : UploadAsk(f, k, i)
  \/ UploadStore(f)
File == \E f \in Client :
  \/ \E c \in Case, kind \in {"report", "response"} :
       \E p \in Preimage[c] : Verify(f, c, kind, p)
  \/ StoreFiling(f) \/ OpenOrJoin(f) \/ Attach(f) \/ HoldImages(f) \/ HoldCase(f)
  \/ Fails(f)
Refuse == \E k \in Key, c \in Case : \E p \in Preimage[c] : RefuseMedia(k, c, p)
Proceed == \E c \in Case :
  \/ Decide(c) \/ Ban(c) \/ DismissOverdue(c) \/ FileClaim(c) \/ ResolveClaim(c)
  \/ RecordReferral(c)
Retention ==
  \/ SweepBegin \/ (\E s \in Holdable : DropHold(s)) \/ SweepUploads
  \/ ListMedia \/ (\E c \in Case : DeleteMedia(c))
  \/ ListRecords \/ (\E c \in Case : DeleteRecord(c))
  \/ ListSanctions \/ (\E c \in Case : DeleteSanction(c)) \/ SweepEnd

Next == Upload \/ File \/ Refuse \/ Proceed \/ Retention \/ Tick \/ Crash

Spec == Init /\ [][Next]_vars
-----------------------------------------------------------------------------
(* Properties.                                                             *)

\* A referral carries every image its case rests on, and an open case can still
\* show all of its images (delete_unheld, delete_own_unheld_evidence_blobs, the
\* upload sweep) - but for images that were overtaken.
MediaOnFile ==
  \A c \in Case : Referable(c) \/ case[c].stage = "open" =>
                   MediaOf(c) \subseteq Package(c) \cup overtaken

\* Once a filing on a preserving class is through, its case is held until a
\* referral is on the ledger, and nobody can view its images, whichever other
\* case shares them (place_preservation, released_holds, drop_hold).
DutyOnBooks ==
  \A c \in Preserving, d \in Digest :
    /\ <<d, c>> \in attached
    /\ d \notin overtaken
    /\ \A f \in Client : request[f].pc \in {"attached", "held"} => d \notin request[f].names
    => /\ hold[c] # None \/ c \in ledger
       /\ blob[d] # None => ~blob[d].viewable

\* No step deletes the bytes, the attachment or the record of anything under
\* a live hold, even on a list read before the hold was placed.
HeldKept ==
  [][/\ \A d \in Digest : blob[d] # None /\ blob'[d] = None =>
          /\ ~Preserved(d, now)
          /\ \A c \in Case : <<d, c>> \in attached => ~Preserved(c, now)
     /\ \A c \in Case : Preserved(c, now) =>
          /\ MediaOf(c) \subseteq {d \in Digest : <<d, c>> \in attached'}
          /\ case[c].record => case'[c].record]_vars

\* The verdicts outlive every mark they justify by the consented tail, and the
\* mandate outlives the record whose schedule is resolved from it
\* (delete_sanction_record) - but for a case opened at the last instant of
\* its consent.
TermsOutliveRecord ==
  \A c \in Case : case[c].stage = "decided" =>
    /\ ~case[c].verdicts =>
         /\ case[c].due + Terms(c).sanctionRecord <= now
         /\ case[c].term # None => /\ case[c].term # Permanent
                                   /\ case[c].term + Terms(c).sanctionRecord <= now
    /\ case[c].record \/ case[c].trail \/ case[c].verdicts =>
         \/ MandateOf[c] \in mandates
         \/ case[c].due >= ValidUntil[MandateOf[c]] + DecisionWindow

-----------------------------------------------------------------------------
(* The inductive invariant.                                                *)

\* What a request in flight may rely on.  It began today, so the case it is on
\* is not past its deadline; what it found on file is still there or on
\* record as overtaken; what it attached stays attached.
RequestInv ==
  \A f \in Client : LET r == request[f] IN
    /\ r.pc # "idle" => r.at = now
    /\ r.pc = "decode" => r.key \in Key
    /\ r.pc \notin {"idle", "decode"} =>
         r.case \in Case /\ (r.names # {} => TakesMedia(r.case))
    /\ r.pc \in {"verified", "stored", "joined"} =>
         \A d \in r.names : blob[d] # None \/ d \in overtaken
    /\ r.pc \in {"joined", "attached", "held"} =>
         case[r.case].stage # "absent" /\ now <= case[r.case].due
    /\ r.pc \in {"attached", "held"} =>
         /\ NeedsTerms(r.case) /\ r.names # {}
         /\ \A d \in r.names : <<d, r.case>> \in attached
    /\ r.pc = "held" =>
         \A d \in r.names \ overtaken : blob[d] # None => ~blob[d].viewable

\* An open case is not past its deadline, and all of it is kept.
OpenInv ==
  \A c \in Case :
    /\ case[c].stage = "open" =>
         now <= case[c].due /\ case[c].record /\ case[c].trail /\ case[c].verdicts
    /\ case[c].stage = "absent" =>
         ~case[c].record /\ ~case[c].trail /\ ~case[c].verdicts

\* What is attached is on file, unless it was overtaken.
AttachedInv ==
  \A d \in Digest, c \in Case : <<d, c>> \in attached => blob[d] # None \/ d \in overtaken

\* What a sweep may rely on of its lists: the holds it drops were discharged,
\* and a case it is to delete came under a hold only by a request of today.
SweepInv ==
  /\ sweep.pc # "idle" => sweep.at = now
  /\ referred \subseteq ledger
  /\ sweep.pc = "release" => sweep.todo \cap Case \subseteq ledger
  /\ sweep.pc \in {"record", "sanction"} => \A c \in sweep.todo :
       /\ c \in Case /\ case[c].stage = "decided"
       /\ Preserved(c, now) => now <= case[c].due
       /\ sweep.pc = "sanction" => case[c].term # Permanent

\* A mandate is dropped once its consent has run out; a case that can still
\* open under it opens at that very instant.  Verdicts go only by the terms.
TermsInv ==
  /\ \A c \in Case : case[c].stage = "decided" /\ ~case[c].verdicts => Terms(c) # None
  /\ \A m \in Mandate \ mandates : ValidUntil[m] <= now
  /\ \A c \in Case : case[c].record \/ case[c].trail \/ case[c].verdicts =>
       \/ MandateOf[c] \in mandates
       \/ case[c].due >= ValidUntil[MandateOf[c]] + DecisionWindow

\* A preserving case without a hold or a referral is one some filing is just
\* attaching to; a filing of another case does not excuse it.
DutyInv ==
  \A c \in Preserving, d \in Digest :
    /\ <<d, c>> \in attached
    /\ d \notin overtaken
    /\ \A f \in Client : request[f].pc \in {"attached", "held"} /\ request[f].case = c =>
         d \notin request[f].names
    => hold[c] # None \/ c \in ledger

IInv ==
  /\ TypeOK
  /\ RequestInv
  /\ OpenInv
  /\ AttachedInv
  /\ SweepInv
  /\ TermsInv
  /\ DutyInv
  /\ DutyOnBooks
  /\ TermsOutliveRecord
=============================================================================
