--------------------------- MODULE Evidence_proofs --------------------------
(***************************************************************************)
(* Theorems of Evidence for every value of its constants.                  *)
(***************************************************************************)
EXTENDS Evidence, TLAPS

-----------------------------------------------------------------------------
(* Types.                                                                  *)

\* A request that turns to its next step.
LEMMA RequestTurns ==
  ASSUME request \in [Client -> Request], NEW f \in Client, NEW new \in Request,
         request' = [request EXCEPT ![f] = new]
  PROVE  /\ request' \in [Client -> Request]
         /\ request'[f] = new
         /\ \A g \in Client : g # f => request'[g] = request[g]
  OBVIOUS

LEMMA RequestPhase ==
  ASSUME request \in [Client -> Request], NEW f \in Client,
         NEW pc \in {"decode", "verified", "stored", "joined", "attached", "held"},
         request' = [request EXCEPT ![f].pc = pc]
  PROVE  /\ request' \in [Client -> Request]
         /\ request'[f] = [request[f] EXCEPT !.pc = pc]
         /\ request'[f].pc = pc /\ request'[f].kind = request[f].kind
         /\ request'[f].key = request[f].key /\ request'[f].case = request[f].case
         /\ request'[f].names = request[f].names /\ request'[f].at = request[f].at
         /\ \A g \in Client : g # f => request'[g] = request[g]
<1>1. [request[f] EXCEPT !.pc = pc] \in Request
  BY DEF Request
<1>2. QED
  BY <1>1 DEF Request

LEMMA IdleTyped == Idle \in Request
  BY DEF Idle, Request

\* The schedule of a case is that of its terms, if there is one.
LEMMA Schedules ==
  ASSUME NEW c \in Case
  PROVE  /\ Terms(c) \in Schedule \cup {None}
         /\ ScheduleOf(c) \in Schedule \cup {None}
         /\ ScheduleOf(c) # None => ScheduleOf(c) = Terms(c)
  BY EvidenceAssumption DEF Terms, ScheduleOf

\* A period of preservation, where a filing with images is under way.
LEMMA Period ==
  ASSUME TypeOK, RequestInv, NEW f \in Client, request[f].pc \in {"attached", "held"}
  PROVE  /\ request[f].case \in Preserving
         /\ request[f].at \in Nat
         /\ Terms(request[f].case).preservation[request[f].case] \in Nat
<1>1. request[f].case \in Case /\ NeedsTerms(request[f].case) /\ TakesMedia(request[f].case)
  BY DEF RequestInv
<1>2. request[f].case \in Preserving /\ HasTerms(request[f].case)
  BY <1>1 DEF NeedsTerms, TakesMedia
<1>3. Terms(request[f].case) \in Schedule
  BY <1>1, <1>2, Schedules DEF HasTerms
<1>4. Terms(request[f].case).preservation[request[f].case] \in Nat
  BY <1>2, <1>3 DEF Schedule
<1>5. request[f].at \in Nat
  BY DEF TypeOK, Request
<1>6. QED
  BY <1>2, <1>4, <1>5

LEMMA InitTyped == Init => TypeOK
<1> SUFFICES ASSUME Init PROVE TypeOK
  OBVIOUS
<1>1. NoCase \in CaseRow
  BY DEF NoCase, CaseRow
<1>2. Resting \in Sweep
  BY DEF Resting, Sweep
<1>3. QED
  BY <1>1, <1>2, IdleTyped DEF Init, TypeOK

LEMMA DeleteTyped ==
  ASSUME TypeOK, NEW gone \in SUBSET Digest, Delete(gone)
  PROVE  blob' \in [Digest -> Blob \cup {None}] /\ overtaken' \subseteq Digest
  BY DEF Delete, TypeOK

LEMMA UploadTyped ==
  ASSUME TypeOK, RequestInv, Upload
  PROVE  TypeOK'
<1>1. ASSUME NEW f \in Client, NEW k \in Key, NEW i \in Image, UploadAsk(f, k, i)
      PROVE  TypeOK'
  <2>1. i.sha256 \in Digest
    BY <1>1 DEF UploadAsk, Digest
  <2>2. [Idle EXCEPT !.pc = "decode", !.key = k, !.names = {i.sha256}, !.at = now] \in Request
    BY <2>1 DEF Idle, Request, TypeOK
  <2>3. request' \in [Client -> Request]
    BY <1>1, <2>2 DEF UploadAsk, TypeOK
  <2>4. QED
    BY <1>1, <2>3 DEF UploadAsk, custody, TypeOK
<1>2. ASSUME NEW f \in Client, UploadStore(f) PROVE TypeOK'
  <2>1. PICK d \in request[f].names :
          blob' = IF ~RoomToPark(request[f].key, d) THEN blob
                  ELSE IF blob[d] # None
                       THEN [blob EXCEPT ![d].at = request[f].at]
                       ELSE [blob EXCEPT ![d] =
                               [at |-> request[f].at, by |-> request[f].key, viewable |-> TRUE]]
    BY <1>2 DEF UploadStore
  <2>2. d \in Digest /\ request[f].at \in Nat
    BY DEF TypeOK, Request
  <2>3. request[f].key \in Key
    BY <1>2 DEF UploadStore, RequestInv
  <2>4. [at |-> request[f].at, by |-> request[f].key, viewable |-> TRUE] \in Blob
    BY <2>2, <2>3 DEF Blob
  <2>5. blob[d] # None => [blob[d] EXCEPT !.at = request[f].at] \in Blob
    BY <2>2 DEF TypeOK, Blob
  <2>6. blob' \in [Digest -> Blob \cup {None}]
    BY <2>1, <2>2, <2>4, <2>5 DEF TypeOK
  <2>7. request' \in [Client -> Request]
    BY <1>2, IdleTyped DEF UploadStore, TypeOK
  <2>8. QED
    BY <1>2, <2>6, <2>7 DEF UploadStore, TypeOK
<1>3. QED
  BY <1>1, <1>2 DEF Upload

\* What a hold, once lengthened, holds.
LEMMA LaterTyped ==
  ASSUME TypeOK, NEW s \in Holdable, NEW release \in Nat
  PROVE  Later(s, release) \in Nat
  BY DEF Later, TypeOK

LEMMA SealedTyped ==
  ASSUME TypeOK, NEW f \in Client
  PROVE  /\ Sealed(f) \in [Digest -> Blob \cup {None}]
         /\ \A d \in Digest : blob[d] # None /\ d \in request[f].names =>
               Sealed(f)[d] \in Blob /\ ~Sealed(f)[d].viewable
         /\ \A d \in Digest : blob[d] = None \/ d \notin request[f].names =>
               Sealed(f)[d] = blob[d]
<1>1. ASSUME NEW d \in Digest, blob[d] # None
      PROVE  /\ [blob[d] EXCEPT !.viewable = FALSE] \in Blob
             /\ ~[blob[d] EXCEPT !.viewable = FALSE].viewable
  BY <1>1 DEF TypeOK, Blob
<1>2. QED
  BY <1>1 DEF Sealed, TypeOK

LEMMA FileTyped ==
  ASSUME TypeOK, RequestInv, File
  PROVE  TypeOK'
<1>1. ASSUME NEW f \in Client, NEW c \in Case, NEW kind \in {"report", "response"},
             NEW p \in Preimage[c], Verify(f, c, kind, p)
      PROVE  TypeOK'
  <2>1. Commits(p) \subseteq Digest
    BY EvidenceAssumption DEF Commits
  <2>2. [pc |-> "verified", kind |-> kind, key |-> None, case |-> c, names |-> Commits(p),
         at |-> now] \in Request
    BY <2>1 DEF Request, TypeOK
  <2>3. request' \in [Client -> Request]
    BY <1>1, <2>2 DEF Verify, TypeOK
  <2>4. QED
    BY <1>1, <2>3 DEF Verify, custody, TypeOK
<1>2. ASSUME NEW f \in Client, StoreFiling(f) PROVE TypeOK'
  <2>1. request' \in [Client -> Request]
    <3>1. PICK pc \in {"joined", "stored"} : request' = [request EXCEPT ![f].pc = pc]
      BY <1>2 DEF StoreFiling
    <3>2. QED
      BY <3>1, RequestPhase DEF TypeOK
  <2>2. \A d \in Digest : blob[d] # None => [blob[d] EXCEPT !.at = request[f].at] \in Blob
    BY DEF TypeOK, Blob, Request
  <2>3. blob' \in [Digest -> Blob \cup {None}]
    BY <1>2, <2>2 DEF StoreFiling, TypeOK
  <2>4. QED
    BY <1>2, <2>1, <2>3 DEF StoreFiling, TypeOK
<1>3. ASSUME NEW f \in Client, OpenOrJoin(f) PROVE TypeOK'
  <2>1. request' \in [Client -> Request]
    BY <1>3, RequestPhase DEF OpenOrJoin, TypeOK
  <2>2. [NoCase EXCEPT !.stage = "open", !.due = request[f].at + DecisionWindow,
                       !.record = TRUE, !.trail = TRUE, !.verdicts = TRUE] \in CaseRow
    <3>1. request[f].at + DecisionWindow \in Nat
      BY EvidenceAssumption DEF TypeOK, Request
    <3>2. QED
      BY <3>1 DEF NoCase, CaseRow
  <2>3. case' \in [Case -> CaseRow]
    BY <1>3, <2>2 DEF OpenOrJoin, TypeOK
  <2>4. QED
    BY <1>3, <2>1, <2>3 DEF OpenOrJoin, custody, TypeOK
<1>4. ASSUME NEW f \in Client, Attach(f) PROVE TypeOK'
  <2>1. [request[f] EXCEPT !.pc = "attached"] \in Request
    BY DEF TypeOK, Request
  <2>2. request' \in [Client -> Request]
    BY <1>4, <2>1, IdleTyped DEF Attach, TypeOK
  <2>3. request[f].case \in Case /\ request[f].names \subseteq Digest
    BY <1>4 DEF Attach, RequestInv, TypeOK, Request
  <2>4. attached' \subseteq Digest \X Case
    BY <1>4, <2>3 DEF Attach, TypeOK
  <2>5. QED
    BY <1>4, <2>2, <2>4 DEF Attach, TypeOK
<1>5. ASSUME NEW f \in Client, HoldImages(f) PROVE TypeOK'
  <2> DEFINE release == request[f].at + Terms(request[f].case).preservation[request[f].case]
  <2>1. release \in Nat
    BY <1>5, Period DEF HoldImages
  <2>2. hold' = [s \in Holdable |-> IF s \in request[f].names THEN Later(s, release) ELSE hold[s]]
    BY <1>5 DEF HoldImages
  <2> HIDE DEF release
  <2>3. hold' \in [Holdable -> Nat \cup {None}]
    BY <2>1, <2>2, LaterTyped DEF TypeOK
  <2>4. request' \in [Client -> Request]
    BY <1>5, RequestPhase DEF HoldImages, TypeOK
  <2>5. QED
    BY <1>5, <2>3, <2>4, SealedTyped DEF HoldImages, TypeOK
<1>6. ASSUME NEW f \in Client, HoldCase(f) PROVE TypeOK'
  <2> DEFINE release == request[f].at + Terms(request[f].case).preservation[request[f].case]
  <2>1. release \in Nat /\ request[f].case \in Holdable
    BY <1>6, Period, EvidenceAssumption DEF HoldCase, Holdable
  <2>2. hold' = [hold EXCEPT ![request[f].case] = Later(request[f].case, release)]
    BY <1>6 DEF HoldCase
  <2> HIDE DEF release
  <2>3. hold' \in [Holdable -> Nat \cup {None}]
    BY <2>1, <2>2, LaterTyped DEF TypeOK
  <2>4. request' \in [Client -> Request]
    BY <1>6, IdleTyped DEF HoldCase, TypeOK
  <2>5. QED
    BY <1>6, <2>3, <2>4 DEF HoldCase, TypeOK
<1>7. ASSUME NEW f \in Client, Fails(f) PROVE TypeOK'
  BY <1>7, IdleTyped DEF Fails, custody, TypeOK
<1>8. QED
  BY <1>1, <1>2, <1>3, <1>4, <1>5, <1>6, <1>7 DEF File

LEMMA ProceedTyped ==
  ASSUME TypeOK, NEW c \in Case,
         \/ Decide(c) \/ Ban(c) \/ DismissOverdue(c) \/ FileClaim(c) \/ ResolveClaim(c)
         \/ RecordReferral(c)
  PROVE  TypeOK'
<1>1. /\ [case[c] EXCEPT !.stage = "decided"] \in CaseRow
      /\ \A b \in BOOLEAN : [case[c] EXCEPT !.pending = b] \in CaseRow
  BY DEF TypeOK, CaseRow
<1>2. CASE Decide(c) \/ DismissOverdue(c) \/ FileClaim(c) \/ ResolveClaim(c)
  <2>1. case' \in [Case -> CaseRow]
    BY <1>1, <1>2 DEF Decide, DismissOverdue, FileClaim, ResolveClaim, TypeOK
  <2>2. QED
    BY <1>2, <2>1 DEF Decide, DismissOverdue, FileClaim, ResolveClaim, custody, TypeOK
<1>3. CASE Ban(c)
  <2>1. now + AppealWindow \in Nat /\ now + BanTerm \in Nat
    BY EvidenceAssumption DEF TypeOK
  <2>2. \A t \in {now + BanTerm, Permanent} :
          [case[c] EXCEPT !.stage = "decided", !.term = t, !.appeal = now + AppealWindow]
            \in CaseRow
    BY <2>1 DEF TypeOK, CaseRow
  <2>3. case' \in [Case -> CaseRow]
    BY <1>3, <2>2 DEF Ban, TypeOK
  <2>4. QED
    BY <1>3, <2>3 DEF Ban, custody, TypeOK
<1>4. CASE RecordReferral(c)
  BY <1>4 DEF RecordReferral, TypeOK
<1>5. QED
  BY <1>2, <1>3, <1>4

\* The sweep's own record.
LEMMA SweepTurns ==
  ASSUME TypeOK, NEW todo \in SUBSET Holdable,
         NEW pc \in {"idle", "release", "uploads", "media", "record", "sanction"}
  PROVE  /\ [sweep EXCEPT !.pc = pc] \in Sweep
         /\ [sweep EXCEPT !.pc = pc, !.todo = todo] \in Sweep
         /\ [sweep EXCEPT !.todo = todo] \in Sweep
         /\ [pc |-> pc, at |-> now, todo |-> todo] \in Sweep
         /\ \A s : sweep.todo \ {s} \in SUBSET Holdable
  BY DEF TypeOK, Sweep

LEMMA RetentionTyped ==
  ASSUME TypeOK, Retention
  PROVE  TypeOK'
<1>1. CASE SweepBegin \/ ListMedia \/ ListRecords \/ ListSanctions \/ SweepEnd
  <2>1. /\ Released(now) \in SUBSET Holdable
        /\ {c \in Case : Eligible(c) /\ MediaOf(c) # {}} \in SUBSET Holdable
        /\ {c \in Case : Eligible(c)} \in SUBSET Holdable
        /\ {c \in Case : Eligible(c) /\ case[c].verdicts /\ case[c].term # Permanent}
              \in SUBSET Holdable
    BY DEF Released, Holdable
  <2>2. Resting \in Sweep
    BY DEF Resting, Sweep
  <2>3. sweep' \in Sweep
    BY <1>1, <2>1, <2>2, SweepTurns
       DEF SweepBegin, ListMedia, ListRecords, ListSanctions, SweepEnd
  <2>4. QED
    BY <1>1, <2>3 DEF SweepBegin, ListMedia, ListRecords, ListSanctions, SweepEnd, custody, TypeOK
<1>2. ASSUME NEW s \in Holdable, DropHold(s) PROVE TypeOK'
  <2>1. sweep' \in Sweep
    BY <1>2, SweepTurns DEF DropHold
  <2>2. QED
    BY <1>2, <2>1 DEF DropHold, TypeOK
<1>3. CASE SweepUploads
  <2>1. blob' \in [Digest -> Blob \cup {None}] /\ overtaken' \subseteq Digest
    <3>1. {d \in Expired(sweep.at) : Unheld(d, sweep.at)} \in SUBSET Digest
      BY DEF Expired
    <3>2. QED
      BY <1>3, <3>1, DeleteTyped DEF SweepUploads
  <2>2. sweep' \in Sweep
    BY <1>3, SweepTurns DEF SweepUploads
  <2>3. QED
    BY <1>3, <2>1, <2>2 DEF SweepUploads, TypeOK
<1>4. ASSUME NEW c \in Case, DeleteMedia(c) PROVE TypeOK'
  <2>1. blob' \in [Digest -> Blob \cup {None}] /\ overtaken' \subseteq Digest
    <3>1. {d \in MediaOf(c) : /\ \A o \in Case \ {c} : <<d, o>> \notin attached
                              /\ ~Preserved(d, sweep.at)} \in SUBSET Digest
      BY DEF MediaOf
    <3>2. CASE MediaDue(c)
      BY <1>4, <3>1, <3>2, DeleteTyped DEF DeleteMedia
    <3>3. CASE ~MediaDue(c)
      BY <1>4, <3>3 DEF DeleteMedia, TypeOK
    <3>4. QED
      BY <3>2, <3>3
  <2>2. sweep' \in Sweep
    BY <1>4, SweepTurns DEF DeleteMedia
  <2>3. attached' \subseteq Digest \X Case
    BY <1>4 DEF DeleteMedia, TypeOK
  <2>4. QED
    BY <1>4, <2>1, <2>2, <2>3 DEF DeleteMedia, TypeOK
<1>5. ASSUME NEW c \in Case, DeleteRecord(c) PROVE TypeOK'
  <2>1. sweep' \in Sweep
    BY <1>5, SweepTurns DEF DeleteRecord
  <2>2. \A b, t : b \in BOOLEAN /\ t \in BOOLEAN =>
          [case[c] EXCEPT !.record = b, !.trail = t] \in CaseRow
    BY DEF TypeOK, CaseRow
  <2>3. case[c].record \in BOOLEAN /\ case[c].trail \in BOOLEAN
    BY DEF TypeOK, CaseRow
  <2>4. CASE ScheduleOf(c) = None
    BY <1>5, <2>1, <2>4 DEF DeleteRecord, custody, TypeOK
  <2>5. CASE ScheduleOf(c) # None
    <3> DEFINE b == case[c].record /\ ~TailElapsed(Anchor(c), ScheduleOf(c).caseRecord)
               t == case[c].trail /\ ~TailElapsed(Anchor(c), ScheduleOf(c).auditRecord)
               new == [case[c] EXCEPT !.record = b, !.trail = t]
    <3>1. case' = [case EXCEPT ![c] = new]
      BY <1>5, <2>5 DEF DeleteRecord
    <3>2. b \in BOOLEAN /\ t \in BOOLEAN
      OBVIOUS
    <3> HIDE DEF b, t
    <3>3. new \in CaseRow
      BY <2>2, <3>2
    <3> HIDE DEF new
    <3>4. case' \in [Case -> CaseRow]
      BY <3>1, <3>3 DEF TypeOK
    <3>5. QED
      BY <1>5, <2>1, <3>4 DEF DeleteRecord, custody, TypeOK
  <2>6. QED
    BY <2>4, <2>5
<1>6. ASSUME NEW c \in Case, DeleteSanction(c) PROVE TypeOK'
  <2>1. sweep' \in Sweep
    BY <1>6, SweepTurns DEF DeleteSanction
  <2>2. [case[c] EXCEPT !.record = FALSE, !.trail = FALSE, !.verdicts = FALSE] \in CaseRow
    BY DEF TypeOK, CaseRow
  <2>3. case' \in [Case -> CaseRow]
    BY <1>6, <2>2 DEF DeleteSanction, TypeOK
  <2>4. mandates' \subseteq Mandate
    BY <1>6 DEF DeleteSanction, TypeOK
  <2>5. QED
    BY <1>6, <2>1, <2>3, <2>4 DEF DeleteSanction, custody, TypeOK
<1>7. QED
  BY <1>1, <1>2, <1>3, <1>4, <1>5, <1>6 DEF Retention

LEMMA TypingStep ==
  ASSUME TypeOK, RequestInv, [Next]_vars
  PROVE  TypeOK'
<1>1. CASE Refuse
  <2>0. PICK k \in Key, c \in Case : \E p \in Preimage[c] : RefuseMedia(k, c, p)
    BY <1>1 DEF Refuse
  <2>1. PICK p \in Preimage[c] : RefuseMedia(k, c, p)
    BY <2>0
  <2>2. Commits(p) \subseteq Digest
    BY EvidenceAssumption DEF Commits
  <2>3. blob' \in [Digest -> Blob \cup {None}] /\ overtaken' \subseteq Digest
    <3>1. {d \in Commits(p) : blob[d] # None /\ blob[d].by = k /\ Unheld(d, now)}
            \in SUBSET Digest
      BY <2>2
    <3>2. QED
      BY <2>1, <3>1, DeleteTyped DEF RefuseMedia
  <2>4. QED
    BY <2>1, <2>3 DEF RefuseMedia, TypeOK
<1>2. CASE Proceed
  BY <1>2, ProceedTyped DEF Proceed
<1>3. CASE Tick
  BY <1>3 DEF Tick, custody, TypeOK
<1>4. CASE Crash
  <2>1. Resting \in Sweep
    BY DEF Resting, Sweep
  <2>2. request' \in [Client -> Request]
    BY <1>4, IdleTyped DEF Crash
  <2>3. overtaken' \subseteq Digest
    <3>1. \A f \in Client : request[f].names \subseteq Digest
      BY DEF TypeOK, Request
    <3>2. QED
      BY <1>4, <3>1 DEF Crash, TypeOK
  <2>4. QED
    BY <1>4, <2>1, <2>2, <2>3 DEF Crash, custody, TypeOK
<1>5. CASE UNCHANGED vars
  BY <1>5 DEF vars, custody, TypeOK
<1>6. QED
  BY <1>1, <1>2, <1>3, <1>4, <1>5, UploadTyped, FileTyped, RetentionTyped DEF Next

-----------------------------------------------------------------------------
(* What no step undoes.                                                    *)

\* A case stays and keeps its deadline; decided, it keeps its ruling; what is
\* deleted of it stays deleted.
CaseStable ==
  /\ now' \in {now, now + 1}
  /\ \A c \in Case :
       /\ case[c].stage # "absent" =>
            /\ case'[c].stage # "absent" /\ case'[c].due = case[c].due
            /\ case'[c].record => case[c].record
            /\ case'[c].trail => case[c].trail
            /\ case'[c].verdicts => case[c].verdicts
       /\ case[c].stage = "decided" =>
            case'[c].stage = "decided" /\ case'[c].term = case[c].term
  /\ overtaken \subseteq overtaken'
  /\ ledger \subseteq ledger'
  /\ mandates' \subseteq mandates

LEMMA CasesStay == ASSUME TypeOK, [Next]_vars PROVE CaseStable
<1> USE DEF CaseStable, TypeOK
<1>1. ASSUME UNCHANGED <<now, case, mandates>>, overtaken \subseteq overtaken',
             ledger \subseteq ledger'
      PROVE CaseStable
  BY <1>1
<1>2. CASE Upload
  BY <1>1, <1>2 DEF Upload, UploadAsk, UploadStore, custody
<1>3. CASE File
  <2>1. ASSUME NEW f \in Client, OpenOrJoin(f) PROVE CaseStable
    BY <2>1 DEF OpenOrJoin, custody
  <2>2. QED
    BY <1>1, <1>3, <2>1
       DEF File, Verify, StoreFiling, Attach, HoldImages, HoldCase, Fails, custody
<1>4. CASE Refuse
  BY <1>1, <1>4 DEF Refuse, RefuseMedia, Delete
<1>5. CASE Proceed
  <2>1. PICK c \in Case : \/ Decide(c) \/ Ban(c) \/ DismissOverdue(c) \/ FileClaim(c)
                          \/ ResolveClaim(c) \/ RecordReferral(c)
    BY <1>5 DEF Proceed
  <2>2. case[c] \in CaseRow
    OBVIOUS
  <2>3. CASE Decide(c) \/ DismissOverdue(c) \/ FileClaim(c) \/ ResolveClaim(c)
    BY <2>2, <2>3 DEF Decide, DismissOverdue, FileClaim, ResolveClaim, custody, CaseRow
  <2>4. CASE Ban(c)
    BY <2>2, <2>4 DEF Ban, custody, CaseRow
  <2>5. CASE RecordReferral(c)
    BY <1>1, <2>5 DEF RecordReferral
  <2>6. QED
    BY <2>1, <2>3, <2>4, <2>5
<1>6. CASE Retention
  <2>1. CASE SweepBegin \/ ListMedia \/ ListRecords \/ ListSanctions \/ SweepEnd
    BY <1>1, <2>1 DEF SweepBegin, ListMedia, ListRecords, ListSanctions, SweepEnd, custody
  <2>2. ASSUME NEW h \in Holdable, DropHold(h) PROVE CaseStable
    BY <1>1, <2>2 DEF DropHold
  <2>3. CASE SweepUploads
    BY <1>1, <2>3 DEF SweepUploads, Delete
  <2>4. ASSUME NEW c \in Case, DeleteMedia(c) PROVE CaseStable
    BY <1>1, <2>4 DEF DeleteMedia, Delete
  <2>5. ASSUME NEW c \in Case, DeleteRecord(c) PROVE CaseStable
    <3> DEFINE b == case[c].record /\ ~TailElapsed(Anchor(c), ScheduleOf(c).caseRecord)
               t == case[c].trail /\ ~TailElapsed(Anchor(c), ScheduleOf(c).auditRecord)
               new == [case[c] EXCEPT !.record = b, !.trail = t]
    <3>1. case' = case \/ case' = [case EXCEPT ![c] = new]
      BY <2>5 DEF DeleteRecord
    <3>2. /\ new.stage = case[c].stage /\ new.due = case[c].due /\ new.term = case[c].term
          /\ (new.record => case[c].record) /\ (new.trail => case[c].trail)
          /\ new.verdicts = case[c].verdicts
      <4>1. case[c] \in CaseRow
        OBVIOUS
      <4>2. new.record = b /\ new.trail = t
        BY <4>1 DEF CaseRow
      <4>3. QED
        BY <4>1, <4>2 DEF CaseRow
    <3> HIDE DEF new
    <3>3. CASE case' = case
      BY <1>1, <2>5, <3>3 DEF DeleteRecord, custody
    <3>4. CASE case' = [case EXCEPT ![c] = new]
      <4>1. \A o \in Case : case'[o] = IF o = c THEN new ELSE case[o]
        BY <3>4
      <4>2. UNCHANGED <<now, custody, mandates, overtaken>>
        BY <2>5 DEF DeleteRecord
      <4>3. QED
        BY <3>2, <4>1, <4>2 DEF custody
    <3>5. QED
      BY <3>1, <3>3, <3>4
  <2>6. ASSUME NEW c \in Case, DeleteSanction(c) PROVE CaseStable
    <3> DEFINE new == [case[c] EXCEPT !.record = FALSE, !.trail = FALSE, !.verdicts = FALSE]
    <3>1. /\ case' = case \/ case' = [case EXCEPT ![c] = new]
          /\ UNCHANGED <<now, custody, overtaken>> /\ mandates' \subseteq mandates
      BY <2>6 DEF DeleteSanction
    <3>2. /\ new.stage = case[c].stage /\ new.due = case[c].due /\ new.term = case[c].term
          /\ ~new.record /\ ~new.trail /\ ~new.verdicts
      BY DEF CaseRow
    <3> HIDE DEF new
    <3>3. CASE case' = case
      BY <3>1, <3>3 DEF custody
    <3>4. CASE case' = [case EXCEPT ![c] = new]
      <4>1. \A o \in Case : case'[o] = IF o = c THEN new ELSE case[o]
        BY <3>4
      <4>2. QED
        BY <3>1, <3>2, <4>1 DEF custody
    <3>5. QED
      BY <3>1, <3>3, <3>4
  <2>7. QED
    BY <1>6, <2>1, <2>2, <2>3, <2>4, <2>5, <2>6 DEF Retention
<1>7. CASE Tick
  BY <1>7 DEF Tick, custody
<1>8. CASE Crash
  BY <1>1, <1>8 DEF Crash, custody
<1>9. CASE UNCHANGED vars
  BY <1>1, <1>9 DEF vars, custody
<1>10. QED
  BY <1>2, <1>3, <1>4, <1>5, <1>6, <1>7, <1>8, <1>9 DEF Next

\* An image goes only if nothing is owed over it: not under a hold, detached
\* from whatever rested on it, and recorded as overtaken if a filing relied on
\* it.  It is detached only from a case past its deadline and under no hold,
\* and a derivative once dropped does not come back while the bytes stay.
MediaStable ==
  /\ \A d \in Digest : blob[d] # None /\ blob'[d] = None =>
       /\ ~Preserved(d, now)
       /\ \A c \in Case : <<d, c>> \in attached =>
            <<d, c>> \notin attached' /\ ~Preserved(c, now)
       /\ d \in Relied => d \in overtaken'
  /\ \A d \in Digest : blob[d] # None /\ blob'[d] # None =>
       blob[d].viewable \/ ~blob'[d].viewable
  /\ \A d \in Digest, c \in Case : <<d, c>> \in attached /\ <<d, c>> \notin attached' =>
       case[c].due < now /\ ~Preserved(c, now)

LEMMA Deleting ==
  ASSUME TypeOK, NEW gone, Delete(gone)
  PROVE  \A d \in Digest :
           /\ blob[d] # None /\ blob'[d] = None =>
                d \in gone /\ (d \in Relied => d \in overtaken')
           /\ blob'[d] # None => blob'[d] = blob[d]
  BY DEF Delete

\* The bytes of an unheld image rest on nothing.
LEMMA UnheldGoes ==
  ASSUME TypeOK, NEW gone, \A d \in gone \cap Digest : Unheld(d, now), Delete(gone),
         UNCHANGED attached
  PROVE  MediaStable
<1>1. \A d \in gone \cap Digest : ~Preserved(d, now) /\ \A c \in Case : <<d, c>> \notin attached
  BY DEF Unheld
<1>2. QED
  BY <1>1, Deleting DEF MediaStable

\* A case whose media is due is past its deadline.
LEMMA DueAfter ==
  ASSUME TypeOK, SweepInv, NEW c \in Case, sweep.pc # "idle", MediaDue(c)
  PROVE  case[c].due < now /\ ~Preserved(c, now)
<1>1. sweep.at = now
  BY DEF SweepInv
<1>2. ScheduleOf(c) \in Schedule
  BY Schedules DEF MediaDue
<1>3. ScheduleOf(c).caseMedia \in Nat \ {0}
  BY <1>2 DEF Schedule
<1>4. now >= Anchor(c) + ScheduleOf(c).caseMedia
  BY <1>1 DEF MediaDue, TailElapsed
<1>5. case[c].due \in Nat /\ case[c].appeal \in Nat /\ now \in Nat
  BY DEF TypeOK, CaseRow
<1>6. Anchor(c) \in Nat /\ case[c].due <= Anchor(c)
  BY <1>5 DEF Anchor
<1>7. QED
  BY <1>1, <1>3, <1>4, <1>5, <1>6 DEF MediaDue

LEMMA MediaStays == ASSUME TypeOK, RequestInv, SweepInv, [Next]_vars PROVE MediaStable
<1>1. ASSUME UNCHANGED blob, attached \subseteq attached' PROVE MediaStable
  BY <1>1 DEF MediaStable
<1>2. CASE Upload
  <2>1. ASSUME NEW f \in Client, UploadStore(f) PROVE MediaStable
    <3>1. PICK d \in request[f].names :
            blob' = IF ~RoomToPark(request[f].key, d) THEN blob
                    ELSE IF blob[d] # None
                         THEN [blob EXCEPT ![d].at = request[f].at]
                         ELSE [blob EXCEPT ![d] =
                                 [at |-> request[f].at, by |-> request[f].key, viewable |-> TRUE]]
      BY <2>1 DEF UploadStore
    <3>2. \A e \in Digest : blob[e] # None =>
            blob'[e] # None /\ blob'[e].viewable = blob[e].viewable
      <4>1. \/ /\ [blob[d] EXCEPT !.at = request[f].at].viewable = blob[d].viewable
               /\ [blob[d] EXCEPT !.at = request[f].at] # None
            \/ blob[d] = None
        <5>1. blob[d] # None => [blob[d] EXCEPT !.at = request[f].at] \in Blob
          BY DEF TypeOK, Request, Blob
        <5>2. QED
          BY <5>1, EvidenceAssumption DEF TypeOK, Blob, Request
      <4>2. d \in Digest
        BY DEF TypeOK, Request
      <4>3. QED
        BY <3>1, <4>1, <4>2 DEF TypeOK
    <3>3. QED
      BY <2>1, <3>2 DEF UploadStore, MediaStable
  <2>2. QED
    BY <1>1, <1>2, <2>1 DEF Upload, UploadAsk, custody
<1>3. CASE File
  <2>1. ASSUME NEW f \in Client, StoreFiling(f) PROVE MediaStable
    <3>1. \A d \in Digest : blob[d] # None =>
            /\ [blob[d] EXCEPT !.at = request[f].at] \in Blob
            /\ [blob[d] EXCEPT !.at = request[f].at].viewable = blob[d].viewable
      BY DEF TypeOK, Request, Blob
    <3>2. \A d \in Digest : blob[d] # None =>
            blob'[d] # None /\ blob'[d].viewable = blob[d].viewable
      BY <2>1, <3>1, EvidenceAssumption DEF StoreFiling
    <3>3. QED
      BY <2>1, <3>2 DEF StoreFiling, MediaStable
  <2>2. ASSUME NEW f \in Client, HoldImages(f) PROVE MediaStable
    BY <2>2, SealedTyped, EvidenceAssumption DEF HoldImages, MediaStable
  <2>3. QED
    BY <1>1, <1>3, <2>1, <2>2
       DEF File, Verify, OpenOrJoin, Attach, HoldCase, Fails, custody
<1>4. CASE Refuse
  <2>1. PICK k \in Key, c \in Case : \E p \in Preimage[c] : RefuseMedia(k, c, p)
    BY <1>4 DEF Refuse
  <2>2. PICK p \in Preimage[c] : RefuseMedia(k, c, p)
    BY <2>1
  <2>3. QED
    BY <2>2, UnheldGoes DEF RefuseMedia
<1>5. CASE Proceed
  BY <1>1, <1>5
     DEF Proceed, Decide, Ban, DismissOverdue, FileClaim, ResolveClaim, RecordReferral, custody
<1>6. CASE Retention
  <2>1. CASE SweepUploads
    <3>1. sweep.at = now
      BY <2>1 DEF SweepUploads, SweepInv
    <3>2. QED
      BY <2>1, <3>1, UnheldGoes DEF SweepUploads
  <2>2. ASSUME NEW c \in Case, DeleteMedia(c) PROVE MediaStable
    <3>1. CASE ~MediaDue(c)
      BY <1>1, <2>2, <3>1 DEF DeleteMedia
    <3>2. CASE MediaDue(c)
      <4> DEFINE gone == {d \in MediaOf(c) : /\ \A o \in Case \ {c} : <<d, o>> \notin attached
                                             /\ ~Preserved(d, sweep.at)}
      <4>1. attached' = attached \ (Digest \X {c}) /\ Delete(gone) /\ sweep.pc = "media"
        BY <2>2, <3>2 DEF DeleteMedia
      <4>2. case[c].due < now /\ ~Preserved(c, now) /\ sweep.at = now
        BY <3>2, <4>1, DueAfter DEF SweepInv
      <4>3. \A d \in gone : ~Preserved(d, now) /\ \A o \in Case \ {c} : <<d, o>> \notin attached
        BY <4>2
      <4> HIDE DEF gone
      <4>4. QED
        BY <4>1, <4>2, <4>3, Deleting DEF MediaStable
    <3>3. QED
      BY <3>1, <3>2
  <2>3. QED
    BY <1>1, <1>6, <2>1, <2>2
       DEF Retention, SweepBegin, DropHold, ListMedia, ListRecords, DeleteRecord,
           ListSanctions, DeleteSanction, SweepEnd, custody
<1>7. CASE Tick \/ Crash \/ UNCHANGED vars
  BY <1>1, <1>7 DEF Tick, Crash, vars, custody
<1>8. QED
  BY <1>2, <1>3, <1>4, <1>5, <1>6, <1>7 DEF Next

-----------------------------------------------------------------------------
(* Open cases.                                                             *)

LEMMA OpenStep ==
  ASSUME TypeOK, RequestInv, SweepInv, OpenInv, [Next]_vars PROVE OpenInv'
<1> DEFINE Kept(c) ==
      /\ case[c].stage = "open" =>
           now <= case[c].due /\ case[c].record /\ case[c].trail /\ case[c].verdicts
      /\ case[c].stage = "absent" =>
           ~case[c].record /\ ~case[c].trail /\ ~case[c].verdicts
<1>1. \A c \in Case : Kept(c)
  BY DEF OpenInv
<1>2. SUFFICES ASSUME NEW c \in Case PROVE Kept(c)'
  BY DEF OpenInv
<1>3. case[c] \in CaseRow /\ now \in Nat
  BY DEF TypeOK
<1>4. ASSUME UNCHANGED now, case'[c] = case[c] PROVE Kept(c)'
  BY <1>1, <1>4
<1>5. ASSUME UNCHANGED now, case'[c].stage = "decided" PROVE Kept(c)'
  BY <1>5
<1>6. CASE Upload
  BY <1>4, <1>6 DEF Upload, UploadAsk, UploadStore
<1>7. CASE File
  <2>1. ASSUME NEW f \in Client, OpenOrJoin(f) PROVE Kept(c)'
    <3> DEFINE new == [NoCase EXCEPT !.stage = "open", !.due = request[f].at + DecisionWindow,
                                     !.record = TRUE, !.trail = TRUE, !.verdicts = TRUE]
    <3>1. CASE case' = case
      BY <1>4, <2>1, <3>1 DEF OpenOrJoin
    <3>2. CASE case' = [case EXCEPT ![request[f].case] = new]
      <4>1. new.stage = "open" /\ new.due = request[f].at + DecisionWindow
            /\ new.record /\ new.trail /\ new.verdicts
        BY DEF NoCase
      <4>2. request[f].at = now
        BY <2>1 DEF OpenOrJoin, RequestInv
      <4>3. now <= now + DecisionWindow
        BY <1>3, EvidenceAssumption
      <4>4. UNCHANGED now
        BY <2>1 DEF OpenOrJoin
      <4> HIDE DEF new
      <4>5. case'[c] = case[c] \/ case'[c] = new
        BY <3>2 DEF TypeOK
      <4>6. QED
        BY <1>4, <4>1, <4>2, <4>3, <4>4, <4>5
    <3>3. QED
      BY <2>1, <3>1, <3>2 DEF OpenOrJoin
  <2>2. QED
    BY <1>4, <1>7, <2>1 DEF File, Verify, StoreFiling, Attach, HoldImages, HoldCase, Fails
<1>8. CASE Refuse
  BY <1>4, <1>8 DEF Refuse, RefuseMedia
<1>9. CASE Proceed
  <2>1. PICK o \in Case : \/ Decide(o) \/ Ban(o) \/ DismissOverdue(o) \/ FileClaim(o)
                          \/ ResolveClaim(o) \/ RecordReferral(o)
    BY <1>9 DEF Proceed
  <2>2. CASE Decide(o) \/ Ban(o) \/ DismissOverdue(o)
    <3>1. UNCHANGED now /\ (c # o => case'[c] = case[c])
      BY <2>2 DEF Decide, Ban, DismissOverdue, TypeOK
    <3>2. c = o => case'[c].stage = "decided"
      <4>1. CASE Decide(o) \/ DismissOverdue(o)
        BY <1>3, <4>1 DEF Decide, DismissOverdue, TypeOK, CaseRow
      <4>2. CASE Ban(o)
        <5>1. PICK t \in {now + BanTerm, Permanent} :
                case' = [case EXCEPT ![o] =
                  [@ EXCEPT !.stage = "decided", !.term = t, !.appeal = now + AppealWindow]]
          BY <4>2 DEF Ban
        <5>2. QED
          BY <1>3, <5>1 DEF TypeOK, CaseRow
      <4>3. QED
        BY <2>2, <4>1, <4>2
    <3>3. QED
      BY <1>4, <1>5, <3>1, <3>2
  <2>3. CASE FileClaim(o) \/ ResolveClaim(o) \/ RecordReferral(o)
    <3>1. /\ UNCHANGED now /\ case'[c].stage = case[c].stage /\ case'[c].due = case[c].due
          /\ case'[c].record = case[c].record /\ case'[c].trail = case[c].trail
          /\ case'[c].verdicts = case[c].verdicts
      BY <1>3, <2>3 DEF FileClaim, ResolveClaim, RecordReferral, TypeOK, CaseRow
    <3>2. QED
      BY <1>1, <3>1
  <2>4. QED
    BY <2>1, <2>2, <2>3
<1>10. CASE Retention
  <2>1. ASSUME NEW o \in Case, DeleteRecord(o) \/ DeleteSanction(o) PROVE Kept(c)'
    <3>1. case[o].stage = "decided"
      BY <2>1 DEF DeleteRecord, DeleteSanction, SweepInv
    <3>2. case'[o].stage = "decided"
      BY <3>1, CasesStay DEF CaseStable
    <3>3. UNCHANGED now /\ (c # o => case'[c] = case[c])
      BY <2>1 DEF DeleteRecord, DeleteSanction, TypeOK
    <3>4. QED
      BY <1>4, <1>5, <3>2, <3>3
  <2>2. QED
    BY <1>4, <1>10, <2>1
       DEF Retention, SweepBegin, DropHold, SweepUploads, ListMedia, DeleteMedia, ListRecords,
           ListSanctions, SweepEnd
<1>11. CASE Tick
  <2>1. case' = case /\ now' = now + 1 /\ (case[c].stage = "open" => now < case[c].due)
    BY <1>11 DEF Tick
  <2>2. case[c].due \in Nat
    BY <1>3 DEF CaseRow
  <2>3. case[c].stage = "open" => now' <= case'[c].due
    BY <1>3, <2>1, <2>2
  <2>4. QED
    BY <1>1, <2>1, <2>3
<1>12. CASE Crash \/ UNCHANGED vars
  BY <1>4, <1>12 DEF Crash, vars
<1>13. QED
  BY <1>6, <1>7, <1>8, <1>9, <1>10, <1>11, <1>12 DEF Next

-----------------------------------------------------------------------------
(* Requests in flight.                                                     *)

\* RequestInv, request by request.
Fit(f) ==
  /\ request[f].pc # "idle" => request[f].at = now
  /\ request[f].pc = "decode" => request[f].key \in Key
  /\ request[f].pc \notin {"idle", "decode"} =>
       request[f].case \in Case /\ (request[f].names # {} => TakesMedia(request[f].case))
  /\ request[f].pc \in {"verified", "stored", "joined"} =>
       \A d \in request[f].names : blob[d] # None \/ d \in overtaken
  /\ request[f].pc \in {"joined", "attached", "held"} =>
       case[request[f].case].stage # "absent" /\ now <= case[request[f].case].due
  /\ request[f].pc \in {"attached", "held"} =>
       /\ NeedsTerms(request[f].case) /\ request[f].names # {}
       /\ \A d \in request[f].names : <<d, request[f].case>> \in attached
  /\ request[f].pc = "held" =>
       \A d \in request[f].names \ overtaken : blob[d] # None => ~blob[d].viewable

LEMMA AllFit == RequestInv <=> \A f \in Client : Fit(f)
  BY DEF RequestInv, Fit

\* The steps of others leave a request what it relies on.
LEMMA StaysFit ==
  ASSUME TypeOK, RequestInv, AttachedInv, CaseStable, MediaStable, NEW f \in Client,
         request'[f] = request[f], request[f].pc # "idle" => now' = now
  PROVE  Fit(f)'
<1>1. Fit(f)
  BY AllFit
<1>2. request[f].names \subseteq Digest
  BY DEF TypeOK, Request
<1>3. CASE request[f].pc \in {"idle", "decode"}
  BY <1>1, <1>3 DEF Fit
<1>4. CASE request[f].pc \in {"verified", "stored", "joined"}
  <2>1. request[f].names \subseteq Relied
    BY <1>4 DEF Relied
  <2>2. \A d \in request[f].names : blob'[d] # None \/ d \in overtaken'
    BY <1>1, <1>2, <1>4, <2>1 DEF Fit, MediaStable, CaseStable
  <2>3. request[f].pc = "joined" =>
          case'[request[f].case].stage # "absent" /\ now' <= case'[request[f].case].due
    BY <1>1, <1>4 DEF Fit, CaseStable
  <2>4. QED
    BY <1>1, <1>4, <2>2, <2>3 DEF Fit, TakesMedia
<1>5. CASE request[f].pc \in {"attached", "held"}
  <2>1. PICK c \in Case : c = request[f].case
    BY <1>1, <1>5 DEF Fit
  <2>2. case'[c].stage # "absent" /\ now' <= case'[c].due
    BY <1>1, <1>5, <2>1 DEF Fit, CaseStable
  <2>3. \A d \in request[f].names : <<d, c>> \in attached'
    <3>1. now <= case[c].due /\ case[c].due \in Nat /\ now \in Nat
      BY <1>1, <1>5, <2>1 DEF Fit, TypeOK, CaseRow
    <3>2. ~(case[c].due < now)
      BY <3>1
    <3>3. QED
      BY <1>1, <1>2, <1>5, <2>1, <3>2 DEF Fit, MediaStable
  <2>4. request[f].pc = "held" =>
          \A d \in request[f].names \ overtaken' : blob'[d] # None => ~blob'[d].viewable
    <3> SUFFICES ASSUME request[f].pc = "held", NEW d \in request[f].names \ overtaken',
                        blob'[d] # None
                 PROVE  ~blob'[d].viewable
      OBVIOUS
    <3>1. d \notin overtaken /\ d \in Digest
      BY <1>2 DEF CaseStable
    <3>2. blob[d] # None
      BY <1>1, <1>5, <2>1, <3>1 DEF Fit, AttachedInv
    <3>3. ~blob[d].viewable
      BY <1>1, <3>1, <3>2 DEF Fit
    <3>4. QED
      BY <3>1, <3>2, <3>3 DEF MediaStable
  <2>5. QED
    BY <1>1, <1>5, <2>1, <2>2, <2>3, <2>4 DEF Fit, TakesMedia, NeedsTerms
<1>6. QED
  BY <1>3, <1>4, <1>5 DEF TypeOK, Request

LEMMA IdleFits == ASSUME NEW f \in Client, request'[f] = Idle PROVE Fit(f)'
  BY DEF Fit, Idle

LEMMA RequestStep ==
  ASSUME TypeOK, RequestInv, OpenInv, AttachedInv, SweepInv, [Next]_vars
  PROVE  RequestInv'
<1>1. CaseStable /\ MediaStable
  BY CasesStay, MediaStays
<1>2. \A f \in Client : Fit(f)
  BY AllFit
<1>3. SUFFICES ASSUME NEW g \in Client PROVE Fit(g)'
  <2>1. ASSUME \A f \in Client : Fit(f)' PROVE RequestInv'
    BY <2>1 DEF RequestInv, Fit
  <2>2. QED
    BY <2>1
<1>4. ASSUME UNCHANGED <<now, request>> PROVE Fit(g)'
  BY <1>1, <1>4, StaysFit
<1>5. ASSUME NEW f \in Client, f # g, UNCHANGED now, NEW new,
             request' = [request EXCEPT ![f] = new]
      PROVE  Fit(g)'
  <2>1. request'[g] = request[g]
    BY <1>5 DEF TypeOK
  <2>2. QED
    BY <1>1, <1>5, <2>1, StaysFit
<1>6. CASE Upload
  <2>1. ASSUME NEW f \in Client, NEW k \in Key, NEW i \in Image, UploadAsk(f, k, i)
        PROVE  Fit(g)'
    <3> DEFINE new == [Idle EXCEPT !.pc = "decode", !.key = k, !.names = {i.sha256}, !.at = now]
    <3>1. request' = [request EXCEPT ![f] = new] /\ UNCHANGED now
      BY <2>1 DEF UploadAsk
    <3>2. new.pc = "decode" /\ new.key = k /\ new.at = now
      BY DEF Idle
    <3> HIDE DEF new
    <3>3. CASE f = g
      <4>1. request'[g] = new
        BY <3>1, <3>3 DEF TypeOK
      <4>2. QED
        BY <3>1, <3>2, <4>1 DEF Fit
    <3>4. QED
      BY <1>5, <3>1, <3>3
  <2>2. ASSUME NEW f \in Client, UploadStore(f) PROVE Fit(g)'
    <3>1. request' = [request EXCEPT ![f] = Idle] /\ UNCHANGED now
      BY <2>2 DEF UploadStore
    <3>2. f = g => request'[g] = Idle
      BY <3>1 DEF TypeOK
    <3>3. QED
      BY <1>5, <3>1, <3>2, IdleFits
  <2>3. QED
    BY <1>6, <2>1, <2>2 DEF Upload
<1>7. CASE File
  <2>1. ASSUME NEW f \in Client, NEW c \in Case, NEW kind \in {"report", "response"},
               NEW p \in Preimage[c], Verify(f, c, kind, p)
        PROVE  Fit(g)'
    <3> DEFINE new == [pc |-> "verified", kind |-> kind, key |-> None, case |-> c,
                       names |-> Commits(p), at |-> now]
    <3>1. /\ request' = [request EXCEPT ![f] = new] /\ UNCHANGED <<now, blob>>
          /\ Commits(p) # {} => TakesMedia(c)
          /\ \A d \in Commits(p) : blob[d] # None
      BY <2>1 DEF Verify, custody
    <3>2. /\ new.pc = "verified" /\ new.case = c /\ new.names = Commits(p) /\ new.at = now
      OBVIOUS
    <3> HIDE DEF new
    <3>3. CASE f = g
      <4>1. request'[g] = new
        BY <3>1, <3>3 DEF TypeOK
      <4>2. QED
        BY <3>1, <3>2, <4>1 DEF Fit, TakesMedia
    <3>4. QED
      BY <1>5, <3>1, <3>3
  <2>2. ASSUME NEW f \in Client, StoreFiling(f) PROVE Fit(g)'
    <3>1. PICK pc \in {"joined", "stored"} :
            /\ request' = [request EXCEPT ![f].pc = pc]
            /\ pc = "joined" => request[f].kind = "response"
      BY <2>2 DEF StoreFiling
    <3>2. CASE f = g
      <4>1. /\ request'[g].pc = pc /\ request'[g].case = request[g].case
            /\ request'[g].names = request[g].names /\ request'[g].at = request[g].at
        BY <3>1, <3>2, RequestPhase DEF TypeOK
      <4>2. request[g].pc = "verified" /\ UNCHANGED <<now, case, overtaken>>
        BY <2>2, <3>2 DEF StoreFiling
      <4>3. request[g].case \in Case /\ request[g].names \subseteq Digest
        BY <1>2, <4>2 DEF Fit, TypeOK, Request
      <4>4. pc = "joined" =>
              case[request[g].case].stage # "absent" /\ now <= case[request[g].case].due
        BY <2>2, <3>1, <3>2, <4>3 DEF StoreFiling, OpenInv
      <4>5. \A d \in request[g].names : blob'[d] # None \/ d \in overtaken'
        <5>1. request[g].names \subseteq Relied
          BY <4>2 DEF Relied
        <5>2. QED
          BY <1>1, <1>2, <4>2, <4>3, <5>1 DEF Fit, MediaStable
      <4>6. QED
        BY <1>2, <3>1, <4>1, <4>2, <4>4, <4>5 DEF Fit, TakesMedia
    <3>3. CASE f # g
      BY <1>5, <2>2, <3>1, <3>3 DEF StoreFiling
    <3>4. QED
      BY <3>2, <3>3
  <2>3. ASSUME NEW f \in Client, OpenOrJoin(f) PROVE Fit(g)'
    <3>1. request' = [request EXCEPT ![f].pc = "joined"] /\ UNCHANGED <<now, blob, overtaken>>
      BY <2>3 DEF OpenOrJoin, custody
    <3>2. CASE f = g
      <4>1. /\ request'[g].pc = "joined" /\ request'[g].case = request[g].case
            /\ request'[g].names = request[g].names /\ request'[g].at = request[g].at
        BY <3>1, <3>2, RequestPhase DEF TypeOK
      <4>2. request[g].pc = "stored" /\ request[g].case \in Case /\ request[g].at = now
        BY <1>2, <2>3, <3>2 DEF OpenOrJoin, Fit
      <4>3. case'[request[g].case].stage # "absent" /\ now <= case'[request[g].case].due
        <5>1. CASE case' = case /\ case[request[g].case].stage = "open"
          BY <4>2, <5>1 DEF OpenInv
        <5>2. CASE case' = [case EXCEPT ![request[g].case] =
                     [NoCase EXCEPT !.stage = "open", !.due = request[g].at + DecisionWindow,
                                    !.record = TRUE, !.trail = TRUE, !.verdicts = TRUE]]
          <6> DEFINE new == [NoCase EXCEPT !.stage = "open",
                                           !.due = request[g].at + DecisionWindow,
                                           !.record = TRUE, !.trail = TRUE, !.verdicts = TRUE]
          <6>1. new.stage = "open" /\ new.due = request[g].at + DecisionWindow
            BY DEF NoCase
          <6>2. case' = [case EXCEPT ![request[g].case] = new]
            BY <5>2
          <6> HIDE DEF new
          <6>3. case'[request[g].case] = new
            BY <4>2, <6>2 DEF TypeOK
          <6>4. now <= now + DecisionWindow
            BY EvidenceAssumption DEF TypeOK
          <6>5. QED
            BY <4>2, <6>1, <6>3, <6>4
        <5>3. QED
          BY <2>3, <3>2, <5>1, <5>2 DEF OpenOrJoin
      <4>4. QED
        BY <1>2, <3>1, <4>1, <4>2, <4>3 DEF Fit, TakesMedia
    <3>3. CASE f # g
      BY <1>5, <3>1, <3>3
    <3>4. QED
      BY <3>2, <3>3
  <2>4. ASSUME NEW f \in Client, Attach(f) PROVE Fit(g)'
    <3>1. CASE f = g
      <4>1. request[g].pc = "joined" /\ UNCHANGED <<now, case, blob, overtaken>>
            /\ attached' = attached \cup (request[g].names \X {request[g].case})
        BY <2>4, <3>1 DEF Attach
      <4>2. CASE request'[g] = Idle
        BY <4>2, IdleFits
      <4>3. CASE /\ request'[g] = [request[g] EXCEPT !.pc = "attached"]
                 /\ NeedsTerms(request[g].case) /\ request[g].names # {}
        <5>1. /\ request'[g].pc = "attached" /\ request'[g].case = request[g].case
              /\ request'[g].names = request[g].names /\ request'[g].at = request[g].at
          BY <4>3 DEF TypeOK, Request
        <5>2. QED
          BY <1>2, <4>1, <4>3, <5>1 DEF Fit, TakesMedia, NeedsTerms
      <4>4. QED
        BY <2>4, <3>1, <4>2, <4>3 DEF Attach, TypeOK
    <3>2. CASE f # g
      BY <1>5, <2>4, <3>2 DEF Attach
    <3>3. QED
      BY <3>1, <3>2
  <2>5. ASSUME NEW f \in Client, HoldImages(f) PROVE Fit(g)'
    <3>1. request' = [request EXCEPT ![f].pc = "held"] /\ UNCHANGED <<now, case, attached, overtaken>>
      BY <2>5 DEF HoldImages
    <3>2. CASE f = g
      <4>1. /\ request'[g].pc = "held" /\ request'[g].case = request[g].case
            /\ request'[g].names = request[g].names /\ request'[g].at = request[g].at
        BY <3>1, <3>2, RequestPhase DEF TypeOK
      <4>2. request[g].pc = "attached" /\ request[g].names \subseteq Digest
        BY <2>5, <3>2 DEF HoldImages, TypeOK, Request
      <4>3. \A d \in request[g].names : blob'[d] # None => ~blob'[d].viewable
        BY <2>5, <3>2, <4>2, SealedTyped DEF HoldImages
      <4>4. QED
        BY <1>2, <3>1, <4>1, <4>2, <4>3 DEF Fit, TakesMedia, NeedsTerms
    <3>3. CASE f # g
      BY <1>5, <3>1, <3>3
    <3>4. QED
      BY <3>2, <3>3
  <2>6. ASSUME NEW f \in Client, HoldCase(f) \/ Fails(f) PROVE Fit(g)'
    <3>1. request' = [request EXCEPT ![f] = Idle] /\ UNCHANGED now
      BY <2>6 DEF HoldCase, Fails
    <3>2. f = g => request'[g] = Idle
      BY <3>1 DEF TypeOK
    <3>3. QED
      BY <1>5, <3>1, <3>2, IdleFits
  <2>7. QED
    BY <1>7, <2>1, <2>2, <2>3, <2>4, <2>5, <2>6 DEF File
<1>8. CASE Refuse \/ Proceed \/ Retention
  <2>1. UNCHANGED <<now, request>>
    BY <1>8 DEF Refuse, RefuseMedia, Proceed, Decide, Ban, DismissOverdue, FileClaim,
                ResolveClaim, RecordReferral, Retention, SweepBegin, DropHold, SweepUploads,
                ListMedia, DeleteMedia, ListRecords, DeleteRecord, ListSanctions,
                DeleteSanction, SweepEnd
  <2>2. QED
    BY <1>4, <2>1
<1>9. CASE Tick
  BY <1>1, <1>9, StaysFit DEF Tick
<1>10. CASE Crash
  BY <1>10, IdleFits DEF Crash
<1>11. CASE UNCHANGED vars
  BY <1>4, <1>11 DEF vars
<1>12. QED
  BY <1>6, <1>7, <1>8, <1>9, <1>10, <1>11 DEF Next

-----------------------------------------------------------------------------
(* Attachments.                                                            *)

\* Only Attach adds to what a case rests on.
LEMMA AttachesOnly ==
  ASSUME [Next]_vars
  PROVE  attached' \subseteq attached \/ \E f \in Client : Attach(f)
<1> USE DEF custody
<1>1. CASE Upload \/ Refuse \/ Proceed
  BY <1>1 DEF Upload, UploadAsk, UploadStore, Refuse, RefuseMedia, Proceed, Decide, Ban,
              DismissOverdue, FileClaim, ResolveClaim, RecordReferral
<1>2. CASE File
  BY <1>2 DEF File, Verify, StoreFiling, OpenOrJoin, HoldImages, HoldCase, Fails
<1>3. CASE Retention
  BY <1>3 DEF Retention, SweepBegin, DropHold, SweepUploads, ListMedia, DeleteMedia,
              ListRecords, DeleteRecord, ListSanctions, DeleteSanction, SweepEnd
<1>4. CASE Tick \/ Crash \/ UNCHANGED vars
  BY <1>4 DEF Tick, Crash, vars
<1>5. QED
  BY <1>1, <1>2, <1>3, <1>4 DEF Next

LEMMA AttachedStep ==
  ASSUME TypeOK, RequestInv, SweepInv, AttachedInv, [Next]_vars
  PROVE  AttachedInv'
<1>1. CaseStable /\ MediaStable
  BY CasesStay, MediaStays
<1> SUFFICES ASSUME NEW d \in Digest, NEW c \in Case, <<d, c>> \in attached'
             PROVE  blob'[d] # None \/ d \in overtaken'
  BY DEF AttachedInv
<1>2. CASE <<d, c>> \in attached
  BY <1>1, <1>2 DEF AttachedInv, CaseStable, MediaStable
<1>3. CASE <<d, c>> \notin attached
  <2>1. PICK f \in Client : Attach(f)
    BY <1>3, AttachesOnly
  <2>2. d \in request[f].names /\ request[f].pc = "joined" /\ UNCHANGED <<blob, overtaken>>
    BY <1>3, <2>1 DEF Attach
  <2>3. QED
    BY <2>2 DEF RequestInv
<1>4. QED
  BY <1>2, <1>3

-----------------------------------------------------------------------------
(* The sweep and its lists.                                                *)

\* A case comes under a hold, or is held for longer, only by its own filing.
LEMMA HeldByFiling ==
  ASSUME TypeOK, RequestInv, [Next]_vars, NEW c \in Case, UNCHANGED now,
         Preserved(c, now)', ~Preserved(c, now)
  PROVE  now <= case[c].due \/ \E s \in Holdable : DropHold(s)
<1> USE DEF custody
<1>1. ASSUME UNCHANGED <<hold, referred>> PROVE FALSE
  BY <1>1 DEF Preserved
<1>2. CASE Upload \/ Refuse
  BY <1>1, <1>2 DEF Upload, UploadAsk, UploadStore, Refuse, RefuseMedia
<1>3. CASE Proceed
  <2>1. PICK o \in Case : RecordReferral(o)
    BY <1>1, <1>3 DEF Proceed, Decide, Ban, DismissOverdue, FileClaim, ResolveClaim
  <2>2. QED
    BY <2>1 DEF RecordReferral, Preserved
<1>4. CASE File
  <2>1. ASSUME NEW f \in Client, HoldCase(f) PROVE now <= case[c].due
    <3>1. request[f].case = c
      <4>1. request[f].case # c => UNCHANGED hold[c]
        BY <2>1, EvidenceAssumption DEF HoldCase, TypeOK, Holdable
      <4>2. UNCHANGED referred
        BY <2>1 DEF HoldCase
      <4>3. QED
        BY <4>1, <4>2 DEF Preserved
    <3>2. request[f].pc = "held"
      BY <2>1 DEF HoldCase
    <3>3. QED
      BY <3>1, <3>2 DEF RequestInv
  <2>2. ASSUME NEW f \in Client, HoldImages(f) PROVE FALSE
    <3>1. c \notin request[f].names /\ c \in Holdable
      BY EvidenceAssumption DEF TypeOK, Request, Holdable
    <3>2. UNCHANGED <<hold[c], referred>>
      BY <2>2, <3>1 DEF HoldImages
    <3>3. QED
      BY <3>2 DEF Preserved
  <2>3. QED
    BY <1>1, <1>4, <2>1, <2>2
       DEF File, Verify, StoreFiling, OpenOrJoin, Attach, Fails
<1>5. CASE Retention
  BY <1>1, <1>5 DEF Retention, SweepBegin, SweepUploads, ListMedia, DeleteMedia,
                    ListRecords, DeleteRecord, ListSanctions, DeleteSanction, SweepEnd
<1>6. CASE Tick \/ Crash \/ UNCHANGED vars
  BY <1>1, <1>6 DEF Tick, Crash, vars
<1>7. QED
  BY <1>2, <1>3, <1>4, <1>5, <1>6 DEF Next

\* What the sweep may rely on of a case on its list.
Listed(c) ==
  /\ c \in Case /\ case[c].stage = "decided"
  /\ Preserved(c, now) => now <= case[c].due
  /\ sweep.pc = "sanction" => case[c].term # Permanent

\* A step of another, or one that only shortens the list.
LEMMA StaysListed ==
  ASSUME TypeOK, RequestInv, CaseStable, [Next]_vars, UNCHANGED now,
         ~\E s \in Holdable : DropHold(s),
         NEW c, Listed(c), sweep'.pc = sweep.pc
  PROVE  Listed(c)'
<1>1. case'[c].stage = "decided" /\ case'[c].due = case[c].due /\ case'[c].term = case[c].term
  BY DEF Listed, CaseStable
<1>2. Preserved(c, now)' => now <= case[c].due
  BY HeldByFiling DEF Listed
<1>3. QED
  BY <1>1, <1>2 DEF Listed

LEMMA ReferredStep == ASSUME SweepInv, [Next]_vars PROVE referred' \subseteq ledger'
<1> USE DEF SweepInv, custody
<1>1. CASE Upload \/ Refuse \/ Proceed
  BY <1>1 DEF Upload, UploadAsk, UploadStore, Refuse, RefuseMedia, Proceed, Decide, Ban,
              DismissOverdue, FileClaim, ResolveClaim, RecordReferral
<1>2. CASE File
  BY <1>2 DEF File, Verify, StoreFiling, OpenOrJoin, Attach, HoldImages, HoldCase, Fails
<1>3. CASE Retention
  BY <1>3 DEF Retention, SweepBegin, DropHold, SweepUploads, ListMedia, DeleteMedia,
              ListRecords, DeleteRecord, ListSanctions, DeleteSanction, SweepEnd
<1>4. CASE Tick \/ Crash \/ UNCHANGED vars
  BY <1>4 DEF Tick, Crash, vars
<1>5. QED
  BY <1>1, <1>2, <1>3, <1>4 DEF Next

LEMMA SweepStep ==
  ASSUME TypeOK, RequestInv, SweepInv, [Next]_vars
  PROVE  SweepInv'
<1>1. CaseStable
  BY CasesStay
<1>2. referred' \subseteq ledger'
  BY ReferredStep
<1> DEFINE Clock == sweep'.pc # "idle" => sweep'.at = now'
           Discharged == sweep'.pc = "release" => sweep'.todo \cap Case \subseteq ledger'
           Lists == sweep'.pc \in {"record", "sanction"} => \A c \in sweep'.todo : Listed(c)'
<1>3. SUFFICES Clock /\ Discharged /\ Lists
  BY <1>2 DEF SweepInv, Listed
<1>4. sweep.pc \in {"record", "sanction"} => \A c \in sweep.todo : Listed(c)
  BY DEF SweepInv, Listed
<1>5. ASSUME UNCHANGED now, sweep'.pc = sweep.pc, sweep'.at = sweep.at,
             sweep'.todo \subseteq sweep.todo, ~\E s \in Holdable : DropHold(s)
      PROVE  Clock /\ Discharged /\ Lists
  <2>1. Clock /\ Discharged
    BY <1>1, <1>5 DEF SweepInv, CaseStable
  <2>2. Lists
    BY <1>1, <1>4, <1>5, StaysListed
  <2>3. QED
    BY <2>1, <2>2
<1>6. CASE Upload \/ File \/ Refuse \/ Proceed
  <2>1. UNCHANGED <<now, sweep>>
    BY <1>6 DEF Upload, UploadAsk, UploadStore, Refuse, RefuseMedia, Proceed, Decide, Ban,
                DismissOverdue, FileClaim, ResolveClaim, RecordReferral, File, Verify,
                StoreFiling, OpenOrJoin, Attach, HoldImages, HoldCase, Fails
  <2>2. CASE sweep.pc = "release"
    BY <1>1, <2>1, <2>2 DEF SweepInv, CaseStable
  <2>3. CASE sweep.pc # "release"
    BY <1>5, <2>1, <2>3 DEF DropHold
  <2>4. QED
    BY <2>2, <2>3
<1>7. CASE Retention
  <2>1. CASE SweepBegin
    <3>1. sweep' = [pc |-> "release", at |-> now, todo |-> Released(now)]
          /\ UNCHANGED <<now, ledger>>
      BY <2>1 DEF SweepBegin, custody
    <3>2. Released(now) \cap Case \subseteq referred
      BY DEF Released
    <3>3. QED
      BY <3>1, <3>2 DEF SweepInv
  <2>2. ASSUME NEW s \in Holdable, DropHold(s) PROVE Clock /\ Discharged /\ Lists
    BY <2>2 DEF DropHold, SweepInv, TypeOK, Sweep
  <2>3. CASE SweepUploads
    BY <2>3 DEF SweepUploads, SweepInv, TypeOK, Sweep
  <2>4. CASE ListMedia
    BY <2>4 DEF ListMedia, SweepInv, TypeOK, Sweep
  <2>5. ASSUME NEW c \in Case, DeleteMedia(c) \/ DeleteRecord(c) \/ DeleteSanction(c)
        PROVE  Clock /\ Discharged /\ Lists
    <3>1. /\ UNCHANGED now /\ sweep'.pc = sweep.pc /\ sweep'.at = sweep.at
          /\ sweep'.todo \subseteq sweep.todo /\ sweep.pc # "release"
      BY <2>5 DEF DeleteMedia, DeleteRecord, DeleteSanction, TypeOK, Sweep
    <3>2. QED
      BY <1>5, <3>1 DEF DropHold
  <2>6. CASE ListRecords \/ ListSanctions
    <3> DEFINE todo == {c \in Case : Eligible(c)}
    <3>1. /\ UNCHANGED <<now, case, hold, referred>> /\ sweep'.pc \in {"record", "sanction"}
          /\ sweep'.at = sweep.at /\ sweep'.todo \subseteq todo
          /\ sweep.pc # "idle"
          /\ sweep'.pc = "sanction" => \A c \in sweep'.todo : case[c].term # Permanent
      <4>1. CASE ListRecords
        <5>1. sweep'.pc = "record" /\ sweep'.at = sweep.at /\ sweep'.todo = todo
          BY <4>1 DEF ListRecords, TypeOK, Sweep
        <5>2. QED
          BY <4>1, <5>1 DEF ListRecords, custody
      <4>2. CASE ListSanctions
        <5> DEFINE listed == {c \in Case : /\ Eligible(c) /\ case[c].verdicts
                                            /\ case[c].term # Permanent}
        <5>1. sweep'.pc = "sanction" /\ sweep'.at = sweep.at /\ sweep'.todo = listed
          BY <4>2 DEF ListSanctions, TypeOK, Sweep
        <5>2. listed \subseteq todo /\ \A c \in listed : case[c].term # Permanent
          OBVIOUS
        <5> HIDE DEF listed, todo
        <5>3. QED
          BY <4>2, <5>1, <5>2 DEF ListSanctions, custody
      <4>3. QED
        BY <2>6, <4>1, <4>2
    <3>2. \A c \in todo : case[c].stage = "decided" /\ ~Preserved(c, now)
      BY <3>1 DEF Eligible, SweepInv
    <3>3. \A c \in todo : ~Preserved(c, now)'
      BY <3>1, <3>2 DEF Preserved
    <3>4. Clock /\ Discharged
      BY <3>1 DEF SweepInv
    <3>5. Lists
      BY <3>1, <3>2, <3>3 DEF Listed
    <3>6. QED
      BY <3>4, <3>5
  <2>7. CASE SweepEnd
    BY <2>7 DEF SweepEnd, Resting
  <2>8. QED
    BY <1>7, <2>1, <2>2, <2>3, <2>4, <2>5, <2>6, <2>7 DEF Retention
<1>8. CASE Tick
  BY <1>8 DEF Tick
<1>9. CASE Crash
  BY <1>9 DEF Crash, Resting
<1>10. CASE UNCHANGED vars
  <2>1. UNCHANGED <<now, sweep, hold, referred, case, ledger>>
    BY <1>10 DEF vars, custody
  <2>2. QED
    BY <1>4, <2>1 DEF SweepInv, Listed, Preserved
<1>11. QED
  BY <1>6, <1>7, <1>8, <1>9, <1>10 DEF Next

-----------------------------------------------------------------------------
(* What is deleted of a case, and the terms it was kept under.             *)

\* Only its first report opens a case.
LEMMA CaseOpens ==
  ASSUME TypeOK, SweepInv, [Next]_vars, NEW c \in Case, case[c].stage = "absent"
  PROVE  \/ /\ case'[c].stage = "absent" /\ case'[c].record = case[c].record
            /\ case'[c].trail = case[c].trail /\ case'[c].verdicts = case[c].verdicts
         \/ \E f \in Client :
              /\ OpenOrJoin(f) /\ request[f].case = c
              /\ request[f].at <= ValidUntil[MandateOf[c]]
              /\ case'[c] = [NoCase EXCEPT !.stage = "open",
                               !.due = request[f].at + DecisionWindow,
                               !.record = TRUE, !.trail = TRUE, !.verdicts = TRUE]
<1> USE DEF custody
<1>1. CASE Upload \/ Refuse
  BY <1>1 DEF Upload, UploadAsk, UploadStore, Refuse, RefuseMedia
<1>2. CASE File
  <2>1. ASSUME NEW f \in Client, OpenOrJoin(f), case'[c] # case[c]
        PROVE  /\ request[f].case = c
               /\ request[f].at <= ValidUntil[MandateOf[c]]
               /\ case'[c] = [NoCase EXCEPT !.stage = "open",
                                !.due = request[f].at + DecisionWindow,
                                !.record = TRUE, !.trail = TRUE, !.verdicts = TRUE]
    BY <2>1 DEF OpenOrJoin, TypeOK
  <2>2. UNCHANGED case \/ \E f \in Client : OpenOrJoin(f)
    BY <1>2 DEF File, Verify, StoreFiling, Attach, HoldImages, HoldCase, Fails
  <2>3. CASE case'[c] = case[c]
    BY <2>3
  <2>4. QED
    BY <2>1, <2>2, <2>3
<1>3. CASE Proceed
  <2>1. PICK o \in Case : \/ Decide(o) \/ Ban(o) \/ DismissOverdue(o) \/ FileClaim(o)
                          \/ ResolveClaim(o) \/ RecordReferral(o)
    BY <1>3 DEF Proceed
  <2>2. CASE ResolveClaim(o)
    <3>1. CASE c # o
      BY <2>2, <3>1 DEF ResolveClaim, TypeOK
    <3>2. CASE c = o
      BY <2>2, <3>2 DEF ResolveClaim, TypeOK, CaseRow
    <3>3. QED
      BY <3>1, <3>2
  <2>3. CASE Decide(o) \/ Ban(o) \/ DismissOverdue(o) \/ FileClaim(o) \/ RecordReferral(o)
    <3>1. case' = case \/ case[o].stage # "absent"
      BY <2>3 DEF Decide, Ban, DismissOverdue, FileClaim, RecordReferral
    <3>2. case' = case \/ c # o
      BY <3>1
    <3>3. QED
      BY <2>3, <3>2 DEF Decide, Ban, DismissOverdue, FileClaim, RecordReferral, TypeOK
  <2>4. QED
    BY <2>1, <2>2, <2>3
<1>4. CASE Retention
  <2>1. ASSUME NEW o \in Case, DeleteRecord(o) \/ DeleteSanction(o) PROVE case'[c] = case[c]
    <3>1. case[o].stage = "decided"
      BY <2>1 DEF DeleteRecord, DeleteSanction, SweepInv
    <3>2. QED
      BY <2>1, <3>1 DEF DeleteRecord, DeleteSanction, TypeOK
  <2>2. QED
    BY <1>4, <2>1
       DEF Retention, SweepBegin, DropHold, SweepUploads, ListMedia, DeleteMedia, ListRecords,
           ListSanctions, SweepEnd
<1>5. CASE Tick \/ Crash \/ UNCHANGED vars
  BY <1>5 DEF Tick, Crash, vars
<1>6. QED
  BY <1>1, <1>2, <1>3, <1>4, <1>5 DEF Next

\* What of a case the sweep may delete, and when.
LEMMA RecordGoes ==
  ASSUME TypeOK, SweepInv, OpenInv, [Next]_vars, NEW c \in Case,
         case[c].record /\ ~case'[c].record
  PROVE  case[c].due < now /\ ~Preserved(c, now)
<1> USE DEF custody
<1>1. ASSUME NEW o \in Case, DeleteRecord(o)
      PROVE  /\ o = c /\ c \in sweep.todo /\ sweep.pc = "record"
             /\ ScheduleOf(c) # None /\ TailElapsed(Anchor(c), ScheduleOf(c).caseRecord)
  <2>1. o = c
    BY <1>1 DEF DeleteRecord, TypeOK
  <2>2. ScheduleOf(c) # None
    BY <1>1, <2>1 DEF DeleteRecord
  <2> DEFINE b == case[c].record /\ ~TailElapsed(Anchor(c), ScheduleOf(c).caseRecord)
             t == case[c].trail /\ ~TailElapsed(Anchor(c), ScheduleOf(c).auditRecord)
  <2>3. case'[c] = [case[c] EXCEPT !.record = b, !.trail = t]
    BY <1>1, <2>1, <2>2 DEF DeleteRecord, TypeOK
  <2>4. [case[c] EXCEPT !.record = b, !.trail = t].record = b
    <3> HIDE DEF b, t
    <3>1. QED
      BY DEF TypeOK, CaseRow
  <2>5. ~b
    BY <2>3, <2>4
  <2>6. QED
    BY <1>1, <2>1, <2>2, <2>5 DEF DeleteRecord
<1>2. ASSUME NEW o \in Case, DeleteSanction(o)
      PROVE  /\ o = c /\ c \in sweep.todo /\ sweep.pc = "sanction"
             /\ ScheduleOf(c) # None /\ TailElapsed(MarkHorizon(c), ScheduleOf(c).sanctionRecord)
  BY <1>2 DEF DeleteSanction, TypeOK
<1>3. (\E o \in Case : DeleteRecord(o) \/ DeleteSanction(o))
  <2>1. CASE Upload \/ Refuse
    BY <2>1 DEF Upload, UploadAsk, UploadStore, Refuse, RefuseMedia
  <2>2. CASE File \/ Proceed
    <3>1. case[c].stage # "absent"
      BY DEF OpenInv
    <3>2. CASE File
      BY <3>1, <3>2
         DEF File, Verify, StoreFiling, OpenOrJoin, Attach, HoldImages, HoldCase, Fails, TypeOK
    <3>3. CASE Proceed
      <4>1. PICK o \in Case : \/ Decide(o) \/ Ban(o) \/ DismissOverdue(o) \/ FileClaim(o)
                              \/ ResolveClaim(o) \/ RecordReferral(o)
        BY <3>3 DEF Proceed
      <4>2. case'[c].record = case[c].record
        BY <4>1 DEF Decide, Ban, DismissOverdue, FileClaim, ResolveClaim, RecordReferral,
                    TypeOK, CaseRow
      <4>3. QED
        BY <4>2
    <3>4. QED
      BY <2>2, <3>2, <3>3
  <2>3. CASE Retention
    BY <2>3 DEF Retention, SweepBegin, DropHold, SweepUploads, ListMedia, DeleteMedia,
                ListRecords, ListSanctions, SweepEnd
  <2>4. CASE Tick \/ Crash \/ UNCHANGED vars
    BY <2>4 DEF Tick, Crash, vars
  <2>5. QED
    BY <2>1, <2>2, <2>3, <2>4 DEF Next
<1>4. c \in sweep.todo /\ sweep.pc \in {"record", "sanction"} /\ ScheduleOf(c) \in Schedule
  BY <1>1, <1>2, <1>3, Schedules
<1>5. /\ case[c].due \in Nat /\ case[c].appeal \in Nat /\ now \in Nat /\ sweep.at = now
      /\ ScheduleOf(c).caseRecord \in Nat \ {0} /\ ScheduleOf(c).sanctionRecord \in Nat \ {0}
  BY <1>4 DEF TypeOK, CaseRow, Schedule, SweepInv
<1>6. /\ Anchor(c) \in Nat /\ case[c].due <= Anchor(c)
      /\ MarkHorizon(c) \in Nat /\ case[c].due <= MarkHorizon(c)
  BY <1>5 DEF Anchor, MarkHorizon
<1>7. case[c].due < now
  <2>1. \/ now >= Anchor(c) + ScheduleOf(c).caseRecord
        \/ now >= MarkHorizon(c) + ScheduleOf(c).sanctionRecord
    BY <1>1, <1>2, <1>3, <1>5 DEF TailElapsed
  <2>2. QED
    BY <1>5, <1>6, <2>1
<1>8. ~Preserved(c, now)
  <2>1. Preserved(c, now) => now <= case[c].due
    BY <1>4 DEF SweepInv
  <2>2. QED
    BY <1>5, <1>7, <2>1
<1>9. QED
  BY <1>7, <1>8

\* The verdicts and the mandate go only with the sanction record.
LEMMA SanctionGoes ==
  ASSUME TypeOK, SweepInv, OpenInv, [Next]_vars, NEW c \in Case,
         \/ case[c].verdicts /\ ~case'[c].verdicts
         \/ MandateOf[c] \in mandates /\ MandateOf[c] \notin mandates'
  PROVE  \E o \in Case :
           /\ DeleteSanction(o)
           /\ ScheduleOf(o) # None /\ TailElapsed(MarkHorizon(o), ScheduleOf(o).sanctionRecord)
           /\ case[c].verdicts /\ ~case'[c].verdicts => o = c
           /\ MandateOf[c] \in mandates /\ MandateOf[c] \notin mandates' =>
                MandateOf[o] = MandateOf[c] /\ MandateSpent(o)
<1> USE DEF custody
<1>1. \E o \in Case : DeleteSanction(o)
  <2>1. CASE Upload \/ Refuse
    BY <2>1 DEF Upload, UploadAsk, UploadStore, Refuse, RefuseMedia
  <2>2. CASE File \/ Proceed
    <3>1. CASE File
      <4>1. case[c].stage = "absent" => ~case[c].verdicts
        BY DEF OpenInv
      <4>2. QED
        BY <3>1, <4>1
           DEF File, Verify, StoreFiling, OpenOrJoin, Attach, HoldImages, HoldCase, Fails, TypeOK
    <3>2. CASE Proceed
      <4>1. PICK o \in Case : \/ Decide(o) \/ Ban(o) \/ DismissOverdue(o) \/ FileClaim(o)
                              \/ ResolveClaim(o) \/ RecordReferral(o)
        BY <3>2 DEF Proceed
      <4>2. UNCHANGED mandates /\ case'[c].verdicts = case[c].verdicts
        BY <4>1 DEF Decide, Ban, DismissOverdue, FileClaim, ResolveClaim, RecordReferral,
                    TypeOK, CaseRow
      <4>3. QED
        BY <4>2
    <3>3. QED
      BY <2>2, <3>1, <3>2
  <2>3. CASE Retention
    <3>1. ASSUME NEW o \in Case, DeleteRecord(o) PROVE FALSE
      <4> DEFINE b == case[o].record /\ ~TailElapsed(Anchor(o), ScheduleOf(o).caseRecord)
                 t == case[o].trail /\ ~TailElapsed(Anchor(o), ScheduleOf(o).auditRecord)
                 new == [case[o] EXCEPT !.record = b, !.trail = t]
      <4>1. /\ UNCHANGED mandates
            /\ case' = case \/ case' = [case EXCEPT ![o] = new]
        BY <3>1 DEF DeleteRecord
      <4>2. new.verdicts = case[o].verdicts
        <5> HIDE DEF b, t
        <5>1. QED
          BY DEF TypeOK, CaseRow
      <4> HIDE DEF new
      <4>3. case'[c].verdicts = case[c].verdicts
        BY <4>1, <4>2 DEF TypeOK
      <4>4. QED
        BY <4>1, <4>3
    <3>2. QED
      BY <2>3, <3>1
         DEF Retention, SweepBegin, DropHold, SweepUploads, ListMedia, DeleteMedia, ListRecords,
             ListSanctions, SweepEnd
  <2>4. CASE Tick \/ Crash \/ UNCHANGED vars
    BY <2>4 DEF Tick, Crash, vars
  <2>5. QED
    BY <2>1, <2>2, <2>3, <2>4 DEF Next
<1>2. PICK o \in Case : DeleteSanction(o)
  BY <1>1
<1>3. ScheduleOf(o) # None /\ TailElapsed(MarkHorizon(o), ScheduleOf(o).sanctionRecord)
  BY <1>2 DEF DeleteSanction
<1>4. case[c].verdicts /\ ~case'[c].verdicts => o = c
  BY <1>2 DEF DeleteSanction, TypeOK
<1>5. MandateOf[c] \in mandates /\ MandateOf[c] \notin mandates' =>
        MandateOf[o] = MandateOf[c] /\ MandateSpent(o)
  BY <1>2 DEF DeleteSanction
<1>6. QED
  BY <1>2, <1>3, <1>4, <1>5

\* Opened by this step, it is not decided yet.
LEMMA NotAtOnce ==
  ASSUME TypeOK, SweepInv, [Next]_vars, NEW c \in Case, case[c].stage = "absent"
  PROVE  case'[c].stage # "decided"
<1>1. CASE case'[c].stage = "absent"
  BY <1>1
<1>2. CASE case'[c].stage # "absent"
  <2>1. PICK f \in Client :
          case'[c] = [NoCase EXCEPT !.stage = "open",
                        !.due = request[f].at + DecisionWindow,
                        !.record = TRUE, !.trail = TRUE, !.verdicts = TRUE]
    BY <1>2, CaseOpens
  <2>2. QED
    BY <2>1 DEF NoCase
<1>3. QED
  BY <1>1, <1>2

LEMMA MandateDrops ==
  ASSUME [Next]_vars, mandates' # mandates
  PROVE  \E o \in Case : DeleteSanction(o)
<1>1. CASE Upload \/ File \/ Refuse \/ Proceed
  BY <1>1 DEF Upload, UploadAsk, UploadStore, Refuse, RefuseMedia, Proceed, Decide, Ban,
              DismissOverdue, FileClaim, ResolveClaim, RecordReferral, File, Verify,
              StoreFiling, OpenOrJoin, Attach, HoldImages, HoldCase, Fails
<1>2. CASE Retention
  BY <1>2 DEF Retention, SweepBegin, DropHold, SweepUploads, ListMedia, DeleteMedia,
              ListRecords, DeleteRecord, ListSanctions, SweepEnd
<1>3. CASE Tick \/ Crash \/ UNCHANGED vars
  BY <1>3 DEF Tick, Crash, vars
<1>4. QED
  BY <1>1, <1>2, <1>3 DEF Next

LEMMA TermsStep ==
  ASSUME TypeOK, RequestInv, OpenInv, SweepInv, TermsInv, [Next]_vars
  PROVE  TermsInv'
<1>1. CaseStable
  BY CasesStay
<1>2. ASSUME NEW m \in Mandate \ mandates' PROVE ValidUntil[m] <= now'
  <2>1. now \in Nat /\ now <= now' /\ now' \in Nat /\ ValidUntil[m] \in Nat
    BY <1>1, EvidenceAssumption DEF CaseStable, TypeOK
  <2>2. CASE m \notin mandates
    BY <2>1, <2>2 DEF TermsInv
  <2>3. CASE m \in mandates
    <3>1. PICK o \in Case : DeleteSanction(o)
      BY <1>2, <2>3, MandateDrops
    <3>2. m = MandateOf[o] /\ MandateSpent(o) /\ sweep.pc # "idle"
      BY <1>2, <2>3, <3>1 DEF DeleteSanction
    <3>3. QED
      BY <2>1, <3>2 DEF MandateSpent, SweepInv
  <2>4. QED
    BY <2>2, <2>3
<1>3. ASSUME NEW c \in Case, case'[c].record \/ case'[c].trail \/ case'[c].verdicts
      PROVE  \/ MandateOf[c] \in mandates'
             \/ case'[c].due >= ValidUntil[MandateOf[c]] + DecisionWindow
  <2>1. CASE case[c].stage = "absent"
    <3>1. ~case[c].record /\ ~case[c].trail /\ ~case[c].verdicts
      BY <2>1 DEF OpenInv
    <3>2. PICK f \in Client :
            /\ OpenOrJoin(f) /\ request[f].at <= ValidUntil[MandateOf[c]]
            /\ case'[c] = [NoCase EXCEPT !.stage = "open",
                             !.due = request[f].at + DecisionWindow,
                             !.record = TRUE, !.trail = TRUE, !.verdicts = TRUE]
      BY <1>3, <2>1, <3>1, CaseOpens
    <3>3. /\ case'[c].due = request[f].at + DecisionWindow
          /\ request[f].at = now /\ UNCHANGED mandates
      BY <3>2 DEF OpenOrJoin, NoCase, RequestInv
    <3>4. MandateOf[c] \notin mandates => ValidUntil[MandateOf[c]] <= now
      BY EvidenceAssumption DEF TermsInv
    <3>5. now \in Nat /\ ValidUntil[MandateOf[c]] \in Nat /\ DecisionWindow \in Nat
      BY EvidenceAssumption DEF TypeOK
    <3>6. QED
      BY <3>2, <3>3, <3>4, <3>5
  <2>2. CASE case[c].stage # "absent"
    <3>1. /\ case[c].record \/ case[c].trail \/ case[c].verdicts
          /\ case'[c].due = case[c].due
      BY <1>1, <1>3, <2>2 DEF CaseStable
    <3>2. CASE MandateOf[c] \in mandates /\ MandateOf[c] \notin mandates'
      <4>1. PICK o \in Case : /\ DeleteSanction(o)
                              /\ MandateOf[o] = MandateOf[c] /\ MandateSpent(o)
                              /\ ScheduleOf(o) # None
                              /\ TailElapsed(MarkHorizon(o), ScheduleOf(o).sanctionRecord)
        BY <3>2, SanctionGoes
      <4>2. o = c
        BY <2>2, <4>1 DEF MandateSpent
      <4>3. case' = [case EXCEPT ![c] =
                       [@ EXCEPT !.record = FALSE, !.trail = FALSE, !.verdicts = FALSE]]
        BY <4>1, <4>2 DEF DeleteSanction
      <4>4. case'[c] = [case[c] EXCEPT !.record = FALSE, !.trail = FALSE, !.verdicts = FALSE]
        BY <4>3 DEF TypeOK
      <4>5. case[c] \in CaseRow
        BY DEF TypeOK
      <4>6. ~case'[c].record /\ ~case'[c].trail /\ ~case'[c].verdicts
        BY <4>4, <4>5 DEF CaseRow
      <4>7. QED
        BY <1>3, <4>6
    <3>3. QED
      BY <3>1, <3>2 DEF TermsInv
  <2>3. QED
    BY <2>1, <2>2
<1>4. ASSUME NEW c \in Case, case'[c].stage = "decided", ~case'[c].verdicts
      PROVE  Terms(c) # None
  <2>1. case[c].stage # "absent"
    BY <1>4, NotAtOnce
  <2>2. case[c].stage = "decided" \/ case[c].verdicts
    BY <2>1 DEF OpenInv, TypeOK, CaseRow
  <2>3. CASE case[c].verdicts
    BY <1>4, <2>3, SanctionGoes, Schedules
  <2>4. QED
    BY <2>2, <2>3 DEF TermsInv
<1>5. QED
  BY <1>2, <1>3, <1>4 DEF TermsInv, Terms

LEMMA OutliveStep ==
  ASSUME TypeOK, RequestInv, OpenInv, SweepInv, TermsInv, TermsInv', TermsOutliveRecord,
         [Next]_vars
  PROVE  TermsOutliveRecord'
<1>1. CaseStable
  BY CasesStay
<1> SUFFICES ASSUME NEW c \in Case, case'[c].stage = "decided"
             PROVE  /\ ~case'[c].verdicts =>
                         /\ case'[c].due + Terms(c).sanctionRecord <= now'
                         /\ case'[c].term # None =>
                              /\ case'[c].term # Permanent
                              /\ case'[c].term + Terms(c).sanctionRecord <= now'
                    /\ case'[c].record \/ case'[c].trail \/ case'[c].verdicts =>
                         \/ MandateOf[c] \in mandates'
                         \/ case'[c].due >= ValidUntil[MandateOf[c]] + DecisionWindow
  BY DEF TermsOutliveRecord, Terms
<1>2. now \in Nat /\ now <= now' /\ case[c] \in CaseRow
  BY <1>1 DEF CaseStable, TypeOK
<1>3. ASSUME ~case'[c].verdicts
      PROVE  /\ case'[c].due + Terms(c).sanctionRecord <= now'
             /\ case'[c].term # None =>
                  /\ case'[c].term # Permanent
                  /\ case'[c].term + Terms(c).sanctionRecord <= now'
  <2>1. case[c].stage # "absent"
    BY NotAtOnce
  <2>2. case'[c].due = case[c].due
    BY <1>1, <2>1 DEF CaseStable
  <2>3. CASE case[c].verdicts
    <3>1. /\ DeleteSanction(c) /\ ScheduleOf(c) # None
          /\ TailElapsed(MarkHorizon(c), ScheduleOf(c).sanctionRecord)
      BY <1>3, <2>3, SanctionGoes
    <3>2. /\ c \in sweep.todo /\ sweep.pc = "sanction" /\ sweep.at = now
          /\ ScheduleOf(c) = Terms(c) /\ ScheduleOf(c) \in Schedule
      BY <3>1, Schedules DEF DeleteSanction, SweepInv
    <3>3. case[c].stage = "decided" /\ case[c].term # Permanent
      BY <3>2 DEF SweepInv
    <3>4. case'[c].term = case[c].term
      BY <1>1, <3>3 DEF CaseStable
    <3>5. case[c].due \in Nat /\ case[c].term \in Nat \cup {None}
          /\ Terms(c).sanctionRecord \in Nat
      BY <1>2, <3>2, <3>3 DEF CaseRow, Schedule
    <3>6. now >= MarkHorizon(c) + Terms(c).sanctionRecord
      BY <3>1, <3>2 DEF TailElapsed
    <3>7. /\ MarkHorizon(c) \in Nat /\ case[c].due <= MarkHorizon(c)
          /\ case[c].term # None => case[c].term <= MarkHorizon(c)
      BY <3>5 DEF MarkHorizon
    <3>8. /\ case[c].due + Terms(c).sanctionRecord <= now'
          /\ case[c].term # None => case[c].term + Terms(c).sanctionRecord <= now'
      <4>1. case[c].due + Terms(c).sanctionRecord <= now'
        BY <1>1, <1>2, <3>5, <3>6, <3>7 DEF CaseStable
      <4>2. case[c].term \in Nat => case[c].term + Terms(c).sanctionRecord <= now'
        BY <1>1, <1>2, <3>5, <3>6, <3>7, EvidenceAssumption DEF CaseStable
      <4>3. QED
        BY <3>5, <4>1, <4>2
    <3>9. QED
      BY <2>2, <3>3, <3>4, <3>8
  <2>4. CASE ~case[c].verdicts
    <3>1. case[c].stage = "decided"
      BY <1>2, <2>1, <2>4 DEF OpenInv, CaseRow
    <3>2. case'[c].term = case[c].term
      BY <1>1, <3>1 DEF CaseStable
    <3>3. /\ case[c].due + Terms(c).sanctionRecord <= now
          /\ case[c].term # None => /\ case[c].term # Permanent
                                    /\ case[c].term + Terms(c).sanctionRecord <= now
      BY <2>4, <3>1 DEF TermsOutliveRecord
    <3>4. Terms(c) # None /\ Terms(c) \in Schedule
      BY <2>4, <3>1, Schedules DEF TermsInv
    <3>5. /\ Terms(c).sanctionRecord \in Nat /\ case[c].due \in Nat /\ now' \in Nat
          /\ case[c].term \in Nat \cup {None, Permanent}
      BY <1>1, <1>2, <3>4 DEF Schedule, CaseRow, CaseStable
    <3>6. QED
      BY <1>2, <2>2, <3>2, <3>3, <3>5
  <2>5. QED
    BY <2>3, <2>4
<1>4. QED
  BY <1>3 DEF TermsInv

-----------------------------------------------------------------------------
(* The preservation duty.                                                  *)

\* A filing that has attached its images goes on to hold its case, or a restart
\* takes it and its images count as overtaken.
LEMMA FilingGoesOn ==
  ASSUME TypeOK, RequestInv, [Next]_vars, NEW f \in Client,
         request[f].pc \in {"attached", "held"}
  PROVE  \/ /\ request'[f].pc \in {"attached", "held"}
            /\ request'[f].case = request[f].case /\ request'[f].names = request[f].names
         \/ HoldCase(f)
         \/ request[f].names \subseteq overtaken'
<1> USE DEF custody
<1>1. ASSUME request'[f] = request[f]
      PROVE  /\ request'[f].pc \in {"attached", "held"}
             /\ request'[f].case = request[f].case /\ request'[f].names = request[f].names
  BY <1>1
<1>2. ASSUME NEW g \in Client, g # f, NEW new, request' = [request EXCEPT ![g] = new]
      PROVE  request'[f] = request[f]
  BY <1>2 DEF TypeOK
<1>3. CASE Upload
  <2>1. PICK g \in Client : (\E k \in Key, i \in Image : UploadAsk(g, k, i)) \/ UploadStore(g)
    BY <1>3 DEF Upload
  <2>2. g # f /\ \E new : request' = [request EXCEPT ![g] = new]
    BY <2>1 DEF UploadAsk, UploadStore
  <2>3. QED
    BY <1>1, <1>2, <2>2
<1>4. CASE File
  <2>1. ASSUME NEW g \in Client, NEW c \in Case, NEW kind \in {"report", "response"},
               NEW p \in Preimage[c], Verify(g, c, kind, p)
        PROVE  request'[f] = request[f]
    BY <1>2, <2>1 DEF Verify
  <2>2. ASSUME NEW g \in Client,
               StoreFiling(g) \/ OpenOrJoin(g) \/ Attach(g) \/ Fails(g)
        PROVE  request'[f] = request[f]
    <3>1. g # f
      BY <2>2 DEF StoreFiling, OpenOrJoin, Attach, Fails
    <3>2. QED
      BY <2>2, <3>1 DEF StoreFiling, OpenOrJoin, Attach, Fails, TypeOK
  <2>3. ASSUME NEW g \in Client, HoldImages(g) \/ HoldCase(g), g # f
        PROVE  request'[f] = request[f]
    BY <2>3 DEF HoldImages, HoldCase, TypeOK
  <2>4. ASSUME HoldImages(f)
        PROVE  /\ request'[f].pc = "held"
               /\ request'[f].case = request[f].case /\ request'[f].names = request[f].names
    BY <2>4, RequestPhase DEF HoldImages, TypeOK
  <2>5. QED
    BY <1>1, <1>4, <2>1, <2>2, <2>3, <2>4 DEF File
<1>5. CASE Refuse \/ Proceed \/ Retention
  <2>1. UNCHANGED request
    BY <1>5 DEF Refuse, RefuseMedia, Proceed, Decide, Ban, DismissOverdue, FileClaim,
                ResolveClaim, RecordReferral, Retention, SweepBegin, DropHold, SweepUploads,
                ListMedia, DeleteMedia, ListRecords, DeleteRecord, ListSanctions,
                DeleteSanction, SweepEnd
  <2>2. QED
    BY <1>1, <2>1
<1>6. CASE Tick
  BY <1>6 DEF Tick
<1>7. CASE Crash
  BY <1>7 DEF Crash
<1>8. CASE UNCHANGED vars
  BY <1>1, <1>8 DEF vars
<1>9. QED
  BY <1>3, <1>4, <1>5, <1>6, <1>7, <1>8 DEF Next

LEMMA HoldsCase ==
  ASSUME TypeOK, RequestInv, NEW f \in Client, HoldCase(f)
  PROVE  hold'[request[f].case] # None
<1>1. request[f].case \in Holdable
  BY DEF HoldCase, RequestInv, Holdable
<1>2. request[f].at + Terms(request[f].case).preservation[request[f].case] \in Nat
  BY Period DEF HoldCase
<1>3. QED
  BY <1>1, <1>2, LaterTyped, EvidenceAssumption DEF HoldCase, TypeOK

\* A hold on a case is dropped only once the referral is on the ledger.
LEMMA Owed ==
  ASSUME TypeOK, RequestInv, SweepInv, [Next]_vars, NEW c \in Case,
         hold[c] # None \/ c \in ledger
  PROVE  hold'[c] # None \/ c \in ledger'
<1> USE DEF custody
<1>1. ledger \subseteq ledger'
  BY CasesStay DEF CaseStable
<1>2. ASSUME UNCHANGED hold PROVE hold'[c] # None \/ c \in ledger'
  BY <1>1, <1>2
<1>3. CASE Upload \/ Refuse \/ Proceed
  BY <1>2, <1>3
     DEF Upload, UploadAsk, UploadStore, Refuse, RefuseMedia, Proceed, Decide, Ban,
         DismissOverdue, FileClaim, ResolveClaim, RecordReferral
<1>4. CASE File
  <2>1. ASSUME NEW f \in Client, HoldImages(f) PROVE hold'[c] = hold[c]
    BY <2>1, EvidenceAssumption DEF HoldImages, TypeOK, Request, Holdable
  <2>2. ASSUME NEW f \in Client, HoldCase(f) PROVE hold'[c] = hold[c] \/ hold'[c] # None
    <3>1. CASE request[f].case = c
      BY <2>2, <3>1, HoldsCase
    <3>2. CASE request[f].case # c
      BY <2>2, <3>2 DEF HoldCase, TypeOK, Holdable
    <3>3. QED
      BY <3>1, <3>2
  <2>3. QED
    BY <1>1, <1>2, <1>4, <2>1, <2>2
       DEF File, Verify, StoreFiling, OpenOrJoin, Attach, Fails
<1>5. CASE Retention
  <2>1. ASSUME NEW s \in Holdable, DropHold(s) PROVE hold'[c] # None \/ c \in ledger'
    <3>1. CASE s = c
      BY <1>1, <2>1, <3>1 DEF DropHold, SweepInv
    <3>2. CASE s # c
      BY <1>1, <2>1, <3>2 DEF DropHold, TypeOK, Holdable
    <3>3. QED
      BY <3>1, <3>2
  <2>2. QED
    BY <1>2, <1>5, <2>1
       DEF Retention, SweepBegin, SweepUploads, ListMedia, DeleteMedia, ListRecords,
           DeleteRecord, ListSanctions, DeleteSanction, SweepEnd
<1>6. CASE Tick \/ Crash \/ UNCHANGED vars
  BY <1>2, <1>6 DEF Tick, Crash, vars
<1>7. QED
  BY <1>3, <1>4, <1>5, <1>6 DEF Next

LEMMA DutyInvStep ==
  ASSUME TypeOK, RequestInv, SweepInv, DutyInv, [Next]_vars
  PROVE  DutyInv'
<1>1. overtaken \subseteq overtaken'
  BY CasesStay DEF CaseStable
<1> SUFFICES ASSUME NEW c \in Preserving, NEW d \in Digest, <<d, c>> \in attached',
                    d \notin overtaken',
                    \A f \in Client : request'[f].pc \in {"attached", "held"}
                                      /\ request'[f].case = c => d \notin request'[f].names
             PROVE  hold'[c] # None \/ c \in ledger'
  BY DEF DutyInv
<1>2. c \in Case
  BY EvidenceAssumption
<1>3. CASE <<d, c>> \notin attached
  <2>1. PICK f \in Client : Attach(f)
    BY <1>3, AttachesOnly
  <2>2. request[f].case = c /\ d \in request[f].names
    BY <1>3, <2>1 DEF Attach
  <2>3. request'[f] = [request[f] EXCEPT !.pc = "attached"]
    BY <2>1, <2>2 DEF Attach, NeedsTerms, TypeOK
  <2>4. request'[f].pc = "attached" /\ request'[f].case = c /\ d \in request'[f].names
    BY <2>2, <2>3 DEF TypeOK, Request
  <2>5. QED
    BY <2>4
<1>4. CASE /\ <<d, c>> \in attached
           /\ \A f \in Client : request[f].pc \in {"attached", "held"} /\ request[f].case = c =>
                d \notin request[f].names
  BY <1>1, <1>2, <1>4, Owed DEF DutyInv
<1>5. ASSUME NEW f \in Client, request[f].pc \in {"attached", "held"}, request[f].case = c,
             d \in request[f].names
      PROVE  hold'[c] # None
  BY <1>5, FilingGoesOn, HoldsCase
<1>6. QED
  BY <1>3, <1>4, <1>5

LEMMA DutyStep ==
  ASSUME TypeOK, RequestInv, SweepInv, AttachedInv, DutyInv', DutyOnBooks, [Next]_vars
  PROVE  DutyOnBooks'
<1>1. CaseStable /\ MediaStable
  BY CasesStay, MediaStays
<1> SUFFICES ASSUME NEW c \in Preserving, NEW d \in Digest, <<d, c>> \in attached',
                    d \notin overtaken',
                    \A f \in Client : request'[f].pc \in {"attached", "held"} =>
                                        d \notin request'[f].names
             PROVE  /\ hold'[c] # None \/ c \in ledger'
                    /\ blob'[d] # None => ~blob'[d].viewable
  BY DEF DutyOnBooks
<1>2. hold'[c] # None \/ c \in ledger'
  BY DEF DutyInv
<1>3. ASSUME blob'[d] # None PROVE ~blob'[d].viewable
  <2>1. c \in Case /\ d \notin overtaken
    BY <1>1, EvidenceAssumption DEF CaseStable
  <2>2. <<d, c>> \in attached
    <3> SUFFICES ASSUME <<d, c>> \notin attached PROVE FALSE
      OBVIOUS
    <3>1. PICK f \in Client : Attach(f)
      BY AttachesOnly
    <3>2. request[f].case = c /\ d \in request[f].names
      BY <3>1 DEF Attach
    <3>3. request'[f] = [request[f] EXCEPT !.pc = "attached"]
      BY <3>1, <3>2 DEF Attach, NeedsTerms, TypeOK
    <3>4. request'[f].pc = "attached" /\ d \in request'[f].names
      BY <3>2, <3>3 DEF TypeOK, Request
    <3>5. QED
      BY <3>4
  <2>3. blob[d] # None
    BY <2>1, <2>2 DEF AttachedInv
  <2>4. ~blob[d].viewable
    <3>1. CASE \A f \in Client : request[f].pc \in {"attached", "held"} =>
                 d \notin request[f].names
      BY <2>1, <2>2, <2>3, <3>1 DEF DutyOnBooks
    <3>2. ASSUME NEW f \in Client, request[f].pc \in {"attached", "held"},
                 d \in request[f].names
          PROVE  ~blob[d].viewable
      <4>1. HoldCase(f)
        BY <3>2, FilingGoesOn
      <4>2. request[f].pc = "held"
        BY <4>1 DEF HoldCase
      <4>3. QED
        BY <2>1, <2>3, <3>2, <4>2 DEF RequestInv
    <3>3. QED
      BY <3>1, <3>2
  <2>5. QED
    BY <1>1, <1>3, <2>3, <2>4 DEF MediaStable
<1>4. QED
  BY <1>2, <1>3

-----------------------------------------------------------------------------
(* The theorems.                                                           *)

LEMMA InitHolds == Init => IInv
<1> SUFFICES ASSUME Init PROVE IInv
  OBVIOUS
<1>1. TypeOK
  BY InitTyped
<1>2. RequestInv
  BY DEF Init, RequestInv, Idle
<1>3. OpenInv /\ TermsInv /\ TermsOutliveRecord
  BY DEF Init, OpenInv, TermsInv, TermsOutliveRecord, NoCase
<1>4. AttachedInv /\ DutyInv /\ DutyOnBooks
  BY DEF Init, AttachedInv, DutyInv, DutyOnBooks
<1>5. SweepInv
  BY DEF Init, SweepInv, Resting
<1>6. QED
  BY <1>1, <1>2, <1>3, <1>4, <1>5 DEF IInv

LEMMA StepHolds == IInv /\ [Next]_vars => IInv'
<1> SUFFICES ASSUME IInv, [Next]_vars PROVE IInv'
  OBVIOUS
<1> USE DEF IInv
<1>1. TypeOK'
  BY TypingStep
<1>2. RequestInv' /\ OpenInv' /\ AttachedInv' /\ SweepInv'
  BY RequestStep, OpenStep, AttachedStep, SweepStep
<1>3. TermsInv'
  BY TermsStep
<1>4. TermsOutliveRecord'
  BY <1>3, OutliveStep
<1>5. DutyInv'
  BY DutyInvStep
<1>6. DutyOnBooks'
  BY <1>5, DutyStep
<1>7. QED
  BY <1>1, <1>2, <1>3, <1>4, <1>5, <1>6

\* The inductive invariant: what requests in flight and the sweep rely on, what
\* is kept of a case, and the terms and duties it is kept under.
THEOREM Inductive == Spec => []IInv
BY InitHolds, StepHolds, PTL DEF Spec

\* Every row, hold, request and sweep has its type in every reachable state.
THEOREM Typing == Spec => []TypeOK
<1>1. IInv => TypeOK
  BY DEF IInv
<1>2. QED
  BY Inductive, <1>1, PTL

\* A case rests only on images still on file, whatever reporters refresh, a
\* refusal deletes or the sweep expires meanwhile - but for overtaken ones.
THEOREM OnFile == Spec => []MediaOnFile
<1>1. IInv => MediaOnFile
  BY DEF IInv, AttachedInv, MediaOnFile, MediaOf, Package
<1>2. QED
  BY Inductive, <1>1, PTL

\* Once a filing on a preserving class is through, its case is held until it is
\* on the ledger of referrals, and nobody can view its images.
THEOREM Duty == Spec => []DutyOnBooks
<1>1. IInv => DutyOnBooks
  BY DEF IInv
<1>2. QED
  BY Inductive, <1>1, PTL

\* The verdicts outlive the marks they justify, and the mandate the record.
THEOREM TermsKept == Spec => []TermsOutliveRecord
<1>1. IInv => TermsOutliveRecord
  BY DEF IInv
<1>2. QED
  BY Inductive, <1>1, PTL

\* No step deletes anything under a live hold, even from a list read before the
\* hold was placed: a hold placed since is on a case not yet due for deletion.
THEOREM Held == Spec => HeldKept
<1> DEFINE Keeps ==
      /\ \A d \in Digest : blob[d] # None /\ blob'[d] = None =>
           /\ ~Preserved(d, now)
           /\ \A c \in Case : <<d, c>> \in attached => ~Preserved(c, now)
      /\ \A c \in Case : Preserved(c, now) =>
           /\ MediaOf(c) \subseteq {d \in Digest : <<d, c>> \in attached'}
           /\ case[c].record => case'[c].record
<1>1. IInv /\ [Next]_vars => [Keeps]_vars
  <2> SUFFICES ASSUME IInv, [Next]_vars PROVE Keeps
    OBVIOUS
  <2>1. MediaStable
    BY MediaStays DEF IInv
  <2>2. \A c \in Case : Preserved(c, now) =>
          MediaOf(c) \subseteq {d \in Digest : <<d, c>> \in attached'}
    BY <2>1 DEF MediaStable, MediaOf
  <2>3. \A c \in Case : Preserved(c, now) /\ case[c].record => case'[c].record
    BY RecordGoes DEF IInv
  <2>4. QED
    BY <2>1, <2>2, <2>3 DEF MediaStable
<1>2. QED
  BY Inductive, <1>1, PTL DEF Spec, HeldKept

=============================================================================
