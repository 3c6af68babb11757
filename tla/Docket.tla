------------------------------- MODULE Docket -------------------------------
(***************************************************************************)
(* The docket of one device at the Apple interface: how the authority's    *)
(* verdicts get on file (src/apple/src/api.rs, receive_verdict; verdict.rs *)
(* and store.rs), and what the record then says: the marks (MarksFold.tla) *)
(* and the notices of open cases that go with a session's answer           *)
(* (enforcement.rs, open_case_notices).                                    *)
(*                                                                         *)
(* A verdict stands for its signing bytes, so one that differs in any      *)
(* field is another verdict; a manifest stands for its hash.  Signatures   *)
(* are enforced.  The case stays on the binding of its mandate: what       *)
(* recovery moves is in Enforcement.tla.                                   *)
(***************************************************************************)
EXTENDS MarksFold

CONSTANTS
  Class, Key, Party,
  Manifest,    \* manifests that may be put to the interface
  Mandate,     \* mandates the interface may be asked to countersign
  Document,    \* the rest of each verdict
  Submission,  \* what the authority's token may send: see DocketAssumption
  Handler,     \* requests in flight at once
  Tolerance,   \* TOLERANCE_SECONDS
  Skew,        \* MAX_DECISION_CLOCK_SKEW_SECONDS
  None,
  Instant,     \* bound: the times at which anything happens
  MaxFile      \* bound: verdicts on file

Terms == [response: Nat, decision: Nat, appeal: Nat,
          suspensive: BOOLEAN, term: Nat \cup {Permanent}]
AuthorityManifest == [component: Party, key: Key, classes: [Class -> Terms \cup {None}]]
ModerationMandate == [authority: Party, user: User, binding: Party,
                      manifest: Manifest, classes: SUBSET Class]
\* sanctioned: an appeal deadline and the other fields of a ban
Rest == [mandate: Mandate, authority: Party, binding: Party, class: Class, marks: Bits,
         appeal: Nat \cup {None}, sanctioned: BOOLEAN, reasoned: BOOLEAN]
VerdictSubmission == [verdict: Verdict, manifest: Manifest, signer: Key]

ASSUME DocketAssumption ==
  /\ {Tolerance, Skew, MaxFile} \subseteq Nat
  /\ Instant \subseteq Nat /\ 0 \in Instant
  /\ Manifest \subseteq AuthorityManifest
  /\ Mandate \subseteq ModerationMandate
  /\ Document \in [Verdict -> Rest]
  /\ Submission \subseteq VerdictSubmission

VARIABLES
  mandates,    \* the mandates table: absent, or whether manifest_raw is there
  handler      \* receive_verdict, request by request

docketVars == <<arrived, executed, at, mandates, superseded, handler>>

Free == [pc |-> "idle", verdict |-> None]

DocketTypeOK ==
  /\ arrived \in Seq(Verdict) /\ IsInjective(arrived)
  /\ executed \subseteq File /\ superseded \subseteq File
  /\ at \in Instant
  /\ mandates \in [Mandate -> {"absent", "bare", "pinned"}]
  /\ handler \in [Handler -> {Free} \cup [pc: {"store", "supersede"}, verdict: Verdict]]

DocketInit ==
  /\ arrived = <<>>
  /\ executed = {} /\ superseded = {}
  /\ at = 0
  /\ mandates = [m \in Mandate |-> "absent"]
  /\ handler = [h \in Handler |-> Free]

\* put_mandate, at the end of a countersignature (Consent.tla has the rest):
\* INSERT OR REPLACE, and the row's manifest is gone.
PutMandate(m) ==
  /\ mandates' = [mandates EXCEPT ![m] = "bare"]
  /\ UNCHANGED <<arrived, executed, at, superseded, handler>>

-----------------------------------------------------------------------------
(* Validation (verdict.rs).                                                *)

Near(t, u) == t <= u + Tolerance /\ u <= t + Tolerance

ValidOpenCase(d) ==
  d.marks = [caseOpen |-> TRUE, banned |-> FALSE] /\ ~d.sanctioned

ValidDismissal(d) == d.marks = Clean

ConsentedStart(v, d, terms) == IF terms.suspensive THEN d.appeal ELSE v.decidedAt

ConsentedEnd(v, terms) ==
  IF terms.term = Permanent THEN v.expires = Permanent
  ELSE v.expires # Permanent /\ Near(v.expires, v.executeAfter + terms.term)

ValidBan(v, d, terms) ==
  /\ terms # None
  /\ d.marks = [caseOpen |-> FALSE, banned |-> TRUE]
  /\ d.appeal # None
  /\ Near(d.appeal, v.decidedAt + terms.appeal)
  /\ Near(v.executeAfter, ConsentedStart(v, d, terms))
  /\ ConsentedEnd(v, terms)

Valid(s) ==
  LET v == s.verdict
      d == Document[v]
      m == d.mandate
  IN
  /\ s.signer = s.manifest.key
  /\ v.decidedAt <= at + Skew
  /\ d.authority = m.authority
  /\ d.binding = m.binding
  /\ v.user = m.user
  /\ d.class \in m.classes
  /\ d.reasoned
  /\ CASE v.kind = "open-case" -> ValidOpenCase(d)
       [] v.kind = "dismiss" -> ValidDismissal(d)
       [] v.kind = "ban" -> ValidBan(v, d, s.manifest.classes[d.class])

-----------------------------------------------------------------------------
(* Receiving a verdict.                                                    *)

\* The submitted manifest is the one the mandate pins; a mutant takes any
\* manifest of the mandate's authority.
PinsByName(s, m) == s.manifest.component = m.authority
Pins(s, m) == s.manifest = m.manifest /\ s.manifest.component = m.authority

\* Up to validation.  The manifest is attached before the verdict is judged.
Receive(h, s) ==
  LET m == Document[s.verdict].mandate IN
  /\ handler[h] = Free
  /\ s.verdict \in File \/ Len(arrived) < MaxFile
  /\ mandates[m] # "absent"
  /\ Pins(s, m)
  /\ mandates' = [mandates EXCEPT ![m] = "pinned"]
  /\ handler' = IF Valid(s)
                  THEN [handler EXCEPT ![h] = [pc |-> "store", verdict |-> s.verdict]]
                  ELSE handler
  /\ UNCHANGED <<arrived, executed, at, superseded>>

Stored(h) == [handler EXCEPT ![h] = IF @.verdict.kind = "open-case" THEN Free
                                    ELSE [@ EXCEPT !.pc = "supersede"]]

\* A verdict is stored once, however often it is delivered.
PutVerdict(h) ==
  LET v == handler[h].verdict IN
  /\ handler[h].pc = "store"
  /\ arrived' = IF v \in File THEN arrived ELSE Append(arrived, v)
  /\ handler' = Stored(h)
  /\ UNCHANGED <<executed, at, mandates, superseded>>

SupersedeOpenCase(h) ==
  /\ handler[h].pc = "supersede"
  /\ superseded' = superseded \cup
       {v \in File : v.kind = "open-case" /\ v.case = handler[h].verdict.case}
  /\ handler' = [handler EXCEPT ![h] = Free]
  /\ UNCHANGED <<arrived, executed, at, mandates>>

-----------------------------------------------------------------------------
(* What a session makes of the record.                                     *)

\* A write that Apple took: Enforcement.tla has the session around it.
Execute ==
  /\ executed' = executed \cup {v \in Folded.realizes : v.kind = "ban"}
  /\ executed' # executed
  /\ UNCHANGED <<arrived, at, mandates, superseded, handler>>

Noticed(c) ==
  {v \in File : v.kind = "open-case" /\ v.case = c /\ v \notin superseded}
Newest(S) == IF S = {} THEN {} ELSE {ReadLast(S)}

\* The deadlines of a notice come from the manifest of its mandate.
Renders(v) ==
  LET d == Document[v] IN
  /\ mandates[d.mandate] = "pinned"
  /\ d.mandate.manifest.classes[d.class] # None

\* open_case_notices: of each case the newest notice, or none; a mutant
\* falls back to the newest that can be rendered.
NoticesThatRender ==
  UNION {Newest({v \in Noticed(c) : Renders(v)}) : c \in Case}
Notices == {v \in UNION {Newest(Noticed(c)) : c \in Case} : Renders(v)}

-----------------------------------------------------------------------------
DocketRestart ==
  /\ handler # [h \in Handler |-> Free]
  /\ handler' = [h \in Handler |-> Free]
  /\ UNCHANGED <<arrived, executed, at, mandates, superseded>>

Tick ==
  /\ \E t \in Instant : t > at /\ at' = t
  /\ UNCHANGED <<arrived, executed, mandates, superseded, handler>>

DocketNext ==
  \/ \E m \in Mandate : PutMandate(m)
  \/ \E h \in Handler : \/ \E s \in Submission : Receive(h, s)
                        \/ PutVerdict(h)
                        \/ SupersedeOpenCase(h)
  \/ Execute
  \/ DocketRestart
  \/ Tick

DocketSpec == DocketInit /\ [][DocketNext]_docketVars

-----------------------------------------------------------------------------
(* Properties.                                                             *)

\* The loop computes what Marks.tla says of the rows it reads, whatever the
\* order of arrival: the bits, the bans the write puts into effect and
\* whether one of them is on a device already.
FoldMatchesReference ==
  /\ FoldedBits = Intended(Live, at)
  /\ {v \in Folded.realizes : v.kind = "ban"} = BansInForce(Live, at)
  /\ FoldedBanExecuted <=> BansInForce(Live, at) \cap executed # {}

\* The loop passes over the notices that a ruling has superseded.  Where no
\* notice is later than a ruling of its case, that changes nothing, so the
\* marks depend on the signed decisions alone.
NoNoticeAfterRuling ==
  \A o, w \in File : o.kind = "open-case" /\ w.kind # "open-case" /\ w.case = o.case =>
    Later(w, o)
SupersedingIsRedundant == NoNoticeAfterRuling => Intended(Live, at) = Intended(File, at)

\* A write is logged against the verdict that justifies it: a mark that is
\* set names a verdict that sets it and still stands, never a dismissal or
\* a notice of some other case that happens to be newer.
AuthorizerJustifies ==
  LET bits == Intended(Live, at) IN
  /\ bits.banned =>
       \E v \in AuthorizedBy : v \in BansInForce(Live, at)
  /\ ~bits.banned /\ bits.caseOpen =>
       \E v \in AuthorizedBy : v.kind = "open-case" /\ v.case \in OpenCases(Live)

\* Recovery's reading of the record (binding_state, newest row per case)
\* never misses what the marks show: a mark the loop would set is a case
\* recovery sees as open or a ban it refuses to move.
StateCoversMarks ==
  /\ FoldedBits.caseOpen => StateOpen(Live)
  /\ FoldedBits.banned => StateOpen(Live) \/ StateBanned(Live, at)

\* The readings of one record agree: the loop with the definition, the row
\* it names with the mark it sets, and recovery's shortcut with both
\* (enforcement.rs, intended_marks and binding_state).
ReadingsAgree ==
  /\ FoldMatchesReference
  /\ SupersedingIsRedundant
  /\ AuthorizerJustifies
  /\ StateCoversMarks

\* The sanction a user can receive is the one they read before signing
\* (verdict.rs, validate_ban): a ban on file begins and ends where the
\* manifest its mandate pins puts it, counted from the decision, give or
\* take the tolerance of each of the derived dates in between.
BanWithinConsent ==
  \A b \in File : b.kind = "ban" =>
    LET d == Document[b]
        terms == d.mandate.manifest.classes[d.class]
        start == IF terms.suspensive THEN b.decidedAt + terms.appeal ELSE b.decidedAt
        slips == IF terms.suspensive THEN 2 * Tolerance ELSE Tolerance
    IN
    /\ b.executeAfter + slips >= start
    /\ b.executeAfter <= start + slips
    /\ IF b.expires = Permanent THEN terms.term = Permanent
       ELSE /\ terms.term # Permanent
            /\ b.expires <= start + terms.term + slips + Tolerance

\* What an accused person is shown of a case never goes back to an earlier
\* notice, though notices arrive in any order and a mandate countersigned
\* again has lost its manifest (enforcement.rs, open_case_notices).
NoticesAdvance ==
  [][\A n \in Notices, o \in Notices' : n.case = o.case =>
       ~Later(n, o)]_docketVars

-----------------------------------------------------------------------------
(* The inductive invariant: a ban is on file, or on its way there, only    *)
(* when it was valid under the manifest its mandate pins.  The clock may   *)
(* move between the two and the mandate's row may lose its manifest; the   *)
(* verdict and what the mandate pins stay what they were.                  *)

Judged(v) ==
  v.kind = "ban" =>
    ValidBan(v, Document[v], Document[v].mandate.manifest.classes[Document[v].class])

JudgedInv ==
  /\ \A v \in File : Judged(v)
  /\ \A h \in Handler : handler[h] # Free => Judged(handler[h].verdict)

\* A notice is superseded only once a ruling of its case is on file.
SupersededInv ==
  /\ \A o \in superseded :
       o.kind = "open-case"
         /\ \E w \in File : w.kind # "open-case" /\ w.case = o.case
  /\ \A h \in Handler : handler[h].pc = "supersede" =>
       handler[h].verdict \in File /\ handler[h].verdict.kind # "open-case"

DocketInv == DocketTypeOK /\ JudgedInv /\ SupersededInv
=============================================================================
