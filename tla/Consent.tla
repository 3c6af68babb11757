------------------------------ MODULE Consent -------------------------------
(***************************************************************************)
(* How consent reaches the authority: the Android interface issues         *)
(* challenges, admits signed sessions, enrolls devices and countersigns    *)
(* mandates (src/android/src/api.rs, store.rs, countersigning.rs); the     *)
(* authority registers what its manifest and its list of interface keys    *)
(* let it (src/authority/src/api.rs, accept_mandate); the operators rotate *)
(* the countersigning key between them.                                    *)
(*                                                                         *)
(* The clock counts half seconds and the tables hold whole seconds, as the *)
(* code truncates what it stores but not what it compares a session's      *)
(* stamp with.  A store method holds its connection's lock, so a step is   *)
(* one store call, one look at the issue window or one answer from Google. *)
(* A signature is the request it covers; what a 32-byte challenge or a     *)
(* hash never does, collide, never happens.                                *)
(***************************************************************************)
EXTENDS Naturals, Sequences, FiniteSets, SequencesExt

CONSTANTS
  User, Challenge, Binding,
  Manifest,       \* editions of the authority's manifest, 1..n
  ValidUntil,     \* their validUntil
  Mandate,        \* mandates users may sign, without the binding
  Request,        \* requests users may sign
  Caller,         \* challenge handlers in flight at once
  Session,        \* enroll and gate-check handlers in flight at once
  MaxSkew,        \* session_max_skew_secs
  ConsentSkew,    \* MAX_MANDATE_CLOCK_SKEW_SECONDS
  TTL,            \* challenge_ttl_secs
  MaxPerWindow,   \* MAX_CHALLENGES_PER_MINUTE
  Window,         \* the minute of that limit, in half seconds
  MaxOutstanding, \* MAX_OUTSTANDING_CHALLENGES
  None,
  MaxTime,        \* bound: the clock stops here
  MaxEpoch,       \* bound: rotations of the countersigning key
  MaxSteps        \* bound: requests served, operators' steps and restarts

ASSUME ConsentAssumption ==
  /\ {MaxSkew, ConsentSkew, TTL, MaxPerWindow, Window, MaxOutstanding,
      MaxTime, MaxEpoch, MaxSteps} \subseteq Nat
  /\ Manifest \subseteq Nat \ {0} /\ 1 \in Manifest
  /\ ValidUntil \in [Manifest -> Nat]
  /\ Mandate \subseteq [user: User, manifest: Manifest, acceptedAt: Nat]
  /\ Request \subseteq [user: User, purpose: {"enroll", "gate"},
                        challenge: Challenge, stamp: Nat]
  /\ None \notin Challenge \cup Binding \cup User
  /\ None \notin [purpose: {"enroll", "gate"}, expires: Nat, consumed: BOOLEAN]
  /\ IsFiniteSet(Caller) /\ Caller # {}

VARIABLES
  now,          \* half seconds
  \* the interface
  window,       \* challenge_window: where it began and how many it let through
  challenges, seen, enrollments, mandates,   \* tables
  caller, session,                           \* handlers in flight
  epoch,        \* the countersigning key in force for the authority
  \* users
  countersigned,
  \* the authority
  published,    \* the manifest on offer
  listed,       \* AUTHORITY_INTERFACE_KEY: keys, by epoch
  registered,   \* mandates, in rowid order
  \* history
  minted,       \* challenges issued
  admitted,     \* sessions admitted, by challenge
  burnt,        \* keys the authority has dropped
  steps         \* of those MaxSteps bounds

sessionVars == <<challenges, seen, enrollments, session, admitted>>
issueVars == <<window, caller, minted>>
keyVars == <<epoch, listed, burnt>>
consentVars == <<mandates, countersigned, published, registered>>
vars == <<now, steps, sessionVars, issueVars, keyVars, consentVars>>

Counted == steps < MaxSteps /\ steps' = steps + 1

Sec(t) == t \div 2
Gap(s, t) == IF s >= t THEN s - t ELSE t - s

Signed == [mandate: Mandate, binding: Binding]

Row == [purpose: {"enroll", "gate"}, expires: Nat, consumed: BOOLEAN]

\* What a signature covers, and stands for: the context of the purpose and
\* every field the request carries.
Payload(r) == <<r.purpose, r.challenge, r.user, r.stamp>>

TypeOK ==
  /\ now \in Nat /\ steps \in Nat /\ epoch \in Nat /\ published \in Manifest
  /\ window \in [start: Nat, issued: Nat]
  /\ challenges \in [Challenge -> Row \cup {None}]
  /\ seen \subseteq [signature: {Payload(r) : r \in Request}, at: Nat]
  /\ enrollments \in [User -> Binding \cup {None}]
  /\ mandates \subseteq Signed
  /\ caller \in [Caller -> {"idle", "count", "insert"}]
  /\ session \in [Session -> [pc: {"idle", "challenge", "attest", "enroll"},
                              request: Request \cup {None}]]
  /\ \A h \in Session : session[h].pc # "idle" => session[h].request \in Request
  /\ countersigned \subseteq [signed: Signed, key: Nat]
  /\ listed \in Seq(Nat) /\ burnt \subseteq Nat
  /\ registered \in Seq(Signed)
  /\ minted \subseteq Challenge
  /\ admitted \in [Challenge -> Nat]

Init ==
  /\ now = 1 /\ steps = 0
  /\ window = [start |-> 0, issued |-> 0]
  /\ challenges = [c \in Challenge |-> None]
  /\ seen = {} /\ mandates = {} /\ countersigned = {} /\ registered = <<>>
  /\ enrollments = [u \in User |-> None]
  /\ caller = [k \in Caller |-> "idle"]
  /\ session = [h \in Session |-> [pc |-> "idle", request |-> None]]
  /\ epoch = 0 /\ listed = <<0>> /\ burnt = {}
  /\ published = 1
  /\ minted = {}
  /\ admitted = [c \in Challenge |-> 0]

-----------------------------------------------------------------------------
(* Challenges.                                                             *)

Outstanding == {c \in Challenge : /\ challenges[c] # None
                                  /\ ~challenges[c].consumed
                                  /\ challenges[c].expires >= Sec(now)}

\* The fixed window of claim_challenge_issue_slot.
OpenWindow == IF now - window.start >= Window
                THEN [start |-> now, issued |-> 0] ELSE window

ClaimSlot(k) ==
  /\ Counted
  /\ caller[k] = "idle"
  /\ OpenWindow.issued < MaxPerWindow
  /\ window' = [OpenWindow EXCEPT !.issued = @ + 1]
  /\ caller' = [caller EXCEPT ![k] = "count"]
  /\ UNCHANGED <<now, sessionVars, keyVars, consentVars, minted>>

\* A mutant of CountOutstanding: the cap is checked too late by one.
CountPastCap(k) ==
  /\ caller[k] = "count"
  /\ caller' = [caller EXCEPT ![k] =
       IF Cardinality(Outstanding) > MaxOutstanding THEN "idle" ELSE "insert"]
  /\ UNCHANGED <<now, steps, sessionVars, keyVars, consentVars, window, minted>>

CountOutstanding(k) ==
  /\ caller[k] = "count"
  /\ caller' = [caller EXCEPT ![k] =
       IF Cardinality(Outstanding) >= MaxOutstanding THEN "idle" ELSE "insert"]
  /\ UNCHANGED <<now, steps, sessionVars, keyVars, consentVars, window, minted>>

\* The expired rows are swept on the way past.
IssueChallenge(k, c, purpose) ==
  /\ caller[k] = "insert"
  /\ c \notin minted
  /\ minted' = minted \cup {c}
  /\ challenges' =
       [d \in Challenge |->
          IF d = c THEN [purpose |-> purpose, expires |-> Sec(now) + TTL,
                         consumed |-> FALSE]
          ELSE IF challenges[d] # None /\ challenges[d].expires < Sec(now) THEN None
          ELSE challenges[d]]
  /\ caller' = [caller EXCEPT ![k] = "idle"]
  /\ UNCHANGED <<now, steps, seen, enrollments, session, admitted, keyVars, consentVars, window>>

-----------------------------------------------------------------------------
(* Signed sessions.                                                        *)

Leave(h) == session' = [session EXCEPT ![h] = [pc |-> "idle", request |-> None]]

\* claim_session: the stamp is near enough and the signature has not been
\* seen; what is older than two skews is swept on the way past.  The request
\* may be a first presentation or a repetition of an earlier one.
ClaimSession(h, r) ==
  /\ Counted
  /\ session[h].pc = "idle"
  /\ r.challenge \in minted
  /\ Sec(Gap(now, 2 * r.stamp)) <= MaxSkew
  /\ LET kept == {s \in seen : s.at + 2 * MaxSkew >= Sec(now)} IN
     IF \E s \in kept : s.signature = Payload(r)
       THEN seen' = kept /\ UNCHANGED session
       ELSE /\ seen' = kept \cup {[signature |-> Payload(r), at |-> Sec(now)]}
            /\ session' = [session EXCEPT ![h] = [pc |-> "challenge", request |-> r]]
  /\ UNCHANGED <<now, challenges, enrollments, admitted, issueVars, keyVars, consentVars>>

\* The WHERE clause of claim_challenge; a mutant without its consumed_at.
PresentableAgain(c, purpose) ==
  /\ challenges[c] # None
  /\ challenges[c].purpose = purpose
  /\ challenges[c].expires >= Sec(now)
Presentable(c, purpose) ==
  /\ challenges[c] # None
  /\ challenges[c].purpose = purpose
  /\ ~challenges[c].consumed
  /\ challenges[c].expires >= Sec(now)

\* A gate check goes on to Google and the record: Recall.tla has the rest.
ClaimChallenge(h) ==
  LET r == session[h].request IN
  /\ session[h].pc = "challenge"
  /\ IF Presentable(r.challenge, r.purpose)
       THEN /\ challenges' = [challenges EXCEPT ![r.challenge].consumed = TRUE]
            /\ admitted' = [admitted EXCEPT ![r.challenge] = @ + 1]
            /\ IF r.purpose = "enroll"
                 THEN session' = [session EXCEPT ![h].pc = "attest"]
                 ELSE Leave(h)
       ELSE /\ Leave(h)
            /\ UNCHANGED <<challenges, admitted>>
  /\ UNCHANGED <<now, steps, seen, enrollments, issueVars, keyVars, consentVars>>

\* Google's answer: a device of ours without the banned mark goes on; an
\* invalid token, a marked device or no answer ends the request, and the
\* challenge is spent.
Attest(h) ==
  /\ session[h].pc = "attest"
  /\ session' = [session EXCEPT ![h].pc = "enroll"] \/ Leave(h)
  /\ UNCHANGED <<now, steps, challenges, seen, enrollments, admitted, issueVars, keyVars,
                 consentVars>>

\* Read-or-create, keyed on the identity.
EnrollmentFor(h) ==
  LET u == session[h].request.user IN
  /\ session[h].pc = "enroll"
  /\ IF enrollments[u] # None THEN UNCHANGED enrollments
     ELSE \E b \in Binding \ Range(enrollments) :
            enrollments' = [enrollments EXCEPT ![u] = b]
  /\ Leave(h)
  /\ UNCHANGED <<now, steps, challenges, seen, admitted, issueVars, keyVars, consentVars>>

-----------------------------------------------------------------------------
(* Mandates.                                                               *)

InConsentSkew(m) == m.acceptedAt <= Sec(now) + ConsentSkew

\* The key for the authority: the root at epoch 0, derived from it at a later
\* one, so that keys differ as their epochs do.
KeyInForce == epoch

\* The row is written before the countersignature is handed back.  No other
\* request changes what the handler reads, so it is one step.
Countersign(m) ==
  LET signed == [mandate |-> m, binding |-> enrollments[m.user]] IN
  /\ Counted
  /\ InConsentSkew(m)
  /\ enrollments[m.user] # None
  /\ mandates' = mandates \cup {signed}
  /\ countersigned' = countersigned \cup {[signed |-> signed, key |-> KeyInForce]}
  /\ UNCHANGED <<now, sessionVars, issueVars, keyVars, published, registered>>

\* Which keys may witness: any of those listed; a mutant, the first.
WitnessedByFirst(key) == key = Head(listed)
Witnessed(key) == key \in Range(listed)

\* INSERT OR IGNORE; a mutant that replaces, as the interface's table does.
Replaced(signed) == Append(SelectSeq(registered, LAMBDA s : s # signed), signed)
Inserted(signed) ==
  IF signed \in Range(registered) THEN registered ELSE Append(registered, signed)

AcceptMandate(c) ==
  /\ Counted
  /\ c \in countersigned
  /\ Sec(now) <= ValidUntil[published]
  /\ c.signed.mandate.manifest = published
  /\ Witnessed(c.key)
  /\ InConsentSkew(c.signed.mandate)
  /\ registered' = Inserted(c.signed)
  /\ UNCHANGED <<now, sessionVars, issueVars, keyVars, mandates, countersigned, published>>

\* The mandate a report's jurisdiction and terms are looked up by.
Newest(u) ==
  LET own == {row \in DOMAIN registered : registered[row].mandate.user = u}
  IN  IF own = {} THEN None ELSE registered[Max(own)]

Publish ==
  /\ Counted
  /\ published + 1 \in Manifest
  /\ published' = published + 1
  /\ UNCHANGED <<now, sessionVars, issueVars, keyVars, mandates, countersigned, registered>>

-----------------------------------------------------------------------------
(* Key rotation and the processes.                                         *)

\* The steps of the rotation: the authority lists the next key beside the
\* current one, the interface moves to it, the authority drops the old one.
ListKey ==
  /\ Counted
  /\ listed = <<epoch>>
  /\ epoch < MaxEpoch
  /\ listed' = <<epoch, epoch + 1>>
  /\ burnt' = burnt \ {epoch + 1}
  /\ UNCHANGED <<now, sessionVars, issueVars, consentVars, epoch>>

DropKey ==
  /\ Counted
  /\ listed # <<epoch>>
  /\ burnt' = burnt \cup (Range(listed) \ {epoch})
  /\ listed' = <<epoch>>
  /\ UNCHANGED <<now, sessionVars, issueVars, consentVars, epoch>>

\* The interface starts again, with any key the authority lists that has not
\* been burnt: the handlers in flight and the issue window are gone, the
\* tables are not.
Restart(e) ==
  /\ Counted
  /\ e \in Range(listed)
  /\ epoch' = e
  /\ window' = [start |-> 0, issued |-> 0]
  /\ caller' = [k \in Caller |-> "idle"]
  /\ session' = [h \in Session |-> [pc |-> "idle", request |-> None]]
  /\ UNCHANGED <<now, challenges, seen, enrollments, admitted, minted, listed, burnt,
                 consentVars>>

Tick ==
  /\ now < MaxTime
  /\ now' = now + 1
  /\ UNCHANGED <<steps, sessionVars, issueVars, keyVars, consentVars>>

IssueStep ==
  \E k \in Caller :
    \/ ClaimSlot(k)
    \/ CountOutstanding(k)
    \/ \E c \in Challenge, purpose \in {"enroll", "gate"} : IssueChallenge(k, c, purpose)

SessionStep ==
  \E h \in Session :
    \/ \E r \in Request : ClaimSession(h, r)
    \/ ClaimChallenge(h)
    \/ Attest(h)
    \/ EnrollmentFor(h)

Next ==
  \/ IssueStep
  \/ SessionStep
  \/ \E m \in Mandate : Countersign(m)
  \/ \E c \in countersigned : AcceptMandate(c)
  \/ Publish
  \/ ListKey
  \/ DropKey
  \/ \E e \in 0..MaxEpoch : Restart(e)
  \/ Tick

Spec == Init /\ [][Next]_vars

-----------------------------------------------------------------------------
(* Properties.                                                             *)

\* The handlers that pass the count of unspent challenges before one of them
\* inserts go over the cap, by one each and no more, so the table stays
\* bounded whatever the request rate (api.rs, claim_challenge_issue_slot).
OutstandingBounded ==
  Cardinality(Outstanding) <= MaxOutstanding + Cardinality(Caller) - 1

\* A challenge admits at most one session, though its request may be
\* repeated, by another handler, after a restart, and at the far edge of the
\* skew, where seen_signatures has already swept it (api.rs, claim_session).
AdmittedOnce == \A c \in Challenge : admitted[c] <= 1

\* What the authority has registered, the interface has on file, under the
\* binding the user still has: the authority's verdicts find their mandate.
RegisteredOnFile ==
  \A signed \in Range(registered) :
    /\ signed \in mandates
    /\ enrollments[signed.mandate.user] = signed.binding

\* A rotation leaves no gap: a countersignature in a user's hands verifies
\* until the authority drops its key, at every step and in either direction
\* (src/apple/README.md, Rotating).
RotationGapless ==
  \A c \in countersigned : c.key \in burnt \/ Witnessed(c.key)

\* The newest consent governs: registering an old mandate again, which
\* anyone may, does not put it back in front of a later one (store.rs,
\* mandates_for_user).
NewestGoverns ==
  [][\A u \in User : Newest(u)' # Newest(u) => Newest(u)' \notin Range(registered)]_vars

-----------------------------------------------------------------------------
(* The inductive invariant.                                                *)

\* A challenge that has admitted a session was issued, and its row is spent
\* or swept; it is not issued again.
SpentInv ==
  \A c \in Challenge :
    /\ challenges[c] # None => c \in minted
    /\ admitted[c] # 0 =>
         /\ admitted[c] = 1
         /\ c \in minted
         /\ challenges[c] = None \/ challenges[c].consumed

\* What users hold is on file at the interface under their own binding, and
\* what the authority registered was in a user's hands.
HeldInv ==
  /\ \A c \in countersigned :
       /\ c.signed \in mandates
       /\ enrollments[c.signed.mandate.user] = c.signed.binding
  /\ \A signed \in Range(registered) : \E c \in countersigned : c.signed = signed

\* The authority lists the key the interface is using.
KeyInv == epoch \in Range(listed)

\* A handler that has counted holds one of the places above the cap.
Inserting == {k \in Caller : caller[k] = "insert"}
PlacesInv ==
  /\ IsFiniteSet(Outstanding)
  /\ Cardinality(Outstanding) + Cardinality(Inserting)
       <= MaxOutstanding + Cardinality(Caller) - 1

IInv ==
  /\ TypeOK
  /\ SpentInv
  /\ HeldInv
  /\ KeyInv /\ RotationGapless
  /\ PlacesInv
=============================================================================
