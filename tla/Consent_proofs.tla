--------------------------- MODULE Consent_proofs ---------------------------
(***************************************************************************)
(* Proofs about Consent: for any number of users, handlers and requests, a *)
(* challenge admits one session, the unspent ones stay within their cap    *)
(* and its overshoot, and rotations leave no countersignature without its  *)
(* key.                                                                    *)
(***************************************************************************)
EXTENDS Consent, TLAPS, FiniteSetTheorems

-----------------------------------------------------------------------------
(* Sequences.                                                              *)

LEMMA RangeAppend ==
  ASSUME NEW S, NEW s \in Seq(S), NEW x \in S
  PROVE  Range(Append(s, x)) = Range(s) \cup {x}
<1>1. DOMAIN s = 1..Len(s) /\ Len(s) \in Nat
  OBVIOUS
<1>2. DOMAIN Append(s, x) = 1..(Len(s) + 1)
  OBVIOUS
<1>3. \A i \in 1..Len(s) : Append(s, x)[i] = s[i]
  OBVIOUS
<1>4. Append(s, x)[Len(s) + 1] = x
  OBVIOUS
<1>5. QED
  <2>1. \A y \in Range(Append(s, x)) : y \in Range(s) \/ y = x
    <3> TAKE y \in Range(Append(s, x))
    <3>1. PICK i \in 1..(Len(s) + 1) : y = Append(s, x)[i]
      BY <1>2 DEF Range
    <3>2. QED
      <4>1. CASE i = Len(s) + 1
        BY <1>4, <3>1, <4>1
      <4>2. CASE i \in 1..Len(s)
        BY <1>1, <1>3, <3>1, <4>2 DEF Range
      <4>3. QED
        BY <1>1, <4>1, <4>2
  <2>2. \A y \in Range(s) : y \in Range(Append(s, x))
    <3> TAKE y \in Range(s)
    <3>1. PICK i \in 1..Len(s) : y = s[i]
      BY <1>1 DEF Range
    <3>2. i \in 1..(Len(s) + 1) /\ y = Append(s, x)[i]
      BY <1>1, <1>3, <3>1
    <3>3. QED
      BY <1>2, <3>2 DEF Range
  <2>3. x \in Range(Append(s, x))
    <3>1. Len(s) + 1 \in DOMAIN Append(s, x)
      BY <1>1, <1>2
    <3>2. QED
      BY <1>4, <3>1 DEF Range
  <2>4. QED
    BY <2>1, <2>2, <2>3

LEMMA RangeOne == \A x : Range(<<x>>) = {x}
  BY DEF Range

LEMMA RangeTwo == \A x, y : Range(<<x, y>>) = {x, y}
<1> TAKE x, y
<1>1. DOMAIN <<x, y>> = {1, 2}
  OBVIOUS
<1>2. QED
  BY <1>1 DEF Range

LEMMA RangeIn ==
  ASSUME NEW S, NEW s \in Seq(S)
  PROVE  Range(s) \subseteq S
  BY DEF Range

-----------------------------------------------------------------------------
(* Types.                                                                  *)

LEMMA CountedTyped ==
  ASSUME TypeOK, Counted
  PROVE  steps' \in Nat
<1>1. steps \in Nat
  BY DEF TypeOK
<1>2. steps' = steps + 1
  BY DEF Counted
<1>3. QED
  BY <1>1, <1>2

LEMMA InitTyped == Init => TypeOK
<1> SUFFICES ASSUME Init PROVE TypeOK
  OBVIOUS
<1>1. registered = <<>> /\ <<>> \in Seq(Signed)
  BY DEF Init
<1>2. listed = <<0>> /\ <<0>> \in Seq(Nat)
  BY DEF Init
<1>3. challenges \in [Challenge -> Row \cup {None}] /\ admitted \in [Challenge -> Nat]
  BY DEF Init
<1>4. enrollments \in [User -> Binding \cup {None}]
  BY DEF Init
<1>5. session \in [Session -> [pc: {"idle", "challenge", "attest", "enroll"},
                              request: Request \cup {None}]]
      /\ \A h \in Session : session[h].pc # "idle" => session[h].request \in Request
  BY DEF Init
<1>6. QED
  BY ConsentAssumption, <1>1, <1>2, <1>3, <1>4, <1>5 DEF Init, TypeOK

\* The steps that serve challenges.
LEMMA IssueTyped ==
  ASSUME TypeOK, IssueStep
  PROVE  TypeOK'
<1>1. ASSUME NEW k \in Caller, ClaimSlot(k) PROVE TypeOK'
  <2>1. OpenWindow \in [start : Nat, issued : Nat]
    BY DEF OpenWindow, TypeOK
  <2>2. window' \in [start : Nat, issued : Nat]
    BY <1>1, <2>1 DEF ClaimSlot
  <2>3. caller' \in [Caller -> {"idle", "count", "insert"}]
    BY <1>1 DEF ClaimSlot, TypeOK
  <2>4. steps' \in Nat
    BY <1>1, CountedTyped DEF ClaimSlot
  <2>5. QED
    BY <1>1, <2>2, <2>3, <2>4
       DEF ClaimSlot, TypeOK, sessionVars, keyVars, consentVars
<1>2. ASSUME NEW k \in Caller, CountOutstanding(k) PROVE TypeOK'
  <2>1. caller' \in [Caller -> {"idle", "count", "insert"}]
    BY <1>2 DEF CountOutstanding, TypeOK
  <2>2. QED
    BY <1>2, <2>1 DEF CountOutstanding, TypeOK, sessionVars, keyVars, consentVars
<1>3. ASSUME NEW k \in Caller, NEW c \in Challenge, NEW purpose \in {"enroll", "gate"},
             IssueChallenge(k, c, purpose)
      PROVE  TypeOK'
  <2>1. Sec(now) \in Nat
    BY DEF TypeOK, Sec
  <2>2. [purpose |-> purpose, expires |-> Sec(now) + TTL, consumed |-> FALSE] \in Row
    BY ConsentAssumption, <2>1 DEF Row
  <2>3. challenges' \in [Challenge -> Row \cup {None}]
    BY <1>3, <2>2 DEF IssueChallenge, TypeOK
  <2>4. caller' \in [Caller -> {"idle", "count", "insert"}]
    BY <1>3 DEF IssueChallenge, TypeOK
  <2>5. minted' \subseteq Challenge
    BY <1>3 DEF IssueChallenge, TypeOK
  <2>6. QED
    BY <1>3, <2>3, <2>4, <2>5 DEF IssueChallenge, TypeOK, keyVars, consentVars
<1>4. QED
  BY <1>1, <1>2, <1>3 DEF IssueStep

\* The steps of signed sessions.
LEMMA LeaveTyped ==
  ASSUME TypeOK, NEW h \in Session, Leave(h)
  PROVE  /\ session' \in [Session -> [pc: {"idle", "challenge", "attest", "enroll"},
                                      request: Request \cup {None}]]
         /\ \A g \in Session : session'[g].pc # "idle" => session'[g].request \in Request
  BY DEF Leave, TypeOK

LEMMA MoveTyped ==
  ASSUME TypeOK, NEW h \in Session, NEW pc \in {"attest", "enroll"},
         session[h].request \in Request, session' = [session EXCEPT ![h].pc = pc]
  PROVE  /\ session' \in [Session -> [pc: {"idle", "challenge", "attest", "enroll"},
                                      request: Request \cup {None}]]
         /\ \A g \in Session : session'[g].pc # "idle" => session'[g].request \in Request
<1>1. session' = [session EXCEPT ![h] = [pc |-> pc, request |-> session[h].request]]
  <2>1. session[h] \in [pc: {"idle", "challenge", "attest", "enroll"},
                        request: Request \cup {None}]
    BY DEF TypeOK
  <2>2. [session[h] EXCEPT !.pc = pc] = [pc |-> pc, request |-> session[h].request]
    BY <2>1
  <2>3. QED
    BY <2>2
<1>2. /\ session \in [Session -> [pc: {"idle", "challenge", "attest", "enroll"},
                                 request: Request \cup {None}]]
      /\ \A g \in Session : session[g].pc # "idle" => session[g].request \in Request
  BY DEF TypeOK
<1>3. QED
  BY <1>1, <1>2

LEMMA SessionTyped ==
  ASSUME TypeOK, SessionStep
  PROVE  TypeOK'
<1>1. ASSUME NEW h \in Session, NEW r \in Request, ClaimSession(h, r) PROVE TypeOK'
  <2>1. Sec(now) \in Nat
    BY DEF TypeOK, Sec
  <2>2. [signature |-> Payload(r), at |-> Sec(now)]
          \in [signature : {Payload(q) : q \in Request}, at : Nat]
    BY <2>1
  <2>3. seen' \subseteq [signature : {Payload(q) : q \in Request}, at : Nat]
    BY <1>1, <2>2 DEF ClaimSession, TypeOK
  <2>4. /\ session' \in [Session -> [pc: {"idle", "challenge", "attest", "enroll"},
                                     request: Request \cup {None}]]
        /\ \A g \in Session : session'[g].pc # "idle" => session'[g].request \in Request
    <3>1. \/ session' = session
          \/ session' = [session EXCEPT ![h] = [pc |-> "challenge", request |-> r]]
      BY <1>1 DEF ClaimSession
    <3>2. /\ session \in [Session -> [pc: {"idle", "challenge", "attest", "enroll"},
                                     request: Request \cup {None}]]
          /\ \A g \in Session : session[g].pc # "idle" => session[g].request \in Request
      BY DEF TypeOK
    <3>3. QED
      BY <3>1, <3>2
  <2>5. steps' \in Nat
    BY <1>1, CountedTyped DEF ClaimSession
  <2>6. QED
    BY <1>1, <2>3, <2>4, <2>5 DEF ClaimSession, TypeOK, issueVars, keyVars, consentVars
<1>2. ASSUME NEW h \in Session, ClaimChallenge(h) PROVE TypeOK'
  <2> DEFINE c == session[h].request.challenge
             p == session[h].request.purpose
  <2>1. session[h].request \in Request /\ c \in Challenge
    BY ConsentAssumption, <1>2 DEF ClaimChallenge, TypeOK
  <2>2. CASE Presentable(c, p)
    <3>1. challenges[c] \in Row
      BY <2>1, <2>2 DEF Presentable, TypeOK
    <3>2. challenges' = [challenges EXCEPT ![c] = [@ EXCEPT !.consumed = TRUE]]
      BY <1>2, <2>2 DEF ClaimChallenge
    <3>3. challenges' \in [Challenge -> Row \cup {None}]
      BY <2>1, <3>1, <3>2 DEF TypeOK, Row
    <3>4. admitted' = [admitted EXCEPT ![c] = @ + 1]
      BY <1>2, <2>2 DEF ClaimChallenge
    <3>5. admitted' \in [Challenge -> Nat]
      BY <2>1, <3>4 DEF TypeOK
    <3>6. session' = [session EXCEPT ![h].pc = "attest"] \/ Leave(h)
      BY <1>2, <2>2 DEF ClaimChallenge
    <3>7. /\ session' \in [Session -> [pc: {"idle", "challenge", "attest", "enroll"},
                                       request: Request \cup {None}]]
          /\ \A g \in Session : session'[g].pc # "idle" => session'[g].request \in Request
      BY <2>1, <3>6, LeaveTyped, MoveTyped
    <3>8. QED
      BY <1>2, <3>3, <3>5, <3>7 DEF ClaimChallenge, TypeOK, issueVars, keyVars, consentVars
  <2>3. CASE ~Presentable(c, p)
    BY <1>2, <2>3, LeaveTyped DEF ClaimChallenge, TypeOK, issueVars, keyVars, consentVars
  <2>4. QED
    BY <2>2, <2>3
<1>3. ASSUME NEW h \in Session, Attest(h) PROVE TypeOK'
  <2>1. session[h].request \in Request
    BY <1>3 DEF Attest, TypeOK
  <2>2. session' = [session EXCEPT ![h].pc = "enroll"] \/ Leave(h)
    BY <1>3 DEF Attest
  <2>3. /\ session' \in [Session -> [pc: {"idle", "challenge", "attest", "enroll"},
                                     request: Request \cup {None}]]
        /\ \A g \in Session : session'[g].pc # "idle" => session'[g].request \in Request
    BY <2>1, <2>2, LeaveTyped, MoveTyped
  <2>4. QED
    BY <1>3, <2>3 DEF Attest, TypeOK, issueVars, keyVars, consentVars
<1>4. ASSUME NEW h \in Session, EnrollmentFor(h) PROVE TypeOK'
  <2>1. enrollments' \in [User -> Binding \cup {None}]
    BY <1>4 DEF EnrollmentFor, TypeOK
  <2>2. QED
    BY <1>4, <2>1, LeaveTyped DEF EnrollmentFor, TypeOK, issueVars, keyVars, consentVars
<1>5. QED
  BY <1>1, <1>2, <1>3, <1>4 DEF SessionStep

\* The steps of mandates, keys and the clock.
LEMMA InsertedTyped ==
  ASSUME TypeOK, NEW s \in Signed
  PROVE  Inserted(s) \in Seq(Signed)
  BY DEF Inserted, TypeOK

LEMMA ConsentTyped ==
  ASSUME TypeOK,
         \/ \E m \in Mandate : Countersign(m)
         \/ \E c \in countersigned : AcceptMandate(c)
         \/ Publish
  PROVE  TypeOK'
<1>1. ASSUME NEW m \in Mandate, Countersign(m) PROVE TypeOK'
  <2>1. enrollments[m.user] \in Binding
    BY ConsentAssumption, <1>1 DEF Countersign, TypeOK
  <2>2. [mandate |-> m, binding |-> enrollments[m.user]] \in Signed
    BY <2>1 DEF Signed
  <2>3. mandates' \subseteq Signed
    BY <1>1, <2>2 DEF Countersign, TypeOK
  <2>4. countersigned' \subseteq [signed: Signed, key: Nat]
    BY <1>1, <2>2 DEF Countersign, KeyInForce, TypeOK
  <2>5. steps' \in Nat
    BY <1>1, CountedTyped DEF Countersign
  <2>6. QED
    BY <1>1, <2>3, <2>4, <2>5 DEF Countersign, TypeOK, sessionVars, issueVars, keyVars
<1>2. ASSUME NEW c \in countersigned, AcceptMandate(c) PROVE TypeOK'
  <2>1. registered' \in Seq(Signed)
    BY <1>2, InsertedTyped DEF AcceptMandate, TypeOK
  <2>2. steps' \in Nat
    BY <1>2, CountedTyped DEF AcceptMandate
  <2>3. QED
    BY <1>2, <2>1, <2>2 DEF AcceptMandate, TypeOK, sessionVars, issueVars, keyVars
<1>3. ASSUME Publish PROVE TypeOK'
  <2>1. steps' \in Nat
    BY <1>3, CountedTyped DEF Publish
  <2>2. QED
    BY <1>3, <2>1 DEF Publish, TypeOK, sessionVars, issueVars, keyVars
<1>4. QED
  BY <1>1, <1>2, <1>3

LEMMA KeyTyped ==
  ASSUME TypeOK,
         ListKey \/ DropKey \/ (\E e \in 0..MaxEpoch : Restart(e)) \/ Tick
  PROVE  TypeOK'
<1>1. ASSUME ListKey PROVE TypeOK'
  <2>1. listed' \in Seq(Nat) /\ burnt' \subseteq Nat
    <3>1. epoch \in Nat /\ epoch + 1 \in Nat /\ burnt \subseteq Nat
      BY DEF TypeOK
    <3>2. <<epoch, epoch + 1>> \in Seq(Nat)
      BY <3>1
    <3>3. QED
      BY <1>1, <3>1, <3>2 DEF ListKey
  <2>2. steps' \in Nat
    BY <1>1, CountedTyped DEF ListKey
  <2>3. QED
    BY <1>1, <2>1, <2>2 DEF ListKey, TypeOK, sessionVars, issueVars, consentVars
<1>2. ASSUME DropKey PROVE TypeOK'
  <2>1. listed' \in Seq(Nat)
    BY <1>2 DEF DropKey, TypeOK
  <2>2. burnt' \subseteq Nat
    <3>1. Range(listed) \subseteq Nat
      BY RangeIn DEF TypeOK
    <3>2. QED
      BY <1>2, <3>1 DEF DropKey, TypeOK
  <2>3. steps' \in Nat
    BY <1>2, CountedTyped DEF DropKey
  <2>4. QED
    BY <1>2, <2>1, <2>2, <2>3 DEF DropKey, TypeOK, sessionVars, issueVars, consentVars
<1>3. ASSUME NEW e \in 0..MaxEpoch, Restart(e) PROVE TypeOK'
  <2>1. e \in Nat
    OBVIOUS
  <2>2. steps' \in Nat
    BY <1>3, CountedTyped DEF Restart
  <2>3. window' \in [start : Nat, issued : Nat]
    BY <1>3 DEF Restart
  <2>4. caller' \in [Caller -> {"idle", "count", "insert"}]
    BY <1>3 DEF Restart
  <2>5. /\ session' \in [Session -> [pc: {"idle", "challenge", "attest", "enroll"},
                                     request: Request \cup {None}]]
        /\ \A g \in Session : session'[g].pc # "idle" => session'[g].request \in Request
    BY <1>3 DEF Restart
  <2>6. QED
    BY <1>3, <2>1, <2>2, <2>3, <2>4, <2>5 DEF Restart, TypeOK, consentVars
<1>4. ASSUME Tick PROVE TypeOK'
  <2>1. now' \in Nat
    <3>1. now \in Nat
      BY DEF TypeOK
    <3>2. now' = now + 1
      BY <1>4 DEF Tick
    <3>3. QED
      BY <3>1, <3>2
  <2>2. QED
    BY <1>4, <2>1 DEF Tick, TypeOK, sessionVars, issueVars, keyVars, consentVars
<1>5. QED
  BY <1>1, <1>2, <1>3, <1>4

LEMMA Typed ==
  ASSUME TypeOK, [Next]_vars
  PROVE  TypeOK'
<1>1. CASE UNCHANGED vars
  BY <1>1 DEF TypeOK, vars, sessionVars, issueVars, keyVars, consentVars
<1>2. CASE Next
  BY <1>2, IssueTyped, SessionTyped, ConsentTyped, KeyTyped DEF Next
<1>3. QED
  BY <1>1, <1>2

-----------------------------------------------------------------------------
(* A challenge admits one session.                                         *)

LEMMA InitSpent == Init => SpentInv
  BY DEF Init, SpentInv

LEMMA SpentIssue ==
  ASSUME TypeOK, SpentInv, NEW k \in Caller, NEW c \in Challenge,
         NEW purpose \in {"enroll", "gate"}, IssueChallenge(k, c, purpose)
  PROVE  SpentInv'
<1>1. c \notin minted /\ minted' = minted \cup {c} /\ admitted' = admitted
  BY DEF IssueChallenge
<1>2. \A d \in Challenge \ {c} : challenges'[d] = challenges[d] \/ challenges'[d] = None
  BY DEF IssueChallenge
<1>3. admitted[c] = 0
  BY <1>1 DEF SpentInv
<1>4. QED
  BY <1>1, <1>2, <1>3 DEF SpentInv

LEMMA SpentClaim ==
  ASSUME TypeOK, SpentInv, NEW h \in Session, ClaimChallenge(h)
  PROVE  SpentInv'
<1> DEFINE c == session[h].request.challenge
           p == session[h].request.purpose
<1>1. session[h].request \in Request /\ c \in Challenge
  BY ConsentAssumption DEF ClaimChallenge, TypeOK
<1>2. minted' = minted
  BY DEF ClaimChallenge, issueVars
<1>3. CASE Presentable(c, p)
  <2>1. challenges[c] \in Row /\ ~challenges[c].consumed
    BY <1>1, <1>3 DEF Presentable, TypeOK
  <2>2. /\ challenges' = [challenges EXCEPT ![c] = [@ EXCEPT !.consumed = TRUE]]
        /\ admitted' = [admitted EXCEPT ![c] = @ + 1]
    BY <1>3 DEF ClaimChallenge
  <2>3. challenges[c] # None /\ c \in minted /\ admitted[c] = 0
    BY <1>1, <1>3, <2>1 DEF Presentable, SpentInv
  <2>4. challenges'[c].consumed
    BY <1>1, <2>1, <2>2 DEF TypeOK, Row
  <2>5. admitted'[c] = 1
    BY <1>1, <2>2, <2>3 DEF TypeOK
  <2>6. \A d \in Challenge \ {c} : challenges'[d] = challenges[d] /\ admitted'[d] = admitted[d]
    BY <2>2 DEF TypeOK
  <2>7. QED
    BY <1>2, <2>3, <2>4, <2>5, <2>6 DEF SpentInv
<1>4. CASE ~Presentable(c, p)
  BY <1>2, <1>4 DEF ClaimChallenge, SpentInv
<1>5. QED
  BY <1>3, <1>4

\* Every other step leaves challenges, their rows and their use alone.
LEMMA OtherSteps ==
  ASSUME [Next]_vars
  PROVE  \/ \E k \in Caller, c \in Challenge, purpose \in {"enroll", "gate"} :
              IssueChallenge(k, c, purpose)
         \/ \E h \in Session : ClaimChallenge(h)
         \/ UNCHANGED <<challenges, minted, admitted>>
<1>1. ASSUME NEW k \in Caller, ClaimSlot(k) \/ CountOutstanding(k)
      PROVE  UNCHANGED <<challenges, minted, admitted>>
  BY <1>1 DEF ClaimSlot, CountOutstanding, sessionVars
<1>2. ASSUME NEW h \in Session,
             (\E r \in Request : ClaimSession(h, r)) \/ Attest(h) \/ EnrollmentFor(h)
      PROVE  UNCHANGED <<challenges, minted, admitted>>
  BY <1>2 DEF ClaimSession, Attest, EnrollmentFor, issueVars
<1>3. ASSUME \/ \E m \in Mandate : Countersign(m)
             \/ \E c \in countersigned : AcceptMandate(c)
             \/ Publish \/ ListKey \/ DropKey \/ Tick
      PROVE  UNCHANGED <<challenges, minted, admitted>>
  BY <1>3 DEF Countersign, AcceptMandate, Publish, ListKey, DropKey, Tick, sessionVars, issueVars
<1>4. ASSUME NEW e \in 0..MaxEpoch, Restart(e)
      PROVE  UNCHANGED <<challenges, minted, admitted>>
  BY <1>4 DEF Restart
<1>5. ASSUME UNCHANGED vars
      PROVE  UNCHANGED <<challenges, minted, admitted>>
  BY <1>5 DEF vars, sessionVars, issueVars
<1>6. QED
  BY <1>1, <1>2, <1>3, <1>4, <1>5 DEF Next, IssueStep, SessionStep

LEMMA SpentStep ==
  ASSUME TypeOK, SpentInv, [Next]_vars
  PROVE  SpentInv'
<1>1. CASE UNCHANGED <<challenges, minted, admitted>>
  BY <1>1 DEF SpentInv
<1>2. QED
  BY <1>1, OtherSteps, SpentIssue, SpentClaim

-----------------------------------------------------------------------------
(* What users and the authority hold is on file.                           *)

LEMMA InitHeld == Init => HeldInv
<1>1. Range(<<>>) = {}
  BY DEF Range
<1>2. QED
  BY <1>1 DEF Init, HeldInv

\* A user's binding never changes once it is there.
LEMMA BindingKept ==
  ASSUME TypeOK, [Next]_vars
  PROVE  \A u \in User : enrollments[u] # None => enrollments'[u] = enrollments[u]
<1>1. ASSUME NEW h \in Session, EnrollmentFor(h)
      PROVE  \A u \in User : enrollments[u] # None => enrollments'[u] = enrollments[u]
  BY <1>1 DEF EnrollmentFor, TypeOK
<1>2. ASSUME IssueStep PROVE UNCHANGED enrollments
  BY <1>2 DEF IssueStep, ClaimSlot, CountOutstanding, IssueChallenge, sessionVars
<1>3. ASSUME NEW h \in Session,
             (\E r \in Request : ClaimSession(h, r)) \/ ClaimChallenge(h) \/ Attest(h)
      PROVE  UNCHANGED enrollments
  BY <1>3 DEF ClaimSession, ClaimChallenge, Attest
<1>4. ASSUME \/ \E m \in Mandate : Countersign(m)
             \/ \E c \in countersigned : AcceptMandate(c)
             \/ Publish \/ ListKey \/ DropKey \/ Tick
      PROVE  UNCHANGED enrollments
  BY <1>4 DEF Countersign, AcceptMandate, Publish, ListKey, DropKey, Tick, sessionVars
<1>5. ASSUME NEW e \in 0..MaxEpoch, Restart(e) PROVE UNCHANGED enrollments
  BY <1>5 DEF Restart
<1>6. ASSUME UNCHANGED vars PROVE UNCHANGED enrollments
  BY <1>6 DEF vars, sessionVars
<1>7. QED
  BY <1>1, <1>2, <1>3, <1>4, <1>5, <1>6 DEF Next, SessionStep

\* Who signs, holds and registers.
LEMMA HoldingSteps ==
  ASSUME [Next]_vars
  PROVE  \/ \E m \in Mandate : Countersign(m)
         \/ \E c \in countersigned : AcceptMandate(c)
         \/ UNCHANGED <<mandates, countersigned, registered>>
<1>1. ASSUME IssueStep PROVE UNCHANGED <<mandates, countersigned, registered>>
  BY <1>1 DEF IssueStep, ClaimSlot, CountOutstanding, IssueChallenge, consentVars
<1>2. ASSUME SessionStep PROVE UNCHANGED <<mandates, countersigned, registered>>
  BY <1>2 DEF SessionStep, ClaimSession, ClaimChallenge, Attest, EnrollmentFor, consentVars
<1>3. ASSUME Publish \/ ListKey \/ DropKey \/ Tick
      PROVE  UNCHANGED <<mandates, countersigned, registered>>
  BY <1>3 DEF Publish, ListKey, DropKey, Tick, consentVars
<1>4. ASSUME NEW e \in 0..MaxEpoch, Restart(e)
      PROVE  UNCHANGED <<mandates, countersigned, registered>>
  BY <1>4 DEF Restart, consentVars
<1>5. ASSUME UNCHANGED vars PROVE UNCHANGED <<mandates, countersigned, registered>>
  BY <1>5 DEF vars, consentVars
<1>6. QED
  BY <1>1, <1>2, <1>3, <1>4, <1>5 DEF Next

LEMMA HeldStep ==
  ASSUME TypeOK, HeldInv, [Next]_vars
  PROVE  HeldInv'
<1>1. \A c \in countersigned : c.signed.mandate.user \in User /\ c.signed.binding # None
  BY SMTT(30), ConsentAssumption DEF TypeOK, Signed
<1>2. \A c \in countersigned :
        enrollments'[c.signed.mandate.user] = enrollments[c.signed.mandate.user]
  BY <1>1, BindingKept DEF HeldInv
<1>3. ASSUME NEW m \in Mandate, Countersign(m) PROVE HeldInv'
  <2> DEFINE s == [mandate |-> m, binding |-> enrollments[m.user]]
  <2>1. /\ mandates' = mandates \cup {s}
        /\ countersigned' = countersigned \cup {[signed |-> s, key |-> KeyInForce]}
        /\ registered' = registered
        /\ enrollments' = enrollments
    BY <1>3 DEF Countersign, sessionVars
  <2>2. QED
    BY <1>2, <2>1 DEF HeldInv
<1>4. ASSUME NEW c \in countersigned, AcceptMandate(c) PROVE HeldInv'
  <2>1. mandates' = mandates /\ countersigned' = countersigned /\ registered' = Inserted(c.signed)
    BY <1>4 DEF AcceptMandate
  <2>2. registered \in Seq(Signed) /\ c.signed \in Signed
    BY DEF TypeOK
  <2>3. Range(registered') \subseteq Range(registered) \cup {c.signed}
    BY <2>1, <2>2, RangeAppend DEF Inserted
  <2>4. QED
    BY <1>2, <2>1, <2>3 DEF HeldInv
<1>5. CASE UNCHANGED <<mandates, countersigned, registered>>
  BY <1>2, <1>5 DEF HeldInv
<1>6. QED
  BY <1>3, <1>4, <1>5, HoldingSteps

-----------------------------------------------------------------------------
(* Rotation.                                                               *)

LEMMA InitKeys == Init => KeyInv /\ RotationGapless
  BY RangeOne DEF Init, KeyInv, RotationGapless

\* The listed keys after each of the operators' steps.
LEMMA KeysStep ==
  ASSUME TypeOK, KeyInv, RotationGapless, [Next]_vars
  PROVE  KeyInv' /\ RotationGapless'
<1>1. ASSUME NEW m \in Mandate, Countersign(m) PROVE KeyInv' /\ RotationGapless'
  <2>1. UNCHANGED <<epoch, listed, burnt>>
    BY <1>1 DEF Countersign, keyVars
  <2>2. \A c \in countersigned' : c \in countersigned \/ c.key = epoch
    BY <1>1 DEF Countersign, KeyInForce
  <2>3. QED
    BY <2>1, <2>2 DEF KeyInv, RotationGapless, Witnessed
<1>2. ASSUME ListKey PROVE KeyInv' /\ RotationGapless'
  <2>1. Range(listed) = {epoch} /\ Range(listed') = {epoch, epoch + 1}
    BY <1>2, RangeOne, RangeTwo DEF ListKey
  <2>2. epoch' = epoch /\ countersigned' = countersigned /\ burnt' = burnt \ {epoch + 1}
    BY <1>2 DEF ListKey, consentVars
  <2>3. QED
    BY <2>1, <2>2 DEF KeyInv, RotationGapless, Witnessed
<1>3. ASSUME DropKey PROVE KeyInv' /\ RotationGapless'
  <2>1. Range(listed') = {epoch}
    BY <1>3, RangeOne DEF DropKey
  <2>2. /\ epoch' = epoch /\ countersigned' = countersigned
        /\ burnt' = burnt \cup (Range(listed) \ {epoch})
    BY <1>3 DEF DropKey, consentVars
  <2>3. QED
    BY <2>1, <2>2 DEF KeyInv, RotationGapless, Witnessed
<1>4. ASSUME NEW e \in 0..MaxEpoch, Restart(e) PROVE KeyInv' /\ RotationGapless'
  BY <1>4 DEF Restart, KeyInv, RotationGapless, Witnessed, consentVars
<1>5. CASE UNCHANGED <<epoch, listed, burnt, countersigned>>
  BY <1>5 DEF KeyInv, RotationGapless, Witnessed
<1>6. ASSUME IssueStep \/ SessionStep
      PROVE  UNCHANGED <<epoch, listed, burnt, countersigned>>
  BY <1>6 DEF IssueStep, ClaimSlot, CountOutstanding, IssueChallenge, SessionStep,
              ClaimSession, ClaimChallenge, Attest, EnrollmentFor, keyVars, consentVars
<1>7. ASSUME (\E c \in countersigned : AcceptMandate(c)) \/ Publish \/ Tick \/ UNCHANGED vars
      PROVE  UNCHANGED <<epoch, listed, burnt, countersigned>>
  BY <1>7 DEF AcceptMandate, Publish, Tick, vars, keyVars, consentVars
<1>8. QED
  BY <1>1, <1>2, <1>3, <1>4, <1>5, <1>6, <1>7 DEF Next

-----------------------------------------------------------------------------
(* The cap on unspent challenges and its overshoot.                        *)

\* The handlers past the count are some of the handlers.
LEMMA InsertingFinite ==
  /\ IsFiniteSet(Inserting) /\ Cardinality(Inserting) \in Nat
  /\ Cardinality(Caller) \in Nat /\ Cardinality(Caller) >= 1
  /\ Cardinality(Inserting) <= Cardinality(Caller)
<1>1. IsFiniteSet(Caller) /\ Inserting \subseteq Caller
  BY ConsentAssumption DEF Inserting
<1>2. IsFiniteSet(Inserting) /\ Cardinality(Inserting) <= Cardinality(Caller)
  BY <1>1, FS_Subset
<1>3. Cardinality(Caller) \in Nat /\ Cardinality(Inserting) \in Nat
  BY <1>1, <1>2, FS_CardinalityType
<1>4. Cardinality(Caller) # 0
  BY <1>1, ConsentAssumption, FS_EmptySet
<1>5. QED
  BY <1>1, <1>2, <1>3, <1>4

\* The invariant survives when there are no more unspent challenges and no
\* more handlers past the count.
LEMMA PlacesShrink ==
  ASSUME PlacesInv, Outstanding' \subseteq Outstanding, Inserting' \subseteq Inserting
  PROVE  PlacesInv'
<1>1. IsFiniteSet(Outstanding') /\ Cardinality(Outstanding') <= Cardinality(Outstanding)
  BY FS_Subset DEF PlacesInv
<1>2. IsFiniteSet(Inserting') /\ Cardinality(Inserting') <= Cardinality(Inserting)
  BY InsertingFinite, FS_Subset
<1>3. /\ Cardinality(Outstanding') \in Nat /\ Cardinality(Outstanding) \in Nat
      /\ Cardinality(Inserting') \in Nat /\ Cardinality(Inserting) \in Nat
      /\ Cardinality(Caller) \in Nat /\ MaxOutstanding \in Nat
  BY <1>1, <1>2, InsertingFinite, FS_CardinalityType, ConsentAssumption DEF PlacesInv
<1>4. Cardinality(Outstanding) + Cardinality(Inserting)
        <= MaxOutstanding + Cardinality(Caller) - 1
  BY DEF PlacesInv
<1>5. Cardinality(Outstanding') + Cardinality(Inserting')
        <= MaxOutstanding + Cardinality(Caller) - 1
  BY <1>1, <1>2, <1>3, <1>4
<1>6. QED
  BY <1>1, <1>5 DEF PlacesInv

LEMMA InitPlaces == Init => PlacesInv
<1> SUFFICES ASSUME Init PROVE PlacesInv
  OBVIOUS
<1>1. Outstanding = {} /\ Inserting = {}
  BY DEF Init, Outstanding, Inserting
<1>2. Cardinality({}) = 0 /\ IsFiniteSet({})
  BY FS_EmptySet
<1>3. MaxOutstanding \in Nat
  BY ConsentAssumption
<1>4. 0 + 0 <= MaxOutstanding + Cardinality(Caller) - 1
  BY <1>3, InsertingFinite
<1>5. QED
  BY <1>1, <1>2, <1>4 DEF PlacesInv

\* A handler that counts room takes one of the places left.
LEMMA PlacesCount ==
  ASSUME TypeOK, PlacesInv, NEW k \in Caller, CountOutstanding(k)
  PROVE  PlacesInv'
<1>1. challenges' = challenges /\ now' = now
  BY DEF CountOutstanding, sessionVars
<1>2. Outstanding' = Outstanding
  BY <1>1 DEF Outstanding
<1>3. CASE Cardinality(Outstanding) >= MaxOutstanding
  <2>1. caller' = [caller EXCEPT ![k] = "idle"]
    BY <1>3 DEF CountOutstanding
  <2>2. Inserting' \subseteq Inserting
    BY <2>1 DEF Inserting, TypeOK
  <2>3. QED
    BY <1>2, <2>2, PlacesShrink
<1>4. CASE ~(Cardinality(Outstanding) >= MaxOutstanding)
  <2>1. IsFiniteSet(Outstanding) /\ Cardinality(Outstanding) \in Nat
    BY FS_CardinalityType DEF PlacesInv
  <2>2. MaxOutstanding \in Nat
    BY ConsentAssumption
  <2>3. Cardinality(Inserting') \in Nat /\ Cardinality(Inserting') <= Cardinality(Caller)
    <3>1. IsFiniteSet(Caller) /\ Inserting' \subseteq Caller
      BY ConsentAssumption DEF Inserting
    <3>2. QED
      BY <3>1, FS_Subset, FS_CardinalityType
  <2>4. Cardinality(Outstanding') + Cardinality(Inserting')
          <= MaxOutstanding + Cardinality(Caller) - 1
    BY <1>2, <1>4, <2>1, <2>2, <2>3, InsertingFinite
  <2>5. QED
    BY <1>2, <2>1, <2>4 DEF PlacesInv
<1>5. QED
  BY <1>3, <1>4

\* A handler that inserts gives up its place for one challenge.
LEMMA PlacesIssue ==
  ASSUME TypeOK, PlacesInv, NEW k \in Caller, NEW c \in Challenge,
         NEW purpose \in {"enroll", "gate"}, IssueChallenge(k, c, purpose)
  PROVE  PlacesInv'
<1>1. Outstanding' \subseteq Outstanding \cup {c}
  <2>1. now' = now /\ \A d \in Challenge \ {c} :
          challenges'[d] = challenges[d] \/ challenges'[d] = None
    BY DEF IssueChallenge
  <2>2. QED
    BY <2>1 DEF Outstanding
<1>2. k \in Inserting /\ Inserting' = Inserting \ {k}
  BY DEF IssueChallenge, Inserting, TypeOK
<1>3. /\ IsFiniteSet(Outstanding \cup {c})
      /\ Cardinality(Outstanding \cup {c}) <= Cardinality(Outstanding) + 1
      /\ Cardinality(Outstanding) \in Nat
  <2>1. IsFiniteSet(Outstanding) /\ Cardinality(Outstanding) \in Nat
    BY FS_CardinalityType DEF PlacesInv
  <2>2. /\ IsFiniteSet(Outstanding \cup {c})
        /\ Cardinality(Outstanding \cup {c})
             = IF c \in Outstanding THEN Cardinality(Outstanding)
                                    ELSE Cardinality(Outstanding) + 1
    BY <2>1, FS_AddElement
  <2>3. QED
    BY <2>1, <2>2
<1>4. /\ IsFiniteSet(Outstanding')
      /\ Cardinality(Outstanding') <= Cardinality(Outstanding \cup {c})
      /\ Cardinality(Outstanding') \in Nat /\ Cardinality(Outstanding \cup {c}) \in Nat
  BY <1>1, <1>3, FS_Subset, FS_CardinalityType
<1>5. Cardinality(Inserting') = Cardinality(Inserting) - 1 /\ Cardinality(Inserting) \in Nat
  BY <1>2, InsertingFinite, FS_RemoveElement
<1>6. Cardinality(Outstanding) + Cardinality(Inserting)
        <= MaxOutstanding + Cardinality(Caller) - 1
  BY DEF PlacesInv
<1>7. MaxOutstanding \in Nat /\ Cardinality(Caller) \in Nat
  BY ConsentAssumption, InsertingFinite
<1>8. Cardinality(Outstanding') + Cardinality(Inserting')
        <= MaxOutstanding + Cardinality(Caller) - 1
  BY <1>3, <1>4, <1>5, <1>6, <1>7
<1>9. QED
  BY <1>4, <1>8 DEF PlacesInv

\* The other steps only let challenges be spent or expire, and handlers go.
LEMMA PlacesOther ==
  ASSUME TypeOK, PlacesInv,
         \/ \E k \in Caller : ClaimSlot(k)
         \/ SessionStep
         \/ \E m \in Mandate : Countersign(m)
         \/ \E c \in countersigned : AcceptMandate(c)
         \/ Publish \/ ListKey \/ DropKey
         \/ \E e \in 0..MaxEpoch : Restart(e)
         \/ Tick \/ UNCHANGED vars
  PROVE  PlacesInv'
<1>1. ASSUME NEW k \in Caller, ClaimSlot(k) PROVE PlacesInv'
  <2>1. now' = now /\ challenges' = challenges
    BY <1>1 DEF ClaimSlot, sessionVars
  <2>2. caller' = [caller EXCEPT ![k] = "count"]
    BY <1>1 DEF ClaimSlot
  <2>3. Inserting' \subseteq Inserting
    BY <2>2 DEF Inserting, TypeOK
  <2>4. QED
    BY <2>1, <2>3, PlacesShrink DEF Outstanding
<1>2. ASSUME NEW h \in Session, ClaimChallenge(h) PROVE PlacesInv'
  <2> DEFINE c == session[h].request.challenge
             p == session[h].request.purpose
  <2>1. session[h].request \in Request /\ c \in Challenge
    BY <1>2, ConsentAssumption DEF ClaimChallenge, TypeOK
  <2>2. now' = now /\ caller' = caller
    BY <1>2 DEF ClaimChallenge, issueVars
  <2>3. Outstanding' \subseteq Outstanding
    <3>1. CASE Presentable(c, p)
      <4>1. challenges[c] \in Row
        BY <2>1, <3>1 DEF Presentable, TypeOK
      <4>2. challenges' = [challenges EXCEPT ![c] = [@ EXCEPT !.consumed = TRUE]]
        BY <1>2, <3>1 DEF ClaimChallenge
      <4>3. challenges'[c].consumed
        BY <2>1, <4>1, <4>2 DEF TypeOK, Row
      <4>4. \A d \in Challenge \ {c} : challenges'[d] = challenges[d]
        BY <4>2 DEF TypeOK
      <4>5. QED
        BY <2>2, <4>3, <4>4 DEF Outstanding
    <3>2. CASE ~Presentable(c, p)
      <4>1. challenges' = challenges
        BY <1>2, <3>2 DEF ClaimChallenge
      <4>2. QED
        BY <2>2, <4>1 DEF Outstanding
    <3>3. QED
      BY <3>1, <3>2
  <2>4. QED
    BY <2>2, <2>3, PlacesShrink DEF Inserting
<1>3. ASSUME UNCHANGED <<now, challenges, caller>> PROVE PlacesInv'
  BY <1>3, PlacesShrink DEF Outstanding, Inserting
<1>4. ASSUME NEW h \in Session,
             (\E r \in Request : ClaimSession(h, r)) \/ Attest(h) \/ EnrollmentFor(h)
      PROVE  UNCHANGED <<now, challenges, caller>>
  BY <1>4 DEF ClaimSession, Attest, EnrollmentFor, issueVars
<1>5. ASSUME \/ \E m \in Mandate : Countersign(m)
             \/ \E c \in countersigned : AcceptMandate(c)
             \/ Publish \/ ListKey \/ DropKey \/ UNCHANGED vars
      PROVE  UNCHANGED <<now, challenges, caller>>
  BY <1>5 DEF Countersign, AcceptMandate, Publish, ListKey, DropKey, vars, sessionVars, issueVars
<1>6. ASSUME NEW e \in 0..MaxEpoch, Restart(e) PROVE PlacesInv'
  <2>1. UNCHANGED <<now, challenges>> /\ \A k \in Caller : caller'[k] = "idle"
    BY <1>6 DEF Restart
  <2>2. Inserting' \subseteq Inserting
    BY <2>1 DEF Inserting
  <2>3. QED
    BY <2>1, <2>2, PlacesShrink DEF Outstanding
<1>7. ASSUME Tick PROVE PlacesInv'
  <2>1. challenges' = challenges /\ caller' = caller
    BY <1>7 DEF Tick, sessionVars, issueVars
  <2>2. now \in Nat /\ now' = now + 1
    BY <1>7 DEF Tick, TypeOK
  <2>3. Sec(now) \in Nat /\ Sec(now)' \in Nat /\ Sec(now) <= Sec(now)'
    BY <2>2 DEF Sec
  <2>4. \A c \in Challenge : challenges[c] # None => challenges[c].expires \in Nat
    BY DEF TypeOK, Row
  <2>5. Outstanding' \subseteq Outstanding
    BY <2>1, <2>3, <2>4 DEF Outstanding
  <2>6. QED
    BY <2>1, <2>5, PlacesShrink DEF Inserting
<1>8. QED
  BY <1>1, <1>2, <1>3, <1>4, <1>5, <1>6, <1>7 DEF SessionStep

LEMMA PlacesStep ==
  ASSUME TypeOK, PlacesInv, [Next]_vars
  PROVE  PlacesInv'
  BY PlacesCount, PlacesIssue, PlacesOther DEF Next, IssueStep

-----------------------------------------------------------------------------
(* The theorems.                                                           *)

\* The inductive invariant: rows of challenges, what users hold, the listed
\* keys, and the places above the cap (the tables of both services).
THEOREM Inductive == Spec => []IInv
<1>1. Init => IInv
  BY InitTyped, InitSpent, InitHeld, InitKeys, InitPlaces DEF IInv
<1>2. IInv /\ [Next]_vars => IInv'
  BY Typed, SpentStep, HeldStep, KeysStep, PlacesStep DEF IInv
<1>3. QED
  BY <1>1, <1>2, PTL DEF Spec

\* Every table and every request in flight keeps its type.
THEOREM Typing == Spec => []TypeOK
<1>1. IInv => TypeOK
  BY DEF IInv
<1>2. QED
  BY <1>1, Inductive, PTL

\* A challenge admits at most one session (api.rs, claim_session and
\* claim_challenge).
THEOREM OneSession == Spec => []AdmittedOnce
<1>1. IInv => AdmittedOnce
  BY SMTT(30) DEF IInv, TypeOK, SpentInv, AdmittedOnce
<1>2. QED
  BY <1>1, Inductive, PTL

\* What the authority registered, the interface has on file under the
\* binding the user still has (api.rs, store.rs put_mandate, enrollment_for).
THEOREM Registered == Spec => []RegisteredOnFile
<1>1. IInv => RegisteredOnFile
  BY DEF IInv, HeldInv, RegisteredOnFile
<1>2. QED
  BY <1>1, Inductive, PTL

\* A countersignature verifies until its key is dropped (countersigning.rs).
THEOREM Rotation == Spec => []RotationGapless
<1>1. IInv => RotationGapless
  BY DEF IInv
<1>2. QED
  BY <1>1, Inductive, PTL

\* Unspent challenges stay within the cap and an overshoot of one for each
\* handler but one (api.rs, the challenge handler).
THEOREM Bounded == Spec => []OutstandingBounded
<1>1. IInv => OutstandingBounded
  <2> SUFFICES ASSUME IInv PROVE OutstandingBounded
    OBVIOUS
  <2>1. IsFiniteSet(Outstanding) /\ Cardinality(Outstanding) \in Nat
    BY FS_CardinalityType DEF IInv, PlacesInv
  <2>2. Cardinality(Outstanding) + Cardinality(Inserting)
          <= MaxOutstanding + Cardinality(Caller) - 1
    BY DEF IInv, PlacesInv
  <2>3. MaxOutstanding \in Nat
    BY ConsentAssumption
  <2>4. QED
    BY <2>1, <2>2, <2>3, InsertingFinite DEF OutstandingBounded
<1>2. QED
  BY <1>1, Inductive, PTL

-----------------------------------------------------------------------------
(* The newest mandate of a user.                                           *)

\* A set of row numbers has a last one.  The sets of the rows after each of
\* them are finite, and a smallest of those sets belongs to the last row.
LEMMA LastRow ==
  ASSUME NEW n \in Nat, NEW own \in SUBSET (1..n), own # {}
  PROVE  \E x \in own : \A y \in own : x >= y
<1> DEFINE After(x) == {y \in 1..n : y > x}
           T == {After(x) : x \in own}
<1>1. \A x \in own : After(x) \in FiniteSubsetsOf(1..n)
  <2> TAKE x \in own
  <2>1. IsFiniteSet(1..n)
    BY FS_Interval
  <2>2. After(x) \in SUBSET (1..n)
    OBVIOUS
  <2>3. IsFiniteSet(After(x))
    BY <2>1, <2>2, FS_Subset
  <2>4. QED
    BY <2>2, <2>3 DEF FiniteSubsetsOf
<1>2. T \subseteq FiniteSubsetsOf(1..n) /\ T # {}
  BY <1>1
<1>3. \E s \in T : \A t \in T : <<t, s>> \notin StrictSubsetOrdering(1..n)
  BY <1>2, FS_StrictSubsetOrderingWellFounded, WFMin
<1>4. PICK x \in own : \A y \in own : <<After(y), After(x)>> \notin StrictSubsetOrdering(1..n)
  BY <1>3
<1>5. ASSUME NEW y \in own, y > x PROVE FALSE
  <2>1. After(y) \subseteq After(x) /\ After(x) \subseteq 1..n
    BY <1>5
  <2>2. y \in After(x) /\ y \notin After(y)
    BY <1>5
  <2>3. <<After(y), After(x)>> \in StrictSubsetOrdering(1..n)
    <3> HIDE DEF After
    <3>1. After(y) \in SUBSET (1..n) /\ After(x) \in SUBSET (1..n)
      BY <2>1
    <3>2. QED
      BY <2>1, <2>2, <3>1 DEF StrictSubsetOrdering
  <2>4. QED
    BY <1>4, <2>3
<1>6. QED
  BY <1>5

\* No other step writes the authority's table of mandates.
LEMMA OnlyAccept ==
  ASSUME [Next]_vars
  PROVE  registered' = registered \/ \E c \in countersigned : AcceptMandate(c)
<1>1. ASSUME NEW m \in Mandate, Countersign(m) PROVE registered' = registered
  BY <1>1 DEF Countersign
<1>2. QED
  BY <1>1, HoldingSteps

\* The newest row of a user moves only when a mandate is registered that was
\* not there, because INSERT OR IGNORE leaves a row where it is.
LEMMA InsertKeeps ==
  ASSUME TypeOK, NEW c \in countersigned, registered' = Inserted(c.signed), NEW u \in User,
         Newest(u)' # Newest(u)
  PROVE  Newest(u)' \notin Range(registered)
<1> DEFINE n == Len(registered)
           own == {row \in DOMAIN registered : registered[row].mandate.user = u}
<1>1. c.signed \in Signed /\ n \in Nat /\ DOMAIN registered = 1..n
  BY DEF TypeOK
<1>2. CASE c.signed \in Range(registered)
  BY <1>2 DEF Inserted, Newest
<1>3. CASE c.signed \notin Range(registered)
  <2>1. registered' = Append(registered, c.signed)
    BY <1>3 DEF Inserted
  <2>2. /\ DOMAIN registered' = 1..(n + 1)
        /\ registered'[n + 1] = c.signed
        /\ \A row \in 1..n : registered'[row] = registered[row]
    BY <1>1, <2>1 DEF TypeOK
  <2>3. CASE c.signed.mandate.user = u
    <3> DEFINE mine == {row \in DOMAIN registered' : registered'[row].mandate.user = u}
    <3>1. n + 1 \in mine /\ \A row \in mine : n + 1 >= row /\ row \in Nat
      BY <1>1, <2>2, <2>3
    <3>2. Max(mine) = n + 1
      BY <1>1, <3>1 DEF Max
    <3>3. Newest(u)' = c.signed
      BY <2>2, <3>1, <3>2 DEF Newest
    <3>4. QED
      BY <1>3, <3>3
  <2>4. CASE c.signed.mandate.user # u
    <3> DEFINE mine == {row \in DOMAIN registered' : registered'[row].mandate.user = u}
    <3>1. mine = own
      BY <1>1, <2>2, <2>4
    <3>2. own # {} => Max(own) \in 1..n
      <4>1. ASSUME own # {} PROVE \E x \in own : \A y \in own : x >= y
        BY <1>1, <4>1, LastRow
      <4>2. QED
        BY <1>1, <4>1 DEF Max
    <3>3. Newest(u)' = Newest(u)
      BY <2>2, <3>1, <3>2 DEF Newest
    <3>4. QED
      BY <3>3
  <2>5. QED
    BY <2>3, <2>4
<1>4. QED
  BY <1>2, <1>3

\* Registering an old mandate again does not put it back in front of a later
\* one (store.rs, mandates_for_user).
THEOREM Governs == Spec => NewestGoverns
<1>1. ASSUME TypeOK, [Next]_vars
      PROVE  [\A u \in User : Newest(u)' # Newest(u) => Newest(u)' \notin Range(registered)]_vars
  <2>1. CASE registered' = registered
    BY <2>1 DEF Newest
  <2>2. CASE \E c \in countersigned : AcceptMandate(c)
    BY <1>1, <2>2, InsertKeeps DEF AcceptMandate
  <2>3. QED
    BY <1>1, <2>1, <2>2, OnlyAccept
<1>2. QED
  BY <1>1, Typing, PTL DEF Spec, NewestGoverns
=============================================================================
