------------------------ MODULE Enforcement_proofs -------------------------
(***************************************************************************)
(* Proofs about Enforcement, for every set of verdicts, grants, devices    *)
(* and concurrent sessions: the type invariant, marks only by verdicts and *)
(* never early, executed only what a device took, moved only by a grant.   *)
(* Then what takes a condition: recovered cases stay clear where rulings   *)
(* are final; one device per ban, and a device for each executed ban,      *)
(* where sessions do not overlap.                                          *)
(***************************************************************************)
EXTENDS Enforcement, TLAPS, FiniteSetTheorems

USE MarksAssumption, EnforcementAssumption

-----------------------------------------------------------------------------
(* What the record gives a session.                                        *)

\* The bans a fold finds in force are bans of the file whose day has come.
LEMMA BansAreDue ==
  ASSUME NEW file \in SUBSET Verdict, NEW t \in Nat
  PROVE  /\ BansInForce(file, t) \subseteq file
         /\ \A b \in BansInForce(file, t) : b.kind = "ban" /\ b.executeAfter <= t
         /\ Intended(file, t) \in Bits
         /\ Intended(file, t).banned => BansInForce(file, t) # {}
  BY DEF BansInForce, InForce, Intended, Bits

\* A file holds rows that are stored.
LEMMA FilesAreStored ==
  ASSUME NEW u \in User
  PROVE  FileOf(u) \subseteq Verdict /\ \A v \in FileOf(u) : boundTo[v] # None
  BY DEF FileOf, RowsOf

-----------------------------------------------------------------------------
(* Steps of one session that write nothing but its own record.             *)

\* A step that only moves sessions between sound records keeps the invariant.
LEMMA SessionOnly ==
  ASSUME IInv, NEW s \in Session, NEW r \in Checking, Sound(r),
         session' = [session EXCEPT ![s] = r],
         UNCHANGED <<now, deviceVars, rowVars, grantVars, ingest, faults>>
  PROVE  IInv'
<1> USE DEF deviceVars, rowVars, grantVars
<1>1. TypeOK'
  BY DEF IInv, TypeOK
<1>2. IngestInv'
  BY DEF IInv, IngestInv, GrantFor
<1>3. SessionInv'
  <2> SUFFICES ASSUME NEW q \in Session PROVE Sound(session[q])'
    BY DEF SessionInv
  <2>1. session'[q] = r \/ session'[q] = session[q]
    BY DEF IInv, TypeOK
  <2> QED
    BY <2>1 DEF IInv, SessionInv, Sound
<1>4. MovedInv'
  BY DEF IInv, MovedInv, GrantFor
<1>5. CarriedInv'
  BY DEF IInv, CarriedInv
<1> QED
  BY <1>1, <1>2, <1>3, <1>4, <1>5 DEF IInv

\* Leaving is always sound.
LEMMA IdleIsSound ==
  ASSUME IInv
  PROVE  IdleSession \in Checking /\ Sound(IdleSession)
  BY DEF IInv, TypeOK, IdleSession, Checking, Bits, Clean, Sound

\* So a step by which a session leaves keeps the invariant.
LEMMA LeavingStep ==
  ASSUME IInv, NEW s \in Session, Leave(s),
         UNCHANGED <<now, deviceVars, rowVars, grantVars, ingest, faults>>
  PROVE  IInv'
  BY IdleIsSound, SessionOnly DEF Leave

\* A gate check or a recovery begins.
LEMMA StartStep ==
  ASSUME IInv, NEW s \in Session, NEW d \in Device,
         \/ \E u \in User : GateStart(s, u, d)
         \/ \E g \in Grant : RecoverStart(s, g, d)
  PROVE  IInv'
<1>0. now \in Nat /\ bits[d] \in Bits /\ Clean \in Bits
  BY DEF IInv, TypeOK, Bits, Clean
<1>1. ASSUME NEW u \in User, GateStart(s, u, d) PROVE IInv'
  <2>1. Opening("queried", u, d, None) \in Checking
    BY <1>0 DEF Checking, Opening
  <2>2. Sound(Opening("queried", u, d, None))
    BY <1>0 DEF Opening, Sound
  <2> QED
    BY <1>1, <2>1, <2>2, SessionOnly DEF GateStart
<1>2. ASSUME NEW g \in Grant, RecoverStart(s, g, d) PROVE IInv'
  <2>0. g.grantee \in User
    OBVIOUS
  <2>1. Opening("presented", g.grantee, d, g) \in Checking
    BY <1>0, <2>0 DEF Checking, Opening
  <2>2. Sound(Opening("presented", g.grantee, d, g))
    BY <1>0, <2>0 DEF Opening, Sound
  <2> QED
    BY <1>2, <2>1, <2>2, SessionOnly DEF RecoverStart
<1> QED
  BY <1>1, <1>2

\* A gate check that answers, or ends, writes nothing.
LEMMA AnswerStep ==
  ASSUME IInv, NEW s \in Session, Answer(s) \/ Marked(s) \/ Refuse(s)
  PROVE  IInv'
  BY LeavingStep DEF Answer, Marked, Refuse

\* The fold: what a session is about to write is backed by bans on file.
LEMMA ReconcileStep ==
  ASSUME IInv, NEW s \in Session, Reconcile(s)
  PROVE  IInv'
<1> DEFINE new == [session[s] EXCEPT
      !.pc = "write", !.write = IntendedFor(s), !.realizes = BansFor(s)]
<1>1. session[s] \in Checking /\ Sound(session[s]) /\ session[s].pc = "queried"
  BY DEF IInv, TypeOK, SessionInv, Reconcile
<1>2. /\ session[s].user \in User
      /\ session[s].at \in Nat /\ session[s].at <= now /\ now \in Nat
  BY <1>1 DEF Sound, Checking, IInv, TypeOK
<1>3. /\ FileOf(session[s].user) \in SUBSET Verdict
      /\ \A v \in FileOf(session[s].user) : boundTo[v] # None
  BY <1>2, FilesAreStored
<1>4. /\ IntendedFor(s) \in Bits
      /\ IntendedFor(s).banned => BansFor(s) # {}
      /\ BansFor(s) \subseteq FileOf(session[s].user)
      /\ \A v \in BansFor(s) : v.kind = "ban" /\ v.executeAfter <= session[s].at
  BY <1>2, <1>3, BansAreDue DEF IntendedFor, BansFor
<1>5. \A v \in BansFor(s) : v.kind = "ban" /\ boundTo[v] # None /\ v.executeAfter <= now
  <2> TAKE v \in BansFor(s)
  <2>1. v \in Verdict /\ v.executeAfter \in Nat
    BY <1>3, <1>4
  <2> QED
    BY <1>2, <1>3, <1>4, <2>1
<1>6. new \in Checking /\ Sound(new)
  <2>1. BansFor(s) \in SUBSET Verdict
    BY <1>3, <1>4
  <2>2. new \in Checking
    BY <1>1, <1>4, <2>1 DEF Checking
  <2>3. /\ new.pc = "write" /\ new.write = IntendedFor(s) /\ new.realizes = BansFor(s)
        /\ new.at = session[s].at /\ new.user = session[s].user
        /\ new.device = session[s].device
    BY <1>1 DEF Checking
  <2> HIDE DEF new
  <2> QED
    BY <1>1, <1>4, <1>5, <2>2, <2>3 DEF Sound
<1>7. session' = [session EXCEPT ![s] = new]
  BY DEF Reconcile
<1> HIDE DEF new
<1> QED
  BY <1>6, <1>7, SessionOnly DEF Reconcile

\* A session that only moves on keeps what it knew.
LEMMA EnterIsSound ==
  ASSUME IInv, NEW s \in Session,
         \/ /\ session[s].pc = "resolved"
            /\ session' = [session EXCEPT ![s].pc = "verified"]
         \/ /\ session[s].pc = "verified"
            /\ session' = [session EXCEPT ![s].pc = "sourced"]
         \/ /\ session[s].pc = "sourced"
            /\ session' = [session EXCEPT ![s].pc = "checked"]
         \/ /\ session[s].pc = "presented"
            /\ session' = [session EXCEPT ![s].pc = "unban"],
         UNCHANGED <<now, deviceVars, rowVars, grantVars, ingest, faults>>
  PROVE  IInv'
<1>1. session[s] \in Checking /\ Sound(session[s])
  BY DEF IInv, TypeOK, SessionInv
<1>2. PICK pc \in {"verified", "sourced", "checked", "unban"} :
         /\ session' = [session EXCEPT ![s].pc = pc]
         /\ \/ pc = "unban" /\ session[s].pc = "presented"
            \/ pc # "unban" /\ session[s].pc \in {"resolved", "verified", "sourced"}
  OBVIOUS
<1> DEFINE new == [session[s] EXCEPT !.pc = pc]
<1>3. /\ new \in Checking /\ new.pc = pc
      /\ new.at = session[s].at /\ new.user = session[s].user
      /\ new.device = session[s].device /\ new.grant = session[s].grant
      /\ new.from = session[s].from
  BY <1>1 DEF Checking
<1>4. session' = [session EXCEPT ![s] = new]
  BY <1>2
<1> HIDE DEF new
<1>5. Sound(new)
  BY <1>1, <1>2, <1>3 DEF Sound
<1> QED
  BY <1>3, <1>4, <1>5, SessionOnly

\* Recovery's reads.
LEMMA GrantReadStep ==
  ASSUME IInv, NEW s \in Session,
         \/ Resolve(s) \/ Verify(s) \/ SourceState(s) \/ DestState(s) \/ UnbanCheck(s)
  PROVE  IInv'
<1>1. CASE Resolve(s)
  <2>1. session[s] \in Checking /\ Sound(session[s]) /\ session[s].pc = "presented"
    BY <1>1 DEF IInv, TypeOK, SessionInv, Resolve
  <2>2. PICK u \in User :
           session' = [session EXCEPT ![s] = [@ EXCEPT !.pc = "resolved", !.from = u]]
    BY <1>1 DEF Resolve
  <2> DEFINE new == [session[s] EXCEPT !.pc = "resolved", !.from = u]
  <2>3. /\ new \in Checking /\ new.pc = "resolved" /\ new.from = u
        /\ new.at = session[s].at /\ new.user = session[s].user
        /\ new.device = session[s].device /\ new.grant = session[s].grant
    BY <2>1 DEF Checking
  <2>4. session[s].grant \in Grant /\ session[s].grant.case \in Case
    BY <2>1, <1>1 DEF Sound, Resolve
  <2>5. session' = [session EXCEPT ![s] = new]
    BY <2>2
  <2> HIDE DEF new
  <2>6. Sound(new)
    BY <2>1, <2>3, <2>4 DEF Sound
  <2> QED
    BY <1>1, <2>3, <2>5, <2>6, SessionOnly DEF Resolve
<1>2. CASE Verify(s)
  BY <1>2, EnterIsSound DEF Verify, Enter
<1>3. CASE SourceState(s)
  BY <1>3, EnterIsSound DEF SourceState, Enter
<1>4. CASE DestState(s)
  BY <1>4, EnterIsSound DEF DestState, Enter
<1>5. CASE UnbanCheck(s)
  BY <1>5, EnterIsSound DEF UnbanCheck, Enter
<1> QED
  BY <1>1, <1>2, <1>3, <1>4, <1>5

-----------------------------------------------------------------------------
(* Steps that write.                                                       *)

\* What stays of the sessions a step does not touch, and of its grants.
LEMMA OthersStay ==
  ASSUME IInv, TypeOK', NEW q \in Session, session'[q] = session[q],
         now' >= now,
         \A v \in Verdict : boundTo[v] # None => boundTo'[v] # None,
         \A d \in Device : carried[d] \subseteq carried'[d]
  PROVE  Sound(session[q])'
<1>1. session[q] \in Checking /\ Sound(session[q])
  BY DEF IInv, TypeOK, SessionInv
<1> DEFINE r == session[q]
<1>2. r \in Checking /\ Sound(r)
  BY <1>1
<1>3. session'[q] = r
  OBVIOUS
<1>4. r.at \in Nat /\ now \in Nat /\ now' \in Nat /\ r.realizes \subseteq Verdict
  BY <1>2 DEF Checking, IInv, TypeOK
<1>5. r.at <= now'
  BY <1>2, <1>4 DEF Sound
<1>6. ASSUME r.pc = "write", NEW v \in r.realizes
      PROVE  v.kind = "ban" /\ boundTo'[v] # None /\ v.executeAfter <= now'
  <2>1. v \in Verdict /\ v.executeAfter \in Nat
    BY <1>4, <1>6
  <2> QED
    BY <1>2, <1>4, <1>6, <2>1 DEF Sound
<1>7. r.pc = "mark" => r.realizes \subseteq carried'[r.device]
  <2>1. r.pc = "mark" => r.device \in Device
    BY <1>2 DEF Sound
  <2> QED
    BY <1>2, <2>1 DEF Sound
<1>8. /\ r.pc # "idle" => r.user \in User /\ r.device \in Device
      /\ r.pc \in {"presented", "resolved", "verified", "sourced", "checked",
                   "unban", "unbanWrite"} =>
            r.grant \in Grant /\ r.user = r.grant.grantee
      /\ r.pc \in {"resolved", "verified", "sourced", "checked"} =>
            r.grant.case \in Case /\ r.from \in User
      /\ r.pc = "write" => (r.write.banned => r.realizes # {})
  BY <1>2 DEF Sound
<1> HIDE DEF r
<1> QED
  BY <1>3, <1>5, <1>6, <1>7, <1>8 DEF Sound

\* An update sent to Apple, whatever comes of it.
LEMMA WriteStep ==
  ASSUME IInv, NEW s \in Session, NEW executes \in BOOLEAN, NEW ok \in BOOLEAN,
         Write(s, executes, ok)
  PROVE  IInv'
<1> DEFINE d == session[s].device
           r == session[s]
           new == IF ok THEN [r EXCEPT !.pc = "mark"] ELSE IdleSession
<1>1. r \in Checking /\ Sound(r) /\ r.pc = "write"
  BY DEF IInv, TypeOK, SessionInv, Write
<1>2. /\ d \in Device /\ r.write \in Bits /\ r.realizes \subseteq Verdict
      /\ r.write.banned => r.realizes # {}
      /\ \A v \in r.realizes : v.kind = "ban" /\ boundTo[v] # None /\ v.executeAfter <= now
  BY <1>1 DEF Sound, Checking
<1>3. /\ new \in Checking
      /\ new.at <= now
      /\ ok => /\ new.pc = "mark" /\ new.realizes = r.realizes
               /\ new.device = d /\ new.user = r.user
      /\ ~ok => new.pc = "idle"
  <2>1. IdleSession \in Checking /\ IdleSession.at <= now /\ IdleSession.pc = "idle"
    BY IdleIsSound DEF Sound, IdleSession
  <2> QED
    BY <1>1, <2>1 DEF Sound, Checking
<1>4. session' = [session EXCEPT ![s] = new]
  BY DEF Write, Accepted, Enter, Leave
<1> HIDE DEF new
<1>5. /\ UNCHANGED <<now, boundTo, superseded, executed, redeemed, movedTo, movedAt, ingest>>
      /\ faults' \in Nat
      /\ \/ /\ executes
            /\ bits' = [bits EXCEPT ![d] = r.write]
            /\ carried' = [carried EXCEPT ![d] = @ \cup r.realizes]
         \/ ~executes /\ ~ok /\ bits' = bits /\ carried' = carried
  BY DEF Write, rowVars, grantVars, deviceVars, IInv, TypeOK
<1> HIDE DEF d, r
<1>6. TypeOK'
  BY <1>2, <1>3, <1>4, <1>5 DEF IInv, TypeOK
<1>7. \A e \in Device : carried[e] \subseteq carried'[e]
  BY <1>2, <1>5 DEF IInv, TypeOK
<1>8. ok => r.realizes \subseteq carried'[d]
  BY <1>2, <1>5 DEF IInv, TypeOK
<1>9. SessionInv'
  <2> SUFFICES ASSUME NEW q \in Session PROVE Sound(session[q])'
    BY DEF SessionInv
  <2>1. CASE q # s
    <3>1. session'[q] = session[q]
      BY <1>4, <2>1 DEF IInv, TypeOK
    <3>2. now' >= now
      BY <1>5 DEF IInv, TypeOK
    <3> QED
      BY <1>5, <1>6, <1>7, <3>1, <3>2, OthersStay
  <2>2. CASE q = s
    <3>1. session'[q] = new
      BY <1>4, <2>2 DEF IInv, TypeOK
    <3>2. r.user \in User
      BY <1>1 DEF Sound
    <3> QED
      BY <1>2, <1>3, <1>5, <1>8, <3>1, <3>2 DEF Sound
  <2> QED
    BY <2>1, <2>2
<1>10. IngestInv' /\ MovedInv'
  BY <1>5 DEF IInv, IngestInv, MovedInv, GrantFor
<1>11. CarriedInv'
  <2>1. \A e \in Device : \A v \in carried'[e] :
           v.kind = "ban" /\ boundTo[v] # None /\ v.executeAfter <= now
    BY <1>2, <1>5 DEF IInv, CarriedInv, TypeOK
  <2>2. \A e \in Device : bits'[e].banned => carried'[e] # {}
    BY <1>2, <1>5 DEF IInv, CarriedInv, TypeOK
  <2>3. \A v \in executed : \E e \in Device : v \in carried'[e]
    BY <1>7 DEF IInv, CarriedInv
  <2> QED
    BY <1>5, <2>1, <2>2, <2>3 DEF CarriedInv
<1> QED
  BY <1>6, <1>9, <1>10, <1>11 DEF IInv

\* mark_executed: only what the device took is flagged.
LEMMA MarkStep ==
  ASSUME IInv, NEW s \in Session, NEW v \in Verdict, MarkExecuted(s, v)
  PROVE  IInv'
<1> DEFINE new == [session[s] EXCEPT !.realizes = @ \ {v}]
<1>1. /\ session[s] \in Checking /\ Sound(session[s])
      /\ session[s].pc = "mark" /\ v \in session[s].realizes
  BY DEF IInv, TypeOK, SessionInv, MarkExecuted
<1>2. /\ new \in Checking /\ new.pc = "mark"
      /\ new.realizes \subseteq session[s].realizes
      /\ new.at = session[s].at /\ new.user = session[s].user
      /\ new.device = session[s].device
  BY <1>1 DEF Checking
<1>3. session' = [session EXCEPT ![s] = new]
  BY DEF MarkExecuted
<1> HIDE DEF new
<1>4. UNCHANGED <<now, bits, carried, boundTo, superseded, redeemed, movedTo,
                  movedAt, ingest, faults>>
  BY DEF MarkExecuted, deviceVars, grantVars
<1>5. executed' = executed \cup {v}
  BY DEF MarkExecuted
<1>6. TypeOK'
  BY <1>2, <1>3, <1>4, <1>5 DEF IInv, TypeOK
<1>7. SessionInv'
  <2> SUFFICES ASSUME NEW q \in Session PROVE Sound(session[q])'
    BY DEF SessionInv
  <2>1. CASE q # s
    <3>1. session'[q] = session[q]
      BY <1>3, <2>1 DEF IInv, TypeOK
    <3>2. now' >= now
      BY <1>4 DEF IInv, TypeOK
    <3> QED
      BY <1>4, <1>6, <3>1, <3>2, OthersStay
  <2>2. CASE q = s
    <3>1. session'[q] = new
      BY <1>3, <2>2 DEF IInv, TypeOK
    <3> QED
      BY <1>1, <1>2, <1>4, <3>1 DEF Sound
  <2> QED
    BY <2>1, <2>2
<1>8. IngestInv' /\ MovedInv'
  BY <1>4 DEF IInv, IngestInv, MovedInv, GrantFor
<1>9. CarriedInv'
  <2>1. session[s].device \in Device /\ v \in carried[session[s].device]
    BY <1>1 DEF Sound
  <2> QED
    BY <1>4, <1>5, <2>1 DEF IInv, CarriedInv
<1> QED
  BY <1>6, <1>7, <1>8, <1>9 DEF IInv

\* adopt_binding: the rows that move are the named case's, and the grant
\* that moves them is spent in the same step.
LEMMA AdoptStep ==
  ASSUME IInv, NEW s \in Session, Adopt(s)
  PROVE  IInv'
<1>1. /\ session[s] \in Checking /\ Sound(session[s]) /\ session[s].pc = "checked"
  BY DEF IInv, TypeOK, SessionInv, Adopt
<1>2. PICK g \in Grant, u \in User, at \in Nat :
         /\ g = session[s].grant /\ u = session[s].user /\ at = session[s].at
         /\ g.case \in Case /\ u = g.grantee /\ u # None
  BY <1>1 DEF Sound, Checking
<1> DEFINE new == [session[s] EXCEPT !.pc = "queried"]
<1>3. /\ new \in Checking /\ new.pc = "queried" /\ new.at = session[s].at
      /\ new.user = session[s].user /\ new.device = session[s].device
  BY <1>1 DEF Checking
<1>4. session' = [session EXCEPT ![s] = new]
  BY DEF Adopt, Enter
<1> HIDE DEF new
<1>5. /\ UNCHANGED <<now, bits, carried, superseded, executed, ingest, faults>>
      /\ redeemed' = redeemed \cup {g}
      /\ boundTo' = [v \in Verdict |->
           IF MovedBy(v, g, session[s].from) THEN u ELSE boundTo[v]]
      /\ \/ /\ movedTo' = [movedTo EXCEPT ![g.case] = u]
            /\ movedAt' = [movedAt EXCEPT ![g.case] = at]
         \/ UNCHANGED <<movedTo, movedAt>>
  BY <1>2 DEF Adopt, deviceVars
<1>6. \A v \in Verdict : /\ (boundTo'[v] = u /\ v.case = g.case) \/ boundTo'[v] = boundTo[v]
                         /\ boundTo[v] # None => boundTo'[v] # None
  BY <1>2, <1>5 DEF MovedBy
<1>7. TypeOK'
  <2>1. boundTo' \in [Verdict -> User \cup {None}]
    BY <1>2, <1>5 DEF IInv, TypeOK
  <2>2. movedTo' \in [Case -> User \cup {None}] /\ movedAt' \in [Case -> Nat]
    BY <1>2, <1>5 DEF IInv, TypeOK
  <2> QED
    BY <1>2, <1>3, <1>4, <1>5, <2>1, <2>2 DEF IInv, TypeOK
<1>8. \A c, w : GrantFor(c, w) => \E h \in redeemed' : h.case = c /\ h.grantee = w
  BY <1>5 DEF GrantFor
<1>9. \E h \in redeemed' : h.case = g.case /\ h.grantee = u
  BY <1>2, <1>5
<1>10. SessionInv'
  <2> SUFFICES ASSUME NEW q \in Session PROVE Sound(session[q])'
    BY DEF SessionInv
  <2>1. CASE q # s
    <3>1. session'[q] = session[q]
      BY <1>4, <2>1 DEF IInv, TypeOK
    <3>2. now' >= now
      BY <1>5 DEF IInv, TypeOK
    <3> QED
      BY <1>5, <1>6, <1>7, <3>1, <3>2, OthersStay
  <2>2. CASE q = s
    <3>1. session'[q] = new
      BY <1>4, <2>2 DEF IInv, TypeOK
    <3> QED
      BY <1>1, <1>3, <1>5, <3>1 DEF Sound
  <2> QED
    BY <2>1, <2>2
<1>11. IngestInv'
  BY <1>5, <1>8 DEF IInv, IngestInv, GrantFor
<1>12. MovedInv'
  <2>1. ASSUME NEW c \in Case, movedTo'[c] # None
        PROVE  \E h \in redeemed' : h.case = c /\ h.grantee = movedTo'[c]
    <3>1. movedTo'[c] = movedTo[c] \/ (c = g.case /\ movedTo'[c] = u)
      BY <1>2, <1>5 DEF IInv, TypeOK
    <3>2. CASE movedTo'[c] = movedTo[c]
      <4>1. GrantFor(c, movedTo[c])
        BY <2>1, <3>2 DEF IInv, MovedInv
      <4> QED
        BY <1>8, <3>2, <4>1
    <3> QED
      BY <1>9, <3>1, <3>2
  <2>2. ASSUME NEW v \in Verdict, boundTo'[v] \notin {None, v.user}
        PROVE  \E h \in redeemed' : h.case = v.case /\ h.grantee = boundTo'[v]
    BY <1>6, <1>8, <1>9, <2>2 DEF IInv, MovedInv
  <2> QED
    BY <2>1, <2>2 DEF MovedInv, GrantFor
<1>13. CarriedInv'
  BY <1>5, <1>6 DEF IInv, CarriedInv, TypeOK
<1> QED
  BY <1>7, <1>10, <1>11, <1>12, <1>13 DEF IInv

\* An unban grant is spent; its session goes on to the write.
LEMMA UnbanRedeemStep ==
  ASSUME IInv, NEW s \in Session, UnbanRedeem(s)
  PROVE  IInv'
<1> DEFINE new == [session[s] EXCEPT !.pc = "unbanWrite"]
<1>1. session[s] \in Checking /\ Sound(session[s]) /\ session[s].pc = "unban"
  BY DEF IInv, TypeOK, SessionInv, UnbanRedeem
<1>2. /\ new \in Checking /\ new.pc = "unbanWrite" /\ new.at = session[s].at
      /\ new.user = session[s].user /\ new.device = session[s].device
      /\ new.grant = session[s].grant
  BY <1>1 DEF Checking
<1>3. session' = [session EXCEPT ![s] = new]
  BY DEF UnbanRedeem, Enter
<1> HIDE DEF new
<1>4. /\ UNCHANGED <<now, bits, carried, boundTo, superseded, executed, movedTo,
                     movedAt, ingest, faults>>
      /\ redeemed' = redeemed \cup {session[s].grant}
      /\ session[s].grant \in Grant
  BY <1>1 DEF UnbanRedeem, deviceVars, rowVars, Sound
<1>5. TypeOK'
  BY <1>2, <1>3, <1>4 DEF IInv, TypeOK
<1>6. SessionInv'
  <2> SUFFICES ASSUME NEW q \in Session PROVE Sound(session[q])'
    BY DEF SessionInv
  <2>1. CASE q # s
    <3>1. session'[q] = session[q]
      BY <1>3, <2>1 DEF IInv, TypeOK
    <3>2. now' >= now
      BY <1>4 DEF IInv, TypeOK
    <3> QED
      BY <1>4, <1>5, <3>1, <3>2, OthersStay
  <2>2. CASE q = s
    <3>1. session'[q] = new
      BY <1>3, <2>2 DEF IInv, TypeOK
    <3> QED
      BY <1>1, <1>2, <1>4, <3>1 DEF Sound
  <2> QED
    BY <2>1, <2>2
<1>7. \A c, w : GrantFor(c, w) => \E h \in redeemed' : h.case = c /\ h.grantee = w
  BY <1>4 DEF GrantFor
<1>8. IngestInv' /\ MovedInv'
  BY <1>4, <1>7 DEF IInv, IngestInv, MovedInv, GrantFor
<1>9. CarriedInv'
  BY <1>4 DEF IInv, CarriedInv
<1> QED
  BY <1>5, <1>6, <1>8, <1>9 DEF IInv

\* The unban write only ever clears.
LEMMA UnbanWriteStep ==
  ASSUME IInv, NEW s \in Session, NEW executes \in BOOLEAN, NEW ok \in BOOLEAN,
         UnbanWrite(s, executes, ok)
  PROVE  IInv'
<1> DEFINE d == session[s].device
           new == IF ok THEN [session[s] EXCEPT !.pc = "queried", !.seen = Clean]
                        ELSE IdleSession
<1>1. session[s] \in Checking /\ Sound(session[s]) /\ session[s].pc = "unbanWrite"
  BY DEF IInv, TypeOK, SessionInv, UnbanWrite
<1>2. Clean \in Bits /\ ~Clean.banned
  BY DEF Clean, Bits
<1>3. /\ new \in Checking
      /\ \/ new = IdleSession
         \/ /\ new.pc = "queried" /\ new.at = session[s].at
            /\ new.user = session[s].user /\ new.device = session[s].device
  BY <1>1, <1>2, IdleIsSound DEF Checking
<1>4. session' = [session EXCEPT ![s] = new]
  BY DEF UnbanWrite, Leave
<1> HIDE DEF new
<1>5. /\ UNCHANGED <<now, carried, boundTo, superseded, executed, redeemed, movedTo,
                     movedAt, ingest>>
      /\ faults' \in Nat
      /\ bits' = bits \/ bits' = [bits EXCEPT ![d] = Clean]
  BY DEF UnbanWrite, rowVars, grantVars, IInv, TypeOK
<1> HIDE DEF d
<1>6. TypeOK'
  BY <1>2, <1>3, <1>4, <1>5 DEF IInv, TypeOK
<1>7. SessionInv'
  <2> SUFFICES ASSUME NEW q \in Session PROVE Sound(session[q])'
    BY DEF SessionInv
  <2>1. CASE q # s
    <3>1. session'[q] = session[q]
      BY <1>4, <2>1 DEF IInv, TypeOK
    <3>2. now' >= now
      BY <1>5 DEF IInv, TypeOK
    <3> QED
      BY <1>5, <1>6, <3>1, <3>2, OthersStay
  <2>2. CASE q = s
    <3>1. session'[q] = new
      BY <1>4, <2>2 DEF IInv, TypeOK
    <3>2. CASE new = IdleSession
      BY <1>5, <3>1, <3>2, IdleIsSound DEF Sound, IdleSession
    <3>3. CASE new.pc = "queried" /\ new.at = session[s].at
               /\ new.user = session[s].user /\ new.device = session[s].device
      BY <1>1, <1>5, <3>1, <3>3 DEF Sound
    <3> QED
      BY <1>3, <3>2, <3>3
  <2> QED
    BY <2>1, <2>2
<1>8. IngestInv' /\ MovedInv'
  BY <1>5 DEF IInv, IngestInv, MovedInv, GrantFor
<1>9. CarriedInv'
  <2>1. \A e \in Device : bits'[e].banned => bits[e].banned
    BY <1>2, <1>5 DEF IInv, TypeOK
  <2> QED
    BY <1>5, <2>1 DEF IInv, CarriedInv
<1> QED
  BY <1>6, <1>7, <1>8, <1>9 DEF IInv

-----------------------------------------------------------------------------
(* receive_verdict.                                                        *)

\* Steps that leave sessions, bits and grants alone keep sessions sound.
LEMMA SessionsStay ==
  ASSUME IInv, TypeOK', UNCHANGED <<session, bits, carried>>, now' >= now,
         \A v \in Verdict : boundTo[v] # None => boundTo'[v] = boundTo[v]
  PROVE  SessionInv'
<1> SUFFICES ASSUME NEW q \in Session PROVE Sound(session[q])'
  BY DEF SessionInv
<1> QED
  BY OthersStay

\* The binding looked up for a verdict is its own, or one a grant gave.
LEMMA ReceiveStep ==
  ASSUME IInv, NEW i \in Ingest, NEW v \in Verdict, Receive(i, v)
  PROVE  IInv'
<1>1. PICK to \in User :
         /\ to = IngestTarget(v)
         /\ to # v.user => GrantFor(v.case, to)
         /\ ingest' = [ingest EXCEPT ![i] = [pc |-> "put", verdict |-> v, to |-> to]]
  <2>1. v.case \in Case /\ v.user \in User
    OBVIOUS
  <2>2. IngestTarget(v) \in User
    BY <2>1 DEF IngestTarget, IInv, TypeOK
  <2>3. IngestTarget(v) # v.user => GrantFor(v.case, IngestTarget(v))
    BY <2>1 DEF IngestTarget, IInv, MovedInv
  <2> QED
    BY <2>2, <2>3 DEF Receive
<1>2. UNCHANGED <<now, bits, carried, boundTo, superseded, executed, redeemed,
                  movedTo, movedAt, session, faults>>
  BY DEF Receive, deviceVars, rowVars, grantVars
<1>3. TypeOK'
  BY <1>1, <1>2 DEF IInv, TypeOK, Receiving
<1>4. IngestInv'
  BY <1>1, <1>2 DEF IInv, TypeOK, IngestInv, GrantFor
<1>5. SessionInv'
  BY <1>2, <1>3, SessionsStay DEF IInv, TypeOK
<1>6. MovedInv' /\ CarriedInv'
  BY <1>2 DEF IInv, MovedInv, CarriedInv, GrantFor
<1> QED
  BY <1>3, <1>4, <1>5, <1>6 DEF IInv

\* put_verdict stores a row once, where the lookup said.
LEMMA PutVerdictStep ==
  ASSUME IInv, NEW i \in Ingest, PutVerdict(i)
  PROVE  IInv'
<1>1. /\ ingest[i] \in Receiving /\ ingest[i].pc = "put"
  BY DEF IInv, TypeOK, PutVerdict
<1>2. PICK v \in Verdict, to \in User :
         /\ v = ingest[i].verdict /\ to = ingest[i].to
         /\ to # v.user => GrantFor(v.case, to)
  <2>1. ingest[i].verdict \in Verdict /\ ingest[i].to \in User
    BY <1>1 DEF Receiving, IdleIngest
  <2> QED
    BY <1>1, <2>1 DEF IInv, IngestInv
<1>3. /\ UNCHANGED <<now, bits, carried, superseded, executed, redeemed,
                     movedTo, movedAt, session, faults>>
      /\ \/ boundTo' = boundTo
         \/ boundTo[v] = None /\ boundTo' = [boundTo EXCEPT ![v] = to]
  BY <1>2 DEF PutVerdict, deviceVars, grantVars
<1>4. PICK r \in Receiving : ingest' = [ingest EXCEPT ![i] = r] /\ r.pc # "put"
  <2>1. IdleIngest \in Receiving /\ IdleIngest.pc # "put"
    BY DEF Receiving, IdleIngest
  <2>2. /\ [ingest[i] EXCEPT !.pc = "supersede"] \in Receiving
        /\ [ingest[i] EXCEPT !.pc = "supersede"].pc # "put"
    BY <1>1 DEF Receiving, IdleIngest
  <2> QED
    BY <2>1, <2>2 DEF PutVerdict
<1>5. \A w \in Verdict : boundTo[w] # None => boundTo'[w] = boundTo[w]
  BY <1>3 DEF IInv, TypeOK
<1>6. TypeOK'
  BY <1>3, <1>4 DEF IInv, TypeOK
<1>7. IngestInv'
  BY <1>3, <1>4 DEF IInv, TypeOK, IngestInv, GrantFor
<1>8. SessionInv'
  BY <1>3, <1>5, <1>6, SessionsStay DEF IInv, TypeOK
<1>9. MovedInv'
  <2>1. ASSUME NEW w \in Verdict, boundTo'[w] \notin {None, w.user}
        PROVE  \E h \in redeemed : h.case = w.case /\ h.grantee = boundTo'[w]
    <3>1. boundTo'[w] = boundTo[w] \/ (w = v /\ boundTo'[w] = to)
      BY <1>3 DEF IInv, TypeOK
    <3>2. CASE boundTo'[w] = boundTo[w]
      <4>1. GrantFor(w.case, boundTo[w])
        BY <2>1, <3>2 DEF IInv, MovedInv
      <4> QED
        BY <3>2, <4>1 DEF GrantFor
    <3>3. CASE w = v /\ boundTo'[w] = to
      BY <1>2, <2>1, <3>3 DEF GrantFor
    <3> QED
      BY <3>1, <3>2, <3>3
  <2> QED
    BY <1>3, <2>1 DEF IInv, MovedInv, GrantFor
<1>10. CarriedInv'
  <2>1. \A d \in Device : \A w \in carried[d] : boundTo'[w] # None
    BY <1>5 DEF IInv, TypeOK, CarriedInv
  <2> QED
    BY <1>3, <2>1 DEF IInv, CarriedInv
<1> QED
  BY <1>6, <1>7, <1>8, <1>9, <1>10 DEF IInv

\* A terminal verdict retires notices; it marks and moves nothing.
LEMMA SupersedeStep ==
  ASSUME IInv, NEW i \in Ingest, Supersede(i)
  PROVE  IInv'
<1>1. /\ UNCHANGED <<now, bits, carried, boundTo, executed, redeemed,
                     movedTo, movedAt, session, faults>>
      /\ superseded' \subseteq Verdict
      /\ ingest' = [ingest EXCEPT ![i] = IdleIngest]
  BY DEF Supersede, deviceVars, grantVars, IInv, TypeOK
<1>2. IdleIngest \in Receiving /\ IdleIngest.pc # "put"
  BY DEF Receiving, IdleIngest
<1>3. TypeOK'
  BY <1>1, <1>2 DEF IInv, TypeOK
<1>4. IngestInv'
  BY <1>1, <1>2 DEF IInv, TypeOK, IngestInv, GrantFor
<1>5. SessionInv'
  BY <1>1, <1>3, SessionsStay DEF IInv, TypeOK
<1>6. MovedInv' /\ CarriedInv'
  BY <1>1 DEF IInv, MovedInv, CarriedInv, GrantFor
<1> QED
  BY <1>3, <1>4, <1>5, <1>6 DEF IInv

-----------------------------------------------------------------------------
(* The environment, and the theorem.                                       *)

\* Time passes: what was due stays due.
LEMMA TickStep ==
  ASSUME IInv, Tick
  PROVE  IInv'
<1>1. /\ UNCHANGED <<bits, carried, boundTo, superseded, executed, redeemed,
                     movedTo, movedAt, ingest, session, faults>>
      /\ now' = now + 1 /\ now \in Nat
  BY DEF Tick, deviceVars, rowVars, grantVars, IInv, TypeOK
<1>2. TypeOK'
  BY <1>1 DEF IInv, TypeOK
<1>3. IngestInv' /\ MovedInv'
  BY <1>1 DEF IInv, IngestInv, MovedInv, GrantFor
<1>4. SessionInv'
  BY <1>1, <1>2, SessionsStay
<1>5. CarriedInv'
  <2>1. ASSUME NEW d \in Device, NEW v \in carried[d] PROVE v.executeAfter <= now'
    <3>1. v \in Verdict /\ v.executeAfter \in Nat
      BY DEF IInv, TypeOK
    <3>2. v.executeAfter <= now
      BY DEF IInv, CarriedInv
    <3> QED
      BY <1>1, <3>1, <3>2
  <2> QED
    BY <1>1, <2>1 DEF IInv, CarriedInv
<1> QED
  BY <1>2, <1>3, <1>4, <1>5 DEF IInv

\* A restart forgets what was in flight and nothing else.
LEMMA RestartStep ==
  ASSUME IInv, Restart
  PROVE  IInv'
<1>1. /\ UNCHANGED <<now, bits, carried, boundTo, superseded, executed, redeemed,
                     movedTo, movedAt>>
      /\ faults' = faults + 1 /\ faults \in Nat /\ now \in Nat
      /\ ingest' = [i \in Ingest |-> IdleIngest]
      /\ session' = [s \in Session |-> IdleSession]
  BY DEF Restart, deviceVars, rowVars, grantVars, IInv, TypeOK
<1>2. IdleIngest \in Receiving /\ IdleIngest.pc # "put"
  BY DEF Receiving, IdleIngest
<1>3. TypeOK'
  BY <1>1, <1>2, IdleIsSound DEF IInv, TypeOK
<1>4. IngestInv'
  BY <1>1, <1>2 DEF IngestInv
<1>5. SessionInv'
  BY <1>1 DEF SessionInv, Sound, IdleSession
<1>6. MovedInv' /\ CarriedInv'
  BY <1>1 DEF IInv, MovedInv, CarriedInv, GrantFor
<1> QED
  BY <1>3, <1>4, <1>5, <1>6 DEF IInv

\* At the start nothing is stored, spent, marked or in flight.
LEMMA InitInv == Init => IInv
<1> SUFFICES ASSUME Init PROVE IInv
  OBVIOUS
<1>1. Clean \in Bits /\ ~Clean.banned
  BY DEF Clean, Bits
<1>2. TypeOK
  BY <1>1 DEF Init, TypeOK, Receiving, IdleIngest, Checking, IdleSession
<1>3. IngestInv /\ SessionInv
  BY DEF Init, IngestInv, IdleIngest, SessionInv, Sound, IdleSession
<1>4. MovedInv /\ CarriedInv
  BY <1>1 DEF Init, MovedInv, CarriedInv
<1> QED
  BY <1>2, <1>3, <1>4 DEF IInv

\* Every step keeps the inductive invariant.
LEMMA NextInv == IInv /\ [Next]_vars => IInv'
<1> SUFFICES ASSUME IInv, [Next]_vars PROVE IInv'
  OBVIOUS
<1>1. ASSUME NEW i \in Ingest, IngestStep(i) PROVE IInv'
  BY <1>1, ReceiveStep, PutVerdictStep, SupersedeStep DEF IngestStep
<1>2. ASSUME NEW s \in Session, NEW u \in User, NEW d \in Device, GateStart(s, u, d)
      PROVE  IInv'
  BY <1>2, StartStep
<1>3. ASSUME NEW s \in Session, NEW g \in Grant, NEW d \in Device, RecoverStart(s, g, d)
      PROVE  IInv'
  BY <1>3, StartStep
<1>4. ASSUME NEW s \in Session, GateStep(s) PROVE IInv'
  BY <1>4, AnswerStep, ReconcileStep, WriteStep, MarkStep DEF GateStep
<1>5. ASSUME NEW s \in Session, GrantStep(s) PROVE IInv'
  BY <1>5, GrantReadStep, AdoptStep, UnbanRedeemStep, UnbanWriteStep, AnswerStep
     DEF GrantStep
<1>6. CASE UNCHANGED vars
  BY <1>6 DEF vars, deviceVars, rowVars, grantVars, IInv, TypeOK, IngestInv,
              SessionInv, Sound, MovedInv, CarriedInv, GrantFor
<1> QED
  BY <1>1, <1>2, <1>3, <1>4, <1>5, <1>6, TickStep, RestartStep DEF Next

\* The invariant of every run, in whatever order requests, answers, grants,
\* verdicts and restarts come.
THEOREM Inductive == Spec => []IInv
  BY InitInv, NextInv, PTL DEF Spec

\* What the named parts of the invariant come to.
LEMMA Consequences ==
  ASSUME IInv
  PROVE  TypeOK /\ MarkCarriedByABan /\ ExecutedWasCarried /\ MovedOnlyByGrant
<1>1. MarkCarriedByABan
  BY DEF IInv, CarriedInv, MarkCarriedByABan
<1>2. ExecutedWasCarried
  BY DEF IInv, CarriedInv, ExecutedWasCarried
<1>3. MovedOnlyByGrant
  BY DEF IInv, MovedInv, MovedOnlyByGrant, GrantFor
<1> QED
  BY <1>1, <1>2, <1>3 DEF IInv

\* Records are well formed in every reachable state.
THEOREM Typing == Spec => []TypeOK
<1>1. IInv => TypeOK
  BY DEF IInv
<1> QED
  BY <1>1, Inductive, PTL

\* Marks only by verdicts: a banned mark was put on by a write that carried
\* a ban on file whose day had come, and executed is only said of what a
\* device took.
THEOREM MarksOnlyByVerdicts == Spec => [](MarkCarriedByABan /\ ExecutedWasCarried)
<1>1. IInv => MarkCarriedByABan /\ ExecutedWasCarried
  BY Consequences
<1> QED
  BY <1>1, Inductive, PTL

\* Verdicts change hands only by a spent grant of their own case.
THEOREM CasesMoveOnlyByGrants == Spec => []MovedOnlyByGrant
<1>1. IInv => MovedOnlyByGrant
  BY Consequences
<1> QED
  BY <1>1, Inductive, PTL

-----------------------------------------------------------------------------
(* Recovered cases stay clear, where rulings are final.                    *)

\* Among finitely many rows one governs.
LEMMA OneGoverns ==
  ASSUME NEW F \in SUBSET Verdict, IsFiniteSet(F), F # {},
         \A v, w \in F : v.case = w.case
  PROVE  \E v \in F : Governs(v, F)
<1> DEFINE After(x) == {y \in F : Later(y, x)}
           T == {After(x) : x \in F}
<1>1. \A v \in F : v.decidedAt \in Nat /\ Precedence(v) \in Nat
  BY DEF Precedence
<1>2. \A x \in F : After(x) \in FiniteSubsetsOf(F)
  <2> TAKE x \in F
  <2>1. After(x) \in SUBSET F
    OBVIOUS
  <2>2. IsFiniteSet(After(x))
    BY <2>1, FS_Subset
  <2>3. QED
    BY <2>1, <2>2 DEF FiniteSubsetsOf
<1> HIDE DEF After
<1>3. T \subseteq FiniteSubsetsOf(F) /\ T # {}
  <2> HIDE MarksAssumption, EnforcementAssumption
  <2>1. QED
    BY <1>2
<1>4. \E a \in T : \A b \in T : <<b, a>> \notin StrictSubsetOrdering(F)
  BY <1>3, FS_StrictSubsetOrderingWellFounded, WFMin
<1>5. PICK x \in F : \A y \in F : <<After(y), After(x)>> \notin StrictSubsetOrdering(F)
  <2> HIDE MarksAssumption, EnforcementAssumption
  <2>1. QED
    BY <1>4
<1>6. ASSUME NEW y \in F, Later(y, x) PROVE FALSE
  <2>1. After(y) \subseteq After(x)
    BY <1>1, <1>6 DEF After, Later
  <2>2. y \in After(x) /\ y \notin After(y)
    BY <1>1, <1>6 DEF After, Later
  <2>3. <<After(y), After(x)>> \in StrictSubsetOrdering(F)
    <3>1. After(y) \in SUBSET F /\ After(x) \in SUBSET F
      BY DEF After
    <3>2. QED
      BY <2>1, <2>2, <3>1 DEF StrictSubsetOrdering
  <2>4. QED
    BY <1>5, <2>3
<1>7. QED
  BY <1>6 DEF Governs

\* A session that finds the source settled finds the case cleared.
LEMMA SettledIsCleared ==
  ASSUME RulingsFinal, IInv, RecoveredInv, NEW s \in Session,
         session[s].pc = "verified", SourceSettled(s)
  PROVE  Recovered(session[s].grant.case) \/ Cleared(session[s].grant.case, session[s].from)
<1> DEFINE c == session[s].grant.case
           u == session[s].from
           F == CaseFile(u, c)
           t == session[s].at
<1>1. Sound(session[s]) /\ Relies(session[s]) /\ session[s] \in Checking
  BY DEF IInv, TypeOK, SessionInv, RecoveredInv
<1>2. c \in Case /\ u \in User /\ t \in Nat /\ now \in Nat /\ t <= now
  BY <1>1 DEF Sound, Checking, IInv, TypeOK
<1> SUFFICES ASSUME ~Recovered(c) PROVE Cleared(c, u)
  OBVIOUS
<1>3. /\ \E v \in Stored : v.case = c
      /\ \A v \in Verdict : v.case = c => v.user = u
  BY <1>1 DEF Relies
<1>4. \A v \in Stored : v.case = c => boundTo[v] = u
  BY <1>3 DEF IInv, MovedInv, GrantFor, Recovered, Stored
<1>5. F = {v \in Stored \ superseded : v.case = c}
  BY <1>2, <1>4 DEF CaseFile, FileOf, RowsOf, Stored
<1>6. F \in SUBSET Verdict /\ IsFiniteSet(F)
  <2>1. F \subseteq Stored /\ IsFiniteSet(Stored) /\ Stored \subseteq Verdict
    BY <1>5 DEF RecoveredInv, Stored
  <2>2. QED
    BY <2>1, FS_Subset
<1>7. F # {}
  BY <1>3, <1>5 DEF RecoveredInv, SupersededInv
<1>8. PICK v \in F : Governs(v, F)
  BY <1>5, <1>6, <1>7, OneGoverns
<1>9. v.kind # "open-case" /\ ~(v.kind = "ban" /\ Unresolved(v, t))
  BY <1>8 DEF SourceSettled, StateBanned, StateOpen
<1>10. v \in Verdict /\ v.case = c /\ boundTo[v] = u
  BY <1>4, <1>5, <1>6
<1>11. CASE v.kind = "dismiss"
  BY <1>10, <1>11 DEF Cleared
<1>12. CASE v.kind = "ban"
  <2>1. Expired(v, t)
    BY <1>9, <1>12 DEF Unresolved
  <2>2. Expired(v, now)
    BY <1>2, <1>10, <2>1 DEF Expired
  <2>3. QED
    BY <1>10, <1>12, <2>2 DEF Cleared
<1>13. QED
  BY <1>9, <1>10, <1>11, <1>12

\* A case stays cleared while its rows stay.
LEMMA ClearedStays ==
  ASSUME IInv, now' \in Nat, now' >= now, NEW c, NEW u, Cleared(c, u),
         \A v \in Verdict : v.case = c /\ boundTo[v] = u => boundTo'[v] = u
  PROVE  Cleared(c, u)'
<1>1. PICK v \in Verdict : /\ v.case = c
                           /\ \/ v.kind = "dismiss" /\ boundTo[v] = u
                              \/ v.kind = "ban" /\ Expired(v, now)
  BY DEF Cleared
<1>2. Expired(v, now) => Expired(v, now')
  BY DEF Expired, IInv, TypeOK
<1>3. QED
  BY <1>1, <1>2 DEF Cleared

\* Steps that move no row: new rows, redemptions and readings.
LEMMA NothingMoves ==
  ASSUME IInv, RecoveredInv, now' \in Nat, now' >= now,
         \A v \in Verdict : boundTo[v] # None => boundTo'[v] = boundTo[v],
         IsFiniteSet(Stored'), SupersededInv', redeemed \subseteq redeemed',
         \A q \in Session : session'[q] = session[q] \/ Relies(session[q])',
         \A g \in redeemed' \ redeemed : g.case = None
  PROVE  RecoveredInv'
<1>1. \A c, u : u # None /\ Cleared(c, u) => Cleared(c, u)'
  <2> SUFFICES ASSUME NEW c, NEW u, u # None, Cleared(c, u) PROVE Cleared(c, u)'
    OBVIOUS
  <2>1. QED
    BY ClearedStays
<1>2. \A c : Recovered(c) => Recovered(c)'
  BY DEF Recovered
<1>3. Stored \subseteq Stored'
  BY DEF Stored
<1>4. ASSUME NEW q \in Session PROVE Relies(session[q])'
  <2>1. CASE session'[q] = session[q]
    <3>1. Relies(session[q]) /\ Sound(session[q])
      BY DEF RecoveredInv, IInv, SessionInv
    <3>2. session[q].pc \in {"resolved", "verified", "sourced", "checked"} =>
            session[q].from # None
      BY <3>1 DEF Sound
    <3>3. QED
      BY <1>1, <1>2, <1>3, <2>1, <3>1, <3>2 DEF Relies
  <2>2. QED
    BY <2>1
<1>5. \A g \in redeemed' : g.case # None => Cleared(g.case, g.grantee)'
  BY <1>1 DEF RecoveredInv, IInv, TypeOK
<1>6. QED
  BY <1>4, <1>5 DEF RecoveredInv

\* A session that reads and moves on, or one that ends or restarts.
LEMMA SessionMoves ==
  ASSUME IInv, RecoveredInv, NEW s \in Session, NEW r, Relies(r)', redeemed' = redeemed,
         session' = [session EXCEPT ![s] = r], UNCHANGED <<now, boundTo, superseded, ingest>>
  PROVE  RecoveredInv'
<1>1. now' \in Nat /\ now' >= now
  BY DEF IInv, TypeOK
<1>2. IsFiniteSet(Stored') /\ SupersededInv'
  BY DEF RecoveredInv, SupersededInv, Stored
<1>3. \A q \in Session : session'[q] = session[q] \/ Relies(session[q])'
  BY DEF IInv, TypeOK
<1>4. QED
  BY <1>1, <1>2, <1>3, NothingMoves

\* A session that reads nothing of a case relies on nothing.
LEMMA NothingReliedOn ==
  ASSUME NEW r, r.pc \notin {"resolved", "verified", "sourced", "checked"},
         r.pc = "unban" => r.grant.case = None
  PROVE  Relies(r) /\ Relies(r)'
BY DEF Relies

\* Gate checks, and recoveries at their start and after the transaction.
LEMMA OtherSessions ==
  ASSUME IInv, RecoveredInv, NEW s \in Session,
         \/ \E u \in User, d \in Device : GateStart(s, u, d)
         \/ \E g \in Grant, d \in Device : RecoverStart(s, g, d)
         \/ GateStep(s) \/ UnbanCheck(s) \/ Refuse(s)
         \/ \E executes, ok \in BOOLEAN : UnbanWrite(s, executes, ok)
  PROVE  RecoveredInv'
<1> DEFINE Moves(r) == /\ session' = [session EXCEPT ![s] = r]
                       /\ r.pc \notin {"resolved", "verified", "sourced", "checked"}
                       /\ r.pc = "unban" => r.grant.case = None
                       /\ UNCHANGED <<now, boundTo, superseded, ingest, redeemed>>
<1> USE DEF rowVars, grantVars, deviceVars
<1>1. session[s] \in Checking
  BY DEF IInv, TypeOK
<1>2. ASSUME NEW u \in User, NEW d \in Device, GateStart(s, u, d) PROVE \E r : Moves(r)
  <2>1. Moves(Opening("queried", u, d, None))
    BY <1>2 DEF GateStart, Opening
  <2>2. QED
    BY <2>1
<1>3. ASSUME NEW g \in Grant, NEW d \in Device, RecoverStart(s, g, d) PROVE \E r : Moves(r)
  <2>1. Moves(Opening("presented", g.grantee, d, g))
    BY <1>3 DEF RecoverStart, Opening
  <2>2. QED
    BY <2>1
<1>4. ASSUME Leave(s), UNCHANGED <<now, boundTo, superseded, ingest, redeemed>>
      PROVE  \E r : Moves(r)
  <2>1. Moves(IdleSession)
    BY <1>4 DEF Leave, IdleSession
  <2>2. QED
    BY <2>1
<1>5. ASSUME Answer(s) \/ Marked(s) \/ Refuse(s) PROVE \E r : Moves(r)
  BY <1>4, <1>5 DEF Answer, Marked, Refuse
<1>6. ASSUME Reconcile(s) PROVE \E r : Moves(r)
  <2> DEFINE r == [session[s] EXCEPT !.pc = "write", !.write = IntendedFor(s),
                                     !.realizes = BansFor(s)]
  <2>1. r.pc = "write"
    BY <1>1 DEF Checking
  <2>2. session' = [session EXCEPT ![s] = r]
        /\ UNCHANGED <<now, boundTo, superseded, ingest, redeemed>>
    BY <1>6 DEF Reconcile
  <2> HIDE DEF r
  <2>3. Moves(r)
    BY <2>1, <2>2
  <2>4. QED
    BY <2>3
<1>7. ASSUME NEW executes \in BOOLEAN, NEW ok \in BOOLEAN, Write(s, executes, ok)
      PROVE  \E r : Moves(r)
  <2>1. CASE ~ok
    BY <1>4, <1>7, <2>1 DEF Write, Accepted
  <2>2. CASE ok
    <3> DEFINE r == [session[s] EXCEPT !.pc = "mark"]
    <3>1. Moves(r)
      BY <1>1, <1>7, <2>2 DEF Write, Accepted, Enter, Checking
    <3>2. QED
      BY <3>1
  <2>3. QED
    BY <2>1, <2>2
<1>8. ASSUME NEW v \in Verdict, MarkExecuted(s, v) PROVE \E r : Moves(r)
  <2> DEFINE r == [session[s] EXCEPT !.realizes = @ \ {v}]
  <2>1. Moves(r)
    BY <1>1, <1>8 DEF MarkExecuted, Checking
  <2>2. QED
    BY <2>1
<1>9. ASSUME UnbanCheck(s) PROVE \E r : Moves(r)
  <2> DEFINE r == [session[s] EXCEPT !.pc = "unban"]
  <2>1. Moves(r)
    BY <1>1, <1>9 DEF UnbanCheck, Enter, Checking
  <2>2. QED
    BY <2>1
<1>10. ASSUME NEW executes \in BOOLEAN, NEW ok \in BOOLEAN, UnbanWrite(s, executes, ok)
       PROVE  \E r : Moves(r)
  <2>1. CASE ~ok
    BY <1>4, <1>10, <2>1 DEF UnbanWrite
  <2>2. CASE ok
    <3> DEFINE r == [session[s] EXCEPT !.pc = "queried", !.seen = Clean]
    <3>1. Moves(r)
      BY <1>1, <1>10, <2>2 DEF UnbanWrite, Checking
    <3>2. QED
      BY <3>1
  <2>3. QED
    BY <2>1, <2>2
<1>11. PICK r : Moves(r)
  <2> HIDE DEF Moves
  <2>1. QED
    BY <1>2, <1>3, <1>5, <1>6, <1>7, <1>8, <1>9, <1>10 DEF GateStep
<1>12. Relies(r)'
  BY <1>11, NothingReliedOn
<1>13. QED
  BY <1>11, <1>12, SessionMoves

\* Until a case is recovered its rows are with the accused.
LEMMA ResolvedIsSound ==
  ASSUME RulingsFinal, IInv, RecoveredInv, NEW s \in Session, Resolve(s)
  PROVE  RecoveredInv'
<1> USE DEF rowVars, grantVars, deviceVars
<1> DEFINE c == session[s].grant.case
<1>1. PICK u \in User :
        /\ BindingsOf(c) = {u}
        /\ session' = [session EXCEPT ![s] = [session[s] EXCEPT !.pc = "resolved", !.from = u]]
  BY DEF Resolve
<1> PICK r : r = [session[s] EXCEPT !.pc = "resolved", !.from = u]
  OBVIOUS
<1>2. session[s] \in Checking
  BY DEF IInv, TypeOK
<1>3. r.pc = "resolved" /\ r.from = u /\ r.grant.case = c
  BY <1>2 DEF Checking
<1>4. PICK w \in Stored : w.case = c /\ boundTo[w] = u
  BY <1>1 DEF BindingsOf, Stored
<1>5. ASSUME ~Recovered(c), NEW v \in Verdict, v.case = c PROVE v.user = u
  <2>1. boundTo[w] = w.user
    BY <1>4, <1>5 DEF IInv, MovedInv, GrantFor, Recovered, Stored
  <2>2. QED
    BY <1>4, <1>5, <2>1 DEF RulingsFinal, Stored
<1>6. UNCHANGED <<now, boundTo, superseded, ingest, redeemed>>
  BY DEF Resolve
<1>7. Relies(r)'
  BY <1>3, <1>4, <1>5, <1>6 DEF Relies, Recovered, Stored
<1>8. session' = [session EXCEPT ![s] = r]
  BY <1>1
<1>9. QED
  BY <1>6, <1>7, <1>8, SessionMoves

\* The reads between the resolution and the transaction.
LEMMA ReadsAreSound ==
  ASSUME RulingsFinal, IInv, RecoveredInv, NEW s \in Session,
         Verify(s) \/ SourceState(s) \/ DestState(s)
  PROVE  RecoveredInv'
<1> USE DEF rowVars, grantVars, deviceVars
<1>1. session[s] \in Checking /\ Relies(session[s])
  BY DEF IInv, TypeOK, RecoveredInv
<1>2. UNCHANGED <<now, boundTo, superseded, ingest, redeemed>>
  BY DEF Verify, SourceState, DestState
<1>3. ASSUME NEW pc \in {"verified", "sourced", "checked"},
             session[s].pc \in {"resolved", "verified", "sourced"},
             session' = [session EXCEPT ![s] = [session[s] EXCEPT !.pc = pc]],
             pc # "verified" => \/ Recovered(session[s].grant.case)
                                \/ Cleared(session[s].grant.case, session[s].from)
      PROVE  RecoveredInv'
  <2> PICK r : r = [session[s] EXCEPT !.pc = pc]
    OBVIOUS
  <2>1. r.pc = pc /\ r.grant = session[s].grant /\ r.from = session[s].from
    BY <1>1 DEF Checking
  <2>2. session' = [session EXCEPT ![s] = r]
    BY <1>3
  <2>3. Relies(r)
    BY <1>1, <1>3, <2>1 DEF Relies
  <2>4. Relies(r)'
    BY <1>2, <2>3 DEF Relies, Recovered, Cleared, Stored
  <2>5. QED
    BY <1>2, <2>2, <2>4, SessionMoves
<1>4. CASE Verify(s)
  BY <1>3, <1>4 DEF Verify, Enter
<1>5. CASE SourceState(s)
  BY <1>3, <1>5, SettledIsCleared DEF SourceState, Enter
<1>6. CASE DestState(s)
  BY <1>1, <1>3, <1>6 DEF DestState, Enter, Relies
<1>7. QED
  BY <1>4, <1>5, <1>6

\* The redemption of an unban grant moves no row, since it names no case.
LEMMA UnbanRedeemed ==
  ASSUME RulingsFinal, IInv, RecoveredInv, NEW s \in Session, UnbanRedeem(s)
  PROVE  RecoveredInv'
<1> USE DEF rowVars, grantVars, deviceVars
<1>1. now' \in Nat /\ now' >= now
  BY DEF UnbanRedeem, IInv, TypeOK
<1>2. IsFiniteSet(Stored') /\ SupersededInv'
  BY DEF UnbanRedeem, RecoveredInv, SupersededInv, Stored
<1>3. \A q \in Session : session'[q] = session[q] \/ Relies(session[q])'
  <2>1. session'[s].pc = "unbanWrite" /\ \A q \in Session \ {s} : session'[q] = session[q]
    BY DEF UnbanRedeem, Enter, IInv, TypeOK, Checking
  <2>2. QED
    BY <2>1 DEF Relies
<1>4. redeemed' = redeemed \cup {session[s].grant} /\ boundTo' = boundTo
      /\ session[s].grant.case = None
  BY DEF UnbanRedeem, RecoveredInv, Relies
<1>5. QED
  BY <1>1, <1>2, <1>3, <1>4, NothingMoves

\* The transaction hands a cleared case to the one identity it is granted to.
LEMMA AdoptionClears ==
  ASSUME RulingsFinal, IInv, RecoveredInv, NEW s \in Session, Adopt(s)
  PROVE  RecoveredInv'
<1> USE DEF rowVars, grantVars, deviceVars
<1> PICK g, u : g = session[s].grant /\ u = session[s].from
  OBVIOUS
<1>1. session[s] \in Checking /\ Sound(session[s]) /\ Relies(session[s])
      /\ session[s].pc = "checked"
  BY DEF IInv, TypeOK, SessionInv, RecoveredInv, Adopt
<1>2. g \in Grant /\ g.case \in Case /\ u \in User /\ session[s].user = g.grantee
      /\ g.grantee \in User
  BY <1>1 DEF Sound
<1>3. /\ UNCHANGED <<now, superseded, executed, ingest>> /\ now' \in Nat /\ now' >= now
      /\ redeemed' = redeemed \cup {g}
      /\ boundTo' = [v \in Verdict |->
           IF boundTo[v] = u /\ v.case = g.case THEN g.grantee ELSE boundTo[v]]
  BY <1>2 DEF Adopt, MovedBy, IInv, TypeOK
<1>4. Stored' = Stored
  BY <1>2, <1>3 DEF Stored
<1>5. IsFiniteSet(Stored') /\ SupersededInv'
  BY <1>3, <1>4 DEF RecoveredInv, SupersededInv
<1>6. \A c : Recovered(c) => Recovered(c)'
  BY <1>3 DEF Recovered
<1>7. Recovered(g.case)'
  BY <1>3 DEF Recovered
<1>8. \A c, w : c # g.case /\ Cleared(c, w) => Cleared(c, w)'
  <2> SUFFICES ASSUME NEW c, NEW w, c # g.case, Cleared(c, w) PROVE Cleared(c, w)'
    OBVIOUS
  <2>1. \A v \in Verdict : v.case = c /\ boundTo[v] = w => boundTo'[v] = w
    BY <1>3
  <2>2. QED
    BY <1>3, <2>1, ClearedStays
<1>9. Cleared(g.case, g.grantee)'
  <2>1. PICK c, w : /\ c = g.case /\ (w = u \/ w = g.grantee)
                    /\ Cleared(c, w)
    <3>1. CASE Recovered(g.case)
      <4>1. PICK h \in redeemed : h.case = g.case
        BY <3>1 DEF Recovered
      <4>2. h \in Grant /\ h.case # None /\ h.grantee = g.grantee
        BY <1>2, <4>1 DEF RulingsFinal, IInv, TypeOK
      <4>3. QED
        BY <4>1, <4>2 DEF RecoveredInv
    <3>2. CASE Cleared(g.case, u)
      BY <3>2
    <3>3. QED
      BY <1>1, <3>1, <3>2 DEF Relies
  <2>2. PICK v \in Verdict : /\ v.case = c
                             /\ \/ v.kind = "dismiss" /\ boundTo[v] = w
                                \/ v.kind = "ban" /\ Expired(v, now)
    BY <2>1 DEF Cleared
  <2>3. boundTo[v] = w => boundTo'[v] = g.grantee
    BY <1>3, <2>1, <2>2
  <2>4. now' = now
    BY <1>3
  <2>5. \E x \in Verdict : /\ x.case = g.case
                           /\ \/ x.kind = "dismiss" /\ boundTo'[x] = g.grantee
                              \/ x.kind = "ban" /\ Expired(x, now')
    BY <2>1, <2>2, <2>3, <2>4
  <2>6. QED
    BY <2>5 DEF Cleared
<1>10. /\ \A q \in Session \ {s} : session'[q] = session[q]
       /\ session'[s].pc = "queried"
  BY <1>1 DEF Adopt, Enter, IInv, TypeOK, Checking
<1>11. ASSUME NEW q \in Session \ {s} PROVE Relies(session[q])'
  <2>1. Relies(session[q])
    BY DEF RecoveredInv
  <2>2. CASE session[q].grant.case = g.case
    BY <1>4, <1>7, <1>10, <2>1, <2>2 DEF Relies
  <2>3. CASE session[q].grant.case # g.case
    BY <1>4, <1>6, <1>8, <1>10, <2>1, <2>3 DEF Relies
  <2>4. QED
    BY <2>2, <2>3
<1>12. Relies(session[s])'
  BY <1>10 DEF Relies
<1>13. ASSUME NEW h \in redeemed', h.case # None PROVE Cleared(h.case, h.grantee)'
  <2>1. h \in Grant
    BY <1>2, <1>3, <1>13 DEF IInv, TypeOK
  <2>2. CASE h.case = g.case
    BY <1>2, <1>9, <1>13, <2>1, <2>2 DEF RulingsFinal
  <2>3. CASE h.case # g.case
    BY <1>3, <1>8, <1>13, <2>3 DEF RecoveredInv
  <2>4. QED
    BY <2>2, <2>3
<1>14. QED
  BY <1>5, <1>11, <1>12, <1>13 DEF RecoveredInv

\* Verdicts that arrive, and notices they supersede.
LEMMA ArrivalsKeepClear ==
  ASSUME RulingsFinal, IInv, RecoveredInv, NEW i \in Ingest, IngestStep(i)
  PROVE  RecoveredInv'
<1> USE DEF rowVars, grantVars, deviceVars
<1>1. ingest \in [Ingest -> Receiving] /\ ingest[i] \in Receiving
  BY DEF IInv, TypeOK
<1>2. /\ UNCHANGED <<now, session, redeemed>> /\ now' \in Nat /\ now' >= now
  BY DEF IngestStep, Receive, PutVerdict, Supersede, IInv, TypeOK
<1>3. ASSUME NEW v \in Verdict, Receive(i, v) PROVE RecoveredInv'
  <2>1. boundTo' = boundTo /\ superseded' = superseded /\ Stored' = Stored
    BY <1>3 DEF Receive, Stored
  <2>2. \A j \in Ingest : ingest'[j] = ingest[j] \/ ingest'[j].pc = "put"
    BY <1>1, <1>3 DEF Receive
  <2>3. SupersededInv'
    BY <2>1, <2>2 DEF RecoveredInv, SupersededInv
  <2>4. QED
    BY <1>2, <2>1, <2>3, NothingMoves DEF RecoveredInv
<1>4. CASE PutVerdict(i)
  <2> PICK v, to : v = ingest[i].verdict /\ to = ingest[i].to
    OBVIOUS
  <2>1. ingest[i].pc = "put" /\ v \in Verdict /\ to \in User /\ to # None
    BY <1>1, <1>4 DEF PutVerdict, Receiving, IdleIngest
  <2>2. /\ superseded' = superseded
        /\ boundTo' = IF boundTo[v] = None THEN [boundTo EXCEPT ![v] = to] ELSE boundTo
    BY <1>4 DEF PutVerdict
  <2>3. Stored' = Stored \cup {v}
    BY <2>1, <2>2 DEF Stored, IInv, TypeOK
  <2>4. IsFiniteSet(Stored')
    BY <2>3, FS_AddElement DEF RecoveredInv
  <2>5. \A w \in Verdict : boundTo[w] # None => boundTo'[w] = boundTo[w]
    BY <2>1, <2>2 DEF IInv, TypeOK
  <2>6. \A j \in Ingest :
          \/ ingest'[j] = ingest[j]
          \/ ingest'[j].pc = "idle"
          \/ ingest'[j].verdict = v /\ v.kind # "open-case"
    BY <1>1, <1>4, <2>1 DEF PutVerdict, IdleIngest, Receiving
  <2>7. SupersededInv'
    BY <2>2, <2>3, <2>6 DEF RecoveredInv, SupersededInv
  <2>8. QED
    BY <1>2, <2>4, <2>5, <2>7, NothingMoves
<1>5. CASE Supersede(i)
  <2>1. boundTo' = boundTo /\ Stored' = Stored
    BY <1>5 DEF Supersede, Stored
  <2>2. ingest[i].verdict \in Stored /\ ingest[i].verdict.kind # "open-case"
    BY <1>5 DEF Supersede, RecoveredInv, SupersededInv
  <2>3. \A j \in Ingest : ingest'[j] = ingest[j] \/ ingest'[j].pc = "idle"
    BY <1>1, <1>5 DEF Supersede, IdleIngest
  <2>4. \A o \in superseded' :
          \/ o \in superseded
          \/ o.kind = "open-case" /\ o.case = ingest[i].verdict.case
    BY <1>5 DEF Supersede
  <2>5. SupersededInv'
    BY <2>1, <2>2, <2>3, <2>4 DEF RecoveredInv, SupersededInv
  <2>6. QED
    BY <1>2, <2>1, <2>5, NothingMoves DEF RecoveredInv
<1>6. QED
  BY <1>3, <1>4, <1>5 DEF IngestStep

\* The clock, and a restart.
LEMMA WorldKeepsClear ==
  ASSUME RulingsFinal, IInv, RecoveredInv, Tick \/ Restart \/ UNCHANGED vars
  PROVE  RecoveredInv'
<1> USE DEF rowVars, grantVars, deviceVars, vars
<1>1. /\ boundTo' = boundTo /\ superseded' = superseded /\ redeemed' = redeemed
      /\ Stored' = Stored /\ now' \in Nat /\ now' >= now
  BY DEF Tick, Restart, Stored, IInv, TypeOK
<1>2. \A j \in Ingest : ingest'[j] = ingest[j] \/ ingest'[j].pc = "idle"
  BY DEF Tick, Restart, IdleIngest
<1>3. SupersededInv'
  BY <1>1, <1>2 DEF RecoveredInv, SupersededInv
<1>4. \A q \in Session : session'[q] = session[q] \/ session'[q].pc = "idle"
  BY DEF Tick, Restart, IdleSession
<1>5. \A q \in Session : session'[q] = session[q] \/ Relies(session[q])'
  BY <1>4 DEF Relies
<1>6. QED
  BY <1>1, <1>3, <1>5, NothingMoves DEF RecoveredInv

LEMMA RecoveredKept ==
  ASSUME RulingsFinal
  PROVE  IInv /\ RecoveredInv /\ [Next]_vars => RecoveredInv'
<1> SUFFICES ASSUME IInv, RecoveredInv, [Next]_vars PROVE RecoveredInv'
  OBVIOUS
<1>1. ASSUME NEW s \in Session, GrantStep(s) PROVE RecoveredInv'
  <2>1. CASE UnbanRedeem(s)
    BY <2>1, UnbanRedeemed
  <2>2. CASE ~UnbanRedeem(s)
    BY <1>1, <2>2, OtherSessions, ResolvedIsSound, ReadsAreSound, AdoptionClears DEF GrantStep
  <2>3. QED
    BY <2>1, <2>2
<1>2. ASSUME NEW s \in Session, GateStep(s) PROVE RecoveredInv'
  BY <1>2, OtherSessions
<1>3. ASSUME NEW s \in Session, NEW u \in User, NEW d \in Device, GateStart(s, u, d)
      PROVE  RecoveredInv'
  BY <1>3, OtherSessions
<1>4. ASSUME NEW s \in Session, NEW g \in Grant, NEW d \in Device, RecoverStart(s, g, d)
      PROVE  RecoveredInv'
  BY <1>4, OtherSessions
<1>5. QED
  BY <1>1, <1>2, <1>3, <1>4, ArrivalsKeepClear, WorldKeepsClear DEF Next

LEMMA RecoveredAtFirst == Init => RecoveredInv
<1> SUFFICES ASSUME Init PROVE RecoveredInv
  OBVIOUS
<1>1. Stored = {} /\ IsFiniteSet(Stored)
  BY FS_EmptySet DEF Init, Stored
<1>2. SupersededInv
  BY DEF Init, SupersededInv, IdleIngest
<1>3. \A s \in Session : Relies(session[s])
  BY DEF Init, Relies, IdleSession
<1>4. QED
  BY <1>1, <1>2, <1>3 DEF Init, RecoveredInv

\* The dismissal of a recovered case is with the grantee, or its one ban is
\* over.
LEMMA ClearedHasNoBan ==
  ASSUME RulingsFinal, IInv, RecoveredInv
  PROVE  RecoveredStaysClear
<1> SUFFICES ASSUME NEW g \in redeemed, g.case # None,
                    NEW b \in BansInForce(CaseFile(g.grantee, g.case), now)
             PROVE  FALSE
  BY DEF RecoveredStaysClear
<1>1. b \in Verdict /\ b.case = g.case /\ b.kind = "ban" /\ InForce(b, now)
      /\ \A w \in CaseFile(g.grantee, g.case) : w.case = b.case /\ Later(w, b) =>
           w.kind # "dismiss"
  BY DEF BansInForce, CaseFile, FileOf, RowsOf
<1>2. PICK v \in Verdict : /\ v.case = g.case
                           /\ \/ v.kind = "dismiss" /\ boundTo[v] = g.grantee
                              \/ v.kind = "ban" /\ Expired(v, now)
  BY DEF RecoveredInv, Cleared
<1>3. CASE v.kind = "ban"
  BY <1>1, <1>2, <1>3 DEF RulingsFinal, InForce
<1>4. CASE v.kind = "dismiss"
  <2>1. v \notin superseded
    BY <1>4 DEF RecoveredInv, SupersededInv
  <2>2. v \in CaseFile(g.grantee, g.case)
    BY <1>2, <1>4, <2>1 DEF CaseFile, FileOf, RowsOf
  <2>3. QED
    BY <1>1, <1>2, <1>4, <2>2 DEF RulingsFinal
<1>5. QED
  BY <1>2, <1>3, <1>4

\* Recovery never hands a live ban over, whatever arrives late and however
\* many redemptions run at once: with an authority whose rulings are final
\* and that grants a case to one identity (enforcement.rs, recover).
THEOREM RecoveredForGood ==
  ASSUME RulingsFinal
  PROVE  Spec => []RecoveredStaysClear
<1>1. IInv /\ RecoveredInv => RecoveredStaysClear
  BY ClearedHasNoBan
<1>2. IInv /\ RecoveredInv /\ [Next]_vars => RecoveredInv'
  BY RecoveredKept
<1>3. QED
  BY <1>1, <1>2, RecoveredAtFirst, Inductive, PTL DEF Spec

-----------------------------------------------------------------------------
(* One session at a time.                                                  *)

Working == {"presented", "resolved", "verified", "sourced", "checked", "unban",
            "unbanWrite", "queried"}

\* A session begins, with the clock and the bits of this moment, ...
Begins(r) ==
  /\ r.pc \in {"presented", "queried"}
  /\ r.at = now /\ r.device \in Device /\ r.seen = bits[r.device]

\* ... or goes on with what it read, to an unban write only with a settled file.
GoesOn(p, r) ==
  /\ p.pc \in Working /\ r.pc \in Working
  /\ r.at = p.at /\ r.device = p.device /\ r.seen = p.seen
  /\ r.pc \in {"unban", "unbanWrite"} =>
       \/ p.pc \in {"unban", "unbanWrite"}
       \/ ~StateBanned(FileOf(p.user), p.at) /\ ~StateOpen(FileOf(p.user))

\* The steps of a session that write neither a device nor a flag, nor fold.
Turn(s) ==
  /\ \E r : /\ session' = [session EXCEPT ![s] = r]
            /\ \/ Begins(r) /\ session[s].pc = "idle"
               \/ GoesOn(session[s], r)
               \/ /\ r = IdleSession
                  /\ session[s].pc = "mark" => session[s].realizes = {}
  /\ UNCHANGED <<now, bits, carried, executed, superseded, faults>>
  /\ \A v \in Verdict : boundTo[v] # None => boundTo'[v] # None

\* A step that only moves on goes on.
LEMMA EnteringGoesOn ==
  ASSUME IInv, NEW s \in Session, NEW pc \in Working, session[s].pc \in Working,
         pc \in {"unban", "unbanWrite"} =>
           \/ session[s].pc \in {"unban", "unbanWrite"}
           \/ /\ ~StateBanned(FileOf(session[s].user), session[s].at)
              /\ ~StateOpen(FileOf(session[s].user)),
         session' = [session EXCEPT ![s] = [session[s] EXCEPT !.pc = pc]],
         UNCHANGED <<now, bits, carried, executed, superseded, faults>>,
         \A v \in Verdict : boundTo[v] # None => boundTo'[v] # None
  PROVE  Turn(s)
<1> PICK r : r = [session[s] EXCEPT !.pc = pc]
  OBVIOUS
<1>1. session[s] \in Checking
  BY DEF IInv, TypeOK
<1>2. /\ r.pc = pc /\ r.at = session[s].at /\ r.device = session[s].device
      /\ r.seen = session[s].seen
  BY <1>1 DEF Checking
<1>3. GoesOn(session[s], r)
  BY <1>2 DEF GoesOn
<1>4. QED
  BY <1>3 DEF Turn

\* Every step of a session is a turn, a fold, a write or a flag.
LEMMA StepsOfASession ==
  ASSUME IInv, NEW s \in Session,
         \/ \E u \in User, d \in Device : GateStart(s, u, d)
         \/ \E g \in Grant, d \in Device : RecoverStart(s, g, d)
         \/ GateStep(s) \/ GrantStep(s)
  PROVE  \/ Turn(s) \/ Reconcile(s)
         \/ \E executes, ok \in BOOLEAN : Write(s, executes, ok)
         \/ \E v \in Verdict : MarkExecuted(s, v)
         \/ \E executes, ok \in BOOLEAN : UnbanWrite(s, executes, ok)
<1> USE DEF rowVars, grantVars, deviceVars
<1>1. session[s] \in Checking /\ Sound(session[s])
  BY DEF IInv, TypeOK, SessionInv
<1>2. ASSUME NEW u \in User, NEW d \in Device, GateStart(s, u, d) PROVE Turn(s)
  <2> PICK r : r = Opening("queried", u, d, None)
    OBVIOUS
  <2>1. Begins(r)
    BY DEF Begins, Opening
  <2>2. QED
    BY <1>2, <2>1 DEF GateStart, Turn
<1>3. ASSUME NEW g \in Grant, NEW d \in Device, RecoverStart(s, g, d) PROVE Turn(s)
  <2> PICK r : r = Opening("presented", g.grantee, d, g)
    OBVIOUS
  <2>1. Begins(r)
    BY DEF Begins, Opening
  <2>2. QED
    BY <1>3, <2>1 DEF RecoverStart, Turn
<1>4. CASE Answer(s) \/ Marked(s) \/ Refuse(s)
  BY <1>4 DEF Answer, Marked, Refuse, Leave, Turn
<1>5. CASE Resolve(s)
  <2>1. PICK u \in User :
          session' = [session EXCEPT ![s] = [session[s] EXCEPT !.pc = "resolved", !.from = u]]
    BY <1>5 DEF Resolve
  <2> PICK r : r = [session[s] EXCEPT !.pc = "resolved", !.from = u]
    OBVIOUS
  <2>2. /\ r.pc = "resolved" /\ r.at = session[s].at /\ r.device = session[s].device
        /\ r.seen = session[s].seen
    BY <1>1 DEF Checking
  <2>3. GoesOn(session[s], r)
    BY <1>5, <2>2 DEF GoesOn, Resolve, Working
  <2>4. QED
    BY <1>5, <2>1, <2>3 DEF Turn, Resolve
<1>6. CASE Verify(s)
  BY <1>6, EnteringGoesOn DEF Verify, Enter, Working
<1>7. CASE SourceState(s)
  BY <1>7, EnteringGoesOn DEF SourceState, Enter, Working
<1>8. CASE DestState(s)
  BY <1>8, EnteringGoesOn DEF DestState, Enter, Working
<1>9. CASE Adopt(s)
  <2>1. session[s].pc = "checked" /\ session[s].user \in User /\ session[s].user # None
    BY <1>1, <1>9 DEF Adopt, Sound
  <2>2. \A v \in Verdict : boundTo[v] # None => boundTo'[v] # None
    BY <1>9, <2>1 DEF Adopt
  <2>3. QED
    BY <1>9, <2>1, <2>2, EnteringGoesOn DEF Adopt, Enter, Working
<1>10. CASE UnbanCheck(s)
  BY <1>10, EnteringGoesOn DEF UnbanCheck, Enter, Working
<1>11. CASE UnbanRedeem(s)
  BY <1>11, EnteringGoesOn DEF UnbanRedeem, Enter, Working
<1>12. QED
  BY <1>2, <1>3, <1>4, <1>5, <1>6, <1>7, <1>8, <1>9, <1>10, <1>11 DEF GateStep, GrantStep

-----------------------------------------------------------------------------
(* One ban marks one device.                                               *)

\* A step that brands and flags nothing, and loses no flag without a fault.
LEMMA NothingBranded ==
  ASSUME IInv, BrandInv, UNCHANGED <<carried, executed>>,
         faults' \in Nat, faults' >= faults,
         \A q \in Session :
           \/ session'[q] = session[q]
           \/ /\ BrandsOnce(session[q])'
              /\ session[q].pc = "mark" => session[q].realizes = {} \/ faults' > faults
  PROVE  BrandInv'
<1>1. faults \in Nat
  BY DEF IInv, TypeOK
<1>2. ASSUME NEW v \in Verdict
      PROVE  /\ IsFiniteSet(Bears(v)')
             /\ Cardinality(Bears(v)') <= 1 + faults'
             /\ v \in executed' \/ Owed(v)' \/ Cardinality(Bears(v)') <= faults'
  <2>1. Bears(v)' = Bears(v)
    BY DEF Bears
  <2>2. Cardinality(Bears(v)) \in Nat /\ IsFiniteSet(Bears(v))
        /\ Cardinality(Bears(v)) <= 1 + faults
    BY FS_CardinalityType DEF BrandInv
  <2>3. Owed(v) => Owed(v)' \/ faults' > faults
    BY DEF Owed
  <2>4. v \in executed \/ Owed(v) \/ Cardinality(Bears(v)) <= faults
    BY DEF BrandInv
  <2>5. QED
    BY <1>1, <2>1, <2>2, <2>3, <2>4
<1>3. ASSUME NEW q \in Session PROVE BrandsOnce(session[q])'
  BY DEF BrandInv, BrandsOnce
<1>4. QED
  BY <1>2, <1>3 DEF BrandInv

\* A turn brands nothing.
LEMMA TurnsBrandNothing ==
  ASSUME IInv, BrandInv, NEW s \in Session, Turn(s)
  PROVE  BrandInv'
<1>1. PICK r : /\ session' = [session EXCEPT ![s] = r]
               /\ \/ Begins(r) /\ session[s].pc = "idle"
                  \/ GoesOn(session[s], r)
                  \/ /\ r = IdleSession
                     /\ session[s].pc = "mark" => session[s].realizes = {}
  BY DEF Turn
<1>2. UNCHANGED <<carried, executed, faults, bits>> /\ faults \in Nat
  BY DEF Turn, IInv, TypeOK
<1>3. BrandsOnce(r)
  <2>1. CASE Begins(r)
    BY <2>1 DEF Begins, BrandsOnce, IInv, CarriedInv
  <2>2. CASE GoesOn(session[s], r)
    <3>1. BrandsOnce(session[s])
      BY DEF BrandInv
    <3>2. QED
      BY <2>2, <3>1 DEF GoesOn, Working, BrandsOnce
  <2>3. CASE r = IdleSession
    BY <2>3 DEF IdleSession, BrandsOnce
  <2>4. QED
    BY <1>1, <2>1, <2>2, <2>3
<1>4. session[s].pc = "mark" => session[s].realizes = {}
  BY <1>1 DEF GoesOn, Working
<1>5. \A q \in Session :
        /\ q # s => session'[q] = session[q]
        /\ session'[s] = r
  BY <1>1 DEF IInv, TypeOK
<1>6. BrandsOnce(session[s])'
  BY <1>2, <1>3, <1>5 DEF BrandsOnce
<1>7. QED
  BY <1>2, <1>4, <1>5, <1>6, NothingBranded

\* The fold: a ban already executed is written only where it is borne.
LEMMA FoldBrandsOnce ==
  ASSUME OneBan, IInv, BrandInv, NEW s \in Session, Reconcile(s)
  PROVE  BrandInv'
<1> PICK r : r = [session[s] EXCEPT !.pc = "write", !.write = IntendedFor(s),
                                    !.realizes = BansFor(s)]
  OBVIOUS
<1>1. /\ session[s] \in Checking /\ Sound(session[s]) /\ session[s].pc = "queried"
      /\ BrandsOnce(session[s])
  BY DEF IInv, TypeOK, SessionInv, Reconcile, BrandInv
<1>2. /\ r.pc = "write" /\ r.realizes = BansFor(s) /\ r.seen = session[s].seen
      /\ r.device = session[s].device
  BY <1>1 DEF Checking
<1>3. session' = [session EXCEPT ![s] = r] /\ UNCHANGED <<carried, executed, faults>>
  BY DEF Reconcile, deviceVars, rowVars
<1>4. ASSUME NEW v \in BansFor(s), v \in executed PROVE v \in carried[session[s].device]
  <2>1. session[s].seen.banned
    BY <1>4 DEF Reconcile, WouldBrandAnother, AlreadyBranded, IntendedFor, Intended, BansFor
  <2>2. PICK w \in carried[session[s].device] : TRUE
    BY <1>1, <2>1 DEF BrandsOnce
  <2>3. session[s].device \in Device /\ w \in Verdict /\ w.kind = "ban"
    BY <1>1 DEF Sound, IInv, TypeOK, CarriedInv
  <2>4. v \in Verdict /\ v.kind = "ban"
    BY DEF BansFor, BansInForce, FileOf, RowsOf
  <2>5. QED
    BY <2>2, <2>3, <2>4 DEF OneBan
<1>5. BrandsOnce(r)
  BY <1>1, <1>2, <1>4 DEF BrandsOnce
<1>6. /\ \A q \in Session \ {s} : session'[q] = session[q]
      /\ session'[s] = r /\ faults \in Nat
  BY <1>3 DEF IInv, TypeOK
<1>7. BrandsOnce(session[s])'
  BY <1>3, <1>5, <1>6 DEF BrandsOnce
<1>8. QED
  BY <1>1, <1>3, <1>6, <1>7, NothingBranded

\* The write: the device that takes a new ban is the first, or paid for.
LEMMA WriteBrandsOnce ==
  ASSUME OneAtATime, IInv, BrandInv, NEW s \in Session,
         NEW executes \in BOOLEAN, NEW ok \in BOOLEAN, Write(s, executes, ok)
  PROVE  BrandInv'
<1> PICK d, R : d = session[s].device /\ R = session[s].realizes
  OBVIOUS
<1>1. /\ session[s] \in Checking /\ Sound(session[s]) /\ session[s].pc = "write"
      /\ BrandsOnce(session[s])
  BY DEF IInv, TypeOK, SessionInv, Write, BrandInv
<1>2. d \in Device /\ R \subseteq Verdict /\ faults \in Nat
  BY <1>1 DEF Sound, Checking, IInv, TypeOK
<1>3. /\ executed' = executed
      /\ faults' = IF ok THEN faults ELSE faults + 1
      /\ ok => executes
      /\ carried' = IF executes THEN [carried EXCEPT ![d] = @ \cup R] ELSE carried
  BY DEF Write, deviceVars, rowVars
<1>4. /\ Session = {s}
      /\ ok => /\ session'[s].pc = "mark" /\ session'[s].realizes = R
               /\ session'[s].device = d /\ session'[s].seen = session[s].seen
      /\ ~ok => session'[s].pc = "idle"
  <2>1. Session = {s}
    BY DEF OneAtATime
  <2>2. session' = [session EXCEPT ![s] =
                      IF ok THEN [session[s] EXCEPT !.pc = "mark"] ELSE IdleSession]
    BY DEF Write, Accepted, Enter, Leave
  <2>3. session'[s] = IF ok THEN [session[s] EXCEPT !.pc = "mark"] ELSE IdleSession
    BY <2>2 DEF IInv, TypeOK
  <2>4. QED
    BY <1>1, <2>1, <2>3 DEF Checking, IdleSession
<1>5. ASSUME NEW v \in Verdict
      PROVE  /\ IsFiniteSet(Bears(v)')
             /\ Cardinality(Bears(v)') <= 1 + faults'
             /\ v \in executed' \/ Owed(v)' \/ Cardinality(Bears(v)') <= faults'
  <2>1. /\ IsFiniteSet(Bears(v)) /\ Cardinality(Bears(v)) \in Nat
        /\ Cardinality(Bears(v)) <= 1 + faults
        /\ v \in executed \/ Cardinality(Bears(v)) <= faults
    BY <1>1, <1>4, FS_CardinalityType DEF BrandInv, Owed
  <2>2. CASE executes /\ v \in R /\ v \notin carried[d]
    <3>1. Bears(v)' = Bears(v) \cup {d} /\ d \notin Bears(v)
      BY <1>2, <1>3, <2>2 DEF Bears, IInv, TypeOK
    <3>2. IsFiniteSet(Bears(v)') /\ Cardinality(Bears(v)') = Cardinality(Bears(v)) + 1
      BY <2>1, <3>1, FS_AddElement
    <3>3. v \notin executed
      BY <1>1, <2>2 DEF BrandsOnce
    <3>4. ok => Owed(v)'
      BY <1>4, <2>2 DEF Owed
    <3>5. QED
      BY <1>2, <1>3, <2>1, <3>2, <3>3, <3>4
  <2>3. CASE ~(executes /\ v \in R /\ v \notin carried[d])
    <3>1. Bears(v)' = Bears(v)
      BY <1>2, <1>3, <2>3 DEF Bears, IInv, TypeOK
    <3>2. QED
      BY <1>2, <1>3, <2>1, <3>1
  <2>4. QED
    BY <2>2, <2>3
<1>6. BrandsOnce(session[s])'
  <2>1. carried[d] \subseteq carried'[d]
    BY <1>2, <1>3 DEF IInv, TypeOK
  <2>2. QED
    BY <1>1, <1>4, <2>1 DEF BrandsOnce
<1>7. QED
  BY <1>4, <1>5, <1>6 DEF BrandInv

\* The flag: from here on the ban goes to no other device.
LEMMA FlagKeepsCount ==
  ASSUME OneAtATime, IInv, BrandInv, NEW s \in Session, NEW v \in Verdict,
         MarkExecuted(s, v)
  PROVE  BrandInv'
<1>1. session[s] \in Checking /\ session[s].pc = "mark" /\ faults \in Nat
  BY DEF IInv, TypeOK, MarkExecuted
<1>2. /\ UNCHANGED <<carried, faults>> /\ executed' = executed \cup {v}
      /\ session' = [session EXCEPT ![s] = [session[s] EXCEPT
                                              !.realizes = session[s].realizes \ {v}]]
  BY DEF MarkExecuted, deviceVars
<1>3. /\ \A q \in Session \ {s} : session'[q] = session[q]
      /\ session'[s].pc = "mark" /\ session'[s].realizes = session[s].realizes \ {v}
      /\ session'[s].device = session[s].device /\ session'[s].seen = session[s].seen
  BY <1>1, <1>2 DEF IInv, TypeOK, Checking
<1>4. ASSUME NEW w \in Verdict
      PROVE  /\ IsFiniteSet(Bears(w)')
             /\ Cardinality(Bears(w)') <= 1 + faults'
             /\ w \in executed' \/ Owed(w)' \/ Cardinality(Bears(w)') <= faults'
  <2>1. Bears(w)' = Bears(w)
    BY <1>2 DEF Bears
  <2>2. w # v /\ Owed(w) => Owed(w)'
    <3>1. ASSUME w # v, NEW q \in Session, session[q].pc = "mark", w \in session[q].realizes
          PROVE  session'[q].pc = "mark" /\ w \in session'[q].realizes
      BY <1>3, <3>1
    <3>2. QED
      BY <3>1 DEF Owed
  <2>3. QED
    BY <1>2, <2>1, <2>2 DEF BrandInv
<1>5. ASSUME NEW q \in Session PROVE BrandsOnce(session[q])'
  <2>1. q = s /\ BrandsOnce(session[s])
    BY DEF OneAtATime, BrandInv
  <2>2. QED
    BY <1>1, <1>2, <1>3, <2>1 DEF BrandsOnce
<1>6. QED
  BY <1>4, <1>5 DEF BrandInv

LEMMA BrandKept ==
  ASSUME OneAtATime, OneBan
  PROVE  IInv /\ BrandInv /\ [Next]_vars => BrandInv'
<1> SUFFICES ASSUME IInv, BrandInv, [Next]_vars PROVE BrandInv'
  OBVIOUS
<1> USE DEF rowVars, grantVars, deviceVars
<1>1. faults \in Nat
  BY DEF IInv, TypeOK
<1>2. ASSUME NEW s \in Session, NEW executes \in BOOLEAN, NEW ok \in BOOLEAN,
             UnbanWrite(s, executes, ok)
      PROVE  BrandInv'
  <2> PICK r : r = IF ok THEN [session[s] EXCEPT !.pc = "queried", !.seen = Clean]
                         ELSE IdleSession
    OBVIOUS
  <2>1. /\ UNCHANGED <<carried, executed>> /\ session[s].pc = "unbanWrite"
        /\ faults' \in Nat /\ faults' >= faults
        /\ session' = [session EXCEPT ![s] = r]
    BY <1>1, <1>2 DEF UnbanWrite, Leave
  <2>2. session[s] \in Checking
    BY DEF IInv, TypeOK
  <2>3. ~r.seen.banned /\ r.pc # "write"
    BY <2>2 DEF Checking, Clean, IdleSession
  <2>4. /\ \A q \in Session \ {s} : session'[q] = session[q]
        /\ session'[s] = r
    BY <2>1 DEF IInv, TypeOK
  <2>5. BrandsOnce(session[s])'
    BY <2>3, <2>4 DEF BrandsOnce
  <2>6. QED
    BY <2>1, <2>4, <2>5, NothingBranded
<1>3. ASSUME NEW s \in Session,
             \/ \E u \in User, d \in Device : GateStart(s, u, d)
             \/ \E g \in Grant, d \in Device : RecoverStart(s, g, d)
             \/ GateStep(s) \/ GrantStep(s)
      PROVE  BrandInv'
  BY <1>2, <1>3, StepsOfASession, TurnsBrandNothing, FoldBrandsOnce, WriteBrandsOnce,
     FlagKeepsCount
<1>4. CASE UNCHANGED <<session, carried, executed, faults>>
  BY <1>1, <1>4, NothingBranded
<1>5. ASSUME NEW i \in Ingest, IngestStep(i) PROVE BrandInv'
  BY <1>4, <1>5 DEF IngestStep, Receive, PutVerdict, Supersede
<1>6. CASE Tick
  BY <1>4, <1>6 DEF Tick
<1>7. CASE Restart
  <2>1. /\ UNCHANGED <<carried, executed>> /\ faults' \in Nat /\ faults' > faults
        /\ \A q \in Session : session'[q] = IdleSession
    BY <1>1, <1>7 DEF Restart
  <2>2. \A q \in Session : BrandsOnce(session[q])'
    BY <2>1 DEF BrandsOnce, IdleSession
  <2>3. QED
    BY <1>1, <2>1, <2>2, NothingBranded
<1>8. CASE UNCHANGED vars
  BY <1>4, <1>8 DEF vars
<1>9. QED
  <2>1. CASE \E s \in Session, u \in User, d \in Device : GateStart(s, u, d)
    BY <1>3, <2>1
  <2>2. CASE \E s \in Session, g \in Grant, d \in Device : RecoverStart(s, g, d)
    BY <1>3, <2>2
  <2>3. CASE \E s \in Session : GateStep(s) \/ GrantStep(s)
    BY <1>3, <2>3
  <2>4. QED
    BY <1>5, <1>6, <1>7, <1>8, <2>1, <2>2, <2>3 DEF Next

LEMMA BrandAtFirst == Init => BrandInv
<1> SUFFICES ASSUME Init PROVE BrandInv
  OBVIOUS
<1>1. \A v \in Verdict : Bears(v) = {}
  BY DEF Init, Bears
<1>2. IsFiniteSet({}) /\ Cardinality({}) = 0 /\ faults = 0
  BY FS_EmptySet DEF Init
<1>3. \A s \in Session : BrandsOnce(session[s])
  BY DEF Init, BrandsOnce, IdleSession
<1>4. QED
  BY <1>1, <1>2, <1>3 DEF BrandInv

\* A banned identity that moves to new hardware is refused there: one ban
\* marks one device, and one more for each lost answer, failed write or
\* restart; where sessions do not overlap and there is one ban (gate_check,
\* with the flag read before the write and set after it).
THEOREM OneDeviceEach ==
  ASSUME OneAtATime, OneBan
  PROVE  Spec => []OneDevicePerBan
<1>1. BrandInv => OneDevicePerBan
  BY DEF BrandInv, Bears, OneDevicePerBan
<1>2. IInv /\ BrandInv /\ [Next]_vars => BrandInv'
  BY BrandKept
<1>3. QED
  BY <1>1, <1>2, BrandAtFirst, Inductive, PTL DEF Spec

-----------------------------------------------------------------------------
(* A ban that was executed is on a device.                                 *)

\* A ban that stands now stood, once its day had come, in every older file
\* that held it: rulings stay on file.
LEMMA StoodBefore ==
  ASSUME NEW F \in SUBSET Verdict, NEW G \in SUBSET Verdict, NEW t \in Nat, NEW n \in Nat,
         t <= n, NEW v \in F, v.executeAfter <= t, v \in BansInForce(G, n),
         \A w \in F : w.kind # "open-case" => w \in G
  PROVE  v \in BansInForce(F, t)
<1>1. v.kind = "ban" /\ InForce(v, n)
  BY DEF BansInForce
<1>2. \A w \in Verdict : Expired(w, t) => Expired(w, n)
  BY DEF Expired
<1>3. InForce(v, t)
  BY <1>1, <1>2 DEF InForce
<1>4. ASSUME NEW w \in F, w.case = v.case, Later(w, v)
      PROVE  \/ w.kind = "open-case"
             \/ w.kind = "ban" /\ w.executeAfter > t /\ ~Expired(w, t)
  <2>1. CASE w.kind # "open-case"
    <3>1. w.kind = "ban" /\ w.executeAfter > n /\ ~Expired(w, n)
      BY <1>4, <2>1 DEF BansInForce
    <3>2. w.executeAfter \in Nat
      OBVIOUS
    <3>3. QED
      BY <1>2, <3>1, <3>2
  <2>2. QED
    BY <2>1
<1>5. QED
  BY <1>1, <1>3, <1>4 DEF BansInForce

\* Where a ban is in force, the record reads as banned or open.
LEMMA InForceReads ==
  ASSUME NEW F \in SUBSET Verdict, IsFiniteSet(F), NEW t \in Nat, NEW v \in BansInForce(F, t)
  PROVE  StateBanned(F, t) \/ StateOpen(F)
<1> PICK H : H = {w \in F : w.case = v.case}
  OBVIOUS
<1>1. v \in H /\ H \in SUBSET Verdict /\ IsFiniteSet(H)
  <2>1. v \in F
    BY DEF BansInForce
  <2>2. H \subseteq F
    OBVIOUS
  <2>3. QED
    BY <2>1, <2>2, FS_Subset
<1>2. PICK w \in H : Governs(w, H)
  BY <1>1, OneGoverns
<1>3. Governs(w, F) /\ w \in F /\ w \in Verdict /\ w.case = v.case
  BY <1>2 DEF Governs
<1>4. v \in Verdict /\ v.kind = "ban" /\ ~Expired(v, t) /\ ~Later(v, w)
  BY <1>1, <1>2 DEF BansInForce, InForce, Governs
<1>5. CASE Later(w, v)
  <2>1. w.kind = "open-case" \/ (w.kind = "ban" /\ ~Expired(w, t))
    BY <1>3, <1>5 DEF BansInForce
  <2>2. QED
    BY <1>3, <2>1 DEF StateBanned, StateOpen, Unresolved
<1>6. CASE ~Later(w, v)
  <2>1. w.decidedAt = v.decidedAt /\ Precedence(w) = Precedence(v)
    BY <1>3, <1>4, <1>6 DEF Later, Precedence
  <2>2. w.kind = "ban"
    BY <1>3, <1>4, <2>1 DEF Precedence
  <2>3. w = v
    BY <1>3, <1>4, <2>1, <2>2
  <2>4. QED
    BY <1>3, <1>4, <2>3 DEF StateBanned, Unresolved
<1>7. QED
  BY <1>5, <1>6

\* The file of the one identity.
LEMMA OneFile ==
  ASSUME OneIdentity, IInv, NEW u \in User
  PROVE  /\ FileOf(u) = {v \in Verdict : boundTo[v] # None} \ superseded
         /\ \A v \in executed : v \in Verdict /\ boundTo[v] = u /\ v.executeAfter \in Nat
<1>1. \A v \in Verdict : boundTo[v] # None <=> boundTo[v] = u
  BY DEF OneIdentity, IInv, TypeOK
<1>2. \A v \in executed : v \in Verdict /\ boundTo[v] # None
  BY DEF IInv, TypeOK, CarriedInv
<1>3. QED
  BY <1>1, <1>2 DEF FileOf, RowsOf

\* No step makes a ban stand that was executed before and did not stand.
LEMMA NoneStandsAnew ==
  ASSUME OneIdentity, IInv, IInv', executed' = executed, now' >= now,
         \A v \in Verdict : boundTo[v] # None => boundTo'[v] # None,
         superseded \subseteq superseded',
         \A o \in superseded' \ superseded : o.kind = "open-case",
         NEW v \in Verdict, Stands(v)'
  PROVE  Stands(v)
<1>1. v \in executed
  BY DEF Stands
<1>2. PICK u \in User : boundTo[v] = u
  BY <1>1 DEF IInv, TypeOK, CarriedInv
<1>3. FileOf(u) = {w \in Verdict : boundTo[w] # None} \ superseded
  BY OneFile
<1>4. boundTo'[v] = u
  BY <1>2 DEF OneIdentity, IInv, TypeOK
<1> PICK G : G = FileOf(u)'
  OBVIOUS
<1>5. G = {w \in Verdict : boundTo'[w] # None} \ superseded'
  <2>1. \A w \in Verdict : boundTo'[w] # None <=> boundTo'[w] = u
    BY DEF OneIdentity, IInv, TypeOK
  <2>2. G = {w \in Verdict : boundTo'[w] = u} \ superseded'
    BY DEF FileOf, RowsOf
  <2>3. QED
    BY <2>1, <2>2
<1>6. v \in BansInForce(G, now')
  <2>1. (v \in BansInForce(FileOf(boundTo[v]), now))'
    BY DEF Stands
  <2>2. FileOf(boundTo[v])' = G
    BY <1>4 DEF FileOf, RowsOf
  <2>3. QED
    BY <2>1, <2>2 DEF BansInForce
<1>7. v \in FileOf(u) /\ v.executeAfter <= now /\ now \in Nat /\ now' \in Nat
  <2>1. v \in G
    BY <1>6 DEF BansInForce
  <2>2. QED
    BY <1>1, <1>2, <1>3, <1>5, <2>1 DEF IInv, TypeOK, CarriedInv
<1>8. \A w \in FileOf(u) : w.kind # "open-case" => w \in G
  BY <1>3, <1>5
<1>9. FileOf(u) \in SUBSET Verdict /\ G \in SUBSET Verdict
  BY <1>3, <1>5
<1>10. v \in BansInForce(FileOf(u), now)
  BY <1>6, <1>7, <1>8, <1>9, StoodBefore
<1>11. QED
  BY <1>1, <1>2, <1>10 DEF Stands

\* A step that leaves the bits and the flags alone.
LEMMA NothingCleared ==
  ASSUME OneIdentity, IInv, IInv', StandInv, UNCHANGED <<executed, bits>>, now' >= now,
         IsFiniteSet(Stored'),
         \A v \in Verdict : boundTo[v] # None => boundTo'[v] # None,
         superseded \subseteq superseded',
         \A o \in superseded' \ superseded : o.kind = "open-case",
         \A q \in Session : session'[q] = session[q] \/ ClearsNone(session[q])'
  PROVE  StandInv'
<1>1. \A v \in Verdict : Stands(v)' => Stands(v)
  <2> SUFFICES ASSUME NEW v \in Verdict, Stands(v)' PROVE Stands(v)
    OBVIOUS
  <2>1. QED
    BY NoneStandsAnew
<1>2. \A v \in Verdict : Stands(v)' => \E d \in Device : bits'[d].banned
  BY <1>1 DEF StandInv
<1>3. ASSUME NEW q \in Session PROVE ClearsNone(session[q])'
  <2>1. CASE session'[q] = session[q]
    <3>1. ClearsNone(session[q])
      BY DEF StandInv
    <3>2. QED
      BY <1>1, <2>1, <3>1 DEF ClearsNone
  <2>2. QED
    BY <2>1
<1>4. QED
  BY <1>2, <1>3 DEF StandInv

\* Where the record reads as neither banned nor open no executed ban stands.
LEMMA SettledMeansNone ==
  ASSUME OneIdentity, IInv, IsFiniteSet(Stored), NEW u \in User, NEW t \in Nat, t <= now,
         \A v \in executed : v.executeAfter <= t,
         ~StateBanned(FileOf(u), t), ~StateOpen(FileOf(u)), NEW v \in Verdict
  PROVE  ~Stands(v)
<1> SUFFICES ASSUME Stands(v) PROVE FALSE
  OBVIOUS
<1> PICK F : F = FileOf(u)
  OBVIOUS
<1>1. v \in executed /\ boundTo[v] = u /\ F = Stored \ superseded
  BY OneFile DEF Stands, Stored
<1>2. F \in SUBSET Verdict /\ IsFiniteSet(F)
  <2>1. F \subseteq Stored /\ Stored \subseteq Verdict
    BY <1>1 DEF Stored
  <2>2. QED
    BY <2>1, FS_Subset
<1>3. v \in BansInForce(F, now) /\ v \in F
  BY <1>1 DEF Stands, BansInForce
<1>4. now \in Nat /\ v.executeAfter <= t
  BY <1>1 DEF IInv, TypeOK
<1>5. v \in BansInForce(F, t)
  BY <1>2, <1>3, <1>4, StoodBefore
<1>6. QED
  BY <1>2, <1>5, InForceReads

\* A turn reads a clock no older than the bans executed before it, and goes
\* to an unban write only where no ban stands.
LEMMA TurnsClearNothing ==
  ASSUME OneIdentity, IInv, IInv', StandInv, IsFiniteSet(Stored'), NEW s \in Session, Turn(s)
  PROVE  StandInv'
<1>1. PICK r : /\ session' = [session EXCEPT ![s] = r]
               /\ \/ Begins(r)
                  \/ GoesOn(session[s], r)
                  \/ r = IdleSession
  BY DEF Turn
<1>2. UNCHANGED <<now, executed, bits, superseded>> /\ now' >= now
      /\ \A v \in Verdict : boundTo[v] # None => boundTo'[v] # None
  BY DEF Turn, IInv, TypeOK
<1>3. ClearsNone(session[s]) /\ Sound(session[s]) /\ session[s] \in Checking
      /\ IsFiniteSet(Stored)
  BY DEF StandInv, IInv, TypeOK, SessionInv
<1>4. /\ r.pc \notin {"write", "mark"}
      /\ r.pc # "idle" => \A v \in executed : v.executeAfter <= r.at
  <2>1. CASE Begins(r)
    BY <2>1 DEF Begins, IInv, CarriedInv
  <2>2. CASE GoesOn(session[s], r)
    BY <1>3, <2>2 DEF GoesOn, Working, ClearsNone
  <2>3. CASE r = IdleSession
    BY <2>3 DEF IdleSession
  <2>4. QED
    BY <1>1, <2>1, <2>2, <2>3
<1>5. ASSUME r.pc \in {"unban", "unbanWrite"}, NEW v \in Verdict PROVE ~Stands(v)
  <2>1. GoesOn(session[s], r)
    BY <1>1, <1>5 DEF Begins, IdleSession
  <2>2. CASE session[s].pc \in {"unban", "unbanWrite"}
    BY <1>3, <2>2 DEF ClearsNone
  <2>3. CASE ~StateBanned(FileOf(session[s].user), session[s].at)
             /\ ~StateOpen(FileOf(session[s].user))
    <3>1. session[s].user \in User /\ session[s].at \in Nat /\ session[s].at <= now
      BY <1>3, <2>1 DEF GoesOn, Working, Sound, Checking
    <3>2. \A w \in executed : w.executeAfter <= session[s].at
      BY <1>3, <2>1 DEF GoesOn, Working, ClearsNone
    <3>3. QED
      BY <1>3, <2>3, <3>1, <3>2, SettledMeansNone
  <2>4. QED
    BY <1>5, <2>1, <2>2, <2>3 DEF GoesOn
<1>6. \A v \in Verdict : Stands(v)' => Stands(v)
  <2> SUFFICES ASSUME NEW v \in Verdict, Stands(v)' PROVE Stands(v)
    OBVIOUS
  <2>1. QED
    BY <1>2, NoneStandsAnew
<1>7. /\ \A q \in Session \ {s} : session'[q] = session[q]
      /\ session'[s] = r
  BY <1>1 DEF IInv, TypeOK
<1>8. ClearsNone(session[s])'
  BY <1>2, <1>4, <1>5, <1>6, <1>7 DEF ClearsNone
<1>9. QED
  BY <1>2, <1>7, <1>8, NothingCleared

\* A fold that clears has found no ban standing.
LEMMA FoldClearsNone ==
  ASSUME OneIdentity, IInv, IInv', StandInv, IsFiniteSet(Stored'), NEW s \in Session,
         Reconcile(s)
  PROVE  StandInv'
<1> PICK r : r = [session[s] EXCEPT !.pc = "write", !.write = IntendedFor(s),
                                    !.realizes = BansFor(s)]
  OBVIOUS
<1>1. /\ session[s] \in Checking /\ Sound(session[s]) /\ session[s].pc = "queried"
      /\ ClearsNone(session[s])
  BY DEF IInv, TypeOK, SessionInv, Reconcile, StandInv
<1>2. r.pc = "write" /\ r.realizes = BansFor(s) /\ r.write = IntendedFor(s)
  BY <1>1 DEF Checking
<1>3. /\ session' = [session EXCEPT ![s] = r]
      /\ UNCHANGED <<now, bits, executed, superseded, boundTo>> /\ now' >= now
  BY DEF Reconcile, deviceVars, rowVars, IInv, TypeOK
<1>4. r.realizes # {} => r.write.banned
  <2>1. BansFor(s) # {} => IntendedFor(s).banned
    BY DEF IntendedFor, Intended, BansFor
  <2> HIDE MarksAssumption, EnforcementAssumption
  <2>2. QED
    BY <1>2, <2>1
<1> PICK u, t, F : u = session[s].user /\ t = session[s].at /\ F = FileOf(u)
  OBVIOUS
<1>5. u \in User /\ t \in Nat /\ now \in Nat /\ t <= now /\ F \in SUBSET Verdict
  BY <1>1 DEF Sound, Checking, IInv, TypeOK, FileOf, RowsOf
<1>6. ASSUME NEW v \in Verdict, Stands(v) PROVE r.realizes # {}
  <2>1. v \in executed /\ boundTo[v] = u
    BY <1>5, <1>6, OneFile DEF Stands
  <2>2. v \in BansInForce(F, now) /\ v \in F
    BY <1>6, <2>1 DEF Stands, BansInForce
  <2>3. v.executeAfter <= t
    BY <1>1, <2>1 DEF ClearsNone
  <2>4. v \in BansInForce(F, t)
    BY <1>5, <2>2, <2>3, StoodBefore
  <2>5. QED
    BY <1>2, <2>4 DEF BansFor
<1>7. /\ \A q \in Session \ {s} : session'[q] = session[q]
      /\ session'[s] = r
  BY <1>3 DEF IInv, TypeOK
<1>8. \A v \in Verdict : Stands(v)' => Stands(v)
  <2> SUFFICES ASSUME NEW v \in Verdict, Stands(v)' PROVE Stands(v)
    OBVIOUS
  <2>1. QED
    BY <1>3, NoneStandsAnew
<1>9. ClearsNone(session[s])'
  BY <1>2, <1>4, <1>6, <1>7, <1>8 DEF ClearsNone
<1>10. QED
  BY <1>3, <1>7, <1>9, NothingCleared

\* A write that clears a device meets no ban that stands.
LEMMA WriteClearsNone ==
  ASSUME OneAtATime, OneIdentity, IInv, IInv', StandInv, IsFiniteSet(Stored'),
         NEW s \in Session, NEW executes \in BOOLEAN, NEW ok \in BOOLEAN,
         Write(s, executes, ok)
  PROVE  StandInv'
<1> PICK d, B : d = session[s].device /\ B = session[s].write
  OBVIOUS
<1>1. /\ session[s] \in Checking /\ Sound(session[s]) /\ session[s].pc = "write"
      /\ ClearsNone(session[s])
  BY DEF IInv, TypeOK, SessionInv, Write, StandInv
<1>2. d \in Device
  BY <1>1 DEF Sound
<1>3. /\ UNCHANGED <<now, boundTo, superseded, executed>> /\ now' >= now
      /\ bits' = IF executes THEN [bits EXCEPT ![d] = B] ELSE bits
      /\ ok => executes
  BY DEF Write, deviceVars, rowVars, IInv, TypeOK
<1>4. /\ Session = {s}
      /\ ok => /\ session'[s].pc = "mark" /\ session'[s].device = d
               /\ session'[s].realizes = session[s].realizes
      /\ ~ok => session'[s].pc = "idle"
  <2>1. session' = [session EXCEPT ![s] =
                      IF ok THEN [session[s] EXCEPT !.pc = "mark"] ELSE IdleSession]
    BY DEF Write, Accepted, Enter, Leave
  <2>2. session'[s] = IF ok THEN [session[s] EXCEPT !.pc = "mark"] ELSE IdleSession
    BY <2>1 DEF IInv, TypeOK
  <2>3. QED
    BY <1>1, <2>2 DEF OneAtATime, Checking, IdleSession
<1>5. ASSUME NEW v \in Verdict, Stands(v)' PROVE \E e \in Device : bits'[e].banned
  <2>1. Stands(v)
    BY <1>3, <1>5, NoneStandsAnew
  <2>2. B.banned /\ \E e \in Device : bits[e].banned
    BY <1>1, <2>1 DEF ClearsNone, StandInv
  <2>3. executes => bits'[d].banned
    BY <1>2, <1>3, <2>2 DEF IInv, TypeOK
  <2>4. QED
    BY <1>2, <1>3, <2>2, <2>3
<1>6. ok /\ session[s].realizes # {} => bits'[d].banned
  BY <1>1, <1>2, <1>3 DEF ClearsNone, IInv, TypeOK
<1>7. ClearsNone(session[s])'
  BY <1>4, <1>6 DEF ClearsNone
<1>8. QED
  BY <1>4, <1>5, <1>7 DEF StandInv

\* The device whose write is flagged still has its mark.
LEMMA FlagFindsMark ==
  ASSUME OneAtATime, IInv, StandInv, IsFiniteSet(Stored'), NEW s \in Session,
         NEW v \in Verdict, MarkExecuted(s, v)
  PROVE  StandInv'
<1>1. /\ session[s] \in Checking /\ Sound(session[s]) /\ session[s].pc = "mark"
      /\ v \in session[s].realizes /\ ClearsNone(session[s])
  BY DEF IInv, TypeOK, SessionInv, MarkExecuted, StandInv
<1>2. /\ bits' = bits /\ Session = {s}
      /\ session' = [session EXCEPT ![s] = [session[s] EXCEPT
                                              !.realizes = session[s].realizes \ {v}]]
  BY DEF MarkExecuted, deviceVars, OneAtATime
<1>3. /\ session'[s].pc = "mark" /\ session'[s].realizes = session[s].realizes \ {v}
      /\ session'[s].device = session[s].device
  BY <1>1, <1>2 DEF IInv, TypeOK, Checking
<1>4. session[s].device \in Device /\ bits[session[s].device].banned
  BY <1>1 DEF Sound, ClearsNone
<1>5. ClearsNone(session[s])'
  BY <1>2, <1>3, <1>4 DEF ClearsNone
<1>6. QED
  BY <1>2, <1>4, <1>5 DEF StandInv

\* Nor does the write that follows an unban grant.
LEMMA UnbanClearsNone ==
  ASSUME OneAtATime, OneIdentity, IInv, IInv', StandInv, IsFiniteSet(Stored'),
         NEW s \in Session, NEW executes \in BOOLEAN, NEW ok \in BOOLEAN,
         UnbanWrite(s, executes, ok)
  PROVE  StandInv'
<1> PICK r : r = IF ok THEN [session[s] EXCEPT !.pc = "queried", !.seen = Clean]
                       ELSE IdleSession
  OBVIOUS
<1>1. /\ session[s] \in Checking /\ session[s].pc = "unbanWrite" /\ ClearsNone(session[s])
      /\ Session = {s}
  BY DEF IInv, TypeOK, UnbanWrite, StandInv, OneAtATime
<1>2. /\ UNCHANGED <<now, boundTo, superseded, executed>> /\ now' >= now
      /\ session' = [session EXCEPT ![s] = r]
  BY DEF UnbanWrite, Leave, rowVars, IInv, TypeOK
<1>3. /\ r.pc = "idle" \/ (r.pc = "queried" /\ r.at = session[s].at)
      /\ session'[s] = r
  BY <1>1, <1>2 DEF Checking, IdleSession, IInv, TypeOK
<1>4. \A v \in Verdict : ~Stands(v)'
  <2> SUFFICES ASSUME NEW v \in Verdict, Stands(v)' PROVE FALSE
    OBVIOUS
  <2>1. Stands(v)
    BY <1>2, NoneStandsAnew
  <2>2. QED
    BY <1>1, <2>1 DEF ClearsNone
<1>5. ClearsNone(session[s])'
  BY <1>1, <1>2, <1>3 DEF ClearsNone
<1>6. QED
  BY <1>1, <1>4, <1>5 DEF StandInv

\* Rows are stored one at a time.
LEMMA StoredFinitely ==
  ASSUME IInv, IInv', IsFiniteSet(Stored), [Next]_vars
  PROVE  IsFiniteSet(Stored')
<1> USE DEF rowVars
<1>1. CASE UNCHANGED boundTo
  BY <1>1 DEF Stored
<1>2. ASSUME NEW i \in Ingest, PutVerdict(i) PROVE IsFiniteSet(Stored')
  <2> PICK v : v = ingest[i].verdict
    OBVIOUS
  <2>1. Stored' \subseteq Stored \cup {v}
    BY <1>2 DEF PutVerdict, Stored, IInv, TypeOK
  <2>2. IsFiniteSet(Stored \cup {v})
    BY FS_AddElement
  <2>3. QED
    BY <2>1, <2>2, FS_Subset
<1>3. ASSUME NEW s \in Session, Adopt(s) PROVE IsFiniteSet(Stored')
  <2>1. Stored' \subseteq Stored
    <3>1. session[s].from \in User /\ session[s].from # None
      BY <1>3 DEF Adopt, IInv, SessionInv, Sound
    <3>2. QED
      BY <1>3, <3>1 DEF Adopt, MovedBy, Stored
  <2>2. QED
    BY <2>1, FS_Subset
<1>4. ASSUME NEW s \in Session, GrantStep(s) PROVE IsFiniteSet(Stored')
  BY <1>1, <1>3, <1>4 DEF GrantStep, Resolve, Verify, SourceState, DestState, UnbanCheck,
                          UnbanRedeem, UnbanWrite, Refuse
<1>5. ASSUME NEW s \in Session, GateStep(s) PROVE IsFiniteSet(Stored')
  BY <1>1, <1>5 DEF GateStep, Answer, Reconcile, Write, MarkExecuted, Marked
<1>6. ASSUME NEW i \in Ingest, IngestStep(i) PROVE IsFiniteSet(Stored')
  BY <1>1, <1>2, <1>6 DEF IngestStep, Receive, Supersede
<1>7. QED
  BY <1>1, <1>4, <1>5, <1>6 DEF Next, GateStart, RecoverStart, Tick, Restart, vars

LEMMA StandKept ==
  ASSUME OneAtATime, OneIdentity
  PROVE  IInv /\ StandInv /\ [Next]_vars => StandInv'
<1> SUFFICES ASSUME IInv, StandInv, [Next]_vars PROVE StandInv'
  OBVIOUS
<1> USE DEF rowVars, grantVars, deviceVars
<1>1. IInv' /\ now \in Nat /\ superseded \subseteq Verdict /\ IsFiniteSet(Stored')
  BY NextInv, StoredFinitely DEF IInv, TypeOK, StandInv
<1>2. ASSUME NEW s \in Session,
             \/ \E u \in User, d \in Device : GateStart(s, u, d)
             \/ \E g \in Grant, d \in Device : RecoverStart(s, g, d)
             \/ GateStep(s) \/ GrantStep(s)
      PROVE  StandInv'
  BY <1>1, <1>2, StepsOfASession, TurnsClearNothing, FoldClearsNone, WriteClearsNone,
     FlagFindsMark, UnbanClearsNone
<1>3. CASE /\ UNCHANGED <<session, executed, bits, superseded>> /\ now' >= now
           /\ \A v \in Verdict : boundTo[v] # None => boundTo'[v] # None
  BY <1>1, <1>3, NothingCleared
<1>4. ASSUME NEW i \in Ingest, IngestStep(i) PROVE StandInv'
  <2>1. CASE \E v \in Verdict : Receive(i, v)
    BY <1>1, <1>3, <2>1 DEF Receive
  <2>2. CASE PutVerdict(i)
    <3>1. \A v \in Verdict : boundTo[v] # None => boundTo'[v] # None
      <4>1. PICK v : v = ingest[i].verdict
        OBVIOUS
      <4>2. \/ boundTo' = boundTo
            \/ boundTo' = [boundTo EXCEPT ![v] = ingest[i].to] /\ boundTo[v] = None
        BY <2>2, <4>1 DEF PutVerdict
      <4>3. QED
        BY <4>2 DEF IInv, TypeOK
    <3>2. QED
      BY <1>1, <1>3, <2>2, <3>1 DEF PutVerdict
  <2>3. CASE Supersede(i)
    <3>1. /\ UNCHANGED <<session, executed, bits, boundTo, now>> /\ now' >= now
          /\ superseded \subseteq superseded'
          /\ \A o \in superseded' \ superseded : o.kind = "open-case"
      BY <1>1, <2>3 DEF Supersede
    <3>2. QED
      BY <1>1, <3>1, NothingCleared
  <2>4. QED
    BY <1>4, <2>1, <2>2, <2>3 DEF IngestStep
<1>5. CASE Tick
  BY <1>1, <1>3, <1>5 DEF Tick
<1>6. CASE Restart
  <2>1. /\ UNCHANGED <<executed, bits, boundTo, now, superseded>> /\ now' >= now
        /\ \A q \in Session : session'[q] = IdleSession
    BY <1>1, <1>6 DEF Restart
  <2>2. \A q \in Session : ClearsNone(session[q])'
    BY <2>1 DEF ClearsNone, IdleSession
  <2>3. QED
    BY <1>1, <2>1, <2>2, NothingCleared
<1>7. CASE UNCHANGED vars
  BY <1>1, <1>3, <1>7 DEF vars
<1>8. QED
  <2>1. CASE \E s \in Session, u \in User, d \in Device : GateStart(s, u, d)
    BY <1>2, <2>1
  <2>2. CASE \E s \in Session, g \in Grant, d \in Device : RecoverStart(s, g, d)
    BY <1>2, <2>2
  <2>3. CASE \E s \in Session : GateStep(s) \/ GrantStep(s)
    BY <1>2, <2>3
  <2>4. QED
    BY <1>4, <1>5, <1>6, <1>7, <2>1, <2>2, <2>3 DEF Next

LEMMA StandAtFirst == Init => StandInv
<1> SUFFICES ASSUME Init PROVE StandInv
  OBVIOUS
<1>1. \A v \in Verdict : ~Stands(v)
  BY DEF Init, Stands
<1>2. \A s \in Session : ClearsNone(session[s])
  BY DEF Init, ClearsNone, IdleSession
<1>3. Stored = {} /\ IsFiniteSet(Stored)
  BY FS_EmptySet DEF Init, Stored
<1>4. QED
  BY <1>1, <1>2, <1>3 DEF StandInv

\* A ban that was executed and is still in force is on a device, although a
\* session writes what it folded from an older record and an older clock, and
\* an unban grant what it checked: for one identity whose sessions do not
\* overlap (gate_check, recover, recover_unban_grant).
THEOREM ExecutedStands ==
  ASSUME OneAtATime, OneIdentity
  PROVE  Spec => []ExecutedBanIsMarked
<1>1. IInv /\ StandInv => ExecutedBanIsMarked
  BY DEF IInv, TypeOK, StandInv, Stands, ExecutedBanIsMarked
<1>2. IInv /\ StandInv /\ [Next]_vars => StandInv'
  BY StandKept
<1>3. QED
  BY <1>1, <1>2, StandAtFirst, Inductive, PTL DEF Spec

=============================================================================
