---------------------------- MODULE Recall_proofs ----------------------------
(***************************************************************************)
(* Proofs about Recall, for every set of verdicts, devices and concurrent  *)
(* sessions: the type invariant, nobody passes the gate past a ban that    *)
(* stands, marks only by verdicts and never early, and the write log.      *)
(***************************************************************************)
EXTENDS Recall, FiniteSetTheorems, TLAPS

USE MarksAssumption, RecallAssumption

-----------------------------------------------------------------------------
(* What the record says, and what may be relied on as it grows.            *)

\* The bans a fold finds in force are bans of the file whose day has come.
LEMMA BansAreDue ==
  ASSUME NEW file \in SUBSET Verdict, NEW t \in Nat
  PROVE  /\ BansInForce(file, t) \subseteq file
         /\ \A b \in BansInForce(file, t) : b.kind = "ban" /\ b.executeAfter <= t
         /\ Intended(file, t) \in Bits
         /\ Intended(file, t).banned <=> BansInForce(file, t) # {}
  BY DEF BansInForce, InForce, Intended, Bits

\* Once a ban of a file has been ended, nothing that is filed later revives
\* it: only notices of open cases ever leave a file.
LEMMA EndedForGood ==
  ASSUME NEW old, NEW new, NEW t,
         \A v \in old : v \in new \/ v.kind = "open-case",
         NEW b \in old, b \in BansInForce(new, t)
  PROVE  b \in BansInForce(old, t)
  BY DEF BansInForce

\* A file holds rows that are stored, all of its user.
LEMMA FilesAreStored ==
  ASSUME TypeOK, NEW u \in User
  PROVE  /\ RowsOf(u) \in SUBSET Verdict /\ FileOf(u) \in SUBSET Verdict
         /\ RowsOf(u) \subseteq stored /\ FileOf(u) \subseteq RowsOf(u)
  BY DEF FileOf, RowsOf, TypeOK

\* Storing and superseding only add to the rows, and take from a file no
\* more than notices.
Grows == /\ stored \subseteq stored'
         /\ superseded \subseteq superseded'
         /\ \A v \in superseded' : v.kind = "open-case"
         /\ now <= now'

\* What a session may rely on survives whatever is filed and however late
\* it grows.
LEMMA SoundStays ==
  ASSUME TypeOK, Grows, now' \in Nat, NEW r \in Gate, Sound(r)
  PROVE  Sound(r)'
<1>1. ASSUME r.pc # "idle", NoneStands(r) PROVE NoneStands(r)'
  <2>1. r.user \in User /\ r.had \subseteq RowsOf(r.user)
    BY <1>1 DEF Sound
  <2>2. \A v \in FileOf(r.user) : v \in FileOf(r.user)' \/ v.kind = "open-case"
    BY DEF FileOf, RowsOf, Grows
  <2>3. ASSUME NEW b \in BansInForce(r.had, r.at), b \in BansInForce(FileOf(r.user)', r.at)
        PROVE  FALSE
    <3>1. b \in r.had /\ b.kind = "ban"
      BY DEF BansInForce
    <3>2. b \in FileOf(r.user)
      <4>1. b \in RowsOf(r.user) /\ b \in FileOf(r.user)'
        BY <2>1, <2>3, <3>1 DEF BansInForce
      <4>2. b \notin superseded
        BY <4>1, <3>1 DEF FileOf, Grows
      <4>3. QED
        BY <4>1, <4>2 DEF FileOf
    <3>3. b \in BansInForce(FileOf(r.user), r.at)
      BY <2>2, <2>3, <3>2, EndedForGood
    <3>4. QED
      BY <1>1, <3>3 DEF NoneStands
  <2>4. QED
    BY <2>3 DEF NoneStands
<1>2. RowsOf(r.user) \subseteq RowsOf(r.user)'
  BY DEF RowsOf, Grows
<1>3. \A v, t : Due(v, t) => Due(v, t)'
  BY DEF Due, Grows
<1>4. r.pc # "idle" /\ Folded(r) => Folded(r)'
  BY <1>1, <1>3 DEF Folded
<1>5. r.at <= now'
  BY DEF Sound, Grows, TypeOK, Gate
<1>6. QED
  BY <1>1, <1>2, <1>4, <1>5 DEF Sound

-----------------------------------------------------------------------------
(* Steps of one session that leave the device and the log alone.           *)

\* The number of writes a restart may interrupt.
LEMMA Sessions == Cardinality(Session) \in Nat
  BY FS_CardinalityType

\* One more fault makes room for at least as many writes.
LEMMA MoreFaults ==
  ASSUME NEW m \in Nat, NEW n \in Nat, NEW k \in Nat, m <= n
  PROVE  m * k \in Nat /\ n * k \in Nat /\ m * k <= n * k
  OBVIOUS
LEMMA OneMoreFault ==
  ASSUME NEW m \in Nat, NEW k \in Nat
  PROVE  (m + 1) * k = m * k + k /\ m * k \in Nat
  OBVIOUS

\* A step that moves one session between sound records, into or out of no
\* write, keeps the invariant.
LEMMA SessionOnly ==
  ASSUME IInv, NEW s \in Session, NEW r \in Gate, Sound(r),
         session' = [session EXCEPT ![s] = r],
         session[s].pc # "log", r.pc # "log",
         UNCHANGED <<now, deviceVars, stored, superseded, log, ingest>>,
         lastWrite' \in [User -> Bits \cup {None}], executed' \subseteq Verdict,
         faults' \in Nat, faults <= faults'
  PROVE  IInv'
<1> USE DEF deviceVars
<1>1. TypeOK'
  BY DEF IInv, TypeOK
<1>2. RecordInv'
  BY DEF IInv, RecordInv
<1>3. SessionInv'
  <2> SUFFICES ASSUME NEW q \in Session PROVE Sound(session[q])'
    BY DEF SessionInv
  <2>1. session'[q] = r \/ session'[q] = session[q]
    BY DEF IInv, TypeOK
  <2>2. Sound(session[q])
    BY DEF IInv, SessionInv
  <2> QED
    BY <2>1, <2>2 DEF Sound, Folded, NoneStands, Due, RowsOf, FileOf
<1>4. CarriedInv'
  BY DEF IInv, CarriedInv, Due
<1>5. LogAccounts'
  <2>1. InLog' = InLog
    BY DEF InLog, IInv, TypeOK
  <2>2. faults * Cardinality(Session) <= faults' * Cardinality(Session)
        /\ faults * Cardinality(Session) \in Nat /\ faults' * Cardinality(Session) \in Nat
    BY MoreFaults, Sessions DEF IInv, TypeOK
  <2>3. Cardinality(InLog) \in Nat /\ Len(log) \in Nat /\ calls \in Nat
    <3>1. IsFiniteSet(InLog)
      BY FS_Subset DEF InLog
    <3>2. QED
      BY <3>1, FS_CardinalityType DEF IInv, TypeOK
  <2>4. calls' <= Len(log)' + faults' * Cardinality(Session) + Cardinality(InLog)'
    BY <2>1, <2>2, <2>3 DEF IInv, LogAccounts
  <2>5. QED
    BY <2>4 DEF IInv, LogAccounts
<1> QED
  BY <1>1, <1>2, <1>3, <1>4, <1>5 DEF IInv

\* A session that goes on to the next step with what it has.
LEMMA GoOn ==
  ASSUME IInv, NEW s \in Session, NEW pc, Goto(s, pc),
         session[s].pc \in {"decide", "write", "record", "mark", "answer"},
         pc \in {"decide", "write", "record", "mark", "answer"},
         UNCHANGED <<now, deviceVars, stored, superseded, log, ingest, faults>>,
         lastWrite' \in [User -> Bits \cup {None}], executed' \subseteq Verdict
  PROVE  IInv'
<1> DEFINE r == [session[s] EXCEPT !.pc = pc]
<1>1. session[s] \in Gate /\ Sound(session[s])
  BY DEF IInv, TypeOK, SessionInv
<1>2. session' = [session EXCEPT ![s] = r]
  BY DEF Goto
<1>3. r \in Gate
  BY <1>1 DEF Gate
<1>4. Sound(r)
  BY <1>1 DEF Sound, Folded, NoneStands, Gate
<1>5. r.pc # "log" /\ session[s].pc # "log" /\ faults' \in Nat /\ faults <= faults'
  BY <1>1 DEF Gate, IInv, TypeOK
<1> QED
  BY <1>2, <1>3, <1>4, <1>5, SessionOnly

\* A session that answers that it cannot tell clears nobody.
LEMMA NoAnswer ==
  ASSUME IInv, NEW s \in Session, NEW a \in {"checkRequired", "failed"}, Answered(s, a),
         session[s].pc = "decode", Fault,
         UNCHANGED <<now, deviceVars, rowVars, lastWrite, log, ingest>>
  PROVE  IInv'
<1> USE DEF rowVars
<1> DEFINE r == [session[s] EXCEPT !.pc = "answered", !.answer = a]
<1>1. session[s] \in Gate /\ Sound(session[s])
  BY DEF IInv, TypeOK, SessionInv
<1>2. session' = [session EXCEPT ![s] = r]
  BY <1>1 DEF Answered, IInv, TypeOK
<1>3. r \in Gate
  BY <1>1 DEF Gate
<1>4. Sound(r)
  BY <1>1 DEF Sound, Folded, NoneStands, Gate
<1>5. /\ r.pc # "log" /\ session[s].pc # "log" /\ faults' \in Nat /\ faults <= faults'
      /\ lastWrite' \in [User -> Bits \cup {None}] /\ executed' \subseteq Verdict
  BY <1>1 DEF Gate, IInv, TypeOK, Fault
<1> QED
  BY <1>2, <1>3, <1>4, <1>5, SessionOnly

\* A session opens: it has the file of its user.
LEMMA StartStep ==
  ASSUME IInv, NEW s \in Session, NEW u \in User, NEW d \in Device, GateStart(s, u, d)
  PROVE  IInv'
<1> USE DEF rowVars
<1> DEFINE r == [IdleSession EXCEPT !.pc = "decode", !.user = u, !.device = d, !.at = now,
                                    !.had = FileOf(u)]
<1>1. r \in Gate
  <2>1. FileOf(u) \in SUBSET Verdict /\ now \in Nat
    BY FilesAreStored DEF IInv, TypeOK
  <2>2. QED
    BY <2>1 DEF Gate, IdleSession, Clean, Bits
<1>2. Sound(r)
  BY FilesAreStored DEF Sound, IdleSession, IInv, TypeOK
<1>3. /\ r.pc # "log" /\ session[s].pc # "log" /\ faults' \in Nat /\ faults <= faults'
      /\ lastWrite' \in [User -> Bits \cup {None}] /\ executed' \subseteq Verdict
  BY DEF GateStart, IdleSession, IInv, TypeOK
<1>4. session' = [session EXCEPT ![s] = r]
  BY DEF GateStart
<1> HIDE DEF r
<1> QED
  BY <1>1, <1>2, <1>3, <1>4, SessionOnly DEF GateStart

\* A token is decoded, or is one without a recall object.
LEMMA DecodeStep ==
  ASSUME IInv, NEW s \in Session, Decode(s) \/ DecodeWithoutRecall(s)
  PROVE  IInv'
<1> USE DEF rowVars
<1>1. session[s] \in Gate /\ Sound(session[s]) /\ session[s].pc = "decode"
  BY DEF IInv, TypeOK, SessionInv, Decode, DecodeWithoutRecall
<1>2. \E seen \in Bits, readable \in BOOLEAN :
        session' = [session EXCEPT ![s] =
          [session[s] EXCEPT !.pc = "fold", !.seen = seen, !.readable = readable]]
  <2>1. CASE Decode(s)
    <3>1. shown[session[s].device] \in Bits
      BY <1>1 DEF Sound, IInv, TypeOK
    <3>2. QED
      BY <2>1, <3>1 DEF Decode
  <2>2. CASE DecodeWithoutRecall(s)
    <3>1. Clean \in Bits
      BY DEF Clean, Bits
    <3>2. QED
      BY <2>2, <3>1 DEF DecodeWithoutRecall
  <2>3. QED
    BY <2>1, <2>2
<1>3. PICK seen \in Bits, readable \in BOOLEAN :
        session' = [session EXCEPT ![s] =
          [session[s] EXCEPT !.pc = "fold", !.seen = seen, !.readable = readable]]
  BY <1>2
<1> DEFINE r == [session[s] EXCEPT !.pc = "fold", !.seen = seen, !.readable = readable]
<1>4. r \in Gate
  BY <1>1 DEF Gate
<1>5. Sound(r)
  BY <1>1 DEF Sound, Gate
<1>6. /\ r.pc # "log" /\ session[s].pc # "log" /\ faults' \in Nat /\ faults <= faults'
      /\ lastWrite' \in [User -> Bits \cup {None}] /\ executed' \subseteq Verdict
  BY <1>1 DEF Gate, IInv, TypeOK, Decode, DecodeWithoutRecall
<1> QED
  BY <1>3, <1>4, <1>5, <1>6, SessionOnly DEF Decode, DecodeWithoutRecall

\* The fold: what it finds in force is on file and due, and what the session
\* opened on and the fold does not find has been ended for good.
LEMMA FoldStep ==
  ASSUME IInv, NEW s \in Session, IntendedMarks(s)
  PROVE  IInv'
<1> USE DEF rowVars
<1> DEFINE u == session[s].user
           t == session[s].at
           file == FileOf(u)
           bans == BansInForce(file, t)
<1>1. session[s] \in Gate /\ Sound(session[s]) /\ session[s].pc = "fold"
  BY DEF IInv, TypeOK, SessionInv, IntendedMarks
<1>2. u \in User /\ t \in Nat /\ session[s].had \subseteq RowsOf(u)
  BY <1>1 DEF Sound, Gate
<1>3. file \in SUBSET Verdict /\ file \subseteq stored /\ file \subseteq RowsOf(u)
  BY <1>2, FilesAreStored DEF IInv
<1>4. /\ bans \subseteq file /\ Intended(file, t) \in Bits
      /\ \A b \in bans : b.kind = "ban" /\ b.executeAfter <= t
      /\ Intended(file, t).banned <=> bans # {}
  BY <1>2, <1>3, BansAreDue
<1>5. PICK by \in AuthorizedBy(file, t) :
        session' = [session EXCEPT ![s] =
          [session[s] EXCEPT !.pc = "decide", !.onFile = RowsOf(u) # {},
             !.want = Intended(file, t), !.realizes = bans,
             !.branded = (bans \cap executed # {}), !.by = by]]
  BY DEF IntendedMarks
<1>6. /\ by \in Verdict \cup {None}
      /\ bans # {} => by \in bans
  BY <1>3, <1>4 DEF AuthorizedBy, NewestOf, FirstNotice, Notices
<1> DEFINE r == [session[s] EXCEPT !.pc = "decide", !.onFile = RowsOf(u) # {},
                   !.want = Intended(file, t), !.realizes = bans,
                   !.branded = (bans \cap executed # {}), !.by = by]
<1> HIDE DEF u, t, file, bans
<1>7. r \in Gate
  <2>1. [session[s] EXCEPT !.pc = "decide", !.onFile = RowsOf(u) # {}] \in Gate
    BY <1>1 DEF Gate
  <2>2. \A g \in Gate : [g EXCEPT !.want = Intended(file, t), !.realizes = bans] \in Gate
    BY <1>3, <1>4 DEF Gate
  <2>3. \A g \in Gate : [g EXCEPT !.branded = (bans \cap executed # {}), !.by = by] \in Gate
    BY <1>6 DEF Gate
  <2>4. r = [[[session[s] EXCEPT !.pc = "decide", !.onFile = RowsOf(u) # {}]
                EXCEPT !.want = Intended(file, t), !.realizes = bans]
                EXCEPT !.branded = (bans \cap executed # {}), !.by = by]
    OBVIOUS
  <2>5. QED
    BY <2>1, <2>2, <2>3, <2>4
<1>8. /\ r.pc = "decide" /\ r.user = u /\ r.at = t /\ r.had = session[s].had
      /\ r.device = session[s].device
      /\ r.onFile = (RowsOf(u) # {}) /\ r.want = Intended(file, t) /\ r.realizes = bans
      /\ r.by = by
  BY <1>1 DEF Gate, u, t
<1> HIDE DEF r
<1>9. bans = {} => NoneStands(r)
  BY <1>8 DEF NoneStands, bans, file
<1>10. Folded(r)
  BY <1>2, <1>3, <1>4, <1>6, <1>8, <1>9 DEF Folded, Due
<1>11. Sound(r)
  BY <1>1, <1>2, <1>8, <1>10 DEF Sound, u, t
<1>12. /\ r.pc # "log" /\ session[s].pc # "log" /\ faults' \in Nat /\ faults <= faults'
       /\ lastWrite' \in [User -> Bits \cup {None}] /\ executed' \subseteq Verdict
  BY <1>1, <1>8 DEF IInv, TypeOK, IntendedMarks
<1>13. session' = [session EXCEPT ![s] = r]
  BY <1>5 DEF r
<1> QED
  BY <1>7, <1>11, <1>12, <1>13, SessionOnly DEF IntendedMarks

\* Only where no ban in force is found on the record, or on the device where
\* there is no record, is anybody let pass.
LEMMA AnswerStep ==
  ASSUME IInv, NEW s \in Session, Answer(s)
  PROVE  IInv'
<1> USE DEF rowVars
<1>1. session[s] \in Gate /\ Sound(session[s]) /\ session[s].pc = "answer"
  BY DEF IInv, TypeOK, SessionInv, Answer
<1>2. PICK a \in {"banned", "checkRequired", "caseOpen", "clear"} :
        /\ session' = [session EXCEPT ![s] = [session[s] EXCEPT !.pc = "answered", !.answer = a]]
        /\ a \in {"clear", "caseOpen"} => ~Effective(s).banned
  BY <1>1 DEF Answer, Answered, IInv, TypeOK
<1> DEFINE r == [session[s] EXCEPT !.pc = "answered", !.answer = a]
<1>3. r \in Gate
  BY <1>1 DEF Gate
<1>4. Folded(session[s])
  BY <1>1 DEF Sound
<1>5. a \in {"clear", "caseOpen"} =>
        NoneStands(session[s]) /\ (session[s].seen.banned => session[s].onFile)
  <2>1. CASE session[s].onFile
    BY <1>2, <1>4, <2>1 DEF Effective, Folded
  <2>2. CASE ~session[s].onFile
    BY <1>2, <1>4, <2>2 DEF Effective, Folded, NoneStands, BansInForce
  <2>3. QED
    BY <2>1, <2>2
<1>6. Sound(r)
  BY <1>1, <1>5 DEF Sound, NoneStands, Gate
<1>7. /\ r.pc # "log" /\ session[s].pc # "log" /\ faults' \in Nat /\ faults <= faults'
      /\ lastWrite' \in [User -> Bits \cup {None}] /\ executed' \subseteq Verdict
  BY <1>1 DEF Gate, IInv, TypeOK, Answer
<1> QED
  BY <1>2, <1>3, <1>6, <1>7, SessionOnly DEF Answer

\* A session that is over.
LEMMA LeaveStep ==
  ASSUME IInv, NEW s \in Session, Leave(s)
  PROVE  IInv'
<1> USE DEF rowVars
<1>1. IdleSession \in Gate /\ Sound(IdleSession) /\ IdleSession.pc # "log"
  BY DEF IInv, TypeOK, IdleSession, Gate, Clean, Bits, Sound
<1>2. /\ session[s].pc # "log" /\ faults' \in Nat /\ faults <= faults'
      /\ lastWrite' \in [User -> Bits \cup {None}] /\ executed' \subseteq Verdict
  BY DEF IInv, TypeOK, Leave
<1> QED
  BY <1>1, <1>2, SessionOnly DEF Leave

-----------------------------------------------------------------------------
(* Writes and the log.                                                     *)

\* A write names only the values that differ from what the token showed.  It
\* sets the banned mark only where the fold found a ban, or leaves one alone.
LEMMA PartialWrite ==
  ASSUME TypeOK, NEW s \in Session, NEW d \in Device
  PROVE  /\ Written(s, d) \in Bits
         /\ Written(s, d).banned => session[s].want.banned \/ held[d].banned
<1>1. held[d] \in Bits /\ session[s].want \in Bits
  BY DEF TypeOK, Gate
<1>2. /\ "banned" \in Value /\ "caseOpen" \in Value
      /\ \A f \in Value : f = "banned" \/ f = "caseOpen"
  BY DEF Value
<1>3. \A f \in Value : session[s].want[f] \in BOOLEAN /\ held[d][f] \in BOOLEAN
  BY <1>1, <1>2 DEF Bits
<1>4. Written(s, d) \in [Value -> BOOLEAN]
  BY <1>3 DEF Written
<1>5. Written(s, d) \in Bits
  BY <1>4 DEF Bits, Value
<1>6. Written(s, d)["banned"] => session[s].want["banned"] \/ held[d]["banned"]
  BY <1>2 DEF Written
<1> QED
  BY <1>5, <1>6

LEMMA WriteStep ==
  ASSUME IInv, NEW s \in Session, NEW executes \in BOOLEAN, NEW ok \in BOOLEAN,
         WriteRecall(s, executes, ok)
  PROVE  IInv'
<1> USE DEF rowVars
<1> DEFINE d == session[s].device
<1>1. /\ session[s] \in Gate /\ Sound(session[s]) /\ session[s].pc = "write"
      /\ Folded(session[s]) /\ d \in Device
  BY DEF IInv, TypeOK, SessionInv, WriteRecall, Sound
<1>2. PICK a \in {None, "failed"} :
        session' = [session EXCEPT ![s] = [session[s] EXCEPT !.pc = "log", !.answer = a]]
  BY <1>1 DEF WriteRecall, IInv, TypeOK
<1> DEFINE r == [session[s] EXCEPT !.pc = "log", !.answer = a]
<1>3. r \in Gate /\ Sound(r) /\ r.pc = "log"
  <2>1. r \in Gate /\ r.pc = "log"
    BY <1>1 DEF Gate
  <2>2. Sound(r)
    BY <1>1 DEF Sound, Folded, NoneStands, Gate
  <2>3. QED
    BY <2>1, <2>2
<1> HIDE DEF r
<1>4. session' = [session EXCEPT ![s] = r]
  BY <1>2 DEF r
<1>5. faults' \in Nat /\ faults <= faults' /\ calls' = calls + 1
      /\ UNCHANGED <<now, shown, stored, superseded, executed, lastWrite, log, ingest>>
  BY DEF WriteRecall, Fault, IInv, TypeOK
<1>6. \/ UNCHANGED <<held, carried>>
      \/ /\ held' = [held EXCEPT ![d] = Written(s, d)]
         /\ carried' = [carried EXCEPT ![d] = @ \cup session[s].realizes]
  BY DEF WriteRecall
<1>7. TypeOK'
  <2>1. Written(s, d) \in Bits /\ session[s].realizes \subseteq Verdict
    BY <1>1, PartialWrite DEF IInv, Gate
  <2>2. held' \in [Device -> Bits] /\ carried' \in [Device -> SUBSET Verdict]
    BY <1>1, <1>6, <2>1 DEF IInv, TypeOK
  <2>3. session' \in [Session -> Gate]
    BY <1>3, <1>4 DEF IInv, TypeOK
  <2>4. QED
    BY <1>5, <2>2, <2>3 DEF IInv, TypeOK
<1>8. RecordInv'
  BY <1>5 DEF IInv, RecordInv
<1>9. SessionInv'
  <2> SUFFICES ASSUME NEW q \in Session PROVE Sound(session[q])'
    BY DEF SessionInv
  <2>1. session'[q] = r \/ session'[q] = session[q]
    BY <1>4 DEF IInv, TypeOK
  <2>2. Sound(session[q])
    BY DEF IInv, SessionInv
  <2> QED
    BY <1>3, <1>5, <2>1, <2>2 DEF Sound, Folded, NoneStands, Due, RowsOf, FileOf
<1>10. CarriedInv'
  <2>1. \A v \in session[s].realizes : Due(v, now)
    <3>1. session[s].at \in Nat /\ now \in Nat /\ session[s].at <= now
      BY <1>1 DEF Sound, Gate, IInv, TypeOK
    <3>2. \A v \in session[s].realizes : v \in Verdict
      BY <1>1 DEF Gate
    <3>3. QED
      BY <1>1, <3>1, <3>2 DEF Folded, Due
  <2>2. ASSUME NEW e \in Device, NEW v \in carried'[e] PROVE Due(v, now)'
    <3>1. v \in carried[e] \/ v \in session[s].realizes
      BY <1>1, <1>6, <2>2 DEF IInv, TypeOK
    <3>2. Due(v, now)
      BY <2>1, <3>1 DEF IInv, CarriedInv
    <3>3. QED
      BY <1>5, <3>2 DEF Due
  <2>3. ASSUME NEW e \in Device, held'[e].banned PROVE carried'[e] # {}
    <3>1. CASE held'[e] = held[e]
      <4>1. carried[e] # {}
        BY <2>3, <3>1 DEF IInv, CarriedInv
      <4>2. carried[e] \subseteq carried'[e]
        BY <1>1, <1>6 DEF IInv, TypeOK
      <4>3. QED
        BY <4>1, <4>2
    <3>2. CASE held'[e] # held[e]
      <4>1. e = d /\ held'[d] = Written(s, d)
            /\ carried'[d] = carried[d] \cup session[s].realizes
        BY <1>1, <1>6, <3>2 DEF IInv, TypeOK
      <4>2. session[s].want.banned \/ held[d].banned
        BY <1>1, <2>3, <4>1, PartialWrite DEF IInv
      <4>3. session[s].realizes # {} \/ carried[d] # {}
        BY <1>1, <4>2 DEF Folded, IInv, CarriedInv
      <4>4. QED
        BY <4>1, <4>3
    <3>3. QED
      BY <3>1, <3>2
  <2>4. QED
    BY <2>2, <2>3 DEF CarriedInv
<1>11. LogAccounts'
  <2>1. IsFiniteSet(InLog) /\ s \notin InLog /\ InLog' = InLog \cup {s}
    <3>1. IsFiniteSet(InLog)
      BY FS_Subset DEF InLog
    <3>2. s \notin InLog
      BY <1>1 DEF InLog
    <3>3. \A q \in Session : q # s => session'[q] = session[q]
      BY <1>4 DEF IInv, TypeOK
    <3>4. session'[s].pc = "log"
      BY <1>3, <1>4 DEF IInv, TypeOK
    <3>5. QED
      BY <3>1, <3>2, <3>3, <3>4 DEF InLog
  <2>2. Cardinality(InLog)' = Cardinality(InLog) + 1 /\ Cardinality(InLog) \in Nat
    BY <2>1, FS_AddElement, FS_CardinalityType
  <2>3. faults * Cardinality(Session) <= faults' * Cardinality(Session)
        /\ faults * Cardinality(Session) \in Nat /\ faults' * Cardinality(Session) \in Nat
    BY <1>5, MoreFaults, Sessions DEF IInv, TypeOK
  <2>4. Len(log) \in Nat /\ calls \in Nat
    BY DEF IInv, TypeOK
  <2>5. calls' <= Len(log)' + faults' * Cardinality(Session) + Cardinality(InLog)'
    BY <1>5, <2>2, <2>3, <2>4 DEF IInv, LogAccounts
  <2>6. QED
    BY <1>5, <2>5 DEF IInv, LogAccounts
<1> QED
  BY <1>7, <1>8, <1>9, <1>10, <1>11 DEF IInv

\* The entry names its predecessor, and a ban that was due.
LEMMA LogStep ==
  ASSUME IInv, NEW s \in Session, AppendWriteLog(s)
  PROVE  IInv'
<1> USE DEF rowVars, deviceVars
<1>1. /\ session[s] \in Gate /\ Sound(session[s]) /\ session[s].pc = "log"
      /\ Folded(session[s]) /\ session[s].user \in User
  BY DEF IInv, TypeOK, SessionInv, AppendWriteLog, Sound
<1>2. PICK r \in Gate :
        Sound(r) /\ r.pc # "log" /\ session' = [session EXCEPT ![s] = r]
  <2>1. CASE WasAccepted(s)
    <3> DEFINE r == [session[s] EXCEPT !.pc = "record"]
    <3>1. session' = [session EXCEPT ![s] = r]
      BY <2>1 DEF AppendWriteLog, Goto
    <3>2. r \in Gate /\ r.pc # "log"
      BY <1>1 DEF Gate
    <3>3. Sound(r)
      BY <1>1 DEF Sound, Folded, NoneStands, Gate
    <3>4. QED
      BY <3>1, <3>2, <3>3
  <2>2. CASE ~WasAccepted(s)
    <3> DEFINE r == [session[s] EXCEPT !.pc = "answered", !.answer = "failed"]
    <3>1. session' = [session EXCEPT ![s] = r]
      BY <1>1, <2>2 DEF AppendWriteLog, Answered, IInv, TypeOK
    <3>2. r \in Gate /\ r.pc # "log"
      BY <1>1 DEF Gate
    <3>3. Sound(r)
      BY <1>1 DEF Sound, Gate
    <3>4. QED
      BY <3>1, <3>2, <3>3
  <2>3. QED
    BY <2>1, <2>2
<1> DEFINE e == [previous |-> Previous(s), user |-> session[s].user, by |-> session[s].by,
                 want |-> session[s].want, values |-> Changes(s),
                 ok |-> session[s].answer # "failed", at |-> session[s].at]
<1>3. log' = Append(log, e)
      /\ UNCHANGED <<now, held, shown, carried, calls, stored, superseded, executed,
                     lastWrite, ingest, faults>>
  BY DEF AppendWriteLog
<1>4. e \in Entry
  BY <1>1 DEF Entry, Gate, Previous, Changes, IInv, TypeOK
<1>5. /\ e.previous = Len(log)
      /\ e.want.banned => e.by \in stored /\ e.by.kind = "ban" /\ e.by.executeAfter <= e.at
  BY <1>1 DEF Folded, Due, Previous
<1> HIDE DEF e
<1>6. /\ log' \in Seq(Entry) /\ Len(log') = Len(log) + 1 /\ Len(log) \in Nat
      /\ \A i \in 1..Len(log) : log'[i] = log[i]
      /\ log'[Len(log) + 1] = e
  BY <1>3, <1>4 DEF IInv, TypeOK
<1>7. TypeOK'
  <2>1. session' \in [Session -> Gate]
    BY <1>2 DEF IInv, TypeOK
  <2>2. QED
    BY <1>3, <1>6, <2>1 DEF IInv, TypeOK
<1>8. RecordInv'
  BY <1>3 DEF IInv, RecordInv
<1>9. SessionInv'
  <2> SUFFICES ASSUME NEW q \in Session PROVE Sound(session[q])'
    BY DEF SessionInv
  <2>1. session'[q] = r \/ session'[q] = session[q]
    BY <1>2 DEF IInv, TypeOK
  <2>2. Sound(session[q])
    BY DEF IInv, SessionInv
  <2> QED
    BY <1>2, <1>3, <2>1, <2>2 DEF Sound, Folded, NoneStands, Due, RowsOf, FileOf
<1>10. CarriedInv'
  BY <1>3 DEF IInv, CarriedInv, Due
<1>11. LogAccounts'
  <2>1. ASSUME NEW i \in DOMAIN log'
        PROVE  /\ log'[i].previous = i - 1
               /\ log'[i].want.banned =>
                    /\ log'[i].by \in stored
                    /\ log'[i].by.kind = "ban"
                    /\ log'[i].by.executeAfter <= log'[i].at
    <3>1. i \in 1..Len(log) \/ i = Len(log) + 1
      BY <1>6, <2>1
    <3>2. CASE i \in 1..Len(log)
      <4>1. i \in DOMAIN log
        BY <3>2 DEF IInv, TypeOK
      <4>2. log'[i] = log[i]
        BY <1>6, <3>2
      <4>3. QED
        BY <4>1, <4>2 DEF IInv, LogAccounts
    <3>3. CASE i = Len(log) + 1
      BY <1>5, <1>6, <3>3
    <3>4. QED
      BY <3>1, <3>2, <3>3
  <2>2. IsFiniteSet(InLog) /\ s \in InLog /\ InLog' = InLog \ {s}
    <3>1. IsFiniteSet(InLog)
      BY FS_Subset DEF InLog
    <3>2. s \in InLog
      BY <1>1 DEF InLog
    <3>3. \A q \in Session : q # s => session'[q] = session[q]
      BY <1>2 DEF IInv, TypeOK
    <3>4. session'[s].pc # "log"
      BY <1>2 DEF IInv, TypeOK
    <3>5. QED
      BY <3>1, <3>2, <3>3, <3>4 DEF InLog
  <2>3. Cardinality(InLog)' = Cardinality(InLog) - 1 /\ Cardinality(InLog) \in Nat
    BY <2>2, FS_RemoveElement, FS_CardinalityType
  <2>4. faults * Cardinality(Session) \in Nat /\ calls \in Nat
    BY MoreFaults, Sessions DEF IInv, TypeOK
  <2>5. calls' <= Len(log)' + faults' * Cardinality(Session) + Cardinality(InLog)'
    BY <1>3, <1>6, <2>3, <2>4 DEF IInv, LogAccounts
  <2>6. QED
    BY <1>3, <2>1, <2>5 DEF LogAccounts
<1> QED
  BY <1>7, <1>8, <1>9, <1>10, <1>11 DEF IInv

-----------------------------------------------------------------------------
(* Everything else, and the theorems.                                      *)

\* A step that moves no session and writes nothing, and after which the rows
\* have grown, keeps the invariant.
LEMMA RowsOnly ==
  ASSUME IInv, TypeOK', Grows,
         UNCHANGED <<held, carried, calls, session, log>>,
         faults <= faults'
  PROVE  IInv'
<1>1. RecordInv'
  BY DEF Grows, RecordInv
<1>2. SessionInv'
  <2> SUFFICES ASSUME NEW q \in Session PROVE Sound(session[q])'
    BY DEF SessionInv
  <2>1. session[q] \in Gate /\ Sound(session[q]) /\ TypeOK /\ now' \in Nat
    BY DEF IInv, TypeOK, SessionInv
  <2>2. PICK r \in Gate : r = session[q]
    BY <2>1
  <2>3. Sound(r)'
    BY <2>1, <2>2, SoundStays
  <2>4. session'[q] = r
    BY <2>2
  <2> QED
    BY <2>3, <2>4 DEF Sound, Folded, NoneStands
<1>3. CarriedInv'
  <2>1. \A v \in Verdict : Due(v, now) => Due(v, now)'
    BY DEF Due, Grows, IInv, TypeOK
  <2>2. QED
    BY <2>1 DEF IInv, CarriedInv, TypeOK
<1>4. LogAccounts'
  <2>1. InLog' = InLog
    BY DEF InLog
  <2>2. faults * Cardinality(Session) <= faults' * Cardinality(Session)
        /\ faults * Cardinality(Session) \in Nat /\ faults' * Cardinality(Session) \in Nat
    BY MoreFaults, Sessions DEF IInv, TypeOK
  <2>3. Cardinality(InLog) \in Nat /\ Len(log) \in Nat /\ calls \in Nat
    <3>1. IsFiniteSet(InLog)
      BY FS_Subset DEF InLog
    <3>2. QED
      BY <3>1, FS_CardinalityType DEF IInv, TypeOK
  <2>4. calls' <= Len(log)' + faults' * Cardinality(Session) + Cardinality(InLog)'
    BY <2>1, <2>2, <2>3 DEF IInv, LogAccounts
  <2>5. QED
    BY <2>4 DEF IInv, LogAccounts, Grows
<1> QED
  BY <1>1, <1>2, <1>3, <1>4 DEF IInv

\* A handler of receive_verdict.
LEMMA IngestStep ==
  ASSUME IInv, NEW i \in Ingest,
         (\E v \in Verdict : Receive(i, v)) \/ PutVerdict(i) \/ SupersedeOpenCase(i)
  PROVE  IInv'
<1> USE DEF deviceVars, rowVars
<1>1. UNCHANGED <<now, held, shown, carried, calls, executed, lastWrite, log, session, faults>>
  BY DEF Receive, PutVerdict, SupersedeOpenCase
<1>2. ingest' \in [Ingest -> {IdleIngest} \cup [pc: {"put", "supersede"}, verdict: Verdict]]
  <2>1. ingest[i] \in {IdleIngest} \cup [pc: {"put", "supersede"}, verdict: Verdict]
    BY DEF IInv, TypeOK
  <2>2. CASE \E v \in Verdict : Receive(i, v)
    BY <2>2 DEF Receive, IInv, TypeOK
  <2>3. CASE PutVerdict(i)
    BY <2>1, <2>3 DEF PutVerdict, IdleIngest, IInv, TypeOK
  <2>4. CASE SupersedeOpenCase(i)
    BY <2>4 DEF SupersedeOpenCase, IInv, TypeOK
  <2>5. QED
    BY <2>2, <2>3, <2>4
<1>3. /\ stored \subseteq stored' /\ superseded \subseteq superseded'
      /\ stored' \subseteq Verdict /\ superseded' \subseteq stored'
      /\ \A v \in superseded' : v.kind = "open-case"
  <2>1. CASE \E v \in Verdict : Receive(i, v)
    BY <2>1 DEF Receive, IInv, TypeOK, RecordInv
  <2>2. CASE PutVerdict(i)
    <3>1. ingest[i].verdict \in Verdict
      BY <2>2 DEF PutVerdict, IdleIngest, IInv, TypeOK
    <3>2. QED
      BY <2>2, <3>1 DEF PutVerdict, IInv, TypeOK, RecordInv
  <2>3. CASE SupersedeOpenCase(i)
    BY <2>3 DEF SupersedeOpenCase, IInv, TypeOK, RecordInv
  <2>4. QED
    BY <2>1, <2>2, <2>3
<1>4. Grows /\ faults <= faults'
  BY <1>1, <1>3 DEF Grows, IInv, TypeOK
<1>5. TypeOK'
  BY <1>1, <1>2, <1>3 DEF IInv, TypeOK
<1> QED
  BY <1>1, <1>4, <1>5, RowsOnly

\* Google catches up, a window lapses, a day passes.
LEMMA WorldStep ==
  ASSUME IInv,
         \/ \E d \in Device : Propagate(d)
         \/ \E u \in User : WindowLapses(u)
         \/ Tick
         \/ UNCHANGED vars
  PROVE  IInv'
<1> USE DEF deviceVars, rowVars
<1>1. /\ UNCHANGED <<held, carried, calls, session, log, stored, superseded, executed, ingest>>
      /\ now' \in Nat /\ now <= now' /\ faults' \in Nat /\ faults <= faults'
      /\ shown' \in [Device -> Bits] /\ lastWrite' \in [User -> Bits \cup {None}]
  <2>1. CASE \E d \in Device : Propagate(d)
    BY <2>1 DEF Propagate, IInv, TypeOK
  <2>2. CASE \E u \in User : WindowLapses(u)
    BY <2>2 DEF WindowLapses, Fault, IInv, TypeOK
  <2>3. CASE Tick
    BY <2>3 DEF Tick, IInv, TypeOK
  <2>4. CASE UNCHANGED vars
    BY <2>4 DEF vars, IInv, TypeOK
  <2>5. QED
    BY <2>1, <2>2, <2>3, <2>4
<1>2. TypeOK'
  BY <1>1 DEF IInv, TypeOK
<1>3. Grows
  BY <1>1 DEF Grows, IInv, RecordInv
<1> QED
  BY <1>1, <1>2, <1>3, RowsOnly

\* A restart loses every request, and with them as many entries as there
\* were writes in flight.
LEMMA RestartStep ==
  ASSUME IInv, Restart
  PROVE  IInv'
<1> USE DEF deviceVars, rowVars
<1>1. /\ UNCHANGED <<now, held, shown, carried, calls, stored, superseded, executed,
                     lastWrite, log>>
      /\ faults' = faults + 1
      /\ ingest' = [i \in Ingest |-> IdleIngest] /\ session' = [q \in Session |-> IdleSession]
  BY DEF Restart, Fault
<1>2. IdleSession \in Gate /\ IdleSession.pc = "idle" /\ IdleSession.at = 0
  BY DEF IdleSession, Gate, Clean, Bits
<1>3. TypeOK'
  BY <1>1, <1>2 DEF IInv, TypeOK
<1>4. SessionInv'
  BY <1>1, <1>2, <1>3 DEF SessionInv, Sound, TypeOK
<1>5. RecordInv' /\ CarriedInv'
  BY <1>1 DEF IInv, RecordInv, CarriedInv, Due
<1>6. LogAccounts'
  <2>1. InLog \subseteq Session /\ InLog' = {}
    BY <1>1, <1>2 DEF InLog
  <2>2. /\ Cardinality(InLog) \in Nat /\ Cardinality(InLog) <= Cardinality(Session)
        /\ Cardinality(InLog)' = 0
    BY <2>1, FS_Subset, FS_EmptySet, FS_CardinalityType
  <2>3. faults' * Cardinality(Session) = faults * Cardinality(Session) + Cardinality(Session)
        /\ faults * Cardinality(Session) \in Nat
    BY <1>1, Sessions, OneMoreFault DEF IInv, TypeOK
  <2>4. Len(log) \in Nat /\ calls \in Nat
    BY DEF IInv, TypeOK
  <2>5. calls' <= Len(log)' + faults' * Cardinality(Session) + Cardinality(InLog)'
    BY <1>1, <2>2, <2>3, <2>4, Sessions DEF IInv, LogAccounts
  <2>6. QED
    BY <1>1, <2>5 DEF IInv, LogAccounts
<1> QED
  BY <1>3, <1>4, <1>5, <1>6 DEF IInv

\* One step of a gate check.
LEMMA GateSteps ==
  ASSUME IInv, NEW s \in Session, GateStep(s)
  PROVE  IInv'
<1> USE DEF rowVars
<1>1. CASE Untrusted(s) \/ Unreachable(s)
  BY <1>1, NoAnswer DEF Untrusted, Unreachable
<1>2. CASE Decode(s) \/ DecodeWithoutRecall(s)
  BY <1>2, DecodeStep
<1>3. CASE IntendedMarks(s)
  BY <1>3, FoldStep
<1>4. CASE Decide(s)
  <2>1. \E pc \in {"write", "answer"} : Goto(s, pc)
    BY <1>4 DEF Decide
  <2>2. /\ UNCHANGED <<now, deviceVars, stored, superseded, log, ingest, faults>>
        /\ lastWrite' \in [User -> Bits \cup {None}] /\ executed' \subseteq Verdict
        /\ session[s].pc = "decide"
    BY <1>4 DEF Decide, IInv, TypeOK
  <2>3. QED
    BY <2>1, <2>2, GoOn
<1>5. CASE \E executes, ok \in BOOLEAN : WriteRecall(s, executes, ok)
  BY <1>5, WriteStep
<1>6. CASE AppendWriteLog(s)
  BY <1>6, LogStep
<1>7. CASE RecordRecallWrite(s)
  <2>1. /\ UNCHANGED <<now, deviceVars, stored, superseded, log, ingest, faults>>
        /\ lastWrite' \in [User -> Bits \cup {None}] /\ executed' \subseteq Verdict
        /\ session[s].pc = "record" /\ Goto(s, "mark")
    BY <1>7 DEF RecordRecallWrite, IInv, TypeOK, Gate
  <2>2. QED
    BY <2>1, GoOn
<1>8. CASE \E v \in Verdict : MarkExecuted(s, v)
  <2>1. /\ UNCHANGED <<now, deviceVars, stored, superseded, log, ingest, faults>>
        /\ lastWrite' \in [User -> Bits \cup {None}] /\ executed' \subseteq Verdict
        /\ session[s].pc = "mark" /\ Goto(s, "mark")
    BY <1>8 DEF MarkExecuted, Goto, IInv, TypeOK, Gate
  <2>2. QED
    BY <2>1, GoOn
<1>9. CASE Marked(s)
  <2>1. /\ UNCHANGED <<now, deviceVars, stored, superseded, log, ingest, faults>>
        /\ lastWrite' \in [User -> Bits \cup {None}] /\ executed' \subseteq Verdict
        /\ session[s].pc = "mark" /\ Goto(s, "answer")
    BY <1>9 DEF Marked, IInv, TypeOK
  <2>2. QED
    BY <2>1, GoOn
<1>10. CASE Answer(s)
  BY <1>10, AnswerStep
<1>11. CASE Leave(s)
  BY <1>11, LeaveStep
<1>12. QED
  BY <1>1, <1>2, <1>3, <1>4, <1>5, <1>6, <1>7, <1>8, <1>9, <1>10, <1>11 DEF GateStep

\* The invariant holds at the start, and every step keeps it.
THEOREM Inductive == Spec => []IInv
<1>1. Init => IInv
  <2> SUFFICES ASSUME Init PROVE IInv
    OBVIOUS
  <2>1. IdleSession \in Gate /\ IdleSession.pc = "idle" /\ IdleSession.at = 0
        /\ Clean \in Bits /\ ~Clean.banned
    BY DEF IdleSession, Gate, Clean, Bits
  <2>2. TypeOK
    BY <2>1 DEF Init, TypeOK
  <2>3. RecordInv /\ CarriedInv
    BY <2>1 DEF Init, RecordInv, CarriedInv
  <2>4. SessionInv
    BY <2>1 DEF Init, SessionInv, Sound
  <2>5. LogAccounts
    <3>1. InLog = {}
      BY <2>1 DEF Init, InLog
    <3>2. Cardinality(InLog) = 0 /\ 0 * Cardinality(Session) = 0
      BY <3>1, FS_EmptySet, Sessions
    <3>3. log = <<>> /\ Len(log) = 0 /\ DOMAIN log = {} /\ calls = 0 /\ faults = 0
      BY DEF Init
    <3>4. QED
      BY <3>2, <3>3 DEF LogAccounts
  <2> QED
    BY <2>2, <2>3, <2>4, <2>5 DEF IInv
<1>2. IInv /\ [Next]_vars => IInv'
  <2> SUFFICES ASSUME IInv, [Next]_vars PROVE IInv'
    OBVIOUS
  <2>1. CASE \E s \in Session, u \in User, d \in Device : GateStart(s, u, d)
    BY <2>1, StartStep
  <2> QED
    BY <2>1, IngestStep, GateSteps, WorldStep, RestartStep DEF Next
<1> QED
  BY <1>1, <1>2, PTL DEF Spec

\* Values, rows, the log and every session keep their types.
THEOREM Typing == Spec => []TypeOK
<1>1. IInv => TypeOK
  BY DEF IInv
<1> QED
  BY <1>1, Inductive, PTL

\* Nobody passes the gate past a ban that was on file when the session opened
\* and still stands, however the token lags and whatever is filed meanwhile.
THEOREM Refused == Spec => []RefusedWhileBanned
<1>1. IInv => RefusedWhileBanned
  BY DEF IInv, SessionInv, Sound, NoneStands, RefusedWhileBanned
<1> QED
  BY <1>1, Inductive, PTL

\* Every banned mark on a device and every entry of the log stand on a ban on
\* file that was due, and the chain of the log is never broken.
THEOREM Accounted == Spec => []WritesAccounted
<1>1. IInv => WritesAccounted
  BY DEF IInv, CarriedInv, Due, WritesAccounted, MarkCarriedByABan
<1> QED
  BY <1>1, Inductive, PTL
=============================================================================
