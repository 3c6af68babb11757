------------------------ MODULE CaseLifecycle_proofs ------------------------
(***************************************************************************)
(* Theorems of CaseLifecycle for every value of its constants.             *)
(***************************************************************************)
EXTENDS CaseLifecycle, FiniteSetTheorems, TLAPS

\* A count that neither falls nor passes a reading of it stands still.
LEMMA Squeezed ==
  ASSUME NEW basis \in Nat, NEW before \in Nat, NEW after \in Nat, before <= after
  PROVE  basis = after /\ basis <= before => after = before
  OBVIOUS

\* A filing that only turns to its next step keeps its type and names what
\* that step needs.
LEMMA FilingTurns ==
  ASSUME filing \in [Filer -> Filing], RequestsNamed, NEW f \in Filer,
         NEW pc \in {"attach", "renotice", "lost", "done"},
         filing' = [filing EXCEPT ![f].pc = pc], UNCHANGED deciding,
         filing[f].report \in Report,
         IF pc = "lost" THEN filing[f].joins = None ELSE filing[f].joins \in Case
  PROVE  filing' \in [Filer -> Filing] /\ RequestsNamed'
<1> DEFINE new == [filing[f] EXCEPT !.pc = pc]
<1>1. /\ new \in Filing /\ new.pc = pc
      /\ new.report = filing[f].report /\ new.joins = filing[f].joins
  BY DEF Filing
<1>2. filing' = [filing EXCEPT ![f] = new]
  OBVIOUS
<1> HIDE DEF new
<1>3. filing' \in [Filer -> Filing]
  BY <1>1, <1>2
<1>4. filing'[f] = new /\ \A g \in Filer : g # f => filing'[g] = filing[g]
  BY <1>2
<1>5. QED
  BY <1>1, <1>3, <1>4 DEF RequestsNamed

\* Types of the rows and of the requests' records, and which of their fields
\* are filled in when.
LEMMA TypingStep == ASSUME Typed, [Next]_vars PROVE Typed'
<1> USE CaseLifecycleAssumption
    DEF Typed, TypeOK, RequestsNamed, caseVars, recordVars, requestVars
<1>1. ASSUME NEW f \in Filer, NEW r \in Report, FileLook(f, r) PROVE Typed'
  BY <1>1 DEF FileLook, Filing, IsOpenCase
<1>2. ASSUME NEW f \in Filer, FileStore(f) PROVE Typed'
  <2>1. filing' \in [Filer -> Filing]
    <3>1. filing[f] \in Filing
      OBVIOUS
    <3>2. [filing[f] EXCEPT !.pc = "stored", !.at = now] \in Filing
      BY <3>1 DEF Filing
    <3>3. QED
      BY <1>2, <3>2 DEF FileStore
  <2>2. stored' \subseteq Report
    BY <1>2 DEF FileStore
  <2>3. RequestsNamed'
    BY <1>2 DEF FileStore, Filing
  <2>4. QED
    BY <1>2, <2>1, <2>2, <2>3 DEF FileStore
<1>3. ASSUME NEW f \in Filer, JoinCheck(f) PROVE Typed'
  <2>1. PICK pc \in {"attach", "renotice"} : filing' = [filing EXCEPT ![f].pc = pc]
    BY <1>3 DEF JoinCheck
  <2>2. filing[f].report \in Report /\ filing[f].joins \in Case
    BY <1>3 DEF JoinCheck, Filing
  <2>3. filing' \in [Filer -> Filing] /\ RequestsNamed'
    BY <1>3, <2>1, <2>2, FilingTurns DEF JoinCheck
  <2>4. QED
    BY <1>3, <2>3 DEF JoinCheck
<1>4. ASSUME NEW f \in Filer, JoinAttach(f) PROVE Typed'
  <2>1. filing[f].report \in Report /\ filing[f].joins \in Case
    BY <1>4 DEF JoinAttach
  <2>2. filing' \in [Filer -> Filing] /\ RequestsNamed'
    BY <1>4, <2>1, FilingTurns DEF JoinAttach
  <2>3. QED
    BY <1>4, <2>1, <2>2 DEF JoinAttach
<1>5. ASSUME NEW f \in Filer, JoinRenotice(f) PROVE Typed'
  <2>0. filing[f].report \in Report /\ filing[f].joins \in Case
    BY <1>5 DEF JoinRenotice
  <2>1. filing' \in [Filer -> Filing] /\ RequestsNamed'
    BY <1>5, <2>0, FilingTurns DEF JoinRenotice
  <2>2. PICK c \in Case, r \in Report : c = filing[f].joins /\ r = filing[f].report
    BY <2>0
  <2>3. filing[f].at \in Nat /\ filing[f].horizon \in Nat
    BY DEF Filing
  <2>4. verdicts' \subseteq Verdict /\ delivered' \subseteq verdicts'
    BY <1>5, <2>2, <2>3 DEF JoinRenotice, Verdict, Notice
  <2>5. QED
    BY <1>5, <2>1, <2>2, <2>3, <2>4 DEF JoinRenotice, RevisedHorizon
<1>6. ASSUME NEW f \in Filer, NEW c \in Case, OpenCase(f, c) PROVE Typed'
  <2>0. filing' \in [Filer -> Filing]
    <3>1. filing[f] \in Filing
      OBVIOUS
    <3>2. [filing[f] EXCEPT !.pc = "done", !.joins = c] \in Filing
      BY <3>1 DEF Filing
    <3>3. QED
      BY <1>6, <3>2 DEF OpenCase
  <2>1. RequestsNamed'
    BY <1>6 DEF OpenCase, Filing
  <2>2. filing[f].report \in Report /\ filing[f].at \in Nat
    BY <1>6 DEF OpenCase, Filing
  <2>3. verdicts' \subseteq Verdict /\ delivered' \subseteq verdicts'
    BY <1>6, <2>2 DEF OpenCase, Verdict, Notice
  <2>4. QED
    BY <1>6, <2>0, <2>1, <2>2, <2>3 DEF OpenCase
<1>7. ASSUME NEW f \in Filer, NEW c \in Case, Relook(f, c) PROVE Typed'
  <2>1. filing' \in [Filer -> Filing]
    <3>1. filing[f] \in Filing
      OBVIOUS
    <3>2. [filing[f] EXCEPT !.pc = "stored", !.joins = c, !.horizon = decDeadline[c]]
            \in Filing
      BY <3>1 DEF Filing
    <3>3. QED
      BY <1>7, <3>2 DEF Relook
  <2>2. RequestsNamed'
    BY <1>7 DEF Relook, Filing
  <2>3. QED
    BY <1>7, <2>1, <2>2 DEF Relook
<1>8. ASSUME NEW f \in Filer, OpenLost(f) PROVE Typed'
  BY <1>8 DEF OpenLost, Filing
<1>9. ASSUME NEW f \in Filer, FileAttach(f) PROVE Typed'
  BY <1>9 DEF FileAttach, Filing, IdleFiling
<1>10. ASSUME NEW f \in Filer, FileRefused(f) PROVE Typed'
  BY <1>10 DEF FileRefused, Filing, IdleFiling
<1>11. ASSUME NEW c \in Case, Respond(c) PROVE Typed'
  BY <1>11 DEF Respond
<1>12. ASSUME NEW d \in Moderator, NEW c \in Case,
              NEW ruling \in {"dismiss", "ban", "reverse"}, ModeratorRead(d, c, ruling)
       PROVE Typed'
  BY <1>12 DEF ModeratorRead, Deciding, Decider
<1>13. ASSUME NEW d \in Decider, DeciderGather(d) PROVE Typed'
  <2>1. deciding' \in [Decider -> Deciding]
    <3>1. deciding[d] \in Deciding
      OBVIOUS
    <3>2. ReportsOf(deciding[d].case) \in SUBSET Report
      BY DEF ReportsOf
    <3>3. [deciding[d] EXCEPT !.pc = IF deciding[d].ruling = "ban" THEN "gathered" ELSE "checked",
                              !.reporters = ReportsOf(deciding[d].case)] \in Deciding
      BY <3>1, <3>2 DEF Deciding
    <3>4. QED
      BY <1>13, <3>3 DEF DeciderGather
  <2>2. RequestsNamed'
    BY <1>13 DEF DeciderGather, Deciding
  <2>3. QED
    BY <1>13, <2>1, <2>2 DEF DeciderGather
<1>14. ASSUME NEW d \in Decider, DeciderNotices(d) PROVE Typed'
  <2>1. deciding' \in [Decider -> Deciding]
    <3>1. deciding[d] \in Deciding
      OBVIOUS
    <3>2. [deciding[d] EXCEPT !.pc = "checked"] \in Deciding
      BY <3>1 DEF Deciding
    <3>3. QED
      BY <1>14, <3>2 DEF DeciderNotices
  <2>2. RequestsNamed'
    BY <1>14 DEF DeciderNotices, Deciding
  <2>3. QED
    BY <1>14, <2>1, <2>2 DEF DeciderNotices
<1>15. ASSUME NEW d \in Decider, DeciderCommit(d) PROVE Typed'
  <2>1. deciding' \in [Decider -> Deciding] /\ RequestsNamed'
    BY <1>15 DEF DeciderCommit, Deciding, IdleDecider
  <2>2. PICK c \in Case : c = deciding[d].case
    BY <1>15 DEF DeciderCommit, Deciding
  <2>3. /\ deciding[d].ruling \in {"dismiss", "ban", "reverse"}
        /\ deciding[d].at \in Nat
        /\ deciding[d].reporters \subseteq Report
    BY DEF Deciding
  <2>4. verdicts' \subseteq Verdict /\ delivered' \subseteq verdicts'
    BY <1>15, <2>2, <2>3 DEF DeciderCommit, Verdict, Ruling, VerdictKind
  <2>5. QED
    BY <1>15, <2>1, <2>2, <2>3, <2>4 DEF DeciderCommit
<1>16. ASSUME NEW d \in Decider, DeciderRefused(d) PROVE Typed'
  BY <1>16 DEF DeciderRefused, Deciding, IdleDecider
<1>17. ASSUME NEW d \in Triage, NEW c \in Case, NEW ruling \in {"dismiss", "ban"},
              TriageRead(d, c, ruling)
       PROVE Typed'
  BY <1>17 DEF TriageRead, Deciding, Decider
<1>18. ASSUME NEW d \in Triage, TriageRecord(d) PROVE Typed'
  BY <1>18 DEF TriageRecord, Deciding, IdleDecider, Decider, Assessment
<1>19. ASSUME NEW d \in Triage, NEW c \in Case, TriageApply(d, c) PROVE Typed'
  BY <1>19 DEF TriageApply, Deciding, Decider, Assessment
<1>20. ASSUME NEW d \in Triage, NEW c \in Case, TriageInvalidate(d, c) PROVE Typed'
  BY <1>20 DEF TriageInvalidate
<1>21. CASE SweepStart
  BY <1>21 DEF SweepStart, OverdueCases
<1>22. ASSUME NEW c \in Case, SweepDismiss(c) PROVE Typed'
  BY <1>22 DEF SweepDismiss, Verdict, Ruling
<1>23. ASSUME NEW c \in Case, SweepLost(c) PROVE Typed'
  BY <1>23 DEF SweepLost
<1>24. ASSUME NEW v \in verdicts, MarkDelivered(v) PROVE Typed'
  BY <1>24 DEF MarkDelivered
<1>25. CASE Tick
  BY <1>25 DEF Tick
<1>26. CASE Restart
  BY <1>26 DEF Restart, Filing, IdleFiling, Deciding, IdleDecider, IdleSweep
<1>27. CASE UNCHANGED vars
  BY <1>27 DEF vars
<1> HIDE DEF Typed
<1>28. ASSUME NEW f \in Filer, FilerStep(f) PROVE Typed'
  BY <1>28, <1>1, <1>2, <1>3, <1>4, <1>5, <1>6, <1>7, <1>8, <1>9, <1>10 DEF FilerStep
<1>29. ASSUME NEW d \in Decider, DeciderStep(d) PROVE Typed'
  BY <1>29, <1>13, <1>14, <1>15, <1>16 DEF DeciderStep
<1>30. ASSUME NEW d \in Triage, TriageStep(d) PROVE Typed'
  BY <1>30, <1>17, <1>18, <1>19, <1>20 DEF TriageStep
<1>31. CASE SweepStep
  BY <1>31, <1>21, <1>22, <1>23 DEF SweepStep
<1>32. QED
  BY <1>11, <1>12, <1>24, <1>25, <1>26, <1>27, <1>28, <1>29, <1>30, <1>31
  DEF Next, ModeratorStep

\* The type invariant: every row keeps its type, and every request in flight
\* names its report and its case.
THEOREM Typing == Spec => [](TypeOK /\ RequestsNamed)
<1>1. Init => Typed
  BY CaseLifecycleAssumption
  DEF Init, Typed, TypeOK, RequestsNamed, Filing, IdleFiling, Deciding, IdleDecider,
      IdleSweep, Decider
<1>2. Typed /\ [Next]_vars => Typed'
  BY TypingStep
<1>3. QED
  BY <1>1, <1>2, PTL DEF Spec, Typed

-----------------------------------------------------------------------------
\* What no step undoes: rows stay, a horizon and an attachment never move,
\* revisions grow until the ruling, and the notices, the running window and
\* the reports of a case change only together with its revision.
StableStep ==
  /\ \A c \in Case : stage[c] # "absent" =>
        /\ stage'[c] # "absent"
        /\ decDeadline'[c] = decDeadline[c]
        /\ noticed[c] \subseteq noticed'[c]
        /\ revision'[c] = revision[c] =>
              /\ respDeadline'[c] = respDeadline[c]
              /\ NoticesOf(c)' = NoticesOf(c)
              /\ ReportsOf(c)' = ReportsOf(c)
  /\ \A c \in Case : stage[c] = "decided" =>
        stage'[c] = "decided" /\ revision'[c] = revision[c]
  /\ \A c \in Case : revision[c] <= revision'[c]
  /\ \A r \in Report : reportCase[r] # None => reportCase'[r] = reportCase[r]
  /\ verdicts \subseteq verdicts'
  /\ delivered \subseteq delivered'

\* A join writes back the horizon it read, and the last write of a filing
\* repeats the attachment it made: neither changes anything.
LEMMA Stability == ASSUME Typed, FilingInv, [Next]_vars PROVE StableStep
<1> USE CaseLifecycleAssumption
    DEF Typed, TypeOK, RequestsNamed, StableStep, NoticesOf, ReportsOf, caseVars, recordVars, requestVars
<1>1. ASSUME NEW f \in Filer, FilerStep(f) PROVE StableStep
  <2>1. ASSUME NEW r \in Report, FileLook(f, r) PROVE StableStep
    BY <2>1 DEF FileLook
  <2>2. CASE FileStore(f) \/ JoinCheck(f) \/ OpenLost(f) \/ FileRefused(f)
    BY <2>2 DEF FileStore, JoinCheck, OpenLost, FileRefused
  <2>3. CASE JoinAttach(f)
    BY <2>3 DEF JoinAttach, Unattached, StillJoinable
  <2>4. CASE JoinRenotice(f)
    <3>1. PICK c \in Case, r \in Report : c = filing[f].joins /\ r = filing[f].report
      BY <2>4 DEF JoinRenotice
    <3>2. filing[f].horizon = decDeadline[c]
      BY <2>4, <3>1 DEF JoinRenotice, FilingInv
    <3>3. decDeadline' = decDeadline
      BY <2>4, <3>1, <3>2 DEF JoinRenotice, RevisedHorizon
    <3>4. /\ revision' = [revision EXCEPT ![c] = @ + 1]
          /\ \A d \in Case : d # c => respDeadline'[d] = respDeadline[d]
          /\ noticed' = [noticed EXCEPT ![c] = @ \cup {EvidenceOf[r]}]
          /\ verdicts' = verdicts \cup {Notice(c, EvidenceOf[r], filing[f].at)}
      BY <2>4, <3>1 DEF JoinRenotice
    <3>5. \A d \in Case : d # c => NoticesOf(d)' = NoticesOf(d)
      BY <3>4 DEF Notice
    <3>6. reportCase[r] = None /\ reportCase' = [reportCase EXCEPT ![r] = c]
      BY <2>4, <3>1 DEF JoinRenotice, Unattached
    <3>7. \A d \in Case : d # c => ReportsOf(d)' = ReportsOf(d)
      BY <3>6
    <3>8. stage[c] = "open" /\ stage' = stage /\ delivered' = delivered
      BY <2>4, <3>1 DEF JoinRenotice, StillJoinable
    <3>9. QED
      BY <3>3, <3>4, <3>5, <3>6, <3>7, <3>8
  <2>5. ASSUME NEW c \in Case, OpenCase(f, c) PROVE StableStep
    <3>1. PICK r \in Report : r = filing[f].report
      BY <2>5 DEF OpenCase
    <3>2. /\ verdicts' = verdicts \cup {Notice(c, EvidenceOf[r], filing[f].at)}
          /\ \A d \in Case : d # c => NoticesOf(d)' = NoticesOf(d)
      BY <2>5, <3>1 DEF OpenCase, Notice
    <3>3. /\ reportCase[r] = None
          /\ reportCase' = [reportCase EXCEPT ![r] = c]
          /\ \A d \in Case : d # c => ReportsOf(d)' = ReportsOf(d)
      BY <2>5, <3>1 DEF OpenCase, Unattached
    <3>4. QED
      BY <2>5, <3>1, <3>2, <3>3 DEF OpenCase
  <2>6. ASSUME NEW c \in Case, Relook(f, c) PROVE StableStep
    BY <2>6 DEF Relook
  <2>7. CASE FileAttach(f)
    BY <2>7 DEF FileAttach, FilingInv
  <2>8. QED
    BY <1>1, <2>1, <2>2, <2>3, <2>4, <2>5, <2>6, <2>7 DEF FilerStep
<1>2. ASSUME NEW c \in Case, Respond(c) PROVE StableStep
  BY <1>2 DEF Respond
<1>3. ASSUME NEW d \in Moderator, ModeratorStep(d) PROVE StableStep
  BY <1>3 DEF ModeratorStep, ModeratorRead
<1>4. ASSUME NEW d \in Triage, TriageStep(d) PROVE StableStep
  BY <1>4 DEF TriageStep, TriageRead, TriageRecord, TriageApply, TriageInvalidate
<1>5. ASSUME NEW d \in Decider, DeciderStep(d) PROVE StableStep
  <2>1. CASE DeciderGather(d) \/ DeciderNotices(d) \/ DeciderRefused(d)
    BY <2>1 DEF DeciderGather, DeciderNotices, DeciderRefused
  <2>2. CASE DeciderCommit(d)
    <3>1. PICK c \in Case : c = deciding[d].case
      BY <2>2 DEF DeciderCommit
    <3>2. \A v \in verdicts' \ verdicts : v.kind # "open-case"
      BY <2>2 DEF DeciderCommit, Ruling, VerdictKind
    <3>3. QED
      BY <2>2, <3>1, <3>2 DEF DeciderCommit
  <2>3. QED
    BY <1>5, <2>1, <2>2 DEF DeciderStep
<1>6. CASE SweepStep
  <2>1. ASSUME NEW c \in Case, SweepDismiss(c) PROVE StableStep
    <3>1. \A v \in verdicts' \ verdicts : v.kind # "open-case"
      BY <2>1 DEF SweepDismiss, Ruling
    <3>2. QED
      BY <2>1, <3>1 DEF SweepDismiss
  <2>2. QED
    BY <1>6, <2>1 DEF SweepStep, SweepStart, SweepLost
<1>7. ASSUME NEW v \in verdicts, MarkDelivered(v) PROVE StableStep
  BY <1>7 DEF MarkDelivered
<1>8. CASE Tick \/ Restart
  BY <1>8 DEF Tick, Restart
<1>9. CASE UNCHANGED vars
  BY <1>9 DEF vars
<1>10. QED
  BY <1>1, <1>2, <1>3, <1>4, <1>5, <1>6, <1>7, <1>8, <1>9 DEF Next

\* Which steps touch the requests in flight and the sweep's snapshot.
LEMMA Touches == ASSUME [Next]_vars PROVE
  /\ filing' = filing \/ (\E f \in Filer : FilerStep(f)) \/ Restart
  /\ \/ UNCHANGED <<deciding, assessment>>
     \/ \E d \in Moderator : ModeratorStep(d)
     \/ \E d \in Triage : TriageStep(d)
     \/ \E d \in Decider : DeciderStep(d)
     \/ Restart
  /\ UNCHANGED sweeping \/ SweepStep \/ Restart
<1> USE DEF caseVars, recordVars, requestVars
<1>1. ASSUME NEW f \in Filer, FilerStep(f)
      PROVE UNCHANGED <<deciding, assessment, sweeping>>
  BY <1>1 DEF FilerStep, FileLook, FileStore, JoinCheck, JoinAttach, JoinRenotice,
              OpenCase, OpenLost, Relook, FileAttach, FileRefused
<1>2. ASSUME NEW c \in Case, Respond(c)
      PROVE UNCHANGED <<filing, deciding, assessment, sweeping>>
  BY <1>2 DEF Respond
<1>3. ASSUME NEW d \in Moderator, ModeratorStep(d)
      PROVE UNCHANGED <<filing, sweeping>>
  BY <1>3 DEF ModeratorStep, ModeratorRead
<1>4. ASSUME NEW d \in Triage, TriageStep(d)
      PROVE UNCHANGED <<filing, sweeping>>
  BY <1>4 DEF TriageStep, TriageRead, TriageRecord, TriageApply, TriageInvalidate
<1>5. ASSUME NEW d \in Decider, DeciderStep(d)
      PROVE UNCHANGED <<filing, sweeping>>
  BY <1>5 DEF DeciderStep, DeciderGather, DeciderNotices, DeciderCommit, DeciderRefused
<1>6. CASE SweepStep
  <2>1. UNCHANGED <<filing, deciding, assessment>>
    BY <1>6 DEF SweepStep, SweepStart, SweepDismiss, SweepLost
  <2>2. QED
    BY <1>6, <2>1
<1>7. ASSUME NEW v \in verdicts, MarkDelivered(v)
      PROVE UNCHANGED <<filing, deciding, assessment, sweeping>>
  BY <1>7 DEF MarkDelivered
<1>8. CASE Tick
  BY <1>8 DEF Tick
<1>9. CASE Restart
  BY <1>9 DEF Restart
<1>10. CASE UNCHANGED vars
  BY <1>10 DEF vars
<1>11. QED
  BY <1>1, <1>2, <1>3, <1>4, <1>5, <1>6, <1>7, <1>8, <1>9, <1>10 DEF Next

-----------------------------------------------------------------------------
\* A filing's reading of its case stays true while it is under way.
LEMMA FilingStep == ASSUME Typed, FilingInv, [Next]_vars PROVE FilingInv'
<1> DEFINE Reading(f) ==
      /\ filing[f].joins \in Case =>
           /\ stage[filing[f].joins] # "absent"
           /\ filing[f].pc # "done" => filing[f].horizon = decDeadline[filing[f].joins]
      /\ filing[f].pc = "done" => reportCase[filing[f].report] = filing[f].joins
<1>1. StableStep
  BY Stability
<1>2. \A f \in Filer : Reading(f)
  BY DEF FilingInv
<1>3. ASSUME NEW f \in Filer, filing'[f] = filing[f] PROVE Reading(f)'
  BY <1>1, <1>2, <1>3, CaseLifecycleAssumption DEF StableStep, Typed, TypeOK, RequestsNamed
<1>4. ASSUME NEW f \in Filer, FilerStep(f) PROVE Reading(f)'
  <2> USE <1>2, CaseLifecycleAssumption
      DEF Typed, TypeOK, RequestsNamed, Filing, caseVars, recordVars
  <2>1. ASSUME NEW r \in Report, FileLook(f, r) PROVE Reading(f)'
    BY <2>1 DEF FileLook, IsOpenCase
  <2>2. CASE FileStore(f)
    <3>1. filing'[f] = [filing[f] EXCEPT !.pc = "stored", !.at = now]
      BY <2>2 DEF FileStore
    <3>2. /\ filing'[f].pc = "stored" /\ filing'[f].joins = filing[f].joins
          /\ filing'[f].horizon = filing[f].horizon
      BY <3>1
    <3>3. filing[f].pc = "looked" /\ UNCHANGED <<stage, decDeadline>>
      BY <2>2 DEF FileStore
    <3>4. QED
      BY <3>2, <3>3
  <2>9. CASE JoinCheck(f) \/ OpenLost(f)
    BY <2>9 DEF JoinCheck, OpenLost
  <2>3. CASE JoinAttach(f)
    BY <2>3 DEF JoinAttach
  <2>4. CASE JoinRenotice(f)
    BY <2>4 DEF JoinRenotice
  <2>5. ASSUME NEW c \in Case, OpenCase(f, c) PROVE Reading(f)'
    <3>1. filing'[f] = [filing[f] EXCEPT !.pc = "done", !.joins = c]
      BY <2>5 DEF OpenCase
    <3>2. filing'[f].pc = "done" /\ filing'[f].joins = c /\ filing'[f].report = filing[f].report
      BY <3>1
    <3>3. stage'[c] = "open" /\ reportCase'[filing[f].report] = c
      BY <2>5 DEF OpenCase
    <3>4. QED
      BY <3>2, <3>3
  <2>6. ASSUME NEW c \in Case, Relook(f, c) PROVE Reading(f)'
    <3>1. filing'[f] = [filing[f] EXCEPT !.pc = "stored", !.joins = c,
                                         !.horizon = decDeadline[c]]
      BY <2>6 DEF Relook
    <3>2. /\ filing'[f].pc = "stored" /\ filing'[f].joins = c
          /\ filing'[f].horizon = decDeadline[c]
      BY <3>1
    <3>3. stage'[c] = "open" /\ decDeadline' = decDeadline
      BY <2>6 DEF Relook, IsOpenCase
    <3>4. QED
      BY <3>2, <3>3
  <2>7. CASE FileAttach(f) \/ FileRefused(f)
    BY <2>7 DEF FileAttach, FileRefused, IdleFiling
  <2>8. QED
    BY <1>4, <2>1, <2>2, <2>9, <2>3, <2>4, <2>5, <2>6, <2>7 DEF FilerStep
<1>5. CASE Restart
  BY <1>5, CaseLifecycleAssumption DEF Restart, IdleFiling, FilingInv
<1>6. ASSUME NEW f \in Filer, FilerStep(f) PROVE \A g \in Filer : g # f => filing'[g] = filing[g]
  <2>1. \E new : filing' = [filing EXCEPT ![f] = new]
    BY <1>6 DEF FilerStep, FileLook, FileStore, JoinCheck, JoinAttach, JoinRenotice,
                OpenCase, OpenLost, Relook, FileAttach, FileRefused
  <2>2. QED
    BY <2>1 DEF Typed, TypeOK
<1>7. \A f \in Filer : Reading(f)'
  BY <1>3, <1>4, <1>5, <1>6, Touches DEF FilingInv
<1>8. QED
  BY <1>7 DEF FilingInv

\* Attachments, notice events, notice verdicts and the response deadline of a
\* case move together.
LEMMA RecordStep == ASSUME Typed, FilingInv, RecordInv, [Next]_vars PROVE RecordInv'
<1>0. StableStep
  BY Stability
<1> DEFINE Row(c) ==
      /\ stage[c] = "absent" =>
           /\ noticed[c] = {}
           /\ \A r \in Report : reportCase[r] # c
           /\ \A v \in verdicts : v.case # c
      /\ \A r \in Report : reportCase[r] = c => EvidenceOf[r] \in noticed[c]
      /\ \A e \in noticed[c] :
           \E v \in verdicts : v.case = c /\ v.kind = "open-case" /\ v.evidence = e
      /\ stage[c] # "absent" =>
           \E v \in verdicts : /\ v.case = c /\ v.kind = "open-case"
                               /\ respDeadline[c] = v.decidedAt + ResponseWindow
<1>1. \A c \in Case : Row(c)
  BY DEF RecordInv
<1>2. SUFFICES ASSUME NEW c \in Case PROVE Row(c)'
  BY DEF RecordInv
<1>3. ASSUME UNCHANGED <<stage, noticed, reportCase, verdicts, respDeadline>> PROVE Row(c)'
  BY <1>1, <1>3
<1> USE CaseLifecycleAssumption
    DEF Typed, TypeOK, RequestsNamed, caseVars, recordVars, requestVars
<1>4. ASSUME NEW f \in Filer, FilerStep(f) PROVE Row(c)'
  <2>1. ASSUME NEW r \in Report, FileLook(f, r) PROVE Row(c)'
    BY <2>1, <1>3 DEF FileLook
  <2>2. CASE FileStore(f) \/ JoinCheck(f) \/ OpenLost(f) \/ FileRefused(f)
    BY <2>2, <1>3 DEF FileStore, JoinCheck, OpenLost, FileRefused
  <2>3. CASE JoinAttach(f)
    <3>1. PICK j \in Case, r \in Report : j = filing[f].joins /\ r = filing[f].report
      BY <2>3 DEF JoinAttach
    <3>2. /\ stage[j] = "open" /\ EvidenceOf[r] \in noticed[j]
          /\ reportCase' = [reportCase EXCEPT ![r] = j]
          /\ UNCHANGED <<stage, noticed, verdicts, respDeadline>>
      BY <2>3, <3>1 DEF JoinAttach, StillJoinable, AlreadyNoticed
    <3>3. QED
      BY <1>1, <3>2
  <2>4. CASE JoinRenotice(f)
    <3>1. PICK j \in Case, r \in Report : j = filing[f].joins /\ r = filing[f].report
      BY <2>4 DEF JoinRenotice
    <3> DEFINE n == Notice(j, EvidenceOf[r], filing[f].at)
    <3>2. /\ stage[j] = "open" /\ UNCHANGED stage
          /\ reportCase' = [reportCase EXCEPT ![r] = j]
          /\ noticed' = [noticed EXCEPT ![j] = @ \cup {EvidenceOf[r]}]
          /\ verdicts' = verdicts \cup {n}
          /\ respDeadline' = [respDeadline EXCEPT ![j] = filing[f].at + ResponseWindow]
      BY <2>4, <3>1 DEF JoinRenotice, StillJoinable
    <3>3. /\ n.case = j /\ n.kind = "open-case" /\ n.evidence = EvidenceOf[r]
          /\ n.decidedAt = filing[f].at
      BY DEF Notice
    <3> HIDE DEF n
    <3>4. CASE c = j
      BY <1>1, <3>2, <3>3, <3>4
    <3>5. CASE c # j
      BY <1>1, <3>2, <3>3, <3>5
    <3>6. QED
      BY <3>4, <3>5
  <2>5. ASSUME NEW j \in Case, OpenCase(f, j) PROVE Row(c)'
    <3>1. PICK r \in Report : r = filing[f].report
      BY <2>5 DEF OpenCase
    <3> DEFINE n == Notice(j, EvidenceOf[r], filing[f].at)
    <3>2. /\ stage[j] = "absent" /\ stage' = [stage EXCEPT ![j] = "open"]
          /\ reportCase' = [reportCase EXCEPT ![r] = j]
          /\ noticed' = [noticed EXCEPT ![j] = {EvidenceOf[r]}]
          /\ verdicts' = verdicts \cup {n}
          /\ respDeadline' = [respDeadline EXCEPT ![j] = filing[f].at + ResponseWindow]
      BY <2>5, <3>1 DEF OpenCase
    <3>3. /\ n.case = j /\ n.kind = "open-case" /\ n.evidence = EvidenceOf[r]
          /\ n.decidedAt = filing[f].at
      BY DEF Notice
    <3> HIDE DEF n
    <3>4. CASE c = j
      BY <1>1, <3>2, <3>3, <3>4
    <3>5. CASE c # j
      BY <1>1, <3>2, <3>3, <3>5
    <3>6. QED
      BY <3>4, <3>5
  <2>6. ASSUME NEW j \in Case, Relook(f, j) PROVE Row(c)'
    BY <2>6, <1>3 DEF Relook
  <2>7. CASE FileAttach(f)
    <3>1. reportCase' = reportCase
      BY <2>7 DEF FileAttach, FilingInv
    <3>2. QED
      BY <2>7, <3>1, <1>3 DEF FileAttach
  <2>8. QED
    BY <1>4, <2>1, <2>2, <2>3, <2>4, <2>5, <2>6, <2>7 DEF FilerStep
<1>5. ASSUME NEW j \in Case, Respond(j) PROVE Row(c)'
  BY <1>5, <1>3 DEF Respond
<1>6. ASSUME NEW d \in Moderator, ModeratorStep(d) PROVE Row(c)'
  BY <1>6, <1>3 DEF ModeratorStep, ModeratorRead
<1>7. ASSUME NEW d \in Triage, TriageStep(d) PROVE Row(c)'
  BY <1>7, <1>3 DEF TriageStep, TriageRead, TriageRecord, TriageApply, TriageInvalidate
<1>8. ASSUME NEW v, verdicts' = verdicts \cup {v}, NEW j \in Case, v.case = j,
             stage[j] # "absent", stage' = [stage EXCEPT ![j] = "decided"],
             UNCHANGED <<noticed, reportCase, respDeadline>>
      PROVE Row(c)'
  BY <1>1, <1>8
<1>9. ASSUME NEW d \in Decider, DeciderStep(d) PROVE Row(c)'
  <2>1. CASE DeciderGather(d) \/ DeciderNotices(d) \/ DeciderRefused(d)
    BY <2>1, <1>3 DEF DeciderGather, DeciderNotices, DeciderRefused
  <2>2. CASE DeciderCommit(d)
    <3>1. PICK j \in Case : j = deciding[d].case
      BY <2>2 DEF DeciderCommit
    <3>2. stage[j] # "absent"
      BY <2>2, <3>1 DEF DeciderCommit, ExpectationHolds
    <3>3. Ruling(j, VerdictKind(deciding[d].ruling), deciding[d].at).case = j
      BY DEF Ruling
    <3>4. QED
      BY <2>2, <3>1, <3>2, <3>3, <1>8 DEF DeciderCommit
  <2>3. QED
    BY <1>9, <2>1, <2>2 DEF DeciderStep
<1>10. CASE SweepStep
  <2>1. ASSUME NEW j \in Case, SweepDismiss(j) PROVE Row(c)'
    <3>1. stage[j] # "absent"
      BY <2>1 DEF SweepDismiss, ExpectationHolds
    <3>2. Ruling(j, "dismiss", sweeping.at).case = j
      BY DEF Ruling
    <3>3. QED
      BY <2>1, <3>1, <3>2, <1>8 DEF SweepDismiss
  <2>2. QED
    BY <1>10, <2>1, <1>3 DEF SweepStep, SweepStart, SweepLost
<1>11. ASSUME NEW v \in verdicts, MarkDelivered(v) PROVE Row(c)'
  BY <1>11, <1>3 DEF MarkDelivered
<1>12. CASE Tick \/ Restart
  BY <1>12, <1>3 DEF Tick, Restart
<1>13. CASE UNCHANGED vars
  BY <1>13, <1>3 DEF vars
<1>14. QED
  BY <1>4, <1>5, <1>6, <1>7, <1>9, <1>10, <1>11, <1>12, <1>13 DEF Next

-----------------------------------------------------------------------------
\* A decision under way: its case exists, its reporters are of the case, and
\* a ban has a served notice whose window had passed when it was read.
LEMMA DecidingStep ==
  ASSUME Typed, FilingInv, RecordInv, DecidingInv, [Next]_vars PROVE DecidingInv'
<1> DEFINE Sound(d) ==
      deciding[d].pc \in {"read", "gathered", "checked"} =>
        /\ stage[deciding[d].case] # "absent"
        /\ deciding[d].pc # "read" => deciding[d].reporters \subseteq ReportsOf(deciding[d].case)
        /\ deciding[d].ruling = "ban" =>
             /\ deciding[d].at <= decDeadline[deciding[d].case]
             /\ \E v \in verdicts :
                  /\ v.case = deciding[d].case /\ v.kind = "open-case"
                  /\ deciding[d].pc = "checked" => v \in delivered
                  /\ ~EarlyBanForQA => v.decidedAt + ResponseWindow <= deciding[d].at
<1>1. StableStep
  BY Stability
<1>2. \A d \in Decider : Sound(d)
  BY DEF DecidingInv
<1>3. \A c \in Case : stage[c] # "absent" => ReportsOf(c) \subseteq ReportsOf(c)'
  BY <1>1, CaseLifecycleAssumption DEF StableStep, ReportsOf
<1>4. ASSUME NEW d \in Decider, deciding'[d] = deciding[d] PROVE Sound(d)'
  BY <1>1, <1>2, <1>3, <1>4 DEF StableStep, Typed, TypeOK, RequestsNamed
<1> USE CaseLifecycleAssumption DEF Typed, TypeOK, RequestsNamed, caseVars, recordVars, requestVars
<1>5. ASSUME NEW d \in Decider, NEW c \in Case, NEW ruling, ReadCase(d, c, ruling),
             deciding'[d].pc = "read", deciding'[d].case = c, deciding'[d].ruling = ruling,
             deciding'[d].at = now, UNCHANGED <<stage, decDeadline, verdicts>>
      PROVE Sound(d)'
  <2>1. stage[c] # "absent"
    BY <1>5 DEF ReadCase, ExpectationHolds
  <2>2. PICK v \in verdicts : /\ v.case = c /\ v.kind = "open-case"
                              /\ respDeadline[c] = v.decidedAt + ResponseWindow
    BY <2>1 DEF RecordInv
  <2>3. ruling = "ban" => now <= decDeadline[c] /\ (~EarlyBanForQA => respDeadline[c] <= now)
    BY <1>5 DEF ReadCase, HorizonAhead, WindowElapsed
  <2>4. QED
    BY <1>5, <2>1, <2>2, <2>3
<1>6. ASSUME NEW d \in Moderator, ModeratorStep(d) PROVE \A e \in Decider : Sound(e)'
  <2>1. PICK c \in Case, ruling \in {"dismiss", "ban", "reverse"} : ModeratorRead(d, c, ruling)
    BY <1>6 DEF ModeratorStep
  <2>2. Sound(d)'
    BY <2>1, <1>5 DEF ModeratorRead, Decider
  <2>3. \A e \in Decider : e # d => deciding'[e] = deciding[e]
    BY <2>1 DEF ModeratorRead
  <2>4. QED
    BY <2>2, <2>3, <1>4
<1>7. ASSUME NEW d \in Triage, TriageStep(d) PROVE \A e \in Decider : Sound(e)'
  <2>1. ASSUME NEW c \in Case, NEW ruling \in {"dismiss", "ban"}, TriageRead(d, c, ruling)
        PROVE Sound(d)'
    BY <2>1 DEF TriageRead, Decider
  <2>2. ASSUME TriageRecord(d) PROVE Sound(d)'
    BY <2>2 DEF TriageRecord, IdleDecider, Decider
  <2>3. ASSUME NEW c \in Case, TriageApply(d, c) PROVE Sound(d)'
    BY <2>3, <1>5 DEF TriageApply, Decider
  <2>4. ASSUME NEW c \in Case, TriageInvalidate(d, c) PROVE \A e \in Decider : Sound(e)'
    BY <2>4, <1>4 DEF TriageInvalidate
  <2>5. (\E c \in Case : TriageInvalidate(d, c)) \/ \A e \in Decider : e # d => deciding'[e] = deciding[e]
    BY <1>7 DEF TriageStep, TriageRead, TriageRecord, TriageApply
  <2>6. QED
    BY <1>7, <2>1, <2>2, <2>3, <2>4, <2>5, <1>4 DEF TriageStep
<1>8. ASSUME NEW d \in Decider, DeciderStep(d) PROVE \A e \in Decider : Sound(e)'
  <2>1. \A e \in Decider : e # d => deciding'[e] = deciding[e]
    BY <1>8 DEF DeciderStep, DeciderGather, DeciderNotices, DeciderCommit, DeciderRefused
  <2>2. ASSUME DeciderGather(d) PROVE Sound(d)'
    <3> DEFINE c == deciding[d].case
    <3>1. /\ deciding[d].pc = "read"
          /\ UNCHANGED <<stage, decDeadline, verdicts, delivered, reportCase>>
      BY <2>2 DEF DeciderGather
    <3>2. /\ deciding'[d].case = c /\ deciding'[d].reporters = ReportsOf(c)
          /\ deciding'[d].ruling = deciding[d].ruling /\ deciding'[d].at = deciding[d].at
          /\ deciding[d].ruling = "ban" => deciding'[d].pc = "gathered"
      BY <2>2 DEF DeciderGather, Deciding
    <3>3. ReportsOf(c)' = ReportsOf(c)
      BY <3>1, <3>2 DEF ReportsOf
    <3>4. Sound(d)
      BY <1>2
    <3>5. QED
      BY <3>1, <3>2, <3>3, <3>4
  <2>3. ASSUME DeciderNotices(d) PROVE Sound(d)'
    <3> DEFINE c == deciding[d].case
    <3>1. /\ deciding[d].pc = "gathered" /\ AllNoticesDelivered(c)
          /\ UNCHANGED <<stage, decDeadline, verdicts, delivered, reportCase>>
      BY <2>3 DEF DeciderNotices
    <3>2. /\ deciding'[d].case = c /\ deciding'[d].reporters = deciding[d].reporters
          /\ deciding'[d].ruling = deciding[d].ruling /\ deciding'[d].at = deciding[d].at
      BY <2>3 DEF DeciderNotices, Deciding
    <3>3. ReportsOf(c)' = ReportsOf(c)
      BY <3>1, <3>2 DEF ReportsOf
    <3>4. Sound(d)
      BY <1>2
    <3>5. \A v \in verdicts : v.case = c /\ v.kind = "open-case" => v \in delivered
      BY <3>1 DEF AllNoticesDelivered, NoticesOf
    <3>6. QED
      BY <3>1, <3>2, <3>3, <3>4, <3>5
  <2>4. ASSUME DeciderCommit(d) \/ DeciderRefused(d) PROVE Sound(d)'
    BY <2>4 DEF DeciderCommit, DeciderRefused, IdleDecider
  <2>5. QED
    BY <1>8, <2>1, <2>2, <2>3, <2>4, <1>4 DEF DeciderStep
<1>9. ASSUME Restart PROVE \A d \in Decider : Sound(d)'
  BY <1>9 DEF Restart, IdleDecider
<1>10. \A d \in Decider : Sound(d)'
  BY <1>4, <1>6, <1>7, <1>8, <1>9, Touches
<1>11. QED
  BY <1>10 DEF DecidingInv

\* An automated decision whose basis is still the case's revision has read
\* the case as it is.
LEMMA RevisionStep ==
  ASSUME Typed, FilingInv, DecidingInv, RevisionInv, [Next]_vars PROVE RevisionInv'
<1> DEFINE Stored(c) == assessment[c] # NoAssessment => assessment[c].basis <= revision[c]
           Current(d) ==
             /\ deciding[d].pc = "assessing" =>
                  /\ stage[deciding[d].case] # "absent"
                  /\ deciding[d].basis <= revision[deciding[d].case]
             /\ deciding[d].pc \in {"read", "gathered", "checked"} =>
                  /\ deciding[d].basis <= revision[deciding[d].case]
                  /\ deciding[d].basis = revision[deciding[d].case] =>
                       /\ assessment[deciding[d].case].basis = revision[deciding[d].case]
                       /\ deciding[d].pc # "read" =>
                            deciding[d].reporters = ReportsOf(deciding[d].case)
                       /\ deciding[d].ruling = "ban" =>
                            /\ deciding[d].at >= respDeadline[deciding[d].case]
                            /\ deciding[d].pc = "checked" =>
                                  AllNoticesDelivered(deciding[d].case)
<1>1. StableStep
  BY Stability
<1>2. (\A c \in Case : Stored(c)) /\ (\A d \in Triage : Current(d))
  BY DEF RevisionInv
<1>3. SUFFICES (\A c \in Case : Stored(c)') /\ (\A d \in Triage : Current(d)')
  BY DEF RevisionInv
<1> USE CaseLifecycleAssumption DEF Typed, TypeOK, RequestsNamed
<1>4. ASSUME NEW c \in Case, assessment'[c] = assessment[c] PROVE Stored(c)'
  <2>1. revision[c] \in Nat /\ revision'[c] \in Nat /\ revision[c] <= revision'[c]
    <3>1. Typed'
      BY TypingStep
    <3>2. QED
      BY <1>1, <3>1 DEF StableStep
  <2>2. assessment[c] # NoAssessment => assessment[c].basis \in Nat
    BY DEF Assessment
  <2>3. QED
    BY <1>2, <1>4, <2>1, <2>2
<1>5. ASSUME NEW d \in Triage, deciding'[d] = deciding[d],
             deciding[d].case \in Case =>
               \/ assessment'[deciding[d].case] = assessment[deciding[d].case]
               \/ assessment'[deciding[d].case].basis = revision'[deciding[d].case]
               \/ assessment[deciding[d].case].basis # revision[deciding[d].case]
      PROVE Current(d)'
  <2>1. CASE deciding[d].pc = "idle"
    BY <1>5, <2>1
  <2>2. ASSUME deciding[d].pc # "idle", NEW c, c = deciding[d].case PROVE Current(d)'
    <3>1. c \in Case /\ deciding[d].basis \in Nat
      BY <2>2 DEF Decider, Deciding
    <3>2. /\ revision[c] \in Nat /\ revision'[c] \in Nat /\ revision[c] <= revision'[c]
      <4>1. Typed'
        BY TypingStep
      <4>2. QED
        BY <1>1, <3>1, <4>1 DEF StableStep
    <3>3. stage[c] # "absent"
      <4>1. Current(d)
        BY <1>2
      <4>2. deciding[d].pc \in {"assessing", "read", "gathered", "checked"}
        BY <2>2 DEF Decider, Deciding
      <4>3. QED
        BY <4>1, <4>2, <2>2 DEF DecidingInv, Decider
    <3>4. stage'[c] # "absent"
      BY <1>1, <3>1, <3>3 DEF StableStep
    <3>5. revision'[c] = revision[c] =>
             /\ respDeadline'[c] = respDeadline[c]
             /\ NoticesOf(c)' = NoticesOf(c)
             /\ ReportsOf(c)' = ReportsOf(c)
             /\ AllNoticesDelivered(c) => AllNoticesDelivered(c)'
      BY <1>1, <3>1, <3>3 DEF StableStep, AllNoticesDelivered
    <3>6. deciding[d].basis = revision'[c] /\ deciding[d].basis <= revision[c] =>
             revision'[c] = revision[c]
      BY <3>1, <3>2, Squeezed
    <3>7. Current(d)
      BY <1>2
    <3>8. deciding[d].basis <= revision[c] => deciding[d].basis <= revision'[c]
      BY <3>1, <3>2
    <3>9. \/ assessment'[c] = assessment[c]
          \/ assessment'[c].basis = revision'[c]
          \/ assessment[c].basis # revision[c]
      BY <1>5, <2>2, <3>1
    <3>10. AllNoticesDelivered(deciding[d].case)' <=> AllNoticesDelivered(c)'
      BY <1>5, <2>2 DEF AllNoticesDelivered, NoticesOf
    <3>11. ReportsOf(deciding[d].case)' = ReportsOf(c)'
      BY <1>5, <2>2 DEF ReportsOf
    <3>12. QED
      BY <1>5, <2>2, <3>3, <3>4, <3>5, <3>6, <3>7, <3>8, <3>9, <3>10, <3>11
  <2>3. QED
    BY <2>1, <2>2
<1> USE DEF caseVars, recordVars, requestVars
<1>6. ASSUME UNCHANGED <<deciding, assessment>>
      PROVE (\A c \in Case : Stored(c)') /\ (\A d \in Triage : Current(d)')
  BY <1>4, <1>5, <1>6
<1>7. ASSUME NEW d \in Moderator, ModeratorStep(d)
      PROVE (\A c \in Case : Stored(c)') /\ (\A e \in Triage : Current(e)')
  <2>1. assessment' = assessment /\ \A e \in Triage : deciding'[e] = deciding[e]
    BY <1>7 DEF ModeratorStep, ModeratorRead, Decider
  <2>2. QED
    BY <2>1, <1>4, <1>5
<1>8. ASSUME NEW d \in Triage, TriageStep(d)
      PROVE (\A c \in Case : Stored(c)') /\ (\A e \in Triage : Current(e)')
  <2>1. ASSUME NEW c \in Case, NEW ruling \in {"dismiss", "ban"}, TriageRead(d, c, ruling)
        PROVE assessment' = assessment /\ Current(d)' /\ \A e \in Triage : e # d => deciding'[e] = deciding[e]
    BY <2>1 DEF TriageRead, Decider
  <2>2. ASSUME TriageRecord(d)
        PROVE (\A c \in Case : Stored(c)') /\ (\A e \in Triage : Current(e)')
    <3>1. PICK c \in Case : c = deciding[d].case
      BY <2>2 DEF TriageRecord, Decider
    <3>2. deciding[d].basis <= revision[c] /\ revision[c] \in Nat /\ deciding[d].basis \in Nat
      BY <1>2, <2>2, <3>1 DEF TriageRecord, Decider, Deciding
    <3>3. UNCHANGED <<stage, revision, respDeadline, reportCase, verdicts, delivered>>
      BY <2>2 DEF TriageRecord
    <3>4. \/ assessment' = assessment
          \/ /\ assessment' = [assessment EXCEPT ![c] =
                  [ruling |-> deciding[d].ruling, basis |-> deciding[d].basis]]
             /\ deciding[d].basis = revision[c]
      BY <2>2, <3>1 DEF TriageRecord
    <3>5. assessment'[c] = assessment[c] \/ assessment'[c].basis = revision[c]
      BY <3>4
    <3>6. \A e \in Case : e # c => assessment'[e] = assessment[e]
      BY <3>4
    <3>7. \A e \in Case : Stored(e)'
      BY <1>4, <3>2, <3>3, <3>5, <3>6
    <3>8. Current(d)'
      BY <2>2 DEF TriageRecord, IdleDecider, Decider
    <3>9. \A e \in Triage : e # d => deciding'[e] = deciding[e]
      BY <2>2 DEF TriageRecord, Decider
    <3>10. \A e \in Triage : e # d => Current(e)'
      BY <3>3, <3>5, <3>6, <3>9, <1>5
    <3>11. QED
      BY <3>7, <3>8, <3>10
  <2>3. ASSUME NEW c \in Case, TriageApply(d, c)
        PROVE assessment' = assessment /\ Current(d)' /\ \A e \in Triage : e # d => deciding'[e] = deciding[e]
    <3>1. assessment[c] # NoAssessment /\ assessment[c].basis \in Nat /\ assessment[c].basis <= revision[c]
      BY <2>3, <1>2 DEF TriageApply, Assessment
    <3>2. /\ deciding'[d].pc = "read" /\ deciding'[d].case = c /\ deciding'[d].at = now
          /\ deciding'[d].basis = assessment[c].basis /\ deciding'[d].ruling = assessment[c].ruling
          /\ UNCHANGED <<assessment, revision, respDeadline>>
      BY <2>3 DEF TriageApply, Decider
    <3>3. assessment[c].ruling = "ban" => now >= respDeadline[c]
      BY <2>3 DEF TriageApply, ReadCase, WindowElapsed
    <3>4. QED
      BY <2>3, <3>1, <3>2, <3>3 DEF TriageApply, Decider
  <2>4. ASSUME NEW c \in Case, TriageInvalidate(d, c)
        PROVE (\A e \in Case : Stored(e)') /\ (\A e \in Triage : Current(e)')
    <3>1. /\ UNCHANGED <<deciding, revision>> /\ assessment[c].basis # revision[c]
          /\ \A e \in Case : e # c => assessment'[e] = assessment[e]
          /\ assessment'[c] = NoAssessment
      BY <2>4 DEF TriageInvalidate
    <3>2. QED
      BY <3>1, <1>4, <1>5
  <2>5. QED
    BY <1>8, <2>1, <2>2, <2>3, <2>4, <1>4, <1>5 DEF TriageStep
<1>9. ASSUME NEW d \in Decider, DeciderStep(d)
      PROVE (\A c \in Case : Stored(c)') /\ (\A e \in Triage : Current(e)')
  <2>1. assessment' = assessment /\ \A e \in Decider : e # d => deciding'[e] = deciding[e]
    BY <1>9 DEF DeciderStep, DeciderGather, DeciderNotices, DeciderCommit, DeciderRefused
  <2>2. ASSUME DeciderGather(d), d \in Triage PROVE Current(d)'
    <3> DEFINE c == deciding[d].case
    <3>1. /\ deciding[d].pc = "read"
          /\ UNCHANGED <<stage, revision, respDeadline, verdicts, delivered, reportCase, assessment>>
      BY <2>2 DEF DeciderGather
    <3>2. /\ deciding'[d].case = c /\ deciding'[d].reporters = ReportsOf(c)
          /\ deciding'[d].ruling = deciding[d].ruling
          /\ deciding'[d].pc = IF deciding[d].ruling = "ban" THEN "gathered" ELSE "checked"
          /\ deciding'[d].at = deciding[d].at /\ deciding'[d].basis = deciding[d].basis
      BY <2>2 DEF DeciderGather, Deciding
    <3>3. ReportsOf(deciding[d].case)' = ReportsOf(c)
      BY <3>1, <3>2 DEF ReportsOf
    <3>4. AllNoticesDelivered(c) => AllNoticesDelivered(deciding[d].case)'
      BY <3>1, <3>2 DEF AllNoticesDelivered, NoticesOf
    <3>5. Current(d)
      BY <1>2, <2>2
    <3> HIDE DEF c
    <3>6. QED
      BY <3>1, <3>2, <3>3, <3>4, <3>5 DEF c
  <2>3. ASSUME DeciderNotices(d), d \in Triage PROVE Current(d)'
    <3> DEFINE c == deciding[d].case
    <3>1. /\ deciding[d].pc = "gathered" /\ AllNoticesDelivered(c)
          /\ UNCHANGED <<stage, revision, respDeadline, verdicts, delivered, reportCase, assessment>>
      BY <2>3 DEF DeciderNotices
    <3>2. /\ deciding'[d].case = c /\ deciding'[d].reporters = deciding[d].reporters
          /\ deciding'[d].ruling = deciding[d].ruling
          /\ deciding'[d].pc = "checked"
          /\ deciding'[d].at = deciding[d].at /\ deciding'[d].basis = deciding[d].basis
      BY <2>3 DEF DeciderNotices, Deciding
    <3>3. ReportsOf(deciding[d].case)' = ReportsOf(c)
      BY <3>1, <3>2 DEF ReportsOf
    <3>4. AllNoticesDelivered(c) => AllNoticesDelivered(deciding[d].case)'
      BY <3>1, <3>2 DEF AllNoticesDelivered, NoticesOf
    <3>5. Current(d)
      BY <1>2, <2>3
    <3> HIDE DEF c
    <3>6. QED
      BY <3>1, <3>2, <3>3, <3>4, <3>5 DEF c
  <2>4. ASSUME DeciderCommit(d) \/ DeciderRefused(d) PROVE Current(d)'
    BY <2>4 DEF DeciderCommit, DeciderRefused, IdleDecider
  <2>5. QED
    BY <1>9, <2>1, <2>2, <2>3, <2>4, <1>4, <1>5 DEF DeciderStep, Decider
<1>10. ASSUME Restart PROVE (\A c \in Case : Stored(c)') /\ (\A d \in Triage : Current(d)')
  BY <1>10, <1>4 DEF Restart, IdleDecider, Decider
<1>11. QED
  BY <1>6, <1>7, <1>8, <1>9, <1>10, Touches

-----------------------------------------------------------------------------
\* The sweep's snapshot stays a set of overdue cases.
LEMMA SnapshotStep == ASSUME Typed, FilingInv, SweepInv, [Next]_vars PROVE SweepInv'
<1>1. StableStep
  BY Stability
<1> USE CaseLifecycleAssumption DEF Typed, TypeOK, SweepInv
<1>2. CASE sweeping' = sweeping
  BY <1>1, <1>2 DEF StableStep
<1>3. CASE SweepStart
  BY <1>3 DEF SweepStart, OverdueCases, caseVars
<1>4. ASSUME NEW c \in Case, SweepDismiss(c) \/ SweepLost(c) PROVE SweepInv'
  <2>1. sweeping'.overdue \subseteq sweeping.overdue /\ sweeping'.at = sweeping.at
    BY <1>4 DEF SweepDismiss, SweepLost
  <2>2. QED
    BY <1>1, <2>1 DEF StableStep
<1>5. CASE Restart
  BY <1>5 DEF Restart, IdleSweep
<1>6. QED
  BY <1>2, <1>3, <1>4, <1>5, Touches DEF SweepStep

\* A step that rules on no case.
Quiet ==
  /\ UNCHANGED <<disposition, ruledBy, credited>>
  /\ \A v \in verdicts' \ verdicts : v.kind = "open-case"
  /\ \A c \in Case : /\ stage'[c] = "decided" <=> stage[c] = "decided"
                     /\ stage'[c] = "open" => stage[c] = "open" \/ IndexFree
  /\ \A c, d \in Case : stage'[c] # stage[c] /\ stage'[d] # stage[d] => c = d
  /\ \A c \in Case : assessment'[c] = assessment[c] \/ stage[c] # "decided"
                     \/ assessment'[c].basis = revision[c]

\* Only a commit or a default dismissal rules on a case: every other step
\* leaves the rulings and what they rest on as they are.
LEMMA RulingSteps == ASSUME Typed, [Next]_vars PROVE
  Quiet \/ (\E d \in Decider : DeciderCommit(d)) \/ (\E c \in Case : SweepDismiss(c))
<1> USE CaseLifecycleAssumption
    DEF Typed, TypeOK, RequestsNamed, Quiet, caseVars, recordVars, requestVars
<1>1. ASSUME NEW f \in Filer, FilerStep(f) PROVE Quiet
  <2>1. CASE JoinRenotice(f)
    <3>1. \A v \in verdicts' \ verdicts : v.kind = "open-case"
      BY <2>1 DEF JoinRenotice, Notice
    <3>2. QED
      BY <2>1, <3>1 DEF JoinRenotice
  <2>2. ASSUME NEW c \in Case, OpenCase(f, c) PROVE Quiet
    <3>1. \A v \in verdicts' \ verdicts : v.kind = "open-case"
      BY <2>2 DEF OpenCase, Notice
    <3>2. QED
      BY <2>2, <3>1 DEF OpenCase
  <2>3. QED
    BY <1>1, <2>1, <2>2 DEF FilerStep, FileLook, FileStore, JoinCheck, JoinAttach,
                            OpenLost, Relook, FileAttach, FileRefused
<1>2. ASSUME NEW c \in Case, Respond(c) PROVE Quiet
  BY <1>2 DEF Respond
<1>3. ASSUME NEW d \in Moderator, ModeratorStep(d) PROVE Quiet
  BY <1>3 DEF ModeratorStep, ModeratorRead
<1>4. ASSUME NEW d \in Triage, TriageStep(d) PROVE Quiet
  <2>1. CASE TriageRecord(d)
    <3>1. PICK c \in Case : c = deciding[d].case
      BY <2>1 DEF TriageRecord, Decider
    <3>2. QED
      BY <2>1, <3>1 DEF TriageRecord
  <2>2. QED
    BY <1>4, <2>1 DEF TriageStep, TriageRead, TriageApply, TriageInvalidate
<1>5. ASSUME NEW d \in Decider, DeciderStep(d), ~DeciderCommit(d) PROVE Quiet
  BY <1>5 DEF DeciderStep, DeciderGather, DeciderNotices, DeciderRefused
<1>6. ASSUME SweepStep, ~\E c \in Case : SweepDismiss(c) PROVE Quiet
  BY <1>6 DEF SweepStep, SweepStart, SweepLost
<1>7. ASSUME NEW v \in verdicts, MarkDelivered(v) PROVE Quiet
  BY <1>7 DEF MarkDelivered
<1>8. CASE Tick \/ Restart
  BY <1>8 DEF Tick, Restart
<1>9. CASE UNCHANGED vars
  BY <1>9 DEF vars
<1>10. QED
  BY <1>1, <1>2, <1>3, <1>4, <1>5, <1>6, <1>7, <1>8, <1>9 DEF Next

\* What a commit writes: ruling v by d, a decider or the sweep, of case c.
Ruled(d, c, ruling, v) ==
  /\ c \in Case /\ ruling \in {"dismiss", "ban", "reverse"} /\ d # None
  /\ IF ruling = "reverse" THEN stage[c] = "decided" /\ disposition[c] = "ban"
                           ELSE stage[c] = "open"
  /\ d \in Triage => ruling # "reverse"
  /\ stage' = [stage EXCEPT ![c] = "decided"]
  /\ disposition' = [disposition EXCEPT ![c] = IF ruling = "reverse" THEN "reversed" ELSE ruling]
  /\ ruledBy' = IF ruling = "reverse" THEN ruledBy ELSE [ruledBy EXCEPT ![c] = d]
  /\ verdicts' = verdicts \cup {v}
  /\ v.case = c /\ v.kind = (IF ruling = "ban" THEN "ban" ELSE "dismiss")
  /\ UNCHANGED <<respDeadline, decDeadline, revision, reportCase, delivered, assessment>>

ByDecider(d, c, ruling, v) ==
  /\ Ruled(d, c, ruling, v)
  /\ d \in Decider
  /\ c = deciding[d].case /\ ruling = deciding[d].ruling /\ deciding[d].pc = "checked"
  /\ v.decidedAt = deciding[d].at
  /\ d \in Triage => revision[c] = deciding[d].basis
  /\ credited' = IF ruling = "reverse" THEN credited
                 ELSE [credited EXCEPT ![c] = deciding[d].reporters]

BySweep(c, v) ==
  /\ Ruled(Sweep, c, "dismiss", v)
  /\ c \in sweeping.overdue
  /\ v.decidedAt = sweeping.at
  /\ credited' = credited

\* What commit_decision leaves behind when a decider rules on its case.
LEMMA Commits == ASSUME Typed, NEW d \in Decider, DeciderCommit(d)
                 PROVE \E c, ruling, v : ByDecider(d, c, ruling, v)
<1>1. PICK c \in Case, ruling \in {"dismiss", "ban", "reverse"} :
        c = deciding[d].case /\ ruling = deciding[d].ruling
  BY DEF DeciderCommit, Typed, TypeOK, RequestsNamed, Deciding
<1>2. d \in Triage => ruling # "reverse"
  BY <1>1, CaseLifecycleAssumption DEF DeciderCommit, Typed, RequestsNamed
<1> DEFINE v == Ruling(c, VerdictKind(ruling), deciding[d].at)
<1>3. /\ v.case = c /\ v.decidedAt = deciding[d].at
      /\ v.kind = (IF ruling = "ban" THEN "ban" ELSE "dismiss")
  BY DEF Ruling, VerdictKind
<1>4. verdicts' = verdicts \cup {v}
  BY <1>1 DEF DeciderCommit
<1> HIDE DEF v
<1>5. d # None
  BY CaseLifecycleAssumption
<1>6. ByDecider(d, c, ruling, v)
  BY <1>1, <1>2, <1>3, <1>4, <1>5
  DEF DeciderCommit, ExpectationHolds, RevisionHolds, ByDecider, Ruled
<1>7. QED
  BY <1>6

\* What the commit of a default dismissal leaves behind.
LEMMA Dismissals == ASSUME Typed, NEW c \in Case, SweepDismiss(c)
                    PROVE \E v : BySweep(c, v)
<1> DEFINE v == Ruling(c, "dismiss", sweeping.at)
<1>1. v.case = c /\ v.kind = "dismiss" /\ v.decidedAt = sweeping.at
  BY DEF Ruling
<1>2. verdicts' = verdicts \cup {v}
  BY DEF SweepDismiss
<1> HIDE DEF v
<1>3. Sweep # None /\ Sweep \notin Triage
  BY CaseLifecycleAssumption DEF Decider
<1>4. BySweep(c, v)
  BY <1>1, <1>2, <1>3 DEF SweepDismiss, ExpectationHolds, BySweep, Ruled
<1>5. QED
  BY <1>4

\* A step rules on no case, or one of the two commits happens.
LEMMA RulingCases == ASSUME Typed, [Next]_vars PROVE
  \/ Quiet
  \/ \E d, c, ruling, v : ByDecider(d, c, ruling, v)
  \/ \E c, v : BySweep(c, v)
  BY RulingSteps, Commits, Dismissals

-----------------------------------------------------------------------------
\* The partial unique index keeps one case open through every step.
LEMMA OneOpenStep == ASSUME Typed, OneOpenCase, [Next]_vars PROVE OneOpenCase'
<1>1. CASE Quiet
  BY <1>1 DEF Quiet, OneOpenCase, IndexFree, Typed, TypeOK
<1>2. ASSUME NEW d, NEW c, NEW ruling, NEW v, Ruled(d, c, ruling, v) PROVE OneOpenCase'
  BY <1>2 DEF Ruled, OneOpenCase, Typed, TypeOK
<1>3. QED
  BY <1>1, <1>2, RulingCases DEF ByDecider, BySweep

\* The case row agrees with the signed rulings.
LEMMA RulingStep ==
  ASSUME Typed, FilingInv, RulingJustified, [Next]_vars PROVE RulingJustified'
<1> DEFINE Agrees(c) ==
      /\ \A v, w \in RulingsOf(c) : v.kind = w.kind => v = w
      /\ stage[c] # "decided" =>
           disposition[c] = "none" /\ RulingsOf(c) = {} /\ ruledBy[c] = None
      /\ stage[c] = "decided" =>
           /\ ruledBy[c] # None
           /\ RulingsOf(c) # {}
           /\ \/ disposition[c] = "dismiss" /\ \A v \in RulingsOf(c) : v.kind = "dismiss"
              \/ disposition[c] = "ban" /\ \A v \in RulingsOf(c) : v.kind = "ban"
              \/ /\ disposition[c] = "reversed"
                 /\ \A v \in RulingsOf(c) : v.kind \in {"ban", "dismiss"}
                 /\ \E v \in RulingsOf(c) : v.kind = "ban"
                 /\ \E v \in RulingsOf(c) : v.kind = "dismiss"
<1>1. ASSUME RulingJustified PROVE \A c \in Case : Agrees(c)
  <2> SUFFICES ASSUME NEW c \in Case PROVE Agrees(c)
    OBVIOUS
  <2> DEFINE kinds == {v.kind : v \in RulingsOf(c)}
  <2>1. /\ kinds = {} => RulingsOf(c) = {}
        /\ \A k : k \in kinds <=> \E v \in RulingsOf(c) : v.kind = k
    OBVIOUS
  <2>2. /\ kinds = {"dismiss"} => RulingsOf(c) # {} /\ \A v \in RulingsOf(c) : v.kind = "dismiss"
        /\ kinds = {"ban"} => RulingsOf(c) # {} /\ \A v \in RulingsOf(c) : v.kind = "ban"
    BY <2>1
  <2>3. kinds = {"ban", "dismiss"} =>
          /\ \A v \in RulingsOf(c) : v.kind \in {"ban", "dismiss"}
          /\ \E v \in RulingsOf(c) : v.kind = "ban"
          /\ \E v \in RulingsOf(c) : v.kind = "dismiss"
    BY <2>1
  <2>4. /\ \A v, w \in RulingsOf(c) : v.kind = w.kind => v = w
        /\ stage[c] # "decided" =>
             disposition[c] = "none" /\ kinds = {} /\ ruledBy[c] = None
        /\ stage[c] = "decided" =>
             /\ ruledBy[c] # None
             /\ \/ disposition[c] = "dismiss"  /\ kinds = {"dismiss"}
                \/ disposition[c] = "ban"      /\ kinds = {"ban"}
                \/ disposition[c] = "reversed" /\ kinds = {"ban", "dismiss"}
    BY <1>1 DEF RulingJustified
  <2> HIDE DEF kinds
  <2>5. QED
    BY <2>1, <2>2, <2>3, <2>4
<1>2. ASSUME \A c \in Case : Agrees(c)' PROVE RulingJustified'
  BY <1>2 DEF RulingJustified
<1>3. SUFFICES ASSUME NEW c \in Case PROVE Agrees(c)'
  BY <1>2
<1>4. Agrees(c)
  BY <1>1
<1>5. ASSUME stage'[c] = "decided" <=> stage[c] = "decided", disposition'[c] = disposition[c],
             ruledBy'[c] = ruledBy[c], RulingsOf(c)' = RulingsOf(c)
      PROVE Agrees(c)'
  BY <1>4, <1>5
<1>6. CASE Quiet
  <2>1. RulingsOf(c)' = RulingsOf(c)
    BY <1>6, Stability DEF StableStep, Quiet, RulingsOf
  <2>2. QED
    BY <1>5, <1>6, <2>1 DEF Quiet
<1>7. ASSUME NEW d, NEW j, NEW ruling, NEW v, Ruled(d, j, ruling, v) PROVE Agrees(c)'
  <2>1. CASE j # c
    <3>1. RulingsOf(c)' = RulingsOf(c)
      BY <1>7, <2>1 DEF RulingsOf, Ruled
    <3>2. QED
      BY <1>5, <1>7, <2>1, <3>1 DEF Ruled, Typed, TypeOK
  <2>2. CASE j = c
    <3>1. RulingsOf(c)' = RulingsOf(c) \cup {v}
      BY <1>7, <2>2 DEF RulingsOf, Ruled
    <3>2. stage'[c] = "decided" /\ disposition'[c] = (IF ruling = "reverse" THEN "reversed" ELSE ruling)
      BY <1>7, <2>2 DEF Ruled, Typed, TypeOK
    <3>3. ruledBy'[c] = IF ruling = "reverse" THEN ruledBy[c] ELSE d
      BY <1>7, <2>2 DEF Ruled, Typed, TypeOK
    <3>4. CASE ruling = "reverse"
      <4>1. disposition[c] = "ban" /\ stage[c] = "decided" /\ v.kind = "dismiss"
        BY <1>7, <2>2, <3>4 DEF Ruled
      <4>2. QED
        BY <1>4, <3>1, <3>2, <3>3, <3>4, <4>1
    <3>5. CASE ruling # "reverse"
      <4>1. stage[c] = "open" /\ v.kind = ruling /\ d # None /\ ruling \in {"dismiss", "ban"}
        BY <1>7, <2>2, <3>5 DEF Ruled
      <4>2. QED
        BY <1>4, <3>1, <3>2, <3>3, <3>5, <4>1
    <3>6. QED
      BY <3>4, <3>5
  <2>3. QED
    BY <2>1, <2>2
<1>8. QED
  BY <1>6, <1>7, RulingCases DEF ByDecider, BySweep

\* A default dismissal is never reversed: only a ban is.
LEMMA DefaultStep ==
  ASSUME Typed, RulingJustified, DefaultInv, [Next]_vars PROVE DefaultInv'
<1>1. CASE Quiet
  BY <1>1 DEF Quiet, DefaultInv
<1>2. ASSUME NEW d, NEW c, NEW ruling, NEW v, ByDecider(d, c, ruling, v) PROVE DefaultInv'
  BY <1>2, CaseLifecycleAssumption DEF ByDecider, Ruled, DefaultInv, Typed, TypeOK
<1>3. ASSUME NEW c, NEW v, BySweep(c, v) PROVE DefaultInv'
  BY <1>3 DEF BySweep, Ruled, DefaultInv, Typed, TypeOK
<1>4. QED
  BY <1>1, <1>2, <1>3, RulingCases

\* Every verdict belongs to a case whose row exists, and a ruling to a
\* decided one.
LEMMA VerdictCase == ASSUME Typed, RecordInv, RulingJustified, NEW v \in verdicts
  PROVE /\ v.case \in Case /\ stage[v.case] # "absent"
        /\ v.kind # "open-case" => stage[v.case] = "decided"
<1>1. v.case \in Case
  BY DEF Typed, TypeOK, Verdict
<1>2. stage[v.case] # "absent"
  BY <1>1 DEF RecordInv
<1>3. ASSUME v.kind # "open-case" PROVE stage[v.case] = "decided"
  BY <1>1, <1>3 DEF RulingJustified, RulingsOf
<1>4. QED
  BY <1>1, <1>2, <1>3

\* No step puts a ruling on the wrong side of the decision deadline.
LEMMA HorizonStep ==
  ASSUME Typed, FilingInv, RecordInv, DecidingInv, SweepInv, RulingJustified, DefaultInv,
         RulingsRespectHorizon, [Next]_vars
  PROVE RulingsRespectHorizon'
<1> DEFINE Timely(v) ==
      /\ v.kind = "ban" => v.decidedAt <= decDeadline[v.case]
      /\ v.kind = "dismiss" /\ ruledBy[v.case] = Sweep => v.decidedAt >= decDeadline[v.case]
<1>1. StableStep
  BY Stability
<1>2. \A v \in verdicts : Timely(v) /\ v.case \in Case /\ decDeadline'[v.case] = decDeadline[v.case]
  BY <1>1, VerdictCase DEF RulingsRespectHorizon, StableStep
<1>3. SUFFICES ASSUME NEW w \in verdicts' PROVE Timely(w)'
  BY DEF RulingsRespectHorizon
<1>4. CASE Quiet
  BY <1>2, <1>4 DEF Quiet
<1>5. ASSUME NEW d, NEW c, NEW ruling, NEW v, ByDecider(d, c, ruling, v) PROVE Timely(w)'
  <2>1. CASE w \in verdicts
    <3>1. ruledBy'[w.case] = Sweep => ruledBy[w.case] = Sweep
      BY <1>2, <1>5, <2>1, CaseLifecycleAssumption DEF ByDecider, Ruled, Typed, TypeOK
    <3>2. QED
      BY <1>2, <2>1, <3>1
  <2>2. CASE w = v
    <3>1. w.case = c /\ w.decidedAt = deciding[d].at /\ w.kind = IF ruling = "ban" THEN "ban" ELSE "dismiss"
      BY <1>5, <2>2 DEF ByDecider, Ruled
    <3>2. ruling = "ban" => deciding[d].at <= decDeadline[c]
      BY <1>5 DEF ByDecider, Ruled, DecidingInv
    <3>3. ruledBy'[c] # Sweep
      <4>1. CASE ruling = "reverse"
        BY <1>5, <4>1 DEF ByDecider, Ruled, DefaultInv
      <4>2. CASE ruling # "reverse"
        BY <1>5, <4>2, CaseLifecycleAssumption DEF ByDecider, Ruled, Typed, TypeOK
      <4>3. QED
        BY <4>1, <4>2
    <3>4. decDeadline' = decDeadline
      BY <1>5 DEF ByDecider, Ruled
    <3>5. QED
      BY <3>1, <3>2, <3>3, <3>4
  <2>3. QED
    BY <1>3, <1>5, <2>1, <2>2 DEF ByDecider, Ruled
<1>6. ASSUME NEW c, NEW v, BySweep(c, v) PROVE Timely(w)'
  <2>1. CASE w \in verdicts
    <3>1. w.kind = "dismiss" => w.case # c
      BY <1>6, <2>1, VerdictCase DEF BySweep, Ruled
    <3>2. QED
      BY <1>2, <1>6, <2>1, <3>1 DEF BySweep, Ruled, Typed, TypeOK
  <2>2. CASE w = v
    <3>1. decDeadline[c] <= sweeping.at /\ sweeping.at \in Nat /\ decDeadline[c] \in Nat
      BY <1>6 DEF BySweep, Ruled, SweepInv, Typed, TypeOK
    <3>2. QED
      BY <1>6, <2>2, <3>1 DEF BySweep, Ruled
  <2>3. QED
    BY <1>3, <1>6, <2>1, <2>2 DEF BySweep, Ruled
<1>7. QED
  BY <1>4, <1>5, <1>6, RulingCases

\* No step issues a ban without a served notice a full window older.
LEMMA ServedStep ==
  ASSUME Typed, FilingInv, DecidingInv, BanAfterAServedWindow, [Next]_vars
  PROVE BanAfterAServedWindow'
<1>1. verdicts \subseteq verdicts' /\ delivered \subseteq delivered'
  BY Stability DEF StableStep
<1>2. SUFFICES ASSUME NEW b \in verdicts', b.kind = "ban"
               PROVE \E v \in NoticesOf(b.case)' :
                       /\ v \in delivered'
                       /\ ~EarlyBanForQA => v.decidedAt + ResponseWindow <= b.decidedAt
  BY DEF BanAfterAServedWindow
<1>3. CASE b \in verdicts
  BY <1>1, <1>2, <1>3 DEF BanAfterAServedWindow, NoticesOf
<1>4. ASSUME NEW d, NEW c, NEW ruling, NEW v, ByDecider(d, c, ruling, v), b = v
      PROVE \E w \in NoticesOf(b.case)' :
              /\ w \in delivered'
              /\ ~EarlyBanForQA => w.decidedAt + ResponseWindow <= b.decidedAt
  <2>1. /\ b.case = c /\ b.decidedAt = deciding[d].at /\ ruling = "ban"
        /\ c = deciding[d].case /\ deciding[d].ruling = "ban" /\ deciding[d].pc = "checked"
        /\ d \in Decider
    BY <1>2, <1>4 DEF ByDecider, Ruled
  <2>2. PICK w \in verdicts :
          /\ w.case = c /\ w.kind = "open-case" /\ w \in delivered
          /\ ~EarlyBanForQA => w.decidedAt + ResponseWindow <= deciding[d].at
    BY <2>1 DEF DecidingInv
  <2>3. QED
    BY <1>1, <2>1, <2>2 DEF NoticesOf
<1>5. ASSUME b \notin verdicts PROVE \E d, c, ruling, v : ByDecider(d, c, ruling, v) /\ b = v
  <2>1. CASE Quiet
    BY <1>2, <1>5, <2>1 DEF Quiet
  <2>2. ASSUME NEW d, NEW c, NEW ruling, NEW v, ByDecider(d, c, ruling, v) PROVE b = v
    BY <1>2, <1>5, <2>2 DEF ByDecider, Ruled
  <2>3. ASSUME NEW c, NEW v, BySweep(c, v) PROVE FALSE
    BY <1>2, <1>5, <2>3 DEF BySweep, Ruled
  <2>4. QED
    BY <2>1, <2>2, <2>3, RulingCases
<1>6. QED
  BY <1>3, <1>4, <1>5

\* What an automated ruling said of the file still holds: a decided case
\* does not change.
LEMMA AutomatedStep ==
  ASSUME Typed, FilingInv, RecordInv, DecidingInv, RevisionInv, RulingJustified,
         AutomatedBanServed, AutomatedRulingReadFile, CreditMatchesFile, [Next]_vars
  PROVE AutomatedBanServed' /\ AutomatedRulingReadFile' /\ CreditMatchesFile'
<1> DEFINE Banned(b) == b.kind = "ban" /\ ruledBy[b.case] \in Triage =>
             AllNoticesDelivered(b.case) /\ b.decidedAt >= respDeadline[b.case]
           Read(c) == ruledBy[c] \in Triage => assessment[c].basis = revision[c]
           Credited(c) ==
             /\ credited[c] \subseteq ReportsOf(c)
             /\ ruledBy[c] \in {None, Sweep} => credited[c] = {}
             /\ ruledBy[c] \in Triage => credited[c] = ReportsOf(c)
<1>1. StableStep
  BY Stability
<1>2. (\A b \in verdicts : Banned(b)) /\ \A c \in Case : Read(c) /\ Credited(c)
  BY DEF AutomatedBanServed, AutomatedRulingReadFile, CreditMatchesFile
<1>3. SUFFICES (\A b \in verdicts' : Banned(b)') /\ \A c \in Case : Read(c)' /\ Credited(c)'
  BY DEF AutomatedBanServed, AutomatedRulingReadFile, CreditMatchesFile
<1>4. None \notin Triage /\ Sweep \notin Triage /\ Triage \subseteq Decider
  BY CaseLifecycleAssumption DEF Decider
<1>5. \A c \in Case : stage[c] = "decided" =>
        /\ revision'[c] = revision[c] /\ respDeadline'[c] = respDeadline[c]
        /\ ReportsOf(c)' = ReportsOf(c)
        /\ AllNoticesDelivered(c) => AllNoticesDelivered(c)'
  BY <1>1 DEF StableStep, AllNoticesDelivered
<1>6. \A c \in Case : ruledBy[c] # None => stage[c] = "decided"
  BY DEF RulingJustified, Typed, TypeOK
<1>7. \A c \in Case : ReportsOf(c) \subseteq ReportsOf(c)'
  BY <1>1, CaseLifecycleAssumption DEF StableStep, ReportsOf
<1>8. ASSUME NEW c \in Case, ruledBy'[c] = ruledBy[c], credited'[c] = credited[c],
             \/ assessment'[c] = assessment[c] \/ stage[c] # "decided"
             \/ assessment'[c].basis = revision[c]
      PROVE Read(c)' /\ Credited(c)'
  <2>1. Read(c) /\ Credited(c)
    BY <1>2
  <2>2. ruledBy[c] \in Triage => stage[c] = "decided"
    BY <1>4, <1>6
  <2>3. QED
    BY <1>5, <1>7, <1>8, <2>1, <2>2
<1>9. ASSUME NEW b \in verdicts, ruledBy'[b.case] = ruledBy[b.case] PROVE Banned(b)'
  <2>1. b.case \in Case /\ (b.kind = "ban" => stage[b.case] = "decided")
    BY VerdictCase
  <2>2. QED
    BY <1>2, <1>5, <1>9, <2>1
<1>10. CASE Quiet
  <2>1. \A b \in verdicts' : Banned(b)'
    BY <1>9, <1>10 DEF Quiet
  <2>2. \A c \in Case : Read(c)' /\ Credited(c)'
    BY <1>8, <1>10 DEF Quiet
  <2>3. QED
    BY <2>1, <2>2
<1>11. ASSUME NEW d, NEW c, NEW ruling, NEW v, ByDecider(d, c, ruling, v)
       PROVE (\A b \in verdicts' : Banned(b)') /\ \A e \in Case : Read(e)' /\ Credited(e)'
  <2>1. /\ c \in Case /\ d \in Decider /\ c = deciding[d].case /\ deciding[d].pc = "checked"
        /\ assessment' = assessment
    BY <1>11 DEF ByDecider, Ruled
  <2>2. \A e \in Case : e # c => ruledBy'[e] = ruledBy[e] /\ credited'[e] = credited[e]
    BY <1>11 DEF ByDecider, Ruled, Typed, TypeOK
  <2>3. CASE ruling = "reverse"
    <3>1. ruledBy' = ruledBy /\ credited' = credited /\ v.kind = "dismiss" /\ verdicts' = verdicts \cup {v}
      BY <1>11, <2>3 DEF ByDecider, Ruled
    <3>2. QED
      BY <1>8, <1>9, <2>1, <3>1
  <2>4. CASE ruling # "reverse"
    <3>1. /\ ruledBy'[c] = d /\ credited'[c] = deciding[d].reporters
          /\ verdicts' = verdicts \cup {v} /\ v.case = c /\ v.decidedAt = deciding[d].at
          /\ v.kind = "ban" => deciding[d].ruling = "ban"
          /\ stage[c] = "open"
          /\ UNCHANGED <<revision, respDeadline, reportCase, delivered>>
      BY <1>11, <2>4 DEF ByDecider, Ruled, Typed, TypeOK
    <3>2. ReportsOf(c)' = ReportsOf(c)
      BY <3>1 DEF ReportsOf
    <3>3. deciding[d].reporters \subseteq ReportsOf(c)
      BY <2>1 DEF DecidingInv
    <3>4. ASSUME d \in Triage
          PROVE /\ assessment[c].basis = revision[c]
                /\ deciding[d].reporters = ReportsOf(c)
                /\ deciding[d].ruling = "ban" =>
                     deciding[d].at >= respDeadline[c] /\ AllNoticesDelivered(c)
      BY <1>11, <2>1, <3>4 DEF ByDecider, RevisionInv
    <3>5. d # None /\ d # Sweep
      BY <2>1, CaseLifecycleAssumption
    <3>6. v.kind # "open-case"
      BY <1>11 DEF ByDecider, Ruled
    <3>7. AllNoticesDelivered(c) => AllNoticesDelivered(c)'
      BY <3>1, <3>6 DEF AllNoticesDelivered, NoticesOf
    <3>8. Read(c)' /\ Credited(c)'
      BY <2>1, <3>1, <3>2, <3>3, <3>4, <3>5
    <3>9. Banned(v)'
      BY <3>1, <3>4, <3>7
    <3>10. \A b \in verdicts : b.case = c => b.kind # "ban"
      BY <3>1, VerdictCase
    <3>11. \A b \in verdicts : Banned(b)'
      BY <1>9, <2>2, <3>10, VerdictCase
    <3>12. QED
      BY <1>8, <2>1, <2>2, <3>1, <3>8, <3>9, <3>11
  <2>5. QED
    BY <2>3, <2>4
<1>12. ASSUME NEW c, NEW v, BySweep(c, v)
       PROVE (\A b \in verdicts' : Banned(b)') /\ \A e \in Case : Read(e)' /\ Credited(e)'
  <2>1. /\ c \in Case /\ stage[c] = "open" /\ ruledBy'[c] = Sweep /\ credited' = credited
        /\ verdicts' = verdicts \cup {v} /\ v.kind = "dismiss" /\ assessment' = assessment
        /\ \A e \in Case : e # c => ruledBy'[e] = ruledBy[e]
    BY <1>12 DEF BySweep, Ruled, Typed, TypeOK
  <2>2. Read(c)' /\ Credited(c)'
    <3>1. ruledBy[c] = None
      BY <2>1, <1>6
    <3>2. credited[c] = {}
      BY <1>2, <2>1, <3>1
    <3>3. QED
      BY <1>4, <2>1, <3>2
  <2>3. \A b \in verdicts' : Banned(b)'
    BY <1>4, <1>9, <2>1, VerdictCase
  <2>4. QED
    BY <1>8, <2>1, <2>2, <2>3
<1>13. QED
  BY <1>10, <1>11, <1>12, RulingCases

-----------------------------------------------------------------------------
\* The inductive invariant holds of every behaviour.
THEOREM Inductive == Spec => []IInv
<1>1. Init => IInv
  <2> SUFFICES ASSUME Init PROVE IInv
    OBVIOUS
  <2> USE CaseLifecycleAssumption DEF Init
  <2>1. Typed
    BY DEF Typed, TypeOK, RequestsNamed, Filing, IdleFiling, Deciding, IdleDecider,
           IdleSweep, Decider
  <2>2. FilingInv /\ RecordInv /\ DecidingInv /\ SweepInv /\ OneOpenCase
    BY DEF FilingInv, RecordInv, DecidingInv, SweepInv, OneOpenCase, IdleFiling,
           IdleDecider, IdleSweep
  <2>3. RevisionInv
    BY DEF RevisionInv, IdleDecider, Decider
  <2>4. RulingJustified /\ DefaultInv
    BY DEF RulingJustified, RulingsOf, DefaultInv
  <2>5. /\ RulingsRespectHorizon /\ BanAfterAServedWindow /\ AutomatedBanServed
        /\ AutomatedRulingReadFile /\ CreditMatchesFile
    BY DEF RulingsRespectHorizon, BanAfterAServedWindow, AutomatedBanServed,
           AutomatedRulingReadFile, CreditMatchesFile, Decider
  <2>6. QED
    BY <2>1, <2>2, <2>3, <2>4, <2>5 DEF IInv
<1>2. IInv /\ [Next]_vars => IInv'
  BY TypingStep, FilingStep, RecordStep, DecidingStep, RevisionStep, SnapshotStep,
     OneOpenStep, RulingStep, DefaultStep, HorizonStep, ServedStep, AutomatedStep DEF IInv
<1>3. QED
  BY <1>1, <1>2, PTL DEF Spec

\* No report is held against an accused who was not told of its evidence.
THEOREM Notified == Spec => []NoticeForEveryAllegation
<1>1. IInv => NoticeForEveryAllegation
  BY DEF IInv, RecordInv, NoticeForEveryAllegation, NoticesOf
<1>2. QED
  BY <1>1, Inductive, PTL

\* The case row and the signed rulings never disagree.
THEOREM Rulings == Spec => []RulingJustified
<1>1. IInv => RulingJustified
  BY DEF IInv
<1>2. QED
  BY <1>1, Inductive, PTL

\* A default dismissal is never early, a ban never late.
THEOREM Horizons == Spec => []RulingsRespectHorizon
<1>1. IInv => RulingsRespectHorizon
  BY DEF IInv
<1>2. QED
  BY <1>1, Inductive, PTL

\* No sanction before notice: every ban follows a served notice by a full
\* response window.
THEOREM NoSanctionBeforeNotice == Spec => []BanAfterAServedWindow
<1>1. IInv => BanAfterAServedWindow
  BY DEF IInv
<1>2. QED
  BY <1>1, Inductive, PTL

\* An automated ruling is on the whole file, credits all of it, and bans
\* only over served notices.
THEOREM AutomatedOnTheWholeFile == Spec => []AutomatedRulingsSound
<1>1. IInv => AutomatedRulingsSound
  BY DEF IInv, AutomatedRulingsSound
<1>2. QED
  BY <1>1, Inductive, PTL

-----------------------------------------------------------------------------
\* The limit on notices.  A signed notice and the event that records its
\* evidence are written together, and new evidence only while there is room.
CountInv ==
  \A c \in Case :
    /\ IsFiniteSet(noticed[c]) /\ Cardinality(noticed[c]) <= MaxNotices
    /\ IsFiniteSet(NoticesOf(c))
    /\ Cardinality(NoticesOf(c)) <= Cardinality(noticed[c])

\* What any step does to the notices of a case.
NoticeAdded(c, e, v) ==
  /\ c \in Case
  /\ noticed' = [noticed EXCEPT ![c] = @ \cup {e}]
  /\ NoticesOf(c)' = NoticesOf(c) \cup {v}
  /\ \A d \in Case : d # c => NoticesOf(d)' = NoticesOf(d)
  /\ e \notin noticed[c]
  /\ Cardinality(noticed[c]) < MaxNotices

LEMMA NoticeSteps == ASSUME Typed, RecordInv, [Next]_vars PROVE
  \/ UNCHANGED noticed /\ \A c \in Case : NoticesOf(c)' = NoticesOf(c)
  \/ \E c, e, v : NoticeAdded(c, e, v)
<1> DEFINE Kept == UNCHANGED noticed /\ \A c \in Case : NoticesOf(c)' = NoticesOf(c)
           Goal == Kept \/ \E c, e, v : NoticeAdded(c, e, v)
<1> USE DEF caseVars, recordVars, requestVars
<1>1. ASSUME UNCHANGED <<noticed, verdicts>> PROVE Goal
  BY <1>1 DEF NoticesOf
<1>2. ASSUME NEW c, NEW kind \in {"ban", "dismiss"}, NEW at, UNCHANGED noticed,
             verdicts' = verdicts \cup {Ruling(c, kind, at)}
      PROVE Goal
  BY <1>2 DEF NoticesOf, Ruling
<1>3. ASSUME NEW f \in Filer, FilerStep(f) PROVE Goal
  <2>1. CASE JoinRenotice(f)
    <3>1. PICK c \in Case, r \in Report : c = filing[f].joins /\ r = filing[f].report
      BY <2>1 DEF JoinRenotice, Typed, RequestsNamed
    <3> DEFINE e == EvidenceOf[r]
               v == Notice(c, e, filing[f].at)
    <3>2. /\ noticed' = [noticed EXCEPT ![c] = @ \cup {e}]
          /\ verdicts' = verdicts \cup {v}
          /\ e \notin noticed[c] /\ Cardinality(noticed[c]) < MaxNotices
      BY <2>1, <3>1 DEF JoinRenotice, NoticeRoom, AlreadyNoticed
    <3>3. v.case = c /\ v.kind = "open-case"
      BY DEF Notice
    <3> HIDE DEF e, v
    <3>4. NoticeAdded(c, e, v)
      BY <3>1, <3>2, <3>3 DEF NoticeAdded, NoticesOf
    <3>5. QED
      BY <3>4
  <2>2. ASSUME NEW c \in Case, OpenCase(f, c) PROVE Goal
    <3> DEFINE e == EvidenceOf[filing[f].report]
               v == Notice(c, e, filing[f].at)
    <3>1. /\ noticed' = [noticed EXCEPT ![c] = {e}]
          /\ verdicts' = verdicts \cup {v} /\ stage[c] = "absent"
      BY <2>2 DEF OpenCase
    <3>2. v.case = c /\ v.kind = "open-case"
      BY DEF Notice
    <3> HIDE DEF e, v
    <3>3. noticed[c] = {} /\ noticed' = [noticed EXCEPT ![c] = @ \cup {e}]
      <4>1. noticed[c] = {}
        BY <3>1 DEF RecordInv
      <4>2. noticed[c] \cup {e} = {e}
        BY <4>1
      <4>3. QED
        BY <3>1, <4>1, <4>2
    <3>4. Cardinality(noticed[c]) < MaxNotices
      BY <3>3, FS_EmptySet, CaseLifecycleAssumption
    <3>5. NoticeAdded(c, e, v)
      BY <3>1, <3>2, <3>3, <3>4 DEF NoticeAdded, NoticesOf
    <3>6. QED
      BY <3>5
  <2>3. QED
    BY <1>1, <1>3, <2>1, <2>2
    DEF FilerStep, FileLook, FileStore, JoinCheck, JoinAttach, OpenLost, Relook,
        FileAttach, FileRefused
<1>4. ASSUME NEW d \in Decider, DeciderStep(d) PROVE Goal
  <2>1. CASE DeciderCommit(d)
    BY <1>2, <2>1 DEF DeciderCommit, VerdictKind
  <2>2. QED
    BY <1>1, <1>4, <2>1 DEF DeciderStep, DeciderGather, DeciderNotices, DeciderRefused
<1>5. ASSUME SweepStep PROVE Goal
  <2>1. ASSUME NEW c \in Case, SweepDismiss(c) PROVE Goal
    BY <1>2, <2>1 DEF SweepDismiss
  <2>2. QED
    BY <1>1, <1>5, <2>1 DEF SweepStep, SweepStart, SweepLost
<1>6. ASSUME NEW d \in Triage, TriageStep(d) PROVE Goal
  BY <1>1, <1>6 DEF TriageStep, TriageRead, TriageRecord, TriageApply, TriageInvalidate
<1>7. ASSUME NEW d \in Moderator, ModeratorStep(d) PROVE Goal
  BY <1>1, <1>7 DEF ModeratorStep, ModeratorRead
<1>8. ASSUME NEW c \in Case, Respond(c) PROVE Goal
  BY <1>1, <1>8 DEF Respond
<1>9. ASSUME NEW v \in verdicts, MarkDelivered(v) PROVE Goal
  BY <1>1, <1>9 DEF MarkDelivered
<1>10. CASE Tick \/ Restart \/ UNCHANGED vars
  BY <1>1, <1>10 DEF Tick, Restart, vars
<1>11. QED
  BY <1>3, <1>4, <1>5, <1>6, <1>7, <1>8, <1>9, <1>10 DEF Next

LEMMA CountStep == ASSUME Typed, RecordInv, CountInv, [Next]_vars PROVE CountInv'
<1> DEFINE Counted(c) ==
      /\ IsFiniteSet(noticed[c]) /\ Cardinality(noticed[c]) <= MaxNotices
      /\ IsFiniteSet(NoticesOf(c))
      /\ Cardinality(NoticesOf(c)) <= Cardinality(noticed[c])
<1>1. \A c \in Case : Counted(c)
  BY DEF CountInv
<1>2. SUFFICES ASSUME NEW c \in Case PROVE Counted(c)'
  BY DEF CountInv
<1>3. ASSUME noticed'[c] = noticed[c], NoticesOf(c)' = NoticesOf(c) PROVE Counted(c)'
  BY <1>1, <1>3
<1>4. ASSUME NEW j, NEW e, NEW v, NoticeAdded(j, e, v) PROVE Counted(c)'
  <2>1. CASE c # j
    BY <1>3, <1>4, <2>1 DEF NoticeAdded, Typed, TypeOK
  <2>2. CASE c = j
    <3> DEFINE old == noticed[c]
               served == NoticesOf(c)
    <3>1. noticed'[c] = old \cup {e} /\ e \notin old /\ Cardinality(old) < MaxNotices
      BY <1>4, <2>2 DEF NoticeAdded, Typed, TypeOK
    <3>2. NoticesOf(c)' = served \cup {v}
      BY <1>4, <2>2 DEF NoticeAdded
    <3>3. /\ IsFiniteSet(old) /\ IsFiniteSet(served)
          /\ Cardinality(served) <= Cardinality(old)
      BY <1>1
    <3> HIDE DEF old, served
    <3>4. /\ IsFiniteSet(old \cup {e}) /\ Cardinality(old \cup {e}) = Cardinality(old) + 1
          /\ IsFiniteSet(served \cup {v})
          /\ Cardinality(served \cup {v}) \in {Cardinality(served), Cardinality(served) + 1}
      BY <3>1, <3>3, FS_AddElement
    <3>5. Cardinality(old) \in Nat /\ Cardinality(served) \in Nat
      BY <3>3, FS_CardinalityType
    <3>6. /\ Cardinality(old \cup {e}) <= MaxNotices
          /\ Cardinality(served \cup {v}) <= Cardinality(old \cup {e})
      BY <3>1, <3>3, <3>4, <3>5, CaseLifecycleAssumption
    <3>7. QED
      BY <3>1, <3>2, <3>4, <3>6
  <2>3. QED
    BY <2>1, <2>2
<1>5. QED
  BY <1>3, <1>4, NoticeSteps

\* Concurrent joins never carry a case past its notice limit.
THEOREM Limited == Spec => []NoticesBounded
<1>1. Init => CountInv
  <2>1. Init => \A c \in Case : noticed[c] = {} /\ NoticesOf(c) = {}
    BY DEF Init, NoticesOf
  <2>2. QED
    BY <2>1, FS_EmptySet, CaseLifecycleAssumption DEF CountInv
<1>2. IInv /\ CountInv /\ [Next]_vars => CountInv'
  BY CountStep DEF IInv
<1>3. CountInv => NoticesBounded
  <2>1. ASSUME CountInv, NEW c \in Case PROVE Cardinality(NoticesOf(c)) <= MaxNotices
    <3>1. Cardinality(NoticesOf(c)) \in Nat /\ Cardinality(noticed[c]) \in Nat
      BY <2>1, FS_CardinalityType DEF CountInv
    <3>2. QED
      BY <2>1, <3>1, CaseLifecycleAssumption DEF CountInv
  <2>2. QED
    BY <2>1 DEF NoticesBounded
<1>4. QED
  BY <1>1, <1>2, <1>3, Inductive, PTL DEF Spec

-----------------------------------------------------------------------------
\* The phase of a case is read off its row.
LEMMA Phases == ASSUME IInv PROVE
  \A c \in Case :
    /\ stage[c] \in {"absent", "open"} => PhaseOf[c] = stage[c]
    /\ stage[c] = "decided" =>
         /\ disposition[c] = "dismiss" => PhaseOf[c] = "dismissed"
         /\ disposition[c] = "ban" => PhaseOf[c] = "banned"
         /\ disposition[c] = "reversed" => PhaseOf[c] = "reversed"
  BY DEF PhaseOf

\* The steps that change a case as the contract sees it.
Attached(c, r) ==
  /\ c \in Case /\ r \in Report /\ reportCase[r] = None
  /\ reportCase' = [reportCase EXCEPT ![r] = c]
  /\ UNCHANGED disposition

\* What any step does to the file of a case: nothing, or one more report in
\* an open case (FileAttach repeats the attachment the transaction made).
LEMMA FileSteps == ASSUME Typed, FilingInv, [Next]_vars PROVE
  \/ UNCHANGED <<stage, disposition, reportCase>>
  \/ \E c, r : Attached(c, r) /\ stage[c] = "open" /\ UNCHANGED stage
  \/ \E c, r : /\ Attached(c, r) /\ stage[c] = "absent" /\ IndexFree
               /\ stage' = [stage EXCEPT ![c] = "open"]
  \/ \E d, c, ruling, v : Ruled(d, c, ruling, v)
<1> DEFINE Goal ==
      \/ UNCHANGED <<stage, disposition, reportCase>>
      \/ \E c, r : Attached(c, r) /\ stage[c] = "open" /\ UNCHANGED stage
      \/ \E c, r : /\ Attached(c, r) /\ stage[c] = "absent" /\ IndexFree
                   /\ stage' = [stage EXCEPT ![c] = "open"]
      \/ \E d, c, ruling, v : Ruled(d, c, ruling, v)
<1> USE DEF caseVars, recordVars, requestVars
<1>1. ASSUME NEW f \in Filer, FilerStep(f) PROVE Goal
  <2>1. ASSUME JoinAttach(f) \/ JoinRenotice(f) PROVE Goal
    <3>1. PICK c \in Case, r \in Report : c = filing[f].joins /\ r = filing[f].report
      BY <2>1 DEF JoinAttach, JoinRenotice, Typed, RequestsNamed
    <3>2. Attached(c, r) /\ stage[c] = "open" /\ UNCHANGED stage
      BY <2>1, <3>1 DEF JoinAttach, JoinRenotice, StillJoinable, Unattached, Attached
    <3>3. QED
      BY <3>2
  <2>2. ASSUME NEW c \in Case, OpenCase(f, c) PROVE Goal
    <3>1. PICK r \in Report : r = filing[f].report
      BY <2>2 DEF OpenCase, Typed, RequestsNamed
    <3>2. /\ Attached(c, r) /\ stage[c] = "absent" /\ IndexFree
          /\ stage' = [stage EXCEPT ![c] = "open"]
      BY <2>2, <3>1 DEF OpenCase, Unattached, Attached
    <3>3. QED
      BY <3>2
  <2>3. ASSUME FileAttach(f) PROVE Goal
    BY <2>3 DEF FileAttach, FilingInv, Typed, TypeOK
  <2>4. QED
    BY <1>1, <2>1, <2>2, <2>3 DEF FilerStep, FileLook, FileStore, JoinCheck, OpenLost,
                                  Relook, FileRefused
<1>2. ASSUME NEW c \in Case, Respond(c) PROVE Goal
  BY <1>2 DEF Respond
<1>3. ASSUME NEW d \in Moderator, ModeratorStep(d) PROVE Goal
  BY <1>3 DEF ModeratorStep, ModeratorRead
<1>4. ASSUME NEW d \in Triage, TriageStep(d) PROVE Goal
  BY <1>4 DEF TriageStep, TriageRead, TriageRecord, TriageApply, TriageInvalidate
<1>5. ASSUME NEW d \in Decider, DeciderStep(d) PROVE Goal
  <2>1. CASE DeciderCommit(d)
    BY <2>1, Commits DEF ByDecider
  <2>2. CASE ~DeciderCommit(d)
    BY <1>5, <2>2 DEF DeciderStep, DeciderGather, DeciderNotices, DeciderRefused
  <2>3. QED
    BY <2>1, <2>2
<1>6. ASSUME SweepStep PROVE Goal
  <2>1. ASSUME NEW c \in Case, SweepDismiss(c) PROVE Goal
    BY <2>1, Dismissals DEF BySweep
  <2>2. QED
    BY <1>6, <2>1 DEF SweepStep, SweepStart, SweepLost
<1>7. ASSUME NEW v \in verdicts, MarkDelivered(v) PROVE Goal
  BY <1>7 DEF MarkDelivered
<1>8. CASE Tick \/ Restart
  BY <1>8 DEF Tick, Restart
<1>9. CASE UNCHANGED vars
  BY <1>9 DEF vars
<1>10. QED
  BY <1>1, <1>2, <1>3, <1>4, <1>5, <1>6, <1>7, <1>8, <1>9 DEF Next

\* The lifecycle implements the contract.
THEOREM Implements == Spec => ImplementsContract
<1>1. Init => Contract!ContractInit
  BY CaseLifecycleAssumption DEF Init, Contract!ContractInit, PhaseOf, FileOf, ReportsOf
<1>2. IInv /\ IInv' /\ [Next]_vars => [Contract!ContractNext]_(Contract!contractVars)
  <2> SUFFICES ASSUME IInv, IInv', [Next]_vars
               PROVE Contract!ContractNext \/ UNCHANGED <<PhaseOf, FileOf>>
    BY DEF Contract!contractVars
  <2>1. Typed /\ FilingInv /\ TypeOK /\ TypeOK'
    BY DEF IInv, Typed
  <2>2. PhaseOf = [c \in Case |-> PhaseOf[c]] /\ PhaseOf' = [c \in Case |-> PhaseOf'[c]]
    BY DEF PhaseOf
  <2>3. \A c \in Case : stage'[c] = stage[c] /\ disposition'[c] = disposition[c] =>
          PhaseOf'[c] = PhaseOf[c]
    BY DEF PhaseOf
  <2>4. \A c \in Case : FileOf[c] = ReportsOf(c) /\ FileOf'[c] = ReportsOf(c)'
    BY DEF FileOf
  <2>5. FileOf = [c \in Case |-> FileOf[c]] /\ FileOf' = [c \in Case |-> FileOf'[c]]
    BY DEF FileOf
  <2>6. ASSUME UNCHANGED <<stage, disposition, reportCase>>
        PROVE UNCHANGED <<PhaseOf, FileOf>>
    BY <2>6 DEF PhaseOf, FileOf, ReportsOf
  <2>7. ASSUME NEW c, NEW r, Attached(c, r)
        PROVE /\ Contract!Unfiled(r)
              /\ FileOf' = [FileOf EXCEPT ![c] = @ \cup {r}]
    <3>1. \A e \in Case : ReportsOf(e)' = IF e = c THEN ReportsOf(e) \cup {r} ELSE ReportsOf(e)
      BY <2>1, <2>7, CaseLifecycleAssumption DEF Attached, ReportsOf, TypeOK
    <3>2. Contract!Unfiled(r)
      BY <2>4, <2>7, CaseLifecycleAssumption DEF Attached, ReportsOf, Contract!Unfiled
    <3>3. QED
      BY <2>4, <2>5, <2>7, <3>1, <3>2 DEF Attached
  <2>8. ASSUME NEW c, NEW r, Attached(c, r), stage[c] = "open", UNCHANGED stage
        PROVE Contract!ContractNext
    <3>1. c \in Case /\ r \in Report
      BY <2>8 DEF Attached
    <3>2. PhaseOf[c] = "open"
      BY <2>8, <3>1, Phases
    <3>3. PhaseOf' = PhaseOf
      BY <2>8 DEF Attached, PhaseOf
    <3>4. Contract!Join(c, r)
      BY <2>7, <2>8, <3>2, <3>3 DEF Contract!Join
    <3>5. QED
      BY <3>1, <3>4 DEF Contract!ContractNext
  <2>9. ASSUME NEW c, NEW r, Attached(c, r), stage[c] = "absent", IndexFree,
               stage' = [stage EXCEPT ![c] = "open"]
        PROVE Contract!ContractNext
    <3>1. c \in Case /\ r \in Report
      BY <2>9 DEF Attached
    <3>2. PhaseOf[c] = "absent" /\ \A e \in Case : PhaseOf[e] # "open"
      BY <2>1, <2>9, <3>1 DEF PhaseOf, IndexFree, TypeOK
    <3>3. PhaseOf' = [PhaseOf EXCEPT ![c] = "open"]
      <4>1. PhaseOf'[c] = "open"
        BY <2>1, <2>9, <3>1 DEF PhaseOf, TypeOK
      <4>2. \A e \in Case : e # c => PhaseOf'[e] = PhaseOf[e]
        BY <2>1, <2>3, <2>9, <3>1 DEF Attached, TypeOK
      <4>3. QED
        BY <2>2, <3>1, <4>1, <4>2
    <3>4. ReportsOf(c) = {}
      BY <2>9, <3>1 DEF IInv, RecordInv, ReportsOf
    <3>5. FileOf' = [FileOf EXCEPT ![c] = {r}]
      BY <2>4, <2>7, <2>9, <3>1, <3>4
    <3>6. Contract!Open(c, r)
      BY <2>7, <2>9, <3>2, <3>3, <3>5 DEF Contract!Open
    <3>7. QED
      BY <3>1, <3>6 DEF Contract!ContractNext
  <2>10. ASSUME NEW d, NEW c, NEW ruling, NEW v, Ruled(d, c, ruling, v)
         PROVE Contract!ContractNext
    <3>1. c \in Case /\ FileOf' = FileOf
      BY <2>10 DEF Ruled, FileOf, ReportsOf
    <3>2. stage'[c] = "decided" /\ disposition'[c] = IF ruling = "reverse" THEN "reversed" ELSE ruling
      BY <2>1, <2>10 DEF Ruled, TypeOK
    <3>3. \A e \in Case : e # c => PhaseOf'[e] = PhaseOf[e]
      BY <2>1, <2>3, <2>10, <3>1 DEF Ruled, TypeOK
    <3>4. CASE ruling = "reverse"
      <4>1. PhaseOf[c] = "banned"
        BY <2>10, <3>1, <3>4, Phases DEF Ruled
      <4>2. PhaseOf'[c] = "reversed"
        BY <3>1, <3>2, <3>4 DEF PhaseOf
      <4>3. PhaseOf' = [PhaseOf EXCEPT ![c] = "reversed"]
        BY <2>2, <3>1, <3>3, <4>2
      <4>4. Contract!Reverse(c)
        BY <3>1, <4>1, <4>3 DEF Contract!Reverse
      <4>5. QED
        BY <3>1, <4>4 DEF Contract!ContractNext
    <3>5. CASE ruling # "reverse"
      <4>1. PhaseOf[c] = "open" /\ ruling \in {"dismiss", "ban"}
        BY <2>10, <3>1, <3>5, Phases DEF Ruled
      <4>2. PhaseOf'[c] \in {"dismissed", "banned"}
        BY <3>1, <3>2, <3>5, <4>1 DEF PhaseOf
      <4>3. PhaseOf' = [PhaseOf EXCEPT ![c] = PhaseOf'[c]]
        BY <2>2, <3>1, <3>3
      <4>4. Contract!Rule(c)
        BY <3>1, <4>1, <4>2, <4>3 DEF Contract!Rule
      <4>5. QED
        BY <3>1, <4>4 DEF Contract!ContractNext
    <3>6. QED
      BY <3>4, <3>5
  <2>11. QED
    BY <2>1, <2>6, <2>8, <2>9, <2>10, FileSteps
<1>3. QED
  BY <1>1, <1>2, Inductive, PTL DEF Spec, ImplementsContract, Contract!ContractSpec
=============================================================================
