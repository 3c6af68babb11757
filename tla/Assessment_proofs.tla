-------------------------- MODULE Assessment_proofs -------------------------
(***************************************************************************)
(* Theorems of Assessment for every value of its constants.                *)
(***************************************************************************)
EXTENDS Assessment, FiniteSetTheorems, TLAPS

-----------------------------------------------------------------------------
(* What a model's output means.                                            *)

LEMMA Rounded ==
  ASSUME NEW score \in Nat
  PROVE  /\ Round(score) \in Nat
         /\ Round(score) <= score + Half
         /\ score < Round(score) + Half
<1> DEFINE unit == 2 * Half
           q == (score + Half) \div unit
<1>1. unit \in Nat \ {0} /\ Half \in Nat
  BY ProfilesAssumption
<1>2. q \in Nat /\ q * unit <= score + Half /\ score + Half < q * unit + unit
  BY <1>1, SMT
<1>3. Round(score) = q * unit
  BY DEF Round
<1>4. QED
  BY <1>1, <1>2, <1>3

\* Whatever adapter reads it, an output decides only as the terms document.
LEMMA Readable ==
  ASSUME NEW p \in Profile, NEW class \in Class, NEW o \in ModelOutput,
         Evaluate(p, class, o) # "no-decision"
  PROVE  Means(p, class, Evaluate(p, class, o), o)
<1> DEFINE a == p.adapter
<1>1. a \in Adapter /\ o \in ModelOutput
  BY ProfilesAssumption DEF ModelProfile
<1>2. CASE a.kind = "score"
  <2>1. a.banAt \in Nat /\ a.dismissAt \in Nat /\ a.rejectExtra \in BOOLEAN
    BY <1>1, <1>2 DEF Adapter
  <2>2. Evaluate(p, class, o) = EvaluateScore(a, o)
    BY <1>2 DEF Evaluate
  <2>3. o.score \in Nat /\ o.score # None /\ (o.extra => ~a.rejectExtra)
    BY <1>1, <2>2 DEF EvaluateScore, ModelOutput
  <2>4. CASE Round(o.score) >= a.banAt
    <3>1. Evaluate(p, class, o) = "ban"
      BY <2>2, <2>3, <2>4, ProfilesAssumption DEF EvaluateScore, ModelOutput
    <3>2. o.score + Half >= a.banAt
      BY <2>1, <2>3, <2>4, Rounded, ProfilesAssumption
    <3>3. QED
      BY <1>2, <2>3, <3>1, <3>2, ProfilesAssumption DEF Means
  <2>5. CASE ~(Round(o.score) >= a.banAt)
    <3>1. Evaluate(p, class, o) = "dismiss" /\ Round(o.score) <= a.dismissAt
      BY <2>2, <2>3, <2>5, ProfilesAssumption DEF EvaluateScore, ModelOutput
    <3>2. o.score < a.dismissAt + Half
      BY <2>1, <2>3, <3>1, Rounded, ProfilesAssumption
    <3>3. QED
      BY <1>2, <2>3, <3>1, <3>2, ProfilesAssumption DEF Means
  <2>6. QED
    BY <2>4, <2>5
<1>3. CASE a.kind = "line"
  <2>1. Evaluate(p, class, o) = EvaluateLine(a, o)
    BY <1>3 DEF Evaluate
  <2>2. QED
    BY <1>3, <2>1 DEF EvaluateLine, Means
<1>4. CASE a.kind = "taxonomy"
  <2>1. Evaluate(p, class, o) = EvaluateTaxonomy(a, class, o)
    BY <1>4 DEF Evaluate
  <2>2. o.verdicts \in Seq(Label) /\ o.categories \in Seq(SUBSET Code)
    BY DEF ModelOutput
  <2>3. Fields(o)
    BY <2>1 DEF EvaluateTaxonomy
  <2>4. o.verdicts = <<o.verdicts[1]>> /\ o.categories = <<Codes(o)>> /\ Codes(o) \subseteq Code
    BY <2>2, <2>3 DEF Fields, Codes
  <2>5. a.known # {} => Codes(o) \subseteq a.known
    BY <2>1 DEF EvaluateTaxonomy
  <2>6. CASE o.verdicts[1] = a.unsafe /\ a.required[class] \in Codes(o)
    <3>1. Evaluate(p, class, o) = "ban"
      BY <2>1, <2>3, <2>6 DEF EvaluateTaxonomy
    <3>2. Codes(o) \in SUBSET (IF a.known = {} THEN Code ELSE a.known)
      BY <2>4, <2>5
    <3>3. QED
      BY <1>4, <2>4, <2>6, <3>1, <3>2 DEF Means
  <2>7. CASE ~(o.verdicts[1] = a.unsafe /\ a.required[class] \in Codes(o))
    <3>1. /\ Evaluate(p, class, o) = "dismiss"
          /\ o.verdicts[1] = a.safe /\ Codes(o) \subseteq a.empty
      BY <2>1, <2>3, <2>7 DEF EvaluateTaxonomy
    <3>2. QED
      BY <1>4, <2>4, <3>1 DEF Means
  <2>8. QED
    BY <2>6, <2>7
<1>5. QED
  BY <1>1, <1>2, <1>3, <1>4 DEF Adapter
-----------------------------------------------------------------------------
(* Orders, queues and the worker.                                          *)

LEMMA LeastOf ==
  ASSUME NEW a \in Nat, NEW b \in Nat
  PROVE  Min({a, b}) \in Nat /\ Min({a, b}) <= a /\ Min({a, b}) <= b
<1>1. \E x \in {a, b} : \A y \in {a, b} : x <= y
  <2>1. CASE a <= b
    BY <2>1
  <2>2. CASE ~(a <= b)
    BY <2>2
  <2>3. QED
    BY <2>1, <2>2
<1>2. Min({a, b}) \in {a, b} /\ \A y \in {a, b} : Min({a, b}) <= y
  BY <1>1 DEF Min
<1>3. QED
  BY <1>2

\* In whatever order ties come, each case once.
LEMMA Orders ==
  ASSUME NEW S \in SUBSET Case, NEW due \in OldestFirst(S)
  PROVE  due \in Seq(S) /\ \A i, j \in DOMAIN due : due[i] = due[j] => i = j
<1>1. Cardinality(S) \in Nat
  BY AssessmentAssumption, FS_Subset, FS_CardinalityType
<1>2. due \in [1..Cardinality(S) -> S]
  BY DEF OldestFirst
<1>3. due \in Seq(S)
  BY <1>1, <1>2
<1>4. IsInjective(due)
  BY DEF OldestFirst
<1>5. QED
  BY <1>3, <1>4 DEF IsInjective

LEMMA Cuts ==
  ASSUME NEW S, NEW q \in Seq(S), NEW n \in Nat, n <= Len(q)
  PROVE  /\ SubSeq(q, 1, n) \in Seq(S) /\ Len(SubSeq(q, 1, n)) = n
         /\ \A i \in 1..n : SubSeq(q, 1, n)[i] = q[i]
<1>1. SubSeq(q, 1, n) = [i \in 1..n |-> q[i]]
  OBVIOUS
<1>2. \A i \in 1..n : q[i] \in S
  OBVIOUS
<1>3. QED
  BY <1>1, <1>2

LEMMA Heads ==
  ASSUME NEW S, NEW q \in Seq(S), q # <<>>
  PROVE  /\ Head(q) = q[1] /\ 1 \in DOMAIN q /\ Head(q) \in S
         /\ Tail(q) \in Seq(S)
         /\ \A i \in DOMAIN Tail(q) : i + 1 \in DOMAIN q /\ Tail(q)[i] = q[i + 1] /\ i \in Nat \ {0}
  OBVIOUS

LEMMA WorkerShape ==
  ASSUME worker \in Worker
  PROVE  /\ worker.pc \in {"idle", "load", "build", "infer", "retry", "apply"}
         /\ worker.pc \in {"load", "build", "infer"} => worker.at \in Nat
         /\ worker.pc \in {"build", "infer"} => worker.case \in Case /\ worker.revision \in Nat
         /\ worker.pc = "infer" => worker.document \in Document
         /\ worker.pc = "apply" => worker.case \in Case /\ worker.then \in Resume
                                   /\ worker.then.pc \in {"load", "retry"}
  BY DEF Worker, Resume

LEMMA DocumentTyped ==
  ASSUME TypeOK, NEW c \in Case
  PROVE  DocumentOf(c) \in Document
  BY DEF DocumentOf, Document, TypeOK

LEMMA AttemptsTyped ==
  ASSUME TypeOK, NEW c \in Case
  PROVE  Attempts(c) \in Nat
  BY DEF Attempts, TypeOK, Assessed

\* A row is replaced: what the new one says, and that the others stay.
LEMMA Recorded ==
  ASSUME TypeOK, NEW c \in Case, NEW outcome \in Outcome, NEW raw \in ModelOutput \cup {None},
         NEW document \in Document, NEW charged \in BOOLEAN, worker.revision \in Nat,
         Record(c, outcome, raw, document, charged)
  PROVE  /\ assessment' \in [Case -> Assessed \cup {None}]
         /\ assessment'[c] # None
         /\ assessment'[c].outcome = outcome /\ assessment'[c].recommendation = outcome
         /\ assessment'[c].raw = raw /\ assessment'[c].document = document
         /\ assessment'[c].profile = config.profile
         /\ assessment'[c].revision = worker.revision
         /\ assessment'[c].attempts = Attempts(c) + IF charged THEN 1 ELSE 0
         /\ \A d \in Case : d # c => assessment'[d] = assessment[d]
<1> DEFINE applied == assessment[c] # None /\ assessment[c].applied
           attempts == Attempts(c) + IF charged THEN 1 ELSE 0
           row == [outcome |-> outcome, recommendation |-> outcome, raw |-> raw,
                   document |-> document, profile |-> config.profile,
                   revision |-> worker.revision, at |-> now, attempts |-> attempts,
                   applied |-> applied]
<1>1. assessment' = [assessment EXCEPT ![c] = row]
  BY DEF Record
<1>2. attempts \in Nat
  BY AttemptsTyped
<1>3. applied \in BOOLEAN
  BY DEF TypeOK, Assessed
<1>4. config.profile \in Profile /\ now \in Nat
  BY DEF TypeOK
<1> HIDE DEF applied, attempts
<1>5. row \in Assessed
  BY <1>2, <1>3, <1>4 DEF Assessed
<1>6. /\ row.outcome = outcome /\ row.recommendation = outcome /\ row.raw = raw
      /\ row.document = document /\ row.profile = config.profile
      /\ row.revision = worker.revision /\ row.attempts = attempts
  OBVIOUS
<1> HIDE DEF row
<1>7. assessment'[c] = row /\ (\A d \in Case : d # c => assessment'[d] = assessment[d])
      /\ assessment' \in [Case -> Assessed \cup {None}]
  BY <1>1, <1>5 DEF TypeOK
<1>8. QED
  BY <1>5, <1>6, <1>7, AssessmentAssumption DEF attempts

-----------------------------------------------------------------------------
(* What happens to cases meanwhile.                                        *)

\* A case grows and is never cut; a document that moves is counted.
Outside ==
  /\ UNCHANGED <<declared, config, assessment, worker, queue, calls, ruled>>
  /\ \A c \in Case :
       /\ voided[c] <= voided'[c] /\ revision[c] <= revision'[c]
       /\ DocumentOf(c)' # DocumentOf(c) => voided'[c] = voided[c] + 1
       /\ revision'[c] = revision[c] => UNCHANGED <<reports[c], responses[c]>>
       /\ reports[c] # <<>> => reports'[c] # <<>>

LEMMA Moving ==
  ASSUME TypeOK, NEW c \in Case, Moved(c),
         UNCHANGED <<viewable, declared, config, assessment, worker, queue, calls, ruled>>,
         \A d \in Case : d # c => reports'[d] = reports[d] /\ responses'[d] = responses[d],
         reports[c] # <<>> => reports'[c] # <<>>
  PROVE  Outside /\ revision' \in [Case -> Nat] /\ voided' \in [Case -> Nat]
<1>1. /\ revision' = [revision EXCEPT ![c] = revision[c] + 1]
      /\ voided' = [voided EXCEPT ![c] = voided[c] + 1]
  BY DEF Moved
<1>2. \A d \in Case : revision[d] \in Nat /\ voided[d] \in Nat
  BY DEF TypeOK
<1>3. \A d \in Case : d # c => /\ revision'[d] = revision[d] /\ voided'[d] = voided[d]
                               /\ DocumentOf(d)' = DocumentOf(d)
  BY <1>1 DEF TypeOK, DocumentOf, Named
<1>4. revision'[c] = revision[c] + 1 /\ voided'[c] = voided[c] + 1
  BY <1>1 DEF TypeOK
<1>5. revision' \in [Case -> Nat] /\ voided' \in [Case -> Nat]
  BY <1>1, <1>2 DEF TypeOK
<1>6. ASSUME NEW d \in Case
      PROVE  /\ voided[d] <= voided'[d] /\ revision[d] <= revision'[d]
             /\ DocumentOf(d)' # DocumentOf(d) => voided'[d] = voided[d] + 1
             /\ revision'[d] = revision[d] => UNCHANGED <<reports[d], responses[d]>>
             /\ reports[d] # <<>> => reports'[d] # <<>>
  BY <1>2, <1>3, <1>4
<1>7. QED
  BY <1>5, <1>6 DEF Outside

LEMMA OutsideStep ==
  ASSUME TypeOK,
         \/ \E c \in Case : Deliver(c) \/ Close(c) \/ Preserve(c)
         \/ \E c \in Case, i \in Item : Respond(c, i) \/ Join(c, i)
         \/ \E i \in Image : DropDerivative(i)
         \/ Tick \/ UNCHANGED vars
  PROVE  TypeOK' /\ Outside
<1> USE DEF caseVars, holdVars, workVars
<1>1. \A c \in Case : voided[c] \in Nat /\ revision[c] \in Nat
  BY DEF TypeOK
<1>2. steps + 1 \in Nat /\ now + 1 \in Nat
  BY DEF TypeOK
<1>3. ASSUME UNCHANGED <<declared, config, assessment, worker, queue, calls, ruled, voided,
                         revision, reports, responses, viewable>>
      PROVE  Outside
  BY <1>1, <1>3 DEF Outside, DocumentOf, Named
<1>4. CASE Tick \/ UNCHANGED vars
  <2>1. Outside
    BY <1>3, <1>4 DEF Tick, vars
  <2>2. now' \in Nat
    BY <1>2, <1>4 DEF Tick, vars, TypeOK
  <2>3. TypeOK'
    BY <1>4, <2>2 DEF Tick, vars, TypeOK
  <2>4. QED
    BY <2>1, <2>3
<1>5. ASSUME NEW c \in Case, Deliver(c) \/ Close(c) \/ Preserve(c) PROVE TypeOK' /\ Outside
  <2>1. Outside
    BY <1>3, <1>5 DEF Deliver, Close, Preserve
  <2>2. steps' \in Nat
    BY <1>2, <1>5 DEF Deliver, Close, Preserve, Counted, TypeOK
  <2>3. CASE Deliver(c)
    <3>1. delivered' \in [Case -> BOOLEAN]
      BY <2>3 DEF Deliver, TypeOK
    <3>2. QED
      BY <2>1, <2>2, <2>3, <3>1 DEF Deliver, TypeOK
  <2>4. CASE Close(c)
    <3>1. stage' \in [Case -> {"open", "decided"}]
      BY <2>4 DEF Close, TypeOK
    <3>2. QED
      BY <2>1, <2>2, <2>4, <3>1 DEF Close, TypeOK
  <2>5. CASE Preserve(c)
    BY <2>1, <2>2, <2>5 DEF Preserve, TypeOK
  <2>6. QED
    BY <1>5, <2>3, <2>4, <2>5
<1>6. ASSUME NEW c \in Case, NEW i \in Item, Respond(c, i) PROVE TypeOK' /\ Outside
  <2>1. /\ responses' = [responses EXCEPT ![c] = Append(responses[c], i)] /\ Moved(c)
        /\ UNCHANGED <<viewable, declared, config, assessment, worker, queue, calls, ruled,
                       reports>>
    BY <1>6 DEF Respond
  <2>2. responses' \in [Case -> Seq(Item)]
    BY <2>1 DEF TypeOK
  <2>3. Outside /\ revision' \in [Case -> Nat] /\ voided' \in [Case -> Nat]
    BY <2>1, Moving DEF TypeOK
  <2>4. steps' \in Nat
    BY <1>2, <1>6 DEF Respond, Counted
  <2>5. TypeOK'
    BY <1>6, <2>2, <2>3, <2>4 DEF Respond, TypeOK
  <2>6. QED
    BY <2>3, <2>5
<1>7. ASSUME NEW c \in Case, NEW i \in Item, Join(c, i) PROVE TypeOK' /\ Outside
  <2>1. /\ reports' = [reports EXCEPT ![c] = Append(reports[c], i)] /\ Moved(c)
        /\ UNCHANGED <<viewable, declared, config, assessment, worker, queue, calls, ruled,
                       responses>>
    BY <1>7 DEF Join
  <2>2. reports' \in [Case -> Seq(Item)] /\ reports'[c] # <<>>
    BY <2>1 DEF TypeOK
  <2>3. Outside /\ revision' \in [Case -> Nat] /\ voided' \in [Case -> Nat]
    BY <2>1, <2>2, Moving DEF TypeOK
  <2>4. respDeadline' \in [Case -> Nat] /\ delivered' \in [Case -> BOOLEAN]
    <3>1. now + Window \in Nat
      <4>1. Window \in Nat
        BY AssessmentAssumption
      <4>2. now \in Nat
        BY DEF TypeOK
      <4>3. QED
        BY <4>1, <4>2
    <3>2. respDeadline' \in [Case -> Nat]
      BY <1>7, <3>1 DEF Join, TypeOK
    <3>3. delivered' = [delivered EXCEPT ![c] = FALSE]
      BY <1>7 DEF Join
    <3>4. delivered \in [Case -> BOOLEAN]
      BY DEF TypeOK
    <3>5. delivered' \in [Case -> BOOLEAN]
      BY <3>3, <3>4
    <3>6. QED
      BY <3>2, <3>5
  <2>5. steps' \in Nat
    BY <1>2, <1>7 DEF Join, Counted
  <2>6. TypeOK'
    BY <1>7, <2>2, <2>3, <2>4, <2>5 DEF Join, TypeOK
  <2>7. QED
    BY <2>3, <2>6
<1>8. ASSUME NEW i \in Image, DropDerivative(i) PROVE TypeOK' /\ Outside
  <2>1. /\ viewable' = viewable \ {i}
        /\ voided' = [c \in Case |-> voided[c] + IF i \in Named(c) THEN 1 ELSE 0]
        /\ UNCHANGED <<declared, config, assessment, worker, queue, calls, ruled, revision,
                       reports, responses>>
    BY <1>8 DEF DropDerivative
  <2>2. \A c \in Case : i \notin Named(c) => DocumentOf(c)' = DocumentOf(c)
    BY <2>1 DEF DocumentOf, Named
  <2>3. \A c \in Case : voided'[c] = voided[c] + IF i \in Named(c) THEN 1 ELSE 0
    BY <2>1
  <2>4. Outside
    BY <1>1, <2>1, <2>2, <2>3 DEF Outside
  <2>5. voided' \in [Case -> Nat]
    BY <1>1, <2>1
  <2>6. QED
    BY <1>8, <2>4, <2>5 DEF DropDerivative, Counted, TypeOK
<1>9. QED
  BY <1>4, <1>5, <1>6, <1>7, <1>8

\* What others do leaves what the sweep relies on.
LEMMA OutsideKeeps ==
  ASSUME IInv, TypeOK', Outside
  PROVE  IInv'
<1>1. UNCHANGED <<declared, config, assessment, worker, queue, calls, ruled>>
  BY DEF Outside
<1>2. /\ worker \in Worker
      /\ \A c \in Case : /\ revision[c] \in Nat /\ revision'[c] \in Nat /\ voided[c] \in Nat
                         /\ voided'[c] \in Nat /\ calls[c] \in Nat /\ Attempts(c) \in Nat
  BY AttemptsTyped DEF IInv, TypeOK
<1>3. \A c \in Case : Attempts(c)' = Attempts(c) /\ (Decided(c)' <=> Decided(c))
                       /\ (assessment[c] # None => assessment[c].revision \in Nat)
  BY <1>1 DEF Attempts, Decided, IInv, TypeOK, Assessed
<1>4. DueInv'
  BY <1>1, <1>3, WorkerShape, <1>2 DEF IInv, DueInv, Assessing
<1>5. CallsInv'
  <2> SUFFICES ASSUME NEW c \in Case
               PROVE  calls'[c] <= Attempts(c)' + voided'[c] + Owing(c)'
    BY DEF CallsInv
  <2>1. calls[c] <= Attempts(c) + voided[c] + Owing(c)
    BY DEF IInv, CallsInv
  <2>2. Owing(c) \in {0, 1} /\ Owing(c)' \in {0, 1}
    BY DEF Owing
  <2>3. calls'[c] = calls[c] /\ Attempts(c)' = Attempts(c) /\ voided[c] <= voided'[c]
    BY <1>1, <1>3 DEF Outside
  <2>4. CASE DocumentOf(c)' = DocumentOf(c)
    <3>1. Owing(c)' = Owing(c)
      BY <1>1, <2>4 DEF Owing
    <3>2. QED
      BY <1>2, <2>1, <2>2, <2>3, <3>1
  <2>5. CASE DocumentOf(c)' # DocumentOf(c)
    <3>1. voided'[c] = voided[c] + 1
      BY <2>5 DEF Outside
    <3>2. QED
      BY <1>2, <2>1, <2>2, <2>3, <3>1
  <2>6. QED
    BY <2>4, <2>5
<1>6. ReadInv'
  <2>1. \A c \in Case : Consented(c, config.profile)' <=> Consented(c, config.profile)
    BY <1>1 DEF Consented
  <2>2. QED
    BY <1>1, <1>2, <2>1, WorkerShape DEF IInv, ReadInv, Outside, Unresolved
<1>7. DecidedInv'
  <2> SUFFICES ASSUME NEW c \in Case
               PROVE  /\ assessment'[c] # None =>
                           assessment'[c].recommendation \in {"no-decision", assessment'[c].outcome}
                      /\ Decided(c)' =>
                           /\ Rests(c, assessment[c])'
                           /\ assessment'[c].revision <= revision'[c]
                           /\ assessment'[c].revision = revision'[c] =>
                                /\ assessment'[c].document.reports = reports'[c]
                                /\ assessment'[c].document.responses = responses'[c]
    BY DEF DecidedInv
  <2>1. Rests(c, assessment[c])' <=> Rests(c, assessment[c])
    BY <1>1 DEF Rests
  <2>2. /\ assessment[c] # None =>
             assessment[c].recommendation \in {"no-decision", assessment[c].outcome}
        /\ Decided(c) =>
             /\ Rests(c, assessment[c])
             /\ assessment[c].revision <= revision[c]
             /\ assessment[c].revision = revision[c] =>
                  /\ assessment[c].document.reports = reports[c]
                  /\ assessment[c].document.responses = responses[c]
    BY DEF IInv, DecidedInv
  <2>3. Decided(c) => assessment[c].revision \in Nat
    BY <1>3 DEF Decided
  <2>4. revision[c] <= revision'[c]
        /\ (revision'[c] = revision[c] => reports'[c] = reports[c] /\ responses'[c] = responses[c])
    BY DEF Outside
  <2>5. QED
    BY <1>1, <1>2, <1>3, <2>1, <2>2, <2>3, <2>4
<1>8. ApplyInv'
  BY <1>1, <1>2, <1>3, WorkerShape DEF IInv, ApplyInv, Retrying
<1>9. GrownInv' /\ RuledUnderTerms'
  BY <1>1 DEF IInv, GrownInv, RuledUnderTerms, Outside
<1>10. QED
  BY <1>4, <1>5, <1>6, <1>7, <1>8, <1>9 DEF IInv

LEMMA InitHolds ==
  ASSUME Init
  PROVE  IInv
<1>1. config.profile \in Profile
  BY DEF Init
<1>2. TypeOK
  <2>1. \A c \in Case : OpenedAt[c] + Window \in Nat
    BY AssessmentAssumption
  <2>2. Idle \in Worker
    BY DEF Idle, Worker
  <2>3. declared \in [Case -> Profile \cup {None}]
    BY <1>1 DEF Init
  <2>4. delivered \in [Case -> BOOLEAN]
    BY DEF Init
  <2>5. respDeadline \in [Case -> Nat]
    BY <2>1 DEF Init
  <2>6. QED
    BY <2>2, <2>3, <2>4, <2>5, AssessmentAssumption DEF Init, TypeOK
<1>3. \A c \in Case : /\ Attempts(c) = 0 /\ calls[c] = 0 /\ voided[c] = 0 /\ ~Decided(c)
                       /\ assessment[c] = None /\ ruled[c] = None /\ reports[c] = Reported[c]
  BY DEF Init, Attempts, Decided
<1>4. worker.pc = "idle"
  BY DEF Init, Idle
<1>5. DueInv
  BY <1>3, <1>4, AssessmentAssumption DEF DueInv, Assessing
<1>6. CallsInv
  BY <1>3, <1>4 DEF CallsInv, Owing
<1>7. ReadInv /\ ApplyInv
  BY <1>4 DEF ReadInv, ApplyInv, Retrying
<1>8. DecidedInv /\ GrownInv /\ RuledUnderTerms
  BY <1>3 DEF DecidedInv, GrownInv, RuledUnderTerms
<1>9. QED
  BY <1>2, <1>5, <1>6, <1>7, <1>8 DEF IInv

\* A request that is lost with the process is counted as void.
LEMMA RestartKeeps ==
  ASSUME IInv, Restart
  PROVE  IInv'
<1> USE DEF caseVars, holdVars
<1>1. /\ UNCHANGED <<now, declared, assessment, calls, stage, revision, reports, responses,
                     respDeadline, delivered, ruled, viewable, preserved>>
      /\ worker' = Idle
  BY DEF Restart
<1>2. worker'.pc = "idle" /\ worker' \in Worker
  BY <1>1 DEF Idle, Worker
<1>3. /\ worker \in Worker /\ voided \in [Case -> Nat]
      /\ \A c \in Case : calls[c] \in Nat /\ Attempts(c) \in Nat /\ Attempts(c)' = Attempts(c)
                         /\ (Decided(c)' <=> Decided(c))
  BY <1>1, AttemptsTyped DEF IInv, TypeOK, Attempts, Decided
<1>4. /\ voided' \in [Case -> Nat]
      /\ \A c \in Case : voided[c] + Owing(c) <= voided'[c]
  <2>1. CASE worker.pc = "infer"
    <3>1. worker.case \in Case
      BY <1>3, <2>1, WorkerShape
    <3>2. voided' = [voided EXCEPT ![worker.case] = voided[worker.case] + 1]
      BY <2>1 DEF Restart
    <3>3. QED
      BY <1>3, <3>1, <3>2 DEF Owing
  <2>2. CASE worker.pc # "infer"
    BY <1>3, <2>2 DEF Restart, Owing
  <2>3. QED
    BY <2>1, <2>2
<1>5. TypeOK'
  <2>1. /\ config' \in [mode: {"advisory", "autonomous"}, profile: Profile]
        /\ steps' = steps + 1
    BY DEF Restart, Counted
  <2>2. QED
    BY <1>1, <1>2, <1>4, <2>1 DEF IInv, TypeOK
<1>6. DueInv'
  BY <1>2, <1>3 DEF IInv, DueInv, Assessing
<1>7. CallsInv'
  <2>1. \A c \in Case : Owing(c)' = 0 /\ Owing(c) \in {0, 1}
    BY <1>2 DEF Owing
  <2>2. QED
    BY <1>1, <1>3, <1>4, <2>1 DEF IInv, CallsInv
<1>8. ReadInv' /\ ApplyInv'
  BY <1>2 DEF ReadInv, ApplyInv, Retrying
<1>9. DecidedInv' /\ GrownInv' /\ RuledUnderTerms'
  BY <1>1, <1>3 DEF IInv, DecidedInv, GrownInv, RuledUnderTerms, Rests
<1>10. QED
  BY <1>5, <1>6, <1>7, <1>8, <1>9 DEF IInv

-----------------------------------------------------------------------------
(* A sweep.                                                                *)

LEMMA Outcomes ==
  ASSUME NEW p \in Profile, NEW class \in Class, NEW o \in ModelOutput
  PROVE  Evaluate(p, class, o) \in Outcome
<1>1. p.adapter \in Adapter
  BY ProfilesAssumption DEF ModelProfile
<1>2. QED
  BY <1>1 DEF Adapter, Evaluate, EvaluateScore, EvaluateLine, EvaluateTaxonomy, Outcome

\* A step of the sweep that reads nothing new of the cases.
Still ==
  UNCHANGED <<now, declared, config, voided, steps, viewable, preserved, stage, revision,
              reports, responses, respDeadline, delivered, ruled>>

LEMMA StillReads ==
  ASSUME Still, NEW c \in Case
  PROVE  /\ DocumentOf(c)' = DocumentOf(c)
         /\ \A p : Consented(c, p)' <=> Consented(c, p)
         /\ \A a : Rests(c, a)' <=> Rests(c, a)
  BY DEF Still, DocumentOf, Named, Consented, Rests

\* A reading is written down, and charged unless its document has moved.
LEMMA Writes ==
  ASSUME IInv, worker.pc \in {"build", "infer"}, NEW c \in Case, c = worker.case, Still, UNCHANGED <<queue, calls>>,
         NEW outcome \in Outcome, NEW raw \in ModelOutput \cup {None},
         NEW document \in Document, NEW charged \in BOOLEAN,
         Record(c, outcome, raw, document, charged),
         charged \/ Owing(c) = 0,
         outcome # "no-decision" =>
           /\ Means(config.profile, ClassOf[c], outcome, raw)
           /\ Consented(c, config.profile) /\ Unresolved(document) = {}
           /\ document.reports = reports[c]
           /\ document.responses = responses[c],
         \/ worker' = [pc |-> "load", at |-> worker.at]
         \/ /\ outcome # "no-decision"
            /\ worker' = [pc |-> "apply", case |-> c,
                          then |-> [pc |-> "load", at |-> worker.at]]
  PROVE  IInv'
<1> DEFINE one == IF charged THEN 1 ELSE 0
<1>1. worker \in Worker
  BY DEF IInv, TypeOK
<1>2. worker.revision \in Nat /\ worker.at \in Nat
  BY <1>1, WorkerShape
<1>3. TypeOK
  BY DEF IInv
<1>4. /\ assessment' \in [Case -> Assessed \cup {None}]
      /\ assessment'[c] # None
      /\ assessment'[c].outcome = outcome /\ assessment'[c].recommendation = outcome
      /\ assessment'[c].raw = raw /\ assessment'[c].document = document
      /\ assessment'[c].profile = config.profile
      /\ assessment'[c].revision = worker.revision
      /\ assessment'[c].attempts = Attempts(c) + one
      /\ \A d \in Case : d # c => assessment'[d] = assessment[d]
  BY <1>2, <1>3, Recorded
<1>0. one \in {0, 1} /\ (one = 1 \/ Owing(c) = 0)
  OBVIOUS
<1> HIDE DEF one
<1>5. /\ \A d \in Case : d # c => Attempts(d)' = Attempts(d) /\ (Decided(d)' <=> Decided(d))
      /\ Attempts(c)' = Attempts(c) + one
      /\ Decided(c)' <=> outcome # "no-decision"
  BY <1>2, <1>4 DEF Attempts, Decided
<1>6. \A d \in Case : Attempts(d) \in Nat /\ calls[d] \in Nat /\ voided[d] \in Nat
                       /\ Owing(d) \in {0, 1}
  BY <1>3, AttemptsTyped DEF TypeOK, Owing
<1>7. /\ worker' \in Worker
      /\ worker'.pc \in {"load", "apply"}
      /\ worker'.pc = "apply" =>
           outcome # "no-decision" /\ worker'.case = c /\ worker'.then.pc = "load"
  BY <1>2 DEF Worker, Resume
<1>8. TypeOK'
  BY <1>3, <1>4, <1>7 DEF TypeOK, Still
<1>9. DueInv'
  <2>1. /\ \A d \in Case : Attempts(d) <= MaxAttempts
        /\ queue \in Seq(Case)
        /\ \A i, j \in DOMAIN queue : queue[i] = queue[j] => i = j
        /\ \A i \in DOMAIN queue : Attempts(queue[i]) < MaxAttempts /\ queue[i] # c
        /\ Attempts(c) < MaxAttempts
    BY DEF IInv, DueInv, Assessing
  <2>2. MaxAttempts \in Nat
    BY AssessmentAssumption
  <2>3. \A d \in Case : Attempts(d)' <= MaxAttempts
    BY <1>0, <1>5, <1>6, <2>1, <2>2
  <2>4. \A i \in DOMAIN queue : queue[i] \in Case
    BY <2>1
  <2>5. \A i \in DOMAIN queue : Attempts(queue[i])' = Attempts(queue[i])
    BY <1>5, <2>1, <2>4
  <2>6. \A i \in DOMAIN queue' : Attempts(queue[i])' < MaxAttempts
    BY <2>1, <2>5
  <2>7. QED
    BY <1>7, <2>1, <2>3, <2>6 DEF DueInv
<1>10. CallsInv'
  <2> SUFFICES ASSUME NEW d \in Case
               PROVE  calls'[d] <= Attempts(d)' + voided'[d] + Owing(d)'
    BY DEF CallsInv
  <2>1. calls[d] <= Attempts(d) + voided[d] + Owing(d)
    BY DEF IInv, CallsInv
  <2>2. Owing(d)' = 0 /\ calls' = calls /\ voided' = voided
    BY <1>7 DEF Owing, Still
  <2>3. CASE d = c
    BY <1>0, <1>5, <1>6, <2>1, <2>2, <2>3
  <2>4. CASE d # c
    <3>1. Owing(d) = 0
      BY <2>4 DEF Owing
    <3>2. QED
      BY <1>5, <1>6, <2>1, <2>2, <2>4, <3>1
  <2>5. QED
    BY <2>3, <2>4
<1>11. ReadInv'
  BY <1>7 DEF ReadInv
<1>12. DecidedInv'
  <2> SUFFICES ASSUME NEW d \in Case
               PROVE  /\ assessment'[d] # None =>
                           assessment'[d].recommendation \in {"no-decision", assessment'[d].outcome}
                      /\ Decided(d)' =>
                           /\ Rests(d, assessment[d])'
                           /\ assessment'[d].revision <= revision'[d]
                           /\ assessment'[d].revision = revision'[d] =>
                                /\ assessment'[d].document.reports = reports'[d]
                                /\ assessment'[d].document.responses = responses'[d]
    BY DEF DecidedInv
  <2>1. revision' = revision /\ reports' = reports /\ responses' = responses /\ declared' = declared
    BY DEF Still
  <2>2. CASE d # c
    <3>1. Rests(d, assessment[d])' <=> Rests(d, assessment[d])
      BY <1>4, <2>1, <2>2 DEF Rests
    <3>2. QED
      BY <1>4, <1>5, <2>1, <2>2, <3>1 DEF IInv, DecidedInv
  <2>3. CASE d = c
    <3>1. worker.revision <= revision[c]
      BY DEF IInv, ReadInv
    <3>2. outcome # "no-decision" => Rests(d, assessment[d])'
      BY <1>4, <2>1, <2>3 DEF Rests, Consented
    <3>3. QED
      BY <1>4, <1>5, <2>1, <2>3, <3>1, <3>2
  <2>4. QED
    BY <2>2, <2>3
<1>13. ApplyInv'
  BY <1>2, <1>5, <1>7 DEF ApplyInv, Retrying
<1>14. GrownInv' /\ RuledUnderTerms'
  BY DEF IInv, GrownInv, RuledUnderTerms, Still
<1>15. QED
  BY <1>8, <1>9, <1>10, <1>11, <1>12, <1>13, <1>14 DEF IInv

LEMMA RefuseKeeps ==
  ASSUME IInv, Refuse
  PROVE  IInv'
<1> PICK c : c = worker.case
  OBVIOUS
<1>1. worker.pc = "build" /\ c \in Case
  BY WorkerShape DEF Refuse, IInv, TypeOK
<1>2. Still /\ UNCHANGED <<queue, calls>>
  BY DEF Refuse, workUnchanged, caseVars, holdVars, Still
<1>3. DocumentOf(c) \in Document
  BY <1>1, DocumentTyped DEF IInv
<1>4. Record(c, "no-decision", None, DocumentOf(c), TRUE)
  BY DEF Refuse
<1>5. worker' = [pc |-> "load", at |-> worker.at]
  BY DEF Refuse, Onward
<1>6. "no-decision" \in Outcome
  BY DEF Outcome
<1>7. QED
  BY <1>1, <1>2, <1>3, <1>4, <1>5, <1>6, Writes

LEMMA FailKeeps ==
  ASSUME IInv, Fail
  PROVE  IInv'
<1> PICK c : c = worker.case
  OBVIOUS
<1>1. worker.pc = "infer" /\ c \in Case /\ worker.document \in Document
  BY WorkerShape DEF Fail, IInv, TypeOK
<1>2. Still /\ UNCHANGED <<queue, calls>>
  BY DEF Fail, workUnchanged, caseVars, holdVars, Still
<1>3. Record(c, "no-decision", None, worker.document, TRUE)
  BY DEF Fail, ChargesFailure
<1>4. worker' = [pc |-> "load", at |-> worker.at]
  BY DEF Fail, Onward
<1>5. "no-decision" \in Outcome
  BY DEF Outcome
<1> PICK d \in Document : d = worker.document
  BY <1>1
<1>6. QED
  BY <1>1, <1>2, <1>3, <1>4, <1>5, Writes

LEMMA AnswerStaleKeeps ==
  ASSUME IInv, NEW o \in Output[config.profile], AnswerStale(o)
  PROVE  IInv'
<1> PICK c : c = worker.case
  OBVIOUS
<1>1. worker.pc = "infer" /\ c \in Case
  BY WorkerShape DEF AnswerStale, IInv, TypeOK
<1>2. Still /\ UNCHANGED <<queue, calls>>
  BY DEF AnswerStale, workUnchanged, caseVars, holdVars, Still
<1>3. DocumentOf(c) \in Document /\ o \in ModelOutput
  BY <1>1, DocumentTyped, ProfilesAssumption DEF IInv, TypeOK
<1>4. Record(c, "no-decision", o, DocumentOf(c), FALSE)
  BY DEF AnswerStale
<1>5. worker' = [pc |-> "load", at |-> worker.at]
  BY DEF AnswerStale, Onward
<1>6. "no-decision" \in Outcome
  BY DEF Outcome
<1>7. Owing(c) = 0
  BY DEF AnswerStale, Owing
<1>8. QED
  BY <1>1, <1>2, <1>3, <1>4, <1>5, <1>6, <1>7, Writes

\* An answer about the document the case still has.
LEMMA AnswerKeeps ==
  ASSUME IInv, NEW o \in Output[config.profile], Answer(o)
  PROVE  IInv'
<1> PICK c : c = worker.case
  OBVIOUS
<1>1. worker.pc = "infer" /\ c \in Case
  BY WorkerShape DEF Answer, IInv, TypeOK
<1> DEFINE outcome == Evaluate(config.profile, ClassOf[c], o)
<1>2. Still /\ UNCHANGED <<queue, calls>>
  BY DEF Answer, workUnchanged, caseVars, holdVars, Still
<1>3. /\ DocumentOf(c) \in Document /\ o \in ModelOutput
      /\ config.profile \in Profile /\ ClassOf[c] \in Class
  BY <1>1, DocumentTyped, ProfilesAssumption, AssessmentAssumption DEF IInv, TypeOK
<1>4. outcome \in Outcome
  BY <1>3, Outcomes
<1>5. DocumentOf(c) = worker.document
  BY DEF Answer
<1>6. Record(c, outcome, o, DocumentOf(c), TRUE)
  BY <1>5 DEF Answer
<1>7. \/ worker' = [pc |-> "load", at |-> worker.at]
      \/ /\ outcome # "no-decision"
         /\ worker' = [pc |-> "apply", case |-> c, then |-> [pc |-> "load", at |-> worker.at]]
  BY DEF Answer, Onward
<1>8. outcome # "no-decision" => Means(config.profile, ClassOf[c], outcome, o)
  BY <1>3, Readable
<1>9. Consented(c, config.profile) /\ Unresolved(DocumentOf(c)) = {}
  BY <1>1, <1>5 DEF IInv, ReadInv
<1>10. DocumentOf(c).reports = reports[c] /\ DocumentOf(c).responses = responses[c]
  BY DEF DocumentOf
<1> HIDE DEF outcome
<1>11. QED
  BY <1>1, <1>2, <1>3, <1>4, <1>6, <1>7, <1>8, <1>9, <1>10, Writes

\* A step of the sweep that writes no row.
LEMMA RowsKeep ==
  ASSUME IInv, Still, UNCHANGED assessment, worker' \in Worker,
         \A c \in Case : calls'[c] <= Attempts(c) + voided[c] + Owing(c)',
         calls' \in [Case -> Nat],
         DueInv', ReadInv', ApplyInv'
  PROVE  IInv'
<1>1. TypeOK'
  BY DEF IInv, TypeOK, Still
<1>2. \A c \in Case : Attempts(c)' = Attempts(c) /\ (Decided(c)' <=> Decided(c))
                       /\ (Rests(c, assessment[c])' <=> Rests(c, assessment[c]))
  BY DEF Attempts, Decided, Rests, Still
<1>3. CallsInv'
  BY <1>2 DEF CallsInv, Still
<1>4. DecidedInv'
  BY <1>2 DEF IInv, DecidedInv, Still
<1>5. GrownInv' /\ RuledUnderTerms'
  BY DEF IInv, GrownInv, RuledUnderTerms, Still
<1>6. QED
  BY <1>1, <1>3, <1>4, <1>5 DEF IInv

LEMMA StartSweepKeeps ==
  ASSUME IInv, StartSweep
  PROVE  IInv'
<1>1. Still /\ UNCHANGED <<assessment, calls>>
  BY DEF StartSweep, workUnchanged, caseVars, holdVars, Still
<1>2. worker' = [pc |-> "load", at |-> now] /\ worker.pc = "idle"
  BY DEF StartSweep, Idle
<1>3. worker' \in Worker
  BY <1>2 DEF Worker, Resume, IInv, TypeOK
<1> DEFINE S == {c \in Case : Due(c)}
<1>4. PICK due \in OldestFirst(S) : queue' = SubSeq(due, 1, Min({Len(due), Batch}))
  BY DEF StartSweep
<1>5. due \in Seq(S) /\ \A i, j \in DOMAIN due : due[i] = due[j] => i = j
  BY Orders
<1> DEFINE n == Min({Len(due), Batch})
<1>6. n \in Nat /\ n <= Len(due)
  <2>1. Len(due) \in Nat /\ Batch \in Nat
    BY <1>5, AssessmentAssumption
  <2>2. QED
    BY <2>1, LeastOf
<1> HIDE DEF n
<1>7. queue' \in Seq(S) /\ Len(queue') = n /\ \A i \in 1..n : queue'[i] = due[i]
  <2> HIDE DEF S
  <2>1. queue' = SubSeq(due, 1, n)
    BY <1>4 DEF n
  <2>2. QED
    BY <1>5, <1>6, <2>1, Cuts
<1>8. \A c \in S : c \in Case /\ Attempts(c) < MaxAttempts /\ Attempts(c)' = Attempts(c)
  BY <1>1 DEF Due, Attempts
<1>9. DueInv'
  <2>1. queue' \in Seq(Case)
    BY <1>7
  <2>2. \A i, j \in DOMAIN queue' : queue'[i] = queue'[j] => i = j
    BY <1>5, <1>6, <1>7
  <2>3. \A i \in DOMAIN queue' : Attempts(queue[i])' < MaxAttempts
    <3>1. \A i \in DOMAIN queue' : queue'[i] \in S
      BY <1>7
    <3>2. \A i \in DOMAIN queue' : Attempts(queue[i])' = Attempts(queue'[i])
      BY <1>1 DEF Attempts
    <3>3. QED
      BY <1>8, <3>1, <3>2
  <2>4. \A c \in Case : Attempts(c)' <= MaxAttempts
    BY <1>1 DEF IInv, DueInv, Attempts
  <2>5. QED
    BY <1>2, <2>1, <2>2, <2>3, <2>4 DEF DueInv
<1>10. ReadInv' /\ ApplyInv'
  BY <1>2 DEF ReadInv, ApplyInv, Retrying
<1>11. \A c \in Case : calls'[c] <= Attempts(c) + voided[c] + Owing(c)'
  BY <1>1, <1>2 DEF IInv, CallsInv, Owing
<1>12. QED
  BY <1>1, <1>3, <1>9, <1>10, <1>11, RowsKeep DEF IInv, TypeOK

\* The next case leaves the queue; it is read anew, and may have been closed
\* or been given another window.
LEMMA LoadKeeps ==
  ASSUME IInv, Load
  PROVE  IInv'
<1>1. Still /\ UNCHANGED <<assessment, calls>>
  BY DEF Load, workUnchanged, caseVars, holdVars, Still
<1>2. worker.pc = "load" /\ queue # <<>> /\ queue' = Tail(queue)
  BY DEF Load
<1>3. /\ queue \in Seq(Case)
      /\ \A i, j \in DOMAIN queue : queue[i] = queue[j] => i = j
      /\ \A i \in DOMAIN queue : Attempts(queue[i]) < MaxAttempts
  BY <1>2 DEF IInv, DueInv, Assessing
<1> PICK c : c = Head(queue)
  OBVIOUS
<1>4. /\ c \in Case /\ Attempts(c) < MaxAttempts /\ queue' \in Seq(Case)
      /\ \A i \in DOMAIN queue' : queue'[i] # c
      /\ \A i, j \in DOMAIN queue' : queue'[i] = queue'[j] => i = j
      /\ \A i \in DOMAIN queue' : Attempts(queue'[i]) < MaxAttempts
  BY <1>2, <1>3, Heads
<1>5. \/ worker' = [pc |-> "build", at |-> worker.at, case |-> c, revision |-> revision[c]]
      \/ worker' = worker
  BY DEF Load
<1>6. worker \in Worker /\ revision[c] \in Nat
  BY <1>4 DEF IInv, TypeOK
<1>7. worker.at \in Nat
  BY <1>2, <1>6, WorkerShape
<1>8. /\ worker' \in Worker
      /\ worker'.pc \in {"load", "build"}
      /\ worker'.pc = "build" => worker'.case = c /\ worker'.revision = revision[c]
  <2>1. CASE worker' = worker
    BY <1>2, <1>6, <2>1
  <2>2. CASE worker' # worker
    BY <1>4, <1>5, <1>6, <1>7, <2>2 DEF Worker
  <2>3. QED
    BY <2>1, <2>2
<1>9. \A d \in Case : Attempts(d)' = Attempts(d) /\ Attempts(d) <= MaxAttempts
  BY <1>1 DEF Attempts, IInv, DueInv
<1>10. DueInv'
  <2>1. \A i \in DOMAIN queue' : Attempts(queue[i])' = Attempts(queue'[i])
    BY <1>1 DEF Attempts
  <2>2. worker'.pc = "build" => Attempts(worker.case)' < MaxAttempts
    BY <1>1, <1>4, <1>8 DEF Attempts
  <2>3. QED
    BY <1>4, <1>8, <1>9, <2>1, <2>2 DEF DueInv
<1>11. ReadInv' /\ ApplyInv'
  BY <1>1, <1>6, <1>8 DEF ReadInv, ApplyInv, Retrying, Still
<1>12. \A d \in Case : calls'[d] <= Attempts(d) + voided[d] + Owing(d)'
  BY <1>1, <1>2, <1>8 DEF IInv, CallsInv, Owing
<1>13. QED
  BY <1>1, <1>8, <1>10, <1>11, <1>12, RowsKeep DEF IInv, TypeOK

\* A request is counted, and owed.
LEMMA AskKeeps ==
  ASSUME IInv, Ask
  PROVE  IInv'
<1> PICK c : c = worker.case
  OBVIOUS
<1>1. Still /\ UNCHANGED <<assessment, queue>>
  BY DEF Ask, workUnchanged, caseVars, holdVars, Still
<1>2. worker.pc = "build" /\ Askable(c, config.profile, DocumentOf(c))
  BY DEF Ask
<1>3. worker \in Worker /\ calls \in [Case -> Nat] /\ TypeOK
  BY DEF IInv, TypeOK
<1>4. c \in Case /\ worker.at \in Nat /\ worker.revision \in Nat
  BY <1>2, <1>3, WorkerShape
<1>5. DocumentOf(c) \in Document
  BY <1>3, <1>4, DocumentTyped
<1>6. worker' = [pc |-> "infer", at |-> worker.at, case |-> c, revision |-> worker.revision,
                 document |-> DocumentOf(c)]
  BY DEF Ask
<1>7. /\ worker' \in Worker /\ worker'.pc = "infer" /\ worker'.case = c
      /\ worker'.revision = worker.revision /\ worker'.document = DocumentOf(c)
  BY <1>4, <1>5, <1>6 DEF Worker
<1>8. calls' = [calls EXCEPT ![c] = calls[c] + 1]
  BY DEF Ask
<1>9. calls' \in [Case -> Nat]
  BY <1>3, <1>4, <1>8
<1>10. \A d \in Case : Attempts(d)' = Attempts(d)
  BY <1>1 DEF Attempts
<1>11. DueInv'
  <2>1. \A i \in DOMAIN queue' : Attempts(queue[i])' = Attempts(queue[i])
    BY <1>1 DEF Attempts
  <2>2. Attempts(worker.case)' = Attempts(c)
    BY <1>1, <1>7 DEF Attempts
  <2>3. QED
    BY <1>1, <1>2, <1>7, <1>10, <2>1, <2>2 DEF IInv, DueInv, Assessing
<1>12. ReadInv'
  <2>1. worker'.revision <= revision'[worker'.case]
    BY <1>1, <1>2, <1>7 DEF IInv, ReadInv, Still
  <2>2. Consented(c, config.profile)' /\ Unresolved(worker.document)' = {}
    <3>1. Consented(c, config.profile) /\ Unresolved(DocumentOf(c)) = {}
      BY <1>2 DEF Askable
    <3>2. QED
      BY <1>1, <1>7, <3>1 DEF Consented, Unresolved, Still
  <2>3. Consented(worker.case, config.profile)'
    BY <1>7, <2>2 DEF Consented
  <2>4. QED
    BY <2>1, <2>2, <2>3 DEF ReadInv
<1>13. ApplyInv'
  BY <1>7 DEF ApplyInv, Retrying
<1>14. \A d \in Case : calls'[d] <= Attempts(d) + voided[d] + Owing(d)'
  <2> SUFFICES ASSUME NEW d \in Case
               PROVE  calls'[d] <= Attempts(d) + voided[d] + Owing(d)'
    OBVIOUS
  <2>1. calls[d] <= Attempts(d) + voided[d] /\ Attempts(d) \in Nat /\ voided[d] \in Nat
        /\ calls[d] \in Nat
    <3>1. Owing(d) = 0
      BY <1>2 DEF Owing
    <3>2. calls[d] <= Attempts(d) + voided[d] + Owing(d)
      BY DEF IInv, CallsInv
    <3>3. Attempts(d) \in Nat /\ voided[d] \in Nat /\ calls[d] \in Nat
      BY <1>3, AttemptsTyped DEF TypeOK
    <3>4. QED
      BY <3>1, <3>2, <3>3
  <2>2. CASE d # c
    <3>1. Owing(d)' = 0 /\ calls'[d] = calls[d]
      BY <1>3, <1>7, <1>8, <2>2 DEF Owing
    <3>2. QED
      BY <2>1, <3>1
  <2>3. CASE d = c
    <3>1. Owing(d)' = 1
      BY <1>1, <1>4, <1>7, <2>3, StillReads DEF Owing
    <3>2. calls'[d] = calls[d] + 1
      BY <1>3, <1>4, <1>8, <2>3
    <3>3. QED
      BY <2>1, <3>1, <3>2
  <2>4. QED
    BY <2>2, <2>3
<1>15. QED
  BY <1>1, <1>7, <1>9, <1>11, <1>12, <1>13, <1>14, RowsKeep

LEMMA StartRetryKeeps ==
  ASSUME IInv, StartRetry
  PROVE  IInv'
<1>1. Still /\ UNCHANGED <<assessment, calls>> /\ worker.pc = "load"
  BY DEF StartRetry, workUnchanged, caseVars, holdVars, Still
<1>2. worker' \in Worker /\ worker'.pc \in {"retry", "idle"}
  BY DEF StartRetry, Idle, Worker, Resume
<1>3. DueInv'
  BY <1>1, <1>2 DEF IInv, DueInv, Assessing, Attempts
<1>4. ReadInv'
  BY <1>2 DEF ReadInv
<1>5. ApplyInv'
  <2>1. CASE worker'.pc = "idle"
    BY <2>1 DEF ApplyInv, Retrying
  <2>2. CASE worker'.pc = "retry"
    <3> DEFINE S == {c \in Case : Unapplied(c)}
    <3>1. PICK due \in OldestFirst(S) :
            queue' = [k \in DOMAIN due |-> [case |-> due[k], revision |-> revision[due[k]]]]
      <4>1. config.mode = "autonomous"
        BY <2>2 DEF StartRetry, Idle
      <4>2. QED
        BY <4>1 DEF StartRetry
    <3>2. due \in Seq(S)
      BY Orders
    <3>3. \A k \in DOMAIN due : due[k] \in S
      BY <3>2
    <3>4. \A c \in S : c \in Case /\ revision[c] \in Nat /\ Decided(c)
      BY DEF Unapplied, Decided, IInv, TypeOK, DecidedInv
    <3> HIDE DEF S
    <3>5. \A k \in DOMAIN due :
            [case |-> due[k], revision |-> revision[due[k]]] \in [case: Case, revision: Nat]
      BY <3>3, <3>4
    <3>6. DOMAIN due = 1..Len(due) /\ Len(due) \in Nat
      BY <3>2
    <3>7. queue' \in Seq([case: Case, revision: Nat]) /\ DOMAIN queue' = DOMAIN due
      <4> DEFINE Row == [case: Case, revision: Nat]
                 listed(k) == [case |-> due[k], revision |-> revision[due[k]]]
      <4>1. PICK n \in Nat : DOMAIN due = 1..n
        BY <3>6
      <4>2. \A k \in 1..n : listed(k) \in Row
        BY <3>5, <4>1
      <4>3. queue' = [k \in 1..n |-> listed(k)]
        BY <3>1, <4>1
      <4> HIDE DEF Row, listed
      <4>4. queue' \in Seq(Row) /\ DOMAIN queue' = 1..n
        BY <4>2, <4>3
      <4>5. QED
        BY <4>1, <4>4 DEF Row
    <3>8. \A k \in DOMAIN queue' : queue'[k].case = due[k]
      BY <3>1, <3>7
    <3>9. \A k \in DOMAIN queue' : queue'[k].case \in Case /\ Decided(queue[k].case)'
      BY <1>1, <3>3, <3>4, <3>7, <3>8 DEF Decided
    <3>10. QED
      BY <2>2, <3>7, <3>9 DEF ApplyInv
  <2>3. QED
    BY <1>2, <2>1, <2>2
<1>6. \A c \in Case : calls'[c] <= Attempts(c) + voided[c] + Owing(c)'
  BY <1>1, <1>2 DEF IInv, CallsInv, Owing
<1>7. QED
  BY <1>1, <1>2, <1>3, <1>4, <1>5, <1>6, RowsKeep DEF IInv, TypeOK

LEMMA EndSweepKeeps ==
  ASSUME IInv, EndSweep
  PROVE  IInv'
<1>1. Still /\ UNCHANGED <<assessment, calls>> /\ worker.pc = "retry"
  BY DEF EndSweep, workUnchanged, caseVars, holdVars, Still
<1>2. worker' \in Worker /\ worker'.pc = "idle"
  BY DEF EndSweep, Idle, Worker
<1>3. DueInv' /\ ReadInv' /\ ApplyInv'
  BY <1>1, <1>2 DEF IInv, DueInv, Assessing, Attempts, ReadInv, ApplyInv, Retrying
<1>4. \A c \in Case : calls'[c] <= Attempts(c) + voided[c] + Owing(c)'
  BY <1>1, <1>2 DEF IInv, CallsInv, Owing
<1>5. QED
  BY <1>1, <1>2, <1>3, <1>4, RowsKeep DEF IInv, TypeOK

\* A row is marked, as applied or as worth no decision; the reading stays.
LEMMA Marked ==
  ASSUME IInv, NEW c \in Case, assessment[c] # None, NEW row \in Assessed,
         assessment' = [assessment EXCEPT ![c] = row],
         row.outcome = assessment[c].outcome, row.profile = assessment[c].profile,
         row.raw = assessment[c].raw, row.document = assessment[c].document,
         row.revision = assessment[c].revision, row.attempts = assessment[c].attempts,
         row.recommendation \in {"no-decision", assessment[c].outcome},
         UNCHANGED <<declared, revision, reports, responses>>
  PROVE  /\ assessment' \in [Case -> Assessed \cup {None}]
         /\ \A d \in Case : Attempts(d)' = Attempts(d) /\ (Decided(d)' <=> Decided(d))
         /\ DecidedInv'
<1>1. assessment \in [Case -> Assessed \cup {None}] /\ row # None
  BY AssessmentAssumption DEF IInv, TypeOK
<1>2. /\ assessment' \in [Case -> Assessed \cup {None}] /\ assessment'[c] = row
      /\ \A d \in Case : d # c => assessment'[d] = assessment[d]
  BY <1>1
<1>3. ASSUME NEW d \in Case
      PROVE  /\ Attempts(d)' = Attempts(d) /\ (Decided(d)' <=> Decided(d))
             /\ (assessment[d] # None => (Rests(d, assessment[d])' <=> Rests(d, assessment[d])))
  <2>1. CASE d = c
    BY <1>1, <1>2, <2>1 DEF Attempts, Decided, Rests
  <2>2. CASE d # c
    BY <1>2, <2>2 DEF Attempts, Decided, Rests
  <2>3. QED
    BY <2>1, <2>2
<1>4. ASSUME NEW d \in Case
      PROVE  /\ assessment'[d] # None =>
                  assessment'[d].recommendation \in {"no-decision", assessment'[d].outcome}
             /\ Decided(d)' =>
                  /\ Rests(d, assessment[d])'
                  /\ assessment'[d].revision <= revision'[d]
                  /\ assessment'[d].revision = revision'[d] =>
                       /\ assessment'[d].document.reports = reports'[d]
                       /\ assessment'[d].document.responses = responses'[d]
  <2>1. /\ assessment[d] # None =>
             assessment[d].recommendation \in {"no-decision", assessment[d].outcome}
        /\ Decided(d) =>
             /\ Rests(d, assessment[d]) /\ assessment[d] # None
             /\ assessment[d].revision <= revision[d]
             /\ assessment[d].revision = revision[d] =>
                  /\ assessment[d].document.reports = reports[d]
                  /\ assessment[d].document.responses = responses[d]
    BY DEF IInv, DecidedInv, Decided
  <2>2. CASE d = c
    BY <1>2, <1>3, <2>1, <2>2
  <2>3. CASE d # c
    BY <1>2, <1>3, <2>1, <2>3
  <2>4. QED
    BY <2>2, <2>3
<1>5. DecidedInv'
  BY <1>4 DEF DecidedInv
<1>6. QED
  BY <1>2, <1>3, <1>5

LEMMA RetryNextKeeps ==
  ASSUME IInv, RetryNext
  PROVE  IInv'
<1>1. Still /\ UNCHANGED calls
  BY DEF RetryNext, workUnchanged, caseVars, holdVars, Still
<1>2. worker.pc = "retry" /\ queue # <<>> /\ queue' = Tail(queue)
  BY DEF RetryNext
<1>3. queue \in Seq([case: Case, revision: Nat])
      /\ \A i \in DOMAIN queue : queue[i].case \in Case /\ Decided(queue[i].case)
  BY <1>2 DEF IInv, ApplyInv, Retrying
<1> PICK c : c = Head(queue).case
  OBVIOUS
<1>4. /\ c \in Case /\ Decided(c) /\ queue' \in Seq([case: Case, revision: Nat])
      /\ \A i \in DOMAIN queue' : queue'[i].case \in Case /\ Decided(queue'[i].case)
  BY <1>2, <1>3, Heads
<1>5. CASE Head(queue).revision = assessment[c].revision
  <2>1. UNCHANGED assessment /\ worker' = [pc |-> "apply", case |-> c, then |-> [pc |-> "retry"]]
    BY <1>5 DEF RetryNext
  <2>2. worker' \in Worker /\ worker'.pc = "apply" /\ worker'.case = c /\ worker'.then.pc = "retry"
    BY <1>4, <2>1 DEF Worker, Resume
  <2>3. \A d : Decided(d)' <=> Decided(d)
    BY <2>1 DEF Decided
  <2>4. DueInv'
    BY <2>1, <2>2 DEF IInv, DueInv, Assessing, Attempts
  <2>5. ReadInv'
    BY <2>2 DEF ReadInv
  <2>6. ApplyInv'
    <3>1. worker'.pc = "apply" => Decided(worker.case)'
      BY <1>4, <2>1, <2>2 DEF Decided
    <3>2. \A i \in DOMAIN queue' : Decided(queue[i].case)'
      BY <1>4, <2>1 DEF Decided
    <3>3. QED
      BY <1>4, <3>1, <3>2 DEF ApplyInv
  <2>7. \A d \in Case : calls'[d] <= Attempts(d) + voided[d] + Owing(d)'
    BY <1>1, <1>2, <2>2 DEF IInv, CallsInv, Owing
  <2>8. QED
    BY <1>1, <2>1, <2>2, <2>4, <2>5, <2>6, <2>7, RowsKeep DEF IInv, TypeOK
<1>6. CASE Head(queue).revision # assessment[c].revision
  <2>1. /\ assessment' = [assessment EXCEPT ![c].recommendation = "no-decision"]
        /\ worker' = worker
    BY <1>6 DEF RetryNext
  <2>2. assessment[c] \in Assessed
    BY <1>4 DEF IInv, TypeOK, Decided
  <2> DEFINE row == [assessment[c] EXCEPT !.recommendation = "no-decision"]
  <2>3. row \in Assessed /\ row.recommendation = "no-decision" /\ row.outcome = assessment[c].outcome
        /\ row.profile = assessment[c].profile /\ row.raw = assessment[c].raw
        /\ row.document = assessment[c].document /\ row.revision = assessment[c].revision
        /\ row.attempts = assessment[c].attempts
    BY <2>2 DEF Assessed, Outcome
  <2>4. assessment' = [assessment EXCEPT ![c] = row]
    BY <2>1
  <2> HIDE DEF row
  <2>5. assessment[c] # None
    BY <1>4 DEF Decided
  <2>6. /\ assessment' \in [Case -> Assessed \cup {None}] /\ DecidedInv'
        /\ \A d \in Case : Attempts(d)' = Attempts(d) /\ (Decided(d)' <=> Decided(d))
    <3>1. UNCHANGED <<declared, revision, reports, responses>>
      BY <1>1 DEF Still
    <3>2. row.recommendation \in {"no-decision", assessment[c].outcome}
      BY <2>3
    <3> PICK r \in Assessed : r = row
      BY <2>3
    <3>3. QED
      BY <1>4, <2>3, <2>4, <2>5, <3>1, <3>2, Marked
  <2>7. TypeOK'
    BY <1>1, <2>1, <2>6 DEF IInv, TypeOK, Still
  <2>8. DueInv'
    BY <1>2, <2>1, <2>6 DEF IInv, DueInv, Assessing
  <2>9. ReadInv'
    BY <1>2, <2>1 DEF ReadInv
  <2>10. ApplyInv'
    <3>1. \A i \in DOMAIN queue' : Decided(queue[i].case)'
      <4>1. \A i \in DOMAIN queue' : Decided(queue[i].case)' <=> Decided(queue'[i].case)
        BY <1>4, <2>6 DEF Decided
      <4>2. QED
        BY <1>4, <4>1
    <3>2. QED
      BY <1>2, <1>4, <2>1, <3>1 DEF ApplyInv
  <2>11. CallsInv'
    <3>1. \A d \in Case : Owing(d)' = 0 /\ Owing(d) = 0
      BY <1>2, <2>1 DEF Owing
    <3>2. QED
      BY <1>1, <2>6, <3>1 DEF IInv, CallsInv, Still
  <2>12. GrownInv' /\ RuledUnderTerms'
    BY <1>1 DEF IInv, GrownInv, RuledUnderTerms, Still
  <2>13. QED
    BY <2>6, <2>7, <2>8, <2>9, <2>10, <2>11, <2>12 DEF IInv
<1>7. QED
  BY <1>5, <1>6

LEMMA Applied ==
  ASSUME IInv, worker.pc = "apply", worker' = worker.then, worker' \in Resume,
         worker'.pc \in {"load", "retry"},
         UNCHANGED <<queue, calls, now, declared, config, voided, steps, viewable, preserved,
                     revision, reports, responses, respDeadline, delivered>>,
         assessment' \in [Case -> Assessed \cup {None}],
         stage' \in [Case -> {"open", "decided"}], ruled' \in [Case -> Assessed \cup {None}],
         DecidedInv', RuledUnderTerms',
         \A d \in Case : Attempts(d)' = Attempts(d) /\ (Decided(d)' <=> Decided(d))
  PROVE  IInv'
<1>1. TypeOK'
  BY DEF IInv, TypeOK, Worker
<1>2. (Assessing' => Assessing) /\ (Retrying' => Retrying)
  BY DEF Assessing, Retrying
<1>3. DueInv'
  <2>1. \A d \in Case : Attempts(d)' <= MaxAttempts
    BY DEF IInv, DueInv
  <2>2. ASSUME Assessing'
        PROVE  /\ queue' \in Seq(Case)
               /\ \A i, j \in DOMAIN queue' : queue'[i] = queue'[j] => i = j
               /\ \A i \in DOMAIN queue' : Attempts(queue[i])' < MaxAttempts
    <3>1. /\ queue \in Seq(Case)
          /\ \A i, j \in DOMAIN queue : queue[i] = queue[j] => i = j
          /\ \A i \in DOMAIN queue : Attempts(queue[i]) < MaxAttempts
      BY <1>2, <2>2 DEF IInv, DueInv
    <3>2. \A i \in DOMAIN queue : queue[i] \in Case
      BY <3>1
    <3>3. \A i \in DOMAIN queue' : Attempts(queue[i])' = Attempts(queue[i])
      BY <3>2
    <3>4. QED
      BY <3>1, <3>3
  <2>3. QED
    BY <2>1, <2>2 DEF DueInv
<1>4. ReadInv'
  BY DEF ReadInv
<1>5. ApplyInv'
  <2>1. ASSUME Retrying'
        PROVE  /\ \A i \in DOMAIN queue' : queue'[i].case \in Case /\ Decided(queue[i].case)'
               /\ queue' \in Seq([case: Case, revision: Nat])
    <3>1. /\ \A i \in DOMAIN queue : queue[i].case \in Case /\ Decided(queue[i].case)
          /\ queue \in Seq([case: Case, revision: Nat])
      BY <1>2, <2>1 DEF IInv, ApplyInv
    <3>2. \A i \in DOMAIN queue : Decided(queue[i].case)' <=> Decided(queue[i].case)
      BY <3>1
    <3>3. QED
      BY <3>1, <3>2
  <2>2. QED
    BY <2>1 DEF ApplyInv
<1>6. CallsInv'
  <2>1. \A d \in Case : Owing(d)' = 0 /\ Owing(d) = 0
    BY DEF Owing
  <2>2. QED
    BY <2>1 DEF IInv, CallsInv
<1>7. GrownInv'
  BY DEF IInv, GrownInv
<1>8. QED
  BY <1>1, <1>3, <1>4, <1>5, <1>6, <1>7 DEF IInv

\* A ruling is made from the row it leaves behind.
LEMMA ApplyKeeps ==
  ASSUME IInv, Apply
  PROVE  IInv'
<1> PICK c : c = worker.case
  OBVIOUS
<1>1. /\ worker.pc = "apply" /\ worker' = worker.then
      /\ UNCHANGED <<queue, calls, now, declared, config, voided, steps, viewable, preserved,
                     revision, reports, responses, respDeadline, delivered>>
  BY DEF Apply, workUnchanged, holdVars
<1>2. c \in Case /\ worker' \in Resume /\ worker'.pc \in {"load", "retry"}
  BY <1>1, WorkerShape DEF IInv, TypeOK
<1>3. Decided(c) /\ assessment[c] # None /\ assessment[c] \in Assessed
  BY <1>1, <1>2 DEF IInv, TypeOK, ApplyInv, Decided
<1>4. CASE Ruleable(c)
  <2>1. /\ stage' = [stage EXCEPT ![c] = "decided"]
        /\ ruled' = [ruled EXCEPT ![c] = assessment[c]]
        /\ assessment' = [assessment EXCEPT ![c].applied = TRUE]
    BY <1>4 DEF Apply
  <2> DEFINE row == [assessment[c] EXCEPT !.applied = TRUE]
  <2>2. row \in Assessed /\ row.outcome = assessment[c].outcome
        /\ row.profile = assessment[c].profile /\ row.raw = assessment[c].raw
        /\ row.document = assessment[c].document /\ row.revision = assessment[c].revision
        /\ row.attempts = assessment[c].attempts
        /\ row.recommendation = assessment[c].recommendation
    BY <1>3 DEF Assessed
  <2>3. assessment' = [assessment EXCEPT ![c] = row]
    BY <2>1
  <2> HIDE DEF row
  <2>4. row.recommendation \in {"no-decision", assessment[c].outcome}
    BY <1>2, <1>3, <2>2 DEF IInv, DecidedInv
  <2>5. /\ assessment' \in [Case -> Assessed \cup {None}] /\ DecidedInv'
        /\ \A d \in Case : Attempts(d)' = Attempts(d) /\ (Decided(d)' <=> Decided(d))
    <3> PICK r \in Assessed : r = row
      BY <2>2
    <3>1. UNCHANGED <<declared, revision, reports, responses>>
      BY <1>1
    <3>2. QED
      BY <1>2, <1>3, <2>2, <2>3, <2>4, <3>1, Marked
  <2>6. stage' \in [Case -> {"open", "decided"}] /\ ruled' \in [Case -> Assessed \cup {None}]
    BY <1>3, <2>1 DEF IInv, TypeOK
  <2>7. RuledUnderTerms'
    <3>1. Rests(c, assessment[c])
      BY <1>2, <1>3 DEF IInv, DecidedInv
    <3>2. QED
      BY <1>1, <2>1, <3>1 DEF IInv, TypeOK, RuledUnderTerms, Rests
  <2>8. QED
    BY <1>1, <1>2, <2>5, <2>6, <2>7, Applied
<1>5. CASE ~Ruleable(c)
  <2>1. UNCHANGED <<stage, ruled, assessment>>
    BY <1>5 DEF Apply
  <2>2. \A d : Attempts(d)' = Attempts(d) /\ (Decided(d)' <=> Decided(d))
    BY <2>1 DEF Attempts, Decided
  <2>3. DecidedInv'
    <3>1. \A d : Rests(d, assessment[d])' <=> Rests(d, assessment[d])
      BY <1>1, <2>1 DEF Rests
    <3>2. QED
      BY <1>1, <2>1, <2>2, <3>1 DEF IInv, DecidedInv
  <2>4. RuledUnderTerms'
    BY <1>1, <2>1 DEF IInv, RuledUnderTerms
  <2>5. assessment' \in [Case -> Assessed \cup {None}]
        /\ stage' \in [Case -> {"open", "decided"}] /\ ruled' \in [Case -> Assessed \cup {None}]
    BY <2>1 DEF IInv, TypeOK
  <2>6. QED
    BY <1>1, <1>2, <2>2, <2>3, <2>4, <2>5, Applied
<1>6. QED
  BY <1>4, <1>5

-----------------------------------------------------------------------------
(* The theorems.                                                           *)

LEMMA Stepping ==
  ASSUME IInv, [Next]_vars
  PROVE  IInv'
<1>1. CASE Sweep
  <2>1. config.profile \in Profile
    BY DEF IInv, TypeOK
  <2>2. QED
    BY <1>1, StartSweepKeeps, LoadKeeps, RefuseKeeps, AskKeeps, FailKeeps, AnswerStaleKeeps,
       AnswerKeeps, StartRetryKeeps, RetryNextKeeps, EndSweepKeeps, ApplyKeeps DEF Sweep
<1>2. CASE Restart
  BY <1>2, RestartKeeps
<1>3. CASE ~Sweep /\ ~Restart
  <2>1. TypeOK' /\ Outside
    BY <1>3, OutsideStep DEF Next, IInv
  <2>2. QED
    BY <2>1, OutsideKeeps
<1>4. QED
  BY <1>1, <1>2, <1>3

\* The strengthening the others rest on: a case comes up once in a sweep and
\* with attempts left, a decision keeps to the document it was read from.
THEOREM Inductive == Spec => []IInv
<1>1. Init => IInv
  BY InitHolds
<1>2. IInv /\ [Next]_vars => IInv'
  BY Stepping
<1>3. QED
  BY <1>1, <1>2, PTL DEF Spec

\* Every variable keeps to its type.
THEOREM Typing == Spec => []TypeOK
<1>1. IInv => TypeOK
  BY DEF IInv
<1>2. QED
  BY <1>1, Inductive, PTL

\* Requests to the model are charged to their case and end, but for those
\* whose document moved or that a restart lost (triage.rs assess).
THEOREM Calls == Spec => []CallsBounded
<1>1. ASSUME IInv PROVE CallsBounded
  <2> SUFFICES ASSUME NEW c \in Case
               PROVE  Attempts(c) <= MaxAttempts /\ calls[c] <= Attempts(c) + voided[c] + Asking(c)
    BY DEF CallsBounded
  <2>1. Attempts(c) <= MaxAttempts /\ calls[c] <= Attempts(c) + voided[c] + Owing(c)
    BY <1>1 DEF IInv, DueInv, CallsInv
  <2>2. Owing(c) \in {0, 1} /\ Asking(c) \in {0, 1} /\ (Owing(c) = 1 => Asking(c) = 1)
    BY DEF Owing, Asking
  <2>3. Attempts(c) \in Nat /\ calls[c] \in Nat /\ voided[c] \in Nat
    BY <1>1, AttemptsTyped DEF IInv, TypeOK
  <2>4. QED
    BY <2>1, <2>2, <2>3
<1>2. IInv => CallsBounded
  BY <1>1
<1>3. QED
  BY <1>2, Inductive, PTL

\* Whatever the service is restarted with, an automated ruling rests on a
\* reading by the consented profile (triage.rs assess, deadlines.rs).
THEOREM UnderTerms == Spec => []RuledUnderTerms
<1>1. IInv => RuledUnderTerms
  BY DEF IInv
<1>2. QED
  BY <1>1, Inductive, PTL

\* A recorded decision is one that the terms of its profile read out of the
\* stored output (profiles.rs evaluate, triage.rs assess).
THEOREM Readings == Spec => []VerdictsReadable
<1>1. IInv => VerdictsReadable
  BY DEF IInv, DecidedInv, Decided, Rests, VerdictsReadable
<1>2. QED
  BY <1>1, Inductive, PTL

\* Filing more never buys an acquittal, whatever the model's image budget
\* (triage.rs assess).
THEOREM NoAcquittal == Spec => []FloodingNeverAcquits
<1>1. ASSUME IInv, NEW c \in Case, NEW p \in Profile, p.maxImages > 0, Named(c) \subseteq viewable,
             Askable(c, p, [reports |-> Reported[c], responses |-> <<>>,
                            viewable |-> viewable \cap Range(Reported[c])])
      PROVE  Askable(c, p, DocumentOf(c))
  <2>1. Consented(c, p) /\ CanDecide(p, ClassOf[c]) /\ Reported[c] # <<>> /\ c \notin preserved
    BY <1>1 DEF Askable
  <2>2. DocumentOf(c).reports # <<>>
    BY <1>1, <2>1 DEF IInv, GrownInv, DocumentOf
  <2>3. Unresolved(DocumentOf(c)) = {}
    BY <1>1 DEF Unresolved, DocumentOf, Named
  <2>4. Reviewable(p, DocumentOf(c))
    BY <1>1 DEF Reviewable
  <2>5. QED
    BY <2>1, <2>2, <2>3, <2>4 DEF Askable
<1>2. IInv => FloodingNeverAcquits
  BY <1>1 DEF FloodingNeverAcquits
<1>3. QED
  BY <1>2, Inductive, PTL

\* An automated ruling rests on the record as it is when it is made, and on
\* no more than the reader could look at (triage.rs, decisions.rs apply_inner).
THEOREM ReadWhole == Spec => RulingReadWhole
<1> DEFINE Read == \A c \in Case : ruled'[c] # ruled[c] =>
                     /\ ruled'[c].document.reports = reports[c]
                     /\ ruled'[c].document.responses = responses[c]
                     /\ Named(c) \subseteq ruled'[c].document.viewable
<1>1. ASSUME IInv, [Next]_vars PROVE Read
  <2>1. CASE ruled' = ruled
    BY <2>1
  <2>2. CASE ruled' # ruled
    <3>1. Apply
      <4>1. CASE Sweep
        BY <2>2, <4>1 DEF Sweep, StartSweep, Load, Refuse, Ask, Fail, AnswerStale, Answer,
           StartRetry, RetryNext, EndSweep, caseVars
      <4>2. CASE Restart
        BY <2>2, <4>2 DEF Restart, caseVars
      <4>3. CASE ~Sweep /\ ~Restart
        BY <1>1, <2>2, <4>3, OutsideStep DEF Next, IInv, Outside
      <4>4. QED
        BY <4>1, <4>2, <4>3
    <3> PICK c : c = worker.case
      OBVIOUS
    <3>2. Ruleable(c) /\ ruled' = [ruled EXCEPT ![c] = assessment[c]]
      BY <2>2, <3>1 DEF Apply
    <3>3. c \in Case /\ Decided(c)
      BY <1>1, <3>1, WorkerShape DEF Apply, IInv, TypeOK, ApplyInv
    <3>4. /\ assessment[c].document.reports = reports[c]
          /\ assessment[c].document.responses = responses[c]
          /\ Unresolved(assessment[c].document) = {}
      BY <1>1, <3>2, <3>3 DEF IInv, DecidedInv, Rests, Ruleable, AtRevision
    <3>5. Named(c) \subseteq assessment[c].document.viewable
      BY <3>4 DEF Unresolved, Named
    <3>6. QED
      BY <1>1, <3>2, <3>3, <3>4, <3>5 DEF IInv, TypeOK
  <2>3. QED
    BY <2>1, <2>2
<1>2. IInv /\ [Next]_vars => [Read]_vars
  BY <1>1
<1>3. QED
  BY <1>2, Inductive, PTL DEF Spec, RulingReadWhole

=============================================================================
