--------------------------- MODULE Panel_proofs ---------------------------
(***************************************************************************)
(* Proofs about Panel: for any number of holders, moderators and claims,   *)
(* an answer stands and every grant in the world is on record.             *)
(***************************************************************************)
EXTENDS Panel, TLAPS

\* What is signed for a form is a grant, and differs from no grant at all.
LEMMA SignedGrant ==
  ASSUME NEW f \in Form
  PROVE  Signed(f) \in Grants /\ Signed(f) # None /\ Signed(f).holder = f.holder
<1>1. Signed(f) \in Grants
  BY PanelAssumption DEF Signed, Form, Grants
<1>2. Signed(f) # None
  BY <1>1, PanelAssumption DEF Grants
<1>3. Signed(f).holder = f.holder
  BY DEF Signed
<1>4. QED
  BY <1>1, <1>2, <1>3

\* A claim on file is a row, and every row differs from the one not there.
LEMMA OnFile ==
  ASSUME TypeOK, NEW c \in ClaimId
  PROVE  /\ claims[c] # Unfiled => claims[c] \in Claim
         /\ claims[c].state \in {"open", "granted", "refused"} => claims[c] # Unfiled
         /\ claims[c].holder \in Holder => claims[c] # Unfiled
         /\ claims[c].grant # None => claims[c].grant \in Grants
<1>1. claims[c] \in Claim \cup {Unfiled}
  BY DEF TypeOK
<1>2. Unfiled.state = "unfiled" /\ Unfiled.holder = None /\ Unfiled.grant = None
  BY DEF Unfiled
<1>3. QED
  BY <1>1, <1>2, PanelAssumption DEF Claim

\* An answered row: what Answer puts in the place of an open one.
LEMMA AnsweredRow ==
  ASSUME NEW f \in Form, TypeOK, claims[f.claim].state = "open",
         claims[f.claim].holder = f.holder, RowInv
  PROVE  /\ Answered(f) \in Claim
         /\ Answered(f).state \in {"granted", "refused"}
         /\ Answered(f).holder = f.holder
         /\ Answered(f).state = "granted" <=> f.outcome = "grant"
         /\ f.outcome = "grant" =>
              Answered(f).grant = Signed(f) /\ Answered(f).case = f.case
         /\ f.outcome = "refuse" => Answered(f).grant = None /\ Answered(f).case = None
<1>1. f.claim \in ClaimId /\ f.holder \in Holder /\ f.outcome \in {"grant", "refuse"}
      /\ f.case \in Case \cup {None}
  BY DEF Form
<1>2. claims[f.claim] \in Claim
  BY <1>1, OnFile
<1>3. CASE f.outcome = "grant"
  BY <1>1, <1>3, SignedGrant DEF Answered, Claim
<1>4. CASE f.outcome = "refuse"
  <2>1. claims[f.claim].grant = None /\ claims[f.claim].case = None
    BY <1>1 DEF RowInv
  <2>2. Answered(f) = [claims[f.claim] EXCEPT !.state = "refused"]
    BY <1>4 DEF Answered
  <2>3. QED
    BY <1>2, <1>4, <2>1, <2>2 DEF Claim
<1>5. QED
  BY <1>1, <1>3, <1>4

\* Types.
LEMMA TypingStep ==
  ASSUME TypeOK, FormInv, RowInv, [Next]_vars
  PROVE  TypeOK'
<1> USE PanelAssumption DEF TypeOK
<1>1. ASSUME NEW h \in Holder, NEW c \in ClaimId, File(h, c) PROVE TypeOK'
  BY <1>1 DEF File, Claim
<1>2. ASSUME NEW h \in Holder, NEW c \in ClaimId, Poll(h, c) PROVE TypeOK'
  <2>1. claims[c].grant \in Grants
    BY <1>2, OnFile DEF Poll
  <2>2. QED
    BY <1>2, <2>1 DEF Poll
<1>3. ASSUME NEW h \in Holder, NEW g \in held[h], Redeem(h, g) PROVE TypeOK'
  BY <1>3 DEF Redeem
<1>4. ASSUME NEW m \in Moderator, Login(m) PROVE TypeOK'
  <2>1. logins' \in Nat /\ now + SessionHours \in Nat
    BY <1>4 DEF Login
  <2>2. sessions' \subseteq [token : Nat, until : Nat]
    BY <1>4, <2>1 DEF Login
  <2>3. QED
    BY <1>4, <2>1, <2>2 DEF Login
<1>5. ASSUME NEW m \in Moderator, Logout(m) PROVE TypeOK'
  BY <1>5 DEF Logout
<1>6. ASSUME NEW m \in Moderator, NEW c \in ClaimId, ShowClaim(m, c) PROVE TypeOK'
  BY <1>6 DEF ShowClaim
<1>7. ASSUME NEW m \in Moderator, NEW o \in {"grant", "refuse"}, NEW k \in Case \cup {None},
             SendForm(m, o, k)
      PROVE  TypeOK'
  <2>1. page[m] \in ClaimId /\ claims[page[m]].holder \in Holder
    BY <1>7, OnFile DEF SendForm, FormInv, PageStands, Claim
  <2>2. work'[m] \in Form
    BY <1>7, <2>1 DEF SendForm, Form
  <2>3. QED
    BY <1>7, <2>2 DEF SendForm
<1>8. ASSUME NEW m \in Moderator, ReadCase(m) PROVE TypeOK'
  <2>1. [work[m] EXCEPT !.step = "answer"] \in Form
    BY <1>8 DEF ReadCase, Form
  <2>2. QED
    BY <1>8, <2>1 DEF ReadCase
<1>9. ASSUME NEW m \in Moderator, Answer(m) PROVE TypeOK'
  <2> DEFINE f == work[m]
  <2>1. f \in Form /\ f.claim \in ClaimId /\ claims[f.claim].holder = f.holder
    BY <1>9 DEF Answer, Form, FormInv, FormStands
  <2>2. claims' \in [ClaimId -> Claim \cup {Unfiled}]
    <3>1. CASE claims[f.claim].state = "open"
      BY <1>9, <2>1, <3>1, AnsweredRow DEF Answer, StillOpen
    <3>2. QED
      BY <1>9, <3>1 DEF Answer, StillOpen
  <2>3. ledger' \in Seq(Entry)
    <3>1. f.case \in Case \cup {None} /\ Signed(f) \in Grants
      BY <2>1, SignedGrant DEF Form
    <3>2. f.case # None => EventFor(f) \in Entry
      BY <2>1, <3>1 DEF EventFor, Entry
    <3>3. QED
      BY <1>9, <3>2 DEF Answer, Recorded
  <2>4. QED
    BY <1>9, <2>2, <2>3 DEF Answer
<1>10. ASSUME NEW k \in Case, Dispose(k) PROVE TypeOK'
  BY <1>10 DEF Dispose
<1>11. CASE Tick \/ Restart
  BY <1>11 DEF Tick, Restart
<1>12. CASE UNCHANGED vars
  BY <1>12 DEF vars
<1>13. QED
  BY <1>1, <1>2, <1>3, <1>4, <1>5, <1>6, <1>7, <1>8, <1>9, <1>10, <1>11, <1>12
  DEF Next, HolderStep, ModeratorStep

-----------------------------------------------------------------------------
\* How a step moves the claims: one is filed where none was, or an open one
\* is answered as its form says.
Filed(c) ==
  \E h \in Holder : /\ claims[c] = Unfiled
                    /\ claims' = [claims EXCEPT ![c] = [state |-> "open", holder |-> h,
                                                        case |-> None, grant |-> None]]
                    /\ UNCHANGED <<page, work, disposed, ledger, held, redeemed>>

AnsweredBy(m) ==
  /\ work[m] # None /\ work[m] \in Form /\ claims[work[m].claim].state = "open"
  /\ claims' = [claims EXCEPT ![work[m].claim] = Answered(work[m])]

LEMMA ClaimSteps ==
  ASSUME TypeOK, [Next]_vars
  PROVE  \/ claims' = claims
         \/ \E c \in ClaimId : Filed(c)
         \/ \E m \in Moderator : AnsweredBy(m) /\ Answer(m)
<1>1. ASSUME NEW h \in Holder, NEW c \in ClaimId, File(h, c) PROVE Filed(c)
  BY <1>1 DEF File, Filed
<1>2. ASSUME NEW m \in Moderator, Answer(m) PROVE claims' = claims \/ AnsweredBy(m)
  BY <1>2 DEF Answer, AnsweredBy, StillOpen, TypeOK
<1>3. QED
  BY <1>1, <1>2 DEF Next, HolderStep, ModeratorStep, Poll, Redeem, Login, Logout, ShowClaim,
                    SendForm, ReadCase, Dispose, Tick, Restart, vars

\* A claim on file keeps its holder, and an answered one its row.
LEMMA ClaimsKept ==
  ASSUME TypeOK, FormInv, RowInv, [Next]_vars, NEW c \in ClaimId
  PROVE  /\ claims[c] # Unfiled => claims'[c] # Unfiled /\ claims'[c].holder = claims[c].holder
         /\ claims[c].state \in {"granted", "refused"} => claims'[c] = claims[c]
<1>1. CASE claims' = claims
  BY <1>1
<1>2. CASE \E d \in ClaimId : Filed(d)
  BY <1>2 DEF Filed, TypeOK, Unfiled
<1>3. CASE \E m \in Moderator : AnsweredBy(m)
  <2> PICK m \in Moderator : AnsweredBy(m)
    BY <1>3
  <2>1. work[m].claim \in ClaimId /\ claims[work[m].claim].holder = work[m].holder
    BY PanelAssumption DEF AnsweredBy, Form, FormInv, FormStands, TypeOK
  <2>2. Answered(work[m]) \in Claim /\ Answered(work[m]).holder = work[m].holder
    BY <2>1, AnsweredRow DEF AnsweredBy
  <2>3. Answered(work[m]) # Unfiled
    BY <2>2, PanelAssumption DEF Claim, Unfiled
  <2>4. QED
    BY <2>1, <2>2, <2>3 DEF AnsweredBy, TypeOK
<1>4. QED
  BY <1>1, <1>2, <1>3, ClaimSteps

\* Rows.
LEMMA RowStep ==
  ASSUME TypeOK, FormInv, RowInv, [Next]_vars
  PROVE  RowInv'
<1> SUFFICES ASSUME NEW c \in ClaimId
             PROVE  /\ claims'[c].state = "granted" <=> claims'[c].grant # None
                    /\ claims'[c].case # None => claims'[c].state = "granted"
                    /\ claims'[c].grant # None => claims'[c].grant.holder = claims'[c].holder
  BY DEF RowInv
<1>1. CASE claims' = claims
  BY <1>1 DEF RowInv
<1>2. CASE \E d \in ClaimId : Filed(d)
  BY <1>2 DEF Filed, RowInv, TypeOK
<1>3. CASE \E m \in Moderator : AnsweredBy(m)
  <2> PICK m \in Moderator : AnsweredBy(m)
    BY <1>3
  <2>1. work[m].claim \in ClaimId /\ claims[work[m].claim].holder = work[m].holder
    BY PanelAssumption DEF AnsweredBy, Form, FormInv, FormStands, TypeOK
  <2>2. CASE c = work[m].claim
    BY <2>1, <2>2, AnsweredRow, SignedGrant DEF AnsweredBy, TypeOK, Form
  <2>3. CASE c # work[m].claim
    BY <2>1, <2>3 DEF AnsweredBy, TypeOK, RowInv
  <2>4. QED
    BY <2>2, <2>3
<1>4. QED
  BY <1>1, <1>2, <1>3, ClaimSteps

\* Cases once disposed of stay so.
LEMMA DisposedStays ==
  ASSUME [Next]_vars PROVE disposed \subseteq disposed'
BY DEF Next, HolderStep, ModeratorStep, File, Poll, Redeem, Login, Logout, ShowClaim,
       SendForm, ReadCase, Answer, Dispose, Tick, Restart, vars

\* Pages and forms.
LEMMA FormStep ==
  ASSUME TypeOK, FormInv, RowInv, [Next]_vars
  PROVE  FormInv'
<1> SUFFICES ASSUME NEW n \in Moderator
             PROVE  PageStands(n)' /\ FormStands(n)'
  BY DEF FormInv
<1>1. \A c \in ClaimId : claims[c] # Unfiled =>
        claims'[c] # Unfiled /\ claims'[c].holder = claims[c].holder
  BY ClaimsKept
<1>2. /\ page[n] \in ClaimId \cup {None}
      /\ work[n] # None => work[n].claim \in ClaimId /\ work[n] \in Form
      /\ PageStands(n) /\ FormStands(n)
  BY DEF TypeOK, Form, FormInv
<1>3. ASSUME page'[n] = page[n] PROVE PageStands(n)'
  BY <1>1, <1>2, <1>3 DEF PageStands
<1>4. ASSUME work'[n] = work[n] \/ work'[n] = None PROVE FormStands(n)'
  BY <1>1, <1>2, <1>4, DisposedStays DEF FormStands
<1>5. ASSUME NEW m \in Moderator, NEW c \in ClaimId, ShowClaim(m, c)
      PROVE  PageStands(n)' /\ FormStands(n)'
  <2>1. work' = work /\ claims' = claims /\ claims[c] # Unfiled
    BY <1>5, OnFile DEF ShowClaim, Open
  <2>2. page'[n] = IF n = m THEN c ELSE page[n]
    BY <1>5 DEF ShowClaim, TypeOK
  <2>3. QED
    BY <1>2, <1>4, <2>1, <2>2 DEF PageStands
<1>6. ASSUME NEW m \in Moderator, NEW o \in {"grant", "refuse"}, NEW k \in Case \cup {None},
             SendForm(m, o, k)
      PROVE  PageStands(n)' /\ FormStands(n)'
  <2>1. page' = page /\ claims' = claims /\ (n # m => work'[n] = work[n])
    BY <1>6 DEF SendForm, TypeOK
  <2>2. CASE n = m
    <3>1. claims[page[m]] # Unfiled
      BY <1>2, <1>6, <2>2 DEF SendForm, PageStands
    <3>2. work'[m] = [claim |-> page[m], holder |-> claims[page[m]].holder, outcome |-> o,
                      case |-> k, at |-> now,
                      step |-> IF k = None THEN "answer" ELSE "case"]
      BY <1>6 DEF SendForm, TypeOK
    <3>3. o = "refuse" => k = None
      BY <1>6 DEF SendForm
    <3>4. QED
      BY <1>3, <2>1, <2>2, <3>1, <3>2, <3>3 DEF FormStands
  <2>3. QED
    BY <1>3, <1>4, <2>1, <2>2
<1>7. ASSUME NEW m \in Moderator, ReadCase(m) PROVE PageStands(n)' /\ FormStands(n)'
  <2>1. page' = page /\ claims' = claims /\ disposed' = disposed
        /\ (n # m => work'[n] = work[n])
    BY <1>7 DEF ReadCase, TypeOK
  <2>2. CASE n = m
    <3>1. CASE work[m].case \in disposed
      <4>1. work'[m] = [work[m] EXCEPT !.step = "answer"]
        BY <1>7, <3>1 DEF ReadCase, Grantable, TypeOK
      <4>2. work[m] \in Form /\ work[m] # None
        BY <1>7 DEF ReadCase, TypeOK
      <4>3. QED
        BY <1>2, <1>3, <2>1, <2>2, <3>1, <4>1, <4>2 DEF FormStands, Form
    <3>2. CASE work[m].case \notin disposed
      <4>1. work'[m] = None
        BY <1>7, <3>2 DEF ReadCase, Grantable, TypeOK
      <4>2. QED
        BY <1>3, <1>4, <2>1, <2>2, <4>1
    <3>3. QED
      BY <3>1, <3>2
  <2>3. QED
    BY <1>3, <1>4, <2>1, <2>2
<1>8. ASSUME NEW m \in Moderator, Answer(m) PROVE PageStands(n)' /\ FormStands(n)'
  BY <1>3, <1>4, <1>8 DEF Answer, TypeOK
<1>9. CASE Restart
  BY <1>3, <1>4, <1>9 DEF Restart
<1>10. QED
  BY <1>3, <1>4, <1>5, <1>6, <1>7, <1>8, <1>9
  DEF Next, HolderStep, ModeratorStep, File, Poll, Redeem, Login, Logout, Dispose, Tick, vars

-----------------------------------------------------------------------------
\* What is handed out and spent.
LEMMA HandedStep ==
  ASSUME TypeOK, FormInv, RowInv, SpentInv, HandedIsRecorded, [Next]_vars
  PROVE  SpentInv' /\ HandedIsRecorded'
<1> DEFINE OnClaim(h, g) == \E c \in ClaimId : /\ claims[c].state = "granted"
                                             /\ claims[c].holder = h /\ claims[c].grant = g
<1>1. \A h \in Holder : \A g \in held[h] : OnClaim(h, g)
  BY DEF HandedIsRecorded
<1>2. \A h \in Holder : \A g : OnClaim(h, g) => OnClaim(h, g)'
  BY ClaimsKept
<1>3. ASSUME \A h \in Holder : \A g \in held'[h] : OnClaim(h, g)',
             \A g \in redeemed' : g.holder \in Holder /\ g \in held'[g.holder]
      PROVE  SpentInv' /\ HandedIsRecorded'
  BY <1>3 DEF SpentInv, HandedIsRecorded
<1>4. \A g \in redeemed : g.holder \in Holder /\ g \in held[g.holder]
  BY DEF SpentInv, TypeOK, Grants
<1>5. ASSUME held' = held, redeemed' = redeemed PROVE SpentInv' /\ HandedIsRecorded'
  BY <1>1, <1>2, <1>3, <1>4, <1>5
<1>6. ASSUME NEW h \in Holder, NEW c \in ClaimId, Poll(h, c)
      PROVE  SpentInv' /\ HandedIsRecorded'
  <2>1. OnClaim(h, claims[c].grant)
    BY <1>6 DEF Poll, RowInv
  <2>2. /\ held' = [held EXCEPT ![h] = @ \cup {claims[c].grant}]
        /\ redeemed' = redeemed
    BY <1>6 DEF Poll
  <2>3. \A i \in Holder : held'[i] = IF i = h THEN held[h] \cup {claims[c].grant} ELSE held[i]
    BY <2>2 DEF TypeOK
  <2>4. QED
    BY <1>1, <1>2, <1>3, <1>4, <2>1, <2>2, <2>3
<1>7. ASSUME NEW h \in Holder, NEW g \in held[h], Redeem(h, g)
      PROVE  SpentInv' /\ HandedIsRecorded'
  BY <1>1, <1>2, <1>3, <1>4, <1>7 DEF Redeem
<1>8. QED
  BY <1>5, <1>6, <1>7 DEF Next, HolderStep, ModeratorStep, File, Login, Logout, ShowClaim,
                          SendForm, ReadCase, Answer, Dispose, Tick, Restart, vars

\* The grants bound to a case, as entries of its ledger.
Bound == {[case |-> claims[c].case, claim |-> c, grant |-> claims[c].grant] :
            c \in {x \in ClaimId : claims[x].state = "granted" /\ claims[x].case # None}}

LEMMA LedgerStep ==
  ASSUME TypeOK, FormInv, RowInv, LedgerAccounts, [Next]_vars
  PROVE  LedgerAccounts'
<1>1. CASE claims' = claims
  <2>1. ledger' = ledger
    <3>1. ASSUME NEW m \in Moderator, Answer(m) PROVE ledger' = ledger
      <4>1. CASE claims[work[m].claim].state = "open"
        <5>1. work[m] \in Form /\ work[m].claim \in ClaimId
              /\ claims[work[m].claim].holder = work[m].holder
          BY <3>1 DEF Answer, TypeOK, Form, FormInv, FormStands
        <5>2. Answered(work[m]).state # "open"
          BY <4>1, <5>1, AnsweredRow
        <5>3. claims'[work[m].claim] = Answered(work[m])
          BY <3>1, <4>1, <5>1 DEF Answer, StillOpen, TypeOK
        <5>4. QED
          BY <1>1, <4>1, <5>2, <5>3
      <4>2. CASE claims[work[m].claim].state # "open"
        BY <3>1, <4>2 DEF Answer, Recorded, StillOpen
      <4>3. QED
        BY <4>1, <4>2
    <3>2. QED
      BY <3>1 DEF Next, HolderStep, ModeratorStep, File, Poll, Redeem, Login, Logout,
                  ShowClaim, SendForm, ReadCase, Dispose, Tick, Restart, vars
  <2>2. QED
    BY <1>1, <2>1 DEF LedgerAccounts
<1>2. CASE \E d \in ClaimId : Filed(d)
  <2> PICK d \in ClaimId : Filed(d)
    BY <1>2
  <2>1. ledger' = ledger
    BY DEF Filed
  <2>2. \A c \in ClaimId :
          /\ claims'[c].state = "granted" <=> claims[c].state = "granted"
          /\ claims[c].state = "granted" => claims'[c] = claims[c]
    BY DEF Filed, TypeOK, Unfiled
  <2>3. Bound' = Bound
    BY <2>2 DEF Bound
  <2>4. QED
    BY <2>1, <2>3 DEF LedgerAccounts, Bound
<1>3. CASE \E m \in Moderator : AnsweredBy(m) /\ Answer(m)
  <2> PICK m \in Moderator : AnsweredBy(m) /\ Answer(m)
    BY <1>3
  <2> DEFINE f == work[m]
  <2>1. /\ f \in Form /\ f.claim \in ClaimId /\ f.case \in Case \cup {None}
        /\ claims[f.claim].state = "open" /\ claims[f.claim].holder = f.holder
        /\ f.outcome = "refuse" => f.case = None
    BY DEF AnsweredBy, TypeOK, Form, FormInv, FormStands
  <2>2. \A c \in ClaimId : claims'[c] = IF c = f.claim THEN Answered(f) ELSE claims[c]
    BY <2>1 DEF AnsweredBy, TypeOK
  <2>3. CASE f.case = None
    <3>1. ledger' = ledger
      BY <2>3 DEF Answer, Recorded
    <3>2. Answered(f).case = None
      BY <2>1, <2>3, AnsweredRow DEF Form
    <3>3. Bound' = Bound
      BY <2>1, <2>2, <3>2 DEF Bound
    <3>4. QED
      BY <3>1, <3>3 DEF LedgerAccounts, Bound
  <2>4. CASE f.case # None
    <3>1. ledger' = Append(ledger, EventFor(f)) /\ ledger \in Seq(Entry)
      BY <2>1, <2>4 DEF Answer, Recorded, StillOpen, TypeOK
    <3>2. /\ Answered(f).case = f.case /\ Answered(f).grant = Signed(f)
          /\ Answered(f).state = "granted"
      BY <2>1, <2>4, AnsweredRow DEF Form
    <3>3. Bound' = Bound \cup {EventFor(f)}
      BY <2>1, <2>2, <2>4, <3>2 DEF Bound, EventFor
    <3>4. /\ Len(ledger') = Len(ledger) + 1 /\ ledger'[Len(ledger) + 1] = EventFor(f)
          /\ \A i \in 1..Len(ledger) : ledger'[i] = ledger[i]
          /\ Len(ledger) \in Nat
      BY <3>1
    <3>5. {ledger'[i] : i \in 1..Len(ledger')} = {ledger[i] : i \in 1..Len(ledger)} \cup {EventFor(f)}
      BY <3>4
    <3>6. \A i \in 1..Len(ledger) : ledger[i].claim # f.claim
      <4>1. \A e \in Bound : e.claim # f.claim
        BY <2>1 DEF Bound
      <4>2. QED
        BY <4>1 DEF LedgerAccounts, Bound
    <3>7. EventFor(f).claim = f.claim
      BY DEF EventFor
    <3>8. \A i, j \in 1..Len(ledger') : ledger'[i].claim = ledger'[j].claim => i = j
      BY <3>4, <3>6, <3>7 DEF LedgerAccounts
    <3>9. QED
      BY <3>3, <3>5, <3>8 DEF LedgerAccounts, Bound
  <2>5. QED
    BY <2>3, <2>4
<1>4. QED
  BY <1>1, <1>2, <1>3, ClaimSteps

\* A granted case has its disposition.
LEMMA FollowStep ==
  ASSUME TypeOK, FormInv, RowInv, GrantsFollowDecisions, [Next]_vars
  PROVE  GrantsFollowDecisions'
<1>1. CASE claims' = claims
  BY <1>1, DisposedStays DEF GrantsFollowDecisions
<1>2. CASE \E d \in ClaimId : Filed(d)
  BY <1>2, DisposedStays DEF Filed, GrantsFollowDecisions, TypeOK
<1>3. CASE \E m \in Moderator : AnsweredBy(m) /\ Answer(m)
  <2> PICK m \in Moderator : AnsweredBy(m) /\ Answer(m)
    BY <1>3
  <2>1. /\ work[m] \in Form /\ work[m].claim \in ClaimId /\ work[m].outcome \in {"grant", "refuse"}
        /\ claims[work[m].claim].state = "open"
        /\ claims[work[m].claim].holder = work[m].holder
        /\ work[m].case # None => work[m].case \in disposed
    BY DEF AnsweredBy, Answer, TypeOK, Form, FormInv, FormStands
  <2>2. Answered(work[m]).case # None => Answered(work[m]).case \in disposed
    BY <2>1, AnsweredRow
  <2>3. \A c \in ClaimId :
          claims'[c] = IF c = work[m].claim THEN Answered(work[m]) ELSE claims[c]
    BY <2>1 DEF AnsweredBy, TypeOK
  <2>4. QED
    BY <2>2, <2>3, DisposedStays DEF GrantsFollowDecisions
<1>4. QED
  BY <1>1, <1>2, <1>3, ClaimSteps

-----------------------------------------------------------------------------
\* The inductive invariant holds of every behaviour.
THEOREM Inductive == Spec => []IInv
<1>1. Init => IInv
  <2> SUFFICES ASSUME Init PROVE IInv
    OBVIOUS
  <2> USE PanelAssumption DEF Init
  <2>1. TypeOK
    BY DEF TypeOK
  <2>2. RowInv /\ FormInv /\ SpentInv /\ HandedIsRecorded /\ GrantsFollowDecisions
    BY DEF RowInv, FormInv, PageStands, FormStands, SpentInv, HandedIsRecorded,
           GrantsFollowDecisions, Unfiled
  <2>3. LedgerAccounts
    BY DEF LedgerAccounts, Unfiled
  <2>4. QED
    BY <2>1, <2>2, <2>3 DEF IInv
<1>2. IInv /\ [Next]_vars => IInv'
  BY TypingStep, RowStep, FormStep, HandedStep, LedgerStep, FollowStep DEF IInv
<1>3. QED
  BY <1>1, <1>2, PTL DEF Spec

\* Every row, page and form keeps its type.
THEOREM Typing == Spec => []TypeOK
<1>1. IInv => TypeOK
  BY DEF IInv
<1>2. QED
  BY <1>1, Inductive, PTL

\* What holders were handed and the interface spent is on record, on the
\* claim and in the ledger of its case.
THEOREM Accounted == Spec => []GrantsAccounted
<1>1. IInv => GrantsAccounted
  BY DEF IInv, GrantsAccounted
<1>2. QED
  BY <1>1, Inductive, PTL

\* Grants bound to a case follow its decision.
THEOREM Followed == Spec => []GrantsFollowDecisions
<1>1. IInv => GrantsFollowDecisions
  BY DEF IInv
<1>2. QED
  BY <1>1, Inductive, PTL

\* However many moderators answer a claim, from whatever page, the first
\* answer is the claim's only one.
THEOREM Answers == Spec => AnswersStand
<1>1. IInv /\ [Next]_vars =>
        [\A c \in ClaimId : claims[c].state \in {"granted", "refused"}
                             => claims'[c] = claims[c]]_vars
  BY ClaimsKept DEF IInv
<1>2. QED
  BY <1>1, Inductive, PTL DEF Spec, AnswersStand
=============================================================================
