------------------------------- MODULE Panel -------------------------------
(***************************************************************************)
(* Device-recovery claims: a holder files one with a key of its own, a     *)
(* moderator answers it from the panel, and the holder polls the answer    *)
(* and presents the signed grant at the interface.                         *)
(*                                                                         *)
(* A moderator works from a page that may be old by the time its form is   *)
(* sent, and the handler of the form takes the store once for the session  *)
(* and the claim, once for the case, and once to answer: other moderators, *)
(* the case, the clock and a restart move in between.  Sessions, claims    *)
(* and the case's ledger are rows and survive a restart; requests do not.  *)
(***************************************************************************)
EXTENDS Integers, FiniteSets, Sequences

CONSTANTS
  Holder,       \* keys that file claims
  Moderator,    \* browsers the panel is open in
  ClaimId, Case,
  None,
  MaxOpen,      \* MAX_OPEN_RECOVERY_CLAIMS
  SessionHours, \* SESSION_HOURS, in ticks
  GrantLife,    \* the interface's GRANT_MAX_AGE, in ticks
  MaxTime,      \* bound: the last tick of the clock
  MaxLogins     \* bound: sessions ever created

ASSUME PanelAssumption ==
  /\ {MaxOpen, SessionHours, GrantLife, MaxTime, MaxLogins} \subseteq Nat
  /\ None \notin Holder \cup ClaimId \cup Case
  /\ ClaimId \cap Case = {}
  /\ None \notin [subject : Case \cup ClaimId, holder : Holder, at : Nat]

VARIABLES
  now,
  sessions,  \* admin_sessions: tokens and their expires_at
  logins,    \* the tokens drawn so far
  cookie,    \* the token each browser holds, 0 for none
  page,      \* the claim each browser shows with a decision form
  claims,    \* recovery_claims
  disposed,  \* the cases with a disposition
  ledger,    \* case_events of kind recovery_grant_issued, in order
  work,      \* the form each browser has in flight
  held,      \* the grants each holder was handed
  redeemed   \* the grants the interface recorded as spent

vars == <<now, sessions, logins, cookie, page, claims, disposed, ledger, work,
          held, redeemed>>

Grants == [subject : Case \cup ClaimId, holder : Holder, at : Nat]
Unfiled == [state |-> "unfiled", holder |-> None, case |-> None, grant |-> None]
Claim == [state : {"open", "granted", "refused"}, holder : Holder,
          case : Case \cup {None}, grant : Grants \cup {None}]
Form == [claim : ClaimId, holder : Holder, outcome : {"grant", "refuse"},
         case : Case \cup {None}, at : Nat, step : {"case", "answer"}]
Entry == [case : Case, claim : ClaimId, grant : Grants]

TypeOK ==
  /\ now \in Nat /\ logins \in Nat
  /\ sessions \subseteq [token : Nat, until : Nat]
  /\ cookie \in [Moderator -> Nat]
  /\ page \in [Moderator -> ClaimId \cup {None}]
  /\ claims \in [ClaimId -> Claim \cup {Unfiled}]
  /\ disposed \subseteq Case
  /\ ledger \in Seq(Entry)
  /\ work \in [Moderator -> Form \cup {None}]
  /\ held \in [Holder -> SUBSET Grants]
  /\ redeemed \subseteq Grants

Init ==
  /\ now = 0 /\ logins = 0 /\ sessions = {}
  /\ cookie = [m \in Moderator |-> 0]
  /\ page = [m \in Moderator |-> None]
  /\ claims = [c \in ClaimId |-> Unfiled]
  /\ disposed = {} /\ ledger = <<>>
  /\ work = [m \in Moderator |-> None]
  /\ held = [h \in Holder |-> {}]
  /\ redeemed = {}

----------------------------------------------------------------------------
(* Filing and polling, by the holder's key. *)

Open == {c \in ClaimId : claims[c].state = "open"}
RoomFor(h) ==
  /\ \A c \in Open : claims[c].holder # h
  /\ Cardinality(Open) < MaxOpen

File(h, c) ==
  /\ claims[c] = Unfiled
  /\ RoomFor(h)
  /\ claims' = [claims EXCEPT ![c] = [state |-> "open", holder |-> h,
                                      case |-> None, grant |-> None]]
  /\ UNCHANGED <<now, sessions, logins, cookie, page, disposed, ledger, work, held, redeemed>>

\* The bytes of the grant are answered to the key the claim names alone.
Poll(h, c) ==
  /\ claims[c].holder = h
  /\ claims[c].grant # None
  /\ held' = [held EXCEPT ![h] = @ \cup {claims[c].grant}]
  /\ UNCHANGED <<now, sessions, logins, cookie, page, claims, disposed, ledger, work, redeemed>>

\* The interface's part: a grant is spent by the key it names, once, while
\* it is young.  (What a spent grant moves is in Enforcement.)
Redeem(h, g) ==
  /\ g \in held[h] \ redeemed
  /\ g.holder = h
  /\ now - g.at <= GrantLife
  /\ redeemed' = redeemed \cup {g}
  /\ UNCHANGED <<now, sessions, logins, cookie, page, claims, disposed, ledger, work, held>>

----------------------------------------------------------------------------
(* Sessions.  A login draws a fresh token and sweeps what has expired. *)

Authenticated(m) ==
  \E s \in sessions : s.token = cookie[m] /\ s.until > now

Login(m) ==
  /\ logins < MaxLogins
  /\ logins' = logins + 1
  /\ sessions' = {s \in sessions : s.until >= now}
                   \cup {[token |-> logins', until |-> now + SessionHours]}
  /\ cookie' = [cookie EXCEPT ![m] = logins']
  /\ UNCHANGED <<now, page, claims, disposed, ledger, work, held, redeemed>>

Logout(m) ==
  /\ cookie[m] # 0
  /\ sessions' = {s \in sessions : s.token # cookie[m]}
  /\ cookie' = [cookie EXCEPT ![m] = 0]
  /\ UNCHANGED <<now, logins, page, claims, disposed, ledger, work, held, redeemed>>

----------------------------------------------------------------------------
(* The panel's page for one claim, and the form on it. *)

ShowClaim(m, c) ==
  /\ Authenticated(m)
  /\ c \in Open
  /\ page' = [page EXCEPT ![m] = c]
  /\ UNCHANGED <<now, sessions, logins, cookie, claims, disposed, ledger, work, held, redeemed>>

\* recovery_claim_decide up to the clock it reads.  A blank case asks for an
\* unban grant that names none.
SendForm(m, outcome, k) ==
  /\ work[m] = None
  /\ page[m] # None
  /\ Authenticated(m)
  /\ outcome = "refuse" => k = None
  /\ work' = [work EXCEPT ![m] =
       [claim |-> page[m], holder |-> claims[page[m]].holder, outcome |-> outcome, case |-> k,
        at |-> now, step |-> IF k = None THEN "answer" ELSE "case"]]
  /\ UNCHANGED <<now, sessions, logins, cookie, page, claims, disposed, ledger, held, redeemed>>

\* A grant against an undecided case would race the case itself: the form
\* ends there.
Grantable(k) == k \in disposed

ReadCase(m) ==
  /\ work[m] # None /\ work[m].step = "case"
  /\ work' = [work EXCEPT ![m] = IF Grantable(@.case) THEN [@ EXCEPT !.step = "answer"]
                                 ELSE None]
  /\ UNCHANGED <<now, sessions, logins, cookie, page, claims, disposed, ledger, held, redeemed>>

Signed(f) ==
  [subject |-> IF f.case = None THEN f.claim ELSE f.case, holder |-> f.holder, at |-> f.at]

\* The WHERE clause of both answers.
StillOpen(c) == claims[c].state = "open"

Answered(f) ==
  IF f.outcome = "grant"
  THEN [state |-> "granted", holder |-> f.holder, case |-> f.case, grant |-> Signed(f)]
  ELSE [claims[f.claim] EXCEPT !.state = "refused"]

\* The ledger with the event of a grant bound to a case; a mutant writes it
\* before the update is known to have found its row.
EventFor(f) == [case |-> f.case, claim |-> f.claim, grant |-> Signed(f)]
RecordedRegardless(f) == IF f.case = None THEN ledger ELSE Append(ledger, EventFor(f))
Recorded(f) ==
  IF f.case = None \/ ~StillOpen(f.claim) THEN ledger ELSE Append(ledger, EventFor(f))

Answer(m) ==
  /\ work[m] # None /\ work[m].step = "answer"
  /\ LET f == work[m] IN
       /\ claims' = IF StillOpen(f.claim) THEN [claims EXCEPT ![f.claim] = Answered(f)]
                    ELSE claims
       /\ ledger' = Recorded(f)
  /\ work' = [work EXCEPT ![m] = None]
  /\ UNCHANGED <<now, sessions, logins, cookie, page, disposed, held, redeemed>>

----------------------------------------------------------------------------
(* The rest of the system: a case gets its disposition, the clock moves,   *)
(* the service restarts.                                                   *)

Dispose(k) ==
  /\ k \notin disposed
  /\ disposed' = disposed \cup {k}
  /\ UNCHANGED <<now, sessions, logins, cookie, page, claims, ledger, work, held, redeemed>>

Tick ==
  /\ now < MaxTime
  /\ now' = now + 1
  /\ UNCHANGED <<sessions, logins, cookie, page, claims, disposed, ledger, work, held, redeemed>>

Restart ==
  /\ \E m \in Moderator : work[m] # None
  /\ work' = [m \in Moderator |-> None]
  /\ UNCHANGED <<now, sessions, logins, cookie, page, claims, disposed, ledger, held, redeemed>>

HolderStep(h) ==
  \/ \E c \in ClaimId : File(h, c) \/ Poll(h, c)
  \/ \E g \in held[h] : Redeem(h, g)

ModeratorStep(m) ==
  \/ Login(m) \/ Logout(m) \/ ReadCase(m) \/ Answer(m)
  \/ \E c \in ClaimId : ShowClaim(m, c)
  \/ \E o \in {"grant", "refuse"}, k \in Case \cup {None} : SendForm(m, o, k)

Next ==
  \/ \E h \in Holder : HolderStep(h)
  \/ \E m \in Moderator : ModeratorStep(m)
  \/ \E k \in Case : Dispose(k)
  \/ Tick \/ Restart

Spec == Init /\ [][Next]_vars
----------------------------------------------------------------------------
(* Properties *)

\* What a holder was handed, and what the interface has spent, is the one
\* grant on record for one of its claims: a moderator who answered second,
\* or from an old page, put no second grant into the world
\* (grant_recovery_claim's conditional update).
HandedIsRecorded ==
  \A h \in Holder : \A g \in held[h] \cup {x \in redeemed : x.holder = h} :
    \E c \in ClaimId : /\ claims[c].state = "granted" /\ claims[c].holder = h
                       /\ claims[c].grant = g

\* The cases' ledgers name exactly the grants bound to a case, once each:
\* no answer that lost leaves an event, no grant goes without one (the
\* transaction of grant_recovery_claim).
LedgerAccounts ==
  /\ {ledger[i] : i \in 1..Len(ledger)} =
       {[case |-> claims[c].case, claim |-> c, grant |-> claims[c].grant] :
          c \in {x \in ClaimId : claims[x].state = "granted" /\ claims[x].case # None}}
  /\ \A i, j \in 1..Len(ledger) : ledger[i].claim = ledger[j].claim => i = j

\* Every grant in the world is accounted for, on its claim and on its case.
GrantsAccounted == HandedIsRecorded /\ LedgerAccounts

\* A grant bound to a case is for a decided case, whoever decided it while
\* the form was open or in flight (recovery_claim_decide: a grant against an
\* undecided case would race the case itself).
GrantsFollowDecisions ==
  \A c \in ClaimId : claims[c].state = "granted" /\ claims[c].case # None
                       => claims[c].case \in disposed

\* An answer once given stands: the holder who polls again, and the moderator
\* who sends a page rendered before it, find the same one.
AnswersStand ==
  [][\A c \in ClaimId : claims[c].state \in {"granted", "refused"}
                           => claims'[c] = claims[c]]_vars

-----------------------------------------------------------------------------
(* The inductive invariant.                                                *)

\* A row: a grant is on it exactly when it was granted, and a case only with
\* a grant.
RowInv ==
  \A c \in ClaimId :
    /\ claims[c].state = "granted" <=> claims[c].grant # None
    /\ claims[c].case # None => claims[c].state = "granted"
    /\ claims[c].grant # None => claims[c].grant.holder = claims[c].holder

\* A page shows a claim on file, and a form in flight names the claim's own
\* holder, who never changes; a case it still may grant has a disposition,
\* which never goes away.
PageStands(m) == page[m] # None => claims[page[m]] # Unfiled
FormStands(m) ==
  work[m] # None =>
    LET f == work[m] IN
    /\ claims[f.claim] # Unfiled
    /\ claims[f.claim].holder = f.holder
    /\ f.outcome = "refuse" => f.case = None
    /\ f.case # None /\ f.step = "answer" => f.case \in disposed
FormInv == \A m \in Moderator : PageStands(m) /\ FormStands(m)

\* The interface spends what its holder was handed.
SpentInv == \A g \in redeemed : g \in held[g.holder]

IInv ==
  /\ TypeOK
  /\ RowInv
  /\ FormInv
  /\ SpentInv
  /\ HandedIsRecorded
  /\ LedgerAccounts
  /\ GrantsFollowDecisions
=============================================================================
