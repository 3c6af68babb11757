------------------------------ MODULE MCDocket ------------------------------
(***************************************************************************)
(* A small instance of Docket for TLC.  Case a, of a class with a          *)
(* suspensive term: two notices under two mandates, a ban whose dates are  *)
(* a second off, a replacement that is still waiting for its day, and a    *)
(* dismissal in the same second; and a ban in the terms of a manifest the  *)
(* user never consented to.  Case b, of a permanent class.                 *)
(***************************************************************************)
EXTENDS Docket

CONSTANTS a, b, u, k, p, authority, phone, key

Edition(response, term) ==
  [component |-> authority, key |-> key,
   classes |-> k :> [response |-> response, decision |-> 20, appeal |-> 10,
                     suspensive |-> TRUE, term |-> term]
            @@ p :> [response |-> response, decision |-> 20, appeal |-> 10,
                     suspensive |-> FALSE, term |-> Permanent]]

Consented == Edition(7, 10)
Harsher == Edition(7, 100)
Later2 == Edition(9, 10)
Manifests == {Consented, Harsher, Later2}

Signed(manifest) ==
  [authority |-> authority, user |-> u, binding |-> phone, manifest |-> manifest,
   classes |-> {k, p}]
Mandates == {Signed(Consented), Signed(Later2)}

Ruling(c, kind, decidedAt, executeAfter, expires) ==
  [case |-> c, user |-> u, kind |-> kind, decidedAt |-> decidedAt,
   executeAfter |-> executeAfter, expires |-> expires]
Opened(c, t) == Ruling(c, "open-case", t, t, Permanent)

Overlong == Ruling(a, "ban", 15, 25, 125)
JoinedNotice == Opened(a, 5)
Rulings ==
  { Opened(a, 0), JoinedNotice,
    Ruling(a, "ban", 10, 21, 32), Overlong,
    Ruling(a, "ban", 20, 30, 40), Ruling(a, "dismiss", 20, 20, Permanent),
    Opened(b, 10), Ruling(b, "ban", 10, 10, Permanent) }

Written(v) ==
  [mandate |-> IF v = JoinedNotice THEN Signed(Later2) ELSE Signed(Consented),
   authority |-> authority, binding |-> phone,
   class |-> IF v.case = a THEN k ELSE p,
   marks |-> CASE v.kind = "open-case" -> [caseOpen |-> TRUE, banned |-> FALSE]
               [] v.kind = "ban" -> [caseOpen |-> FALSE, banned |-> TRUE]
               [] v.kind = "dismiss" -> Clean,
   appeal |-> IF v.kind # "ban" THEN None
              ELSE IF v.decidedAt = 10 /\ v.case = a THEN 20 ELSE v.decidedAt + 10,
   sanctioned |-> v.kind = "ban", reasoned |-> TRUE]
Documents == [v \in Rulings |-> Written(v)]

Deliveries ==
  { [verdict |-> v, manifest |-> Written(v).mandate.manifest, signer |-> key] : v \in Rulings }
  \cup {[verdict |-> Overlong, manifest |-> Harsher, signer |-> key]}
=============================================================================
