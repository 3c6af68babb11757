----------------------------- MODULE MCEvidence -----------------------------
(***************************************************************************)
(* Small instances of Evidence for TLC.                                    *)
(***************************************************************************)
EXTENDS Evidence

CONSTANTS f1, c1, c2, c3, m1, k1, k2, d1, d2

Photo(d) == [sha256 |-> d, bytes |-> "within", format |-> "jpeg", decodes |-> TRUE,
             width |-> 1, height |-> 1, pixels |-> "within"]

\* One photo, and one with a zero edge, which is no evidence.
OnePhoto == {Photo(d1), [Photo(d2) EXCEPT !.height = 0]}

OneMandate == [c \in Case |-> m1]
ConsentEnds == [m \in Mandate |-> 1]

\* Terms for the class of c1, none for the class of c3.
OnlyP(period) == [c \in Preserving |-> IF c = c1 THEN period ELSE 0]

Tails(media, record, sanction, preserved) ==
  [unreferencedUpload |-> 1, caseMedia |-> media, caseRecord |-> record,
   auditRecord |-> record, sanctionRecord |-> sanction, preservation |-> preserved]

\* Text filings are left out: they give custody nothing to keep.
Shown == [version |-> 2, media |-> {d1}]
Disclosed == [c \in Case |-> {Shown}]

ShortTails == [m \in Mandate |-> Tails(1, 1, 1, OnlyP(1))]
PublishedTails == Tails(1, 1, 1, OnlyP(1))
=============================================================================
