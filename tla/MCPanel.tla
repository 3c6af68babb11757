------------------------------ MODULE MCPanel ------------------------------
EXTENDS Panel, TLC

CONSTANTS h1, h2, m1, m2, c1, c2, k1

MCHolder == {h1, h2}
MCModerator == {m1, m2}
MCClaimId == {c1, c2}
MCCase == {k1}

Symmetric ==
  Permutations(MCHolder) \cup Permutations(MCModerator) \cup Permutations(MCClaimId)
=============================================================================
