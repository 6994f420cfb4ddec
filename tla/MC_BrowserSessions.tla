------------------------- MODULE MC_BrowserSessions -------------------------
EXTENDS BrowserSessions, TLC
Symmetry == Permutations(Threads) \cup Permutations(Browsers) \cup Permutations(Links)
=============================================================================
