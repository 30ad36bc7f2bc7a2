------------------------------- MODULE MCChat -------------------------------
EXTENDS Chat, TLC

\* The tabs are alike; the answers are numbered.
Symmetry == Permutations(Tabs)
=============================================================================
