---- MODULE MCRnApp ----
\* Instances of RnApp for TLC.
EXTENDS RnApp, TLC

Symmetry == Permutations(Sessions) \cup Permutations(Tones)
====
