---------------------------- MODULE MCSourceSync ----------------------------
(* Small instances of SourceSync for TLC.                                  *)
EXTENDS SourceSync, TLC

Symmetry == Permutations(Docs) \cup Permutations(Users)
=============================================================================
