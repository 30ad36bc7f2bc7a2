----------------------------- MODULE MCMembers ------------------------------
(* Small instances of Members for TLC.                                     *)
EXTENDS Members, TLC

Symmetry == Permutations(People \ {Founder}) \cup Permutations(Requests)
=============================================================================
