--------------------------- MODULE MCIngestQueue ---------------------------
(* Small instances of IngestQueue for TLC.                                 *)
EXTENDS IngestQueue, TLC

Symmetry == Permutations(Materials) \cup Permutations(Jobs) \cup Permutations(Workers)
=============================================================================
