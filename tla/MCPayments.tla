----------------------------- MODULE MCPayments -----------------------------
(* Small instances of Payments for TLC.                                    *)
EXTENDS Payments, TLC

Symmetry == Permutations(Invoices) \cup Permutations(Events) \cup Permutations(Schedulers)
=============================================================================
