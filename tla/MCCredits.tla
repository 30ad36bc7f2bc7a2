----------------------------- MODULE MCCredits -----------------------------
(* Small instances of Credits for TLC.                                     *)
EXTENDS Credits, TLC

Symmetry == Permutations(Questions) \cup Permutations(Orders)

\* Bound: orders are made and closed in the first month.  What an order grants
\* in the second one, the team grants too.
OrdersFirst == month = 1 \/ \A o \in Orders : order[o] = "none"
=============================================================================
