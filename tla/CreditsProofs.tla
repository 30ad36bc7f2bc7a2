--------------------------- MODULE CreditsProofs ---------------------------
(***************************************************************************)
(* Theorems of Credits, for any numbers of questions, orders, grants and   *)
(* months, any pools and any cost of an answer; a question may be answered *)
(* in the month it was asked in or after its end.                          *)
(*                                                                         *)
(* What is taken from which grant is a sum over grants (Purchased, Before, *)
(* Share).  A sum is a recursive fold, so the module begins its second     *)
(* part with what such a sum is, by induction over the subsets of the set  *)
(* that is summed up.                                                      *)
(***************************************************************************)
EXTENDS Credits, FiniteSetTheorems, TLAPS

\* The part of TypeOK the arithmetic of a charge needs.
AccountType ==
    /\ month \in Months
    /\ pool \in Pools
    /\ used \in [Months -> Nat]
    /\ spent \in [Months -> Nat]
    /\ peak \in [Months -> Nat]
    /\ late \in [Months -> Nat]
    /\ asked \in [Questions -> Nat]
    /\ reduced \in BOOLEAN

OrderType ==
    /\ order \in [Orders -> OrderStatus]
    /\ invoice \in [Orders -> OrderStatus]

\* A question being answered was asked this month or last month.
AskedRecently == \A q \in Questions : asked[q] \in {0, month - 1, month}

\* Nothing is written for a month that has not begun, and no question of
\* this month has been answered after it.
NothingAhead ==
    \A m \in Months : /\ m > month => used[m] = 0 /\ spent[m] = 0
                      /\ m >= month => late[m] = 0

\* The last answer to a question of the month before found no more than has
\* been used by now.
LateIsUsed == \A m \in Months : m + 1 = month => late[m] <= used[month]

\* While only its own questions have been answered in it, what this month
\* used beyond its pool is charged to it.
MonthIsCharged ==
    ~reduced /\ ~CrossedSince(month) => used[month] - pool <= spent[month]

AccountInv ==
    /\ AccountType
    /\ AskedRecently
    /\ NothingAhead
    /\ LateIsUsed
    /\ ChargedWithinOverrun
    /\ MonthIsCharged
    /\ OverrunCharged

accounts == <<month, pool, used, spent, peak, late, asked, reduced>>

\* The bounds are numbers, and no pool is empty.
LEMMA ConstantTypes ==
    /\ Pools \subseteq Nat
    /\ MaxCost \in Nat
    /\ LastMonth \in Nat
    /\ \A n \in Pools : n \in Nat /\ n > 0
BY PoolsAssumption, CostAssumption, BoundsAssumption

----------------------------------------------------------------------------
(* The accounts of the pool.                                               *)

\* The first month begins with nothing used and nothing charged.
LEMMA InitAccounts == Init => AccountInv
<1> SUFFICES ASSUME Init PROVE AccountInv
  OBVIOUS
<1>1. /\ month = 1 /\ pool \in Pools
      /\ used = [m \in Months |-> 0] /\ spent = [m \in Months |-> 0]
      /\ peak = [m \in Months |-> 0] /\ late = [m \in Months |-> 0]
      /\ asked = [q \in Questions |-> 0] /\ reduced = FALSE
  BY DEF Init
<1>2. 1 \in Months /\ pool \in Nat /\ pool > 0
  BY <1>1, BoundsAssumption, ConstantTypes DEF Months
<1>3. AccountType
  BY <1>1, <1>2 DEF AccountType
<1>4. AskedRecently /\ NothingAhead /\ LateIsUsed
  BY <1>1, <1>2 DEF AskedRecently, NothingAhead, LateIsUsed
<1>5. ChargedWithinOverrun /\ MonthIsCharged
  BY <1>1, <1>2 DEF ChargedWithinOverrun, MonthIsCharged
<1>6. OverrunCharged
  BY <1>1, <1>2 DEF OverrunCharged, UsedSince
<1> QED
  BY <1>3, <1>4, <1>5, <1>6 DEF AccountInv

\* Other steps leave the accounts alone.
LEMMA AccountsUntouched == AccountInv /\ UNCHANGED accounts => AccountInv'
BY DEF AccountInv, AccountType, AskedRecently, NothingAhead, LateIsUsed, MonthIsCharged,
       CrossedSince,
       ChargedWithinOverrun, OverrunCharged, UsedSince, Months, accounts

\* Beginning or giving up a question touches no account.
LEMMA AskAccounts ==
    ASSUME AccountInv,
           asked' \in [Questions -> Nat],
           \A q \in Questions : asked'[q] \in {0, month - 1, month},
           UNCHANGED <<month, pool, used, spent, peak, late, reduced>>
    PROVE  AccountInv'
BY DEF AccountInv, AccountType, AskedRecently, NothingAhead, LateIsUsed, MonthIsCharged,
       CrossedSince,
       ChargedWithinOverrun, OverrunCharged, UsedSince, Months

\* The charge of an answer to a question of month p brings what is charged
\* to p up to all that has been used since p began, beyond the pool.
LEMMA ChargeUpToOverrun ==
    ASSUME AccountInv, NEW p \in Months, NEW cost \in Nat,
           IF Unpaid(p, cost) > 0 THEN Charge(Unpaid(p, cost), p)
                                  ELSE UNCHANGED spent
    PROVE  /\ spent' \in [Months -> Nat]
           /\ spent'[p] = Larger(spent[p], UsedSince(p) + cost - pool)
           /\ \A m \in Months \ {p} : spent'[m] = spent[m]
<1> DEFINE over == UsedSince(p) + cost - pool
<1>1. /\ month \in Months /\ pool \in Nat /\ used[month] \in Nat
      /\ used[p] \in Nat /\ spent[p] \in Nat /\ spent \in [Months -> Nat]
  BY ConstantTypes DEF AccountInv, AccountType, Months
<1>2. Unpaid(p, cost) = Larger(0, Larger(0, over) - spent[p])
  BY DEF Unpaid
<1>3. over \in Int
  <2>1. UsedSince(p) = used[p] \/ UsedSince(p) = used[p] + used[month]
    BY <1>1 DEF UsedSince
  <2> QED
    BY <1>1, <2>1
<1> HIDE DEF over
<1>4. CASE Unpaid(p, cost) > 0
  <2>1. spent' = [spent EXCEPT ![p] = @ + Unpaid(p, cost)]
    BY <1>4 DEF Charge
  <2>2. Unpaid(p, cost) = over - spent[p] /\ over > spent[p]
    BY <1>1, <1>2, <1>3, <1>4 DEF Larger
  <2>3. spent[p] + Unpaid(p, cost) = over /\ over \in Nat
    BY <2>2, <1>1, <1>3
  <2>4. spent' = [spent EXCEPT ![p] = over]
    BY <2>1, <2>3
  <2> QED
    BY <2>2, <2>3, <2>4, <1>1 DEF Larger, over
<1>5. CASE ~(Unpaid(p, cost) > 0)
  <2>1. spent' = spent
    BY <1>5
  <2>2. over <= spent[p]
    BY <1>1, <1>2, <1>3, <1>5 DEF Larger
  <2> QED
    BY <2>1, <2>2, <1>1, <1>3 DEF Larger, over
<1> QED
  BY <1>4, <1>5

\* An answer given in the month of its question keeps what is charged to it
\* between the present overrun and the largest one.
LEMMA AnswerInTime ==
    ASSUME AccountInv, NEW q \in Questions, NEW cost \in 1..MaxCost, Answer(q, cost),
           asked[q] = month
    PROVE  AccountInv'
<1> DEFINE now == used[month] + cost
<1>1. /\ month \in Months /\ month \in Nat /\ pool \in Nat /\ cost \in Nat /\ cost > 0
      /\ used \in [Months -> Nat] /\ spent \in [Months -> Nat] /\ peak \in [Months -> Nat]
      /\ asked \in [Questions -> Nat] /\ late \in [Months -> Nat]
  <2>1. cost \in Nat /\ cost > 0
    BY ConstantTypes
  <2>2. AccountType
    BY DEF AccountInv
  <2>3. month \in Months /\ month \in Nat /\ pool \in Nat
    BY <2>2, ConstantTypes DEF AccountType, Months
  <2> QED
    BY <2>1, <2>2, <2>3 DEF AccountType
<1>2. UNCHANGED <<month, pool, reduced, late>>
  BY DEF Answer
<1>3. /\ used' = [used EXCEPT ![month] = @ + cost]
      /\ peak' = [peak EXCEPT ![month] = Larger(@, used'[month] - pool)]
      /\ asked' = [asked EXCEPT ![q] = 0]
  BY DEF Answer, Done
<1>4. /\ now \in Nat /\ now >= used[month]
      /\ used'[month] = now /\ used' \in [Months -> Nat]
  BY <1>1, <1>3
<1>5. /\ peak' \in [Months -> Nat]
      /\ peak'[month] >= peak[month] /\ peak'[month] >= now - pool
      /\ \A m \in Months \ {month} : peak'[m] = peak[m] /\ used'[m] = used[m]
  BY <1>1, <1>3, <1>4 DEF Larger
<1>6. /\ spent' \in [Months -> Nat]
      /\ spent'[month] = Larger(spent[month], now - pool)
      /\ \A m \in Months \ {month} : spent'[m] = spent[m]
  <2>1. IF Unpaid(month, cost) > 0 THEN Charge(Unpaid(month, cost), month)
                                   ELSE UNCHANGED spent
    BY DEF Answer
  <2>2. UsedSince(month) = used[month]
    BY <1>1 DEF UsedSince
  <2> QED
    BY <2>1, <2>2, <1>1, ChargeUpToOverrun
<1> HIDE DEF now
<1>7. AccountType'
  BY <1>1, <1>2, <1>3, <1>4, <1>5, <1>6 DEF AccountInv, AccountType, Months
<1>8. AskedRecently'
  BY <1>1, <1>2, <1>3 DEF AccountInv, AskedRecently
<1>9. NothingAhead'
  BY <1>1, <1>2, <1>5, <1>6 DEF AccountInv, NothingAhead, Months
<1>10. ChargedWithinOverrun'
  BY <1>1, <1>2, <1>4, <1>5, <1>6 DEF AccountInv, ChargedWithinOverrun, Larger, Months
<1>11. used'[month'] - pool' <= spent'[month']
  BY <1>1, <1>2, <1>4, <1>6 DEF Larger
<1>12. MonthIsCharged'
  BY <1>11 DEF MonthIsCharged
<1>13. OverrunCharged'
  <2>1. UsedSince(month)' = used'[month'] /\ month' \in Months
    BY <1>1, <1>2, <1>4 DEF UsedSince
  <2> QED
    BY <1>2, <1>11, <2>1 DEF OverrunCharged, UsedSince
<1>14. LateIsUsed'
  BY <1>1, <1>2, <1>4 DEF AccountInv, LateIsUsed
<1> QED
  BY <1>7, <1>8, <1>9, <1>10, <1>12, <1>13, <1>14 DEF AccountInv

\* An answer given after the month of its question charges to that month
\* what both have used.
LEMMA AnswerLate ==
    ASSUME AccountInv, NEW q \in Questions, NEW cost \in 1..MaxCost, Answer(q, cost),
           NEW last, last = asked[q], last # month
    PROVE  AccountInv'
<1> DEFINE now == used[month] + cost
<1>1. /\ month \in Months /\ month \in Nat /\ pool \in Nat /\ cost \in Nat /\ cost > 0
      /\ used \in [Months -> Nat] /\ spent \in [Months -> Nat] /\ peak \in [Months -> Nat]
      /\ asked \in [Questions -> Nat] /\ late \in [Months -> Nat]
  <2>1. cost \in Nat /\ cost > 0
    BY ConstantTypes
  <2>2. AccountType
    BY DEF AccountInv
  <2>3. month \in Months /\ month \in Nat /\ pool \in Nat
    BY <2>2, ConstantTypes DEF AccountType, Months
  <2> QED
    BY <2>1, <2>2, <2>3 DEF AccountType
<1>2. last = month - 1 /\ last \in Months /\ last # month /\ last \in Nat
  <2>1. last \in {0, month - 1, month} /\ last # 0
    BY DEF AccountInv, AskedRecently, Answer
  <2> QED
    BY <1>1, <2>1, ConstantTypes DEF Months
<1>3. UNCHANGED <<month, pool, reduced>>
  BY DEF Answer
<1>4. /\ used' = [used EXCEPT ![month] = @ + cost]
      /\ peak' = [peak EXCEPT ![last] = Larger(@, used'[last] - pool)]
      /\ late' = [late EXCEPT ![last] = used'[month]]
      /\ asked' = [asked EXCEPT ![q] = 0]
  BY <1>2 DEF Answer, Done
<1>5. IF Unpaid(last, cost) > 0 THEN Charge(Unpaid(last, cost), last) ELSE UNCHANGED spent
  BY DEF Answer
<1>6. UsedSince(last) = used[last] + used[month]
  BY <1>1, <1>2 DEF UsedSince
<1>7. /\ now \in Nat /\ now > 0 /\ used'[month] = now /\ used' \in [Months -> Nat]
      /\ \A m \in Months \ {month} : used'[m] = used[m]
  BY <1>1, <1>4
<1>8. /\ peak' \in [Months -> Nat]
      /\ peak'[last] >= peak[last] /\ peak'[last] >= used[last] - pool
      /\ \A m \in Months \ {last} : peak'[m] = peak[m]
  <2>1. used'[last] = used[last]
    BY <1>2, <1>7
  <2> QED
    BY <1>1, <1>2, <1>4, <2>1 DEF Larger
<1>9. /\ late' \in [Months -> Nat] /\ late'[last] = now
      /\ \A m \in Months \ {last} : late'[m] = late[m]
  BY <1>1, <1>2, <1>4, <1>7
<1>10. /\ spent' \in [Months -> Nat]
       /\ spent'[last] = Larger(spent[last], used[last] + now - pool)
       /\ \A m \in Months \ {last} : spent'[m] = spent[m]
  <2>1. UsedSince(last) + cost - pool = used[last] + now - pool
    BY <1>1, <1>2, <1>6
  <2> HIDE DEF now
  <2> QED
    BY <2>1, <1>1, <1>2, <1>5, ChargeUpToOverrun
<1>11. late[last] <= now
  BY <1>1, <1>2 DEF AccountInv, LateIsUsed
<1> HIDE DEF now
<1>12. AccountType'
  BY <1>1, <1>3, <1>4, <1>7, <1>8, <1>9, <1>10 DEF AccountInv, AccountType, Months
<1>13. AskedRecently'
  BY <1>1, <1>3, <1>4 DEF AccountInv, AskedRecently
<1>14. NothingAhead'
  BY <1>1, <1>2, <1>3, <1>7, <1>9, <1>10 DEF AccountInv, NothingAhead, Months
<1>15. ChargedWithinOverrun'
  <2> SUFFICES ASSUME NEW m \in Months PROVE spent'[m] <= peak'[m] + late'[m]
    BY DEF ChargedWithinOverrun
  <2>1. spent[m] <= peak[m] + late[m]
    BY DEF AccountInv, ChargedWithinOverrun
  <2>2. CASE m # last
    BY <1>8, <1>9, <1>10, <2>1, <2>2
  <2>3. CASE m = last
    <3>1. spent'[last] = spent[last] \/ spent'[last] = used[last] + now - pool
      BY <1>10 DEF Larger
    <3>2. /\ spent[last] \in Nat /\ used[last] \in Nat /\ peak[last] \in Nat /\ late[last] \in Nat
          /\ peak'[last] \in Nat
      BY <1>1, <1>2, <1>8
    <3> QED
      BY <1>1, <1>7, <1>8, <1>9, <1>11, <2>1, <2>3, <3>1, <3>2
  <2> QED
    BY <2>2, <2>3
<1>16. MonthIsCharged'
  <2>1. late'[last] > 0 /\ last + 1 >= month'
    BY <1>1, <1>2, <1>3, <1>7, <1>9
  <2>2. CrossedSince(month)'
    BY <1>2, <2>1 DEF CrossedSince
  <2> QED
    BY <2>2 DEF MonthIsCharged
<1>17. OverrunCharged'
  <2>2. used[last] + now - pool <= spent'[last]
    BY <1>1, <1>2, <1>7, <1>10 DEF Larger
  <2>3. last \in Months \cap {month', month' - 1}
    BY <1>2, <1>3
  <2>4. used'[last] + (IF month' > last THEN used'[month'] ELSE 0) - pool' <= spent'[last]
    BY <1>1, <1>2, <1>3, <1>7, <2>2
  <2>5. \E x \in Months \cap {month', month' - 1} :
            used'[x] + (IF month' > x THEN used'[month'] ELSE 0) - pool' <= spent'[x]
    BY <2>3, <2>4
  <2> QED
    BY <1>1, <1>3, <1>7, <1>10, <2>5 DEF OverrunCharged, UsedSince, Months
<1>18. LateIsUsed'
  <2> SUFFICES ASSUME NEW m \in Months, m + 1 = month PROVE late'[m] <= used'[month]
    BY <1>3 DEF LateIsUsed
  <2>1. m = last
    BY <1>1, <1>2 DEF Months
  <2> QED
    BY <1>7, <1>9, <2>1
<1> QED
  BY <1>12, <1>13, <1>14, <1>15, <1>16, <1>17, <1>18 DEF AccountInv

\* A month begins with nothing used.
LEMMA NewMonthAccounts ==
    ASSUME AccountInv, NewMonth
    PROVE  AccountInv'
<1>1. /\ month \in Nat /\ month \in Months /\ month' = month + 1 /\ month' \in Months
      /\ UNCHANGED <<pool, used, spent, peak, late, asked, reduced>>
  BY BoundsAssumption DEF NewMonth, AccountInv, AccountType, Months, asking, ledger
<1>2. \A q \in Questions : asked[q] \in {0, month}
  BY DEF NewMonth
<1>3. used[month'] = 0 /\ spent[month'] = 0 /\ late[month] = 0 /\ pool \in Nat
  BY <1>1, ConstantTypes DEF AccountInv, AccountType, NothingAhead
<1>4. AccountType'
  BY <1>1 DEF AccountInv, AccountType, Months
<1>5. AskedRecently' /\ NothingAhead'
  BY <1>1, <1>2, <1>3 DEF AccountInv, AskedRecently, NothingAhead, Months
<1>6. LateIsUsed'
  BY <1>1, <1>3 DEF LateIsUsed, Months
<1>7. ChargedWithinOverrun' /\ MonthIsCharged'
  BY <1>1, <1>3 DEF AccountInv, ChargedWithinOverrun, MonthIsCharged, Months
<1>8. OverrunCharged'
  <2>1. UsedSince(month)' = 0
    BY <1>1, <1>3 DEF UsedSince
  <2> QED
    BY <1>1, <1>3, <2>1 DEF OverrunCharged, UsedSince
<1> QED
  BY <1>4, <1>5, <1>6, <1>7, <1>8 DEF AccountInv

\* A smaller pool leaves an overrun for the next answer, a larger one none.
LEMMA SetPoolAccounts ==
    ASSUME AccountInv, NEW n \in Pools, SetPool(n)
    PROVE  AccountInv'
<1>1. /\ month \in Months /\ month \in Nat /\ pool \in Nat /\ n \in Nat /\ n \in Pools
      /\ used \in [Months -> Nat] /\ spent \in [Months -> Nat]
  BY ConstantTypes DEF AccountInv, AccountType, Months
<1>2. /\ UNCHANGED <<month, used, spent, peak, late, asked>>
      /\ pool' = n /\ reduced' = (reduced \/ n < pool)
  BY DEF SetPool, asking, ledger
<1>3. AccountType'
  BY <1>1, <1>2 DEF AccountInv, AccountType, Months
<1>4. AskedRecently' /\ NothingAhead' /\ LateIsUsed' /\ ChargedWithinOverrun'
  BY <1>2 DEF AccountInv, AskedRecently, NothingAhead, LateIsUsed, ChargedWithinOverrun
<1>5. ~reduced' => ~reduced /\ pool <= n
  <2>1. ~reduced' => ~reduced /\ ~(n < pool)
    BY <1>2, Zenon
  <2> QED
    BY <1>1, <2>1
<1>6. MonthIsCharged'
  <2>1. CrossedSince(month)' <=> CrossedSince(month)
    BY <1>2 DEF CrossedSince
  <2> SUFFICES ASSUME ~reduced', ~CrossedSince(month)'
               PROVE  used[month] - n <= spent[month]
    BY <1>2 DEF MonthIsCharged
  <2>2. used[month] - pool <= spent[month]
    BY <1>5, <2>1 DEF AccountInv, MonthIsCharged
  <2> QED
    BY <1>1, <1>5, <2>2
<1>7. OverrunCharged'
  <2> SUFFICES ASSUME ~reduced'
               PROVE  \E p \in Months \cap {month, month - 1} : UsedSince(p)' - n <= spent[p]
    BY <1>2 DEF OverrunCharged, UsedSince
  <2>1. PICK p \in Months \cap {month, month - 1} : UsedSince(p) - pool <= spent[p]
    BY <1>5 DEF AccountInv, OverrunCharged
  <2>2. UsedSince(p)' = UsedSince(p) /\ UsedSince(p) \in Int
    <3>1. used[p] \in Nat /\ used[month] \in Nat
      BY <1>1
    <3>2. UsedSince(p) = used[p] \/ UsedSince(p) = used[p] + used[month]
      BY <3>1 DEF UsedSince
    <3> QED
      BY <1>2, <3>1, <3>2 DEF UsedSince
  <2> QED
    BY <1>1, <1>5, <2>1, <2>2
<1> QED
  BY <1>3, <1>4, <1>6, <1>7 DEF AccountInv

\* The accounts hold in every step.
LEMMA NextAccounts ==
    ASSUME AccountInv, [Next]_vars
    PROVE  AccountInv'
<1> USE DEF journal, asking, ledger, events, orderVars, history, accounts
<1>1. month \in Nat /\ asked \in [Questions -> Nat]
  BY DEF AccountInv, AccountType, Months
<1>2. ASSUME NEW q \in Questions, Ask(q) PROVE AccountInv'
  <2>1. asked' = [asked EXCEPT ![q] = month]
        /\ UNCHANGED <<month, pool, used, spent, peak, late, reduced>>
    BY <1>2 DEF Ask
  <2> QED
    BY <2>1, <1>1, AskAccounts DEF AccountInv, AskedRecently
<1>3. ASSUME NEW q \in Questions, AnswerFails(q) \/ AnswerFree(q) PROVE AccountInv'
  <2>1. asked' = [asked EXCEPT ![q] = 0]
        /\ UNCHANGED <<month, pool, used, spent, peak, late, reduced>>
    BY <1>3 DEF AnswerFails, AnswerFree, Done
  <2> QED
    BY <2>1, <1>1, AskAccounts DEF AccountInv, AskedRecently
<1>4. ASSUME NEW q \in Questions, NEW cost \in 1..MaxCost, Answer(q, cost)
      PROVE  AccountInv'
  BY <1>4, AnswerInTime, AnswerLate
<1>5. CASE NewMonth
  BY <1>5, NewMonthAccounts
<1>6. CASE Expire \/ GrantByStaff
  BY <1>6, AccountsUntouched DEF Expire, GrantByStaff, MakeGrant
<1>7. ASSUME NEW n \in Pools, SetPool(n) PROVE AccountInv'
  BY <1>7, SetPoolAccounts
<1>8. ASSUME NEW o \in Orders, CreateOrder(o, TRUE) \/ CreateOrder(o, FALSE)
                               \/ CancelOrder(o) \/ CancelInvoice(o)
      PROVE  AccountInv'
  BY <1>8, AccountsUntouched DEF CreateOrder, CancelOrder, CancelInvoice
<1>9. ASSUME NEW o \in Orders, SettleInvoice(o) \/ MarkOrderPaid(o) PROVE AccountInv'
  BY <1>9, AccountsUntouched DEF SettleInvoice, MarkOrderPaid, SettleOrder, MakeGrant
<1>10. CASE UNCHANGED vars
  BY <1>10, AccountsUntouched DEF vars
<1> QED
  BY <1>2, <1>3, <1>4, <1>5, <1>6, <1>7, <1>8, <1>9, <1>10 DEF Next

\* The inductive invariant behind both theorems on charges.
THEOREM AccountsAlways == Spec => []AccountInv
<1>1. Init => AccountInv
  BY InitAccounts
<1>2. AccountInv /\ [Next]_vars => AccountInv'
  BY NextAccounts
<1> QED
  BY <1>1, <1>2, PTL DEF Spec

\* Bought credits never pay for more than a month used beyond its pool, for
\* any number of questions answered at the same time (note_spend).
THEOREM ChargedWithinOverrunAlways == Spec => []ChargedWithinOverrun
<1>1. AccountInv => ChargedWithinOverrun
  BY DEF AccountInv
<1> QED
  BY <1>1, AccountsAlways, PTL

\* ... and no overrun is left uncharged while the pool is not made smaller.
THEOREM OverrunChargedAlways == Spec => []OverrunCharged
<1>1. AccountInv => OverrunCharged
  BY DEF AccountInv
<1> QED
  BY <1>1, AccountsAlways, PTL

----------------------------------------------------------------------------
(* Orders.                                                                 *)

OrderInv == OrderType /\ PaidInvoiceClosesOrder

\* Whoever settles or cancels an invoice or an order keeps the two together.
LEMMA NextOrders == OrderInv /\ [Next]_vars => OrderInv'
<1> SUFFICES ASSUME OrderInv, [Next]_vars PROVE OrderInv'
  OBVIOUS
<1> USE DEF OrderInv, OrderType, OrderStatus, PaidInvoiceClosesOrder, orderVars
<1>1. ASSUME UNCHANGED orderVars PROVE OrderInv'
  BY <1>1
<1>2. ASSUME NEW o \in Orders, CreateOrder(o, TRUE) \/ CreateOrder(o, FALSE) PROVE OrderInv'
  BY <1>2 DEF CreateOrder
<1>3. ASSUME NEW o \in Orders, SettleInvoice(o) PROVE OrderInv'
  <2>1. CASE order[o] = "awaiting"
    BY <1>3, <2>1 DEF SettleInvoice, SettleOrder
  <2>2. CASE order[o] # "awaiting"
    BY <1>3, <2>2 DEF SettleInvoice
  <2> QED
    BY <2>1, <2>2
<1>4. ASSUME NEW o \in Orders, MarkOrderPaid(o) PROVE OrderInv'
  BY <1>4 DEF MarkOrderPaid, SettleOrder
<1>5. ASSUME NEW o \in Orders, CancelOrder(o) \/ CancelInvoice(o) PROVE OrderInv'
  BY <1>5 DEF CancelOrder, CancelInvoice
<1> QED
  BY <1>1, <1>2, <1>3, <1>4, <1>5
     DEF Next, vars, Ask, AnswerFails, AnswerFree, Answer, NewMonth, Expire, GrantByStaff, SetPool

\* However an invoice and its order are settled and cancelled, by the bank,
\* the reconciliation or the team, a paid invoice leaves no order waiting
\* (settle_invoice, mark_paid).
THEOREM PaidInvoiceClosesOrderAlways == Spec => []PaidInvoiceClosesOrder
<1>1. Init => OrderInv
  BY DEF Init, OrderInv, OrderType, OrderStatus, PaidInvoiceClosesOrder
<1>2. OrderInv /\ [Next]_vars => OrderInv'
  BY NextOrders
<1>3. OrderInv => PaidInvoiceClosesOrder
  BY DEF OrderInv
<1> QED
  BY <1>1, <1>2, <1>3, PTL DEF Spec

----------------------------------------------------------------------------
(* Sums.  The fold of the community modules takes its elements in an order *)
(* CHOOSE decides; here it is what a sum is, in any order.  The induction  *)
(* is over a set of subsets, not over a predicate.                         *)

\* Induction over the subsets of a finite set.
LEMMA SubsetInduction ==
    ASSUME NEW S, IsFiniteSet(S), NEW T,
           \A s \in SUBSET S : (\A t \in SUBSET s : t # s => t \in T) => s \in T
    PROVE  SUBSET S \subseteq T
<1> DEFINE Bad == (SUBSET S) \ T
<1> SUFFICES ASSUME Bad # {} PROVE FALSE
  OBVIOUS
<1>1. IsWellFoundedOn(StrictSubsetOrdering(S), FiniteSubsetsOf(S))
  BY FS_StrictSubsetOrderingWellFounded
<1>2. Bad \subseteq FiniteSubsetsOf(S)
  BY FS_Subset DEF FiniteSubsetsOf
<1> HIDE DEF Bad
<1>3. PICK s \in Bad : \A t \in Bad : ~(<<t, s>> \in StrictSubsetOrdering(S))
  BY <1>1, <1>2, WFMin
<1>4. s \in SUBSET S /\ s \notin T
  BY <1>3 DEF Bad
<1>5. ASSUME NEW t \in SUBSET s, t # s PROVE t \in T
  <2>1. <<t, s>> \in StrictSubsetOrdering(S)
    BY <1>4, <1>5 DEF StrictSubsetOrdering
  <2> QED BY <1>3, <1>4, <2>1 DEF Bad
<1> QED BY <1>4, <1>5

\* Induction over the numbers.
LEMMA NumberInduction ==
    ASSUME NEW T, 0 \in T, \A n \in Nat : n \in T => n + 1 \in T
    PROVE  Nat \subseteq T
<1> DEFINE Bad == Nat \ T
<1> SUFFICES ASSUME Bad # {} PROVE FALSE
  OBVIOUS
<1> DEFINE R == OpToRel(<, Nat)
<1>1. IsWellFoundedOn(R, Nat)
  BY NatLessThanWellFounded
<1>2. \A m, n \in Nat : m < n => <<m, n>> \in R
  BY DEF OpToRel
<1>3. Bad \subseteq Nat
  OBVIOUS
<1> HIDE DEF Bad, R
<1>4. PICK n \in Bad : \A m \in Bad : ~(<<m, n>> \in R)
  BY <1>1, <1>3, WFMin
<1>5. n \in Nat /\ n \notin T /\ n # 0
  BY <1>4 DEF Bad
<1>6. n - 1 \in Nat /\ n - 1 < n /\ (n - 1) + 1 = n
  BY <1>5
<1>7. n - 1 \in T
  BY <1>2, <1>4, <1>5, <1>6 DEF Bad
<1> QED BY <1>5, <1>6, <1>7

Sum(f, S) == SumFunctionOnSet(f, S)
Pick(s) == CHOOSE x \in s : TRUE

\* g adds up f over the subsets of S.
AddsUp(g, f, S) ==
    g = [s \in SUBSET S |-> IF s = {} THEN 0 ELSE f[Pick(s)] + g[s \ {Pick(s)}]]

\* What the library's definition says, without its operators as parameters.
LEMMA SumIsFold == \A f, S : Sum(f, S) = (CHOOSE g : AddsUp(g, f, S))[S]
  BY DEF Sum, SumFunctionOnSet, FoldFunctionOnSet, MapThenFoldSet, AddsUp, Pick

\* The recursion of the fold has a solution, and one only.
LEMMA SumSteps ==
    ASSUME NEW S, IsFiniteSet(S), NEW f
    PROVE  Sum(f, S) = IF S = {} THEN 0 ELSE f[Pick(S)] + Sum(f, S \ {Pick(S)})
<1> DEFINE Step(s) == IF s = {} THEN 0 ELSE f[Pick(s)] + Sum(f, s \ {Pick(s)})
           T == {s \in SUBSET S : Sum(f, s) = Step(s)}
<1>1. ASSUME NEW s \in SUBSET S, \A t \in SUBSET s : t # s => t \in T
      PROVE  s \in T
  <2>0. IsFiniteSet(s)
    BY FS_Subset
  <2> DEFINE g0 == [t \in SUBSET s |-> IF t = s THEN Step(s) ELSE Sum(f, t)]
  <2>1. \A t \in SUBSET s : t # {} => Pick(t) \in t
    BY DEF Pick
  <2>2. ASSUME NEW t \in SUBSET s
        PROVE  g0[t] = IF t = {} THEN 0 ELSE f[Pick(t)] + g0[t \ {Pick(t)}]
    <3>1. g0[t] = Step(t)
      BY <1>1
    <3>2. t # {} => t \ {Pick(t)} \in SUBSET s /\ t \ {Pick(t)} # s
      BY <2>1
    <3>3. t # {} => g0[t \ {Pick(t)}] = Sum(f, t \ {Pick(t)})
      BY <3>2
    <3> QED BY <3>1, <3>3
  <2>3. AddsUp(g0, f, s)
    BY <2>2 DEF AddsUp
  <2> DEFINE g1 == CHOOSE g : AddsUp(g, f, s)
  <2>4. AddsUp(g1, f, s)
    BY <2>3
  <2> DEFINE Same == {t \in SUBSET s : g1[t] = g0[t]}
  <2> HIDE DEF g0, g1
  <2>5. ASSUME NEW t \in SUBSET s, \A u \in SUBSET t : u # t => u \in Same
        PROVE  t \in Same
    <3>1. g1[t] = IF t = {} THEN 0 ELSE f[Pick(t)] + g1[t \ {Pick(t)}]
      BY <2>4 DEF AddsUp
    <3>2. t # {} => g1[t \ {Pick(t)}] = g0[t \ {Pick(t)}]
      BY <2>1, <2>5
    <3> QED BY <2>2, <3>1, <3>2
  <2>6. SUBSET s \subseteq Same
    <3> HIDE DEF Same
    <3> QED BY <2>0, <2>5, SubsetInduction
  <2>7. g1[s] = g0[s] /\ g0[s] = Step(s)
    BY <2>6 DEF g0
  <2>8. Sum(f, s) = g1[s]
    BY SumIsFold DEF g1
  <2> QED BY <2>7, <2>8
<1>2. SUBSET S \subseteq T
  <2> HIDE DEF T
  <2> QED BY <1>1, SubsetInduction
<1> QED BY <1>2

\* A sum of integers is an integer, of naturals a natural.
LEMMA SumType ==
    ASSUME NEW S, IsFiniteSet(S), NEW f
    PROVE  /\ (\A x \in S : f[x] \in Int) => Sum(f, S) \in Int
           /\ (\A x \in S : f[x] \in Nat) => Sum(f, S) \in Nat
<1> DEFINE T == {s \in SUBSET S : /\ (\A x \in S : f[x] \in Int) => Sum(f, s) \in Int
                                  /\ (\A x \in S : f[x] \in Nat) => Sum(f, s) \in Nat}
<1>1. ASSUME NEW s \in SUBSET S, \A t \in SUBSET s : t # s => t \in T
      PROVE  s \in T
  <2>1. IsFiniteSet(s)
    BY FS_Subset
  <2>2. Sum(f, s) = IF s = {} THEN 0 ELSE f[Pick(s)] + Sum(f, s \ {Pick(s)})
    BY <2>1, SumSteps
  <2>3. CASE s = {}
    BY <2>2, <2>3
  <2>4. CASE s # {}
    <3>1. Pick(s) \in s
      BY <2>4 DEF Pick
    <3>2. s \ {Pick(s)} \in T
      BY <1>1, <3>1
    <3> QED BY <2>2, <2>4, <3>1, <3>2
  <2> QED BY <2>3, <2>4
<1>2. SUBSET S \subseteq T
  <2> HIDE DEF T
  <2> QED BY <1>1, SubsetInduction
<1> QED BY <1>2

\* Any element may be added last.
LEMMA SumRemove ==
    ASSUME NEW S, IsFiniteSet(S), NEW f, \A x \in S : f[x] \in Int, NEW x \in S
    PROVE  Sum(f, S) = f[x] + Sum(f, S \ {x})
<1> DEFINE T == {s \in SUBSET S : \A y \in s : Sum(f, s) = f[y] + Sum(f, s \ {y})}
<1>1. ASSUME NEW s \in SUBSET S, \A t \in SUBSET s : t # s => t \in T
      PROVE  s \in T
  <2> SUFFICES ASSUME NEW y \in s PROVE Sum(f, s) = f[y] + Sum(f, s \ {y})
    OBVIOUS
  <2> DEFINE p == Pick(s)
  <2>1. p \in s
    BY DEF Pick
  <2>2. Sum(f, s) = f[p] + Sum(f, s \ {p})
    <3>1. IsFiniteSet(s)
      BY FS_Subset
    <3> QED BY <3>1, SumSteps
  <2> HIDE DEF p
  <2>3. CASE p = y
    BY <2>2, <2>3
  <2>4. CASE p # y
    <3> DEFINE r == s \ {p, y}
    <3>1. s \ {p} \in T /\ s \ {y} \in T
      BY <1>1, <2>1
    <3>2. (s \ {p}) \ {y} = r /\ (s \ {y}) \ {p} = r
      OBVIOUS
    <3>3. Sum(f, s \ {p}) = f[y] + Sum(f, r) /\ Sum(f, s \ {y}) = f[p] + Sum(f, r)
      BY <2>1, <2>4, <3>1, <3>2
    <3>4. f[p] \in Int /\ f[y] \in Int /\ Sum(f, r) \in Int
      <4>1. IsFiniteSet(r) /\ \A z \in r : f[z] \in Int
        BY FS_Subset
      <4> QED BY <2>1, <4>1, SumType
    <3> HIDE DEF r
    <3> QED BY <2>2, <3>3, <3>4
  <2> QED BY <2>3, <2>4
<1>2. SUBSET S \subseteq T
  <2> HIDE DEF T
  <2> QED BY <1>1, SubsetInduction
<1>3. S \in T
  BY <1>2
<1> QED BY <1>3

\* The sum of the sums is the sum of the terms.
LEMMA SumPlus ==
    ASSUME NEW S, IsFiniteSet(S), NEW f, NEW g, NEW h,
           \A x \in S : f[x] \in Int /\ g[x] \in Int /\ h[x] = f[x] + g[x]
    PROVE  Sum(h, S) = Sum(f, S) + Sum(g, S)
<1> DEFINE T == {s \in SUBSET S : Sum(h, s) = Sum(f, s) + Sum(g, s)}
<1>1. ASSUME NEW s \in SUBSET S, \A t \in SUBSET s : t # s => t \in T
      PROVE  s \in T
  <2>1. IsFiniteSet(s)
    BY FS_Subset
  <2>2. CASE s = {}
    <3>1. Sum(f, {}) = 0 /\ Sum(g, {}) = 0 /\ Sum(h, {}) = 0
      BY <2>1, <2>2, SumSteps
    <3> QED BY <2>2, <3>1
  <2>3. CASE s # {}
    <3> DEFINE p == Pick(s)
               r == s \ {p}
    <3>1. p \in s
      BY <2>3 DEF Pick
    <3>2. /\ Sum(h, s) = h[p] + Sum(h, r)
          /\ Sum(f, s) = f[p] + Sum(f, r)
          /\ Sum(g, s) = g[p] + Sum(g, r)
      BY <2>1, <2>3, SumSteps
    <3>3. Sum(h, r) = Sum(f, r) + Sum(g, r)
      BY <1>1, <3>1
    <3>4. Sum(f, r) \in Int /\ Sum(g, r) \in Int
      <4>1. IsFiniteSet(r) /\ \A z \in r : f[z] \in Int /\ g[z] \in Int
        BY FS_Subset
      <4> QED BY <4>1, SumType
    <3>5. f[p] \in Int /\ g[p] \in Int /\ h[p] = f[p] + g[p]
      BY <3>1
    <3> HIDE DEF p, r
    <3> QED BY <3>2, <3>3, <3>4, <3>5
  <2> QED BY <2>2, <2>3
<1>2. SUBSET S \subseteq T
  <2> HIDE DEF T
  <2> QED BY <1>1, SubsetInduction
<1>3. S \in T
  BY <1>2
<1> QED BY <1>3

\* A sum depends on the terms that are not zero.
LEMMA SumSame ==
    ASSUME NEW S, IsFiniteSet(S), NEW U \in SUBSET S, NEW f, NEW g,
           \A x \in U : f[x] = g[x] /\ f[x] \in Int, \A x \in S \ U : f[x] = 0
    PROVE  Sum(f, S) = Sum(g, U)
<1> DEFINE T == {s \in SUBSET S : Sum(f, s) = Sum(g, s \cap U)}
<1>1. ASSUME NEW s \in SUBSET S, \A t \in SUBSET s : t # s => t \in T
      PROVE  s \in T
  <2>1. IsFiniteSet(s) /\ IsFiniteSet(s \cap U)
    BY FS_Subset
  <2>2. CASE s = {}
    BY <2>1, <2>2, SumSteps
  <2>3. CASE s # {}
    <3> DEFINE p == Pick(s)
               r == s \ {p}
    <3>1. p \in s
      BY <2>3 DEF Pick
    <3>2. Sum(f, s) = f[p] + Sum(f, r)
      BY <2>1, <2>3, SumSteps
    <3>3. Sum(f, r) = Sum(g, r \cap U)
      BY <1>1, <3>1
    <3>4. Sum(g, r \cap U) \in Int
      <4>1. IsFiniteSet(r \cap U) /\ \A z \in r \cap U : g[z] \in Int
        BY FS_Subset
      <4> QED BY <4>1, SumType
    <3>5. CASE p \in U
      <4>1. Sum(g, s \cap U) = g[p] + Sum(g, (s \cap U) \ {p})
        <5> HIDE DEF p, r
        <5> QED BY <2>1, <3>1, <3>5, SumRemove
      <4>2. (s \cap U) \ {p} = r \cap U
        OBVIOUS
      <4> HIDE DEF p, r
      <4> QED BY <3>2, <3>3, <3>5, <4>1, <4>2
    <3>6. CASE p \notin U
      <4>1. s \cap U = r \cap U /\ f[p] = 0
        BY <3>1, <3>6
      <4>2. Sum(f, s) = 0 + Sum(g, s \cap U) /\ Sum(g, s \cap U) \in Int
        BY <3>2, <3>3, <3>4, <4>1
      <4>3. Sum(f, s) = Sum(g, s \cap U)
        BY <4>2
      <4> QED BY <4>3
    <3> QED BY <3>5, <3>6
  <2> QED BY <2>2, <2>3
<1>2. SUBSET S \subseteq T
  <2> HIDE DEF T
  <2> QED BY <1>1, SubsetInduction
<1>3. S \in T /\ S \cap U = U
  BY <1>2
<1> QED BY <1>3

----------------------------------------------------------------------------
(* What the grants have, and what a charge takes from them.                *)

\* What has been taken from the grants ever made.
Taken == [g \in 1..grants |-> Pack - remaining[g]]

\* The active grants are the last ones, and what they have is no debt.
LEMMA GrantFacts ==
    ASSUME TypeOK
    PROVE  /\ grants \in Nat /\ expired \in Nat /\ expired <= grants
           /\ 1..grants \subseteq Grants /\ ActiveGrants \subseteq 1..grants
           /\ IsFiniteSet(1..grants)
           /\ \A S \in SUBSET ActiveGrants : IsFiniteSet(S)
           /\ ActiveGrants # {} => grants \in ActiveGrants
           /\ Positive \in [Grants -> Nat]
           /\ Purchased \in Nat
           /\ \A g \in Grants : Before(g) \in Nat
           /\ grants \in ActiveGrants => Purchased = Before(grants) + Positive[grants]
<1>1. /\ grants \in Nat /\ expired \in Nat /\ expired <= grants
      /\ 1..grants \subseteq Grants /\ ActiveGrants \subseteq 1..grants
      /\ ActiveGrants # {} => grants \in ActiveGrants
  BY BoundsAssumption DEF TypeOK, Grants, ActiveGrants
<1>2. IsFiniteSet(1..grants)
  BY <1>1, FS_Interval
<1>3. \A S \in SUBSET ActiveGrants : IsFiniteSet(S)
  BY <1>1, <1>2, FS_Subset
<1>4. Positive \in [Grants -> Nat]
  BY DEF TypeOK, Positive, Larger
<1>5. \A S \in SUBSET ActiveGrants : Sum(Positive, S) \in Nat
  <2> TAKE S \in SUBSET ActiveGrants
  <2>1. IsFiniteSet(S) /\ \A x \in S : Positive[x] \in Nat
    BY <1>1, <1>3, <1>4
  <2> QED BY <2>1, SumType
<1>6. Purchased \in Nat /\ \A g \in Grants : Before(g) \in Nat
  BY <1>5 DEF Purchased, Before, Sum
<1>7. ASSUME grants \in ActiveGrants PROVE Purchased = Before(grants) + Positive[grants]
  <2>1. {h \in ActiveGrants : h < grants} = ActiveGrants \ {grants}
    BY <1>1 DEF ActiveGrants
  <2>2. \A x \in ActiveGrants : Positive[x] \in Int
    BY <1>1, <1>4
  <2>3. Sum(Positive, ActiveGrants) = Positive[grants] + Sum(Positive, ActiveGrants \ {grants})
    BY <1>3, <1>7, <2>2, SumRemove
  <2>4. Positive[grants] \in Nat /\ Before(grants) \in Nat
    BY <1>1, <1>4, <1>6, <1>7
  <2>5. /\ Purchased = Sum(Positive, ActiveGrants)
        /\ Before(grants) = Sum(Positive, ActiveGrants \ {grants})
    BY <2>1 DEF Purchased, Before, Sum
  <2> QED BY <2>3, <2>4, <2>5
<1> QED BY <1>1, <1>2, <1>3, <1>4, <1>6, <1>7

\* What a grant pays of an amount before the last one pays the rest.
Part(g, amount) == Smaller(Positive[g], Larger(0, amount - Before(g)))

\* In the order they expire in, the grants pay the amount as far as they have it.
LEMMA PartsAddUp ==
    ASSUME TypeOK, NEW amount \in Nat
    PROVE  Sum([g \in Grants |-> Part(g, amount)], ActiveGrants)
               = Smaller(amount, Purchased)
<1> DEFINE part == [g \in Grants |-> Part(g, amount)]
           First(n) == (expired + 1)..(expired + n)
           T == {n \in Nat : n <= grants - expired =>
                    Sum(part, First(n))
                        = Smaller(amount, Sum(Positive, First(n)))}
<1>1. /\ grants \in Nat /\ expired \in Nat /\ expired <= grants
      /\ ActiveGrants \subseteq Grants
      /\ Positive \in [Grants -> Nat]
      /\ \A S \in SUBSET ActiveGrants : IsFiniteSet(S)
  BY GrantFacts
<1>2. \A g \in Grants : part[g] = Part(g, amount) /\ part[g] \in Nat /\ Before(g) \in Nat
  BY GrantFacts DEF Part, Smaller, Larger
<1>3. 0 \in T
  <2>1. First(0) = {}
    BY <1>1
  <2>2. IsFiniteSet({}) /\ Sum(part, {}) = 0 /\ Sum(Positive, {}) = 0
    BY FS_EmptySet, SumSteps
  <2>3. Sum(part, First(0)) = 0 /\ Sum(Positive, First(0)) = 0
    BY <2>1, <2>2
  <2> HIDE DEF First, part
  <2> QED BY <2>3 DEF Smaller
<1>4. ASSUME NEW n \in Nat, n \in T PROVE n + 1 \in T
  <2> SUFFICES ASSUME n + 1 <= grants - expired
               PROVE  Sum(part, First(n + 1))
                          = Smaller(amount, Sum(Positive, First(n + 1)))
    OBVIOUS
  <2> DEFINE g == expired + (n + 1)
  <2>1. /\ g \in ActiveGrants /\ g \in First(n + 1)
        /\ First(n + 1) \ {g} = First(n)
        /\ First(n + 1) \in SUBSET ActiveGrants
        /\ {h \in ActiveGrants : h < g} = First(n)
    BY <1>1 DEF ActiveGrants
  <2>2. Before(g) = Sum(Positive, First(n))
    BY <2>1 DEF Before, Sum
  <2>3. n <= grants - expired
    BY <1>1
  <2>4. Sum(part, First(n)) = Smaller(amount, Before(g))
    BY <1>4, <2>2, <2>3
  <2>5. IsFiniteSet(First(n + 1)) /\ \A x \in First(n + 1) : x \in Grants
    BY <1>1, <2>1
  <2> HIDE DEF g, First, part
  <2>6. Sum(part, First(n + 1)) = part[g] + Smaller(amount, Before(g))
    <3>1. \A x \in First(n + 1) : part[x] \in Int
      BY <1>2, <2>5
    <3> QED BY <2>1, <2>4, <2>5, <3>1, SumRemove
  <2>7. Sum(Positive, First(n + 1)) = Positive[g] + Before(g)
    <3>1. \A x \in First(n + 1) : Positive[x] \in Int
      BY <1>1, <2>5
    <3> QED BY <2>1, <2>2, <2>5, <3>1, SumRemove
  <2>8. part[g] = Part(g, amount) /\ Positive[g] \in Nat /\ Before(g) \in Nat
    BY <1>1, <1>2, <2>1
  <2> QED BY <2>6, <2>7, <2>8 DEF Part, Smaller, Larger
<1>5. Nat \subseteq T
  <2> HIDE DEF T
  <2> QED BY <1>3, <1>4, NumberInduction
<1>6. grants - expired \in Nat /\ First(grants - expired) = ActiveGrants
  BY <1>1 DEF ActiveGrants
<1>7. Sum(part, First(grants - expired))
          = Smaller(amount, Sum(Positive, First(grants - expired)))
  BY <1>5, <1>6
<1> QED BY <1>6, <1>7 DEF Purchased, Sum

\* What a grant that pays last pays more than its part is what none of them has.
LEMMA ShareFacts ==
    ASSUME TypeOK, NEW amount \in Nat, NEW g \in ActiveGrants
    PROVE  /\ Part(g, amount) \in Nat /\ Shortage(amount) \in Nat
           /\ Share(g, amount) = Part(g, amount) + (IF g = grants THEN Shortage(amount) ELSE 0)
           /\ Share(g, amount) \in Nat
           /\ g = grants => Share(g, amount) <= amount
           /\ Larger(remaining[g] - Share(g, amount), 0) = Positive[g] - Part(g, amount)
<1>1. /\ g \in Grants /\ Positive[g] \in Nat /\ Purchased \in Nat /\ Before(g) \in Nat
      /\ g = grants => Purchased = Before(g) + Positive[g]
  BY GrantFacts
<1>2. remaining[g] \in Int /\ Positive[g] = Larger(remaining[g], 0)
  BY <1>1 DEF TypeOK, Positive
<1>3. Part(g, amount) \in Nat /\ Shortage(amount) \in Nat
  BY <1>1 DEF Part, Shortage, Smaller, Larger
<1>4. Share(g, amount) = Part(g, amount) + (IF g = grants THEN Shortage(amount) ELSE 0)
  BY DEF Share, Part
<1>5. Share(g, amount) \in Nat
  BY <1>3, <1>4
<1>6. g = grants => Share(g, amount) <= amount
  BY <1>1, <1>4 DEF Part, Shortage, Smaller, Larger
<1>7. Larger(remaining[g] - Share(g, amount), 0) = Positive[g] - Part(g, amount)
  <2>1. CASE g = grants
    BY <1>1, <1>2, <1>4, <2>1 DEF Part, Shortage, Smaller, Larger
  <2>2. CASE g # grants
    BY <1>1, <1>2, <1>4, <2>2 DEF Part, Smaller, Larger
  <2> QED BY <2>1, <2>2
<1> QED BY <1>3, <1>4, <1>5, <1>6, <1>7

\* A spend of one month adds to what was spent in all.
LEMMA SpentOneMore ==
    ASSUME spent \in [Months -> Nat], NEW p \in Months, NEW amount \in Nat,
           spent' = [spent EXCEPT ![p] = @ + amount]
    PROVE  SumFunction(spent)' = SumFunction(spent) + amount /\ SumFunction(spent) \in Int
<1>1. SumFunction(spent) = Sum(spent, Months) /\ SumFunction(spent)' = Sum(spent', Months)
  BY DEF SumFunction, Sum
<1>2. IsFiniteSet(Months) /\ IsFiniteSet(Months \ {p})
  <2>1. 1 \in Int /\ LastMonth \in Int
    BY BoundsAssumption
  <2>2. IsFiniteSet(Months)
    BY <2>1, FS_Interval DEF Months
  <2> QED BY <2>2, FS_Subset
<1>3. \A m \in Months : spent[m] \in Int /\ spent'[m] \in Int
  OBVIOUS
<1>4. /\ Sum(spent, Months) = spent[p] + Sum(spent, Months \ {p})
      /\ Sum(spent', Months) = spent'[p] + Sum(spent', Months \ {p})
  BY <1>2, <1>3, SumRemove
<1>5. Sum(spent', Months \ {p}) = Sum(spent, Months \ {p})
  <2>1. \A m \in Months \ {p} : spent'[m] = spent[m]
    OBVIOUS
  <2> QED BY <1>2, <1>3, <2>1, SumSame
<1>6. Sum(spent, Months \ {p}) \in Int
  BY <1>2, <1>3, SumType
<1> QED BY <1>1, <1>4, <1>5, <1>6

\* A charge takes the amount from the grants, or is written down as paid by none.
LEMMA ChargeTakes ==
    ASSUME TypeOK, NEW amount \in Nat, NEW p \in Months, Charge(amount, p),
           UNCHANGED <<grants, expired>>
    PROVE  /\ remaining' \in [Grants -> Int] /\ spent' \in [Months -> Nat] /\ unbacked' \in Nat
           /\ SumFunction(Taken)' + unbacked' = SumFunction(Taken) + unbacked + amount
           /\ SumFunction(spent)' = SumFunction(spent) + amount
           /\ SumFunction(Taken) \in Int /\ SumFunction(spent) \in Int
           /\ Purchased' = Larger(0, Purchased - amount)
           /\ grants > 0 => remaining'[grants] >= remaining[grants] - amount
<1>1. /\ grants \in Nat /\ expired \in Nat /\ expired <= grants
      /\ 1..grants \subseteq Grants /\ ActiveGrants \subseteq 1..grants
      /\ IsFiniteSet(1..grants) /\ IsFiniteSet(ActiveGrants)
      /\ ActiveGrants # {} => grants \in ActiveGrants
      /\ Positive \in [Grants -> Nat] /\ Purchased \in Nat
  BY GrantFacts
<1>2. /\ remaining \in [Grants -> Int] /\ spent \in [Months -> Nat] /\ unbacked \in Nat
      /\ Pack \in Nat
  BY CostAssumption DEF TypeOK
<1>3. ActiveGrants' = ActiveGrants
  BY DEF ActiveGrants
<1> DEFINE share == [g \in Grants |-> IF g \in ActiveGrants THEN Share(g, amount) ELSE 0]
           part == [g \in Grants |-> Part(g, amount)]
<1>4. /\ remaining' = [g \in Grants |-> remaining[g] - share[g]]
      /\ unbacked' = unbacked + (IF ActiveGrants = {} THEN amount ELSE 0)
      /\ spent' = [spent EXCEPT ![p] = @ + amount]
  <2>1. \A g \in Grants : (IF g \in ActiveGrants THEN remaining[g] - Share(g, amount) ELSE remaining[g])
                             = remaining[g] - share[g]
    BY <1>2
  <2> QED BY <2>1 DEF Charge
<1>5. \A g \in Grants : share[g] \in Nat
  BY ShareFacts
<1>6. \A g \in ActiveGrants : /\ part[g] \in Nat /\ Positive'[g] = Positive[g] - part[g]
                              /\ share[g] = part[g] + (IF g = grants THEN Shortage(amount) ELSE 0)
  <2> TAKE g \in ActiveGrants
  <2>1. g \in Grants
    BY <1>1
  <2>2. Positive'[g] = Larger(remaining[g] - Share(g, amount), 0)
    BY <1>4, <2>1 DEF Positive
  <2> QED BY <2>1, <2>2, ShareFacts
<1>7. Shortage(amount) = Larger(0, amount - Purchased)
  BY DEF Shortage
<1>8. Sum(part, ActiveGrants) = Smaller(amount, Purchased)
  BY PartsAddUp
<1>9. Purchased = Sum(Positive, ActiveGrants) /\ Purchased' = Sum(Positive', ActiveGrants)
  BY <1>3 DEF Purchased, Sum
<1>10. SumFunction(Taken) = Sum(Taken, 1..grants) /\ SumFunction(Taken)' = Sum(Taken', 1..grants)
  BY DEF SumFunction, Taken, Sum
<1>11. SumFunction(spent) = Sum(spent, Months) /\ SumFunction(spent)' = Sum(spent', Months)
  BY <1>2, <1>4 DEF SumFunction, Sum
<1>12. /\ remaining' \in [Grants -> Int] /\ spent' \in [Months -> Nat] /\ unbacked' \in Nat
  BY <1>2, <1>4, <1>5
<1> HIDE DEF share, part
<1>13. Purchased' = Larger(0, Purchased - amount)
  <2>1. \A g \in ActiveGrants : /\ part[g] \in Int /\ Positive'[g] \in Int
                                /\ Positive[g] = Positive'[g] + part[g]
    BY <1>1, <1>6
  <2>2. Sum(Positive, ActiveGrants) = Sum(Positive', ActiveGrants) + Sum(part, ActiveGrants)
    BY <1>1, <2>1, SumPlus
  <2>3. Sum(Positive', ActiveGrants) \in Int
    BY <1>1, <2>1, SumType
  <2> QED BY <1>1, <1>8, <1>9, <2>2, <2>3 DEF Smaller, Larger
<1>14. Sum(share, 1..grants) + (IF ActiveGrants = {} THEN amount ELSE 0) = amount
  <2>1. Sum(share, 1..grants) = Sum(share, ActiveGrants)
    <3> DEFINE all == 1..grants
    <3>1. IsFiniteSet(all) /\ ActiveGrants \in SUBSET all
      BY <1>1
    <3>2. \A g \in ActiveGrants : share[g] = share[g] /\ share[g] \in Int
      BY <1>1, <1>5
    <3>3. \A g \in all \ ActiveGrants : share[g] = 0
      BY <1>1 DEF share
    <3> HIDE DEF all
    <3>4. Sum(share, all) = Sum(share, ActiveGrants)
      BY <3>1, <3>2, <3>3, SumSame
    <3> QED BY <3>4 DEF all
  <2>2. CASE ActiveGrants = {}
    <3>1. Sum(share, ActiveGrants) = 0
      BY <1>1, <2>2, SumSteps
    <3> QED BY <2>1, <2>2, <3>1
  <2>3. CASE ActiveGrants # {}
    <3> DEFINE rest == ActiveGrants \ {grants}
    <3>1. IsFiniteSet(rest) /\ rest \subseteq ActiveGrants /\ grants \in ActiveGrants
      BY <1>1, <2>3, FS_Subset
    <3>2. \A g \in ActiveGrants : share[g] \in Int /\ part[g] \in Int
      BY <1>1, <1>5, <1>6
    <3>3. /\ Sum(share, ActiveGrants) = share[grants] + Sum(share, rest)
          /\ Sum(part, ActiveGrants) = part[grants] + Sum(part, rest)
      BY <1>1, <3>1, <3>2, SumRemove
    <3>4. Sum(share, rest) = Sum(part, rest)
      <4>1. \A g \in rest : share[g] = part[g] /\ share[g] \in Int
        BY <1>6, <3>1, <3>2
      <4>2. \A g \in rest \ rest : share[g] = 0
        OBVIOUS
      <4> HIDE DEF rest
      <4> QED BY <3>1, <4>1, <4>2, SumSame
    <3>5. Sum(part, rest) \in Int
      <4>1. \A g \in rest : part[g] \in Int
        BY <3>1, <3>2
      <4> HIDE DEF rest
      <4> QED BY <3>1, <4>1, SumType
    <3>6. part[grants] \in Nat /\ share[grants] = part[grants] + Shortage(amount)
      BY <1>6, <3>1
    <3> HIDE DEF rest
    <3>7. Sum(share, ActiveGrants) = Sum(part, ActiveGrants) + Shortage(amount)
      <4>1. Shortage(amount) \in Nat
        BY <1>1, <1>7 DEF Larger
      <4> QED BY <3>3, <3>4, <3>5, <3>6, <4>1
    <3>8. Sum(share, ActiveGrants) = amount
      BY <1>1, <1>7, <1>8, <3>7 DEF Smaller, Larger
    <3> QED BY <2>1, <2>3, <3>8
  <2> QED BY <2>2, <2>3
<1>15. SumFunction(Taken)' = SumFunction(Taken) + Sum(share, 1..grants)
       /\ SumFunction(Taken) \in Int /\ Sum(share, 1..grants) \in Int
  <2>1. \A g \in 1..grants : /\ Taken[g] \in Int /\ share[g] \in Int
                             /\ Taken'[g] = Taken[g] + share[g]
    BY <1>1, <1>2, <1>4, <1>5 DEF Taken
  <2>2. Sum(Taken', 1..grants) = Sum(Taken, 1..grants) + Sum(share, 1..grants)
    BY <1>1, <2>1, SumPlus
  <2>3. Sum(Taken, 1..grants) \in Int /\ Sum(share, 1..grants) \in Int
    BY <1>1, <2>1, SumType
  <2> QED BY <1>10, <2>2, <2>3
<1>16. SumFunction(spent)' = SumFunction(spent) + amount /\ SumFunction(spent) \in Int
  BY <1>2, <1>4, SpentOneMore
<1>17. grants > 0 => remaining'[grants] >= remaining[grants] - amount
  <2> SUFFICES ASSUME grants > 0 PROVE remaining'[grants] >= remaining[grants] - amount
    OBVIOUS
  <2>1. grants \in Grants /\ share[grants] \in Nat
    BY <1>1, <1>5
  <2>2. share[grants] <= amount
    <3>1. CASE grants \in ActiveGrants
      BY <2>1, <3>1, ShareFacts DEF share
    <3>2. CASE grants \notin ActiveGrants
      BY <2>1, <3>2 DEF share
    <3> QED BY <3>1, <3>2
  <2>3. remaining'[grants] = remaining[grants] - share[grants] /\ remaining[grants] \in Int
    BY <1>2, <1>4, <2>1
  <2> QED BY <2>1, <2>2, <2>3
<1>18. SumFunction(Taken)' + unbacked' = SumFunction(Taken) + unbacked + amount
  <2> DEFINE sum == Sum(share, 1..grants)
             before == SumFunction(Taken)
             after == SumFunction(Taken)'
             rest == IF ActiveGrants = {} THEN amount ELSE 0
  <2>1. /\ after = before + sum /\ before \in Int /\ sum \in Int
        /\ sum + rest = amount /\ rest \in Nat
        /\ unbacked' = unbacked + rest /\ unbacked \in Nat
    BY <1>2, <1>4, <1>14, <1>15
  <2> HIDE DEF sum, before, after, rest
  <2>2. after + unbacked' = before + unbacked + amount
    BY <2>1
  <2> QED BY <2>2 DEF before, after
<1> QED BY <1>12, <1>13, <1>15, <1>16, <1>17, <1>18

----------------------------------------------------------------------------
(* Every credit that was charged is found in a grant or written down as    *)
(* paid by none, whatever months the answers are given in.                 *)

\* What was told stays in the past.
LEMMA AnnounceType ==
    ASSUME TypeOK, NEW p, NEW w, NEW e, NEW s, Announce(p, w, e, s)
    PROVE  /\ told' \in [Event -> 0..month] /\ toldSince' \in BOOLEAN
           /\ grantMonth' = grantMonth
<1>1. month \in 0..month
  BY BoundsAssumption DEF TypeOK, Months
<1>2. told' \in [Event -> 0..month]
  BY <1>1 DEF Announce, TypeOK
<1>3. toldSince' \in BOOLEAN
  BY Zenon DEF Announce
<1> QED BY <1>2, <1>3 DEF Announce

\* What is charged for an answer is a number of credits.
LEMMA UnpaidType ==
    ASSUME TypeOK, NEW p \in Months, NEW cost \in Nat
    PROVE  Unpaid(p, cost) \in Nat /\ UsedSince(p) \in Nat
<1>1. used[p] \in Nat /\ used[month] \in Nat /\ spent[p] \in Nat /\ pool \in Nat
  BY ConstantTypes DEF TypeOK
<1>2. UsedSince(p) \in Nat
  <2>1. UsedSince(p) = used[p] \/ UsedSince(p) = used[p] + used[month]
    BY <1>1 DEF UsedSince
  <2> QED BY <1>1, <2>1
<1>3. Unpaid(p, cost) \in Nat
  BY <1>1, <1>2 DEF Unpaid, Larger
<1> QED BY <1>2, <1>3

\* The effects of an answer on the ledger: it is charged, or everything is as it was.
LEMMA AnswerLedger ==
    ASSUME LedgerBalances, NEW q \in Questions, NEW cost \in 1..MaxCost, Answer(q, cost)
    PROVE  LedgerBalances'
<1> DEFINE p == asked[q]
           unpaid == Unpaid(p, cost)
<1>1. /\ TypeOK /\ GrantsAccountForSpends /\ p \in Months /\ month \in Months
      /\ month \in Nat /\ pool \in Nat /\ pool \in Pools /\ cost \in Nat
  <2>1. TypeOK /\ GrantsAccountForSpends
    BY DEF LedgerBalances
  <2>2. month \in Months /\ month \in Nat /\ month <= LastMonth /\ asked[q] \in 0..month
    BY <2>1, BoundsAssumption DEF TypeOK, Months
  <2>3. asked[q] # 0
    BY DEF Answer
  <2>4. pool \in Pools /\ pool \in Nat /\ cost \in Nat
    BY <2>1, ConstantTypes DEF TypeOK
  <2> QED BY <2>1, <2>2, <2>3, <2>4, ConstantTypes DEF Months
<1>2. unpaid \in Nat
  BY <1>1, UnpaidType
<1>3. UNCHANGED <<month, pool, grants, expired, order, invoice, reduced>>
  BY DEF Answer, orderVars
<1>4. /\ remaining' \in [Grants -> Int] /\ spent' \in [Months -> Nat] /\ unbacked' \in Nat
      /\ GrantsAccountForSpends'
  <2>1. CASE unpaid > 0
    <3>1. Charge(unpaid, p)
      BY <2>1 DEF Answer
    <3> HIDE DEF unpaid, p
    <3>2. /\ remaining' \in [Grants -> Int] /\ spent' \in [Months -> Nat] /\ unbacked' \in Nat
          /\ SumFunction(Taken)' + unbacked' = SumFunction(Taken) + unbacked + unpaid
          /\ SumFunction(spent)' = SumFunction(spent) + unpaid
      BY <1>1, <1>2, <1>3, <3>1, ChargeTakes
    <3>3. SumFunction(Taken) + unbacked = SumFunction(spent)
      BY <1>1 DEF GrantsAccountForSpends, Taken
    <3>4. SumFunction(Taken)' + unbacked' = SumFunction(spent)'
      BY <3>2, <3>3
    <3> QED BY <3>2, <3>4 DEF GrantsAccountForSpends, Taken
  <2>2. CASE ~(unpaid > 0)
    <3>1. UNCHANGED <<remaining, spent, unbacked>>
      BY <2>2 DEF Answer
    <3> QED BY <1>1, <1>3, <3>1 DEF TypeOK, GrantsAccountForSpends
  <2> QED BY <2>1, <2>2
<1>5. used' \in [Months -> Nat]
  BY <1>1 DEF Answer, TypeOK
<1>6. peak' \in [Months -> Nat] /\ late' \in [Months -> Nat]
  <2>1. Larger(peak[p], used'[p] - pool) \in Nat
    BY <1>1, <1>5 DEF TypeOK, Larger
  <2>2. peak' = [peak EXCEPT ![p] = Larger(peak[p], used'[p] - pool)]
    BY DEF Answer
  <2>3. late' = late \/ late' = [late EXCEPT ![p] = used'[month]]
    BY DEF Answer
  <2>4. peak \in [Months -> Nat] /\ late \in [Months -> Nat] /\ used'[month] \in Nat
    BY <1>1, <1>5 DEF TypeOK
  <2> HIDE DEF p
  <2> QED BY <1>1, <2>1, <2>2, <2>3, <2>4
<1>7. /\ asked' \in [Questions -> 0..month]
      /\ saw' \in [Questions -> {"fine", "warning", "exhausted"}]
  BY <1>1 DEF Answer, Done, TypeOK
<1>8. told' \in [Event -> 0..month] /\ toldSince' \in BOOLEAN /\ grantMonth' = grantMonth
  BY <1>1, AnnounceType DEF Answer
<1>9. fresh' \in Nat /\ silent' \in BOOLEAN /\ by' \in 0..month
  <2>0. by' = p /\ p \in 0..month
    BY <1>1 DEF Answer, TypeOK
  <2>1. fresh' = fresh + cost /\ silent' = FALSE
    BY DEF Answer
  <2>2. fresh \in Nat
    BY <1>1 DEF TypeOK
  <2>3. fresh' \in Nat
    BY <1>1, <2>1, <2>2
  <2>4. silent' \in BOOLEAN
    BY <2>1
  <2> QED BY <2>0, <2>3, <2>4
<1>10. TypeOK'
  BY <1>1, <1>3, <1>4, <1>5, <1>6, <1>7, <1>8, <1>9 DEF TypeOK
<1> QED BY <1>4, <1>10 DEF LedgerBalances

\* A grant of which nothing is taken yet adds nothing.
LEMMA GrantLedger ==
    ASSUME LedgerBalances, MakeGrant,
           order' \in [Orders -> OrderStatus], invoice' \in [Orders -> OrderStatus]
    PROVE  LedgerBalances'
<1>1. /\ TypeOK /\ GrantsAccountForSpends /\ month \in Nat
      /\ grants \in Nat /\ grants + 1 \in Grants /\ remaining \in [Grants -> Int] /\ Pack \in Nat
      /\ 1..grants \subseteq Grants /\ grants + 1 \in 0..MaxGrants
  <2>1. TypeOK /\ GrantsAccountForSpends
    BY DEF LedgerBalances
  <2>2. /\ month \in Nat /\ grants \in Nat /\ grants < MaxGrants /\ MaxGrants \in Nat
        /\ remaining \in [Grants -> Int] /\ Pack \in Nat
    BY <2>1, BoundsAssumption, CostAssumption DEF TypeOK, MakeGrant, Months
  <2> QED BY <2>1, <2>2 DEF Grants
<1>2. /\ grants' = grants + 1 /\ remaining' = [remaining EXCEPT ![grants + 1] = Pack]
      /\ grantMonth' = month /\ toldSince' = FALSE /\ fresh' = 0 /\ silent' = FALSE
      /\ UNCHANGED <<month, pool, used, asked, saw, expired, spent, unbacked, told,
                   peak, late, reduced, by>>
  BY DEF MakeGrant, journal, asking
<1>3. TypeOK'
  <2>1. /\ grants' \in 0..MaxGrants /\ expired' \in 0..grants'
        /\ remaining' \in [Grants -> Int] /\ grantMonth' \in 0..month'
    BY <1>1, <1>2 DEF TypeOK
  <2> QED BY <1>1, <1>2, <2>1 DEF TypeOK
<1>4. SumFunction(Taken)' = SumFunction(Taken)
  <2> DEFINE old == 1..grants
             new == 1..(grants + 1)
  <2>1. SumFunction(Taken) = Sum(Taken, old) /\ SumFunction(Taken)' = Sum(Taken', new)
    BY <1>2 DEF SumFunction, Taken, Sum
  <2>2. /\ \A g \in old : Taken'[g] = Taken[g] /\ Taken'[g] \in Int
        /\ \A g \in new \ old : Taken'[g] = 0
    BY <1>1, <1>2 DEF Taken
  <2>3. IsFiniteSet(new) /\ old \in SUBSET new
    <3>1. grants + 1 \in Int /\ 1 \in Int
      BY <1>1
    <3> QED BY <1>1, <3>1, FS_Interval
  <2> HIDE DEF old, new
  <2>4. Sum(Taken', new) = Sum(Taken, old)
    BY <2>2, <2>3, SumSame
  <2> QED BY <2>1, <2>4
<1>5. GrantsAccountForSpends'
  <2>1. SumFunction(Taken) + unbacked = SumFunction(spent)
    BY <1>1 DEF GrantsAccountForSpends, Taken
  <2>2. SumFunction(Taken)' + unbacked' = SumFunction(spent)'
    BY <1>2, <1>4, <2>1
  <2> QED BY <2>2 DEF GrantsAccountForSpends, Taken
<1> QED BY <1>3, <1>5 DEF LedgerBalances

\* The rest of the steps moves no credits.
LEMMA LedgerUntouched ==
    ASSUME LedgerBalances, UNCHANGED <<grants, remaining, spent, unbacked>>, TypeOK'
    PROVE  LedgerBalances'
  BY DEF LedgerBalances, GrantsAccountForSpends

\* Nothing was granted and nothing was spent.
LEMMA InitLedger == Init => LedgerBalances
<1> SUFFICES ASSUME Init PROVE LedgerBalances
  OBVIOUS
<1>1. TypeOK
  <2>1. month = 1 /\ 1 \in Months /\ MaxGrants \in Nat
    BY BoundsAssumption DEF Init, Months
  <2>2. "none" \in OrderStatus
    BY DEF OrderStatus
  <2>3. /\ grants \in 0..MaxGrants /\ expired \in 0..grants
        /\ told \in [Event -> 0..month] /\ asked \in [Questions -> 0..month]
        /\ grantMonth \in 0..month /\ by \in 0..month
    BY <2>1 DEF Init
  <2>4. /\ used \in [Months -> Nat] /\ spent \in [Months -> Nat] /\ peak \in [Months -> Nat]
        /\ late \in [Months -> Nat]
        /\ remaining \in [Grants -> Int] /\ unbacked \in Nat /\ fresh \in Nat
    BY DEF Init
  <2>5. toldSince \in BOOLEAN /\ reduced \in BOOLEAN /\ silent \in BOOLEAN
    BY DEF Init
  <2>6. /\ saw \in [Questions -> {"fine", "warning", "exhausted"}]
        /\ order \in [Orders -> OrderStatus] /\ invoice \in [Orders -> OrderStatus]
    BY <2>2 DEF Init
  <2> QED BY <2>1, <2>3, <2>4, <2>5, <2>6 DEF Init, TypeOK
<1>2. grants = 0 /\ unbacked = 0 /\ \A m \in Months : spent[m] = 0
  BY DEF Init
<1>3. SumFunction(Taken) = 0
  <2>1. SumFunction(Taken) = Sum(Taken, {})
    BY <1>2 DEF SumFunction, Taken, Sum
  <2> QED BY <2>1, FS_EmptySet, SumSteps
<1>4. SumFunction(spent) = 0
  <2>1. SumFunction(spent) = Sum(spent, Months)
    BY <1>1 DEF SumFunction, Sum, TypeOK
  <2>2. IsFiniteSet(Months) /\ IsFiniteSet({})
    <3>1. 1 \in Int /\ LastMonth \in Int
      BY BoundsAssumption
    <3> QED BY <3>1, FS_Interval, FS_EmptySet DEF Months
  <2>3. Sum(spent, Months) = Sum(spent, {})
    BY <1>2, <2>2, SumSame
  <2>4. Sum(spent, {}) = 0
    BY <2>2, SumSteps
  <2> QED BY <2>1, <2>3, <2>4
<1>5. GrantsAccountForSpends
  BY <1>2, <1>3, <1>4 DEF GrantsAccountForSpends, Taken
<1> QED BY <1>1, <1>5 DEF LedgerBalances

\* Only answers move credits, and grants add some that nothing was taken from.
LEMMA NextLedger ==
    ASSUME LedgerBalances, [Next]_vars
    PROVE  LedgerBalances'
<1> USE DEF journal, asking, ledger, events, orderVars, history
<1>0. /\ TypeOK /\ month \in Months /\ month \in Nat /\ LastMonth \in Nat
      /\ grants \in Nat /\ expired \in Nat
  <2>1. TypeOK /\ MaxGrants \in Nat /\ LastMonth \in Nat
    BY BoundsAssumption DEF LedgerBalances
  <2>2. month \in Months /\ month \in Nat
    BY <2>1 DEF TypeOK, Months
  <2>3. grants \in Nat /\ expired \in Nat
    BY <2>1, GrantFacts
  <2> QED BY <2>1, <2>2, <2>3
<1>1. ASSUME NEW q \in Questions, Ask(q) PROVE LedgerBalances'
  <2>1. TypeOK'
    BY <1>0, <1>1 DEF Ask, TypeOK
  <2> QED BY <1>1, <2>1, LedgerUntouched DEF Ask
<1>2. ASSUME NEW q \in Questions, AnswerFails(q) PROVE LedgerBalances'
  <2>1. TypeOK'
    BY <1>0, <1>2 DEF AnswerFails, Done, TypeOK
  <2> QED BY <1>2, <2>1, LedgerUntouched DEF AnswerFails
<1>3. ASSUME NEW q \in Questions, AnswerFree(q) PROVE LedgerBalances'
  <2>1. told' \in [Event -> 0..month] /\ toldSince' \in BOOLEAN /\ grantMonth' = grantMonth
    BY <1>0, <1>3, AnnounceType DEF AnswerFree
  <2>2. TypeOK'
    BY <1>0, <1>3, <2>1 DEF AnswerFree, Done, TypeOK
  <2> QED BY <1>3, <2>2, LedgerUntouched DEF AnswerFree
<1>4. ASSUME NEW q \in Questions, NEW cost \in 1..MaxCost, Answer(q, cost)
      PROVE  LedgerBalances'
  BY <1>4, AnswerLedger
<1>5. ASSUME NewMonth PROVE LedgerBalances'
  <2>1. TypeOK'
    <3>1. month' = month + 1 /\ month' \in Months /\ 0..month \subseteq 0..month'
      BY <1>0, <1>5 DEF NewMonth, Months
    <3> QED BY <1>0, <1>5, <3>1 DEF NewMonth, TypeOK
  <2> QED BY <1>5, <2>1, LedgerUntouched DEF NewMonth
<1>6. ASSUME Expire PROVE LedgerBalances'
  <2>1. silent' \in BOOLEAN
    BY <1>6, Zenon DEF Expire
  <2>2. TypeOK'
    BY <1>0, <1>6, <2>1 DEF Expire, TypeOK
  <2> QED BY <1>6, <2>2, LedgerUntouched DEF Expire
<1>7. ASSUME GrantByStaff PROVE LedgerBalances'
  BY <1>0, <1>7, GrantLedger DEF GrantByStaff, TypeOK
<1>8. ASSUME NEW n \in Pools, SetPool(n) PROVE LedgerBalances'
  <2>1. silent' \in BOOLEAN /\ reduced' \in BOOLEAN
    BY <1>8, Zenon DEF SetPool
  <2>3. TypeOK'
    BY <1>0, <1>8, <2>1 DEF SetPool, TypeOK
  <2> QED BY <1>8, <2>3, LedgerUntouched DEF SetPool
<1>9. ASSUME NEW o \in Orders, CreateOrder(o, TRUE) \/ CreateOrder(o, FALSE)
                               \/ CancelOrder(o) \/ CancelInvoice(o)
      PROVE  LedgerBalances'
  <2>1. TypeOK'
    BY <1>0, <1>9 DEF CreateOrder, CancelOrder, CancelInvoice, TypeOK, OrderStatus
  <2> QED BY <1>9, <2>1, LedgerUntouched DEF CreateOrder, CancelOrder, CancelInvoice
<1>10. ASSUME NEW o \in Orders, SettleInvoice(o) \/ MarkOrderPaid(o)
       PROVE  LedgerBalances'
  <2>1. order' \in [Orders -> OrderStatus] /\ invoice' \in [Orders -> OrderStatus]
    BY <1>0, <1>10 DEF SettleInvoice, MarkOrderPaid, SettleOrder, TypeOK, OrderStatus
  <2>2. CASE MakeGrant
    BY <2>1, <2>2, GrantLedger
  <2>3. CASE UNCHANGED <<journal, asking, ledger, events, history, order>>
    <3>1. TypeOK'
      BY <1>0, <2>1, <2>3 DEF TypeOK
    <3> QED BY <2>3, <3>1, LedgerUntouched
  <2> QED BY <1>10, <2>2, <2>3 DEF SettleInvoice, MarkOrderPaid, SettleOrder
<1>11. CASE UNCHANGED vars
  <2>1. TypeOK'
    BY <1>0, <1>11 DEF vars, TypeOK
  <2> QED BY <1>11, <2>1, LedgerUntouched DEF vars
<1> QED
  BY <1>1, <1>2, <1>3, <1>4, <1>5, <1>6, <1>7, <1>8, <1>9, <1>10, <1>11 DEF Next

\* However answers, grants, orders, expiries and changes of the pool interleave, what
\* was taken from the grants and what no grant paid add up to what was charged (charge).
THEOREM LedgerBalancesAlways == Spec => []LedgerBalances
<1>1. LedgerBalances /\ [Next]_vars => LedgerBalances'
  BY NextLedger
<1> QED BY <1>1, InitLedger, PTL DEF Spec

----------------------------------------------------------------------------
(* What the administrators are told, and what the latest grant pays for.   *)

\* An announcement of exhaustion in the episode of the latest grant was made after it.
ToldAfterGrant == toldSince => told["exhausted"] >= grantMonth

EpisodeInv == /\ AccountInv /\ LedgerBalances /\ ToldAfterGrant
              /\ StopIsAnnounced /\ GrantPaysNewAnswers

\* A step that leaves the credits where they are, announces nothing and keeps the month.
LEMMA EpisodeUntouched ==
    ASSUME EpisodeInv,
           UNCHANGED <<month, pool, used, grants, expired, remaining, events, late, reduced, fresh, by>>,
           silent' = silent \/ (Stopped' => Stopped /\ ~silent)
    PROVE  ToldAfterGrant' /\ StopIsAnnounced' /\ GrantPaysNewAnswers'
<1>1. Stopped' <=> Stopped
  BY DEF Stopped, Exhausted, Purchased, ActiveGrants, Positive
<1> QED
  BY <1>1 DEF EpisodeInv, ToldAfterGrant, StopIsAnnounced, GrantPaysNewAnswers, CrossedSince, events

\* When an answer uses up what there is, exhaustion is announced, unless it has been.
LEMMA AnswerEpisode ==
    ASSUME EpisodeInv, NEW q \in Questions, NEW cost \in 1..MaxCost, Answer(q, cost)
    PROVE  ToldAfterGrant' /\ StopIsAnnounced' /\ GrantPaysNewAnswers'
<1> DEFINE p == asked[q]
           unpaid == Unpaid(p, cost)
           exhausted == UsedSince(p) + cost >= pool
           stopped == exhausted /\ unpaid >= Purchased
<1>1. /\ TypeOK /\ AccountInv /\ month \in Months /\ month \in Nat /\ month \in Int
      /\ pool \in Nat /\ cost \in Nat /\ cost > 0
      /\ used \in [Months -> Nat] /\ spent \in [Months -> Nat] /\ fresh \in Nat
      /\ grantMonth \in 0..month /\ told \in [Event -> 0..month] /\ toldSince \in BOOLEAN
  <2>1. TypeOK /\ AccountInv
    BY DEF EpisodeInv, LedgerBalances
  <2>2. cost \in Nat /\ cost > 0
    BY ConstantTypes
  <2>3. month \in Months /\ month \in Nat /\ pool \in Nat
    BY <2>1, ConstantTypes DEF AccountInv, AccountType, Months
  <2> QED BY <2>1, <2>2, <2>3 DEF TypeOK
<1>2. p \in {month - 1, month} /\ p \in Months /\ p \in Nat
  <2>1. p \in {0, month - 1, month} /\ p # 0
    BY DEF EpisodeInv, Answer, AccountInv, AskedRecently
  <2> QED BY <1>1, <2>1, ConstantTypes DEF Months
<1>3. /\ UNCHANGED <<month, pool, grants, expired, reduced>>
      /\ used' = [used EXCEPT ![month] = @ + cost] /\ fresh' = fresh + cost /\ by' = p
      /\ late' = IF p = month THEN late ELSE [late EXCEPT ![p] = used'[month]]
      /\ Announce(p, UsedSince(p) + cost >= WarnAt, exhausted, stopped)
      /\ IF unpaid > 0 THEN Charge(unpaid, p) ELSE UNCHANGED <<remaining, spent, unbacked>>
  BY DEF Answer
<1>4. /\ unpaid \in Nat /\ (used[month] + cost >= pool => exhausted)
      /\ p = month => unpaid = Larger(0, Larger(0, used[month] + cost - pool) - spent[month])
  <2>1. /\ UsedSince(p) \in Nat /\ UsedSince(p) >= used[month]
        /\ p = month => UsedSince(p) = used[month]
    BY <1>1, <1>2 DEF UsedSince
  <2>2. unpaid \in Nat
    BY <1>1, <1>2, UnpaidType
  <2>3. unpaid = Larger(0, Larger(0, UsedSince(p) + cost - pool) - spent[p])
    BY DEF Unpaid
  <2> HIDE DEF p, unpaid
  <2> QED BY <1>1, <2>1, <2>2, <2>3
<1> HIDE DEF p, unpaid
<1>5. /\ Purchased \in Nat
      /\ Purchased' = Larger(0, Purchased - unpaid)
      /\ grants > 0 => /\ remaining'[grants] >= remaining[grants] - unpaid
                       /\ remaining[grants] \in Int /\ remaining'[grants] \in Int
  <2>1. /\ Purchased \in Nat /\ grants \in Nat /\ 1..grants \subseteq Grants
        /\ remaining \in [Grants -> Int]
    <3>1. Purchased \in Nat /\ grants \in Nat /\ 1..grants \subseteq Grants
      BY <1>1, GrantFacts
    <3>2. remaining \in [Grants -> Int]
      BY <1>1 DEF TypeOK
    <3> QED BY <3>1, <3>2
  <2>2. CASE unpaid > 0
    BY <1>1, <1>2, <1>3, <1>4, <2>1, <2>2, ChargeTakes
  <2>3. CASE ~(unpaid > 0)
    <3>1. remaining' = remaining
      BY <1>3, <2>3
    <3>2. Purchased' = Purchased
      BY <1>3, <3>1 DEF Purchased, ActiveGrants, Positive
    <3> QED BY <1>4, <2>1, <2>3, <3>1, <3>2 DEF Larger
  <2> QED BY <2>2, <2>3
<1>6. Stopped' => stopped
  <2>1. Stopped' => used[month] + cost >= pool /\ Purchased' = 0
    BY <1>1, <1>3 DEF Stopped, Exhausted
  <2> QED BY <1>4, <1>5, <2>1 DEF Larger
<1> HIDE DEF stopped, exhausted
<1>7. /\ stopped /\ exhausted => told'["exhausted"] = month \/ RecordedInEpisode(p)
      /\ told'["exhausted"] \in {told["exhausted"], month}
      /\ toldSince' => toldSince \/ told'["exhausted"] = month
      /\ toldSince => toldSince'
      /\ stopped /\ exhausted /\ ~RecordedInEpisode(p) => toldSince'
      /\ grantMonth' = grantMonth
  BY <1>3 DEF Announce, Event
<1>8. stopped => exhausted
  BY DEF stopped
<1>9. ToldAfterGrant'
  BY <1>1, <1>7 DEF EpisodeInv, ToldAfterGrant, Event
<1>10. StopIsAnnounced'
  <2> SUFFICES ASSUME Stopped'
               PROVE  told'["exhausted"] >= p /\ (grantMonth >= p => toldSince')
    BY <1>3, <1>7 DEF StopIsAnnounced
  <2>1. CASE RecordedInEpisode(p)
    BY <1>1, <1>2, <1>7, <2>1 DEF RecordedInEpisode, Recorded, EpisodeInv, ToldAfterGrant, Event
  <2>2. CASE ~RecordedInEpisode(p)
    BY <1>1, <1>2, <1>6, <1>7, <1>8, <2>2
  <2> QED BY <2>1, <2>2
<1>11. GrantPaysNewAnswers'
  <2> SUFFICES ASSUME ~reduced, grants > 0, ~CrossedSince(grantMonth)'
               PROVE  Pack - remaining'[grants] <= fresh + cost
    BY <1>3, <1>7 DEF GrantPaysNewAnswers, CrossedSince
  <2>1. p = month
    <3> SUFFICES ASSUME p # month PROVE FALSE
      OBVIOUS
    <3>1. late'[p] = used[month] + cost /\ p + 1 = month
      BY <1>1, <1>2, <1>3 DEF TypeOK
    <3> QED BY <1>1, <1>2, <1>7, <3>1 DEF CrossedSince
  <2>2. ~CrossedSince(grantMonth) /\ ~CrossedSince(month)
    <3>1. UNCHANGED <<late, grantMonth>>
      BY <1>3, <1>7, <2>1
    <3>2. ~CrossedSince(grantMonth)
      BY <3>1 DEF CrossedSince
    <3>3. \A m \in Months : m + 1 >= month => m + 1 >= grantMonth
      BY <1>1 DEF Months
    <3> QED BY <3>2, <3>3 DEF CrossedSince
  <2>3. Pack - remaining[grants] <= fresh
    BY <2>2 DEF EpisodeInv, GrantPaysNewAnswers
  <2>4. used[month] - pool <= spent[month]
    BY <2>2 DEF EpisodeInv, AccountInv, MonthIsCharged
  <2>5. unpaid <= cost
    BY <1>1, <1>4, <2>1, <2>4 DEF Larger
  <2> QED BY <1>1, <1>4, <1>5, <2>3, <2>5, CostAssumption
<1> QED BY <1>9, <1>10, <1>11

\* A new grant has not paid for anything and lifts the stop.
LEMMA GrantEpisode ==
    ASSUME EpisodeInv, LedgerBalances', MakeGrant
    PROVE  ToldAfterGrant' /\ StopIsAnnounced' /\ GrantPaysNewAnswers'
<1>1. /\ TypeOK /\ TypeOK' /\ grants \in Nat /\ grants + 1 \in Grants
      /\ Pack \in Nat /\ Pack > 0 /\ remaining \in [Grants -> Int] /\ expired <= grants
  <2>1. TypeOK /\ TypeOK'
    BY DEF EpisodeInv, LedgerBalances
  <2>2. grants < MaxGrants /\ MaxGrants \in Nat /\ Pack \in Nat /\ Pack > 0
    BY BoundsAssumption, CostAssumption DEF MakeGrant
  <2>3. grants \in Nat /\ expired <= grants
    BY <2>1, GrantFacts
  <2>4. grants + 1 \in Grants
    BY <2>2, <2>3 DEF Grants
  <2>5. remaining \in [Grants -> Int]
    BY <2>1 DEF TypeOK
  <2> QED BY <2>1, <2>2, <2>3, <2>4, <2>5
<1>2. /\ grants' = grants + 1 /\ remaining' = [remaining EXCEPT ![grants + 1] = Pack]
      /\ toldSince' = FALSE /\ fresh' = 0 /\ expired' = expired
  BY DEF MakeGrant
<1>3. remaining'[grants'] = Pack
  BY <1>1, <1>2
<1>4. ToldAfterGrant' /\ GrantPaysNewAnswers'
  BY <1>1, <1>2, <1>3 DEF ToldAfterGrant, GrantPaysNewAnswers
<1>5. Purchased' # 0
  <2>1. grants' \in ActiveGrants' /\ Positive'[grants'] = Pack /\ grants' \in Grants
    BY <1>1, <1>2, <1>3 DEF ActiveGrants, Positive, Larger, TypeOK
  <2> DEFINE rest == ActiveGrants' \ {grants'}
  <2>2. IsFiniteSet(ActiveGrants')
    <3>1. expired + 1 \in Int /\ grants + 1 \in Int
      BY <1>1 DEF TypeOK
    <3> QED BY <1>2, <3>1, FS_Interval DEF ActiveGrants
  <2>3. \A g \in ActiveGrants' : Positive'[g] \in Nat
    <3>1. /\ ActiveGrants' \subseteq Grants /\ remaining' \in [Grants -> Int]
      <4>1. ActiveGrants' = (expired + 1)..(grants + 1)
        BY <1>2 DEF ActiveGrants
      <4>2. expired \in Nat /\ grants + 1 <= MaxGrants /\ MaxGrants \in Nat
        BY <1>1, BoundsAssumption DEF TypeOK, Grants
      <4>3. ActiveGrants' \subseteq Grants
        BY <1>1, <4>1, <4>2 DEF Grants
      <4>4. remaining' \in [Grants -> Int]
        BY <1>1 DEF TypeOK
      <4> QED BY <4>3, <4>4
    <3> QED BY <3>1 DEF Positive, Larger
  <2>4. IsFiniteSet(rest) /\ \A g \in rest : Positive'[g] \in Nat
    BY <2>2, <2>3, FS_Subset
  <2>5. Sum(Positive', rest) \in Nat
    <3> HIDE DEF rest
    <3> QED BY <2>4, SumType
  <2>6. Sum(Positive', ActiveGrants') = Positive'[grants'] + Sum(Positive', rest)
    BY <2>1, <2>2, <2>3, SumRemove
  <2>7. Purchased' = Sum(Positive', ActiveGrants')
    BY DEF Purchased, Sum
  <2> HIDE DEF rest
  <2> QED BY <1>1, <2>1, <2>5, <2>6, <2>7
<1>6. StopIsAnnounced'
  BY <1>5 DEF StopIsAnnounced, Stopped
<1> QED BY <1>4, <1>6

\* Only an answer uses up credits; only a new month or a grant begins an episode.
LEMMA NextEpisode ==
    ASSUME EpisodeInv, [Next]_vars
    PROVE  EpisodeInv'
<1> USE DEF journal, asking, ledger, orderVars, history
<1>0. AccountInv' /\ LedgerBalances'
  BY NextAccounts, NextLedger DEF EpisodeInv
<1> DEFINE Rest == ToldAfterGrant /\ StopIsAnnounced /\ GrantPaysNewAnswers
<1>1. ASSUME NEW q \in Questions, Ask(q) \/ AnswerFails(q) PROVE Rest'
  BY <1>1, EpisodeUntouched DEF Ask, AnswerFails
<1>2. ASSUME NEW q \in Questions, AnswerFree(q) PROVE Rest'
  <2>1. /\ UNCHANGED <<month, pool, used, grants, expired, remaining, late, reduced, fresh, by, silent>>
        /\ Announce(asked[q], saw[q] # "fine", saw[q] = "exhausted", FALSE)
    BY <1>2 DEF AnswerFree
  <2>2. told'["exhausted"] = told["exhausted"] /\ toldSince' = toldSince /\ grantMonth' = grantMonth
    BY <2>1 DEF Announce, Event, EpisodeInv, LedgerBalances, TypeOK
  <2>3. Stopped' <=> Stopped
    BY <2>1 DEF Stopped, Exhausted, Purchased, ActiveGrants, Positive
  <2> QED BY <2>1, <2>2, <2>3
         DEF EpisodeInv, ToldAfterGrant, StopIsAnnounced, GrantPaysNewAnswers, CrossedSince
<1>3. ASSUME NEW q \in Questions, NEW cost \in 1..MaxCost, Answer(q, cost) PROVE Rest'
  BY <1>3, AnswerEpisode
<1>4. ASSUME NewMonth PROVE Rest'
  <2>1. /\ month' = month + 1 /\ month \in Nat /\ month' \in Months
        /\ UNCHANGED <<pool, used, ledger, events, late, reduced, fresh, by>>
    BY <1>0, <1>4 DEF NewMonth, AccountInv, AccountType, EpisodeInv, Months
  <2>2. used'[month'] = 0 /\ pool' > 0 /\ pool' \in Nat
    BY <2>1, ConstantTypes DEF EpisodeInv, AccountInv, AccountType, NothingAhead
  <2>3. ~Stopped'
    BY <2>2 DEF Stopped, Exhausted
  <2> QED BY <2>1, <2>3
         DEF EpisodeInv, ToldAfterGrant, StopIsAnnounced, GrantPaysNewAnswers, CrossedSince, events
<1>5. ASSUME Expire PROVE Rest'
  <2>1. /\ UNCHANGED <<month, grants, remaining, told, toldSince, grantMonth, late, reduced, fresh, by>>
        /\ Stopped' /\ ~silent' => Stopped /\ ~silent
    BY <1>5 DEF Expire, events
  <2> QED BY <2>1 DEF EpisodeInv, ToldAfterGrant, StopIsAnnounced, GrantPaysNewAnswers, CrossedSince
<1>6. ASSUME NEW n \in Pools, SetPool(n) PROVE Rest'
  <2>1. /\ UNCHANGED <<month, grants, remaining, told, toldSince, grantMonth, late, fresh, by>>
        /\ Stopped' /\ ~silent' => Stopped /\ ~silent
        /\ reduced => reduced'
    BY <1>6 DEF SetPool, events
  <2> QED BY <2>1 DEF EpisodeInv, ToldAfterGrant, StopIsAnnounced, GrantPaysNewAnswers, CrossedSince
<1>7. ASSUME MakeGrant PROVE Rest'
  BY <1>0, <1>7, GrantEpisode
<1>8. ASSUME UNCHANGED <<journal, asking, ledger, events, history>> PROVE Rest'
  BY <1>8, EpisodeUntouched
<1> HIDE DEF Rest
<1>9. Rest'
  BY <1>1, <1>2, <1>3, <1>4, <1>5, <1>6, <1>7, <1>8
     DEF Next, vars, GrantByStaff, CreateOrder, SettleInvoice, MarkOrderPaid, SettleOrder,
         CancelOrder, CancelInvoice
<1> QED BY <1>0, <1>9 DEF Rest, EpisodeInv

\* The inductive invariant of the thresholds and of the latest grant.
THEOREM EpisodesAlways == Spec => []EpisodeInv
<1>1. Init => EpisodeInv
  <2>1. Init => ToldAfterGrant /\ GrantPaysNewAnswers /\ StopIsAnnounced
    <3> SUFFICES ASSUME Init PROVE ToldAfterGrant /\ GrantPaysNewAnswers /\ StopIsAnnounced
      OBVIOUS
    <3>1. ToldAfterGrant /\ GrantPaysNewAnswers
      BY DEF Init, ToldAfterGrant, GrantPaysNewAnswers
    <3>2. ~Stopped
      <4>1. used[month] = 0 /\ pool \in Nat /\ pool > 0
        BY BoundsAssumption, ConstantTypes DEF Init, Months
      <4> QED BY <4>1 DEF Stopped, Exhausted
    <3> QED BY <3>1, <3>2 DEF StopIsAnnounced
  <2> QED BY <2>1, InitAccounts, InitLedger DEF EpisodeInv
<1>2. EpisodeInv /\ [Next]_vars => EpisodeInv'
  BY NextEpisode
<1> QED BY <1>1, <1>2, PTL DEF Spec

\* When answers use up the last credit the administrators are told so, once in every
\* episode, whichever of the parallel answers it was (_announce, _once).
THEOREM StopIsAnnouncedAlways == Spec => []StopIsAnnounced
<1>1. EpisodeInv => StopIsAnnounced
  BY DEF EpisodeInv
<1> QED BY <1>1, EpisodesAlways, PTL

\* The latest grant pays only for answers given after it was made (charge).
THEOREM GrantPaysNewAnswersAlways == Spec => []GrantPaysNewAnswers
<1>1. EpisodeInv => GrantPaysNewAnswers
  BY DEF EpisodeInv
<1> QED BY <1>1, EpisodesAlways, PTL

=============================================================================
