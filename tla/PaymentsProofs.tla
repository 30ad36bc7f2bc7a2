--------------------------- MODULE PaymentsProofs ---------------------------
(***************************************************************************)
(* What Payments guarantees for any number of invoices, payment events,    *)
(* schedulers and days.  The proof follows what an action does to the      *)
(* invoices: it cancels some, issues one, settles one, or leaves them.     *)
(* The second part is about the period these invoices are for: what the    *)
(* admin, the team and the passes of the schedulers make of the end of the *)
(* subscription.                                                           *)
(***************************************************************************)
EXTENDS Payments, FiniteSetTheorems, TLAPS

InvoiceType ==
    /\ kind \in [Invoices -> SubscriptionKind \cup {"unused", "seats"}]
    /\ state \in [Invoices -> {"unused", "awaiting", "paid", "cancelled"}]
    /\ from \in [Invoices -> Nat]
    /\ until \in [Invoices -> Nat]
    /\ places \in [Invoices -> Nat]
    /\ created \in [Invoices -> Nat]
    /\ bill \in [Invoices -> {"none", "waiting", "paid", "expired", "deleted"}]

LedgerType ==
    /\ credited \in [Invoices -> Nat]
    /\ revived \in SUBSET Invoices
    /\ reconciled \in SUBSET Invoices

EventType ==
    /\ target \in [Events -> Invoices \cup {NoInvoice}]
    /\ verdict \in [Events -> Open \cup Review \cup Closed \cup {"unused"}]
    /\ sound \in [Events -> BOOLEAN]
    /\ attempts \in [Events -> 0..MaxAttempts]
    /\ paying \in [Events -> Invoices \cup {NoInvoice}]

TickType ==
    /\ tick \in [Schedulers -> {"idle", "listed", "polling", "renewing"}]
    /\ tickSeats \in [Schedulers -> Nat]
    /\ seen \in [Schedulers -> SUBSET Invoices]
    /\ loaded \in [Schedulers -> Subscription \cup {NoSub}]

StaffType ==
    /\ staffStep \in {"idle", "defer", "set", "topup"}
    /\ newSeats \in Nat
    /\ added \in Nat

CompanyType == today \in Nat /\ tenantSeats \in Nat /\ sub \in Subscription

LEMMA TypeParts ==
    /\ TypeOK <=> /\ InvoiceType /\ LedgerType /\ EventType
                  /\ TickType /\ StaffType /\ CompanyType
    /\ TypeOK' <=> /\ InvoiceType' /\ LedgerType' /\ EventType'
                   /\ TickType' /\ StaffType' /\ CompanyType'
  BY DEF TypeOK, InvoiceType, LedgerType, EventType, TickType, StaffType, CompanyType

\* An invoice that awaits payment has not been settled, by anybody.
NotSettledYet ==
    \A i \in Invoices : state[i] \in {"unused", "awaiting"}
                            => credited[i] = 0 /\ i \notin reconciled

\* The invoices are as they should be.
Ledger == NotSettledYet /\ SettledOncePerPath /\ OneInvoicePerPeriod

\* An event that is not closed has an attempt left.
AttemptsLeft == \A e \in Events : verdict[e] \in Open \cup {"unused"} => attempts[e] < MaxAttempts

PaymentsInv == TypeOK /\ Ledger /\ AttemptsLeft

\* No step takes back a payment.
PaidStays == \A i \in Invoices : state[i] = "paid" => state'[i] = "paid"

USE DEF SubscriptionKind, Open, Review, Closed

----------------------------------------------------------------------------
(* What the ORM writes is a subscription.                                  *)

LEMMA AppliedType ==
    ASSUME InvoiceType, today \in Nat, NEW s \in Subscription, NEW i \in Invoices
    PROVE  Applied(s, i) \in Subscription
<1>1. StartOf(i) \in Nat /\ EndOf(i) \in Nat /\ places[i] \in Nat
  BY PeriodAssumption DEF StartOf, EndOf, InvoiceType
<1>2. CASE kind[i] = "seats"
  BY <1>1, <1>2 DEF Applied, Subscription
<1>3. CASE kind[i] # "seats"
  <2> DEFINE longer == s.end = 0 \/ EndOf(i) > s.end
             end == IF longer THEN EndOf(i) ELSE s.end
  <2>1. end \in Nat
    BY <1>1 DEF Subscription
  <2> HIDE DEF end, longer
  <2> QED BY <1>1, <1>3, <2>1 DEF Applied, Subscription, end, longer
<1> QED BY <1>2, <1>3

LEMMA FlushType ==
    ASSUME NEW row \in Subscription, NEW old \in Subscription, NEW new \in Subscription
    PROVE  Flush(row, old, new) \in Subscription
  BY DEF Flush, Subscription

----------------------------------------------------------------------------
(* The three things that happen to invoices.                               *)

LEMMA DeleteBillsType ==
    ASSUME InvoiceType, NEW dropped, NEW n, DeleteBills(dropped, n)
    PROVE  bill' \in [Invoices -> {"none", "waiting", "paid", "expired", "deleted"}]
  BY DEF DeleteBills, InvoiceType

LEMMA CancelKeeps ==
    ASSUME TypeOK, Ledger, NEW dropped, \A i \in dropped : i \in Invoices /\ Awaiting(i),
           Cancel(dropped), UNCHANGED <<credited, reconciled>>
    PROVE  InvoiceType' /\ Ledger' /\ PaidStays
<1>1. InvoiceType'
  BY TypeParts, DeleteBillsType DEF Cancel, InvoiceType
<1>2. NotSettledYet' /\ SettledOncePerPath'
  BY DEF Cancel, TypeOK, Ledger, NotSettledYet, SettledOncePerPath
<1>3. OneInvoicePerPeriod'
  BY DEF Cancel, TypeOK, Ledger, OneInvoicePerPeriod, ForSubscription
<1>4. PaidStays
  BY DEF Cancel, TypeOK, PaidStays, Awaiting
<1> QED BY <1>1, <1>2, <1>3, <1>4 DEF Ledger

LEMMA IssueKeeps ==
    ASSUME TypeOK, Ledger, NEW n \in Invoices,
           NEW k \in {"first", "renewal", "seats"},
           NEW start \in Nat, NEW end \in Nat, NEW seats \in Nat,
           NEW dropped, \A i \in dropped : i \in Invoices /\ Awaiting(i),
           start # 0 => \A i \in Invoices : ForSubscription(i) /\ state[i] # "cancelled"
                                                => from[i] # start,
           Issue(n, k, start, end, seats, dropped), UNCHANGED <<credited, reconciled>>
    PROVE  InvoiceType' /\ Ledger' /\ PaidStays
<1>1. InvoiceType'
  BY TypeParts, DeleteBillsType DEF Issue, InvoiceType, CompanyType
<1>2. NotSettledYet' /\ SettledOncePerPath'
  BY DEF Issue, TypeOK, Ledger, NotSettledYet, SettledOncePerPath
<1>3. OneInvoicePerPeriod'
  BY DEF Issue, TypeOK, Ledger, OneInvoicePerPeriod, ForSubscription
<1>4. PaidStays
  BY DEF Issue, TypeOK, PaidStays, Awaiting
<1> QED BY <1>1, <1>2, <1>3, <1>4 DEF Ledger

\* Settling is sound when the invoice is awaiting, or for the first "poll:"
\* event of an invoice whatever its state.
LEMMA SettleKeeps ==
    ASSUME TypeOK, Ledger, NEW i \in Invoices, NEW s \in Subscription,
           SettleInvoice(i, s), UNCHANGED <<today, bill>>,
           \/ Awaiting(i) /\ reconciled' = reconciled
           \/ i \notin reconciled /\ reconciled' = reconciled \cup {i}
    PROVE  /\ InvoiceType' /\ LedgerType' /\ sub' \in Subscription
           /\ Ledger' /\ PaidStays
<1>0. InvoiceType /\ LedgerType /\ CompanyType
  BY TypeParts
<1>1. StartOf(i) \in Nat /\ EndOf(i) \in Nat
  BY <1>0, PeriodAssumption DEF StartOf, EndOf, InvoiceType, CompanyType
<1>2. InvoiceType'
  BY <1>0, <1>1 DEF SettleInvoice, InvoiceType
<1>3. LedgerType'
  BY <1>0 DEF SettleInvoice, LedgerType
<1>4. sub' \in Subscription
  BY <1>0, AppliedType, FlushType DEF SettleInvoice, CompanyType
<1>5. NotSettledYet'
  BY <1>0 DEF SettleInvoice, InvoiceType, LedgerType, Ledger, NotSettledYet
<1>6. SettledOncePerPath'
  BY <1>0 DEF SettleInvoice, InvoiceType, LedgerType, Ledger, NotSettledYet, SettledOncePerPath,
              Awaiting
<1>7. OneInvoicePerPeriod'
  <2> SUFFICES ASSUME NEW a \in Invoices, NEW b \in Invoices, a # b,
                      ForSubscription(a)', ForSubscription(b)',
                      state'[a] # "cancelled", state'[b] # "cancelled", from'[a] # 0
               PROVE  from'[a] # from'[b]
    BY DEF OneInvoicePerPeriod
  <2>1. ForSubscription(a) /\ ForSubscription(b)
    BY DEF SettleInvoice, ForSubscription
  <2>2. CASE a = i
    BY <1>0, <1>1, <2>1, <2>2 DEF SettleInvoice, PeriodTaken, InvoiceType
  <2>3. CASE b = i
    BY <1>0, <1>1, <2>1, <2>3 DEF SettleInvoice, PeriodTaken, InvoiceType
  <2>4. CASE a # i /\ b # i
    BY <1>0, <2>1, <2>4 DEF SettleInvoice, InvoiceType, Ledger, OneInvoicePerPeriod
  <2> QED BY <2>2, <2>3, <2>4
<1>8. PaidStays
  BY <1>0 DEF SettleInvoice, InvoiceType, PaidStays
<1> QED BY <1>2, <1>3, <1>4, <1>5, <1>6, <1>7, <1>8 DEF Ledger

LEMMA NothingKeeps ==
    ASSUME Ledger, UNCHANGED <<kind, state, from, credited, reconciled>>
    PROVE  Ledger' /\ PaidStays
  BY DEF Ledger, NotSettledYet, SettledOncePerPath, OneInvoicePerPeriod, ForSubscription, PaidStays

----------------------------------------------------------------------------
LEMMA PendingAwait ==
    ASSUME NEW i \in Pending \cup PendingRenewals
    PROVE  i \in Invoices /\ Awaiting(i)
  BY DEF Pending, PendingRenewals

LEMMA InitPaymentsInv == Init => PaymentsInv
  BY BoundsAssumption, MaxAttemptsAssumption
     DEF Init, PaymentsInv, TypeOK, Subscription, Seats, Ledger, NotSettledYet,
         SettledOncePerPath, OneInvoicePerPeriod, ForSubscription, AttemptsLeft

LEMMA NextPaymentsInv == PaymentsInv /\ [Next]_vars => PaymentsInv' /\ PaidStays
<1> SUFFICES ASSUME PaymentsInv, [Next]_vars
      PROVE  TypeOK' /\ Ledger' /\ AttemptsLeft' /\ PaidStays
  BY DEF PaymentsInv
<1> USE DEF PaymentsInv
<1> USE BoundsAssumption, MaxAttemptsAssumption, PeriodAssumption, AheadAssumption
<1>0. /\ InvoiceType /\ LedgerType /\ EventType /\ TickType /\ StaffType /\ CompanyType
      /\ sub \in Subscription /\ today \in Nat /\ tenantSeats \in Nat
      /\ sub.end \in Nat /\ sub.next \in Nat
  BY TypeParts DEF CompanyType, Subscription
<1>1. ASSUME NEW n \in Invoices, ChooseFirst(n)
      PROVE  TypeOK' /\ Ledger' /\ AttemptsLeft' /\ PaidStays
  <2>1. InvoiceType' /\ Ledger' /\ PaidStays
    BY <1>0, <1>1, PendingAwait, IssueKeeps DEF ChooseFirst, history
  <2>2. LedgerType' /\ EventType' /\ TickType' /\ StaffType'
    BY <1>0, <1>1
       DEF ChooseFirst, LedgerType, EventType, TickType, StaffType, history,
           eventVars, tickVars, staffVars
  <2>3. CompanyType'
    BY <1>0, <1>1 DEF ChooseFirst, Chosen, CompanyType, Subscription
  <2>4. AttemptsLeft'
    BY <1>0, <1>1 DEF ChooseFirst, AttemptsLeft, EventType, eventVars
  <2> QED BY <2>4, <2>1, <2>2, <2>3, TypeParts
<1>2. ASSUME ChooseFails PROVE TypeOK' /\ Ledger' /\ AttemptsLeft' /\ PaidStays
  <2>1. InvoiceType'
    BY <1>0, <1>2, DeleteBillsType DEF ChooseFails, IssueFails, InvoiceType, invoiceVars
  <2>2. Ledger' /\ PaidStays
    BY <1>2, NothingKeeps DEF ChooseFails, IssueFails, invoiceVars, history
  <2>3. LedgerType' /\ EventType' /\ TickType' /\ StaffType' /\ CompanyType'
    BY <1>0, <1>2
       DEF ChooseFails, IssueFails, LedgerType, EventType, TickType, StaffType,
           CompanyType, history, eventVars, tickVars, staffVars
  <2>4. AttemptsLeft'
    BY <1>0, <1>2 DEF ChooseFails, AttemptsLeft, EventType, eventVars
  <2> QED BY <2>4, <2>1, <2>2, <2>3, TypeParts
<1>3. ASSUME ChooseNext \/ \E i \in Invoices : CancelByStaff(i)
      PROVE  TypeOK' /\ Ledger' /\ AttemptsLeft' /\ PaidStays
  <2>1. \E dropped : /\ Cancel(dropped)
                     /\ \A i \in dropped : i \in Invoices /\ Awaiting(i)
    BY <1>3, PendingAwait DEF ChooseNext, CancelByStaff
  <2>2. UNCHANGED <<today, tenantSeats, sub, eventVars, tickVars, reconciled, staffVars, history>>
    BY <1>3 DEF ChooseNext, CancelByStaff
  <2>3. InvoiceType' /\ Ledger' /\ PaidStays
    BY <2>1, <2>2, CancelKeeps DEF history
  <2>4. LedgerType' /\ EventType' /\ TickType' /\ StaffType' /\ CompanyType'
    BY <1>0, <2>2
       DEF LedgerType, EventType, TickType, StaffType, CompanyType, history,
           eventVars, tickVars, staffVars
  <2>5. AttemptsLeft'
    BY <1>0, <1>3 DEF ChooseNext, CancelByStaff, AttemptsLeft, EventType, eventVars
  <2> QED BY <2>5, <2>3, <2>4, TypeParts
<1>4. ASSUME NEW i \in Invoices, BankMatches(i) \/ BankExpires(i)
      PROVE  TypeOK' /\ Ledger' /\ AttemptsLeft' /\ PaidStays
  <2>1. InvoiceType'
    BY <1>0, <1>4 DEF BankMatches, BankExpires, InvoiceType, invoiceVars
  <2>2. Ledger' /\ PaidStays
    BY <1>4, NothingKeeps DEF BankMatches, BankExpires, invoiceVars, history
  <2>3. LedgerType' /\ EventType' /\ TickType' /\ StaffType' /\ CompanyType'
    BY <1>0, <1>4
       DEF BankMatches, BankExpires, LedgerType, EventType, TickType, StaffType,
           CompanyType, history, eventVars, tickVars, staffVars
  <2>4. AttemptsLeft'
    BY <1>0, <1>4 DEF BankMatches, BankExpires, AttemptsLeft, EventType, eventVars
  <2> QED BY <2>4, <2>1, <2>2, <2>3, TypeParts
<1>5. ASSUME NEW e \in Events, NEW i \in Invoices \cup {NoInvoice}, NEW ok \in BOOLEAN,
             Receive(e, i, ok)
      PROVE  TypeOK' /\ Ledger' /\ AttemptsLeft' /\ PaidStays
  <2>1. Ledger' /\ PaidStays
    BY <1>5, NothingKeeps DEF Receive, invoiceVars, history
  <2>2. EventType'
    BY <1>0, <1>5 DEF Receive, EventType
  <2>3. InvoiceType' /\ LedgerType' /\ TickType' /\ StaffType' /\ CompanyType'
    BY <1>0, <1>5
       DEF Receive, InvoiceType, LedgerType, TickType, StaffType, CompanyType,
           invoiceVars, history, tickVars, staffVars
  <2>4. AttemptsLeft'
    BY <1>0, <1>5 DEF Receive, AttemptsLeft, EventType, eventVars
  <2> QED BY <2>4, <2>1, <2>2, <2>3, TypeParts
<1>6. ASSUME NEW e \in Events, Match(e) PROVE TypeOK' /\ Ledger' /\ AttemptsLeft' /\ PaidStays
  <2>1. target[e] \in Invoices /\ Awaiting(target[e])
    BY <1>0, <1>6 DEF Match, Confirmed, EventType
  <2>2. InvoiceType' /\ LedgerType' /\ sub' \in Subscription /\ Ledger' /\ PaidStays
    BY <1>0, <1>6, <2>1, SettleKeeps DEF Match
  <2>3. attempts[e] + 1 \in 0..MaxAttempts
    BY <1>0, <1>6 DEF Match, Free, AttemptsLeft, EventType
  <2>4. EventType'
    BY <1>0, <1>6, <2>3 DEF Match, Close, EventType
  <2>5. TickType' /\ StaffType' /\ CompanyType'
    BY <1>0, <1>6, <2>2 DEF Match, TickType, StaffType, CompanyType, tickVars, staffVars
  <2>6. AttemptsLeft'
    BY <1>0, <1>6 DEF Match, Close, Free, AttemptsLeft, EventType, eventVars
  <2> QED BY <2>6, <2>2, <2>4, <2>5, TypeParts
<1>7. ASSUME NEW e \in Events, GiveUp(e) \/ Postpone(e)
      PROVE  TypeOK' /\ Ledger' /\ AttemptsLeft' /\ PaidStays
  <2>1. Ledger' /\ PaidStays
    BY <1>7, NothingKeeps DEF GiveUp, Postpone, invoiceVars, history
  <2>2. EventType'
    BY <1>0, <1>7 DEF GiveUp, Postpone, Close, Free, AttemptsLeft, EventType
  <2>3. InvoiceType' /\ LedgerType' /\ TickType' /\ StaffType' /\ CompanyType'
    BY <1>0, <1>7
       DEF GiveUp, Postpone, Close, Free, InvoiceType, LedgerType, TickType,
           StaffType, CompanyType, invoiceVars, history, tickVars, staffVars
  <2>4. AttemptsLeft'
    BY <1>0, <1>7 DEF GiveUp, Postpone, Close, Free, AttemptsLeft, EventType, eventVars
  <2> QED BY <2>1, <2>2, <2>3, <2>4, TypeParts
<1>8. ASSUME NEW i \in Invoices, MarkPaid(i)
      PROVE  TypeOK' /\ Ledger' /\ AttemptsLeft' /\ PaidStays
  <2>1. InvoiceType' /\ LedgerType' /\ sub' \in Subscription /\ Ledger' /\ PaidStays
    BY <1>0, <1>8, SettleKeeps DEF MarkPaid
  <2>2. EventType' /\ TickType' /\ StaffType' /\ CompanyType'
    BY <1>0, <1>8, <2>1
       DEF MarkPaid, EventType, TickType, StaffType, eventVars, tickVars, staffVars,
           CompanyType
  <2>3. AttemptsLeft'
    BY <1>0, <1>8 DEF MarkPaid, AttemptsLeft, EventType, eventVars
  <2> QED BY <2>1, <2>2, <2>3, TypeParts
<1>9. ASSUME NEW e \in Events, NEW i \in Invoices, ResolvePays(e, i)
      PROVE  TypeOK' /\ Ledger' /\ AttemptsLeft' /\ PaidStays
  <2>1. InvoiceType' /\ LedgerType' /\ sub' \in Subscription /\ Ledger' /\ PaidStays
    BY <1>0, <1>9, SettleKeeps DEF ResolvePays
  <2>2. EventType'
    BY <1>0, <1>9 DEF ResolvePays, EventType
  <2>3. TickType' /\ StaffType' /\ CompanyType'
    BY <1>0, <1>9, <2>1 DEF ResolvePays, TickType, StaffType, tickVars, staffVars, CompanyType
  <2>4. AttemptsLeft'
    BY <1>0, <1>9 DEF ResolvePays, AttemptsLeft, EventType, eventVars
  <2> QED BY <2>1, <2>2, <2>3, <2>4, TypeParts
<1>10. ASSUME NEW e \in Events, ResolveEnds(e) \/ Dismiss(e)
      PROVE  TypeOK' /\ Ledger' /\ AttemptsLeft' /\ PaidStays
  <2>1. Ledger' /\ PaidStays
    BY <1>10, NothingKeeps DEF ResolveEnds, Dismiss, invoiceVars, history
  <2>2. EventType'
    BY <1>0, <1>10 DEF ResolveEnds, Dismiss, EventType
  <2>3. InvoiceType' /\ LedgerType' /\ TickType' /\ StaffType' /\ CompanyType'
    BY <1>0, <1>10
       DEF ResolveEnds, Dismiss, InvoiceType, LedgerType, TickType, StaffType,
           CompanyType, invoiceVars, history, tickVars, staffVars
  <2>4. AttemptsLeft'
    BY <1>0, <1>10 DEF ResolveEnds, Dismiss, AttemptsLeft, EventType, eventVars
  <2> QED BY <2>1, <2>2, <2>3, <2>4, TypeParts
<1>11. ASSUME NEW n \in Seats, PlanSeats(n)
      PROVE  TypeOK' /\ Ledger' /\ AttemptsLeft' /\ PaidStays
  <2>1. Ledger' /\ PaidStays
    BY <1>11, NothingKeeps DEF PlanSeats, invoiceVars, history
  <2>2. StaffType'
    BY <1>0, <1>11 DEF PlanSeats, Seats, CompanyType, StaffType
  <2>3. InvoiceType' /\ LedgerType' /\ EventType' /\ TickType' /\ CompanyType'
    BY <1>0, <1>11
       DEF PlanSeats, InvoiceType, LedgerType, EventType, TickType, CompanyType,
           invoiceVars, history, eventVars, tickVars
  <2>4. AttemptsLeft'
    BY <1>0, <1>11 DEF PlanSeats, AttemptsLeft, EventType, eventVars
  <2> QED BY <2>1, <2>2, <2>3, <2>4, TypeParts
<1>12. ASSUME SetSeats \/ StaffCrash
      PROVE  TypeOK' /\ Ledger' /\ AttemptsLeft' /\ PaidStays
  <2>1. Ledger' /\ PaidStays
    BY <1>12, NothingKeeps DEF SetSeats, StaffCrash, StaffDone, invoiceVars, history
  <2>2. StaffType'
    BY <1>0, <1>12 DEF SetSeats, StaffCrash, StaffDone, StaffType
  <2>3. CompanyType'
    <3>1. UNCHANGED <<today, sub>>
      BY <1>12 DEF SetSeats, StaffCrash
    <3>2. tenantSeats' \in {newSeats, tenantSeats}
      BY <1>12 DEF SetSeats, StaffCrash
    <3> QED BY <1>0, <3>1, <3>2 DEF StaffType, CompanyType
  <2>4. InvoiceType' /\ LedgerType' /\ EventType' /\ TickType'
    <3>1. UNCHANGED <<invoiceVars, bill, eventVars, tickVars, reconciled, history>>
      BY <1>12 DEF SetSeats, StaffCrash
    <3> QED
      BY <1>0, <3>1 DEF InvoiceType, LedgerType, EventType, TickType, invoiceVars, history,
         eventVars, tickVars
  <2>5. AttemptsLeft'
    BY <1>0, <1>12 DEF SetSeats, StaffCrash, StaffDone, AttemptsLeft, EventType, eventVars
  <2> QED BY <2>1, <2>2, <2>3, <2>4, <2>5, TypeParts
<1>13. ASSUME DeferSeats
      PROVE  TypeOK' /\ Ledger' /\ AttemptsLeft' /\ PaidStays
  <2>1. /\ Cancel(PendingRenewals)
        /\ UNCHANGED <<today, tenantSeats, eventVars, tickVars, reconciled, history>>
    BY <1>13 DEF DeferSeats
  <2>2. InvoiceType' /\ Ledger' /\ PaidStays
    BY <2>1, PendingAwait, CancelKeeps DEF history
  <2>3. StaffType' /\ CompanyType'
    BY <1>0, <1>13 DEF DeferSeats, StaffDone, StaffType, CompanyType, Subscription
  <2>4. LedgerType' /\ EventType' /\ TickType'
    BY <1>0, <2>1 DEF LedgerType, EventType, TickType, history, eventVars, tickVars
  <2>5. AttemptsLeft'
    BY <1>0, <1>13 DEF DeferSeats, AttemptsLeft, EventType, eventVars
  <2> QED BY <2>2, <2>3, <2>4, <2>5, TypeParts
<1>14. ASSUME Topup
      PROVE  TypeOK' /\ Ledger' /\ AttemptsLeft' /\ PaidStays
  <2>1. InvoiceType' /\ Ledger' /\ PaidStays
    <3>1. added \in Nat /\ UNCHANGED <<credited, reconciled>>
      BY <1>0, <1>14 DEF Topup, StaffType, history
    <3>2. CASE TopupDue
      <4>1. PICK n \in Invoices : Issue(n, "seats", 0, 0, added, PendingRenewals)
        BY <1>14, <3>2 DEF Topup
      <4> QED BY <3>1, <4>1, PendingAwait, IssueKeeps
    <3>3. CASE ~TopupDue
      BY <1>14, <3>1, <3>3, PendingAwait, CancelKeeps DEF Topup
    <3> QED BY <3>2, <3>3
  <2>2. StaffType' /\ CompanyType'
    BY <1>0, <1>14 DEF Topup, StaffDone, StaffType, CompanyType, Subscription
  <2>3. LedgerType' /\ EventType' /\ TickType'
    BY <1>0, <1>14 DEF Topup, LedgerType, EventType, TickType, history, eventVars, tickVars
  <2>4. AttemptsLeft'
    BY <1>0, <1>14 DEF Topup, AttemptsLeft, EventType, eventVars
  <2> QED BY <2>1, <2>2, <2>3, <2>4, TypeParts
<1>15. ASSUME TopupFails
      PROVE  TypeOK' /\ Ledger' /\ AttemptsLeft' /\ PaidStays
  <2>1. InvoiceType'
    BY <1>0, <1>15, DeleteBillsType DEF TopupFails, IssueFails, InvoiceType, invoiceVars
  <2>2. Ledger' /\ PaidStays
    BY <1>15, NothingKeeps DEF TopupFails, IssueFails, invoiceVars, history
  <2>3. LedgerType' /\ EventType' /\ TickType' /\ StaffType' /\ CompanyType'
    BY <1>0, <1>15 DEF TopupFails, IssueFails, StaffDone, LedgerType, EventType, TickType,
       StaffType, CompanyType, history, eventVars, tickVars
  <2>4. AttemptsLeft'
    BY <1>0, <1>15 DEF TopupFails, AttemptsLeft, EventType, eventVars
  <2> QED BY <2>1, <2>2, <2>3, <2>4, TypeParts
<1>16. ASSUME NEW s \in Schedulers, List(s) \/ ReadAwaiting(s)
      PROVE  TypeOK' /\ Ledger' /\ AttemptsLeft' /\ PaidStays
  <2>1. Ledger' /\ PaidStays
    BY <1>16, NothingKeeps DEF List, ReadAwaiting, invoiceVars, history
  <2>2. TickType'
    BY <1>0, <1>16 DEF List, ReadAwaiting, CompanyType, TickType
  <2>3. InvoiceType' /\ LedgerType' /\ EventType' /\ StaffType' /\ CompanyType'
    BY <1>0, <1>16
       DEF List, ReadAwaiting, InvoiceType, LedgerType, EventType, StaffType,
           CompanyType, invoiceVars, history, eventVars, staffVars
  <2>4. AttemptsLeft'
    BY <1>0, <1>16 DEF List, ReadAwaiting, AttemptsLeft, EventType, eventVars
  <2> QED BY <2>1, <2>2, <2>3, <2>4, TypeParts
<1>17. ASSUME NEW s \in Schedulers, PollEnds(s) \/ NothingToRenew(s) \/ TickFails(s)
      PROVE  TypeOK' /\ Ledger' /\ AttemptsLeft' /\ PaidStays
  <2>1. Ledger' /\ PaidStays
    BY <1>17, NothingKeeps DEF PollEnds, NothingToRenew, TickFails, invoiceVars, history
  <2>2. TickType'
    BY <1>0, <1>17 DEF PollEnds, NothingToRenew, TickFails, Forget, TickType
  <2>3. InvoiceType' /\ LedgerType' /\ EventType' /\ StaffType' /\ CompanyType'
    BY <1>0, <1>17
       DEF PollEnds, NothingToRenew, TickFails, Forget, InvoiceType, LedgerType,
           EventType, StaffType, CompanyType, invoiceVars, history, eventVars,
           staffVars
  <2>4. AttemptsLeft'
    BY <1>0, <1>17
       DEF PollEnds, NothingToRenew, TickFails, Forget, AttemptsLeft, EventType,
           eventVars
  <2> QED BY <2>1, <2>2, <2>3, <2>4, TypeParts
<1>18. ASSUME NEW s \in Schedulers, NEW i \in Invoices, Reconcile(s, i)
      PROVE  TypeOK' /\ Ledger' /\ AttemptsLeft' /\ PaidStays
  <2> DEFINE remembered == IF loaded[s] = NoSub THEN sub ELSE loaded[s]
  <2>1. remembered \in Subscription
    BY <1>0 DEF TickType
  <2>2. SettleInvoice(i, remembered) /\ i \notin reconciled /\ reconciled' = reconciled \cup {i}
    BY <1>18 DEF Reconcile
  <2> HIDE DEF remembered
  <2>3. InvoiceType' /\ LedgerType' /\ sub' \in Subscription /\ Ledger' /\ PaidStays
    BY <1>18, <2>1, <2>2, SettleKeeps DEF Reconcile
  <2>4. Applied(remembered, i) \in Subscription
    BY <1>0, <2>1, AppliedType
  <2>5. TickType'
    BY <1>0, <1>18, <2>4 DEF Reconcile, TickType, remembered
  <2>6. EventType' /\ StaffType' /\ CompanyType'
    BY <1>0, <1>18, <2>3 DEF Reconcile, EventType, StaffType, CompanyType, eventVars, staffVars
  <2>7. AttemptsLeft'
    BY <1>0, <1>18 DEF Reconcile, AttemptsLeft, EventType, eventVars
  <2> QED BY <2>3, <2>5, <2>6, <2>7, TypeParts
<1>19. ASSUME NEW s \in Schedulers, Renew(s)
      PROVE  TypeOK' /\ Ledger' /\ AttemptsLeft' /\ PaidStays
  <2> DEFINE next == IF NextSeatsBegin THEN 0 ELSE sub.next
             seats == IF next # 0 THEN next ELSE tickSeats[s]
  <2>1. seats \in Nat /\ sub.end + Period \in Nat /\ UNCHANGED <<credited, reconciled>>
    BY <1>0, <1>19 DEF Renew, TickType, history
  <2>2. InvoiceType' /\ Ledger' /\ PaidStays
    <3>1. CASE Renewable /\ \E n \in Invoices :
                                 Issue(n, "renewal", sub.end, sub.end + Period, seats, {})
      <4>1. PICK n \in Invoices : Issue(n, "renewal", sub.end, sub.end + Period, seats, {})
        BY <3>1
      <4>2. \A k \in Invoices : ForSubscription(k) /\ state[k] # "cancelled" => from[k] # sub.end
        BY <3>1 DEF Renewable
      <4> HIDE DEF seats
      <4> QED BY <1>0, <2>1, <4>1, <4>2, IssueKeeps
    <3>2. CASE UNCHANGED <<invoiceVars, bill>>
      BY <1>0, <2>1, <3>2, NothingKeeps DEF invoiceVars, InvoiceType
    <3> QED BY <1>19, <3>1, <3>2 DEF Renew
  <2>3. LedgerType' /\ TickType' /\ CompanyType'
    BY <1>0, <1>19 DEF Renew, Forget, StateToday, Noticed, LedgerType, TickType, CompanyType,
                       Subscription, history
  <2>4. EventType' /\ StaffType'
    BY <1>0, <1>19 DEF Renew, EventType, StaffType, eventVars, staffVars
  <2>5. AttemptsLeft'
    BY <1>0, <1>19 DEF Renew, AttemptsLeft, EventType, eventVars
  <2> QED BY <2>2, <2>3, <2>4, <2>5, TypeParts
<1>20. ASSUME NewDay
      PROVE  TypeOK' /\ Ledger' /\ AttemptsLeft' /\ PaidStays
  <2>1. Ledger' /\ PaidStays
    BY <1>20, NothingKeeps DEF NewDay, invoiceVars, history
  <2>2. CompanyType'
    BY <1>0, <1>20 DEF NewDay, CompanyType
  <2>3. InvoiceType' /\ LedgerType' /\ EventType' /\ TickType' /\ StaffType'
    BY <1>0, <1>20
       DEF NewDay, InvoiceType, LedgerType, EventType, TickType, StaffType,
           invoiceVars, history, eventVars, tickVars, staffVars
  <2>4. AttemptsLeft'
    BY <1>0, <1>20 DEF NewDay, AttemptsLeft, EventType, eventVars
  <2> QED BY <2>1, <2>2, <2>3, <2>4, TypeParts
<1>21. ASSUME UNCHANGED vars
      PROVE  TypeOK' /\ Ledger' /\ AttemptsLeft' /\ PaidStays
  <2>1. Ledger' /\ PaidStays
    BY <1>21, NothingKeeps DEF vars, invoiceVars, history
  <2>2. TypeOK'
    BY <1>21 DEF vars, TypeOK, invoiceVars, eventVars, tickVars, staffVars, history
  <2>3. AttemptsLeft'
    BY <1>21 DEF vars, AttemptsLeft, eventVars
  <2> QED BY <2>1, <2>2, <2>3
<1> QED
  BY <1>1, <1>2, <1>3, <1>4, <1>5, <1>6, <1>7, <1>8, <1>9, <1>10, <1>11,
     <1>12, <1>13, <1>14, <1>15, <1>16, <1>17, <1>18, <1>19, <1>20, <1>21
     DEF Next, Admin, Bank, Staff, Process, Tick

\* The inductive invariant the three safety theorems below follow from.
THEOREM PaymentsInvariant == Spec => []PaymentsInv
<1>1. Init => PaymentsInv
  BY InitPaymentsInv
<1>2. PaymentsInv /\ [Next]_vars => PaymentsInv'
  BY NextPaymentsInv
<1> QED BY <1>1, <1>2, PTL DEF Spec

\* Every column of the billing tables has a value of its type.
THEOREM PaymentsType == Spec => []TypeOK
<1>1. PaymentsInv => TypeOK
  BY DEF PaymentsInv
<1> QED BY <1>1, PaymentsInvariant, PTL

\* An invoice is settled once by the webhooks and the team, and once more
\* at most by the reconciliation that has read it before.
THEOREM SettledOncePerPathAlways == Spec => []SettledOncePerPath
<1>1. PaymentsInv => SettledOncePerPath
  BY DEF PaymentsInv, Ledger
<1> QED BY <1>1, PaymentsInvariant, PTL

\* One invoice for one period of the subscription.
THEOREM OneInvoicePerPeriodAlways == Spec => []OneInvoicePerPeriod
<1>1. PaymentsInv => OneInvoicePerPeriod
  BY DEF PaymentsInv, Ledger
<1> QED BY <1>1, PaymentsInvariant, PTL

\* A paid invoice is never cancelled and never awaits payment again.
THEOREM PaidIsFinalAlways == Spec => PaidIsFinal
<1>1. PaymentsInv /\ [Next]_vars
          => [\A i \in Invoices : state[i] = "paid" => state'[i] = "paid"]_vars
  BY NextPaymentsInv DEF PaidStays
<1> QED BY <1>1, PaymentsInvariant, PTL DEF Spec, PaidIsFinal

----------------------------------------------------------------------------
(* The ordinary course of a subscription.                                  *)

\* The ordinary course: as long as no reconciliation has settled an invoice that was
\* not awaiting any more, there is one invoice to pay, for the period after the last
\* paid one, and it asks for the seats that are planned.
Course ==
    revived = {} =>
        /\ \A i, k \in Pending : i = k
        /\ sub.end = 0 =>
              /\ \A i \in Invoices : ForSubscription(i) => state[i] # "paid"
              /\ \A i \in Pending : kind[i] = "first"
        /\ sub.end # 0 =>
              \A i \in Pending : /\ kind[i] = "renewal"
                                 /\ from[i] = sub.end /\ until[i] = sub.end + Period
                                 /\ sub.next # 0 => places[i] = sub.next
        /\ \A i \in Invoices : ForSubscription(i) /\ state[i] = "paid" => until[i] <= sub.end
        /\ \A i, k \in Invoices :
              /\ ForSubscription(i) /\ ForSubscription(k) /\ i # k
              /\ state[i] = "paid" /\ state[k] = "paid"
              => until[i] <= from[k] \/ until[k] <= from[i]

\* An invoice that is issued has its kind.
Drawn == \A i \in Invoices : kind[i] = "unused" <=> state[i] = "unused"

\* A pass remembers what it has read in it, and the end of the subscription only as long as
\* the invoice it has read as awaiting awaits.
Memory ==
    \A s \in Schedulers :
        /\ tick[s] # "polling" => loaded[s] = NoSub /\ seen[s] = {}
        /\ \A i \in seen[s] : state[i] # "unused"
        /\ revived = {} /\ loaded[s] # NoSub =>
              \A i \in seen[s] \cap Pending : loaded[s].end = sub.end

\* What settling an invoice makes of the end, and of the seats that are planned.
LEMMA SettledFields ==
    ASSUME NEW row \in Subscription, NEW s \in Subscription, NEW i \in Invoices,
           InvoiceType, today \in Nat
    PROVE  /\ Applied(s, i).end = IF kind[i] # "seats" /\ (s.end = 0 \/ EndOf(i) > s.end)
                                  THEN EndOf(i) ELSE s.end
           /\ Flush(row, s, Applied(s, i)).end =
                 IF Applied(s, i).end = s.end THEN row.end ELSE Applied(s, i).end
           /\ Flush(row, s, Applied(s, i)).next = row.next
<1>1. Applied(s, i) \in Subscription
  BY AppliedType
<1>2. Applied(s, i).next = s.next
  BY DEF Applied, Subscription
<1>3. Applied(s, i).end = IF kind[i] # "seats" /\ (s.end = 0 \/ EndOf(i) > s.end)
                          THEN EndOf(i) ELSE s.end
  BY DEF Applied, Subscription
<1>4. /\ Flush(row, s, Applied(s, i)).end =
             IF Applied(s, i).end = s.end THEN row.end ELSE Applied(s, i).end
      /\ Flush(row, s, Applied(s, i)).next =
             IF Applied(s, i).next = s.next THEN row.next ELSE Applied(s, i).next
  <2>1. "end" \in DOMAIN row /\ "next" \in DOMAIN row
    BY DEF Subscription
  <2> QED BY <2>1 DEF Flush
<1> QED BY <1>2, <1>3, <1>4

\* Settling the one pending invoice takes the subscription to its end.
LEMMA SettleCourse ==
    ASSUME TypeOK, Course, Drawn, NEW i \in Invoices, NEW s \in Subscription,
           SettleInvoice(i, s), today' = today, state[i] # "unused",
           revived = {} /\ i \in Pending => s.end = sub.end
    PROVE  /\ Course' /\ Drawn'
           /\ revived' = {} =>
                 /\ revived = {} /\ Awaiting(i)
                 /\ IF i \in Pending THEN Pending' = {} ELSE Pending' = Pending /\ sub'.end = sub.end
<1>1. Drawn'
  BY DEF Drawn, SettleInvoice, TypeOK
<1>2. revived' = {} => revived = {} /\ Awaiting(i)
  BY DEF SettleInvoice
<1>3. CASE revived' # {}
  BY <1>1, <1>3 DEF Course
<1>4. CASE revived' = {} /\ i \in Pending
  <2>1. /\ revived = {} /\ s.end = sub.end /\ sub.end \in Nat /\ ForSubscription(i)
        /\ \A k \in Pending : k = i
    BY <1>2, <1>4 DEF Course, Pending, TypeOK, Subscription
  <2>2. /\ state' = [state EXCEPT ![i] = "paid"]
        /\ from' = [from EXCEPT ![i] = StartOf(i)]
        /\ until' = [until EXCEPT ![i] = EndOf(i)]
        /\ kind' = kind
    BY <2>1 DEF SettleInvoice
  <2>3. Pending' = {}
    BY <2>1, <2>2 DEF Pending, ForSubscription, Awaiting, TypeOK
  <2>4. kind[i] # "seats" /\ InvoiceType /\ sub \in Subscription /\ today \in Nat
    BY <2>1, TypeParts DEF ForSubscription, CompanyType
  <2>5. sub'.end = IF sub.end = 0 \/ EndOf(i) > sub.end THEN EndOf(i) ELSE sub.end
    BY <2>1, <2>4, SettledFields DEF SettleInvoice
  <2>6. CASE sub.end = 0
    <3>1. sub'.end = EndOf(i) /\ EndOf(i) > 0 /\ EndOf(i) \in Nat
      BY <1>4, <2>1, <2>4, <2>5, <2>6, PeriodAssumption DEF Course, EndOf
    <3>2. \A k \in Invoices : ForSubscription(k)' /\ state'[k] = "paid" => k = i
      BY <2>1, <2>2, <2>6 DEF Course, ForSubscription, TypeOK
    <3> QED BY <1>1, <1>2, <1>4, <2>2, <2>3, <3>1, <3>2 DEF Course, TypeOK
  <2>7. CASE sub.end # 0
    <3>1. kind[i] = "renewal" /\ from[i] = sub.end /\ until[i] = sub.end + Period
      BY <1>4, <2>1, <2>7 DEF Course
    <3>2. EndOf(i) = until[i] /\ StartOf(i) = from[i]
      BY <3>1 DEF EndOf, StartOf
    <3>3. sub'.end = sub.end + Period /\ from' = from /\ until' = until
      BY <2>1, <2>2, <2>5, <3>1, <3>2, PeriodAssumption DEF TypeOK
    <3>4. \A k \in Invoices : ForSubscription(k)' /\ state'[k] = "paid" =>
             k = i \/ (ForSubscription(k) /\ state[k] = "paid" /\ until[k] <= sub.end)
      BY <2>1, <2>2 DEF Course, ForSubscription, TypeOK
    <3>5. \A k \in Invoices : ForSubscription(k)' /\ state'[k] = "paid" => until'[k] <= sub'.end
      BY <2>1, <3>1, <3>3, <3>4, PeriodAssumption DEF TypeOK
    <3>6. \A a, b \in Invoices :
              /\ ForSubscription(a)' /\ ForSubscription(b)' /\ a # b
              /\ state'[a] = "paid" /\ state'[b] = "paid"
              => until'[a] <= from'[b] \/ until'[b] <= from'[a]
      BY <2>1, <3>1, <3>3, <3>4 DEF Course
    <3>7. sub'.end # 0
      BY <2>1, <3>3, PeriodAssumption
    <3> QED BY <1>1, <1>2, <1>4, <2>3, <3>5, <3>6, <3>7 DEF Course
  <2> QED BY <2>1, <2>6, <2>7
<1>5. CASE revived' = {} /\ i \notin Pending
  <2>1. revived = {} /\ Awaiting(i) /\ ~ForSubscription(i) /\ kind[i] = "seats"
    BY <1>2, <1>5 DEF Pending, ForSubscription, Drawn, Awaiting, TypeOK
  <2>2. state' = [state EXCEPT ![i] = "paid"] /\ UNCHANGED <<kind, from, until, places>>
    BY <2>1 DEF SettleInvoice, TypeOK
  <2>3. Pending' = Pending
    BY <2>1, <2>2 DEF Pending, ForSubscription, Awaiting, TypeOK
  <2>4. sub'.end = sub.end /\ sub'.next = sub.next
    BY <2>1, TypeParts, SettledFields DEF SettleInvoice, CompanyType
  <2>5. \A k \in Invoices : ForSubscription(k)' =>
           k # i /\ ForSubscription(k) /\ state'[k] = state[k]
    BY <2>1, <2>2 DEF ForSubscription, TypeOK
  <2>6. Course'
    BY <2>1, <2>2, <2>3, <2>4, <2>5 DEF Course
  <2> QED BY <1>1, <1>5, <2>1, <2>3, <2>4, <2>6
<1> QED BY <1>1, <1>3, <1>4, <1>5

\* An invoice has a kind from the moment it is issued.
LEMMA DrawnNext ==
    ASSUME TypeOK, Course, Drawn, Memory, [Next]_vars
    PROVE  Drawn'
<1> USE DEF invoiceVars, eventVars, tickVars, staffVars, history
<1>1. ASSUME NEW n \in Invoices, ChooseFirst(n) PROVE Drawn'
  BY <1>1 DEF ChooseFirst, Drawn, Issue, Pending, Awaiting, TypeOK
<1>2. ASSUME ChooseFails PROVE Drawn'
  BY <1>2 DEF ChooseFails, IssueFails, Drawn
<1>3. ASSUME ChooseNext PROVE Drawn'
  BY <1>3 DEF ChooseNext, Drawn, Cancel, Pending, Awaiting, TypeOK
<1>4. ASSUME NEW i \in Invoices, BankMatches(i) \/ BankExpires(i)
      PROVE  Drawn'
  BY <1>4 DEF BankMatches, BankExpires, Drawn
<1>5. ASSUME NEW e \in Events, NEW i \in Invoices \cup {NoInvoice}, 
             NEW ok \in BOOLEAN, Receive(e, i, ok)
      PROVE  Drawn'
  BY <1>5 DEF Receive, Drawn
<1>6. ASSUME NEW e \in Events, Match(e) PROVE Drawn'
  <2>1. target[e] \in Invoices /\ Awaiting(target[e]) /\ SettleInvoice(target[e], sub)
    BY <1>6 DEF Match, Confirmed, TypeOK
  <2> QED BY <1>6, <2>1, SettleCourse DEF Match, Awaiting, TypeOK
<1>7. ASSUME NEW e \in Events, GiveUp(e) \/ Postpone(e) PROVE Drawn'
  BY <1>7 DEF GiveUp, Postpone, Drawn
<1>8. ASSUME NEW i \in Invoices, MarkPaid(i) PROVE Drawn'
  <2>1. Awaiting(i) /\ SettleInvoice(i, sub)
    BY <1>8 DEF MarkPaid
  <2> QED BY <1>8, <2>1, SettleCourse DEF MarkPaid, Awaiting, TypeOK
<1>9. ASSUME NEW i \in Invoices, CancelByStaff(i) PROVE Drawn'
  BY <1>9 DEF CancelByStaff, Drawn, Cancel, Awaiting, TypeOK
<1>10. ASSUME NEW e \in Events, NEW i \in Invoices, ResolvePays(e, i)
      PROVE  Drawn'
  <2>1. Awaiting(i) /\ SettleInvoice(i, sub)
    BY <1>10 DEF ResolvePays
  <2> QED BY <1>10, <2>1, SettleCourse DEF ResolvePays, Awaiting, TypeOK
<1>11. ASSUME NEW e \in Events, ResolveEnds(e) \/ Dismiss(e)
      PROVE  Drawn'
  BY <1>11 DEF ResolveEnds, Dismiss, Drawn
<1>12. ASSUME NEW n \in Seats, PlanSeats(n) PROVE Drawn'
  BY <1>12 DEF PlanSeats, Drawn
<1>13. ASSUME SetSeats \/ StaffCrash PROVE Drawn'
  BY <1>13 DEF SetSeats, StaffCrash, Drawn
<1>14. ASSUME DeferSeats PROVE Drawn'
  BY <1>14 DEF DeferSeats, Drawn, Cancel, PendingRenewals, Pending, Awaiting, TypeOK
<1>15. ASSUME Topup PROVE Drawn'
  <2>1. CASE TopupDue
    <3>1. PICK n \in Invoices : Issue(n, "seats", 0, 0, added, PendingRenewals)
      BY <1>15, <2>1 DEF Topup
    <3> QED BY <3>1 DEF Drawn, Issue, PendingRenewals, Pending, Awaiting, TypeOK
  <2>2. CASE ~TopupDue
    BY <1>15, <2>2 DEF Topup, Drawn, Cancel, PendingRenewals, Pending, Awaiting, TypeOK
  <2> QED BY <2>1, <2>2
<1>16. ASSUME TopupFails PROVE Drawn'
  BY <1>16 DEF TopupFails, IssueFails, Drawn
<1>17. ASSUME NEW s \in Schedulers, List(s) PROVE Drawn'
  BY <1>17 DEF List, Drawn
<1>18. ASSUME NEW s \in Schedulers, ReadAwaiting(s) PROVE Drawn'
  BY <1>18 DEF ReadAwaiting, Drawn
<1>19. ASSUME NEW s \in Schedulers, PollEnds(s) \/ NothingToRenew(s) \/ TickFails(s)
      PROVE  Drawn'
  BY <1>19 DEF PollEnds, NothingToRenew, TickFails, Forget, Drawn
<1>20. ASSUME NEW s \in Schedulers, NEW i \in Invoices, Reconcile(s, i)
      PROVE  Drawn'
  <2> DEFINE s0 == IF loaded[s] = NoSub THEN sub ELSE loaded[s]
  <2>1. s0 \in Subscription
    BY DEF TypeOK
  <2>2. SettleInvoice(i, s0) /\ i \in seen[s] /\ state[i] # "unused"
    BY <1>20 DEF Reconcile, Memory
  <2>3. revived = {} /\ i \in Pending => s0.end = sub.end
    BY <2>2 DEF Memory
  <2> HIDE DEF s0
  <2> QED BY <1>20, <2>1, <2>2, <2>3, SettleCourse DEF Reconcile
<1>21. ASSUME NEW s \in Schedulers, Renew(s) PROVE Drawn'
  BY <1>21 DEF Renew, Forget, Drawn, Issue, TypeOK
<1>22. ASSUME NewDay PROVE Drawn'
  BY <1>22 DEF NewDay, Drawn
<1>23. ASSUME UNCHANGED vars PROVE Drawn'
  BY <1>23 DEF vars, Drawn
<1> QED
  BY <1>1, <1>2, <1>3, <1>4, <1>5, <1>6, <1>7, <1>8, <1>9, <1>10, <1>11, <1>12,
     <1>13, <1>14, <1>15, <1>16, <1>17, <1>18, <1>19, <1>20, <1>21, <1>22,
     <1>23
  DEF Next, Admin, Bank, Staff, Process, Tick

\* Nobody issues a second invoice, or one for another period, and what is settled is the
\* next period.
LEMMA CourseNext ==
    ASSUME TypeOK, TypeOK', Course, Drawn, Memory, [Next]_vars
    PROVE  Course'
<1> USE DEF invoiceVars, eventVars, tickVars, staffVars, history
<1>1. ASSUME NEW n \in Invoices, ChooseFirst(n) PROVE Course'
  <2>1. /\ sub.end = 0 /\ sub'.end = 0 /\ revived' = revived /\ state[n] = "unused"
        /\ state' = [i \in Invoices |-> IF i = n THEN "awaiting"
                                        ELSE IF i \in Pending THEN "cancelled" ELSE state[i]]
        /\ kind' = [kind EXCEPT ![n] = "first"]
    BY <1>1 DEF ChooseFirst, Issue, Chosen, TypeOK, Subscription
  <2>2. Pending' = {n} /\ kind'[n] = "first"
    BY <2>1 DEF Pending, ForSubscription, Awaiting, TypeOK
  <2>3. \A i \in Invoices : ForSubscription(i)' /\ state'[i] = "paid" =>
           ForSubscription(i) /\ state[i] = "paid"
    BY <2>1 DEF ForSubscription, TypeOK
  <2> QED BY <2>1, <2>2, <2>3 DEF Course
<1>2. ASSUME ChooseFails PROVE Course'
  BY <1>2 DEF ChooseFails, IssueFails, Course, Pending, ForSubscription, Awaiting
<1>3. ASSUME ChooseNext PROVE Course'
  BY <1>3 DEF ChooseNext, Course, Pending, ForSubscription, Awaiting, Cancel, TypeOK
<1>4. ASSUME NEW i \in Invoices, BankMatches(i) \/ BankExpires(i)
      PROVE  Course'
  BY <1>4 DEF BankMatches, BankExpires, Course, Pending, ForSubscription, Awaiting
<1>5. ASSUME NEW e \in Events, NEW i \in Invoices \cup {NoInvoice}, 
             NEW ok \in BOOLEAN, Receive(e, i, ok)
      PROVE  Course'
  BY <1>5 DEF Receive, Course, Pending, ForSubscription, Awaiting
<1>6. ASSUME NEW e \in Events, Match(e) PROVE Course'
  <2>1. target[e] \in Invoices /\ Awaiting(target[e]) /\ SettleInvoice(target[e], sub)
    BY <1>6 DEF Match, Confirmed, TypeOK
  <2> QED BY <1>6, <2>1, SettleCourse DEF Match, Awaiting, TypeOK
<1>7. ASSUME NEW e \in Events, GiveUp(e) \/ Postpone(e) PROVE Course'
  BY <1>7 DEF GiveUp, Postpone, Course, Pending, ForSubscription, Awaiting
<1>8. ASSUME NEW i \in Invoices, MarkPaid(i) PROVE Course'
  <2>1. Awaiting(i) /\ SettleInvoice(i, sub)
    BY <1>8 DEF MarkPaid
  <2> QED BY <1>8, <2>1, SettleCourse DEF MarkPaid, Awaiting, TypeOK
<1>9. ASSUME NEW i \in Invoices, CancelByStaff(i) PROVE Course'
  BY <1>9 DEF CancelByStaff, Course, Pending, ForSubscription, Awaiting, Cancel, TypeOK
<1>10. ASSUME NEW e \in Events, NEW i \in Invoices, ResolvePays(e, i)
      PROVE  Course'
  <2>1. Awaiting(i) /\ SettleInvoice(i, sub)
    BY <1>10 DEF ResolvePays
  <2> QED BY <1>10, <2>1, SettleCourse DEF ResolvePays, Awaiting, TypeOK
<1>11. ASSUME NEW e \in Events, ResolveEnds(e) \/ Dismiss(e)
      PROVE  Course'
  BY <1>11 DEF ResolveEnds, Dismiss, Course, Pending, ForSubscription, Awaiting
<1>12. ASSUME NEW n \in Seats, PlanSeats(n) PROVE Course'
  BY <1>12 DEF PlanSeats, Course, Pending, ForSubscription, Awaiting
<1>13. ASSUME SetSeats \/ StaffCrash PROVE Course'
  BY <1>13 DEF SetSeats, StaffCrash, Course, Pending, ForSubscription, Awaiting
<1>14. ASSUME DeferSeats PROVE Course'
  BY <1>14
     DEF DeferSeats, Course, Pending, ForSubscription, Awaiting, Cancel,
         PendingRenewals, TypeOK, Subscription
<1>15. ASSUME Topup PROVE Course'
  <2>1. /\ sub'.end = sub.end /\ sub'.next = 0 /\ revived' = revived /\ sub.end \in Nat
    BY <1>15 DEF Topup, TypeOK, Subscription
  <2>2. CASE TopupDue
    <3>1. PICK n \in Invoices : Issue(n, "seats", 0, 0, added, PendingRenewals)
      BY <1>15, <2>2 DEF Topup
    <3>2. kind[n] = "unused" /\ \A i \in Invoices \ {n} :
             kind'[i] = kind[i] /\ from'[i] = from[i] /\ until'[i] = until[i]
      BY <3>1 DEF Issue, Drawn, TypeOK
    <3>3. \A i \in Invoices : ForSubscription(i)' =>
             i # n /\ ForSubscription(i) /\ state'[i] \in {state[i], "cancelled"}
      BY <3>1, <3>2 DEF Issue, ForSubscription, TypeOK
    <3>4. Pending' \subseteq Pending /\ \A i \in Pending' : i # n
      BY <3>3 DEF Pending, Awaiting, TypeOK
    <3>5. CASE revived = {}
      <4>1. \A i, k \in Pending' : i = k
        BY <3>4, <3>5 DEF Course
      <4>2. sub.end = 0 => /\ \A i \in Invoices : ForSubscription(i)' => state'[i] # "paid"
                          /\ \A i \in Pending' : kind'[i] = "first"
        BY <3>2, <3>3, <3>4, <3>5 DEF Course, Pending
      <4>3. sub.end # 0 => \A i \in Pending' : /\ kind'[i] = "renewal"
                                               /\ from'[i] = sub.end /\ until'[i] = sub.end + Period
        BY <3>2, <3>4, <3>5 DEF Course, Pending
      <4>4. \A i \in Invoices : ForSubscription(i)' /\ state'[i] = "paid" =>
               /\ ForSubscription(i) /\ state[i] = "paid"
               /\ from'[i] = from[i] /\ until'[i] = until[i]
        BY <3>2, <3>3
      <4>5. \A i \in Invoices : ForSubscription(i)' /\ state'[i] = "paid" => until'[i] <= sub.end
        BY <3>5, <4>4 DEF Course
      <4>6. \A i, k \in Invoices :
              /\ ForSubscription(i)' /\ ForSubscription(k)' /\ i # k
              /\ state'[i] = "paid" /\ state'[k] = "paid"
              => until'[i] <= from'[k] \/ until'[k] <= from'[i]
        <5> TAKE i, k \in Invoices
        <5> HAVE /\ ForSubscription(i)' /\ ForSubscription(k)' /\ i # k
                 /\ state'[i] = "paid" /\ state'[k] = "paid"
        <5>1. until[i] <= from[k] \/ until[k] <= from[i]
          BY <3>5, <4>4 DEF Course
        <5> QED BY <4>4, <5>1
      <4> QED BY <2>1, <4>1, <4>2, <4>3, <4>5, <4>6 DEF Course
    <3> QED BY <2>1, <3>5 DEF Course
  <2>3. CASE ~TopupDue
    BY <1>15, <2>3 DEF Topup, Course, Pending, PendingRenewals, ForSubscription,
       Awaiting, TypeOK, Subscription, Cancel
  <2> QED BY <2>2, <2>3
<1>16. ASSUME TopupFails PROVE Course'
  BY <1>16 DEF TopupFails, IssueFails, Course, Pending, ForSubscription, Awaiting
<1>17. ASSUME NEW s \in Schedulers, List(s) PROVE Course'
  BY <1>17 DEF List, Course, Pending, ForSubscription, Awaiting
<1>18. ASSUME NEW s \in Schedulers, ReadAwaiting(s) PROVE Course'
  BY <1>18 DEF ReadAwaiting, Course, Pending, ForSubscription, Awaiting
<1>19. ASSUME NEW s \in Schedulers, PollEnds(s) \/ NothingToRenew(s) \/ TickFails(s)
      PROVE  Course'
  BY <1>19
     DEF PollEnds, NothingToRenew, TickFails, Forget, Course, Pending, ForSubscription,
         Awaiting
<1>20. ASSUME NEW s \in Schedulers, NEW i \in Invoices, Reconcile(s, i)
      PROVE  Course'
  <2> DEFINE s0 == IF loaded[s] = NoSub THEN sub ELSE loaded[s]
  <2>1. s0 \in Subscription
    BY DEF TypeOK
  <2>2. SettleInvoice(i, s0) /\ i \in seen[s] /\ state[i] # "unused"
    BY <1>20 DEF Reconcile, Memory
  <2>3. revived = {} /\ i \in Pending => s0.end = sub.end
    BY <2>2 DEF Memory
  <2> HIDE DEF s0
  <2> QED BY <1>20, <2>1, <2>2, <2>3, SettleCourse DEF Reconcile
<1>21. ASSUME NEW s \in Schedulers, Renew(s) PROVE Course'
  <2> DEFINE next == IF NextSeatsBegin THEN 0 ELSE sub.next
             seats == IF next # 0 THEN next ELSE tickSeats[s]
  <2>1. /\ sub.end # 0 /\ sub'.end = sub.end /\ sub'.next = next /\ revived' = revived
        /\ next \in {0, sub.next}
    BY <1>21 DEF Renew, TypeOK, Subscription
  <2>2. CASE Renewable /\ \E n \in Invoices : Issue(n, "renewal", sub.end, sub.end + Period, seats, {})
    <3>1. PICK n \in Invoices : Issue(n, "renewal", sub.end, sub.end + Period, seats, {})
      BY <2>2
    <3>2. \A k \in Invoices : ForSubscription(k) /\ state[k] # "cancelled" => from[k] # sub.end
      BY <2>2 DEF Renewable
    <3>3. revived = {} => Pending = {}
      BY <2>1, <3>2 DEF Course, Pending, Awaiting
    <3>4. /\ kind'[n] = "renewal" /\ from'[n] = sub.end /\ until'[n] = sub.end + Period /\ places'[n] = seats
          /\ state'[n] = "awaiting"
          /\ \A i \in Invoices \ {n} : kind'[i] = kind[i] /\ from'[i] = from[i] /\ until'[i] = until[i]
                                      /\ state'[i] = state[i]
      BY <3>1 DEF Issue, TypeOK
    <3>5. revived = {} => Pending' = {n}
      BY <3>3, <3>4 DEF Pending, ForSubscription, Awaiting
    <3>6. \A i \in Invoices : ForSubscription(i)' /\ state'[i] = "paid" =>
             i # n /\ ForSubscription(i) /\ state[i] = "paid"
      BY <3>4 DEF ForSubscription
    <3> QED BY <2>1, <3>4, <3>5, <3>6 DEF Course
  <2>3. CASE UNCHANGED <<invoiceVars, bill>>
    BY <2>1, <2>3 DEF Course, Pending, ForSubscription, Awaiting
  <2> QED BY <1>21, <2>2, <2>3 DEF Renew
<1>22. ASSUME NewDay PROVE Course'
  BY <1>22 DEF NewDay, Course, Pending, ForSubscription, Awaiting
<1>23. ASSUME UNCHANGED vars PROVE Course'
  BY <1>23 DEF vars, Course, Pending, ForSubscription, Awaiting
<1> QED
  BY <1>1, <1>2, <1>3, <1>4, <1>5, <1>6, <1>7, <1>8, <1>9, <1>10, <1>11, <1>12,
     <1>13, <1>14, <1>15, <1>16, <1>17, <1>18, <1>19, <1>20, <1>21, <1>22,
     <1>23
  DEF Next, Admin, Bank, Staff, Process, Tick

\* What the passes remember survives a settlement by somebody else.
LEMMA MemoryKept ==
    ASSUME TypeOK, Memory, UNCHANGED <<tick, seen, loaded>>, NEW i \in Invoices,
           \A k \in Invoices : state'[k] = "unused" => state[k] = "unused",
           revived' = {} =>
              /\ revived = {}
              /\ IF i \in Pending THEN Pending' = {} ELSE Pending' = Pending /\ sub'.end = sub.end
    PROVE  Memory'
  BY DEF Memory, TypeOK

\* What a pass remembers of the end stays true while the invoice it has read awaits.
LEMMA MemoryNext ==
    ASSUME TypeOK, TypeOK', Course, Drawn, Memory, [Next]_vars
    PROVE  Memory'
<1> USE DEF invoiceVars, eventVars, tickVars, staffVars, history
<1>1. ASSUME NEW n \in Invoices, ChooseFirst(n) PROVE Memory'
  BY <1>1
     DEF ChooseFirst, Memory, Pending, ForSubscription, Awaiting, Issue, Chosen,
         TypeOK
<1>2. ASSUME ChooseFails PROVE Memory'
  BY <1>2 DEF ChooseFails, IssueFails, Memory, Pending, ForSubscription, Awaiting
<1>3. ASSUME ChooseNext PROVE Memory'
  BY <1>3 DEF ChooseNext, Memory, Pending, ForSubscription, Awaiting, Cancel, TypeOK
<1>4. ASSUME NEW i \in Invoices, BankMatches(i) \/ BankExpires(i)
      PROVE  Memory'
  BY <1>4 DEF BankMatches, BankExpires, Memory, Pending, ForSubscription, Awaiting
<1>5. ASSUME NEW e \in Events, NEW i \in Invoices \cup {NoInvoice}, 
             NEW ok \in BOOLEAN, Receive(e, i, ok)
      PROVE  Memory'
  BY <1>5 DEF Receive, Memory, Pending, ForSubscription, Awaiting
<1>6. ASSUME NEW e \in Events, Match(e) PROVE Memory'
  <2>1. target[e] \in Invoices /\ SettleInvoice(target[e], sub) /\ state[target[e]] # "unused"
    BY <1>6 DEF Match, Confirmed, Awaiting, TypeOK
  <2>2. \A k \in Invoices : state'[k] = "unused" => state[k] = "unused"
    BY <2>1 DEF SettleInvoice, TypeOK
  <2> QED BY <1>6, <2>1, <2>2, SettleCourse, MemoryKept DEF Match, TypeOK
<1>7. ASSUME NEW e \in Events, GiveUp(e) \/ Postpone(e) PROVE Memory'
  BY <1>7 DEF GiveUp, Postpone, Memory, Pending, ForSubscription, Awaiting
<1>8. ASSUME NEW i \in Invoices, MarkPaid(i) PROVE Memory'
  <2>1. Awaiting(i) /\ SettleInvoice(i, sub) /\ state[i] # "unused"
    BY <1>8 DEF MarkPaid, Awaiting
  <2>2. \A k \in Invoices : state'[k] = "unused" => state[k] = "unused"
    BY <2>1 DEF SettleInvoice, TypeOK
  <2> QED BY <1>8, <2>1, <2>2, SettleCourse, MemoryKept DEF MarkPaid, TypeOK
<1>9. ASSUME NEW i \in Invoices, CancelByStaff(i) PROVE Memory'
  BY <1>9 DEF CancelByStaff, Memory, Pending, ForSubscription, Awaiting, Cancel, TypeOK
<1>10. ASSUME NEW e \in Events, NEW i \in Invoices, ResolvePays(e, i)
      PROVE  Memory'
  <2>1. Awaiting(i) /\ SettleInvoice(i, sub) /\ state[i] # "unused"
    BY <1>10 DEF ResolvePays, Awaiting
  <2>2. \A k \in Invoices : state'[k] = "unused" => state[k] = "unused"
    BY <2>1 DEF SettleInvoice, TypeOK
  <2> QED BY <1>10, <2>1, <2>2, SettleCourse, MemoryKept DEF ResolvePays, TypeOK
<1>11. ASSUME NEW e \in Events, ResolveEnds(e) \/ Dismiss(e)
      PROVE  Memory'
  BY <1>11 DEF ResolveEnds, Dismiss, Memory, Pending, ForSubscription, Awaiting
<1>12. ASSUME NEW n \in Seats, PlanSeats(n) PROVE Memory'
  BY <1>12 DEF PlanSeats, Memory, Pending, ForSubscription, Awaiting
<1>13. ASSUME SetSeats \/ StaffCrash PROVE Memory'
  BY <1>13 DEF SetSeats, StaffCrash, Memory, Pending, ForSubscription, Awaiting
<1>14. ASSUME DeferSeats PROVE Memory'
  BY <1>14
     DEF DeferSeats, Memory, Pending, ForSubscription, Awaiting, Cancel,
         PendingRenewals, TypeOK, Subscription
<1>15. ASSUME Topup PROVE Memory'
  <2>1. /\ sub'.end = sub.end /\ UNCHANGED <<tick, seen, loaded, revived>>
    BY <1>15 DEF Topup, TypeOK, Subscription
  <2>2. CASE TopupDue
    <3>1. PICK n \in Invoices : Issue(n, "seats", 0, 0, added, PendingRenewals)
      BY <1>15, <2>2 DEF Topup
    <3>2. \A i \in Invoices : state[i] # "unused" =>
             state'[i] # "unused" /\ (i \in Pending' => i \in Pending)
      BY <3>1 DEF Issue, Pending, ForSubscription, Awaiting, TypeOK
    <3> QED BY <2>1, <3>2 DEF Memory, TypeOK
  <2>3. CASE ~TopupDue
    BY <1>15, <2>1, <2>3 DEF Topup, Memory, Pending, PendingRenewals, ForSubscription,
       Awaiting, TypeOK, Cancel
  <2> QED BY <2>2, <2>3
<1>16. ASSUME TopupFails PROVE Memory'
  BY <1>16 DEF TopupFails, IssueFails, Memory, Pending, ForSubscription, Awaiting
<1>17. ASSUME NEW s \in Schedulers, List(s) PROVE Memory'
  BY <1>17 DEF List, Memory, Pending, ForSubscription, Awaiting, TypeOK
<1>18. ASSUME NEW s \in Schedulers, ReadAwaiting(s) PROVE Memory'
  BY <1>18 DEF ReadAwaiting, Memory, Pending, ForSubscription, Awaiting, TypeOK
<1>19. ASSUME NEW s \in Schedulers, PollEnds(s) \/ NothingToRenew(s) \/ TickFails(s)
      PROVE  Memory'
  <2>1. tick'[s] # "polling" /\ loaded'[s] = NoSub /\ seen'[s] = {}
    BY <1>19 DEF PollEnds, NothingToRenew, TickFails, Forget, TypeOK
  <2>2. \A t \in Schedulers \ {s} : tick'[t] = tick[t] /\ loaded'[t] = loaded[t] /\ seen'[t] = seen[t]
    BY <1>19 DEF PollEnds, NothingToRenew, TickFails, Forget, TypeOK
  <2>3. UNCHANGED <<sub, revived, kind, state, from, until, places>>
    BY <1>19 DEF PollEnds, NothingToRenew, TickFails
  <2> QED BY <2>1, <2>2, <2>3 DEF Memory, Pending, ForSubscription, Awaiting, TypeOK
<1>20. ASSUME NEW s \in Schedulers, NEW i \in Invoices, Reconcile(s, i)
      PROVE  Memory'
  <2> DEFINE s0 == IF loaded[s] = NoSub THEN sub ELSE loaded[s]
  <2>1. s0 \in Subscription
    BY DEF TypeOK
  <2>2. SettleInvoice(i, s0) /\ i \in seen[s] /\ state[i] # "unused" /\ tick[s] = "polling"
    BY <1>20 DEF Reconcile, Memory
  <2>3. revived = {} => IF i \in Pending THEN s0.end = sub.end
                        ELSE loaded[s] # NoSub => \A k \in seen[s] \cap Pending : s0.end = sub.end
    BY <2>2 DEF Memory
  <2>4. /\ tick' = tick /\ seen' = [seen EXCEPT ![s] = @ \ {i}]
        /\ loaded' = [loaded EXCEPT ![s] = Applied(s0, i)]
    BY <1>20 DEF Reconcile
  <2>5. loaded[s] = NoSub => s0.end = sub.end
    OBVIOUS
  <2> HIDE DEF s0
  <2>6. revived' = {} =>
           /\ revived = {} /\ Awaiting(i)
           /\ IF i \in Pending THEN Pending' = {} ELSE Pending' = Pending /\ sub'.end = sub.end
    BY <1>20, <2>1, <2>2, <2>3, SettleCourse DEF Reconcile
  <2>7. \A k \in Invoices : state'[k] = "unused" => state[k] = "unused"
    BY <2>2 DEF SettleInvoice, TypeOK
  <2>8. ASSUME revived' = {}, NEW k \in seen'[s] \cap Pending' PROVE Applied(s0, i).end = sub'.end
    <3>1. i \notin Pending /\ Pending' = Pending /\ sub'.end = sub.end /\ revived = {} /\ k \in seen[s] \cap Pending
          /\ Awaiting(i)
      BY <2>4, <2>6, <2>8 DEF TypeOK
    <3>2. kind[i] = "seats"
      BY <3>1 DEF Pending, ForSubscription, Awaiting, Drawn, TypeOK
    <3>3. Applied(s0, i).end = s0.end
      BY <2>1, <3>2, SettledFields, TypeParts DEF CompanyType
    <3> QED BY <2>3, <2>5, <3>1, <3>3
  <2>9. ASSUME NEW t \in Schedulers \ {s}, revived' = {}, loaded[t] # NoSub, NEW k \in seen[t] \cap Pending'
        PROVE  loaded[t].end = sub'.end
    BY <2>6, <2>9 DEF Memory
  <2>10. \A t \in Schedulers \ {s} : loaded'[t] = loaded[t] /\ seen'[t] = seen[t]
    BY <2>4 DEF TypeOK
  <2>11. loaded'[s] = Applied(s0, i) /\ seen'[s] \subseteq seen[s]
    BY <2>4 DEF TypeOK
  <2> HIDE DEF Memory
  <2>12. ASSUME NEW t \in Schedulers, tick'[t] # "polling"
        PROVE  loaded'[t] = NoSub /\ seen'[t] = {}
    BY <2>2, <2>4, <2>10, <2>12 DEF Memory
  <2>13. ASSUME NEW t \in Schedulers, NEW k \in seen'[t] PROVE state'[k] # "unused"
    <3>1. k \in seen[t] /\ k \in Invoices
      BY <2>10, <2>11, <2>13 DEF TypeOK
    <3> QED BY <2>7, <3>1 DEF Memory
  <2>14. ASSUME NEW t \in Schedulers, revived' = {}, loaded'[t] # NoSub, NEW k \in seen'[t] \cap Pending'
        PROVE  loaded'[t].end = sub'.end
    <3>1. CASE t = s
      BY <2>8, <2>11, <2>14, <3>1
    <3>2. CASE t # s
      BY <2>9, <2>10, <2>14, <3>2
    <3> QED BY <3>1, <3>2
  <2> QED BY <2>12, <2>13, <2>14 DEF Memory
<1>21. ASSUME NEW s \in Schedulers, Renew(s) PROVE Memory'
  <2>1. sub'.end = sub.end /\ revived' = revived /\ tick'[s] = "idle" /\ loaded'[s] = NoSub /\ seen'[s] = {}
    BY <1>21 DEF Renew, Forget, TypeOK, Subscription
  <2>2. \A t \in Schedulers \ {s} : tick'[t] = tick[t] /\ loaded'[t] = loaded[t] /\ seen'[t] = seen[t]
    BY <1>21 DEF Renew, Forget, TypeOK
  <2>3. \A i \in Invoices : state[i] # "unused" =>
           state'[i] # "unused" /\ (i \in Pending' => i \in Pending)
    <3>1. CASE UNCHANGED <<invoiceVars, bill>>
      BY <3>1 DEF Pending, ForSubscription, Awaiting
    <3>2. ASSUME NEW n \in Invoices, NEW w, Issue(n, "renewal", sub.end, sub.end + Period, w, {})
          PROVE  \A i \in Invoices : state[i] # "unused" =>
                    state'[i] # "unused" /\ (i \in Pending' => i \in Pending)
      BY <3>2 DEF Issue, Pending, ForSubscription, Awaiting, TypeOK
    <3> QED BY <1>21, <3>1, <3>2 DEF Renew
  <2> QED BY <2>1, <2>2, <2>3 DEF Memory, TypeOK
<1>22. ASSUME NewDay PROVE Memory'
  BY <1>22 DEF NewDay, Memory, Pending, ForSubscription, Awaiting
<1>23. ASSUME UNCHANGED vars PROVE Memory'
  BY <1>23 DEF vars, Memory, Pending, ForSubscription, Awaiting
<1> QED
  BY <1>1, <1>2, <1>3, <1>4, <1>5, <1>6, <1>7, <1>8, <1>9, <1>10, <1>11, <1>12,
     <1>13, <1>14, <1>15, <1>16, <1>17, <1>18, <1>19, <1>20, <1>21, <1>22,
     <1>23
  DEF Next, Admin, Bank, Staff, Process, Tick

\* The invoices, the end and what the passes remember, together.
PeriodsInv == PaymentsInv /\ Drawn /\ Course /\ Memory

\* A subscription begins without an invoice and without a pass.
LEMMA InitPeriodsInv == Init => PeriodsInv
<1> SUFFICES ASSUME Init PROVE PeriodsInv
  OBVIOUS
<1>1. PaymentsInv
  BY InitPaymentsInv
<1>2. Drawn
  BY DEF Init, Drawn
<1>3. Course
  BY DEF Init, Course, Pending, ForSubscription, Awaiting
<1>4. Memory
  BY DEF Init, Memory
<1> QED BY <1>1, <1>2, <1>3, <1>4 DEF PeriodsInv

\* Every step of the admin, the bank, the team and the schedulers keeps them.
LEMMA NextPeriodsInv == PeriodsInv /\ [Next]_vars => PeriodsInv'
<1> SUFFICES ASSUME PeriodsInv, [Next]_vars PROVE PeriodsInv'
  OBVIOUS
<1>1. PaymentsInv /\ TypeOK /\ Drawn /\ Course /\ Memory
  BY DEF PeriodsInv, PaymentsInv
<1>2. PaymentsInv' /\ TypeOK'
  BY <1>1, NextPaymentsInv DEF PaymentsInv
<1>3. Drawn' /\ Course' /\ Memory'
  BY <1>1, <1>2, DrawnNext, CourseNext, MemoryNext
<1> QED BY <1>2, <1>3 DEF PeriodsInv

\* The end of the subscription, its one pending invoice and what the passes of the
\* schedulers remember of both stay in step.
THEOREM PeriodsInvariant == Spec => []PeriodsInv
  BY InitPeriodsInv, NextPeriodsInv, PTL DEF Spec

\* There is at most one thing to pay for the subscription, however the admin's choices,
\* the team's clicks and the passes of any number of schedulers interleave.
THEOREM OnePendingAlways == Spec => []OnePending
<1>1. PeriodsInv => OnePending
  <2> SUFFICES ASSUME PeriodsInv, revived = {} PROVE Cardinality(Pending) <= 1
    BY DEF OnePending
  <2>1. \A i, k \in Pending : i = k
    BY DEF PeriodsInv, Course
  <2>2. CASE Pending = {}
    BY <2>2, FS_EmptySet
  <2>3. CASE Pending # {}
    <3>1. PICK i \in Pending : Pending = {i}
      BY <2>1, <2>3
    <3> QED BY <3>1, FS_Singleton
  <2> QED BY <2>2, <2>3
<1> QED BY <1>1, PeriodsInvariant, PTL

\* The subscription runs to the end of every period that was paid for.
THEOREM PaidPeriodGivenAlways == Spec => []PaidPeriodGiven
<1>1. PeriodsInv => PaidPeriodGiven
  BY DEF PeriodsInv, PaymentsInv, Course, PaidPeriodGiven, TypeOK, Subscription
<1> QED BY <1>1, PeriodsInvariant, PTL

\* No day is paid for twice.
THEOREM PeriodsDisjointAlways == Spec => []PeriodsDisjoint
<1>1. PeriodsInv => PeriodsDisjoint
  BY DEF PeriodsInv, Course, PeriodsDisjoint
<1> QED BY <1>1, PeriodsInvariant, PTL

\* The unpaid renewal asks for the seats the team has planned, whether the scheduler
\* issues it before or after the team plans them.
THEOREM RenewalAsksForNextSeatsAlways == Spec => []RenewalAsksForNextSeats
<1>1. PeriodsInv => RenewalAsksForNextSeats
  BY DEF PeriodsInv, Course, RenewalAsksForNextSeats, PendingRenewals, Pending, ForSubscription
<1> QED BY <1>1, PeriodsInvariant, PTL

=============================================================================
