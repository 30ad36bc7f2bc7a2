------------------------------ MODULE Payments ------------------------------
(***************************************************************************)
(* Paying for a subscription by bank invoice: BillingService.choose, the   *)
(* webhooks of the bank (PaymentService), its reconciliation and renewals  *)
(* (BillingScheduler) and the staff panel (StaffBillingService), for one   *)
(* company.                                                                *)
(*                                                                         *)
(* One action is one database transaction, except that the reconciliation  *)
(* of a tick reads the awaiting invoices first and works through them      *)
(* later: SELECT ... FOR UPDATE does not refresh an object the session has *)
(* already loaded, so it settles what it remembers.                        *)
(*                                                                         *)
(* A day is a number, 0 is NULL, amounts and the payer's details are the   *)
(* flag "sound" of a payment event; every period has the same length.      *)
(***************************************************************************)
EXTENDS Integers, FiniteSets

CONSTANTS
    Invoices,     \* identifiers of invoices rows; their number is a bound
    Events,       \* identifiers of payment_events rows of the webhooks
    Schedulers,   \* worker processes that run the billing loop
    NoInvoice,
    NoSub,        \* the subscription of a session that has not loaded it
    Period,       \* length of the paid period
    Ahead,        \* PAYMENTS_INVOICE_DAYS_AHEAD
    Grace,        \* PAYMENTS_GRACE_DAYS
    MaxAttempts,  \* MAX_ATTEMPTS
    PollWithin,   \* POLL_WITHIN: days an invoice is compared with the bank
    MaxSeats,     \* bound: numbers of seats the team chooses from
    LastDay       \* bound: days that pass

ASSUME NoInvoiceAssumption == NoInvoice \notin Invoices
ASSUME PeriodAssumption == Period \in Nat \ {0}
ASSUME AheadAssumption == Ahead \in Nat /\ Grace \in Nat
ASSUME MaxAttemptsAssumption == MaxAttempts \in Nat \ {0}
ASSUME PollWithinAssumption == PollWithin \in Nat \ {0}
ASSUME BoundsAssumption == MaxSeats \in Nat \ {0} /\ LastDay \in Nat \ {0}

VARIABLES
    today,
    tenantSeats,  \* tenants.seats
    sub,          \* the row of subscriptions
    kind, state, from, until, places, created,   \* invoices
    bill,         \* external: the bill at the bank
    target, verdict, sound, attempts, paying,    \* payment_events
    tick, tickSeats, seen, loaded,               \* a pass of a scheduler
    reconciled,   \* invoices with a "poll:" event
    staffStep, newSeats, added,                  \* a change of seats
    credited,     \* history: how often an invoice was settled
    revived       \* history: invoices settled when they were not awaiting

invoiceVars == <<kind, state, from, until, places, created>>
eventVars == <<target, verdict, sound, attempts, paying>>
tickVars == <<tick, tickSeats, seen, loaded>>
staffVars == <<staffStep, newSeats, added>>
history == <<credited, revived>>
vars == <<today, tenantSeats, sub, invoiceVars, bill, eventVars, tickVars,
          reconciled, staffVars, history>>

Seats == 1..MaxSeats
Open == {"received", "pending"}
Review == {"mismatch", "unmatched"}
Closed == {"matched", "resolved", "ignored"}
SubscriptionKind == {"first", "renewal"}   \* first: period_start is NULL until it is paid

Subscription ==
    [start : Nat, end : Nat, seats : Nat, next : Nat, noticed : Nat,
     status : {"none", "awaiting", "active", "overdue"}]

TypeOK ==
    /\ today \in Nat
    /\ tenantSeats \in Nat
    /\ sub \in Subscription
    /\ kind \in [Invoices -> SubscriptionKind \cup {"unused", "seats"}]
    /\ state \in [Invoices -> {"unused", "awaiting", "paid", "cancelled"}]
    /\ from \in [Invoices -> Nat]
    /\ until \in [Invoices -> Nat]
    /\ places \in [Invoices -> Nat]
    /\ created \in [Invoices -> Nat]
    /\ bill \in [Invoices -> {"none", "waiting", "paid", "expired", "deleted"}]
    /\ target \in [Events -> Invoices \cup {NoInvoice}]
    /\ verdict \in [Events -> Open \cup Review \cup Closed \cup {"unused"}]
    /\ sound \in [Events -> BOOLEAN]
    /\ attempts \in [Events -> 0..MaxAttempts]
    /\ paying \in [Events -> Invoices \cup {NoInvoice}]
    /\ tick \in [Schedulers -> {"idle", "listed", "polling", "renewing"}]
    /\ tickSeats \in [Schedulers -> Nat]
    /\ seen \in [Schedulers -> SUBSET Invoices]
    /\ loaded \in [Schedulers -> Subscription \cup {NoSub}]
    /\ reconciled \in SUBSET Invoices
    /\ staffStep \in {"idle", "defer", "set", "topup"}
    /\ newSeats \in Nat
    /\ added \in Nat
    /\ credited \in [Invoices -> Nat]
    /\ revived \in SUBSET Invoices

Init ==
    /\ today = 1
    /\ tenantSeats \in Seats
    /\ sub = [start |-> 0, end |-> 0, seats |-> 0, next |-> 0, noticed |-> 0,
              status |-> "none"]
    /\ kind = [i \in Invoices |-> "unused"]
    /\ state = [i \in Invoices |-> "unused"]
    /\ from = [i \in Invoices |-> 0]
    /\ until = [i \in Invoices |-> 0]
    /\ places = [i \in Invoices |-> 0]
    /\ created = [i \in Invoices |-> 0]
    /\ bill = [i \in Invoices |-> "none"]
    /\ target = [e \in Events |-> NoInvoice]
    /\ verdict = [e \in Events |-> "unused"]
    /\ sound = [e \in Events |-> FALSE]
    /\ attempts = [e \in Events |-> 0]
    /\ paying = [e \in Events |-> NoInvoice]
    /\ tick = [s \in Schedulers |-> "idle"]
    /\ tickSeats = [s \in Schedulers |-> 0]
    /\ seen = [s \in Schedulers |-> {}]
    /\ loaded = [s \in Schedulers |-> NoSub]
    /\ reconciled = {}
    /\ staffStep = "idle" /\ newSeats = 0 /\ added = 0
    /\ credited = [i \in Invoices |-> 0]
    /\ revived = {}

----------------------------------------------------------------------------
(* Issuing, cancelling and settling an invoice.                            *)

ForSubscription(i) == kind[i] \in SubscriptionKind
Awaiting(i) == state[i] = "awaiting"

\* Invoices of the subscription that are not paid; of its next period only.
Pending == {i \in Invoices : ForSubscription(i) /\ Awaiting(i)}
PendingRenewals == {i \in Pending : sub.end # 0 /\ from[i] = sub.end}

\* uq_invoices_subscription_period
PeriodTaken(i, start) ==
    \E k \in Invoices \ {i} :
        ForSubscription(k) /\ state[k] # "cancelled" /\ start # 0 /\ from[k] = start

\* delete_bill, before the transaction commits; the bank may refuse.
DeleteBills(dropped, n) ==
    \E gone \in SUBSET {i \in dropped : bill[i] # "paid"} :
        bill' = [i \in Invoices |-> IF i = n THEN "waiting"
                                    ELSE IF i \in gone THEN "deleted"
                                    ELSE bill[i]]

\* cancel_invoice for the dropped ones, and no new one.
Cancel(dropped) ==
    /\ state' = [i \in Invoices |-> IF i \in dropped THEN "cancelled" ELSE state[i]]
    /\ DeleteBills(dropped, NoInvoice)
    /\ UNCHANGED <<kind, from, until, places, created>>

\* cancel_invoice for the dropped ones, then issue.
Issue(n, k, start, end, seats, dropped) ==
    /\ state[n] = "unused"
    /\ state' = [i \in Invoices |-> IF i = n THEN "awaiting"
                                    ELSE IF i \in dropped THEN "cancelled"
                                    ELSE state[i]]
    /\ kind' = [kind EXCEPT ![n] = k]
    /\ from' = [from EXCEPT ![n] = start]
    /\ until' = [until EXCEPT ![n] = end]
    /\ places' = [places EXCEPT ![n] = seats]
    /\ created' = [created EXCEPT ![n] = today]
    /\ DeleteBills(dropped, n)

\* The bank did not answer: the transaction is rolled back, the deletions
\* at the bank are not.
IssueFails(dropped) ==
    /\ DeleteBills(dropped, NoInvoice)
    /\ UNCHANGED <<sub, invoiceVars>>

\* The first invoice is for a period that begins the day it is paid.
StartOf(i) == IF kind[i] = "first" THEN today ELSE from[i]
EndOf(i) == IF kind[i] = "first" THEN today + Period ELSE until[i]

\* Mutant of Applied: the paid period is set once and never extended.
AppliedOnce(s, i) ==
    IF kind[i] = "seats" THEN [s EXCEPT !.seats = @ + places[i]]
    ELSE [s EXCEPT !.start = IF s.end = 0 THEN StartOf(i) ELSE @,
                   !.end = IF s.end = 0 THEN EndOf(i) ELSE @,
                   !.seats = places[i],
                   !.noticed = 0]

\* _apply_to_subscription
Applied(s, i) ==
    LET longer == s.end = 0 \/ EndOf(i) > s.end
        end == IF longer THEN EndOf(i) ELSE s.end
    IN IF kind[i] = "seats" THEN [s EXCEPT !.seats = @ + places[i]]
       ELSE [s EXCEPT !.start = IF longer THEN StartOf(i) ELSE @,
                      !.end = end,
                      !.seats = places[i],
                      !.status = IF today < end THEN "active" ELSE @,
                      !.noticed = 0]

\* The ORM writes the attributes that differ from what the session loaded.
Flush(row, old, new) ==
    [f \in DOMAIN row |-> IF new[f] = old[f] THEN row[f] ELSE new[f]]

\* settle_invoice with the invoice seen as awaiting and the subscription
\* as the session remembers it.
SettleInvoice(i, s) ==
    /\ ~(ForSubscription(i) /\ PeriodTaken(i, StartOf(i)))
    /\ state' = [state EXCEPT ![i] = "paid"]
    /\ from' = [from EXCEPT ![i] = IF ForSubscription(i) THEN StartOf(i) ELSE @]
    /\ until' = [until EXCEPT ![i] = IF ForSubscription(i) THEN EndOf(i) ELSE @]
    /\ sub' = Flush(sub, s, Applied(s, i))
    /\ credited' = [credited EXCEPT ![i] = @ + 1]
    /\ revived' = IF Awaiting(i) THEN revived ELSE revived \cup {i}
    /\ UNCHANGED <<kind, places, created>>

----------------------------------------------------------------------------
(* The company's administrator: BillingService.choose.                     *)

\* The row choose creates when there is none.
Chosen == IF sub.status = "none" THEN [sub EXCEPT !.seats = tenantSeats, !.status = "awaiting"]
          ELSE sub

\* Mutant of ChooseFirst: the unpaid invoices are not cancelled.
ChooseFirstBeside(n) ==
    /\ sub.end = 0
    /\ sub' = [Chosen EXCEPT !.status = "awaiting"]
    /\ Issue(n, "first", 0, 0, tenantSeats, {})
    /\ UNCHANGED <<today, tenantSeats, eventVars, tickVars, reconciled, staffVars, history>>

\* Mutant of ChooseFirst: a first period whatever is paid already.
ChooseFirstAgain(n) ==
    /\ sub' = [Chosen EXCEPT !.status = "awaiting"]
    /\ Issue(n, "first", 0, 0, tenantSeats, Pending)
    /\ UNCHANGED <<today, tenantSeats, eventVars, tickVars, reconciled, staffVars, history>>

ChooseFirst(n) ==
    /\ sub.end = 0
    /\ sub' = [Chosen EXCEPT !.status = "awaiting"]
    /\ Issue(n, "first", 0, 0, tenantSeats, Pending)
    /\ UNCHANGED <<today, tenantSeats, eventVars, tickVars, reconciled, staffVars, history>>

ChooseFails ==
    /\ sub.end = 0
    /\ IssueFails(Pending)
    /\ UNCHANGED <<today, tenantSeats, eventVars, tickVars, reconciled, staffVars, history>>

\* Already paid for: the choice holds from the next invoice on.
ChooseNext ==
    /\ sub.end # 0
    /\ Cancel(Pending)
    /\ UNCHANGED <<today, tenantSeats, sub, eventVars, tickVars, reconciled, staffVars, history>>

----------------------------------------------------------------------------
(* The bank.                                                               *)

BankMatches(i) ==
    /\ bill[i] = "waiting"
    /\ bill' = [bill EXCEPT ![i] = "paid"]
    /\ UNCHANGED <<today, tenantSeats, sub, invoiceVars, eventVars, tickVars, reconciled,
                   staffVars, history>>

BankExpires(i) ==
    /\ bill[i] = "waiting"
    /\ bill' = [bill EXCEPT ![i] = "expired"]
    /\ UNCHANGED <<today, tenantSeats, sub, invoiceVars, eventVars, tickVars, reconciled,
                   staffVars, history>>

\* A webhook with the number of an invoice, or with a number nobody issued.
\* A repeated delivery is refused by the unique delivery_key and is no step.
Receive(e, i, ok) ==
    /\ verdict[e] = "unused"
    /\ i # NoInvoice => kind[i] # "unused"
    /\ verdict' = [verdict EXCEPT ![e] = "received"]
    /\ target' = [target EXCEPT ![e] = i]
    /\ sound' = [sound EXCEPT ![e] = ok]
    /\ UNCHANGED <<today, tenantSeats, sub, invoiceVars, bill, attempts, paying, tickVars,
                   reconciled, staffVars, history>>

----------------------------------------------------------------------------
(* PaymentService.process, at once after the webhook and again from every  *)
(* pass of the scheduler.  The event is skipped while somebody locks it.   *)

Free(e) == verdict[e] \in Open /\ paying[e] = NoInvoice

\* Mutant of Confirmed: the invoice's status is not looked at.
ConfirmedAnyway(e) == target[e] # NoInvoice /\ sound[e]

\* _incoming_problem finds nothing.
Confirmed(e) == target[e] # NoInvoice /\ Awaiting(target[e]) /\ sound[e]

Close(e, v) ==
    /\ verdict' = [verdict EXCEPT ![e] = v]
    /\ attempts' = [attempts EXCEPT ![e] = @ + 1]
    /\ UNCHANGED <<target, sound, paying>>

Match(e) ==
    /\ Free(e)
    /\ Confirmed(e)
    /\ bill[target[e]] = "paid"
    /\ SettleInvoice(target[e], sub)
    /\ Close(e, "matched")
    /\ UNCHANGED <<today, tenantSeats, bill, tickVars, reconciled, staffVars>>

\* Mutant of GivesUp: an event about a cancelled invoice waits for ever.
GivesUpOnBank(e) ==
    target[e] # NoInvoice => bill[target[e]] = "expired" \/ attempts[e] + 1 >= MaxAttempts

\* The bank takes the bill for expired, or does not confirm for too long; or
\* there is something wrong with the payment.
GivesUp(e) ==
    Confirmed(e) => bill[target[e]] = "expired" \/ attempts[e] + 1 >= MaxAttempts

\* For the team to look at.
GiveUp(e) ==
    /\ Free(e)
    /\ GivesUp(e)
    /\ Close(e, IF target[e] = NoInvoice THEN "unmatched" ELSE "mismatch")
    /\ UNCHANGED <<today, tenantSeats, sub, invoiceVars, bill, tickVars, reconciled,
                   staffVars, history>>

\* Mutant of Postpone: one attempt more than the limit.
PostponeOnce(e) ==
    /\ Free(e)
    /\ Confirmed(e)
    /\ attempts[e] <= MaxAttempts
    /\ Close(e, "pending")
    /\ UNCHANGED <<today, tenantSeats, sub, invoiceVars, bill, tickVars, reconciled,
                   staffVars, history>>

\* The bank does not confirm yet, or does not answer.
Postpone(e) ==
    /\ Free(e)
    /\ Confirmed(e)
    /\ attempts[e] + 1 < MaxAttempts
    /\ Close(e, "pending")
    /\ UNCHANGED <<today, tenantSeats, sub, invoiceVars, bill, tickVars, reconciled,
                   staffVars, history>>

----------------------------------------------------------------------------
(* The staff panel.                                                        *)

MarkPaid(i) ==
    /\ Awaiting(i)
    /\ SettleInvoice(i, sub)
    /\ UNCHANGED <<today, tenantSeats, bill, eventVars, tickVars, reconciled, staffVars>>

\* Mutant of CancelByStaff: a paid invoice is cancelled too.
CancelAnyByStaff(i) ==
    /\ state[i] # "unused"
    /\ Cancel({i})
    /\ UNCHANGED <<today, tenantSeats, sub, eventVars, tickVars, reconciled, staffVars, history>>

CancelByStaff(i) ==
    /\ Awaiting(i)
    /\ Cancel({i})
    /\ UNCHANGED <<today, tenantSeats, sub, eventVars, tickVars, reconciled, staffVars, history>>

\* resolve, with an invoice: mark_paid commits in a session of its own
\* while the event's row stays locked ...
ResolvePays(e, i) ==
    /\ verdict[e] \in Open \cup Review
    /\ paying[e] = NoInvoice
    /\ Awaiting(i)
    /\ SettleInvoice(i, sub)
    /\ paying' = [paying EXCEPT ![e] = i]
    /\ UNCHANGED <<today, tenantSeats, bill, target, verdict, sound, attempts, tickVars,
                   reconciled, staffVars>>

\* ... then the event, unless the process dies in between.
ResolveEnds(e) ==
    /\ paying[e] # NoInvoice
    /\ paying' = [paying EXCEPT ![e] = NoInvoice]
    /\ \/ /\ verdict' = [verdict EXCEPT ![e] = "resolved"]
          /\ target' = [target EXCEPT ![e] = paying[e]]
       \/ UNCHANGED <<verdict, target>>
    /\ UNCHANGED <<today, tenantSeats, sub, invoiceVars, bill, sound, attempts, tickVars,
                   reconciled, staffVars, history>>

\* resolve without an invoice: the money is not ours, or returned.
Dismiss(e) ==
    /\ verdict[e] \in Open \cup Review
    /\ paying[e] = NoInvoice
    /\ verdict' = [verdict EXCEPT ![e] = "resolved"]
    /\ UNCHANGED <<today, tenantSeats, sub, invoiceVars, bill, target, sound, attempts, paying,
                   tickVars, reconciled, staffVars, history>>

\* A change of seats is planned from an unlocked read (plan_seats) and
\* carried out in transactions of its own: fewer seats from the next period
\* on, more at once with an invoice for the difference.
PlanSeats(n) ==
    LET paidNow == sub.end # 0 /\ today < sub.end IN
    /\ staffStep = "idle"
    /\ n # tenantSeats
    /\ newSeats' = n
    /\ staffStep' = IF paidNow /\ n < tenantSeats THEN "defer" ELSE "set"
    /\ added' = IF paidNow /\ n > tenantSeats THEN n - tenantSeats ELSE 0
    /\ UNCHANGED <<today, tenantSeats, sub, invoiceVars, bill, eventVars, tickVars,
                   reconciled, history>>

StaffDone == staffStep' = "idle" /\ newSeats' = 0 /\ added' = 0

\* Mutant of DeferSeats: the unpaid renewal is left as it is.
DeferSeatsOnly ==
    /\ staffStep = "defer"
    /\ sub' = [sub EXCEPT !.next = newSeats]
    /\ StaffDone
    /\ UNCHANGED <<today, tenantSeats, invoiceVars, bill, eventVars, tickVars, reconciled,
                   history>>

DeferSeats ==
    /\ staffStep = "defer"
    /\ sub' = [sub EXCEPT !.next = newSeats]
    /\ Cancel(PendingRenewals)
    /\ StaffDone
    /\ UNCHANGED <<today, tenantSeats, eventVars, tickVars, reconciled, history>>

SetSeats ==
    /\ staffStep = "set"
    /\ tenantSeats' = newSeats
    /\ IF added > 0 THEN staffStep' = "topup" /\ UNCHANGED <<newSeats, added>> ELSE StaffDone
    /\ UNCHANGED <<today, sub, invoiceVars, bill, eventVars, tickVars, reconciled, history>>

\* paid_periods is not empty, so the sum of topup_for is positive.
TopupDue == \E i \in Invoices : ForSubscription(i) /\ state[i] = "paid" /\ until[i] > today

Topup ==
    /\ staffStep = "topup"
    /\ sub' = [sub EXCEPT !.next = 0]
    /\ IF TopupDue
       THEN \E n \in Invoices : Issue(n, "seats", 0, 0, added, PendingRenewals)
       ELSE Cancel(PendingRenewals)
    /\ StaffDone
    /\ UNCHANGED <<today, tenantSeats, eventVars, tickVars, reconciled, history>>

\* The team is told to issue the invoice by hand.
TopupFails ==
    /\ staffStep = "topup"
    /\ TopupDue
    /\ IssueFails(PendingRenewals)
    /\ StaffDone
    /\ UNCHANGED <<today, tenantSeats, eventVars, tickVars, reconciled, history>>

StaffCrash ==
    /\ staffStep # "idle"
    /\ StaffDone
    /\ UNCHANGED <<today, tenantSeats, sub, invoiceVars, bill, eventVars, tickVars,
                   reconciled, history>>

----------------------------------------------------------------------------
(* A pass of the billing loop.                                             *)

\* run_due reads the companies, _tenant works with what it has read.
List(s) ==
    /\ tick[s] = "idle"
    /\ tick' = [tick EXCEPT ![s] = "listed"]
    /\ tickSeats' = [tickSeats EXCEPT ![s] = tenantSeats]
    /\ UNCHANGED <<today, tenantSeats, sub, invoiceVars, bill, eventVars, seen, loaded,
                   reconciled, staffVars, history>>

\* Young enough to be compared with the bank (POLL_AFTER is minutes, less
\* than a day); what is older is left to the team.
Recent(i) == today < created[i] + PollWithin

\* Mutant of ReadAwaiting: only renewals are compared with the bank.
ReadRenewals(s) ==
    /\ tick[s] = "listed"
    /\ tick' = [tick EXCEPT ![s] = "polling"]
    /\ seen' = [seen EXCEPT ![s] = {i \in Invoices : Awaiting(i) /\ Recent(i) /\ kind[i] = "renewal"}]
    /\ UNCHANGED <<today, tenantSeats, sub, invoiceVars, bill, eventVars, tickSeats, loaded,
                   reconciled, staffVars, history>>

ReadAwaiting(s) ==
    /\ tick[s] = "listed"
    /\ tick' = [tick EXCEPT ![s] = "polling"]
    /\ seen' = [seen EXCEPT ![s] = {i \in Invoices : Awaiting(i) /\ Recent(i)}]
    /\ UNCHANGED <<today, tenantSeats, sub, invoiceVars, bill, eventVars, tickSeats, loaded,
                   reconciled, staffVars, history>>

\* The bank says that an invoice read as awaiting is paid.  The lock does
\* not refresh the invoice, nor the subscription if this session has
\* loaded it for an earlier invoice.
Reconcile(s, i) ==
    LET remembered == IF loaded[s] = NoSub THEN sub ELSE loaded[s] IN
    /\ tick[s] = "polling"
    /\ i \in seen[s]
    /\ bill[i] = "paid"
    /\ i \notin reconciled
    /\ SettleInvoice(i, remembered)
    /\ reconciled' = reconciled \cup {i}
    /\ seen' = [seen EXCEPT ![s] = @ \ {i}]
    /\ loaded' = [loaded EXCEPT ![s] = Applied(remembered, i)]
    /\ UNCHANGED <<today, tenantSeats, bill, eventVars, tick, tickSeats, staffVars>>

Forget(s, next) ==
    /\ tick' = [tick EXCEPT ![s] = next]
    /\ tickSeats' = IF next = "idle" THEN [tickSeats EXCEPT ![s] = 0] ELSE tickSeats
    /\ seen' = [seen EXCEPT ![s] = {}]
    /\ loaded' = [loaded EXCEPT ![s] = NoSub]

\* The rest is not paid, or the bank did not answer about it.
PollEnds(s) ==
    /\ tick[s] = "polling"
    /\ Forget(s, "renewing")
    /\ UNCHANGED <<today, tenantSeats, sub, invoiceVars, bill, eventVars, reconciled, staffVars, history>>

\* _apply_next_seats
NextSeatsBegin ==
    sub.next # 0 /\ sub.start # 0 /\ today >= sub.start /\ sub.seats = sub.next

\* subscription_state and the notice of _status
StateToday == IF today < sub.end THEN "active"
              ELSE IF today < sub.end + Grace THEN "awaiting" ELSE "overdue"

\* overdue_notified_for
Noticed == IF StateToday = "overdue" THEN sub.end ELSE sub.noticed

Renewable == today >= sub.end - Ahead
             /\ ~ \E k \in Invoices : /\ ForSubscription(k)
                                      /\ state[k] # "cancelled"
                                      /\ from[k] = sub.end

\* The second transaction of _tenant: next seats, renewal, status.
Renew(s) ==
    LET next == IF NextSeatsBegin THEN 0 ELSE sub.next
        seats == IF next # 0 THEN next ELSE tickSeats[s] IN
    /\ tick[s] = "renewing"
    /\ sub.end # 0
    /\ tenantSeats' = IF NextSeatsBegin THEN sub.next ELSE tenantSeats
    /\ \/ /\ Renewable
          /\ \E n \in Invoices : Issue(n, "renewal", sub.end, sub.end + Period, seats, {})
       \/ UNCHANGED <<invoiceVars, bill>>   \* not due, no requisites, or no answer
    /\ sub' = [sub EXCEPT !.next = next,
                          !.status = StateToday,
                          !.noticed = Noticed]
    /\ Forget(s, "idle")
    /\ UNCHANGED <<today, eventVars, reconciled, staffVars, history>>

NothingToRenew(s) ==
    /\ tick[s] = "renewing"
    /\ sub.end = 0
    /\ Forget(s, "idle")
    /\ UNCHANGED <<today, tenantSeats, sub, invoiceVars, bill, eventVars, reconciled, staffVars, history>>

\* The process dies, or an error ends the pass for this company.
TickFails(s) ==
    /\ tick[s] # "idle"
    /\ Forget(s, "idle")
    /\ UNCHANGED <<today, tenantSeats, sub, invoiceVars, bill, eventVars, reconciled, staffVars, history>>

\* A pass takes minutes: the day of a pass is read once, at its beginning.
NewDay ==
    /\ today < LastDay
    /\ \A s \in Schedulers : tick[s] = "idle"
    /\ today' = today + 1
    /\ UNCHANGED <<tenantSeats, sub, invoiceVars, bill, eventVars, tickVars, reconciled,
                   staffVars, history>>

----------------------------------------------------------------------------
Admin == (\E n \in Invoices : ChooseFirst(n)) \/ ChooseFails \/ ChooseNext

Bank == \/ \E i \in Invoices : BankMatches(i) \/ BankExpires(i)
        \/ \E e \in Events, i \in Invoices \cup {NoInvoice}, ok \in BOOLEAN : Receive(e, i, ok)

Process(e) == Match(e) \/ GiveUp(e) \/ Postpone(e)

Staff == \/ \E i \in Invoices : MarkPaid(i) \/ CancelByStaff(i)
         \/ \E e \in Events : \/ \E i \in Invoices : ResolvePays(e, i)
                              \/ ResolveEnds(e) \/ Dismiss(e)
         \/ \E n \in Seats : PlanSeats(n)
         \/ DeferSeats \/ SetSeats \/ Topup \/ TopupFails \/ StaffCrash

Tick(s) == \/ List(s) \/ ReadAwaiting(s) \/ PollEnds(s)
           \/ Renew(s) \/ NothingToRenew(s)

Next == \/ Admin \/ Bank \/ Staff \/ NewDay
        \/ \E e \in Events : Process(e)
        \/ \E s \in Schedulers : \/ Tick(s) \/ TickFails(s)
                                 \/ \E i \in Invoices : Reconcile(s, i)

Spec == Init /\ [][Next]_vars

\* The loop runs every 15 minutes in every worker and survives errors; a
\* worker that is killed is started again and not killed for ever between
\* the bank's answer and the commit.  The bank answers sooner or later.
Fairness ==
    /\ \A s \in Schedulers : WF_vars(Tick(s)) /\ SF_vars(ReadAwaiting(s))
    /\ \A i \in Invoices : SF_vars(\E s \in Schedulers : Reconcile(s, i))
    /\ \A e \in Events : WF_vars(Process(e)) /\ WF_vars(ResolveEnds(e))

FairSpec == Spec /\ Fairness

----------------------------------------------------------------------------
(* Properties.                                                             *)

\* However many webhooks, clicks of the team and passes of the scheduler
\* report one invoice, the paths that lock it fresh settle it once; only
\* the reconciliation can come on top of them, and only once.
SettledOncePerPath ==
    \A i \in Invoices : credited[i] <= IF i \in reconciled THEN 2 ELSE 1

\* An invoice that was paid is paid for good: no later choice, change of
\* seats or click of the team cancels it, and it never awaits again.
PaidIsFinal ==
    [][\A i \in Invoices : state[i] = "paid" => state'[i] = "paid"]_vars

\* No two invoices ask for, or paid for, the same period.
OneInvoicePerPeriod ==
    \A i, k \in Invoices :
        /\ ForSubscription(i) /\ ForSubscription(k) /\ i # k
        /\ state[i] # "cancelled" /\ state[k] # "cancelled"
        /\ from[i] # 0
        => from[i] # from[k]

\* There is one thing to pay for the subscription at a time, unless a
\* reconciliation revived an invoice that had been cancelled meanwhile.
OnePending ==
    revived = {} => Cardinality(Pending) <= 1

\* What was paid is given: the subscription runs to the end of every
\* period that was paid for, with the same exception.
PaidPeriodGiven ==
    revived = {} =>
        \A i \in Invoices : ForSubscription(i) /\ state[i] = "paid" => sub.end >= until[i]

\* No day is paid for twice, with the same exception.
PeriodsDisjoint ==
    revived = {} =>
        \A i, k \in Invoices :
            /\ ForSubscription(i) /\ ForSubscription(k) /\ i # k
            /\ state[i] = "paid" /\ state[k] = "paid"
            => until[i] <= from[k] \/ until[k] <= from[i]

\* While fewer seats are planned for the next period, its unpaid invoice
\* asks for that number, whichever of the team and the scheduler was first;
\* with the same exception: an end that a stale session has taken back and
\* another settles again brings an older renewal back with it.
RenewalAsksForNextSeats ==
    revived = {} /\ sub.next # 0 => \A i \in PendingRenewals : places[i] = sub.next

\* A payment the bank confirms makes its invoice paid even when every webhook
\* is lost and the team does nothing, if days leave the invoice within
\* POLL_WITHIN and nobody cancels it: the pass does not look at a cancelled
\* one, whatever its bill says.  (After a reconciliation that revived a
\* cancelled invoice the unique index refuses a second first period of the
\* same day.)
PaymentArrives ==
    \A i \in Invoices :
        Awaiting(i) /\ bill[i] = "paid" /\ Recent(i) ~>
            \/ state[i] = "paid"
            \/ state[i] = "cancelled"
            \/ ~Recent(i)
            \/ revived # {}

\* What cancel_invoice promises of a payment that comes for a cancelled
\* invoice, and POLL_WITHIN of one that comes too late for the reconciliation:
\* whatever a webhook says, it ends as a paid invoice or in front of the team.
WebhookConcluded ==
    \A e \in Events :
        verdict[e] \in Open ~>
            \/ verdict[e] = "matched" /\ state[target[e]] = "paid"
            \/ verdict[e] \in Review \cup {"resolved"}
            \/ revived # {}

\* settle_invoice: a repeated payment does nothing.
SettledOnce == \A i \in Invoices : credited[i] <= 1

=============================================================================
