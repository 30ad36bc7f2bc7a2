------------------------------ MODULE Credits ------------------------------
(***************************************************************************)
(* The credits of one company: the monthly pool, counted in the journal of *)
(* answers (CreditService, FaqService.ask), the credits bought on top of   *)
(* it (CreditRepository) and the orders they are bought with               *)
(* (CreditOrderService, StaffCreditService).                               *)
(*                                                                         *)
(* A question is two steps with the model's answer between them: an        *)
(* unlocked check of the balance, and one transaction under the company's  *)
(* row lock that writes the journal, charges what exceeds the pool to the  *)
(* bought credits and announces the thresholds.                            *)
(*                                                                         *)
(* Grants are numbered in the order they are made, which is the order they *)
(* expire in; every grant has Pack credits.                                *)
(***************************************************************************)
EXTENDS Integers, FiniteSets, Functions

CONSTANTS
    Questions,    \* questions that are answered at the same time
    Orders,       \* identifiers of credit_orders rows
    Pools,        \* seats * credits_per_seat
    Pack,         \* credits of a grant
    MaxCost,      \* bound: what an answer may cost
    WarnPercent,  \* CREDITS_WARN_AT_PERCENT
    MaxOpenOrders,
    MaxGrants,    \* bound: grants ever made
    LastMonth     \* bound: months that pass

ASSUME PoolsAssumption == Pools \subseteq Nat \ {0}
ASSUME CostAssumption == MaxCost \in Nat /\ Pack \in Nat \ {0}
ASSUME WarnAssumption == WarnPercent \in 1..100
ASSUME BoundsAssumption == MaxGrants \in Nat /\ LastMonth \in Nat \ {0} /\ MaxOpenOrders \in Nat

VARIABLES
    month,
    pool,
    used,        \* SUM(qa_log.credits) of the answers of each month
    asked,       \* usage.period_start of a question, 0: no question
    saw,         \* what else its usage said
    grants,      \* how many grants have been made
    expired,     \* how many of them have expired
    remaining,   \* credit_grants.remaining
    spent,       \* SUM(credit_spends.credits) for each month
    unbacked,    \* SUM(credit_spends.credits) without a grant
    told,        \* the last month in which each event was recorded, 0: never
    grantMonth,  \* the month of the latest grant, 0: none
    toldSince,   \* was credits.exhausted recorded after that grant?
    order,       \* credit_orders.status
    invoice,     \* the status of the order's bank invoice
    peak,        \* history: the largest overrun of each month an answer has found
    late,        \* history: what the next month had used at the last answer to a
                 \* question of this one that was given in it
    reduced,     \* history: the pool has become smaller
    fresh,       \* history: credits answered since the latest grant
    by,          \* history: the month the last answer's question was asked in
    silent       \* history: they were stopped by something else than an answer

journal == <<month, pool, used>>
asking == <<asked, saw>>
ledger == <<grants, expired, remaining, spent, unbacked>>
events == <<told, grantMonth, toldSince>>
orderVars == <<order, invoice>>
history == <<peak, late, reduced, fresh, by, silent>>
vars == <<journal, asking, ledger, events, orderVars, history>>

Months == 1..LastMonth
Grants == 1..MaxGrants
Event == {"warning", "pool", "exhausted"}
OrderStatus == {"none", "awaiting", "paid", "cancelled"}

TypeOK ==
    /\ month \in Months
    /\ pool \in Pools
    /\ used \in [Months -> Nat]
    /\ asked \in [Questions -> 0..month]
    /\ saw \in [Questions -> {"fine", "warning", "exhausted"}]
    /\ grants \in 0..MaxGrants
    /\ expired \in 0..grants
    /\ remaining \in [Grants -> Int]
    /\ spent \in [Months -> Nat]
    /\ unbacked \in Nat
    /\ told \in [Event -> 0..month]
    /\ grantMonth \in 0..month
    /\ toldSince \in BOOLEAN
    /\ order \in [Orders -> OrderStatus]
    /\ invoice \in [Orders -> OrderStatus]
    /\ peak \in [Months -> Nat] /\ late \in [Months -> Nat]
    /\ reduced \in BOOLEAN
    /\ fresh \in Nat /\ by \in 0..month
    /\ silent \in BOOLEAN

Init ==
    /\ month = 1
    /\ pool \in Pools
    /\ used = [m \in Months |-> 0]
    /\ asked = [q \in Questions |-> 0]
    /\ saw = [q \in Questions |-> "fine"]
    /\ grants = 0 /\ expired = 0
    /\ remaining = [g \in Grants |-> 0]
    /\ spent = [m \in Months |-> 0]
    /\ unbacked = 0
    /\ told = [e \in Event |-> 0]
    /\ grantMonth = 0 /\ toldSince = FALSE
    /\ order = [o \in Orders |-> "none"]
    /\ invoice = [o \in Orders |-> "none"]
    /\ peak = [m \in Months |-> 0] /\ late = [m \in Months |-> 0]
    /\ reduced = FALSE /\ fresh = 0 /\ by = 0 /\ silent = FALSE

----------------------------------------------------------------------------
(* What the company has.                                                   *)

Larger(a, b) == IF a > b THEN a ELSE b
Smaller(a, b) == IF a < b THEN a ELSE b

\* ceil(pool * WarnPercent / 100)
WarnAt == (pool * WarnPercent + 99) \div 100

ActiveGrants == (expired + 1)..grants
Positive == [g \in Grants |-> Larger(remaining[g], 0)]

\* PurchasedBalance.remaining: a negative grant is not taken off the others.
Purchased == SumFunctionOnSet(Positive, ActiveGrants)

Exhausted == used[month] >= pool
Stopped == Exhausted /\ Purchased = 0

----------------------------------------------------------------------------
(* Questions.                                                              *)

\* ensure_available: no lock, and none until the model has answered.
Ask(q) ==
    /\ asked[q] = 0
    /\ ~Stopped
    /\ asked' = [asked EXCEPT ![q] = month]
    /\ saw' = [saw EXCEPT ![q] = IF Exhausted THEN "exhausted"
                                 ELSE IF used[month] >= WarnAt THEN "warning" ELSE "fine"]
    /\ UNCHANGED <<journal, ledger, events, orderVars, history>>

Done(q) ==
    /\ asked' = [asked EXCEPT ![q] = 0]
    /\ saw' = [saw EXCEPT ![q] = "fine"]

\* No answer, nothing is written.
AnswerFails(q) ==
    /\ asked[q] # 0
    /\ Done(q)
    /\ UNCHANGED <<journal, ledger, events, orderVars, history>>

\* AuditRepository.exists_since the beginning of month p.
Recorded(e, p) == told[e] >= p

\* Mutant of RecordedInEpisode: a new grant does not begin a new episode.
RecordedInMonth(p) == Recorded("exhausted", p)

\* An episode begins with the month or with the latest grant.
RecordedInEpisode(p) ==
    IF grantMonth < p THEN Recorded("exhausted", p) ELSE toldSince

\* _once for each of the thresholds reached in a usage of month p.
Announce(p, warning, exhausted, stopped) ==
    LET new(e) == CASE e = "warning" -> warning /\ ~Recorded("warning", p)
                    [] e = "pool" -> /\ exhausted /\ ~stopped
                                     /\ ~Recorded("exhausted", p) /\ ~Recorded("pool", p)
                    [] e = "exhausted" -> exhausted /\ stopped /\ ~RecordedInEpisode(p)
    IN /\ told' = [e \in Event |-> IF new(e) THEN month ELSE told[e]]
       /\ toldSince' = (toldSince \/ new("exhausted"))
       /\ UNCHANGED grantMonth

\* An answer without a call of the model costs nothing and is judged by the
\* usage read before it.
AnswerFree(q) ==
    /\ asked[q] # 0
    /\ Announce(asked[q], saw[q] # "fine", saw[q] = "exhausted", FALSE)
    /\ Done(q)
    /\ UNCHANGED <<journal, ledger, orderVars, history>>

\* What the grants that expire earlier than g have.
Before(g) == SumFunctionOnSet(Positive, {h \in ActiveGrants : h < g})

Shortage(amount) == Larger(0, amount - Purchased)

\* Mutant of Share: a grant does not count what the others have paid.
ShareAlone(g, amount) ==
    Smaller(Positive[g], amount) + (IF g = grants THEN Shortage(amount) ELSE 0)

\* What CreditRepository.charge takes from an active grant: the last one
\* takes what the others cannot pay, below zero too.
Share(g, amount) ==
    Smaller(Positive[g], Larger(0, amount - Before(g)))
        + (IF g = grants THEN Shortage(amount) ELSE 0)

\* Mutant of Charge: what no grant pays is not written down.
ChargeBacked(amount, p) ==
    /\ remaining' = [g \in Grants |-> IF g \in ActiveGrants THEN remaining[g] - Share(g, amount)
                                      ELSE remaining[g]]
    /\ unbacked' = unbacked
    /\ spent' = IF ActiveGrants = {} THEN spent ELSE [spent EXCEPT ![p] = @ + amount]

Charge(amount, p) ==
    /\ remaining' = [g \in Grants |-> IF g \in ActiveGrants THEN remaining[g] - Share(g, amount)
                                      ELSE remaining[g]]
    /\ unbacked' = unbacked + (IF ActiveGrants = {} THEN amount ELSE 0)
    /\ spent' = [spent EXCEPT ![p] = @ + amount]

\* credits_since: the answers from the beginning of month p until now.
UsedSince(p) == used[p] + (IF month > p THEN used[month] ELSE 0)

\* Mutant of Unpaid: what has been charged already is charged again.
UnpaidAgain(p, cost) == Larger(0, UsedSince(p) + cost - pool)

\* Mutant of Unpaid: what other months have charged is taken for this one's.
UnpaidOfAllMonths(p, cost) ==
    Larger(0, Larger(0, UsedSince(p) + cost - pool) - SumFunction(spent))

\* _settle: the overrun nobody has charged yet.
Unpaid(p, cost) == Larger(0, Larger(0, UsedSince(p) + cost - pool) - spent[p])

\* The transaction of an answer: the journal, note_spend, commit.
Answer(q, cost) ==
    LET p == asked[q]
        unpaid == Unpaid(p, cost)
        exhausted == UsedSince(p) + cost >= pool
        stopped == exhausted /\ unpaid >= Purchased IN
    /\ p # 0
    /\ used' = [used EXCEPT ![month] = @ + cost]
    /\ IF unpaid > 0 THEN Charge(unpaid, p) ELSE UNCHANGED <<remaining, spent, unbacked>>
    /\ Announce(p, UsedSince(p) + cost >= WarnAt, exhausted, stopped)
    /\ Done(q)
    /\ peak' = [peak EXCEPT ![p] = Larger(@, used'[p] - pool)]
    /\ late' = IF p = month THEN late ELSE [late EXCEPT ![p] = used'[month]]
    /\ fresh' = fresh + cost /\ by' = p
    /\ silent' = FALSE
    /\ UNCHANGED <<month, pool, grants, expired, orderVars, reduced>>

----------------------------------------------------------------------------
(* Time, seats, grants.                                                    *)

\* A question may be answered in the month after it was asked, and no later:
\* the model has minutes to answer (CHAT_GENERATION_TIMEOUT).
NewMonth ==
    /\ month < LastMonth
    /\ \A q \in Questions : asked[q] \in {0, month}
    /\ month' = month + 1
    /\ silent' = FALSE
    /\ UNCHANGED <<pool, used, asking, ledger, events, orderVars, peak, late, reduced, fresh, by>>

\* A change of tenants.seats, by the team or at the end of a paid period.
SetPool(n) ==
    /\ n \in Pools \ {pool}
    /\ pool' = n
    /\ reduced' = (reduced \/ n < pool)
    /\ UNCHANGED <<month, used, asking, ledger, events, orderVars, peak, late, fresh, by>>
    /\ silent' = (Stopped' /\ (silent \/ ~Stopped))

\* The oldest grant is past its expires_at.
Expire ==
    /\ expired < grants
    /\ expired' = expired + 1
    /\ UNCHANGED <<journal, asking, grants, remaining, spent, unbacked, events, orderVars,
                   peak, late, reduced, fresh, by>>
    /\ silent' = (Stopped' /\ (silent \/ ~Stopped))

\* A new credit_grants row: a new episode of exhaustion begins.
MakeGrant ==
    /\ grants < MaxGrants
    /\ grants' = grants + 1
    /\ remaining' = [remaining EXCEPT ![grants + 1] = Pack]
    /\ grantMonth' = month
    /\ toldSince' = FALSE
    /\ fresh' = 0 /\ silent' = FALSE
    /\ UNCHANGED <<journal, asking, expired, spent, unbacked, told, peak, late, reduced, by>>

\* StaffCreditService.grant
GrantByStaff == MakeGrant /\ UNCHANGED orderVars

----------------------------------------------------------------------------
(* Orders.                                                                 *)

\* With a bank the order has an invoice from the beginning; both are one
\* transaction under the company's lock.
CreateOrder(o, bank) ==
    /\ order[o] = "none"
    /\ Cardinality({x \in Orders : order[x] = "awaiting"}) < MaxOpenOrders
    /\ order' = [order EXCEPT ![o] = "awaiting"]
    /\ invoice' = [invoice EXCEPT ![o] = IF bank THEN "awaiting" ELSE "none"]
    /\ UNCHANGED <<journal, asking, ledger, events, history>>

\* settle_order, with the order locked and seen as awaiting.
SettleOrder(o) ==
    /\ order' = [order EXCEPT ![o] = "paid"]
    /\ MakeGrant

\* Mutant of SettleInvoice: the order is left for the team.
SettleInvoiceOnly(o) ==
    /\ invoice[o] # "none"
    /\ invoice' = [invoice EXCEPT ![o] = "paid"]
    /\ UNCHANGED <<journal, asking, ledger, events, history, order>>

\* settle_invoice by a webhook, the team or the reconciliation, which may
\* still see as awaiting an invoice that was paid or cancelled meanwhile
\* (see Payments); the order is locked and read afresh.
SettleInvoice(o) ==
    /\ invoice[o] # "none"
    /\ invoice' = [invoice EXCEPT ![o] = "paid"]
    /\ IF order[o] = "awaiting" THEN SettleOrder(o)
       ELSE UNCHANGED <<journal, asking, ledger, events, history, order>>

\* StaffCreditService.mark_paid
MarkOrderPaid(o) ==
    /\ order[o] = "awaiting"
    /\ SettleOrder(o)
    /\ invoice' = [invoice EXCEPT ![o] = IF @ = "awaiting" THEN "paid" ELSE @]

\* StaffCreditService.cancel: the invoice goes on awaiting.
CancelOrder(o) ==
    /\ order[o] = "awaiting"
    /\ order' = [order EXCEPT ![o] = "cancelled"]
    /\ UNCHANGED <<journal, asking, ledger, events, history, invoice>>

\* StaffBillingService.cancel: the order goes on awaiting.
CancelInvoice(o) ==
    /\ invoice[o] = "awaiting"
    /\ invoice' = [invoice EXCEPT ![o] = "cancelled"]
    /\ UNCHANGED <<journal, asking, ledger, events, history, order>>

----------------------------------------------------------------------------
Next ==
    \/ \E q \in Questions : \/ Ask(q) \/ AnswerFails(q) \/ AnswerFree(q)
                            \/ \E cost \in 1..MaxCost : Answer(q, cost)
    \/ NewMonth \/ Expire \/ GrantByStaff
    \/ \E n \in Pools : SetPool(n)
    \/ \E o \in Orders : \/ CreateOrder(o, TRUE) \/ CreateOrder(o, FALSE)
                         \/ SettleInvoice(o) \/ MarkOrderPaid(o)
                         \/ CancelOrder(o) \/ CancelInvoice(o)

Spec == Init /\ [][Next]_vars

----------------------------------------------------------------------------
(* Properties.                                                             *)

\* Bought credits pay only for what a month really used beyond its pool:
\* parallel answers never charge the same overrun twice (note_spend).  A
\* question answered after its month has ended is settled on the account of
\* that month with all that has been used since its beginning (_settle), so
\* the month is charged for what the next one had used by then, and no more.
ChargedWithinOverrun == \A m \in Months : spent[m] <= peak[m] + late[m]

\* ... and miss none of it: whatever two answers read before they were
\* given, the one that commits last sees both.  What this month used beyond
\* its pool is charged to it, or with the last month's when a question of
\* that month was the last to be answered.  Only a pool that became smaller
\* leaves an overrun for the next answer.
OverrunCharged ==
    ~reduced => \E p \in Months \cap {month, month - 1} : UsedSince(p) - pool <= spent[p]

\* Every credit charged is found in a grant, or in a row without one.
GrantsAccountForSpends ==
    SumFunction([g \in 1..grants |-> Pack - remaining[g]]) + unbacked = SumFunction(spent)

\* The ledger is well-formed and balances.
LedgerBalances == TypeOK /\ GrantsAccountForSpends

\* A question was answered after the end of its month, in month m or later.
CrossedSince(m) == \E p \in Months : p + 1 >= m /\ late[p] > 0

\* The latest grant pays only for answers given after it was made: an
\* overrun of the time before it was closed without a grant (charge).  The
\* exception is a grant followed or preceded, from its month on, by an
\* answer that came after the end of its question's month: what that answer
\* charges was partly used before.
GrantPaysNewAnswers ==
    ~reduced /\ grants > 0 /\ ~CrossedSince(grantMonth) => Pack - remaining[grants] <= fresh

\* When answers use up the last credit the administrators have been told so
\* in this episode, also when an earlier episode of the month was announced.
\* The episode is that of the month the last question answered was asked in.
StopIsAnnounced ==
    Stopped /\ ~silent => told["exhausted"] >= by /\ (grantMonth >= by => toldSince)

\* An invoice that is paid leaves no order waiting for its credits.
PaidInvoiceClosesOrder ==
    \A o \in Orders : invoice[o] = "paid" => order[o] # "awaiting"

=============================================================================
