------------------------------ MODULE Billing ------------------------------
(***************************************************************************)
(* The backend's billing (backend/internal/billing, the subscription and   *)
(* gift-card tables, the overage worker) between Stripe and the rows the   *)
(* gateway meters by.  Stripe delivers its events at least once, in any    *)
(* order and to several requests at a time; the handler marks an event,    *)
(* applies it and removes the mark if that failed.                         *)
(*                                                                         *)
(* There is one customer.  A plan is its tier, and its number of tokens.   *)
(***************************************************************************)
EXTENDS Naturals, Sequences, FiniteSets

CONSTANTS
    Checkout,     \* the customer's checkouts; each one is a subscription at Stripe
    Gift,         \* checkouts of gift cards
    Handler,      \* webhook requests served at a time
    Plan,         \* the plans on sale
    StripeStatus, \* what Stripe may say of a subscription
    MaxRows,      \* bound: subscription rows
    MaxUsed,      \* bound: overage tokens used in all
    MaxChanges,   \* bound: changes of status at Stripe
    MaxFaults,    \* bound: statements or calls that fail
    MaxStops      \* bound: requests or workers that stop half way

VARIABLES
    rows,       \* the subscriptions table
    remote,     \* Stripe's subscription of a checkout, with its plan
    events,     \* events Stripe has made
    acked,      \* events answered with success
    marked,     \* the stripe_events table
    handler,    \* webhook requests in progress
    customer,   \* a request of the customer about overage
    items,      \* Stripe's overage items: the checkouts they are on
    cards,      \* gift cards and the money paid for them
    refunder,   \* an administrator's refund in progress
    worker,     \* the overage worker
    billed,     \* row -> tokens Stripe has billed, with the keys it has seen
    used,       \* history: row -> overage tokens ever used
    assigned,   \* history: checkout -> plans assigned for it
    failures    \* faults and stops so far

billVars == <<rows, remote, events, acked, marked, handler, customer, items, cards, refunder,
              worker, billed, used, assigned, failures>>

None == "none"
Idle == [pc |-> "idle"]

(* A subscription's identifier is never empty; "open" is the checkout that  *)
(* is not paid, of which Stripe has no subscription yet.  A plan is its     *)
(* number of tokens.                                                        *)
ASSUME CheckoutAssumption == None \notin Checkout
ASSUME StripeStatusAssumption == StripeStatus \cap {None, "open"} = {}
ASSUME PlanAssumption == Plan \subseteq Nat

NewRow(plan, limit) ==
    [status |-> "active", plan |-> plan, limit |-> limit, linked |-> None, on |-> FALSE,
     item |-> FALSE, overage |-> 0, reported |-> 0]

BillInit ==
    /\ rows = << >>
    /\ remote = [k \in Checkout |-> [status |-> None, plan |-> 0]]
    /\ events = {} /\ acked = {} /\ marked = {}
    /\ handler = [h \in Handler |-> Idle]
    /\ customer = Idle
    /\ items = {}
    /\ cards = [g \in Gift |-> [paid |-> FALSE, minted |-> 0, plan |-> 0, old |-> FALSE,
                                redeemed |-> 0, refunded |-> FALSE, returned |-> FALSE]]
    /\ refunder = Idle
    /\ worker = Idle
    /\ billed = [total |-> << >>, keys |-> {}]
    /\ used = << >>
    /\ assigned = [k \in Checkout |-> 0]
    /\ failures = [faults |-> 0, stops |-> 0, changes |-> 0]

Fault == failures.faults < MaxFaults /\ failures' = [failures EXCEPT !.faults = @ + 1]
Stop == failures.stops < MaxStops /\ failures' = [failures EXCEPT !.stops = @ + 1]

Active(r) == {i \in DOMAIN r : r[i].status = "active"}

----------------------------------------------------------------------------
(* The tables. *)

(* The customer's active row gives way to a fresh one, in one transaction. *)
AssignPlan(r, plan) ==
    Append([i \in DOMAIN r |-> IF i \in Active(r) THEN [r[i] EXCEPT !.status = "cancelled"] ELSE r[i]],
           NewRow(plan, plan))

GetSubscriptionByStripeID(k) == {i \in DOMAIN rows : rows[i].linked = k}

(* The customer has at most one active row (a unique index): a second one   *)
(* is an error.                                                             *)
SetSubscriptionStatusOk(i, status) == status = "active" => Active(rows) \subseteq {i}

(* Seeded fault: the conflict is not looked at. *)
MarkAlwaysFirst(e) == TRUE

MarkStripeEventProcessed(e) == e \notin marked

(* The gift is worth its months at the tokens of its plan: a new row, or    *)
(* more of the present one, whose plan changes for a higher tier only.      *)
ApplyGiftCard(r, plan) ==
    IF Active(r) = {} THEN Append(r, NewRow(plan, plan))
    ELSE [i \in DOMAIN r |->
            IF i \notin Active(r) THEN r[i]
            ELSE [r[i] EXCEPT !.limit = @ + plan, !.plan = IF plan > @ THEN plan ELSE @]]

----------------------------------------------------------------------------
(* Stripe. *)

Event(type, of, status) == [type |-> type, of |-> of, status |-> status, n |-> Cardinality(events)]

Others == <<marked, handler, customer, items, refunder, worker, acked>>

(* The customer asks for a checkout of a plan ... *)
CreateCheckoutSession(k, plan) ==
    /\ remote[k].status = None
    /\ remote' = [remote EXCEPT ![k] = [status |-> "open", plan |-> plan]]
    /\ UNCHANGED <<rows, events, cards, billed, used, assigned, failures, Others>>

(* ... and pays. *)
PayCheckout(k) ==
    /\ remote[k].status = "open"
    /\ remote' = [remote EXCEPT ![k].status = "active"]
    /\ events' = events \cup {Event("checkout", k, "active"), Event("updated", k, "active")}
    /\ UNCHANGED <<rows, cards, billed, used, assigned, failures, Others>>

(* A status change comes with the event of its invoice, or of the end. *)
ChangeStatus(k, s) ==
    /\ failures.changes < MaxChanges
    /\ remote[k].status \notin {None, "open", "canceled"}
    /\ s # remote[k].status
    /\ remote' = [remote EXCEPT ![k].status = s]
    /\ events' = events \cup
          {Event("updated", k, s),
           CASE s = "canceled" -> Event("deleted", k, s)
             [] s \in {"past_due", "unpaid"} -> Event("invoice_failed", k, s)
             [] OTHER -> Event("invoice_paid", k, s)}
    /\ failures' = [failures EXCEPT !.changes = @ + 1]
    /\ UNCHANGED <<rows, cards, billed, used, assigned, Others>>

CreateGiftCheckoutSession(g, plan) ==
    /\ ~cards[g].paid
    /\ cards' = [cards EXCEPT ![g].paid = TRUE, ![g].plan = plan]
    /\ events' = events \cup {Event("gift", g, None)}
    /\ UNCHANGED <<rows, remote, billed, used, assigned, failures, Others>>

----------------------------------------------------------------------------
(* The webhook. *)

Handling == <<remote, events, customer, items, refunder, worker>>

Done(h) == /\ handler' = [handler EXCEPT ![h] = Idle]
           /\ acked' = acked \cup {handler[h].e}

Goto(h, pc, row, status) ==
    handler' = [handler EXCEPT ![h] = [pc |-> pc, e |-> handler[h].e, row |-> row, status |-> status]]

(* Stripe sends what has not been answered; an event that is marked is      *)
(* answered with success.                                                   *)
handleStripeWebhook(h, e) ==
    /\ handler[h].pc = "idle"
    /\ e \notin acked
    /\ IF MarkStripeEventProcessed(e)
       THEN /\ marked' = marked \cup {e}
            /\ handler' = [handler EXCEPT ![h] = [pc |-> "handle", e |-> e, row |-> 0, status |-> None]]
            /\ acked' = acked
       ELSE acked' = acked \cup {e} /\ UNCHANGED <<marked, handler>>
    /\ UNCHANGED <<rows, cards, billed, used, assigned, failures, Handling>>

(* A paid checkout: the plan, and then the link to Stripe. *)
onCheckoutCompleted(h) ==
    /\ handler[h].pc = "handle" /\ handler[h].e.type = "checkout"
    /\ Len(rows) < MaxRows
    /\ rows' = AssignPlan(rows, remote[handler[h].e.of].plan)
    /\ billed' = [billed EXCEPT !.total = Append(@, 0)]
    /\ used' = Append(used, 0)
    /\ assigned' = [assigned EXCEPT ![handler[h].e.of] = @ + 1]
    /\ Goto(h, "link", Len(rows) + 1, None)
    /\ UNCHANGED <<marked, acked, cards, failures, Handling>>

(* The link is stamped or, if that fails, only missed in the log. *)
SetSubscriptionStripeIDs(h) ==
    /\ handler[h].pc = "link"
    /\ \/ rows' = [rows EXCEPT ![handler[h].row].linked = handler[h].e.of] /\ UNCHANGED failures
       \/ Fault /\ UNCHANGED rows
    /\ Done(h)
    /\ UNCHANGED <<marked, cards, billed, used, assigned, Handling>>

(* A paid gift is minted once for its session. *)
onGiftCheckoutCompleted(h) ==
    /\ handler[h].pc = "handle" /\ handler[h].e.type = "gift"
    /\ cards' = [cards EXCEPT ![handler[h].e.of].minted = IF @ = 0 THEN 1 ELSE @]
    /\ Done(h)
    /\ UNCHANGED <<rows, marked, billed, used, assigned, failures, Handling>>

mapStripeStatus(s) ==
    CASE s = "active" -> "active"
      [] s = "trialing" -> "trialing"
      [] s \in {"past_due", "unpaid"} -> "past_due"
      [] s \in {"canceled", "incomplete_expired"} -> "cancelled"
      [] OTHER -> None

(* What an event makes of the row it finds; None leaves the row alone. *)
onSubscriptionUpdated(e, row) == mapStripeStatus(e.status)
onSubscriptionDeleted(e, row) == "cancelled"
onInvoiceFailed(e, row) == "past_due"
onInvoicePaid(e, row) == IF row.status = "past_due" THEN "active" ELSE None

StatusFor(e, row) ==
    CASE e.type = "updated" -> onSubscriptionUpdated(e, row)
      [] e.type = "deleted" -> onSubscriptionDeleted(e, row)
      [] e.type = "invoice_failed" -> onInvoiceFailed(e, row)
      [] OTHER -> onInvoicePaid(e, row)

(* The row is looked up; without one, or with nothing to set, the event is  *)
(* answered with success.                                                   *)
Handle(h) ==
    LET e == handler[h].e
        found == GetSubscriptionByStripeID(e.of)
    IN  /\ handler[h].pc = "handle" /\ e.type \notin {"checkout", "gift"}
        /\ IF \E i \in found : StatusFor(e, rows[i]) # None
           THEN /\ \E i \in found : /\ StatusFor(e, rows[i]) # None
                                    /\ Goto(h, "set", i, StatusFor(e, rows[i]))
                /\ acked' = acked
           ELSE Done(h)
        /\ UNCHANGED <<rows, marked, cards, billed, used, assigned, failures, Handling>>

SetSubscriptionStatus(h) ==
    /\ handler[h].pc = "set"
    /\ IF SetSubscriptionStatusOk(handler[h].row, handler[h].status)
       THEN rows' = [rows EXCEPT ![handler[h].row].status = handler[h].status] /\ Done(h)
       ELSE Goto(h, "unmark", 0, None) /\ UNCHANGED <<rows, acked>>
    /\ UNCHANGED <<marked, cards, billed, used, assigned, failures, Handling>>

(* A statement of the handler fails: its transaction is rolled back. *)
HandleFails(h) ==
    /\ handler[h].pc \in {"handle", "set"}
    /\ Fault
    /\ Goto(h, "unmark", 0, None)
    /\ UNCHANGED <<rows, marked, acked, cards, billed, used, assigned, Handling>>

(* The mark is removed and Stripe told to come again; a mark that cannot be *)
(* removed stays.                                                           *)
UnmarkStripeEventProcessed(h) ==
    /\ handler[h].pc = "unmark"
    /\ \/ marked' = marked \ {handler[h].e} /\ UNCHANGED failures
       \/ Fault /\ UNCHANGED marked
    /\ handler' = [handler EXCEPT ![h] = Idle]
    /\ UNCHANGED <<rows, acked, cards, billed, used, assigned, Handling>>

(* The process stops with the request half done. *)
HandlerStops(h) ==
    /\ handler[h].pc # "idle"
    /\ Stop
    /\ handler' = [handler EXCEPT ![h] = Idle]
    /\ UNCHANGED <<rows, marked, acked, cards, billed, used, assigned, Handling>>

----------------------------------------------------------------------------
(* Gift cards. *)

handleGiftRedeem(g) ==
    /\ cards[g].minted = 1 /\ cards[g].redeemed = 0 /\ ~cards[g].refunded
    /\ Active(rows) = {} => Len(rows) < MaxRows
    /\ rows' = ApplyGiftCard(rows, cards[g].plan)
    /\ IF Active(rows) = {}
       THEN used' = Append(used, 0) /\ billed' = [billed EXCEPT !.total = Append(@, 0)]
       ELSE UNCHANGED <<used, billed>>
    /\ cards' = [cards EXCEPT ![g].redeemed = @ + 1]
    /\ UNCHANGED <<remote, events, assigned, failures, Others>>

(* Seeded fault: a card that has been redeemed may be refunded. *)
RefundWithoutRedeemedCheck(g) == cards[g].minted = 1 /\ ~cards[g].refunded /\ ~cards[g].old

RefundGiftCard(g) ==
    cards[g].minted = 1 /\ cards[g].redeemed = 0 /\ ~cards[g].refunded /\ ~cards[g].old

(* The administrator's refund marks the card and then asks Stripe, who      *)
(* tries three times and refunds a payment once.                            *)
handleAdminRefundCoupon(g) ==
    /\ refunder.pc = "idle"
    /\ RefundGiftCard(g)
    /\ cards' = [cards EXCEPT ![g].refunded = TRUE]
    /\ refunder' = [pc |-> "stripe", g |-> g]
    /\ UNCHANGED <<rows, remote, events, acked, marked, handler, customer, items, worker, billed,
                   used, assigned, failures>>

RefundCheckoutPayment ==
    /\ refunder.pc = "stripe"
    /\ \/ cards' = [cards EXCEPT ![refunder.g].returned = TRUE] /\ UNCHANGED failures
       \/ (Fault \/ Stop) /\ UNCHANGED cards
    /\ refunder' = Idle
    /\ UNCHANGED <<rows, remote, events, acked, marked, handler, customer, items, worker, billed,
                   used, assigned>>

(* The seven days pass. *)
giftRefundWindow(g) ==
    /\ cards[g].minted = 1 /\ ~cards[g].old
    /\ cards' = [cards EXCEPT ![g].old = TRUE]
    /\ UNCHANGED <<rows, remote, events, billed, used, assigned, failures, Others>>

----------------------------------------------------------------------------
(* Overage. *)

Overage == <<remote, events, acked, marked, handler, cards, refunder, assigned>>

AddOverageItem(i) == items \cup {rows[i].linked}
RemoveOverageItem(i) == IF rows[i].item THEN items \ {rows[i].linked} ELSE items

(* The customer turns overage on: the item at Stripe, its number in the     *)
(* row, and the switch.                                                     *)
handleBillingOverageEnable(i) ==
    /\ customer.pc = "idle"
    /\ i \in Active(rows) /\ rows[i].linked # None /\ ~rows[i].on
    /\ items' = AddOverageItem(i)
    /\ customer' = [pc |-> "enable", row |-> i]
    /\ UNCHANGED <<rows, worker, billed, used, failures, Overage>>

(* The item's number is missed in the log if it cannot be written. *)
OverageOn ==
    /\ customer.pc = "enable"
    /\ \/ rows' = [rows EXCEPT ![customer.row].item = TRUE, ![customer.row].on = TRUE]
          /\ UNCHANGED failures
       \/ Fault /\ rows' = [rows EXCEPT ![customer.row].on = TRUE]
       \/ Fault /\ rows' = [rows EXCEPT ![customer.row].item = TRUE]
       \/ Stop /\ rows' = rows
    /\ customer' = Idle
    /\ UNCHANGED <<items, worker, billed, used, Overage>>

handleBillingOverageDisable(i) ==
    /\ customer.pc = "idle"
    /\ i \in Active(rows)
    /\ items' = RemoveOverageItem(i)
    /\ rows' = [rows EXCEPT ![i].item = FALSE, ![i].on = FALSE]
    /\ UNCHANGED <<customer, worker, billed, used, failures, Overage>>

(* The gateway meters overage, gives it back and starts a new period. *)
UseOverage(i) ==
    /\ used[i] < MaxUsed
    /\ i \in Active(rows) /\ rows[i].on
    /\ rows' = [rows EXCEPT ![i].overage = @ + 1]
    /\ used' = [used EXCEPT ![i] = @ + 1]
    /\ UNCHANGED <<items, customer, worker, billed, failures, Overage>>

RollOverage(i) ==
    /\ rows[i].overage > 0
    /\ \E left \in {0, rows[i].overage - 1} : rows' = [rows EXCEPT ![i].overage = left]
    /\ UNCHANGED <<items, customer, worker, billed, used, failures, Overage>>

(* The worker reads the row with something to report ... *)
ListSubscriptionsForOverageReport(i) ==
    /\ i \in Active(rows) /\ rows[i].on /\ rows[i].linked # None
    /\ rows[i].overage > rows[i].reported

tick(i) ==
    /\ worker.pc = "idle"
    /\ ListSubscriptionsForOverageReport(i)
    /\ worker' = [pc |-> "report", row |-> i, base |-> rows[i].reported,
                  delta |-> rows[i].overage - rows[i].reported]
    /\ UNCHANGED <<rows, items, customer, billed, used, failures, Overage>>

(* ... reports the difference under a key of the row, what was reported and *)
(* the difference: a key Stripe has seen bills nothing again ...            *)
idempotencyKey == <<worker.row, worker.base, worker.delta>>

ReportOverage ==
    LET sent == [total |-> IF idempotencyKey \in billed.keys THEN billed.total
                           ELSE [billed.total EXCEPT ![worker.row] = @ + worker.delta],
                 keys |-> billed.keys \cup {idempotencyKey}]
    IN  /\ worker.pc = "report"
        /\ \/ billed' = sent /\ worker' = [worker EXCEPT !.pc = "advance"] /\ UNCHANGED failures
           \/ Fault /\ billed' \in {sent, billed} /\ worker' = Idle
        /\ UNCHANGED <<rows, items, customer, used, Overage>>

(* Seeded fault: what is reported is written down before Stripe is asked. *)
AdvanceFirst ==
    /\ worker.pc \in {"report", "advance"}
    /\ rows' = [rows EXCEPT ![worker.row].reported = worker.base + worker.delta]
    /\ worker' = IF worker.pc = "advance" THEN Idle ELSE worker
    /\ UNCHANGED <<items, customer, billed, used, failures, Overage>>

(* ... and adds it to what was reported. *)
AdvanceOverageReported ==
    /\ worker.pc = "advance"
    /\ \/ rows' = [rows EXCEPT ![worker.row].reported = @ + worker.delta] /\ UNCHANGED failures
       \/ (Fault \/ Stop) /\ UNCHANGED rows
    /\ worker' = Idle
    /\ UNCHANGED <<items, customer, billed, used, Overage>>

----------------------------------------------------------------------------
PlanNext(K) ==
    \/ \E k \in K : \/ \E p \in Plan : CreateCheckoutSession(k, p)
                    \/ PayCheckout(k)
                    \/ \E s \in StripeStatus : ChangeStatus(k, s)
    \/ \E h \in Handler :
          \/ \E e \in events : handleStripeWebhook(h, e)
          \/ onCheckoutCompleted(h) \/ SetSubscriptionStripeIDs(h) \/ onGiftCheckoutCompleted(h)
          \/ Handle(h) \/ SetSubscriptionStatus(h) \/ HandleFails(h)
          \/ UnmarkStripeEventProcessed(h) \/ HandlerStops(h)

GiftNext ==
    \/ \E g \in Gift : \/ \E p \in Plan : CreateGiftCheckoutSession(g, p)
                       \/ handleGiftRedeem(g) \/ handleAdminRefundCoupon(g) \/ giftRefundWindow(g)
    \/ RefundCheckoutPayment

OverageNext ==
    \/ \E i \in DOMAIN rows : \/ handleBillingOverageEnable(i) \/ handleBillingOverageDisable(i)
                              \/ UseOverage(i) \/ RollOverage(i) \/ tick(i)
    \/ OverageOn \/ ReportOverage \/ AdvanceOverageReported

BillNext == PlanNext(Checkout) \/ GiftNext \/ OverageNext

BillSpec == BillInit /\ [][BillNext]_billVars

----------------------------------------------------------------------------
(* Properties. *)

(* A checkout starts a fresh period at most once, and one row at most is    *)
(* linked to its subscription at Stripe, although its event may be handled  *)
(* by several requests, fail and come again.                                *)
CheckoutAppliedOnce ==
    \A k \in Checkout : assigned[k] <= 1 /\ Cardinality(GetSubscriptionByStripeID(k)) <= 1

(* The money for a gift card goes one way: a card whose payment Stripe has  *)
(* returned was never redeemed and never will be, and a card is redeemed    *)
(* once.                                                                    *)
GiftSpentOnce ==
    \A g \in Gift : /\ cards[g].redeemed <= 1
                    /\ cards[g].returned => cards[g].refunded
                    /\ cards[g].refunded => cards[g].redeemed = 0

(* Money is taken once: for a plan and for a gift card. *)
PaymentsOnce == CheckoutAppliedOnce /\ GiftSpentOnce

(* What a row says was reported Stripe has billed, whatever fails between   *)
(* the two.                                                                 *)
ReportedWasBilled == \A i \in DOMAIN rows : rows[i].reported <= billed.total[i]

=============================================================================
