------------------------------ MODULE Notices ------------------------------
(***************************************************************************)
(* Scheduled prices and the notices about them, and the alerts about a     *)
(* customer's quota (backend/internal/pricing, backend/internal/           *)
(* notifications, the pricing_history and notification_thresholds tables). *)
(* The workers run on the elected replica; each may stop half way and be   *)
(* started again.                                                          *)
(*                                                                         *)
(* There is one price and one subscription.  Days stand for time, levels   *)
(* for the four thresholds of a quota.                                     *)
(***************************************************************************)
EXTENDS Naturals, Sequences, FiniteSets

CONSTANTS
    User,         \* customers with an active subscription on the plan, or not
    Value,        \* prices
    Notice,       \* MinPricingNoticeWindow
    Level,        \* thresholds, as numbers 1, 2, ...
    MaxDay,       \* bound: days
    MaxScheduled, \* bound: changes scheduled
    MaxMail,      \* bound: mails of one notice to one customer
    MaxTrouble    \* bound: failed statements and stopped workers

VARIABLES
    day,
    price,      \* the live value
    changes,    \* pricing_history
    writes,     \* history: change -> how often it was written to the live value
    applier,    \* what the applier has listed and not yet applied
    onPlan,     \* customers on the plan
    notifier,   \* the notice being sent: change and customers left
    mailed,     \* history: change -> customer -> mails tried
    owed,       \* history: change -> customers listed for it
    quota,      \* the subscription: period and level reached
    fired,      \* notification_thresholds
    watcher,    \* the row the quota worker has read, and the alert it owes
    alerts,     \* history: <<period, level>> -> alerts tried
    trouble

noticeVars == <<day, price, changes, writes, applier, onPlan, notifier, mailed, owed, quota, fired,
                watcher, alerts, trouble>>

Prices == <<price, changes, writes, applier>>
Mails == <<onPlan, notifier, mailed, owed>>
Alerts == <<quota, fired, watcher, alerts>>

NoticeInit ==
    /\ day = 0
    /\ price \in Value
    /\ changes = << >> /\ writes = << >> /\ applier = << >>
    /\ onPlan = User
    /\ notifier = [id |-> 0, left |-> {}]
    /\ mailed = << >> /\ owed = << >>
    /\ quota = [period |-> 0, level |-> 0]
    /\ fired = {}
    /\ watcher = [pc |-> "idle"]
    /\ alerts = [a \in (0..1) \X Level |-> 0]
    /\ trouble = 0

Trouble == trouble < MaxTrouble /\ trouble' = trouble + 1

Pending(id) == changes[id].status = "pending"

----------------------------------------------------------------------------
(* Prices. *)

CreatePricingChange(v, effective) ==
    /\ Len(changes) < MaxScheduled
    /\ effective >= day + Notice
    /\ changes' = Append(changes, [new |-> v, old |-> price, effective |-> effective,
                                   status |-> "pending", notified |-> FALSE])
    /\ writes' = Append(writes, 0)
    /\ mailed' = Append(mailed, [u \in User |-> 0])
    /\ owed' = Append(owed, {})
    /\ UNCHANGED <<day, price, applier, onPlan, notifier, trouble, Alerts>>

CancelPricingChange(id) ==
    /\ Pending(id)
    /\ changes' = [changes EXCEPT ![id].status = "cancelled"]
    /\ UNCHANGED <<day, price, writes, applier, trouble, Mails, Alerts>>

(* An administrator sets the price at once. *)
UpdatePlan(v) ==
    /\ v # price
    /\ price' = v
    /\ UNCHANGED <<day, changes, writes, applier, trouble, Mails, Alerts>>

(* The applier lists what is due, the earliest first ... *)
Earlier(a, b) == \/ changes[a].effective < changes[b].effective
                 \/ changes[a].effective = changes[b].effective /\ a < b

Due == {id \in DOMAIN changes : Pending(id) /\ changes[id].effective <= day}

ApplyPendingPricingChanges ==
    /\ applier = << >>
    /\ Due # {}
    /\ \E s \in [1..Cardinality(Due) -> Due] :
          /\ \A i \in DOMAIN s, j \in DOMAIN s : i < j => Earlier(s[i], s[j])
          /\ applier' = s
    /\ UNCHANGED <<day, price, changes, writes, trouble, Mails, Alerts>>

(* Seeded fault: the row is marked as applied whatever has become of it. *)
PendingWhenListed(id) == TRUE

StillPending(id) == Pending(id)

(* ... and writes each in a transaction of its own, which is rolled back if *)
(* the change is no longer pending.                                         *)
applyOnePricingChange ==
    LET id == Head(applier) IN
    /\ applier # << >>
    /\ applier' = Tail(applier)
    /\ \/ /\ StillPending(id)
          /\ price' = changes[id].new
          /\ changes' = [changes EXCEPT ![id].status = IF @ = "pending" THEN "applied" ELSE @]
          /\ writes' = [writes EXCEPT ![id] = @ + 1]
          /\ UNCHANGED trouble
       \/ ~StillPending(id) /\ UNCHANGED <<price, changes, writes, trouble>>
       \/ Trouble /\ UNCHANGED <<price, changes, writes>>
    /\ UNCHANGED <<day, Mails, Alerts>>

ApplierStops ==
    /\ applier # << >>
    /\ Trouble
    /\ applier' = << >>
    /\ UNCHANGED <<day, price, changes, writes, Mails, Alerts>>

----------------------------------------------------------------------------
(* Notices: one mail to every customer on the plan, then the mark. *)

ListUsersOnPlan == onPlan

dispatchPlanChange(id) ==
    /\ notifier.id = 0
    /\ Pending(id) /\ ~changes[id].notified
    /\ notifier' = [id |-> id, left |-> ListUsersOnPlan]
    /\ owed' = [owed EXCEPT ![id] = ListUsersOnPlan]
    /\ UNCHANGED <<day, onPlan, mailed, trouble, Prices, Alerts>>

(* A mail that fails is only missed in the log. *)
Send(u) ==
    /\ u \in notifier.left
    /\ mailed[notifier.id][u] < MaxMail
    /\ mailed' = [mailed EXCEPT ![notifier.id][u] = @ + 1]
    /\ notifier' = [notifier EXCEPT !.left = @ \ {u}]
    /\ UNCHANGED <<day, onPlan, owed, trouble, Prices, Alerts>>

(* Seeded fault: the notice is marked as sent when its mails begin. *)
MarkWhenListed(id) == TRUE

MarkWhenSent(id) == notifier.left = {}

MarkPricingChangeNotified ==
    /\ notifier.id # 0 /\ MarkWhenSent(notifier.id)
    /\ \/ changes' = [changes EXCEPT ![notifier.id].notified = TRUE] /\ UNCHANGED trouble
       \/ Trouble /\ UNCHANGED changes
    /\ notifier' = [id |-> 0, left |-> {}]
    /\ UNCHANGED <<day, price, writes, applier, onPlan, mailed, owed, Alerts>>

NotifierStops ==
    /\ notifier.id # 0
    /\ Trouble
    /\ notifier' = [id |-> 0, left |-> {}]
    /\ UNCHANGED <<day, onPlan, mailed, owed, Prices, Alerts>>

LeavePlan(u) ==
    /\ onPlan' = onPlan \ {u} /\ onPlan' # onPlan
    /\ UNCHANGED <<day, notifier, mailed, owed, trouble, Prices, Alerts>>

----------------------------------------------------------------------------
(* Quota alerts: the mark comes first, then the mail. *)

Spend(l) ==
    /\ l > quota.level
    /\ quota' = [quota EXCEPT !.level = l]
    /\ UNCHANGED <<day, fired, watcher, alerts, trouble, Prices, Mails>>

NextPeriod ==
    /\ quota.period = 0
    /\ quota' = [period |-> 1, level |-> 0]
    /\ UNCHANGED <<day, fired, watcher, alerts, trouble, Prices, Mails>>

ListActiveSubscriptionsForNotifications ==
    /\ watcher.pc = "idle"
    /\ quota.level > 0
    /\ watcher' = [pc |-> "mark", seen |-> quota, at |-> 1]
    /\ UNCHANGED <<day, quota, fired, alerts, trouble, Prices, Mails>>

NextThreshold ==
    IF watcher.at < watcher.seen.level THEN [watcher EXCEPT !.pc = "mark", !.at = @ + 1]
    ELSE [pc |-> "idle"]

(* Seeded fault: a threshold that is on record fires again. *)
MarkAgain(p, l) == TRUE

MarkThresholdNotified(p, l) == <<p, l>> \notin fired

processSubscription ==
    LET p == watcher.seen.period
        l == watcher.at
    IN  /\ watcher.pc = "mark"
        /\ \/ /\ MarkThresholdNotified(p, l)
              /\ fired' = fired \cup {<<p, l>>}
              /\ watcher' = [watcher EXCEPT !.pc = "alert"]
              /\ UNCHANGED trouble
           \/ <<p, l>> \in fired /\ watcher' = NextThreshold /\ UNCHANGED <<fired, trouble>>
           \/ Trouble /\ watcher' = NextThreshold /\ UNCHANGED fired
        /\ UNCHANGED <<day, quota, alerts, Prices, Mails>>

dispatch ==
    /\ watcher.pc = "alert"
    /\ alerts' = [alerts EXCEPT ![<<watcher.seen.period, watcher.at>>] = @ + 1]
    /\ watcher' = NextThreshold
    /\ UNCHANGED <<day, quota, fired, trouble, Prices, Mails>>

WatcherStops ==
    /\ watcher.pc # "idle"
    /\ Trouble
    /\ watcher' = [pc |-> "idle"]
    /\ UNCHANGED <<day, quota, fired, alerts, Prices, Mails>>

----------------------------------------------------------------------------
NextDay == day < MaxDay /\ day' = day + 1 /\ UNCHANGED <<trouble, Prices, Mails, Alerts>>

Create == \E v \in Value, e \in 0..MaxDay : CreatePricingChange(v, e)
Cancel == \E id \in DOMAIN changes : CancelPricingChange(id)

PriceNext ==
    \/ NextDay \/ Create \/ Cancel
    \/ \E v \in Value : UpdatePlan(v)
    \/ ApplyPendingPricingChanges \/ applyOnePricingChange \/ ApplierStops

MailNext ==
    \/ \E id \in DOMAIN changes : dispatchPlanChange(id)
    \/ \E u \in User : Send(u) \/ LeavePlan(u)
    \/ MarkPricingChangeNotified \/ NotifierStops

AlertNext ==
    \/ \E l \in Level : Spend(l)
    \/ NextPeriod \/ ListActiveSubscriptionsForNotifications \/ processSubscription \/ dispatch
    \/ WatcherStops

NoticeNext == PriceNext \/ MailNext \/ AlertNext

NoticeSpec == NoticeInit /\ [][NoticeNext]_noticeVars

----------------------------------------------------------------------------
(* Properties. *)

(* A change cancelled between the applier's list and its transaction does   *)
(* not touch the live price, and no change is written twice.                *)
CancelledNeverApplied ==
    \A id \in DOMAIN changes : /\ writes[id] <= 1
                               /\ (writes[id] = 1) = (changes[id].status = "applied")

(* A change marked as notified was mailed to every customer that was on the *)
(* plan when the notice began, although the worker may stop between mails.  *)
NoticeReachedEveryone ==
    \A id \in DOMAIN changes :
       changes[id].notified => \A u \in owed[id] : mailed[id][u] > 0

(* An alert goes out at most once for a threshold in a period, and only for *)
(* a threshold on record.                                                   *)
AlertedOnce ==
    \A a \in DOMAIN alerts : alerts[a] <= 1 /\ (alerts[a] = 1 => a \in fired)

(* A change that was called off is not made, and customers are told what    *)
(* they were promised to be told.                                           *)
NoticesKept == CancelledNeverApplied /\ NoticeReachedEveryone /\ AlertedOnce

=============================================================================
