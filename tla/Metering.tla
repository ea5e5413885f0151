------------------------------ MODULE Metering ------------------------------
(***************************************************************************)
(* How the gateway meters one customer: the middleware chain of a request  *)
(* (gateway/internal/api/middleware.go, proxy.go, mcp_charger.go), the     *)
(* token ledger (store/consume.go, quotamath.go, credits.go,               *)
(* subscriptions.go).  What may refuse a request before it is charged is   *)
(* modelled in Admission.                                                  *)
(*                                                                         *)
(* A database transaction is one step: ConsumeTokensV2 locks the           *)
(* subscription row.  The steps of different requests interleave, those of *)
(* a retry with the same Idempotency-Key too (the idempotency layer lets   *)
(* it in after a 5xx, when its lock lapsed and when Redis is down).        *)
(***************************************************************************)
EXTENDS Naturals, Sequences, FiniteSets, Functions

CONSTANTS
    MeterRequest,
    KeyOf,          \* request -> its Idempotency-Key, or the request id
    RouteOf,        \* request -> "read", "tx" (proxied), "native" or "mcp"
    MonthlyTokens,  \* the plan's allowance
    Prices,         \* what the replicas' copies of request_costs may say
    CreditAmount,   \* tokens of a granted credit
    PeriodLength, CreditLife,   \* durations in ticks
    MaxSub, MaxCredit, MaxTime, MaxSettings, MaxMeterFaults   \* bounds

ASSUME MeteringAssumption ==
    /\ {MonthlyTokens, CreditAmount, PeriodLength, CreditLife}
         \subseteq Nat \ {0}
    /\ Prices \subseteq Nat
    /\ {MaxSub, MaxCredit} \subseteq Nat /\ MaxSub > 0
    /\ \A r \in MeterRequest : RouteOf[r] = "mcp" =>
          \A q \in MeterRequest \ {r} : KeyOf[q] # KeyOf[r]

VARIABLES
    subs,       \* the subscription rows, the newest last
    credits,    \* the credit rows, in order of creation
    ledger,     \* operation -> breakdown of its 'charge' row
    refunds,    \* operations with a 'refund' row
    req,        \* request -> where it is, its subscription, what it consumed
    clock, settings, meterFaults

account == <<subs, credits>>
meterVars == <<subs, credits, ledger, refunds, req,
               clock, settings, meterFaults>>

Sub == 1..MaxSub
CreditId == 1..MaxCredit
Key == {KeyOf[r] : r \in MeterRequest}
Op == Sub \X Key

Smaller(a, b) == IF a < b THEN a ELSE b
Less(a, b) == IF a < b THEN 0 ELSE a - b     \* GREATEST(a - b, 0)
Total(f, S) == FoldFunctionOnSet(LAMBDA x, y : x + y, 0, f, S)

(* The answer of ConsumeTokensV2; "period" is the period end inside it.     *)
Nothing == [monthly |-> 0, overage |-> 0, debits |-> [c \in CreditId |-> 0], period |-> 0]
Paid(b) == b.monthly + b.overage + Total(b.debits, CreditId)
Charged(op) == ledger[op] # Nothing

----------------------------------------------------------------------------
(* Subscriptions and credits                                                *)

NewSub(end) ==
    [status |-> "active", used |-> 0, limit |-> MonthlyTokens, overUsed |-> 0,
     cap |-> 2 * MonthlyTokens, overage |-> FALSE, end |-> end]

rollPeriod(end) ==
    CHOOSE e \in (clock + 1)..(clock + PeriodLength) : (e - end) % PeriodLength = 0

(* Seeded fault: the rollover renews the allowance and not the counter. *)
RolledKeepingUsage(s) ==
    IF clock < s.end THEN s
    ELSE [s EXCEPT !.overUsed = 0, !.limit = MonthlyTokens,
                   !.cap = 2 * MonthlyTokens, !.end = rollPeriod(s.end)]

(* The row as the transaction sees it after its inline rollover. *)
Rolled(s) ==
    IF clock < s.end THEN s
    ELSE [s EXCEPT !.used = 0, !.overUsed = 0, !.limit = MonthlyTokens,
                   !.cap = 2 * MonthlyTokens, !.end = rollPeriod(s.end)]

Live(c) == ~credits[c].exhausted /\ credits[c].expires > clock
LiveCredits == {c \in DOMAIN credits : Live(c)}

(* ORDER BY expires_at, created_at *)
Before(c, d) ==
    \/ credits[c].expires < credits[d].expires
    \/ credits[c].expires = credits[d].expires /\ c < d

TakeFrom(c, cost) ==
    Smaller(credits[c].amount - credits[c].consumed,
            Less(cost, Total([d \in LiveCredits |-> credits[d].amount - credits[d].consumed],
                             {d \in LiveCredits : Before(d, c)})))

(* Credits first, then the monthly allowance, overage for the rest. *)
allocateConsumption(s, cost) ==
    LET debits == [c \in CreditId |-> IF c \in LiveCredits THEN TakeFrom(c, cost) ELSE 0]
        afterCredits == cost - Total(debits, CreditId)
        monthly == Smaller(Less(s.limit, s.used), afterCredits)
    IN  [monthly |-> monthly, overage |-> afterCredits - monthly,
         debits |-> debits, period |-> s.end]

(* Seeded fault: the cap is compared before what is asked is added. *)
CapReached(s, plan) ==
    /\ plan.overage > 0
    /\ ~s.overage \/ s.cap <= s.overUsed

QuotaExceeded(s, plan) ==
    /\ plan.overage > 0
    /\ ~s.overage \/ s.cap < s.overUsed + plan.overage

(* What a charge or a refund leaves of the credit rows. *)
CreditRows(consumed) ==
    [c \in DOMAIN credits |->
        [credits[c] EXCEPT !.consumed = consumed[c],
                           !.exhausted = IF consumed[c] >= credits[c].amount
                                         THEN @ \/ consumed[c] > credits[c].consumed ELSE FALSE]]

Debit(s, op, plan) ==
    LET row == Rolled(subs[s]) IN
    /\ subs' = [subs EXCEPT ![s] =
                   [row EXCEPT !.used = @ + plan.monthly, !.overUsed = @ + plan.overage]]
    /\ credits' = CreditRows([c \in DOMAIN credits |-> credits[c].consumed + plan.debits[c]])
    /\ ledger' = [ledger EXCEPT ![op] = plan]
    /\ UNCHANGED refunds

(* Seeded fault: a charge already in the ledger is debited again. *)
ConsumeAgain(s, op, cost) ==
    LET plan == allocateConsumption(Rolled(subs[s]), cost) IN
    /\ ~QuotaExceeded(Rolled(subs[s]), plan)
    /\ Debit(s, op, plan)

ConsumeTokensV2(s, op, cost) ==
    LET plan == allocateConsumption(Rolled(subs[s]), cost) IN
    /\ ~Charged(op)
    /\ ~QuotaExceeded(Rolled(subs[s]), plan)
    /\ Debit(s, op, plan)

(* Never more than the charge row holds; here the two agree. *)
clampRefundToCharge(op, b) ==
    [b EXCEPT !.monthly = Smaller(@, ledger[op].monthly),
              !.overage = Smaller(@, ledger[op].overage),
              !.debits = [c \in CreditId |-> Smaller(b.debits[c], ledger[op].debits[c])]]

GiveBack(s, op, b) ==
    LET r == clampRefundToCharge(op, b) IN
    /\ subs' = [subs EXCEPT ![s].used = Less(@, r.monthly), ![s].overUsed = Less(@, r.overage)]
    /\ credits' = CreditRows([c \in DOMAIN credits |-> Less(credits[c].consumed, r.debits[c])])
    /\ refunds' = refunds \cup {op}
    /\ UNCHANGED ledger

(* Seeded fault: a second refund of the operation is not noticed. *)
RefundEveryTime(s, op, b) == GiveBack(s, op, b)

RefundTokensV2(s, op, b) ==
    IF op \in refunds THEN UNCHANGED <<account, ledger, refunds>> ELSE GiveBack(s, op, b)

ActiveSubs == {s \in DOMAIN subs : subs[s].status = "active"}

(* At most one row is active: AssignPlan cancels the one before. *)
GetActiveSubscription == IF ActiveSubs = {} THEN 0 ELSE CHOOSE s \in ActiveSubs : TRUE

(* Seeded fault: the row before stays active. *)
AssignBeside ==
    /\ Len(subs) < MaxSub
    /\ subs' = Append(subs, NewSub(clock + PeriodLength))
    /\ UNCHANGED <<credits, ledger, refunds, req,
                   clock, settings, meterFaults>>

AssignPlan ==
    /\ Len(subs) < MaxSub
    /\ subs' = Append([s \in DOMAIN subs |-> [subs[s] EXCEPT !.status = "cancelled"]],
                      NewSub(clock + PeriodLength))
    /\ UNCHANGED <<credits, ledger, refunds, req,
                   clock, settings, meterFaults>>

(* The customer turns overage on or off or sets its cap; the cap may fall   *)
(* below what is used.                                                      *)
UpdateSubscription ==
    /\ settings < MaxSettings
    /\ settings' = settings + 1
    /\ \E s \in ActiveSubs, cap \in {1, 2 * MonthlyTokens} :
          subs' = [subs EXCEPT ![s].overage = ~@, ![s].cap = cap]
    /\ UNCHANGED <<credits, ledger, refunds, req,
                   clock, meterFaults>>

GrantCredit ==
    /\ Len(credits) < MaxCredit
    /\ \E life \in 1..CreditLife :
          credits' = Append(credits, [amount |-> CreditAmount, consumed |-> 0,
                                      expires |-> clock + life, exhausted |-> FALSE])
    /\ UNCHANGED <<subs, ledger, refunds, req,
                   clock, settings, meterFaults>>

----------------------------------------------------------------------------
(* One request                                                              *)

Finish(r, status) == req' = [req EXCEPT ![r].pc = "done", ![r].status = status]
GotoMeter(r, label) == req' = [req EXCEPT ![r].pc = label]

(* Seeded fault: the operation is named after the subscription alone. *)
opIDOfSubscription(r) == <<req[r].sub, CHOOSE k \in Key : TRUE>>

opID(r) == <<req[r].sub, KeyOf[r]>>

MeterFault == meterFaults < MaxMeterFaults /\ meterFaults' = meterFaults + 1

ledgerVars == <<subs, credits, ledger, refunds>>
outside == <<clock, settings>>

(* AuthenticateAPIKey reads the subscription active now; what follows uses  *)
(* this copy.                                                               *)
requireSubscription(r) ==
    /\ req[r].pc = "unsent"
    /\ IF GetActiveSubscription = 0 THEN Finish(r, 403)
       ELSE req' = [req EXCEPT ![r].pc = "admitted", ![r].sub = GetActiveSubscription]
    /\ UNCHANGED <<ledgerVars, outside, meterFaults>>

(* Every replica refreshes its copy of the prices on its own. *)
Cost == {IF p < 1 THEN 1 ELSE p : p \in Prices}

Consumed(r, b) == req' = [req EXCEPT ![r].pc = "charged", ![r].got = b]

(* The subscription may have been cancelled since the key was read (an      *)
(* error, answered 500); a replay debits nothing; the answer to a commit    *)
(* may be lost.                                                             *)
Metered(r) ==
    LET s == req[r].sub
        op == opID(r)
        row == Rolled(subs[s])
    IN
    /\ req[r].pc = "admitted"
    /\ \/ /\ subs[s].status # "active"
          /\ Finish(r, 500)
          /\ UNCHANGED <<ledgerVars, meterFaults>>
       \/ /\ subs[s].status = "active"
          /\ Charged(op)
          /\ Consumed(r, ledger[op])
          /\ UNCHANGED <<ledgerVars, meterFaults>>
       \/ /\ subs[s].status = "active"
          /\ ~Charged(op)
          /\ \E cost \in Cost : QuotaExceeded(row, allocateConsumption(row, cost))
          /\ Finish(r, 402)
          /\ UNCHANGED <<ledgerVars, meterFaults>>
       \/ /\ subs[s].status = "active"
          /\ \E cost \in Cost : ConsumeTokensV2(s, op, cost)
          /\ \/ /\ Consumed(r, ledger'[op])
                /\ UNCHANGED meterFaults
             \/ /\ MeterFault
                /\ Finish(r, 500)
       \/ /\ MeterFault
          /\ Finish(r, 500)
          /\ UNCHANGED ledgerVars
    /\ UNCHANGED outside

(* The middleware of a route, and the charger of an MCP tool, whose         *)
(* operation is a fresh identifier.                                         *)
chargeQuota(r) == RouteOf[r] # "mcp" /\ Metered(r)
Charge(r) == RouteOf[r] = "mcp" /\ Metered(r)

(* 499: the client hung up.  A read it hung up on before a byte was written *)
(* is refunded.                                                             *)
Refundable(r, status) == status >= 500 \/ (status = 499 /\ RouteOf[r] = "read")

proxyHandler(r, status) ==
    /\ req[r].pc = "charged"
    /\ RouteOf[r] \in {"read", "tx"}
    /\ IF Refundable(r, status)
       THEN req' = [req EXCEPT ![r].pc = "refund", ![r].status = status]
       ELSE Finish(r, status)
    /\ UNCHANGED <<ledgerVars, outside, meterFaults>>

refundOnError(r, status) ==
    /\ req[r].pc = "charged"
    /\ RouteOf[r] \in {"native", "mcp"}
    /\ status # 499
    /\ IF status >= 500
       THEN req' = [req EXCEPT ![r].pc = "refund", ![r].status = status]
       ELSE Finish(r, status)
    /\ UNCHANGED <<ledgerVars, outside, meterFaults>>

(* The refund runs on a context of its own; when it fails it is logged, and *)
(* the client has its answer either way.                                    *)
Refunded(r) ==
    /\ req[r].pc = "refund"
    /\ \/ /\ RefundTokensV2(req[r].sub, opID(r), req[r].got)
          /\ UNCHANGED meterFaults
       \/ /\ MeterFault
          /\ UNCHANGED ledgerVars
    /\ GotoMeter(r, "done")
    /\ UNCHANGED <<outside>>

refund(r) == RouteOf[r] # "mcp" /\ Refunded(r)
Refund(r) == RouteOf[r] = "mcp" /\ Refunded(r)

(* A replica stops between the charge and the answer. *)
Stop(r) ==
    /\ req[r].pc \in {"charged", "refund"}
    /\ MeterFault
    /\ GotoMeter(r, "lost")
    /\ UNCHANGED <<ledgerVars, outside>>

Tick ==
    /\ clock < MaxTime
    /\ clock' = clock + 1
    /\ UNCHANGED <<ledgerVars, settings, meterFaults,
                   req>>

MeterInit ==
    /\ subs = <<NewSub(PeriodLength)>>
    /\ credits = <<>>
    /\ ledger = [op \in Op |-> Nothing]
    /\ refunds = {}
    /\ req = [r \in MeterRequest |-> [pc |-> "unsent", sub |-> 0, got |-> Nothing,
                                 status |-> 0]]
    /\ clock = 0
    /\ settings = 0
    /\ meterFaults = 0

RequestStep(r) ==
    \/ requireSubscription(r)
    \/ chargeQuota(r) \/ Charge(r)
    \/ \E status \in {200, 499, 502} :
          proxyHandler(r, status) \/ refundOnError(r, status)
    \/ refund(r) \/ Refund(r)
    \/ Stop(r)

MeterNext ==
    \/ Tick
    \/ AssignPlan
    \/ UpdateSubscription
    \/ GrantCredit
    \/ \E r \in MeterRequest : RequestStep(r)

MeterSpec == MeterInit /\ [][MeterNext]_meterVars

----------------------------------------------------------------------------
MeterTypeOK ==
    /\ subs \in Seq([status : {"active", "cancelled"}, used : Nat, limit : Nat,
                     overUsed : Nat, cap : Nat, overage : BOOLEAN, end : Nat])
    /\ Len(subs) <= MaxSub
    /\ Cardinality(ActiveSubs) = 1
    /\ credits \in Seq([amount : Nat, consumed : Nat, expires : Nat, exhausted : BOOLEAN])
    /\ DOMAIN ledger = Op
    /\ refunds \subseteq Op

UnrefundedOps == {op \in Op : Charged(op) /\ op \notin refunds}

(* The credit rows agree with the ledger, whatever charges, replays, late   *)
(* refunds and restarts came in between: a credit has given exactly what    *)
(* the unrefunded charges took from it, and counts as exhausted exactly     *)
(* when nothing is left of it.                                              *)
CreditsMatchLedger ==
    \A c \in DOMAIN credits :
        /\ credits[c].consumed = Total([op \in Op |-> ledger[op].debits[c]], UnrefundedOps)
        /\ credits[c].consumed <= credits[c].amount
        /\ credits[c].exhausted <=> credits[c].consumed = credits[c].amount

(* The monthly counter of a subscription never exceeds the unrefunded       *)
(* charges of its present period, and falls short of them by no more than   *)
(* refunds of earlier periods, which are taken off whatever period is       *)
(* current when they come.                                                  *)
MonthlyMatchesLedger ==
    \A s \in DOMAIN subs :
        LET ops == {op \in Op : op[1] = s}
            monthly == [op \in Op |-> ledger[op].monthly]
            here == {op \in ops \cap UnrefundedOps : ledger[op].period = subs[s].end}
            late == {op \in ops \cap refunds : ledger[op].period < subs[s].end}
        IN  /\ subs[s].used <= Total(monthly, here)
            /\ Total(monthly, here) <= subs[s].used + Total(monthly, late)
            /\ subs[s].used <= subs[s].limit

(* Overage is billed money: it grows only when the credits and the monthly  *)
(* allowance are spent, the customer has it on, and never past the cap.     *)
OverageLast ==
    [][\A s \in DOMAIN subs :
          subs'[s].overUsed > (IF subs'[s].end = subs[s].end THEN subs[s].overUsed ELSE 0) =>
             /\ subs'[s].overage
             /\ subs'[s].overUsed <= subs'[s].cap
             /\ subs'[s].used >= subs'[s].limit
             /\ \A c \in DOMAIN credits : Live(c) => credits'[c].exhausted]_meterVars

(* Whoever was answered below 500 by a handler has been charged, and what   *)
(* was charged was given back only if another request of the same key       *)
(* failed.                                                                  *)
ServedWasCharged ==
    \A r \in MeterRequest :
        /\ req[r].pc = "done"
        /\ req[r].got # Nothing
        /\ req[r].status < 499
        => /\ Charged(opID(r))
           /\ opID(r) \in refunds =>
                 \E q \in MeterRequest \ {r} : KeyOf[q] = KeyOf[r] /\ Refundable(q, req[q].status)

(* The counters and the ledger tell the same story. *)
LedgerConsistent == MeterTypeOK /\ CreditsMatchLedger /\ MonthlyMatchesLedger /\ ServedWasCharged

(* The ledger implements the account of the abstract specification.  The    *)
(* balance counts a period that has ended as already rolled over, although  *)
(* the row is only rewritten by the next charge.                            *)
Available ==
    LET s == GetActiveSubscription
        row == Rolled(subs[s])
    IN  IF s = 0 THEN 0
        ELSE Total([c \in LiveCredits |-> credits[c].amount - credits[c].consumed], LiveCredits)
             + Less(row.limit, row.used)
             + (IF row.overage THEN Less(row.cap, row.overUsed) ELSE 0)

Account == INSTANCE TokenAccount WITH
    balance <- Available,
    paid <- [op \in Op |-> Paid(ledger[op])],
    given <- refunds,
    terms <- <<clock, settings, Len(subs), Len(credits)>>

MeteringImplementsAccount == Account!AccountSpec
=============================================================================
