--------------------------- MODULE PriceTriggers ---------------------------
(***************************************************************************)
(* The price triggers of the gateway (gateway/internal/oraclemonitor): a   *)
(* trigger waits for a price inside its band; watchers read the prices,    *)
(* claim the triggers that are due and fire them; a loop expires the ones  *)
(* that wait too long and gives up on those a watcher left behind.         *)
(*                                                                         *)
(* All triggers name one feed and one band and belong to one key.  A       *)
(* watcher runs on the leader; more than one runs while a leader that has  *)
(* lost its lock goes on.                                                  *)
(***************************************************************************)
EXTENDS Naturals, FiniteSets

CONSTANTS
    Watcher, Creator,
    PriceValue,           \* canonical prices of the feed
    Min1e8, Max1e8, HysteresisBps, BasisPoints,
    MaxTriggerRetries, MaxArmedPerTenant,
    TriggerTTL, StuckFiringTimeout, MaxPublishLag,
    MaxTriggers, MaxTriggerTime, MaxMonitorFaults   \* bounds

(* MaxRetryCount of the monitor is 10. *)
ASSUME TriggerRetriesAssumption == MaxTriggerRetries \in Nat \ {0}

VARIABLES
    triggerClock,
    hermes,       \* what Hermes answers: price and publish time
    triggers,     \* sequence number -> row
    creator,      \* requests that arm a trigger
    watcher,      \* watcher -> where its tick stands
    fires,        \* history: trigger -> calls of the firer
    monitorFaults

priceTriggerVars == <<triggerClock, hermes, triggers, creator, watcher, fires, monitorFaults>>

PriceTrigger == 1..MaxTriggers
ExistingTrigger == DOMAIN triggers
Waiting(t) == triggers[t].status = "armed"
Ended == {"fired", "expired", "cancelled", "failed"}

Resting == [pc |-> "idle"]

TriggerInit ==
    /\ triggerClock = 1
    /\ hermes = [price |-> 0, publish |-> 0]
    /\ triggers = [t \in {} |-> 0]
    /\ creator = [c \in Creator |-> "idle"]
    /\ watcher = [w \in Watcher |-> Resting]
    /\ fires = [t \in PriceTrigger |-> 0]
    /\ monitorFaults = 0

(* The clock leaves time to give up what a fault has left behind. *)
MonitorFault ==
    /\ monitorFaults < MaxMonitorFaults /\ triggerClock + StuckFiringTimeout + 1 < MaxTriggerTime
    /\ monitorFaults' = monitorFaults + 1

SetTrigger(t, row) == triggers' = [triggers EXCEPT ![t] = row]
Step(w, to) == watcher' = [watcher EXCEPT ![w] = to]

----------------------------------------------------------------------------
(* Arming: the count and the insert see different states. *)

CountArmed(c) ==
    /\ creator[c] = "idle"
    /\ Cardinality({t \in ExistingTrigger : Waiting(t)}) < MaxArmedPerTenant
    /\ creator' = [creator EXCEPT ![c] = "insert"]
    /\ UNCHANGED <<triggerClock, hermes, triggers, watcher, fires, monitorFaults>>

Create(c) ==
    LET new == Cardinality(ExistingTrigger) + 1 IN
    /\ creator[c] = "insert"
    /\ new \in PriceTrigger
    /\ triggers' = [t \in ExistingTrigger \cup {new} |->
                      IF t \in ExistingTrigger THEN triggers[t]
                      ELSE [status |-> "armed", expires |-> triggerClock + TriggerTTL,
                            checked |-> 0, price |-> 0, failures |-> 0]]
    /\ triggerClock + TriggerTTL <= MaxTriggerTime   \* bound: it can expire
    /\ creator' = [creator EXCEPT ![c] = "idle"]
    /\ UNCHANGED <<triggerClock, hermes, watcher, fires, monitorFaults>>

Cancel(t) ==
    /\ Waiting(t)
    /\ SetTrigger(t, [triggers[t] EXCEPT !.status = "cancelled"])
    /\ UNCHANGED <<triggerClock, hermes, creator, watcher, fires, monitorFaults>>

----------------------------------------------------------------------------
(* A tick of a watcher: the waiting triggers, the prices, then trigger by   *)
(* trigger.                                                                 *)

ListActiveArmed == {t \in ExistingTrigger : Waiting(t) /\ triggers[t].expires > triggerClock}

tickOnce(w) ==
    /\ watcher[w].pc = "idle"
    /\ ListActiveArmed # {}
    /\ Step(w, [pc |-> "prices", list |-> ListActiveArmed])
    /\ UNCHANGED <<triggerClock, hermes, triggers, creator, fires, monitorFaults>>

(* An old price is left out of the answer; without a price the tick ends. *)
parseLatest == MaxPublishLag > 0 => triggerClock - hermes.publish <= MaxPublishLag

LatestPrices(w) ==
    /\ watcher[w].pc = "prices"
    /\ \/ /\ Step(w, IF parseLatest THEN [pc |-> "next", list |-> watcher[w].list, price |-> hermes.price]
                     ELSE Resting)
          /\ UNCHANGED monitorFaults
       \/ MonitorFault /\ Step(w, Resting)
    /\ UNCHANGED <<triggerClock, hermes, triggers, creator, fires>>

(* The band, made narrower by the hysteresis unless nothing would be left. *)
inBand(price) ==
    LET effMin == Min1e8 + (Min1e8 \div BasisPoints) * HysteresisBps
        effMax == Max1e8 - (Max1e8 \div BasisPoints) * HysteresisBps
    IN  IF HysteresisBps = 0 \/ effMin > effMax THEN price \in Min1e8..Max1e8
        ELSE price \in effMin..effMax

Oldest(list) == CHOOSE t \in list : \A u \in list : t <= u

After(w, t) ==
    LET rest == watcher[w].list \ {t}
    IN  IF rest = {} THEN Resting ELSE [watcher[w] EXCEPT !.pc = "next", !.list = rest]

RecordCheck(w) ==
    LET t == Oldest(watcher[w].list)
        price == watcher[w].price
    IN  /\ watcher[w].pc = "next"
        /\ ~inBand(price)
        /\ \/ /\ triggers' = IF Waiting(t) /\ triggers[t].price # price
                             THEN [triggers EXCEPT ![t].checked = triggerClock, ![t].price = price] ELSE triggers
              /\ UNCHANGED monitorFaults
           \/ MonitorFault /\ UNCHANGED triggers
        /\ Step(w, After(w, t))
        /\ UNCHANGED <<triggerClock, hermes, creator, fires>>

(* Seeded fault: the trigger is claimed in whatever state it is. *)
ClaimListed(t) == TRUE

Claimed(t) == Waiting(t)

ClaimByID(w) ==
    LET t == Oldest(watcher[w].list) IN
    /\ watcher[w].pc = "next"
    /\ inBand(watcher[w].price)
    /\ \/ /\ Claimed(t)
          /\ SetTrigger(t, [triggers[t] EXCEPT !.status = "firing", !.checked = triggerClock,
                                               !.price = watcher[w].price])
          /\ Step(w, [watcher[w] EXCEPT !.pc = "fire"])
          /\ UNCHANGED monitorFaults
       \/ ~Claimed(t) /\ Step(w, After(w, t)) /\ UNCHANGED <<triggers, monitorFaults>>
       \/ MonitorFault /\ Step(w, After(w, t)) /\ UNCHANGED triggers
    /\ UNCHANGED <<triggerClock, hermes, creator, fires>>

(* Signing without the owner is switched off: the firer refuses. *)
FireRequestSignature == "refused"

MarkTriggerFired(row) == [row EXCEPT !.status = "fired"]

MarkTriggerFailed(row) ==
    [row EXCEPT !.status = IF row.failures + 1 >= MaxTriggerRetries THEN "failed" ELSE "armed",
                !.failures = @ + 1]

(* The call and its mark, which needs the trigger to be still firing. *)
fire(w) ==
    LET t == Oldest(watcher[w].list)
        row == triggers[t]
    IN  /\ watcher[w].pc = "fire"
        /\ fires' = [fires EXCEPT ![t] = @ + 1]
        /\ \/ /\ SetTrigger(t, IF row.status # "firing" THEN row
                               ELSE IF FireRequestSignature = "landed" THEN MarkTriggerFired(row)
                               ELSE MarkTriggerFailed(row))
              /\ UNCHANGED monitorFaults
           \/ MonitorFault /\ UNCHANGED triggers
        /\ Step(w, After(w, t))
        /\ UNCHANGED <<triggerClock, hermes, creator>>

WatcherStops(w) ==
    /\ watcher[w].pc # "idle"
    /\ MonitorFault
    /\ Step(w, Resting)
    /\ UNCHANGED <<triggerClock, hermes, triggers, creator, fires>>

----------------------------------------------------------------------------
(* The loop that ends triggers. *)

ExpireOverdueTriggers ==
    LET overdue == {t \in ExistingTrigger : Waiting(t) /\ triggers[t].expires <= triggerClock} IN
    /\ overdue # {}
    /\ triggers' = [t \in ExistingTrigger |->
                      IF t \in overdue THEN [triggers[t] EXCEPT !.status = "expired"] ELSE triggers[t]]
    /\ UNCHANGED <<triggerClock, hermes, creator, watcher, fires, monitorFaults>>

StuckFiring(t) == triggers[t].status = "firing" /\ triggers[t].checked + StuckFiringTimeout < triggerClock

(* Seeded fault: a trigger that was left behind waits again. *)
ReapRearms(t) == [triggers[t] EXCEPT !.status = "armed"]

Reaped(t) == [triggers[t] EXCEPT !.status = "failed"]

(* A trigger whose watcher was interrupted is given up, not armed again:    *)
(* it may have been fired.                                                  *)
ReapStuckFiring ==
    LET stuck == {t \in ExistingTrigger : StuckFiring(t)} IN
    /\ stuck # {}
    /\ triggers' = [t \in ExistingTrigger |-> IF t \in stuck THEN Reaped(t) ELSE triggers[t]]
    /\ UNCHANGED <<triggerClock, hermes, creator, watcher, fires, monitorFaults>>

----------------------------------------------------------------------------
TriggerTick ==
    /\ triggerClock < MaxTriggerTime
    /\ triggerClock' = triggerClock + 1
    /\ UNCHANGED <<hermes, triggers, creator, watcher, fires, monitorFaults>>

HermesPublishes(p) ==
    /\ hermes.publish < triggerClock
    /\ hermes' = [price |-> p, publish |-> triggerClock]
    /\ UNCHANGED <<triggerClock, triggers, creator, watcher, fires, monitorFaults>>

TriggerNext ==
    \/ TriggerTick \/ ExpireOverdueTriggers \/ ReapStuckFiring
    \/ \E p \in PriceValue : HermesPublishes(p)
    \/ \E c \in Creator : CountArmed(c) \/ Create(c)
    \/ \E t \in ExistingTrigger : Cancel(t)
    \/ \E w \in Watcher : \/ tickOnce(w) \/ LatestPrices(w) \/ RecordCheck(w) \/ ClaimByID(w)
                          \/ fire(w) \/ WatcherStops(w)

(* The loop runs on a ticker and time passes.  A watcher that has begun a   *)
(* tick goes on with it, since every call has a timeout, or stops; nothing  *)
(* makes it begin one.                                                      *)
WatcherGoesOn(w) == LatestPrices(w) \/ RecordCheck(w) \/ ClaimByID(w) \/ fire(w)

TriggerFairness ==
    /\ WF_priceTriggerVars(TriggerTick) /\ WF_priceTriggerVars(ExpireOverdueTriggers) /\ WF_priceTriggerVars(ReapStuckFiring)
    /\ \A w \in Watcher : WF_priceTriggerVars(WatcherGoesOn(w))

TriggerSpec == TriggerInit /\ [][TriggerNext]_priceTriggerVars /\ TriggerFairness

----------------------------------------------------------------------------
(* Properties. *)

(* "concurrent workers ... never double-fire": at most one watcher is       *)
(* between the claim of a trigger and its mark, and a trigger is fired no   *)
(* more often than the circuit breaker allows, although watchers read the   *)
(* list before others cancel, expire, claim or reap, and may stop half way. *)
FiringExclusive ==
    /\ \A v \in Watcher, w \in Watcher :
          v # w /\ watcher[v].pc = "fire" /\ watcher[w].pc = "fire"
             => Oldest(watcher[v].list) # Oldest(watcher[w].list)
    /\ \A t \in PriceTrigger : fires[t] <= MaxTriggerRetries

(* Every trigger has come to an end. *)
TriggersEnded == \A t \in ExistingTrigger : triggers[t].status \in Ended

=============================================================================
