----------------------------- MODULE FutureSign -----------------------------
(***************************************************************************)
(* The future-sign triggers of the gateway (gateway/internal/futuresign):  *)
(* a tenant arms a trigger, the polling loops of the leading replica claim *)
(* the armed triggers one by one, test the condition and have the Ika      *)
(* backend complete the signature.                                         *)
(*                                                                         *)
(* A statement on the trigger table is one action.  Between two of them a  *)
(* loop keeps what it read: the instant its tick began and the trigger it  *)
(* claimed.  Every replica that runs the worker of Leader runs the loops,  *)
(* so a leader that lost its session overlaps with its successor.          *)
(***************************************************************************)
EXTENDS Leader, FiniteSetsExt

CONSTANTS
    Trigger,         \* trigger ids, numbered in the order of created_at
    TriggerTypes,    \* the trigger types a run explores
    DueSlots,        \* slots a slot_time trigger may name
    Lifetimes,       \* expiresInSeconds values
    MaxTime,         \* bound: the clock stops here
    MaxRetryCount,   \* 10 in the code
    Polls,           \* answers of a tenant's callback
    Completions,     \* what a completion request may come to
    MaxStoreFaults   \* bound: failed statements

ASSUME TriggerAssumption == Trigger \subseteq Nat
ASSUME RetryAssumption == MaxRetryCount \in Nat \ {0}
ASSUME PollsAssumption == Polls \subseteq {"fire", "notYet", "error"}
ASSUME CompletionsAssumption == Completions \subseteq {"signed", "unread", "refused"}

VARIABLES
    trigger,       \* id -> row of future_sign_triggers
    loop,          \* <<replica, type>> -> polling loop
    clock,
    signatures,    \* history: completions the Ika network carried out
    storeFaults

triggerVars == <<trigger, loop, clock, signatures, storeFaults>>
allVars == <<leaderVars, triggerVars>>

(* Only these types have a loop; the others wait for their expiry. *)
Polled == {"slot_time", "external_webhook"}
Loops == Replica \X Polled

Unarmed == [status |-> "none"]
Idle == [pc |-> "idle"]
Terminal == {"fired", "expired", "cancelled", "failed"}

FutureSignInit ==
    /\ LeaderInit
    /\ trigger = [t \in Trigger |-> Unarmed]
    /\ loop = [l \in Loops |-> Idle]
    /\ clock = 0
    /\ signatures = [t \in Trigger |-> 0]
    /\ storeFaults = 0

Status(t) == trigger[t].status

----------------------------------------------------------------------------
(* The tenant's requests. *)

(* Create.  The slot of a slot_time trigger is positive. *)
handleCreate(t, type, due, ttl) ==
    /\ Status(t) = "none"
    /\ \A u \in Trigger : u < t => Status(u) # "none"
    /\ trigger' = [trigger EXCEPT ![t] = [status |-> "armed", type |-> type, due |-> due,
                                          expires |-> clock + ttl, failures |-> 0]]
    /\ UNCHANGED <<leaderVars, loop, clock, signatures, storeFaults>>

(* Seeded fault: any trigger can be cancelled. *)
Existing(t) == Status(t) # "none"

Cancellable(t) == Status(t) = "armed"

handleCancel(t) ==
    /\ Cancellable(t)
    /\ trigger' = [trigger EXCEPT ![t].status = "cancelled"]
    /\ UNCHANGED <<leaderVars, loop, clock, signatures, storeFaults>>

----------------------------------------------------------------------------
(* The polling loops.  A tick reads the clock once; without a slot provider *)
(* the current slot is a function of that reading.                          *)

SetLoop(l, rec) == loop' = [loop EXCEPT ![l] = rec]

tick(l) ==
    /\ worker[l[1]] = "running"
    /\ loop[l].pc = "idle"
    /\ SetLoop(l, [pc |-> "scan", now |-> clock])
    /\ UNCHANGED <<leaderVars, trigger, clock, signatures, storeFaults>>

(* Seeded fault: a trigger another loop is firing can be claimed too. *)
ClaimableUnended(type, now) ==
    {t \in Trigger : /\ Status(t) \in {"armed", "firing"}
                     /\ trigger[t].type = type
                     /\ trigger[t].expires > now}

Claimable(type, now) ==
    {t \in Trigger : /\ Status(t) = "armed"
                     /\ trigger[t].type = type
                     /\ trigger[t].expires > now}

ClaimDueArmed(l) ==
    /\ loop[l].pc = "scan"
    /\ LET due == Claimable(l[2], loop[l].now)
       IN  \/ /\ due = {}
              /\ SetLoop(l, Idle)
              /\ UNCHANGED trigger
           \/ /\ due # {}
              /\ trigger' = [trigger EXCEPT ![Min(due)].status = "firing"]
              /\ SetLoop(l, [pc |-> "claimed", now |-> loop[l].now, job |-> Min(due)])
    /\ UNCHANGED <<leaderVars, clock, signatures, storeFaults>>

(* Back to the scan of the same tick. *)
Rescan(l) == SetLoop(l, [pc |-> "scan", now |-> loop[l].now])

MarkArmedChecked(l) ==
    /\ trigger' = IF Status(loop[l].job) = "firing"
                  THEN [trigger EXCEPT ![loop[l].job].status = "armed"] ELSE trigger
    /\ Rescan(l)

(* Seeded faults: one failure too many; failures are not counted. *)
BreaksAbove(failures) == failures + 1 > MaxRetryCount

Breaks(failures) == failures + 1 >= MaxRetryCount

CountedNever(failures) == 0

Counted(failures) == failures + 1

MarkFailed(l) ==
    LET t == loop[l].job
    IN  /\ trigger' = IF Status(t) = "firing"
                      THEN [trigger EXCEPT
                              ![t].status = IF Breaks(trigger[t].failures) THEN "failed" ELSE "armed",
                              ![t].failures = Counted(@)]
                      ELSE trigger
        /\ Rescan(l)

(* tickSlotTime: the slot is compared with the tick's reading. *)
testSlot(l) ==
    /\ l[2] = "slot_time"
    /\ loop[l].pc = "claimed"
    /\ \/ /\ loop[l].now < trigger[loop[l].job].due
          /\ MarkArmedChecked(l)
       \/ /\ loop[l].now >= trigger[loop[l].job].due
          /\ SetLoop(l, [loop[l] EXCEPT !.pc = "fire"])
          /\ UNCHANGED trigger
    /\ UNCHANGED <<leaderVars, clock, signatures, storeFaults>>

(* tickExternalWebhook: a refused URL, an unreachable or failing callback   *)
(* or a bad answer is a failure; a redirect or shouldFire = false is not.   *)
pollExternalWebhook(l, answer) ==
    /\ l[2] = "external_webhook"
    /\ loop[l].pc = "claimed"
    /\ \/ answer = "error" /\ MarkFailed(l)
       \/ answer = "notYet" /\ MarkArmedChecked(l)
       \/ /\ answer = "fire"
          /\ SetLoop(l, [loop[l] EXCEPT !.pc = "fire"])
          /\ UNCHANGED trigger
    /\ UNCHANGED <<leaderVars, clock, signatures, storeFaults>>

(* fire: the Ika backend is asked to complete.  "unread": the signature was *)
(* made and the answer was late, lost or without a signatureHex.            *)
CompleteFutureSign(l) ==
    /\ loop[l].pc = "fire"
    /\ \E c \in Completions :
          /\ signatures' = IF c = "refused" THEN signatures
                           ELSE [signatures EXCEPT ![loop[l].job] = @ + 1]
          /\ SetLoop(l, [loop[l] EXCEPT !.pc = IF c = "signed" THEN "signed" ELSE "error"])
    /\ UNCHANGED <<leaderVars, trigger, clock, storeFaults>>

fireFailed(l) ==
    /\ loop[l].pc = "error"
    /\ MarkFailed(l)
    /\ UNCHANGED <<leaderVars, clock, signatures, storeFaults>>

MarkFired(l) ==
    /\ loop[l].pc = "signed"
    /\ trigger' = IF Status(loop[l].job) \in {"armed", "firing"}
                  THEN [trigger EXCEPT ![loop[l].job].status = "fired"] ELSE trigger
    /\ Rescan(l)
    /\ UNCHANGED <<leaderVars, clock, signatures, storeFaults>>

(* The statement that should record the outcome fails: logged, and the loop *)
(* goes on.  A failed claim ends the tick.                                  *)
StoreFails(l) ==
    /\ storeFaults < MaxStoreFaults
    /\ storeFaults' = storeFaults + 1
    /\ \/ loop[l].pc = "scan" /\ SetLoop(l, Idle)
       \/ loop[l].pc \in {"claimed", "error", "signed"} /\ Rescan(l)
    /\ UNCHANGED <<leaderVars, trigger, clock, signatures>>

LoopStep(l) ==
    \/ tick(l) \/ ClaimDueArmed(l) \/ testSlot(l)
    \/ \E answer \in Polls : pollExternalWebhook(l, answer)
    \/ CompleteFutureSign(l) \/ fireFailed(l) \/ MarkFired(l)

----------------------------------------------------------------------------
(* runExpiryLoop: one statement over the whole table. *)
ExpireOverdue(r) ==
    /\ worker[r] = "running"
    /\ \E t \in Trigger : Status(t) = "armed" /\ trigger[t].expires <= clock
    /\ trigger' = [t \in Trigger |->
          IF Status(t) = "armed" /\ trigger[t].expires <= clock
          THEN [trigger[t] EXCEPT !.status = "expired"] ELSE trigger[t]]
    /\ UNCHANGED <<leaderVars, loop, clock, signatures, storeFaults>>

Tick ==
    /\ clock < MaxTime
    /\ clock' = clock + 1
    /\ UNCHANGED <<leaderVars, trigger, loop, signatures, storeFaults>>

(* A stopped process takes its loops with it; the rows it claimed stay as   *)
(* they are.                                                                *)
StopReplica(r) ==
    /\ Stop(r)
    /\ loop' = [l \in Loops |-> IF l[1] = r THEN Idle ELSE loop[l]]
    /\ UNCHANGED <<trigger, clock, signatures, storeFaults>>

ReplicaStep(r) ==
    \/ (ElectionStep(r) \/ Restart(r)) /\ UNCHANGED triggerVars
    \/ StopReplica(r)
    \/ ExpireOverdue(r)

FutureSignNext ==
    \/ \E t \in Trigger, type \in TriggerTypes, due \in DueSlots, ttl \in Lifetimes :
          handleCreate(t, type, due, ttl)
    \/ \E t \in Trigger : handleCancel(t)
    \/ \E l \in Loops : LoopStep(l) \/ StoreFails(l)
    \/ \E r \in Replica : ReplicaStep(r)
    \/ Tick

FutureSignSpec == FutureSignInit /\ [][FutureSignNext]_allVars

(* The goroutines of a running process and the clock make progress.  The    *)
(* expiry loop meets a trigger between two claims now and then, and a       *)
(* tenant's callback that is asked again and again decides.                 *)
CallbackDecides(t) ==
    \E l \in Loops, answer \in Polls \ {"notYet"} :
        loop[l].pc = "claimed" /\ loop[l].job = t /\ pollExternalWebhook(l, answer)

FutureSignFairness ==
    /\ \A l \in Loops : WF_allVars(LoopStep(l))
    /\ \A t \in Trigger : SF_allVars(CallbackDecides(t))
    /\ \A r \in Replica : /\ WF_allVars(runOnce(r) /\ UNCHANGED triggerVars)
                          /\ WF_allVars(Restart(r) /\ UNCHANGED triggerVars)
    /\ SF_allVars(\E r \in Replica : ExpireOverdue(r))
    /\ WF_allVars(Tick)

FairFutureSignSpec == FutureSignSpec /\ FutureSignFairness

----------------------------------------------------------------------------
(* Properties. *)

Holds(l, t) == loop[l].pc \in {"claimed", "fire", "signed", "error"} /\ loop[l].job = t

(* A claimed trigger is in the hands of one loop, of whichever replica, and *)
(* its row says so: no other loop, cancellation or expiry touches it.       *)
ClaimIsExclusive ==
    \A l \in Loops, t \in Trigger : Holds(l, t) =>
        /\ Status(t) = "firing"
        /\ \A m \in Loops : Holds(m, t) => m = l

(* The row tells the truth: a fired trigger was signed, a failed one used   *)
(* up its retries, and one that may still be tried has some left.           *)
OutcomeBacked ==
    \A t \in Trigger :
        /\ Status(t) = "fired" => signatures[t] > 0
        /\ Status(t) = "failed" => trigger[t].failures = MaxRetryCount
        /\ Status(t) \in {"armed", "firing"} => trigger[t].failures < MaxRetryCount

(* Nothing brings an ended trigger back, although several loops, the expiry *)
(* loop and the tenant write to the same row.                               *)
EndedStaysEnded ==
    [][\A t \in Trigger : Status(t) \in Terminal => trigger'[t] = trigger[t]]_allVars

(* Every completion but the last is on record as a failure, so the circuit  *)
(* breaker bounds how often a signature whose answer is not read is made.   *)
CompletionsAccounted ==
    \A t \in Trigger : Status(t) # "none" =>
        signatures[t] <= trigger[t].failures + (IF Status(t) \in {"firing", "fired"} THEN 1 ELSE 0)

Stranded(t) == Status(t) = "firing" /\ \A l \in Loops : ~Holds(l, t)

(* Every trigger with a callback has come to an end, unless a stopped       *)
(* process or a failed statement has left it in "firing".                   *)
PolledTriggersEnded ==
    \A t \in Trigger :
        (Status(t) # "none" /\ trigger[t].type = "external_webhook")
            => Status(t) \in Terminal \/ Stranded(t)

(* What the row of a trigger says is so, although several loops, the expiry *)
(* loop and the tenant write to it: who holds it, how it ended and how many *)
(* completions it may have cost.                                            *)
TriggerRowsTrue == ClaimIsExclusive /\ OutcomeBacked /\ CompletionsAccounted

=============================================================================
