--------------------------- MODULE Workers_proofs ---------------------------
(***************************************************************************)
(* Proofs about the gateway's background workers, for every number of      *)
(* processes, rows and faults and every retry limit: leader election,      *)
(* future-sign triggers, price triggers, the oracle relay, the audit log   *)
(* and the webhook dispatcher.                                             *)
(***************************************************************************)
EXTENDS MCWorkers, FiniteSetTheorems, TLAPS

----------------------------------------------------------------------------
(* The oldest row of a set. *)

(* A set of row numbers that is not empty has a least one: what ORDER BY    *)
(* created_at LIMIT 1 returns exists.                                       *)
LEMMA LeastNatural ==
    ASSUME NEW S, S \subseteq Nat, S # {}
    PROVE  \E x \in S : \A y \in S : x <= y
  <1> DEFINE R == OpToRel(<, Nat)
  <1>1. IsWellFoundedOn(R, Nat)
    BY NatLessThanWellFounded
  <1>2. \A x, y \in Nat : y < x => <<y, x>> \in R
    BY DEF OpToRel
  <1> HIDE DEF R
  <1>3. PICK x \in S : \A y \in S : ~ (<<y, x>> \in R)
    BY <1>1, WFMin
  <1>4. ASSUME NEW y \in S PROVE x <= y
    <2>1. x \in Nat /\ y \in Nat
      OBVIOUS
    <2>2. ~ (y < x)
      BY <1>2, <1>3, <2>1, Zenon
    <2> QED
      BY <2>1, <2>2
  <1> QED
    BY <1>4

(* The row ClaimDueArmed takes is one of those it may take. *)
LEMMA MinIsMember ==
    ASSUME NEW type, NEW at, Claimable(type, at) # {}
    PROVE  Min(Claimable(type, at)) \in Claimable(type, at)
  <1>1. Claimable(type, at) \subseteq Nat
    BY TriggerAssumption DEF Claimable
  <1> QED
    BY <1>1, LeastNatural DEF Min

(* So is the one a watcher goes on with. *)
LEMMA OldestIsMember ==
    ASSUME NEW S, S \subseteq Nat, S # {} PROVE Oldest(S) \in S
  BY LeastNatural DEF Oldest

----------------------------------------------------------------------------
(* Leader election (runOnce, heartbeat, Start). *)

(* A replica has a session only while its worker runs, and the lock is with *)
(* the one whose session is up.                                             *)
ElectionInv ==
    /\ candidates \in [Candidate -> {"waiting", "running", "stopped"}]
    /\ connection \in [Candidate -> {"none", "up", "lost"}]
    /\ \A r \in Candidate : holder = r <=> (candidates[r] = "running" /\ connection[r] = "up")
    /\ \A r \in Candidate : connection[r] = "none" <=> candidates[r] # "running"

LEMMA ElectionInvInit ==
    ASSUME Election!LeaderInit PROVE ElectionInv
  BY CandidateAssumption DEF Election!LeaderInit, ElectionInv

LEMMA ElectionInvStep ==
    ASSUME ElectionInv, Election!LeaderNext \/ UNCHANGED electionVars
    PROVE  ElectionInv'
  <1>1. ASSUME NEW r \in Candidate, Election!runOnce(r) PROVE ElectionInv'
    BY <1>1, CandidateAssumption DEF ElectionInv, Election!runOnce
  <1>2. ASSUME NEW r \in Candidate, Election!FuncReturns(r) PROVE ElectionInv'
    BY <1>2, CandidateAssumption DEF ElectionInv, Election!FuncReturns, Election!UnlockedBy
  <1>3. ASSUME NEW r \in Candidate, Election!LoseSession(r) PROVE ElectionInv'
    BY <1>3, CandidateAssumption DEF ElectionInv, Election!LoseSession
  <1>4. ASSUME NEW r \in Candidate, Election!HeartbeatFails(r) PROVE ElectionInv'
    BY <1>4 DEF ElectionInv, Election!HeartbeatFails
  <1>5. ASSUME NEW r \in Candidate, Election!Stop(r) PROVE ElectionInv'
    BY <1>5, CandidateAssumption DEF ElectionInv, Election!Stop
  <1>6. ASSUME NEW r \in Candidate, Election!Restart(r) PROVE ElectionInv'
    BY <1>6 DEF ElectionInv, Election!Restart
  <1>7. CASE UNCHANGED electionVars
    BY <1>7 DEF ElectionInv, electionVars
  <1> QED
    BY <1>1, <1>2, <1>3, <1>4, <1>5, <1>6, <1>7 DEF Election!LeaderNext, Election!ElectionStep

(* The advisory lock is held exactly by the replica that runs the worker    *)
(* over a live session, for every number of replicas and of lost sessions   *)
(* (runOnce, heartbeat).                                                    *)
THEOREM ElectionIsGuarded == WorkersSpec => []ElectionGuarded
  <1>1. WorkersInit => ElectionInv
    BY ElectionInvInit DEF WorkersInit
  <1>2. ElectionInv /\ [WorkersNext]_workerVars => ElectionInv'
    <2> SUFFICES ASSUME ElectionInv, [WorkersNext]_workerVars PROVE ElectionInv'
      OBVIOUS
    <2>1. Election!LeaderNext \/ UNCHANGED electionVars
      BY DEF WorkersNext, Others, workerVars
    <2> QED
      BY <2>1, ElectionInvStep
  <1>3. ElectionInv => ElectionGuarded
    BY DEF ElectionInv, ElectionGuarded, Election!LockGuardsWorker
  <1> QED
    BY <1>1, <1>2, <1>3, PTL DEF WorkersSpec

----------------------------------------------------------------------------
(* Future-sign triggers (futuresign/store.go, watcher.go). *)

TriggerRow(r) ==
    \/ r = Unarmed
    \/ /\ r = [status |-> r.status, type |-> r.type, due |-> r.due, expires |-> r.expires,
               failures |-> r.failures]
       /\ r.status \in {"armed", "firing"} \cup Terminal
       /\ r.failures \in Nat

LoopRecord(r) ==
    \/ r = Idle
    \/ r = [pc |-> "scan", now |-> r.now]
    \/ /\ r = [pc |-> r.pc, now |-> r.now, job |-> r.job]
       /\ r.pc \in {"claimed", "fire", "signed", "error"}
       /\ r.job \in Trigger

FutureSignTypeOK ==
    /\ DOMAIN trigger = Trigger /\ \A t \in Trigger : TriggerRow(trigger[t])
    /\ DOMAIN loop = Loops /\ \A l \in Loops : LoopRecord(loop[l])
    /\ signatures \in [Trigger -> Nat]

(* A completion is on record as a failure before the trigger can be claimed *)
(* again: a loop that has yet to ask for one holds a row with no completion *)
(* off the record, and one that was answered holds a row that has some.     *)
CompletionsCounted ==
    /\ \A t \in Trigger :
          /\ Status(t) = "none" => signatures[t] = 0
          /\ Status(t) \in {"armed", "expired", "cancelled", "failed"}
                => signatures[t] <= trigger[t].failures
          /\ Status(t) \in {"firing", "fired"} => signatures[t] <= trigger[t].failures + 1
    /\ \A l \in Loops :
          /\ loop[l].pc \in {"claimed", "fire"}
                => signatures[loop[l].job] <= trigger[loop[l].job].failures
          /\ loop[l].pc = "signed" => signatures[loop[l].job] > 0

FutureSignInv == FutureSignTypeOK /\ ClaimIsExclusive /\ OutcomeBacked /\ CompletionsCounted

LEMMA FutureSignInvInit == FutureSignInit => FutureSignInv
  BY RetryAssumption DEF FutureSignInit, FutureSignInv, FutureSignTypeOK, TriggerRow, LoopRecord,
     Unarmed, Idle, ClaimIsExclusive, Holds, OutcomeBacked, CompletionsCounted, Status

(* A failure of a held trigger: the row is armed again or broken, and the   *)
(* loop lets go of it (MarkFailed).                                         *)
LEMMA MarkFailedKeeps ==
    ASSUME FutureSignInv, NEW l \in Loops,
           loop[l].pc \in {"claimed", "fire", "signed", "error"},
           MarkFailed(l), UNCHANGED signatures
    PROVE  FutureSignInv'
  <1>1. PICK t : t = loop[l].job
    OBVIOUS
  <1>2. t \in Trigger /\ Status(t) = "firing" /\ Holds(l, t)
    BY <1>1 DEF FutureSignInv, FutureSignTypeOK, LoopRecord, Idle, ClaimIsExclusive, Holds
  <1>3. PICK r : r = trigger[t]
    OBVIOUS
  <1>4. /\ r = [status |-> r.status, type |-> r.type, due |-> r.due, expires |-> r.expires,
                failures |-> r.failures]
        /\ r.failures \in Nat /\ r.status = "firing"
        /\ signatures[t] \in Nat /\ signatures[t] <= r.failures + 1
    BY <1>2, <1>3
    DEF FutureSignInv, FutureSignTypeOK, TriggerRow, Unarmed, CompletionsCounted, Status
  <1>5. PICK n \in Nat, s \in {"failed", "armed"} :
            /\ n = r.failures + 1
            /\ trigger' = [trigger EXCEPT ![t].status = s, ![t].failures = n]
            /\ s = "failed" <=> n >= MaxRetryCount
    <2>1. PICK n \in Nat, s \in {"failed", "armed"} :
              n = r.failures + 1 /\ s = IF n >= MaxRetryCount THEN "failed" ELSE "armed"
      BY <1>4
    <2>2. trigger' = [trigger EXCEPT ![t].status = IF Breaks(trigger[t].failures) THEN "failed" ELSE "armed",
                                     ![t].failures = Counted(@)]
      BY <1>1, <1>2 DEF MarkFailed
    <2>3. Breaks(trigger[t].failures) <=> n >= MaxRetryCount
      BY <1>3, <2>1 DEF Breaks
    <2>4. Counted(trigger[t].failures) = n
      BY <1>3, <2>1 DEF Counted
    <2>5. (IF Breaks(trigger[t].failures) THEN "failed" ELSE "armed") = s
      BY <2>1, <2>3
    <2>6. trigger' = [trigger EXCEPT ![t].status = s, ![t].failures = n]
      BY <2>2, <2>4, <2>5, Zenon
    <2> QED
      BY <2>1, <2>6
  <1>6. PICK m : m = [r EXCEPT !.status = s, !.failures = n]
    OBVIOUS
  <1>7. /\ m = [status |-> s, type |-> r.type, due |-> r.due, expires |-> r.expires,
                failures |-> n]
        /\ m.status = s /\ m.failures = n
    BY <1>4, <1>6
  <1>8. /\ DOMAIN trigger' = Trigger /\ trigger'[t] = m
        /\ \A o \in Trigger : o # t => trigger'[o] = trigger[o]
    BY <1>2, <1>3, <1>5, <1>6 DEF FutureSignInv, FutureSignTypeOK
  <1>9. /\ DOMAIN loop' = Loops /\ loop'[l] = [pc |-> "scan", now |-> loop[l].now]
        /\ \A k \in Loops : k # l => loop'[k] = loop[k]
    BY DEF MarkFailed, Rescan, SetLoop, FutureSignInv, FutureSignTypeOK
  <1>10. PICK q : q = [pc |-> "scan", now |-> loop[l].now]
    OBVIOUS
  <1>11. q.pc = "scan" /\ q = [pc |-> "scan", now |-> q.now]
    BY <1>10
  <1>12. \A k \in Loops : Holds(k, t) => k = l
    BY <1>2 DEF FutureSignInv, ClaimIsExclusive
  <1>13. FutureSignTypeOK'
    <2>1. TriggerRow(m)
      BY <1>5, <1>7 DEF TriggerRow, Terminal
    <2>2. LoopRecord(q)
      BY <1>11 DEF LoopRecord
    <2>3. \A o \in Trigger : TriggerRow(trigger'[o])
      BY <1>8, <2>1 DEF FutureSignInv, FutureSignTypeOK
    <2>4. \A k \in Loops : LoopRecord(loop'[k])
      BY <1>9, <1>10, <2>2 DEF FutureSignInv, FutureSignTypeOK
    <2> QED
      BY <1>8, <1>9, <2>3, <2>4 DEF FutureSignInv, FutureSignTypeOK, TriggerRow, LoopRecord
  <1>14. ClaimIsExclusive'
    BY <1>5, <1>7, <1>8, <1>9, <1>10, <1>11, <1>12
    DEF FutureSignInv, ClaimIsExclusive, Holds, Status
  <1>15. OutcomeBacked'
    <2>1. r.failures < MaxRetryCount /\ MaxRetryCount \in Nat
      BY <1>2, <1>3, RetryAssumption DEF FutureSignInv, OutcomeBacked
    <2>2. m.status = "failed" => m.failures = MaxRetryCount
      BY <1>4, <1>5, <1>7, <2>1
    <2>3. m.status = "armed" => m.failures < MaxRetryCount
      BY <1>4, <1>5, <1>7, <2>1
    <2>4. m.status \in {"failed", "armed"}
      BY <1>7
    <2>5. UNCHANGED signatures
      OBVIOUS
    <2> QED
      BY <1>8, <2>2, <2>3, <2>4, <2>5 DEF FutureSignInv, OutcomeBacked, Status
  <1>16. CompletionsCounted'
    <2>1. ASSUME NEW o \in Trigger
          PROVE  /\ Status(o)' = "none" => signatures[o] = 0
                 /\ Status(o)' \in {"armed", "expired", "cancelled", "failed"}
                       => signatures[o] <= trigger'[o].failures
                 /\ Status(o)' \in {"firing", "fired"} => signatures[o] <= trigger'[o].failures + 1
      <3>1. CASE o = t
        BY <1>4, <1>5, <1>7, <1>8, <3>1 DEF Status
      <3>2. CASE o # t
        BY <1>8, <3>2 DEF FutureSignInv, CompletionsCounted, Status
      <3> QED
        BY <3>1, <3>2
    <2>2. ASSUME NEW k \in Loops
          PROVE  /\ loop'[k].pc \in {"claimed", "fire"}
                       => signatures[loop'[k].job] <= trigger'[loop'[k].job].failures
                 /\ loop'[k].pc = "signed" => signatures[loop'[k].job] > 0
      <3>1. CASE k = l
        BY <1>9, <1>10, <1>11, <3>1
      <3>2. CASE k # l
        <4>1. loop'[k] = loop[k] /\ ~Holds(k, t)
          BY <1>9, <1>12, <3>2
        <4>2. loop[k].pc \in {"claimed", "fire"} => loop[k].job \in Trigger /\ loop[k].job # t
          BY <4>1 DEF FutureSignInv, FutureSignTypeOK, LoopRecord, Idle, Holds
        <4> QED
          BY <1>8, <4>1, <4>2 DEF FutureSignInv, CompletionsCounted
      <3> QED
        BY <3>1, <3>2
    <2> QED
      BY <1>8, <2>1, <2>2 DEF CompletionsCounted
  <1> QED
    BY <1>13, <1>14, <1>15, <1>16 DEF FutureSignInv

LEMMA FutureSignInvStep ==
    ASSUME FutureSignInv, [FutureSignNext]_allVars PROVE FutureSignInv'
  <1> USE RetryAssumption
      DEF FutureSignInv, FutureSignTypeOK, TriggerRow, LoopRecord, Unarmed, Idle, Terminal,
          ClaimIsExclusive, Holds, OutcomeBacked, CompletionsCounted, Status
  <1>1. ASSUME NEW t \in Trigger, NEW type, NEW due, NEW ttl, handleCreate(t, type, due, ttl)
        PROVE  FutureSignInv'
    BY <1>1 DEF handleCreate
  <1>2. ASSUME NEW t \in Trigger, handleCancel(t) PROVE FutureSignInv'
    BY <1>2 DEF handleCancel, Cancellable
  <1>3. ASSUME NEW l \in Loops, tick(l) PROVE FutureSignInv'
    BY <1>3 DEF tick, SetLoop
  <1>4. ASSUME NEW l \in Loops, ClaimDueArmed(l) PROVE FutureSignInv'
    <2> DEFINE due == Claimable(l[2], loop[l].now)
    <2>1. CASE due = {}
      BY <1>4, <2>1 DEF ClaimDueArmed, SetLoop
    <2>2. CASE due # {}
      <3>1. Min(due) \in due
        BY <2>2, MinIsMember
      <3>2. PICK t \in Trigger :
               /\ Status(t) = "armed"
               /\ trigger' = [trigger EXCEPT ![t].status = "firing"]
               /\ loop' = [loop EXCEPT ![l] = [pc |-> "claimed", now |-> loop[l].now, job |-> t]]
        BY <1>4, <2>2, <3>1 DEF ClaimDueArmed, SetLoop, Claimable
      <3>3. UNCHANGED signatures
        BY <1>4 DEF ClaimDueArmed
      <3>4. \A m \in Loops : ~ Holds(m, t)
        BY <3>2
      <3>5. FutureSignTypeOK'
        BY <3>2, <3>3
      <3>6. ClaimIsExclusive'
        BY <3>2, <3>4
      <3>7. OutcomeBacked'
        BY <3>2, <3>3
      <3>8. CompletionsCounted'
        BY <3>2, <3>3, <3>4
      <3> QED
        BY <3>5, <3>6, <3>7, <3>8
    <2> QED
      BY <2>1, <2>2
  <1>5. ASSUME NEW l \in Loops, testSlot(l) PROVE FutureSignInv'
    BY SMTT(40), <1>5 DEF testSlot, SetLoop, MarkArmedChecked, Rescan
  <1>6. ASSUME NEW l \in Loops, NEW answer, pollExternalWebhook(l, answer) PROVE FutureSignInv'
    <2>1. CASE answer = "error"
      BY <1>6, <2>1, MarkFailedKeeps DEF pollExternalWebhook
    <2>2. CASE answer # "error"
      BY <1>6, <2>2 DEF pollExternalWebhook, SetLoop, MarkArmedChecked, Rescan
    <2> QED
      BY <2>1, <2>2
  <1>7. ASSUME NEW l \in Loops, CompleteFutureSign(l) PROVE FutureSignInv'
    BY <1>7, CompletionsAssumption DEF CompleteFutureSign, SetLoop
  <1>8. ASSUME NEW l \in Loops, fireFailed(l) PROVE FutureSignInv'
    BY <1>8, MarkFailedKeeps DEF fireFailed
  <1>9. ASSUME NEW l \in Loops, MarkFired(l) PROVE FutureSignInv'
    BY SMTT(40), <1>9 DEF MarkFired, SetLoop, Rescan
  <1>10. ASSUME NEW l \in Loops, StoreFails(l) PROVE FutureSignInv'
    BY <1>10 DEF StoreFails, SetLoop, Rescan
  <1>11. ASSUME NEW r \in Replica, ExpireOverdue(r) PROVE FutureSignInv'
    BY <1>11 DEF ExpireOverdue
  <1>12. ASSUME NEW r \in Replica, StopReplica(r) PROVE FutureSignInv'
    BY <1>12 DEF StopReplica
  <1>13. CASE UNCHANGED triggerVars
    BY <1>13 DEF triggerVars
  <1>14. CASE Tick
    BY <1>14 DEF Tick
  <1>15. CASE UNCHANGED allVars
    BY <1>13, <1>15 DEF allVars
  <1> HIDE DEF FutureSignInv
  <1> QED
    BY <1>1, <1>2, <1>3, <1>4, <1>5, <1>6, <1>7, <1>8, <1>9, <1>10, <1>11, <1>12, <1>13, <1>14, <1>15
       DEF FutureSignNext, LoopStep, ReplicaStep

(* The row of a trigger tells the truth in every behaviour: who holds it,   *)
(* how it ended and how many completions it has cost (ClaimDueArmed,        *)
(* MarkFired, MarkFailed, MarkArmedChecked, ExpireOverdue).                 *)
THEOREM TriggerRowsAreTrue == FutureSignSpec => []TriggerRowsTrue
  <1>1. FutureSignInv => TriggerRowsTrue
    BY DEF FutureSignInv, FutureSignTypeOK, TriggerRow, TriggerRowsTrue, CompletionsCounted,
           CompletionsAccounted, Status, Unarmed, Terminal
  <1> QED
    BY <1>1, FutureSignInvInit, FutureSignInvStep, PTL DEF FutureSignSpec

(* An ended trigger's row is not written again: a loop writes only to the   *)
(* row it holds, which is in "firing" (ClaimIsExclusive), and every other   *)
(* statement asks for an armed one.                                         *)
LEMMA EndedStaysEndedStep ==
    ASSUME FutureSignInv, [FutureSignNext]_allVars, NEW t \in Trigger, Status(t) \in Terminal
    PROVE  trigger'[t] = trigger[t]
  <1> USE DEF FutureSignInv, FutureSignTypeOK, TriggerRow, LoopRecord, Unarmed, Idle, Terminal,
          ClaimIsExclusive, Holds, Status
  <1>1. ASSUME NEW u \in Trigger, NEW type, NEW due, NEW ttl, handleCreate(u, type, due, ttl)
        PROVE  trigger'[t] = trigger[t]
    BY <1>1 DEF handleCreate
  <1>2. ASSUME NEW u \in Trigger, handleCancel(u) PROVE trigger'[t] = trigger[t]
    BY <1>2 DEF handleCancel, Cancellable
  <1>3. ASSUME NEW l \in Loops, ClaimDueArmed(l) PROVE trigger'[t] = trigger[t]
    <2> DEFINE due == Claimable(l[2], loop[l].now)
    <2>1. due # {} => Min(due) \in due
      BY MinIsMember
    <2> QED
      <3>1. \/ UNCHANGED trigger
            \/ \E u \in due : trigger' = [trigger EXCEPT ![u].status = "firing"]
        BY <1>3, <2>1 DEF ClaimDueArmed
      <3> QED
        BY <3>1 DEF Claimable
  <1>4. ASSUME NEW l \in Loops, testSlot(l) PROVE trigger'[t] = trigger[t]
    BY <1>4 DEF testSlot, MarkArmedChecked
  <1>5. ASSUME NEW l \in Loops, NEW answer, pollExternalWebhook(l, answer)
        PROVE  trigger'[t] = trigger[t]
    BY <1>5 DEF pollExternalWebhook, MarkArmedChecked, MarkFailed
  <1>6. ASSUME NEW l \in Loops, fireFailed(l) PROVE trigger'[t] = trigger[t]
    BY <1>6 DEF fireFailed, MarkFailed
  <1>7. ASSUME NEW l \in Loops, MarkFired(l) PROVE trigger'[t] = trigger[t]
    BY <1>7 DEF MarkFired
  <1>8. ASSUME NEW r \in Replica, ExpireOverdue(r) PROVE trigger'[t] = trigger[t]
    BY <1>8 DEF ExpireOverdue
  <1>9. CASE UNCHANGED trigger
    BY <1>9
  <1> QED
    BY <1>1, <1>2, <1>3, <1>4, <1>5, <1>6, <1>7, <1>8, <1>9
       DEF FutureSignNext, LoopStep, ReplicaStep, tick, CompleteFutureSign, StoreFails, StopReplica,
           Tick, triggerVars, allVars

(* Nothing brings an ended trigger back: the retries of a loop, the expiry  *)
(* loop and the tenant's requests write to the same rows (store.go).        *)
THEOREM EndedTriggersStayEnded == FutureSignSpec => EndedStaysEnded
  <1>1. FutureSignInv /\ [FutureSignNext]_allVars
        => [\A t \in Trigger : Status(t) \in Terminal => trigger'[t] = trigger[t]]_allVars
    BY EndedStaysEndedStep
  <1> QED
    BY <1>1, FutureSignInvInit, FutureSignInvStep, PTL DEF FutureSignSpec, EndedStaysEnded

----------------------------------------------------------------------------
(* Price triggers (oraclemonitor/store.go, watcher.go). *)

PriceRow(r) ==
    /\ r = [status |-> r.status, expires |-> r.expires, checked |-> r.checked, price |-> r.price,
            failures |-> r.failures]
    /\ r.status \in {"armed", "firing"} \cup Ended
    /\ r.failures \in Nat

WatcherRecord(r) ==
    \/ r = Resting
    \/ /\ \/ r = [pc |-> "prices", list |-> r.list]
          \/ /\ r = [pc |-> r.pc, list |-> r.list, price |-> r.price]
             /\ r.pc \in {"next", "fire"}
       /\ r.list \subseteq ExistingTrigger
       /\ r.list # {}

PriceTriggersTypeOK ==
    /\ ExistingTrigger \subseteq PriceTrigger
    /\ \A t \in ExistingTrigger : PriceRow(triggers[t])
    /\ DOMAIN watcher = Watcher /\ \A w \in Watcher : WatcherRecord(watcher[w])
    /\ fires \in [PriceTrigger -> Nat]

(* Two watchers are not about to fire the same trigger. *)
OneWatcherFires ==
    \A v \in Watcher, w \in Watcher :
        v # w /\ watcher[v].pc = "fire" /\ watcher[w].pc = "fire"
            => Oldest(watcher[v].list) # Oldest(watcher[w].list)

(* A watcher about to fire has claimed the trigger, which may have been     *)
(* given up since, but never waits again; all earlier calls of the firer    *)
(* are on record as failures.                                               *)
FiringIsClaimed ==
    \A w \in Watcher : watcher[w].pc = "fire" =>
        LET t == Oldest(watcher[w].list)
        IN  /\ triggers[t].status \in {"firing", "failed"}
            /\ fires[t] <= triggers[t].failures
            /\ triggers[t].failures < MaxTriggerRetries

(* A trigger that waits has every call on record, and retries left. *)
FiresCounted ==
    /\ \A t \in PriceTrigger : fires[t] <= MaxTriggerRetries
    /\ \A t \in PriceTrigger \ ExistingTrigger : fires[t] = 0
    /\ \A t \in ExistingTrigger :
          /\ triggers[t].status = "armed" => fires[t] <= triggers[t].failures
          /\ triggers[t].status \in {"armed", "firing"} => triggers[t].failures < MaxTriggerRetries

PriceTriggersInv == PriceTriggersTypeOK /\ OneWatcherFires /\ FiringIsClaimed /\ FiresCounted

LEMMA PriceTriggersInvInit == TriggerInit => PriceTriggersInv
  BY TriggerRetriesAssumption
     DEF TriggerInit, PriceTriggersInv, PriceTriggersTypeOK, OneWatcherFires, FiringIsClaimed,
         FiresCounted, ExistingTrigger, WatcherRecord, Resting

(* The trigger a watcher goes on with is one of its list. *)
LEMMA CurrentTrigger ==
    ASSUME PriceTriggersTypeOK, NEW w \in Watcher, watcher[w].pc \in {"next", "fire"}
    PROVE  /\ Oldest(watcher[w].list) \in ExistingTrigger
           /\ WatcherRecord(After(w, Oldest(watcher[w].list)))
           /\ After(w, Oldest(watcher[w].list)).pc # "fire"
           /\ PriceRow(triggers[Oldest(watcher[w].list)])
  <1>1. watcher[w].list \subseteq ExistingTrigger /\ watcher[w].list # {}
    BY DEF PriceTriggersTypeOK, WatcherRecord, Resting
  <1>2. ExistingTrigger \subseteq Nat
    BY DEF PriceTriggersTypeOK, PriceTrigger
  <1>3. Oldest(watcher[w].list) \in watcher[w].list
    BY <1>1, <1>2, OldestIsMember
  <1>4. PriceRow(triggers[Oldest(watcher[w].list)])
    BY <1>1, <1>3 DEF PriceTriggersTypeOK
  <1> DEFINE rest == watcher[w].list \ {Oldest(watcher[w].list)}
             rec == [pc |-> "next", list |-> rest, price |-> watcher[w].price]
  <1>5. watcher[w] = [pc |-> watcher[w].pc, list |-> watcher[w].list, price |-> watcher[w].price]
    BY DEF PriceTriggersTypeOK, WatcherRecord, Resting
  <1>6. After(w, Oldest(watcher[w].list)) = IF rest = {} THEN Resting ELSE rec
    <2> DEFINE moved == [pc |-> "next", list |-> watcher[w].list, price |-> watcher[w].price]
    <2>1. [watcher[w] EXCEPT !.pc = "next"] = moved
      BY <1>5
    <2>2. [moved EXCEPT !.list = rest] = rec
      OBVIOUS
    <2>3. [watcher[w] EXCEPT !.pc = "next", !.list = rest]
             = [[watcher[w] EXCEPT !.pc = "next"] EXCEPT !.list = rest]
      BY <1>5
    <2> QED
      BY <2>1, <2>2, <2>3 DEF After
  <1>7. rest # {} => WatcherRecord(rec)
    BY <1>1 DEF WatcherRecord
  <1>8. WatcherRecord(Resting) /\ Resting.pc # "fire" /\ rec.pc # "fire"
    BY DEF WatcherRecord, Resting
  <1> QED
    BY <1>1, <1>3, <1>4, <1>6, <1>7, <1>8

(* A step that moves watchers only to places where they fire nothing, and   *)
(* leaves the rows alone (tickOnce, LatestPrices, WatcherStops).            *)
LEMMA WatcherMoveKeeps ==
    ASSUME PriceTriggersInv, NEW w \in Watcher, NEW to, WatcherRecord(to), to.pc # "fire",
           watcher' = [watcher EXCEPT ![w] = to], UNCHANGED <<triggers, fires>>
    PROVE  PriceTriggersInv'
  BY DEF PriceTriggersInv, PriceTriggersTypeOK, OneWatcherFires, FiringIsClaimed, FiresCounted,
         ExistingTrigger, WatcherRecord, Resting, PriceRow

LEMMA NewStatus ==
    ASSUME NEW r, PriceRow(r), NEW status \in {"armed", "firing"} \cup Ended
    PROVE  /\ PriceRow([r EXCEPT !.status = status])
           /\ [r EXCEPT !.status = status].status = status
           /\ [r EXCEPT !.status = status].failures = r.failures
  BY DEF PriceRow

(* A step that changes rows without a watcher (Cancel, expiry, reaping). *)
LEMMA RowsMoveKeeps ==
    ASSUME PriceTriggersInv, UNCHANGED <<watcher, fires>>, DOMAIN triggers' = ExistingTrigger,
           \A t \in ExistingTrigger :
              \/ triggers'[t] = triggers[t]
              \/ Waiting(t) /\ triggers'[t] = [triggers[t] EXCEPT !.status = "cancelled"]
              \/ Waiting(t) /\ triggers'[t] = [triggers[t] EXCEPT !.status = "expired"]
              \/ triggers[t].status = "firing" /\ triggers'[t] = [triggers[t] EXCEPT !.status = "failed"]
    PROVE  PriceTriggersInv'
  <1>1. \A t \in ExistingTrigger :
           /\ PriceRow(triggers'[t])
           /\ triggers'[t].failures = triggers[t].failures
           /\ \/ triggers'[t].status = triggers[t].status
              \/ triggers[t].status = "armed" /\ triggers'[t].status \in {"cancelled", "expired"}
              \/ triggers[t].status = "firing" /\ triggers'[t].status = "failed"
    <2> SUFFICES ASSUME NEW t \in ExistingTrigger
                 PROVE  /\ PriceRow(triggers'[t])
                        /\ triggers'[t].failures = triggers[t].failures
                        /\ \/ triggers'[t].status = triggers[t].status
                           \/ triggers[t].status = "armed" /\ triggers'[t].status \in {"cancelled", "expired"}
                           \/ triggers[t].status = "firing" /\ triggers'[t].status = "failed"
      OBVIOUS
    <2>1. PriceRow(triggers[t])
      BY DEF PriceTriggersInv, PriceTriggersTypeOK
    <2>2. ASSUME NEW st \in {"cancelled", "expired", "failed"},
                 triggers'[t] = [triggers[t] EXCEPT !.status = st]
          PROVE  /\ PriceRow(triggers'[t])
                 /\ triggers'[t].failures = triggers[t].failures
                 /\ triggers'[t].status = st
      <3>1. st \in {"armed", "firing"} \cup Ended
        BY DEF Ended
      <3> QED
        BY <2>1, <2>2, <3>1, NewStatus
    <2> QED
      BY <2>1, <2>2 DEF Waiting
  <1>2. \A w \in Watcher : watcher[w].pc = "fire" => Oldest(watcher[w].list) \in ExistingTrigger
    BY CurrentTrigger DEF PriceTriggersInv
  <1>3. PriceTriggersTypeOK'
    <2>1. ExistingTrigger' = ExistingTrigger
      BY DEF ExistingTrigger
    <2>2. (\A w \in Watcher : WatcherRecord(watcher[w]))'
      BY <2>1 DEF PriceTriggersInv, PriceTriggersTypeOK, WatcherRecord
    <2>3. (\A t \in ExistingTrigger : PriceRow(triggers[t]))'
      BY <1>1, <2>1 DEF PriceRow
    <2> QED
      BY <2>1, <2>2, <2>3 DEF PriceTriggersInv, PriceTriggersTypeOK
  <1>4. FiringIsClaimed'
    BY <1>1, <1>2 DEF PriceTriggersInv, FiringIsClaimed
  <1>5. FiresCounted' /\ OneWatcherFires'
    BY <1>1 DEF PriceTriggersInv, FiresCounted, OneWatcherFires, ExistingTrigger
  <1> QED
    BY <1>3, <1>4, <1>5 DEF PriceTriggersInv

(* What the statements of a claim and of a failure write. *)
LEMMA ClaimedRow ==
    ASSUME NEW r, PriceRow(r), NEW c, NEW p
    PROVE  LET q == [r EXCEPT !.status = "firing", !.checked = c, !.price = p]
           IN  PriceRow(q) /\ q.status = "firing" /\ q.failures = r.failures
  <1> DEFINE q == [r EXCEPT !.status = "firing", !.checked = c, !.price = p]
  <1>1. q \in [status : {"firing"}, expires : {r.expires}, checked : {c}, price : {p},
               failures : {r.failures}]
    BY DEF PriceRow
  <1> HIDE DEF q
  <1>2. PriceRow(q) /\ q.status = "firing" /\ q.failures = r.failures
    BY <1>1 DEF PriceRow
  <1> QED
    BY <1>2 DEF q
LEMMA MarkedRow ==
    ASSUME NEW r, PriceRow(r), NEW s \in {"armed", "firing"} \cup Ended
    PROVE  LET q == [r EXCEPT !.status = s, !.failures = @ + 1]
           IN  PriceRow(q) /\ q.status = s /\ q.failures = r.failures + 1
  <1> DEFINE q == [r EXCEPT !.status = s, !.failures = @ + 1]
  <1>1. q \in [status : {s}, expires : {r.expires}, checked : {r.checked}, price : {r.price},
               failures : {r.failures + 1}]
    BY DEF PriceRow
  <1> HIDE DEF q
  <1>2. PriceRow(q) /\ q.status = s /\ q.failures = r.failures + 1
    BY <1>1 DEF PriceRow
  <1> QED
    BY <1>2 DEF q

(* The observed price of a waiting trigger is noted, and the watcher goes   *)
(* on: no status changes (RecordCheck).                                     *)
LEMMA RecordCheckKeeps ==
    ASSUME PriceTriggersInv, NEW w \in Watcher, RecordCheck(w) PROVE PriceTriggersInv'
  <1> DEFINE t == Oldest(watcher[w].list)
             to == After(w, t)
  <1>1. /\ t \in ExistingTrigger /\ WatcherRecord(to) /\ to.pc # "fire"
        /\ watcher' = [watcher EXCEPT ![w] = to] /\ UNCHANGED fires
    BY CurrentTrigger DEF PriceTriggersInv, RecordCheck, Step
  <1> HIDE DEF t, to
  <1>2. /\ DOMAIN triggers' = ExistingTrigger
        /\ \A u \in ExistingTrigger : /\ PriceRow(triggers'[u])
                                      /\ triggers'[u].status = triggers[u].status
                                      /\ triggers'[u].failures = triggers[u].failures
    BY DEF PriceTriggersInv, PriceTriggersTypeOK, RecordCheck, PriceRow, ExistingTrigger, t
  <1>3. ExistingTrigger' = ExistingTrigger
    BY <1>2 DEF ExistingTrigger
  <1>4. \A v \in Watcher : watcher'[v].pc = "fire" =>
           watcher'[v] = watcher[v] /\ Oldest(watcher[v].list) \in ExistingTrigger
    BY <1>1, CurrentTrigger DEF PriceTriggersInv, PriceTriggersTypeOK
  <1>5. PriceTriggersTypeOK'
    BY <1>1, <1>2, <1>3 DEF PriceTriggersInv, PriceTriggersTypeOK, WatcherRecord, PriceRow
  <1>6. OneWatcherFires' /\ FiringIsClaimed'
    BY <1>1, <1>2, <1>4 DEF PriceTriggersInv, OneWatcherFires, FiringIsClaimed
  <1>7. FiresCounted'
    BY <1>1, <1>2, <1>3 DEF PriceTriggersInv, FiresCounted
  <1> QED
    BY <1>5, <1>6, <1>7 DEF PriceTriggersInv

(* A claim: the trigger waited, so no watcher was about to fire it, and all *)
(* its calls are on record.  A trigger that does not wait is passed over    *)
(* (ClaimByID).                                                             *)
LEMMA ClaimByIDKeeps ==
    ASSUME PriceTriggersInv, NEW w \in Watcher, ClaimByID(w) PROVE PriceTriggersInv'
  <1> DEFINE t == Oldest(watcher[w].list)
             row1 == [triggers[t] EXCEPT !.status = "firing", !.checked = triggerClock,
                                         !.price = watcher[w].price]
             to == [watcher[w] EXCEPT !.pc = "fire"]
  <1>1. /\ t \in ExistingTrigger /\ WatcherRecord(After(w, t)) /\ After(w, t).pc # "fire"
        /\ PriceRow(triggers[t])
    BY CurrentTrigger DEF PriceTriggersInv, ClaimByID
  <1>2. CASE Step(w, After(w, t)) /\ UNCHANGED triggers
    BY <1>1, <1>2, WatcherMoveKeeps DEF ClaimByID, Step
  <1>3. CASE Claimed(t) /\ SetTrigger(t, row1) /\ Step(w, to)
    <2>1. /\ PriceRow(row1) /\ row1.status = "firing" /\ row1.failures = triggers[t].failures
      <3> DEFINE old == triggers[t]  at == triggerClock  price == watcher[w].price
      <3>1. PriceRow(old)
        BY <1>1
      <3> HIDE DEF old, at, price
      <3>2. LET q == [old EXCEPT !.status = "firing", !.checked = at, !.price = price]
            IN  PriceRow(q) /\ q.status = "firing" /\ q.failures = old.failures
        BY ZenonT(60), <3>1, ClaimedRow
      <3> QED
        BY <3>2 DEF old, at, price
    <2>2. watcher[w] = [pc |-> "next", list |-> watcher[w].list, price |-> watcher[w].price]
      BY DEF ClaimByID, PriceTriggersInv, PriceTriggersTypeOK, WatcherRecord, Resting
    <2>3. /\ to = [pc |-> "fire", list |-> watcher[w].list, price |-> watcher[w].price]
          /\ WatcherRecord(to)
      BY <2>2 DEF PriceTriggersInv, PriceTriggersTypeOK, WatcherRecord, Resting
    <2>4. Oldest(to.list) = t /\ to.pc = "fire"
      BY <2>3
    <2>5. triggers[t].status = "armed"
      BY <1>3 DEF Claimed, Waiting
    <2>6. \A v \in Watcher : watcher[v].pc = "fire" =>
             Oldest(watcher[v].list) \in ExistingTrigger /\ Oldest(watcher[v].list) # t
      BY <2>5, CurrentTrigger DEF PriceTriggersInv, FiringIsClaimed
    <2> HIDE DEF t, row1, to
    <2>7. /\ triggers' = [triggers EXCEPT ![t] = row1] /\ watcher' = [watcher EXCEPT ![w] = to]
          /\ UNCHANGED fires
      BY <1>3 DEF SetTrigger, Step, ClaimByID
    <2>8. ExistingTrigger' = ExistingTrigger
      BY <2>7 DEF ExistingTrigger
    <2>9. PriceTriggersTypeOK'
      BY <1>1, <2>1, <2>3, <2>7, <2>8
         DEF PriceTriggersInv, PriceTriggersTypeOK, WatcherRecord, PriceRow, ExistingTrigger
    <2>10. OneWatcherFires'
      BY <2>4, <2>6, <2>7 DEF PriceTriggersInv, PriceTriggersTypeOK, OneWatcherFires
    <2>11. FiringIsClaimed'
      BY <1>1, <2>1, <2>4, <2>5, <2>6, <2>7
         DEF PriceTriggersInv, PriceTriggersTypeOK, FiringIsClaimed, FiresCounted, ExistingTrigger
    <2>12. FiresCounted'
      BY <1>1, <2>1, <2>5, <2>7, <2>8 DEF PriceTriggersInv, FiresCounted, ExistingTrigger
    <2> QED
      BY <2>9, <2>10, <2>11, <2>12 DEF PriceTriggersInv
  <1> QED
    BY <1>2, <1>3 DEF ClaimByID

(* The call of the firer and its mark.  The mark of a claimed trigger puts  *)
(* the call on record; without one the trigger stays out of reach.          *)
LEMMA FireKeeps ==
    ASSUME PriceTriggersInv, NEW w \in Watcher, fire(w) PROVE PriceTriggersInv'
  <1> DEFINE t == Oldest(watcher[w].list)
             to == After(w, t)
             old == triggers[t]
             marked == [old EXCEPT !.status = IF old.failures + 1 >= MaxTriggerRetries
                                              THEN "failed" ELSE "armed",
                                   !.failures = @ + 1]
  <1>1. /\ t \in ExistingTrigger /\ WatcherRecord(to) /\ to.pc # "fire" /\ PriceRow(old)
        /\ t \in PriceTrigger /\ fires[t] \in Nat
    BY CurrentTrigger DEF PriceTriggersInv, PriceTriggersTypeOK, fire
  <1>2. /\ old.status \in {"firing", "failed"} /\ fires[t] <= old.failures
        /\ old.failures < MaxTriggerRetries /\ old.failures \in Nat
    BY <1>1 DEF PriceTriggersInv, FiringIsClaimed, fire, PriceRow
  <1>3. \A v \in Watcher : watcher[v].pc = "fire" /\ v # w =>
           Oldest(watcher[v].list) \in ExistingTrigger /\ Oldest(watcher[v].list) # t
    BY CurrentTrigger DEF PriceTriggersInv, OneWatcherFires, fire
  <1>4. /\ PriceRow(marked) /\ marked.failures = old.failures + 1
        /\ marked.status = "armed" => marked.failures < MaxTriggerRetries
        /\ marked.status # "firing"
    <2> DEFINE st == IF old.failures + 1 >= MaxTriggerRetries THEN "failed" ELSE "armed"
    <2>1. st \in {"armed", "firing"} \cup Ended
      BY DEF Ended
    <2> HIDE DEF st
    <2>2. PriceRow(marked) /\ marked.failures = old.failures + 1 /\ marked.status = st
      BY ZenonT(60), <1>1, <2>1, MarkedRow DEF st
    <2> HIDE DEF marked, old
    <2> QED
      BY <1>2, <2>2, TriggerRetriesAssumption DEF st
  <1>5. /\ fires' = [fires EXCEPT ![t] = @ + 1] /\ watcher' = [watcher EXCEPT ![w] = to]
        /\ \/ UNCHANGED triggers
           \/ triggers' = [triggers EXCEPT ![t] = old]
           \/ triggers' = [triggers EXCEPT ![t] = marked]
    BY DEF fire, Step, SetTrigger, FireRequestSignature, MarkTriggerFailed
  <1> HIDE DEF t, to, marked, old
  <1> DEFINE new == triggers'[t]
  <1>6. /\ DOMAIN triggers' = ExistingTrigger
        /\ \A u \in ExistingTrigger \ {t} : triggers'[u] = triggers[u]
        /\ PriceRow(new)
        /\ new.status = "armed" => fires[t] + 1 <= new.failures /\ new.failures < MaxTriggerRetries
        /\ new.status = "firing" => new.failures < MaxTriggerRetries
    <2>1. /\ DOMAIN triggers' = ExistingTrigger
          /\ \A u \in ExistingTrigger \ {t} : triggers'[u] = triggers[u]
          /\ new = old \/ new = marked
      BY <1>1, <1>5 DEF ExistingTrigger, old
    <2> HIDE DEF new
    <2> QED
      BY <1>1, <1>2, <1>4, <2>1
  <1> HIDE DEF new
  <1>7. ExistingTrigger' = ExistingTrigger
    BY <1>6 DEF ExistingTrigger
  <1>8. PriceTriggersTypeOK'
    <2>1. \A u \in ExistingTrigger : PriceRow(triggers'[u])
      BY <1>6 DEF PriceTriggersInv, PriceTriggersTypeOK, new
    <2>2. \A v \in Watcher : WatcherRecord(watcher'[v])
      BY <1>1, <1>5 DEF PriceTriggersInv, PriceTriggersTypeOK
    <2>3. (\A v \in Watcher : WatcherRecord(watcher[v]))'
      BY <1>7, <2>2 DEF WatcherRecord
    <2>4. (\A u \in ExistingTrigger : PriceRow(triggers[u]))'
      BY <1>7, <2>1 DEF PriceRow
    <2>5. fires' \in [PriceTrigger -> Nat] /\ DOMAIN watcher' = Watcher
      BY <1>1, <1>5 DEF PriceTriggersInv, PriceTriggersTypeOK
    <2> QED
      BY <1>7, <2>3, <2>4, <2>5 DEF PriceTriggersInv, PriceTriggersTypeOK
  <1>9. \A v \in Watcher : watcher'[v].pc = "fire" => v # w /\ watcher'[v] = watcher[v]
    BY <1>1, <1>5 DEF PriceTriggersInv, PriceTriggersTypeOK
  <1>10. OneWatcherFires'
    BY <1>9 DEF PriceTriggersInv, OneWatcherFires
  <1>11. FiringIsClaimed'
    BY <1>1, <1>3, <1>5, <1>6, <1>9 DEF PriceTriggersInv, PriceTriggersTypeOK, FiringIsClaimed
  <1>12. FiresCounted'
    BY <1>1, <1>2, <1>5, <1>6, <1>7, TriggerRetriesAssumption
       DEF PriceTriggersInv, PriceTriggersTypeOK, FiresCounted, new
  <1> QED
    BY <1>8, <1>10, <1>11, <1>12 DEF PriceTriggersInv

LEMMA CreateKeeps ==
    ASSUME PriceTriggersInv, NEW c \in Creator, Create(c) PROVE PriceTriggersInv'
  <1> DEFINE new == Cardinality(ExistingTrigger) + 1
             fresh == [status |-> "armed", expires |-> triggerClock + TriggerTTL,
                       checked |-> 0, price |-> 0, failures |-> 0]
  <1>1. /\ new \in PriceTrigger /\ UNCHANGED <<watcher, fires>>
        /\ triggers' = [t \in ExistingTrigger \cup {new} |->
                          IF t \in ExistingTrigger THEN triggers[t] ELSE fresh]
    BY DEF Create
  <1>2. PriceRow(fresh) /\ fresh.status = "armed" /\ fresh.failures = 0
    BY DEF PriceRow
  <1> HIDE DEF new, fresh
  <1>3. /\ ExistingTrigger' = ExistingTrigger \cup {new}
        /\ \A t \in ExistingTrigger : triggers'[t] = triggers[t]
        /\ \A t \in ExistingTrigger' \ ExistingTrigger : triggers'[t] = fresh
    BY <1>1 DEF ExistingTrigger
  <1>4. PriceTriggersTypeOK'
    BY <1>1, <1>2, <1>3 DEF PriceTriggersInv, PriceTriggersTypeOK, WatcherRecord, PriceRow
  <1>5. OneWatcherFires' /\ FiringIsClaimed'
    BY <1>1, <1>3, CurrentTrigger DEF PriceTriggersInv, OneWatcherFires, FiringIsClaimed
  <1>6. FiresCounted'
    BY <1>1, <1>2, <1>3, TriggerRetriesAssumption DEF PriceTriggersInv, PriceTriggersTypeOK, FiresCounted
  <1> QED
    BY <1>4, <1>5, <1>6 DEF PriceTriggersInv

LEMMA PriceTriggersInvStep ==
    ASSUME PriceTriggersInv, [TriggerNext]_priceTriggerVars PROVE PriceTriggersInv'
  <1>1. CASE UNCHANGED <<triggers, watcher, fires>>
    BY <1>1 DEF PriceTriggersInv, PriceTriggersTypeOK, OneWatcherFires, FiringIsClaimed, FiresCounted,
                ExistingTrigger, WatcherRecord, PriceRow
  <1>2. CASE ExpireOverdueTriggers
    BY <1>2, RowsMoveKeeps DEF ExpireOverdueTriggers
  <1>3. CASE ReapStuckFiring
    BY <1>3, RowsMoveKeeps DEF ReapStuckFiring, Reaped, StuckFiring
  <1>4. ASSUME NEW c \in Creator, Create(c) PROVE PriceTriggersInv'
    BY <1>4, CreateKeeps
  <1>5. ASSUME NEW t \in ExistingTrigger, Cancel(t) PROVE PriceTriggersInv'
    BY <1>5, RowsMoveKeeps DEF Cancel, SetTrigger, ExistingTrigger
  <1>6. ASSUME NEW w \in Watcher, tickOnce(w) PROVE PriceTriggersInv'
    <2> DEFINE to == [pc |-> "prices", list |-> ListActiveArmed]
    <2>1. WatcherRecord(to) /\ to.pc # "fire"
      BY <1>6 DEF tickOnce, ListActiveArmed, WatcherRecord
    <2> QED
      BY <1>6, <2>1, WatcherMoveKeeps DEF tickOnce, Step
  <1>7. WatcherRecord(Resting) /\ Resting.pc # "fire"
    BY DEF WatcherRecord, Resting
  <1>8. ASSUME NEW w \in Watcher, LatestPrices(w) PROVE PriceTriggersInv'
    <2> DEFINE to == [pc |-> "next", list |-> watcher[w].list, price |-> hermes.price]
    <2>1. WatcherRecord(to) /\ to.pc # "fire"
      BY <1>8 DEF LatestPrices, WatcherRecord, Resting, PriceTriggersInv, PriceTriggersTypeOK
    <2>2. watcher' = [watcher EXCEPT ![w] = to] \/ watcher' = [watcher EXCEPT ![w] = Resting]
      BY <1>8 DEF LatestPrices, Step
    <2>3. UNCHANGED <<triggers, fires>>
      BY <1>8 DEF LatestPrices
    <2> HIDE DEF to
    <2> QED
      BY <1>7, <2>1, <2>2, <2>3, WatcherMoveKeeps
  <1>9. ASSUME NEW w \in Watcher, RecordCheck(w) PROVE PriceTriggersInv'
    BY <1>9, RecordCheckKeeps
  <1>10. ASSUME NEW w \in Watcher, ClaimByID(w) PROVE PriceTriggersInv'
    BY <1>10, ClaimByIDKeeps
  <1>11. ASSUME NEW w \in Watcher, fire(w) PROVE PriceTriggersInv'
    BY <1>11, FireKeeps
  <1>12. ASSUME NEW w \in Watcher, WatcherStops(w) PROVE PriceTriggersInv'
    BY <1>7, <1>12, WatcherMoveKeeps DEF WatcherStops, Step
  <1> QED
    BY <1>1, <1>2, <1>3, <1>4, <1>5, <1>6, <1>8, <1>9, <1>10, <1>11, <1>12
       DEF TriggerNext, TriggerTick, HermesPublishes, CountArmed, priceTriggerVars

(* No trigger is in the hands of two watchers, and none is fired more often *)
(* than the circuit breaker allows: "concurrent workers ... never           *)
(* double-fire" (ClaimByID, MarkFailed, ReapStuckFiring).                   *)
THEOREM FiringIsExclusive == TriggerSpec => []FiringExclusive
  <1>1. PriceTriggersInv => FiringExclusive
    BY DEF PriceTriggersInv, OneWatcherFires, FiresCounted, FiringExclusive
  <1> QED
    BY <1>1, PriceTriggersInvInit, PriceTriggersInvStep, PTL DEF TriggerSpec


----------------------------------------------------------------------------
(* Oracle feeds (oraclerelay/service.go, the adapter's refresh_feed). *)

RelayRecord(r) ==
    \/ r = Quiet
    \/ r = [pc |-> "read", last |-> r.last]
    \/ r = [pc |-> "send", publish |-> r.publish] /\ r.publish \in Nat
    \/ /\ r = [pc |-> "record", result |-> r.result, publish |-> r.publish]
       /\ r.publish \in Nat

FeedsTypeOK ==
    /\ time \in Nat
    /\ pyth = [price |-> pyth.price, publish |-> pyth.publish] /\ pyth.publish \in Nat
    /\ cache = [price |-> cache.price, publish |-> cache.publish, refreshed |-> cache.refreshed,
                paused |-> cache.paused]
    /\ cache.publish \in Nat
    /\ feed = [exists |-> feed.exists, last |-> feed.last, paused |-> feed.paused]
    /\ feed.last \in Nat
    /\ DOMAIN relay = Relay /\ \A r \in Relay : RelayRecord(relay[r])

(* The publish times a refresh goes through never run ahead of the next     *)
(* one's: the row's behind the cache's, the cache's behind Pyth's.  What a  *)
(* refresh has read is Pyth's own until it is sent, and the cache has       *)
(* reached it once the transaction is known to have landed.                 *)
PublishTimesOrdered ==
    /\ feed.last <= cache.publish
    /\ cache.publish <= pyth.publish
    /\ \A r \in Relay :
          /\ relay[r].pc = "send" => relay[r].publish <= pyth.publish
          /\ relay[r].pc = "record" /\ relay[r].result = "success" => relay[r].publish <= cache.publish

FeedsInv == FeedsTypeOK /\ PublishTimesOrdered

LEMMA FeedsInvInit == FeedInit => FeedsInv
  BY DEF FeedInit, FeedsInv, FeedsTypeOK, PublishTimesOrdered, RelayRecord, Quiet

(* A refresh that the adapter accepts moves the cache on to Pyth's time. *)
LEMMA RefreshedCache ==
    ASSUME FeedsInv, Acceptable
    PROVE  /\ refresh_feed = [price |-> pyth.price, publish |-> pyth.publish, refreshed |-> time,
                              paused |-> cache.paused]
           /\ cache.publish <= pyth.publish
  <1>1. refresh_feed \in [price : {pyth.price}, publish : {pyth.publish}, refreshed : {time},
                          paused : {cache.paused}]
    BY DEF refresh_feed, FeedsInv, FeedsTypeOK
  <1> HIDE DEF refresh_feed
  <1> QED
    BY <1>1 DEF FeedsInv, PublishTimesOrdered

LEMMA FeedsInvStep == ASSUME FeedsInv, [FeedNext]_feedVars PROVE FeedsInv'
  <1> USE DEF FeedsInv, FeedsTypeOK, PublishTimesOrdered, RelayRecord, Quiet
  <1>1. CASE FeedTick
    BY <1>1 DEF FeedTick
  <1>2. CASE SetPaused
    BY <1>2 DEF SetPaused
  <1>3. CASE DeleteFeed
    BY <1>3 DEF DeleteFeed
  <1>4. CASE ensureFeed
    BY <1>4 DEF ensureFeed
  <1>5. CASE requestSignatureSubmit
    BY <1>5, RefreshedCache DEF requestSignatureSubmit
  <1>6. ASSUME NEW p \in PythPrice, PythPublishes(p) PROVE FeedsInv'
    BY <1>6 DEF PythPublishes
  <1>7. ASSUME NEW b \in BOOLEAN, setPaused(b) PROVE FeedsInv'
    BY <1>7 DEF setPaused
  <1>8. ASSUME NEW r \in Relay, tickAll(r) PROVE FeedsInv'
    BY <1>8 DEF tickAll, MoveRelay
  <1>9. ASSUME NEW r \in Relay, ForceRefresh(r) PROVE FeedsInv'
    BY <1>9 DEF ForceRefresh, MoveRelay
  <1>10. ASSUME NEW r \in Relay, refreshFeed(r) PROVE FeedsInv'
    BY <1>10 DEF refreshFeed, MoveRelay, Record
  <1>11. ASSUME NEW r \in Relay, SignAndSend(r) PROVE FeedsInv'
    BY <1>11, RefreshedCache DEF SignAndSend, MoveRelay, Outcome
  <1>12. ASSUME NEW r \in Relay, RecordRefresh(r) PROVE FeedsInv'
    BY <1>12 DEF RecordRefresh, MoveRelay
  <1>13. ASSUME NEW r \in Relay, RelayStops(r) PROVE FeedsInv'
    BY <1>13 DEF RelayStops, MoveRelay
  <1>14. CASE UNCHANGED feedVars
    BY <1>14 DEF feedVars
  <1> QED
    BY <1>1, <1>2, <1>3, <1>4, <1>5, <1>6, <1>7, <1>8, <1>9, <1>10, <1>11, <1>12, <1>13, <1>14
       DEF FeedNext

(* The row of a feed never claims a publish time that the cache on the      *)
(* chain has not reached, although a refresh records what it read and not   *)
(* what landed (refreshFeed, RecordRefresh).                                *)
THEOREM RowStaysBehindChain == FeedSpec => []RowBehindChain
  <1>1. FeedsInv => RowBehindChain
    BY DEF FeedsInv, PublishTimesOrdered, RowBehindChain
  <1> QED
    BY <1>1, FeedsInvInit, FeedsInvStep, PTL DEF FeedSpec

----------------------------------------------------------------------------
(* The audit log (audit/writer.go, signer.go, api.go). *)

AppendRecord(r) ==
    \/ r = [pc |-> "idle"]
    \/ /\ \/ r = [pc |-> "read", t |-> r.t]
          \/ r = [pc |-> "insert", t |-> r.t, prev |-> r.prev]
          \/ r = [pc |-> "commit", t |-> r.t, prev |-> r.prev, seq |-> r.seq]
       /\ r.t \in Tenant

LogRow(r) ==
    /\ r = [tenant |-> r.tenant, prev |-> r.prev, signatures |-> r.signatures]
    /\ r.tenant \in Tenant
    /\ r.signatures \in {0, 1}

AuditTypeOK ==
    /\ nextSeq \in Nat \ {0}
    /\ DOMAIN log \subseteq 1..(nextSeq - 1)
    /\ \A s \in DOMAIN log : LogRow(log[s])
    /\ DOMAIN append = Appender /\ \A a \in Appender : AppendRecord(append[a])
    /\ DOMAIN chainLock = Tenant
    /\ DOMAIN signer = Signer
    /\ DOMAIN reader = Tenant

(* An append holds its tenant's lock from before it reads the last entry to *)
(* its commit, so what it read is still the last entry and the number it    *)
(* was given lies above every entry of the tenant.                          *)
AppendsLocked ==
    /\ \A a \in Appender : append[a].pc # "idle" => chainLock[append[a].t] = a
    /\ \A a \in Appender : append[a].pc \in {"insert", "commit"} => append[a].prev = Last(append[a].t)
    /\ \A a \in Appender : append[a].pc = "commit" =>
          /\ append[a].seq \in 1..(nextSeq - 1)
          /\ append[a].seq \notin DOMAIN log
          /\ \A s \in Of(append[a].t) : s < append[a].seq
    /\ \A a, b \in Appender :
          append[a].pc = "commit" /\ append[b].pc = "commit" /\ a # b => append[a].seq # append[b].seq

(* Every entry points at the one before it. *)
Before(t, s) == {r \in Of(t) : r < s}

EntriesLinked ==
    \A t \in Tenant : \A s \in Of(t) :
        log[s].prev = IF Before(t, s) = {} THEN 0 ELSE Greatest(Before(t, s))

(* No two workers have claimed the same row, and what they claimed is not   *)
(* signed yet.                                                              *)
BatchesDisjoint ==
    /\ \A w \in Signer : signer[w] \subseteq {s \in DOMAIN log : log[s].signatures = 0}
    /\ \A v, w \in Signer : v # w => signer[v] \cap signer[w] = {}

(* A client's mark is an entry of its tenant, and it has seen all up to it. *)
PagesComplete ==
    \A t \in Tenant :
        /\ reader[t].after \in Of(t) \cup {0}
        /\ {s \in Of(t) : s <= reader[t].after} \subseteq reader[t].seen

AuditInv == AuditTypeOK /\ AppendsLocked /\ EntriesLinked /\ BatchesDisjoint /\ PagesComplete

LEMMA AuditInvInit == AuditInit => AuditInv
  BY DEF AuditInit, AuditInv, AuditTypeOK, AppendRecord, AppendsLocked, EntriesLinked,
         BatchesDisjoint, PagesComplete, Of

(* The page of one entry: the first of those that remain. *)
LEMMA FirstPage ==
    ASSUME NEW S, S \subseteq Nat, IsFiniteSet(S), First(1, S) # {}
    PROVE  \E x \in S : First(1, S) = {x} /\ Greatest(First(1, S)) = x /\ \A y \in S : x <= y
  <1>1. PICK x \in S : x \in First(1, S)
    BY DEF First
  <1>2. ASSUME NEW z \in First(1, S), NEW y \in S, y <= z PROVE y = z
    <2> DEFINE below == {u \in S : u <= z}
    <2>1. z \in S /\ Cardinality(below) <= 1
      BY DEF First
    <2>2. IsFiniteSet(below)
      BY FS_Subset
    <2>3. z \in below /\ y \in below
      BY <1>2, <2>1
    <2> HIDE DEF below
    <2>4. Cardinality(below) \in Nat /\ Cardinality(below) # 0
      BY <2>2, <2>3, FS_CardinalityType, FS_EmptySet
    <2>5. Cardinality(below) = 1
      BY <2>1, <2>4
    <2>6. PICK q : below = {q}
      BY <2>2, <2>5, FS_Singleton
    <2> QED
      BY <2>3, <2>6
  <1>3. \A y \in S : x <= y
    BY <1>1, <1>2
  <1>4. First(1, S) = {x}
    <2>1. ASSUME NEW z \in First(1, S) PROVE z = x
      <3>1. z \in S
        BY DEF First
      <3> QED
        BY <1>1, <1>2, <1>3, <3>1
    <2> QED
      BY <1>1, <2>1
  <1>5. Greatest({x}) = x
    BY DEF Greatest
  <1> QED
    BY <1>3, <1>4, <1>5

(* Only a commit changes which entries there are. *)
LEMMA SameEntries ==
    ASSUME DOMAIN log' = DOMAIN log, \A s \in DOMAIN log : log'[s].tenant = log[s].tenant, NEW t
    PROVE  Of(t)' = Of(t) /\ Last(t)' = Last(t)
  BY DEF Of, Last

LEMMA AuditInvStep == ASSUME AuditInv, [AuditNext]_auditVars PROVE AuditInv'
  <1> USE AppenderAssumption DEF AuditInv
  <1>1. ASSUME NEW a \in Appender, NEW t \in Tenant, BeginAppend(a, t) PROVE AuditInv'
    <2> USE <1>1 DEF BeginAppend, Lockable, Rest
    <2>1. \A u : Of(u)' = Of(u) /\ Last(u)' = Last(u)
      BY SameEntries
    <2>2. AuditTypeOK'
      BY DEF AuditTypeOK, AppendRecord, LogRow
    <2>3. AppendsLocked'
      BY <2>1 DEF AuditTypeOK, AppendRecord, AppendsLocked
    <2> QED
      BY <2>1, <2>2, <2>3 DEF EntriesLinked, Before, BatchesDisjoint, PagesComplete
  <1>2. ASSUME NEW a \in Appender, ReadPrev(a) PROVE AuditInv'
    <2> USE <1>2 DEF ReadPrev, Rest
    <2>1. \A u : Of(u)' = Of(u) /\ Last(u)' = Last(u)
      BY SameEntries
    <2>2. AuditTypeOK'
      BY DEF AuditTypeOK, AppendRecord, LogRow
    <2>3. AppendsLocked'
      BY <2>1 DEF AuditTypeOK, AppendRecord, AppendsLocked
    <2> QED
      BY <2>1, <2>2, <2>3 DEF EntriesLinked, Before, BatchesDisjoint, PagesComplete
  <1>3. ASSUME NEW a \in Appender, Insert(a) PROVE AuditInv'
    <2> USE <1>3 DEF Insert, Rest
    <2>1. \A u : Of(u)' = Of(u) /\ Last(u)' = Last(u)
      BY SameEntries
    <2>2. AuditTypeOK'
      BY DEF AuditTypeOK, AppendRecord, LogRow
    <2>3. AppendsLocked'
      BY <2>1 DEF AuditTypeOK, AppendRecord, AppendsLocked, Of
    <2> QED
      BY <2>1, <2>2, <2>3 DEF EntriesLinked, Before, BatchesDisjoint, PagesComplete
  <1>4. ASSUME NEW a \in Appender, Rollback(a) PROVE AuditInv'
    <2> USE <1>4 DEF Rollback, EndOfTransaction, Rest
    <2>1. \A u : Of(u)' = Of(u) /\ Last(u)' = Last(u)
      BY SameEntries
    <2>2. AuditTypeOK'
      BY DEF AuditTypeOK, AppendRecord, LogRow
    <2>3. AppendsLocked'
      BY <2>1 DEF AuditTypeOK, AppendRecord, AppendsLocked
    <2> QED
      BY <2>1, <2>2, <2>3 DEF EntriesLinked, Before, BatchesDisjoint, PagesComplete
  <1>5. ASSUME NEW a \in Appender, Commit(a) PROVE AuditInv'
    <2>1. PICK n, tn : /\ n = append[a].seq /\ tn = append[a].t
                       /\ n \in 1..(nextSeq - 1) /\ n \notin DOMAIN log /\ \A s \in Of(tn) : s < n
                       /\ append[a].prev = Last(tn) /\ tn \in Tenant /\ chainLock[tn] = a
      BY <1>5 DEF AppendsLocked, Commit, AuditTypeOK, AppendRecord
    <2>2. PICK row1 : /\ row1 = [tenant |-> tn, prev |-> Last(tn), signatures |-> 0]
                      /\ log' = [s \in DOMAIN log \cup {n} |-> IF s = n THEN row1 ELSE log[s]]
      BY <1>5, <2>1 DEF Commit
    <2>a. /\ append' = [append EXCEPT ![a] = [pc |-> "idle"]]
          /\ chainLock' = [chainLock EXCEPT ![tn] = IF @ = a THEN NoOne ELSE @]
          /\ UNCHANGED <<nextSeq, signer, reader>>
      BY <1>5, <2>1 DEF Commit, EndOfTransaction, Rest
    <2>3. row1.tenant = tn /\ row1.prev = Last(tn) /\ row1.signatures = 0 /\ LogRow(row1)
      BY <2>1, <2>2 DEF LogRow
    <2>4. \A b \in Appender : b # a /\ append[b].pc # "idle" => append[b].t # tn
      BY <1>5, <2>1 DEF AppendsLocked, Commit
    <2>5. \A b \in Appender : b # a /\ append[b].pc = "commit" => append[b].seq # n
      BY <1>5, <2>1 DEF AppendsLocked, Commit
    <2>6. /\ DOMAIN log' = DOMAIN log \cup {n} /\ log'[n] = row1
          /\ \A s \in DOMAIN log : log'[s] = log[s]
      BY <2>1, <2>2
    <2>7. Of(tn)' = Of(tn) \cup {n} /\ \A u : u # tn => Of(u)' = Of(u) /\ Last(u)' = Last(u)
      <3>1. Of(tn)' = Of(tn) \cup {n}
        BY <2>3, <2>6 DEF Of
      <3>2. ASSUME NEW u, u # tn PROVE Of(u)' = Of(u)
        BY <2>3, <2>6, <3>2 DEF Of
      <3> QED
        BY <3>1, <3>2 DEF Last
    <2>8. AuditTypeOK'
      BY <2>1, <2>3, <2>6, <2>a DEF AuditTypeOK, AppendRecord, LogRow
    <2>9. AppendsLocked'
      <3>1. \A b \in Appender : append'[b].pc # "idle" => b # a /\ append'[b] = append[b]
        BY <2>a DEF AuditTypeOK
      <3>2. \A b \in Appender : append'[b].pc # "idle" => append[b].t \in Tenant /\ append[b].t # tn
        BY <2>4, <3>1 DEF AuditTypeOK, AppendRecord
      <3>3. \A b \in Appender : append'[b].pc # "idle" => chainLock'[append[b].t] = b
        BY <2>a, <3>1, <3>2 DEF AuditTypeOK, AppendsLocked
      <3> QED
        BY <2>5, <2>6, <2>7, <2>a, <3>1, <3>2, <3>3 DEF AppendsLocked
    <2>10. EntriesLinked'
      <3>1. ASSUME NEW t \in Tenant, NEW s \in Of(t)', s = n
            PROVE  log'[s].prev = IF Before(t, s)' = {} THEN 0 ELSE Greatest(Before(t, s)')
        <4>1. t = tn
          BY <2>3, <2>6, <3>1 DEF Of
        <4>2. Before(t, s)' = Of(tn)
          BY <2>1, <2>7, <3>1, <4>1 DEF Before
        <4> QED
          BY <2>3, <2>6, <3>1, <4>2 DEF Last
      <3>2. ASSUME NEW t \in Tenant, NEW s \in Of(t)', s # n
            PROVE  log'[s].prev = IF Before(t, s)' = {} THEN 0 ELSE Greatest(Before(t, s)')
        <4>1. s \in Of(t) /\ log'[s] = log[s]
          BY <2>6, <3>2 DEF Of
        <4>2. CASE t = tn
          <5>1. s < n /\ ~ (n < s)
            BY <2>1, <4>1, <4>2 DEF Of, AuditTypeOK
          <5>2. Before(t, s)' = Before(t, s)
            BY <2>7, <4>2, <5>1 DEF Before
          <5> QED
            BY <4>1, <5>2 DEF EntriesLinked
        <4>3. CASE t # tn
          <5>1. Before(t, s)' = Before(t, s)
            BY <2>7, <4>3 DEF Before
          <5> QED
            BY <4>1, <5>1 DEF EntriesLinked
        <4> QED
          BY <4>2, <4>3
      <3> QED
        BY <3>1, <3>2 DEF EntriesLinked
    <2>11. BatchesDisjoint'
      BY <2>6, <2>a DEF BatchesDisjoint
    <2>12. PagesComplete'
      <3>1. reader[tn].after \in Nat /\ reader[tn].after < n
        BY <2>1 DEF PagesComplete, AuditTypeOK, Of
      <3>2. {s \in Of(tn)' : s <= reader[tn].after} = {s \in Of(tn) : s <= reader[tn].after}
        BY <2>1, <2>7, <3>1
      <3> QED
        BY <2>7, <2>a, <3>2 DEF PagesComplete
    <2> QED
      BY <2>8, <2>9, <2>10, <2>11, <2>12
  <1>6. ASSUME NEW w \in Signer, ClaimUnsigned(w) PROVE AuditInv'
    <2> USE <1>6 DEF ClaimUnsigned
    <2>1. \A u : Of(u)' = Of(u) /\ Last(u)' = Last(u)
      BY SameEntries
    <2>2. AuditTypeOK' /\ AppendsLocked'
      BY <2>1 DEF AuditTypeOK, AppendRecord, LogRow, AppendsLocked
    <2>3. BatchesDisjoint'
      BY DEF AuditTypeOK, BatchesDisjoint, First, Unsigned
    <2> QED
      BY <2>1, <2>2, <2>3 DEF EntriesLinked, Before, PagesComplete
  <1>7. ASSUME NEW w \in Signer, SignBatch(w) PROVE AuditInv'
    <2>1. /\ DOMAIN log' = DOMAIN log
          /\ \A s \in DOMAIN log : /\ LogRow(log'[s])
                                   /\ log'[s].tenant = log[s].tenant
                                   /\ log'[s].prev = log[s].prev
                                   /\ s \notin signer[w] => log'[s] = log[s]
      BY <1>7 DEF SignBatch, AuditTypeOK, LogRow, BatchesDisjoint
    <2>2. UNCHANGED <<nextSeq, append, chainLock, reader>> /\ signer' = [signer EXCEPT ![w] = {}]
      BY <1>7 DEF SignBatch
    <2>3. \A u : Of(u)' = Of(u) /\ Last(u)' = Last(u)
      BY <2>1, SameEntries
    <2>4. AuditTypeOK'
      BY <2>1, <2>2 DEF AuditTypeOK, AppendRecord, LogRow
    <2>5. AppendsLocked'
      BY <2>1, <2>2, <2>3 DEF AppendsLocked
    <2>6. BatchesDisjoint'
      BY <2>1, <2>2 DEF AuditTypeOK, BatchesDisjoint
    <2>7. EntriesLinked'
      <3>1. \A t : Of(t) \subseteq DOMAIN log /\ \A s : Before(t, s)' = Before(t, s)
        BY <2>3 DEF Of, Before
      <3> QED
        BY <2>1, <2>3, <3>1 DEF EntriesLinked
    <2>8. PagesComplete'
      BY <2>2, <2>3 DEF PagesComplete
    <2> QED
      BY <2>4, <2>5, <2>6, <2>7, <2>8
  <1>8. ASSUME NEW t \in Tenant, list(t) PROVE AuditInv'
    <2> DEFINE left == {s \in Of(t) : s > reader[t].after}
    <2>1. \A u : Of(u)' = Of(u) /\ Last(u)' = Last(u)
      BY <1>8, SameEntries DEF list
    <2>2. left \subseteq Nat /\ IsFiniteSet(left)
      <3>1. left \subseteq 1..(nextSeq - 1)
        BY DEF Of, AuditTypeOK
      <3>2. IsFiniteSet(1..(nextSeq - 1))
        BY FS_Interval DEF AuditTypeOK
      <3> HIDE DEF left
      <3>3. IsFiniteSet(left)
        BY <3>1, <3>2, FS_Subset
      <3> QED
        BY <3>1, <3>3
    <2> HIDE DEF left
    <2>3. PICK x \in left : First(1, left) = {x} /\ Greatest(First(1, left)) = x /\ \A y \in left : x <= y
      BY <1>8, <2>2, FirstPage DEF list, left
    <2>4. reader' = [reader EXCEPT ![t] = [after |-> x, seen |-> reader[t].seen \cup {x}]]
      BY <1>8, <2>3 DEF list, left
    <2>5. PagesComplete'
      <3>1. reader'[t].after = x /\ reader'[t].seen = reader[t].seen \cup {x}
        BY <2>4 DEF AuditTypeOK
      <3>2. x \in Of(t) /\ x \in Nat /\ Of(t) \subseteq Nat
        BY <2>2, <2>3 DEF left, Of, AuditTypeOK
      <3>3. ASSUME NEW s \in Of(t), s <= x PROVE s \in reader[t].seen \cup {x}
        <4>1. reader[t].after \in Nat
          <5>1. reader[t].after \in Of(t) \cup {0}
            BY DEF PagesComplete
          <5> QED
            BY <3>2, <5>1
        <4>2. CASE s <= reader[t].after
          BY <4>2 DEF PagesComplete
        <4>3. CASE s > reader[t].after
          BY <2>3, <3>2, <3>3, <4>3 DEF left
        <4> QED
          BY <3>2, <4>1, <4>2, <4>3
      <3> QED
        BY <2>1, <2>4, <3>1, <3>2, <3>3 DEF PagesComplete, AuditTypeOK
    <2>6. UNCHANGED <<log, nextSeq, append, chainLock, signer>>
      BY <1>8 DEF list
    <2>7. AuditTypeOK'
      BY <2>4, <2>6 DEF AuditTypeOK, AppendRecord, LogRow
    <2>8. AppendsLocked' /\ EntriesLinked' /\ BatchesDisjoint'
      BY <2>1, <2>6 DEF AppendsLocked, EntriesLinked, Before, BatchesDisjoint
    <2> QED
      BY <2>5, <2>7, <2>8
  <1>9. CASE UNCHANGED <<log, nextSeq, append, chainLock, signer, reader>>
    <2>1. \A u : Of(u)' = Of(u) /\ Last(u)' = Last(u)
      BY <1>9, SameEntries
    <2>2. AuditTypeOK'
      BY <1>9 DEF AuditTypeOK, AppendRecord, LogRow
    <2> QED
      BY <1>9, <2>1, <2>2 DEF AppendsLocked, EntriesLinked, Before, BatchesDisjoint, PagesComplete
  <1> HIDE DEF AuditInv
  <1> QED
    BY <1>1, <1>2, <1>3, <1>4, <1>5, <1>6, <1>7, <1>8, <1>9
       DEF AuditNext, AppendNext, SignNext, ReadNext, ArchiveNext, fetchRange, runSnapshot, auditVars

(* The chain of every tenant is unbroken, no entry is signed twice, and a   *)
(* client that pages by number misses none, although numbers are taken in   *)
(* another order than transactions commit in (Append, claimUnsigned, list). *)
THEOREM ChainIsKept == AuditSpec => []ChainKept
  <1>1. AuditInv => ChainKept
    <2> SUFFICES ASSUME AuditInv PROVE ChainKept
      OBVIOUS
    <2>1. ASSUME NEW s \in DOMAIN log
          PROVE  LET before == {r \in Of(log[s].tenant) : r < s}
                 IN  /\ log[s].prev = IF before = {} THEN 0 ELSE Greatest(before)
                     /\ log[s].signatures <= 1
      <3>1. /\ log[s].tenant \in Tenant /\ log[s].signatures \in {0, 1}
            /\ s \in Of(log[s].tenant)
        BY DEF AuditInv, AuditTypeOK, LogRow, Of
      <3> QED
        BY <3>1 DEF AuditInv, EntriesLinked, Before
    <2> QED
      BY <2>1 DEF AuditInv, PagesComplete, ChainKept
  <1> QED
    BY <1>1, AuditInvInit, AuditInvStep, PTL DEF AuditSpec

----------------------------------------------------------------------------
(* Webhook delivery (webhooks/dispatcher.go, store.go). *)

DeliveryRow(r) ==
    \/ r = Absent
    \/ r = [status |-> "deleted"]
    \/ /\ r = [status |-> r.status, due |-> r.due, attempts |-> r.attempts, lease |-> r.lease,
               count |-> r.count]
       /\ r.status \in {"pending", "in_flight", "delivered", "dead_letter"}
       /\ r.attempts \in Nat
       /\ r.count \in Nat

ClaimRecord(c) ==
    /\ c = [by |-> c.by, row |-> c.row, attempts |-> c.attempts, count |-> c.count, pc |-> c.pc]
    /\ c.row \in Rows
    /\ c.pc \in {"queued", "post", "ok", "failed", "inactive"}

HooksTypeOK ==
    /\ DOMAIN row = Rows /\ \A d \in Rows : DeliveryRow(row[d])
    /\ IsFiniteSet(claims) /\ \A c \in claims : ClaimRecord(c)
    /\ posts \in [Rows -> Nat]
    /\ DOMAIN endpoint = Endpoint
    /\ late \in Nat /\ admin \in Nat

(* The claims of a row that have yet to make their POST. *)
Unposted(d) == {c \in claims : c.row = d /\ c.pc \in {"queued", "post"}}

(* The attempts on record cover the POSTs made and the ones still to come.  *)
AttemptsCoverClaims ==
    \A d \in Rows :
        /\ DeliveryStatus(d) = "absent" => posts[d] = 0 /\ \A c \in claims : c.row # d
        /\ DeliveryStatus(d) \notin {"absent", "deleted"} =>
              posts[d] + Cardinality(Unposted(d)) <= row[d].attempts

(* As long as no lease has run out under a live claim, a claim is the only  *)
(* one of its row and has the row's lease and numbers.                      *)
ClaimsOwnRows ==
    late = 0 =>
        /\ \A c, e \in claims : c.row = e.row => c = e
        /\ \A c \in claims :
              /\ DeliveryStatus(c.row) \in {"in_flight", "deleted"}
              /\ DeliveryStatus(c.row) = "in_flight" =>
                    /\ row[c.row].lease = "live"
                    /\ row[c.row].count = c.count
                    /\ row[c.row].attempts = c.attempts

(* Until the tenant changes an endpoint, all of them are active. *)
EndpointsUntouched ==
    admin = 0 => /\ \A p \in Endpoint : endpoint[p] = "active"
                 /\ \A c \in claims : c.pc # "inactive"
                 /\ \A d \in Rows : DeliveryStatus(d) # "deleted"

HooksInv ==
    HooksTypeOK /\ AttemptsCoverClaims /\ ClaimsOwnRows /\ EndpointsUntouched /\ DeadLetterEarned

LEMMA HooksInvInit == HookInit => HooksInv
  <1> SUFFICES ASSUME HookInit PROVE HooksInv
    OBVIOUS
  <1>1. HooksTypeOK
    BY FS_EmptySet DEF HookInit, HooksTypeOK, DeliveryRow
  <1>2. AttemptsCoverClaims /\ ClaimsOwnRows /\ EndpointsUntouched /\ DeadLetterEarned
    BY DEF HookInit, AttemptsCoverClaims, ClaimsOwnRows, EndpointsUntouched, DeadLetterEarned,
           DeliveryStatus, Absent
  <1> QED
    BY <1>1, <1>2 DEF HooksInv

(* How many claims of a row are yet to post, after a claim is added, moved  *)
(* on or dropped.                                                           *)
LEMMA UnpostedType ==
    ASSUME HooksTypeOK, NEW d PROVE IsFiniteSet(Unposted(d)) /\ Cardinality(Unposted(d)) \in Nat
  <1>1. Unposted(d) \in SUBSET claims
    BY DEF Unposted
  <1> HIDE DEF Unposted
  <1>2. IsFiniteSet(Unposted(d))
    BY <1>1, FS_Subset DEF HooksTypeOK
  <1> QED
    BY <1>2, FS_CardinalityType

LEMMA FewerUnposted ==
    ASSUME HooksTypeOK, NEW d, Unposted(d)' \subseteq Unposted(d)
    PROVE  /\ Cardinality(Unposted(d)') \in Nat
           /\ Cardinality(Unposted(d)') <= Cardinality(Unposted(d))
  BY UnpostedType, FS_Subset, FS_CardinalityType

LEMMA OneUnpostedLess ==
    ASSUME HooksTypeOK, NEW d, NEW c \in Unposted(d), Unposted(d)' \subseteq Unposted(d) \ {c}
    PROVE  /\ Cardinality(Unposted(d)') \in Nat
           /\ Cardinality(Unposted(d)') + 1 <= Cardinality(Unposted(d))
  <1> DEFINE U == Unposted(d)
             V == Unposted(d)'
  <1>1. IsFiniteSet(U) /\ Cardinality(U) \in Nat
    BY UnpostedType
  <1> HIDE DEF U, V
  <1>2. /\ IsFiniteSet(U \ {c})
        /\ Cardinality(U \ {c}) = Cardinality(U) - 1
    BY <1>1, FS_RemoveElement DEF U
  <1>3. IsFiniteSet(V) /\ Cardinality(V) <= Cardinality(U \ {c})
    BY <1>2, FS_Subset DEF U, V
  <1>4. Cardinality(V) \in Nat
    BY <1>3, FS_CardinalityType
  <1>5. Cardinality(V) + 1 <= Cardinality(U)
    BY <1>1, <1>2, <1>3, <1>4
  <1> QED
    BY <1>4, <1>5 DEF U, V

LEMMA OneUnpostedMore ==
    ASSUME HooksTypeOK, NEW d, NEW c, Unposted(d)' \subseteq Unposted(d) \cup {c}
    PROVE  /\ Cardinality(Unposted(d)') \in Nat
           /\ Cardinality(Unposted(d)') <= Cardinality(Unposted(d)) + 1
  <1> DEFINE U == Unposted(d)
             V == Unposted(d)'
  <1>1. IsFiniteSet(U) /\ Cardinality(U) \in Nat
    BY UnpostedType
  <1> HIDE DEF U, V
  <1>2. IsFiniteSet(U \cup {c}) /\ Cardinality(U \cup {c}) <= Cardinality(U) + 1
    BY <1>1, FS_AddElement
  <1>3. IsFiniteSet(V) /\ Cardinality(V) <= Cardinality(U \cup {c})
    BY <1>2, FS_Subset DEF U, V
  <1>4. Cardinality(V) \in Nat /\ Cardinality(U \cup {c}) \in Nat
    BY <1>2, <1>3, FS_CardinalityType
  <1>5. Cardinality(V) <= Cardinality(U) + 1
    BY <1>1, <1>2, <1>3, <1>4
  <1> QED
    BY <1>4, <1>5 DEF U, V

(* Claims are dropped and nothing else happens (DeliveryStoreFails, Crash). *)
LEMMA DropKeeps ==
    ASSUME HooksInv, claims' \subseteq claims, UNCHANGED <<endpoint, row, posts, late, admin>>
    PROVE  HooksInv'
  <1>1. HooksTypeOK'
    BY FS_Subset DEF HooksInv, HooksTypeOK, ClaimRecord, DeliveryRow
  <1>2. \A d : Unposted(d)' \subseteq Unposted(d)
    BY DEF Unposted
  <1>3. \A d : /\ Cardinality(Unposted(d)') \in Nat /\ Cardinality(Unposted(d)) \in Nat
               /\ Cardinality(Unposted(d)') <= Cardinality(Unposted(d))
    BY <1>2, FewerUnposted, UnpostedType DEF HooksInv
  <1>4. AttemptsCoverClaims'
    BY <1>3 DEF HooksInv, HooksTypeOK, DeliveryRow, AttemptsCoverClaims, DeliveryStatus, Absent
  <1>5. ClaimsOwnRows' /\ EndpointsUntouched' /\ DeadLetterEarned'
    BY DEF HooksInv, ClaimsOwnRows, EndpointsUntouched, DeadLetterEarned, DeliveryStatus
  <1> QED
    BY <1>1, <1>4, <1>5 DEF HooksInv

(* A claim goes on: to its POST, past it, or past the need of one           *)
(* (fetchEndpoint, Post).                                                   *)
LEMMA MoveKeeps ==
    ASSUME HooksInv, NEW c \in claims, NEW label \in {"post", "ok", "failed", "inactive"},
           Move(c, label), UNCHANGED <<endpoint, row, late, admin>>,
           label = "inactive" => endpoint[c.row[2]] # "active",
           \/ c.pc = "queued" /\ label # "ok" /\ UNCHANGED posts
           \/ /\ c.pc = "post" /\ label \in {"ok", "failed"}
              /\ posts' = [posts EXCEPT ![c.row] = @ + 1]
    PROVE  HooksInv'
  <1> DEFINE e == [c EXCEPT !.pc = label]
  <1>1. ClaimRecord(c) /\ c.row \in Rows
    BY DEF HooksInv, HooksTypeOK, ClaimRecord
  <1>2. /\ ClaimRecord(e) /\ e.row = c.row /\ e.pc = label /\ e.count = c.count
        /\ e.attempts = c.attempts
    BY <1>1 DEF ClaimRecord
  <1>3. claims' = (claims \ {c}) \cup {e}
    BY DEF Move
  <1> HIDE DEF e
  <1>4. HooksTypeOK'
    <2>1. IsFiniteSet(claims')
      BY <1>3, FS_RemoveElement, FS_AddElement DEF HooksInv, HooksTypeOK
    <2>2. \A x \in claims' : ClaimRecord(x)
      BY <1>2, <1>3 DEF HooksInv, HooksTypeOK
    <2> QED
      BY <1>1, <2>1, <2>2 DEF HooksInv, HooksTypeOK, DeliveryRow, ClaimRecord
  <1>5. \A d \in Rows : posts'[d] + Cardinality(Unposted(d)') <= posts[d] + Cardinality(Unposted(d))
    <2>1. ASSUME NEW d \in Rows, d # c.row
          PROVE  posts'[d] + Cardinality(Unposted(d)') <= posts[d] + Cardinality(Unposted(d))
      <3>1. Unposted(d)' \subseteq Unposted(d)
        BY <1>2, <1>3, <2>1 DEF Unposted
      <3> QED
        BY <2>1, <3>1, FewerUnposted, UnpostedType DEF HooksInv, HooksTypeOK
    <2>2. c \in Unposted(c.row)
      BY DEF Unposted
    <2>3. CASE label = "post"
      <3>1. PICK d : d = c.row
        OBVIOUS
      <3>2. Unposted(d)' \subseteq (Unposted(d) \ {c}) \cup {e}
        BY <1>2, <1>3, <2>3, <3>1 DEF Unposted
      <3>3. IsFiniteSet(Unposted(d)) /\ Cardinality(Unposted(d)) \in Nat
        BY UnpostedType DEF HooksInv
      <3>4. /\ IsFiniteSet(Unposted(d) \ {c})
            /\ Cardinality(Unposted(d) \ {c}) = Cardinality(Unposted(d)) - 1
        BY <2>2, <3>1, <3>3, FS_RemoveElement
      <3>5. /\ IsFiniteSet((Unposted(d) \ {c}) \cup {e})
            /\ Cardinality((Unposted(d) \ {c}) \cup {e}) <= Cardinality(Unposted(d))
        <4> DEFINE V == Unposted(d) \ {c}
        <4>1. IsFiniteSet(V) /\ Cardinality(V) = Cardinality(Unposted(d)) - 1
          BY <3>4
        <4> HIDE DEF V
        <4>2. /\ IsFiniteSet(V \cup {e})
              /\ Cardinality(V \cup {e}) = IF e \in V THEN Cardinality(V) ELSE Cardinality(V) + 1
          BY <4>1, FS_AddElement
        <4>3. Cardinality(V \cup {e}) <= Cardinality(Unposted(d))
          BY <3>3, <4>1, <4>2
        <4> QED
          BY <4>2, <4>3 DEF V
      <3>6. /\ Cardinality(Unposted(d)') <= Cardinality((Unposted(d) \ {c}) \cup {e})
            /\ IsFiniteSet(Unposted(d)')
        BY <3>2, <3>5, FS_Subset
      <3>7. Cardinality(Unposted(d)') \in Nat /\ Cardinality((Unposted(d) \ {c}) \cup {e}) \in Nat
        BY <3>5, <3>6, FS_CardinalityType
      <3>8. Cardinality(Unposted(d)') <= Cardinality(Unposted(d))
        BY <3>3, <3>5, <3>6, <3>7
      <3>9. UNCHANGED posts /\ posts[d] \in Nat
        BY <1>1, <2>3, <3>1 DEF HooksInv, HooksTypeOK
      <3>10. posts'[d] + Cardinality(Unposted(d)') <= posts[d] + Cardinality(Unposted(d))
        BY <3>3, <3>7, <3>8, <3>9
      <3> QED
        BY <2>1, <3>1, <3>10
    <2>4. CASE label # "post"
      <3>1. PICK d : d = c.row
        OBVIOUS
      <3>2. Unposted(d)' \subseteq Unposted(d) \ {c}
        BY <1>2, <1>3, <2>4, <3>1 DEF Unposted
      <3>3. /\ Cardinality(Unposted(d)') \in Nat /\ Cardinality(Unposted(d)) \in Nat
            /\ Cardinality(Unposted(d)') + 1 <= Cardinality(Unposted(d))
        BY <2>2, <3>1, <3>2, OneUnpostedLess, UnpostedType DEF HooksInv
      <3>4. posts[d] \in Nat /\ (posts'[d] = posts[d] \/ posts'[d] = posts[d] + 1)
        BY <1>1, <3>1 DEF HooksInv, HooksTypeOK
      <3>5. posts'[d] + Cardinality(Unposted(d)') <= posts[d] + Cardinality(Unposted(d))
        BY <3>3, <3>4
      <3> QED
        BY <2>1, <3>1, <3>5
    <2> QED
      BY <2>3, <2>4
  <1>6. AttemptsCoverClaims'
    <2> SUFFICES ASSUME NEW d \in Rows
                 PROVE  /\ DeliveryStatus(d)' = "absent" => posts'[d] = 0 /\ \A x \in claims' : x.row # d
                        /\ DeliveryStatus(d)' \notin {"absent", "deleted"} =>
                              posts'[d] + Cardinality(Unposted(d)') <= row'[d].attempts
      BY DEF AttemptsCoverClaims
    <2>1. DeliveryStatus(d)' = DeliveryStatus(d) /\ row'[d] = row[d]
      BY DEF DeliveryStatus
    <2>2. CASE DeliveryStatus(d) = "absent"
      <3>1. posts[d] = 0 /\ d # c.row /\ \A x \in claims : x.row # d
        BY <2>2 DEF HooksInv, AttemptsCoverClaims
      <3>2. posts'[d] = 0
        BY <1>1, <3>1 DEF HooksInv, HooksTypeOK
      <3> QED
        BY <1>2, <1>3, <2>1, <2>2, <3>1, <3>2
    <2>3. CASE DeliveryStatus(d) \notin {"absent", "deleted"}
      <3>1. /\ posts[d] + Cardinality(Unposted(d)) <= row[d].attempts /\ row[d].attempts \in Nat
        BY <2>3 DEF HooksInv, AttemptsCoverClaims, HooksTypeOK, DeliveryRow, DeliveryStatus, Absent
      <3>2. posts[d] \in Nat /\ posts'[d] \in Nat /\ Cardinality(Unposted(d)) \in Nat
            /\ Cardinality(Unposted(d)') \in Nat
        <4>1. Cardinality(Unposted(d)) \in Nat
          BY UnpostedType DEF HooksInv
        <4>2. Cardinality(Unposted(d)') \in Nat
          <5>1. Unposted(d)' \in SUBSET claims' /\ IsFiniteSet(claims')
            BY <1>4 DEF Unposted, HooksTypeOK
          <5> QED
            BY <5>1, FS_Subset, FS_CardinalityType
        <4> QED
          BY <1>4, <4>1, <4>2 DEF HooksInv, HooksTypeOK
      <3>3. posts'[d] + Cardinality(Unposted(d)') <= posts[d] + Cardinality(Unposted(d))
        BY <1>5
      <3>4. posts'[d] + Cardinality(Unposted(d)') <= row[d].attempts
        BY <3>1, <3>2, <3>3
      <3> QED
        BY <2>1, <2>3, <3>4
    <2> QED
      BY <2>1, <2>2, <2>3
  <1>7. ClaimsOwnRows'
    BY <1>2, <1>3 DEF HooksInv, ClaimsOwnRows, DeliveryStatus
  <1>8. EndpointsUntouched'
    <2>1. c.row[2] \in Endpoint
      BY <1>1 DEF Rows
    <2> QED
      BY <1>2, <1>3, <2>1 DEF HooksInv, EndpointsUntouched, DeliveryStatus
  <1>9. DeadLetterEarned'
    BY DEF HooksInv, DeadLetterEarned, DeliveryStatus
  <1> QED
    BY <1>4, <1>6, <1>7, <1>8, <1>9 DEF HooksInv

(* A claim is over and its row is settled or put back: by the rate limiter, *)
(* which takes back the attempt of a claim that has not posted, or by a     *)
(* mark (RequeueWithDelay, MarkDelivered, MarkDeliveryFailed).              *)
LEMMA SettleKeeps ==
    ASSUME HooksInv, NEW c \in claims, claims' = claims \ {c},
           UNCHANGED <<endpoint, posts, late, admin>>,
           DeliveryStatus(c.row) # "deleted",
           NEW r1, row' = [row EXCEPT ![c.row] = r1],
           DeliveryRow(r1), r1.status \in {"pending", "delivered", "dead_letter"},
           \/ r1.attempts = row[c.row].attempts
           \/ c.pc = "queued" /\ r1.attempts = row[c.row].attempts - 1,
           late = 0 /\ admin = 0 /\ r1.status = "dead_letter" => r1.attempts >= MaxAttempts
    PROVE  HooksInv'
  <1>1. PICK d0 \in Rows : d0 = c.row
    BY DEF HooksInv, HooksTypeOK, ClaimRecord
  <1>2. /\ row'[d0] = r1 /\ \A d \in Rows \ {d0} : row'[d] = row[d]
    BY <1>1 DEF HooksInv, HooksTypeOK
  <1>3. HooksTypeOK'
    <2>1. IsFiniteSet(claims')
      BY FS_RemoveElement DEF HooksInv, HooksTypeOK
    <2>2. \A d \in Rows : DeliveryRow(row'[d])
      BY <1>2 DEF HooksInv, HooksTypeOK
    <2> QED
      BY <1>1, <2>1, <2>2 DEF HooksInv, HooksTypeOK, DeliveryRow, ClaimRecord
  <1>4. AttemptsCoverClaims'
    <2>1. \A d : Unposted(d)' \subseteq Unposted(d)
      BY DEF Unposted
    <2>2. \A d : /\ Cardinality(Unposted(d)') \in Nat /\ Cardinality(Unposted(d)) \in Nat
                 /\ Cardinality(Unposted(d)') <= Cardinality(Unposted(d))
      BY <2>1, FewerUnposted, UnpostedType DEF HooksInv
    <2>3. ASSUME NEW d \in Rows \ {d0}
          PROVE  /\ DeliveryStatus(d)' = "absent" => posts'[d] = 0 /\ \A x \in claims' : x.row # d
                 /\ DeliveryStatus(d)' \notin {"absent", "deleted"} =>
                       posts'[d] + Cardinality(Unposted(d)') <= row'[d].attempts
      BY <1>2, <2>2 DEF HooksInv, HooksTypeOK, DeliveryRow, AttemptsCoverClaims, DeliveryStatus, Absent
    <2>4. /\ DeliveryStatus(d0) \notin {"absent", "deleted"}
          /\ posts[d0] + Cardinality(Unposted(d0)) <= row[d0].attempts
          /\ row[d0].attempts \in Nat /\ posts[d0] \in Nat
      BY <1>1 DEF HooksInv, HooksTypeOK, DeliveryRow, AttemptsCoverClaims, DeliveryStatus, Absent
    <2>5. posts'[d0] + Cardinality(Unposted(d0)') <= r1.attempts
      <3>1. CASE r1.attempts = row[d0].attempts
        BY <2>2, <2>4, <3>1
      <3>2. CASE c.pc = "queued" /\ r1.attempts = row[d0].attempts - 1
        <4>1. c \in Unposted(d0) /\ Unposted(d0)' \subseteq Unposted(d0) \ {c}
          BY <1>1, <3>2 DEF Unposted
        <4>2. Cardinality(Unposted(d0)') + 1 <= Cardinality(Unposted(d0))
          BY <4>1, OneUnpostedLess DEF HooksInv
        <4> QED
          BY <2>2, <2>4, <3>2, <4>2
      <3> QED
        BY <1>1, <3>1, <3>2
    <2>6. DeliveryStatus(d0)' # "absent"
      BY <1>2 DEF DeliveryStatus
    <2> QED
      BY <1>2, <2>3, <2>5, <2>6 DEF AttemptsCoverClaims
  <1>5. ClaimsOwnRows'
    BY <1>1, <1>2 DEF HooksInv, HooksTypeOK, ClaimRecord, ClaimsOwnRows, DeliveryStatus
  <1>6. EndpointsUntouched' /\ DeadLetterEarned'
    BY <1>2 DEF HooksInv, EndpointsUntouched, DeadLetterEarned, DeliveryStatus
  <1> QED
    BY <1>3, <1>4, <1>5, <1>6 DEF HooksInv

(* A claim: the row was pending, so without late leases nobody had it. *)
LEMMA ClaimKeeps ==
    ASSUME HooksInv, NEW r \in HookReplica, NEW d0 \in Rows, ClaimDeliveries(r, d0)
    PROVE  HooksInv'
  <1> DEFINE old == row[d0]
             r1 == [old EXCEPT !.status = "in_flight", !.lease = "live",
                               !.attempts = @ + 1, !.count = @ + 1]
             c == [by |-> r, row |-> d0, attempts |-> old.attempts + 1, count |-> old.count + 1,
                   pc |-> "queued"]
  <1>1. /\ old.status = "pending" /\ DeliveryRow(old)
        /\ old = [status |-> "pending", due |-> old.due, attempts |-> old.attempts, lease |-> old.lease,
                  count |-> old.count]
        /\ old.attempts \in Nat /\ old.count \in Nat
    BY DEF ClaimDeliveries, ClaimableDelivery, DeliveryStatus, HooksInv, HooksTypeOK, DeliveryRow, Absent
  <1>2. r1 \in [status : {"in_flight"}, due : {old.due}, attempts : {old.attempts + 1}, lease : {"live"},
                count : {old.count + 1}]
    BY <1>1
  <1>3. /\ claims' = claims \cup {c} /\ row' = [row EXCEPT ![d0] = r1]
        /\ UNCHANGED <<endpoint, posts, late, admin>>
    BY DEF ClaimDeliveries, CountedAttempt
  <1>4. /\ c.row = d0 /\ c.attempts = old.attempts + 1 /\ c.count = old.count + 1 /\ c.pc = "queued"
        /\ ClaimRecord(c)
    BY DEF ClaimRecord
  <1> HIDE DEF r1, c
  <1>5. /\ DeliveryRow(r1) /\ r1.status = "in_flight" /\ r1.attempts = old.attempts + 1
        /\ r1.lease = "live" /\ r1.count = old.count + 1
    BY <1>1, <1>2 DEF DeliveryRow
  <1>6. /\ row'[d0] = r1 /\ \A d \in Rows \ {d0} : row'[d] = row[d]
    BY <1>3 DEF HooksInv, HooksTypeOK
  <1>7. HooksTypeOK'
    <2>1. IsFiniteSet(claims') /\ \A x \in claims' : ClaimRecord(x)
      BY <1>3, <1>4, FS_AddElement DEF HooksInv, HooksTypeOK
    <2>2. \A d \in Rows : DeliveryRow(row'[d])
      BY <1>5, <1>6 DEF HooksInv, HooksTypeOK
    <2> QED
      BY <1>3, <2>1, <2>2 DEF HooksInv, HooksTypeOK, DeliveryRow, ClaimRecord
  <1>8. AttemptsCoverClaims'
    <2>1. ASSUME NEW d \in Rows \ {d0}
          PROVE  /\ DeliveryStatus(d)' = "absent" => posts'[d] = 0 /\ \A x \in claims' : x.row # d
                 /\ DeliveryStatus(d)' \notin {"absent", "deleted"} =>
                       posts'[d] + Cardinality(Unposted(d)') <= row'[d].attempts
      <3>1. Unposted(d)' = Unposted(d)
        BY <1>3, <1>4 DEF Unposted
      <3> QED
        BY <1>3, <1>4, <1>6, <3>1 DEF HooksInv, AttemptsCoverClaims, DeliveryStatus
    <2>2. Unposted(d0)' \subseteq Unposted(d0) \cup {c}
      BY <1>3 DEF Unposted
    <2>3. /\ Cardinality(Unposted(d0)') \in Nat /\ Cardinality(Unposted(d0)) \in Nat
          /\ Cardinality(Unposted(d0)') <= Cardinality(Unposted(d0)) + 1
      BY <2>2, OneUnpostedMore, UnpostedType DEF HooksInv
    <2>4. posts[d0] + Cardinality(Unposted(d0)) <= old.attempts /\ posts[d0] \in Nat
      BY <1>1 DEF HooksInv, HooksTypeOK, AttemptsCoverClaims, DeliveryStatus
    <2>5. posts'[d0] + Cardinality(Unposted(d0)') <= row'[d0].attempts
      BY <1>1, <1>3, <1>5, <1>6, <2>3, <2>4
    <2>6. DeliveryStatus(d0)' = "in_flight"
      BY <1>5, <1>6 DEF DeliveryStatus
    <2> QED
      BY <2>1, <2>5, <2>6 DEF AttemptsCoverClaims
  <1>9. ClaimsOwnRows'
    <2>1. late = 0 => \A x \in claims : x.row # d0
      BY <1>1 DEF HooksInv, ClaimsOwnRows, DeliveryStatus
    <2> QED
      BY <1>3, <1>4, <1>5, <1>6, <2>1 DEF HooksInv, HooksTypeOK, ClaimRecord, ClaimsOwnRows, DeliveryStatus
  <1>10. EndpointsUntouched' /\ DeadLetterEarned'
    BY <1>3, <1>4, <1>5, <1>6 DEF HooksInv, EndpointsUntouched, DeadLetterEarned, DeliveryStatus
  <1> QED
    BY <1>7, <1>8, <1>9, <1>10 DEF HooksInv

(* Only rows change, and none of them loses attempts: time passes, the      *)
(* sweeper or the tenant acts (ComesDue, LeaseRunsOut, RecoverStuck,        *)
(* RetryDeadLetter, DeleteEndpoint, Publish).                               *)
LEMMA RowsChangeKeeps ==
    ASSUME HooksInv, UNCHANGED <<claims, posts>>, DOMAIN row' = Rows, DOMAIN endpoint' = Endpoint,
           late' \in Nat, late' = 0 => late = 0, admin' \in Nat, admin' = 0 => admin = 0 /\ UNCHANGED endpoint,
           \A d \in Rows :
              /\ DeliveryRow(row'[d])
              /\ DeliveryStatus(d)' = "absent" => DeliveryStatus(d) = "absent"
              /\ DeliveryStatus(d) = "deleted" => DeliveryStatus(d)' = "deleted"
              /\ DeliveryStatus(d)' = "deleted" /\ admin' = 0 => DeliveryStatus(d) = "deleted"
              /\ DeliveryStatus(d) \notin {"absent", "deleted"} /\ DeliveryStatus(d)' # "deleted" =>
                    row'[d].attempts = row[d].attempts
              /\ DeliveryStatus(d)' = "dead_letter" => DeliveryStatus(d) = "dead_letter"
              /\ late' = 0 /\ DeliveryStatus(d) = "in_flight" /\ DeliveryStatus(d)' # "deleted" =>
                    \/ \A c \in claims : c.row # d
                    \/ row'[d] = row[d]
    PROVE  HooksInv'
  <1>1. HooksTypeOK'
    BY DEF HooksInv, HooksTypeOK, ClaimRecord, DeliveryRow
  <1>2. \A d : Unposted(d)' = Unposted(d)
    BY DEF Unposted
  <1>3. AttemptsCoverClaims'
    <2> SUFFICES ASSUME NEW d \in Rows
                 PROVE  /\ DeliveryStatus(d)' = "absent" => posts'[d] = 0 /\ \A x \in claims' : x.row # d
                        /\ DeliveryStatus(d)' \notin {"absent", "deleted"} =>
                              posts'[d] + Cardinality(Unposted(d)') <= row'[d].attempts
      BY DEF AttemptsCoverClaims
    <2>1. CASE DeliveryStatus(d)' = "absent"
      BY <2>1 DEF HooksInv, AttemptsCoverClaims
    <2>2. CASE DeliveryStatus(d) = "absent" /\ DeliveryStatus(d)' \notin {"absent", "deleted"}
      <3>1. posts[d] = 0 /\ Unposted(d) = {}
        BY <2>2 DEF HooksInv, AttemptsCoverClaims, Unposted
      <3>2. row'[d].attempts \in Nat
        BY <2>2 DEF DeliveryRow, DeliveryStatus, Absent
      <3> QED
        BY <1>2, <2>2, <3>1, <3>2, FS_EmptySet
    <2>3. CASE DeliveryStatus(d) # "absent" /\ DeliveryStatus(d)' \notin {"absent", "deleted"}
      BY <1>2, <2>3 DEF HooksInv, AttemptsCoverClaims
    <2> QED
      BY <2>1, <2>2, <2>3
  <1>4. ClaimsOwnRows'
    BY DEF HooksInv, HooksTypeOK, ClaimRecord, ClaimsOwnRows, DeliveryStatus
  <1>5. EndpointsUntouched'
    BY DEF HooksInv, EndpointsUntouched
  <1>6. DeadLetterEarned'
    BY DEF HooksInv, DeadLetterEarned
  <1> QED
    BY <1>1, <1>3, <1>4, <1>5, <1>6 DEF HooksInv

LEMMA HooksInvStep == ASSUME HooksInv, [HookNext]_hookVars PROVE HooksInv'
  <1>1. ASSUME NEW e \in Event, Publish(e) PROVE HooksInv'
    <2>1. DeliveryRow(NewRow) /\ NewRow.status = "pending" /\ NewRow.attempts = 0
      BY DEF DeliveryRow, NewRow
    <2>2. UNCHANGED <<claims, posts, endpoint, late, admin>> /\ DOMAIN row' = Rows
      BY <1>1 DEF Publish
    <2>3. \A d \in Rows : row'[d] = row[d] \/ (DeliveryStatus(d) = "absent" /\ row'[d] = NewRow)
      BY <1>1 DEF Publish
    <2> QED
      BY <2>1, <2>2, <2>3, RowsChangeKeeps DEF HooksInv, HooksTypeOK, DeliveryStatus
  <1>2. ASSUME NEW p \in Endpoint, UpdateEndpoint(p) PROVE HooksInv'
    <2>1. /\ UNCHANGED <<row, claims, posts, late>> /\ DOMAIN endpoint' = Endpoint
          /\ admin' \in Nat /\ admin' # 0
      BY <1>2 DEF UpdateEndpoint, HooksInv, HooksTypeOK
    <2> QED
      BY <2>1, RowsChangeKeeps DEF HooksInv, HooksTypeOK, DeliveryStatus
  <1>3. ASSUME NEW p \in Endpoint, DeleteEndpoint(p) PROVE HooksInv'
    <2>1. /\ UNCHANGED <<claims, posts, late>> /\ DOMAIN endpoint' = Endpoint /\ DOMAIN row' = Rows
          /\ admin' \in Nat /\ admin' # 0
      BY <1>3 DEF DeleteEndpoint, HooksInv, HooksTypeOK
    <2>2. \A d \in Rows : \/ row'[d] = row[d]
                          \/ DeliveryStatus(d) # "absent" /\ row'[d] = [status |-> "deleted"]
      BY <1>3 DEF DeleteEndpoint
    <2> QED
      BY <2>1, <2>2, RowsChangeKeeps DEF HooksInv, HooksTypeOK, DeliveryRow, DeliveryStatus
  <1>4. ASSUME NEW d \in Rows, RetryDeadLetter(d) PROVE HooksInv'
    <2>1. /\ UNCHANGED <<claims, posts, late, endpoint>> /\ admin' \in Nat /\ admin' # 0
          /\ DOMAIN row' = Rows /\ \A x \in Rows \ {d} : row'[x] = row[x]
      BY <1>4 DEF RetryDeadLetter, HooksInv, HooksTypeOK
    <2>2. /\ DeliveryStatus(d) = "dead_letter" /\ DeliveryRow(row'[d])
          /\ row'[d].status = "pending" /\ row'[d].attempts = row[d].attempts
      <3> DEFINE old == row[d]
      <3>1. /\ old = [status |-> old.status, due |-> old.due, attempts |-> old.attempts,
                      lease |-> old.lease, count |-> old.count]
            /\ old.attempts \in Nat /\ old.count \in Nat /\ DeliveryStatus(d) = "dead_letter"
        BY <1>4 DEF RetryDeadLetter, HooksInv, HooksTypeOK, DeliveryStatus, DeliveryRow, Absent
      <3>2. row'[d] \in [status : {"pending"}, due : {TRUE}, attempts : {old.attempts},
                         lease : {old.lease}, count : {old.count}]
        BY <1>4, <3>1 DEF RetryDeadLetter, HooksInv, HooksTypeOK, DeliveryStatus
      <3> QED
        BY <3>1, <3>2 DEF DeliveryRow
    <2> QED
      BY <2>1, <2>2, RowsChangeKeeps DEF HooksInv, HooksTypeOK, DeliveryStatus
  <1>5. ASSUME NEW d \in Rows, Claim(d) PROVE HooksInv'
    BY <1>5, ClaimKeeps DEF Claim
  <1>6. ASSUME NEW d \in Rows, ComesDue(d) PROVE HooksInv'
    <2>1. /\ UNCHANGED <<claims, posts, late, endpoint, admin>>
          /\ DOMAIN row' = Rows /\ \A x \in Rows \ {d} : row'[x] = row[x]
      BY <1>6 DEF ComesDue, HooksInv, HooksTypeOK
    <2>2. /\ DeliveryStatus(d) = "pending" /\ DeliveryRow(row'[d])
          /\ row'[d].status = "pending" /\ row'[d].attempts = row[d].attempts
      <3> DEFINE old == row[d]
      <3>1. /\ old = [status |-> old.status, due |-> old.due, attempts |-> old.attempts,
                      lease |-> old.lease, count |-> old.count]
            /\ old.attempts \in Nat /\ old.count \in Nat /\ DeliveryStatus(d) = "pending"
        BY <1>6 DEF ComesDue, HooksInv, HooksTypeOK, DeliveryStatus, DeliveryRow, Absent
      <3>2. row'[d] \in [status : {"pending"}, due : {TRUE}, attempts : {old.attempts},
                         lease : {old.lease}, count : {old.count}]
        BY <1>6, <3>1 DEF ComesDue, HooksInv, HooksTypeOK, DeliveryStatus
      <3> QED
        BY <3>1, <3>2 DEF DeliveryRow
    <2> QED
      BY <2>1, <2>2, RowsChangeKeeps DEF HooksInv, HooksTypeOK, DeliveryStatus
  <1>7. ASSUME NEW d \in Rows, LeaseRunsOut(d) PROVE HooksInv'
    <2>1. /\ UNCHANGED <<claims, posts, endpoint, admin>>
          /\ DOMAIN row' = Rows /\ \A x \in Rows \ {d} : row'[x] = row[x]
          /\ late' \in Nat /\ (late' = 0 => late = 0 /\ Orphaned(d))
      BY <1>7 DEF LeaseRunsOut, HooksInv, HooksTypeOK
    <2>2. /\ DeliveryStatus(d) = "in_flight" /\ DeliveryRow(row'[d])
          /\ row'[d].status = "in_flight" /\ row'[d].attempts = row[d].attempts
      BY <1>7 DEF LeaseRunsOut, HooksInv, HooksTypeOK, DeliveryStatus, DeliveryRow, Absent
    <2>3. late' = 0 => \A c \in claims : c.row # d
      BY <2>1, <2>2 DEF Orphaned, HooksInv, ClaimsOwnRows
    <2> QED
      BY <2>1, <2>2, <2>3, RowsChangeKeeps DEF HooksInv, HooksTypeOK, DeliveryStatus
  <1>8. CASE RecoverStuck
    <2>1. UNCHANGED <<claims, posts, late, endpoint, admin>> /\ DOMAIN row' = Rows
      BY <1>8 DEF RecoverStuck
    <2>2. ASSUME NEW d \in Rows, Stuck(d)
          PROVE  /\ DeliveryStatus(d) = "in_flight" /\ DeliveryRow(row'[d])
                 /\ row'[d].status = "pending" /\ row'[d].attempts = row[d].attempts
                 /\ late = 0 => \A c \in claims : c.row # d
      <3> DEFINE old == row[d]
                 r1 == Cleared([row[d] EXCEPT !.status = "pending", !.due = TRUE])
      <3>1. /\ old = [status |-> old.status, due |-> old.due, attempts |-> old.attempts,
                      lease |-> old.lease, count |-> old.count]
            /\ old.attempts \in Nat /\ old.count \in Nat /\ DeliveryStatus(d) = "in_flight"
        BY <2>2 DEF Stuck, HooksInv, HooksTypeOK, DeliveryStatus, DeliveryRow, Absent
      <3>2. r1 \in [status : {"pending"}, due : {TRUE}, attempts : {old.attempts}, lease : {"none"},
                    count : {old.count}]
        BY <3>1 DEF Cleared
      <3>3. row'[d] = r1
        BY <1>8, <2>2 DEF RecoverStuck
      <3> HIDE DEF r1
      <3>4. DeliveryRow(r1) /\ r1.status = "pending" /\ r1.attempts = old.attempts
        BY <3>1, <3>2 DEF DeliveryRow
      <3>5. late = 0 => \A c \in claims : c.row # d
        BY <2>2 DEF Stuck, HooksInv, ClaimsOwnRows
      <3> QED
        BY <3>1, <3>3, <3>4, <3>5
    <2>3. \A d \in Rows : ~ Stuck(d) => row'[d] = row[d]
      BY <1>8 DEF RecoverStuck
    <2> QED
      BY <2>1, <2>2, <2>3, RowsChangeKeeps DEF HooksInv, HooksTypeOK, DeliveryStatus
  <1>9. ASSUME NEW c \in claims, fetchEndpoint(c) PROVE HooksInv'
    BY <1>9, MoveKeeps DEF fetchEndpoint
  <1>10. ASSUME NEW c \in claims, Post(c) PROVE HooksInv'
    BY <1>10, MoveKeeps DEF Post
  <1>11. ASSUME NEW c \in claims, MarkDelivered(c) PROVE HooksInv'
    <2>1. CASE DeliveryStatus(c.row) = "deleted"
      BY <1>11, <2>1, DropKeeps DEF MarkDelivered, Drop
    <2>2. CASE DeliveryStatus(c.row) # "deleted"
      <3> DEFINE old == row[c.row]
                 r1 == Cleared([old EXCEPT !.status = "delivered"])
      <3>1. /\ old = [status |-> old.status, due |-> old.due, attempts |-> old.attempts,
                      lease |-> old.lease, count |-> old.count]
            /\ old.attempts \in Nat /\ old.count \in Nat
        BY <2>2 DEF HooksInv, HooksTypeOK, ClaimRecord, AttemptsCoverClaims, DeliveryStatus, DeliveryRow, Absent
      <3>2. r1 \in [status : {"delivered"}, due : {old.due}, attempts : {old.attempts}, lease : {"none"},
                    count : {old.count}]
        BY <3>1 DEF Cleared
      <3>3. /\ row' = [row EXCEPT ![c.row] = r1] /\ claims' = claims \ {c}
            /\ UNCHANGED <<endpoint, posts, late, admin>>
        BY <1>11, <2>2 DEF MarkDelivered, Drop
      <3> HIDE DEF r1
      <3>4. DeliveryRow(r1) /\ r1.status = "delivered" /\ r1.attempts = old.attempts
        BY <3>1, <3>2 DEF DeliveryRow
      <3> QED
        BY <2>2, <3>3, <3>4, SettleKeeps
    <2> QED
      BY <2>1, <2>2
  <1>12. ASSUME NEW c \in claims, MarkDeliveryFailed(c) PROVE HooksInv'
    <2>1. CASE DeliveryStatus(c.row) = "deleted"
      BY <1>12, <2>1, DropKeeps DEF MarkDeliveryFailed, Drop
    <2>2. CASE DeliveryStatus(c.row) # "deleted"
      <3> DEFINE old == row[c.row]
                 st == IF c.pc = "inactive" \/ exhausted(c.attempts) THEN "dead_letter" ELSE "pending"
                 r1 == Cleared([old EXCEPT !.due = FALSE, !.status = st])
      <3>1. /\ old = [status |-> old.status, due |-> old.due, attempts |-> old.attempts,
                      lease |-> old.lease, count |-> old.count]
            /\ old.attempts \in Nat /\ old.count \in Nat /\ old.status # "absent"
        BY <2>2 DEF HooksInv, HooksTypeOK, ClaimRecord, AttemptsCoverClaims, DeliveryStatus, DeliveryRow, Absent
      <3>2. /\ row' = [row EXCEPT ![c.row] = r1] /\ claims' = claims \ {c}
            /\ UNCHANGED <<endpoint, posts, late, admin>>
        BY <1>12, <2>2 DEF MarkDeliveryFailed, Drop
      <3>3. late = 0 /\ admin = 0 /\ st = "dead_letter" => old.attempts >= MaxAttempts
        <4>1. late = 0 => old.attempts = c.attempts
          BY <2>2 DEF HooksInv, ClaimsOwnRows, DeliveryStatus
        <4>2. admin = 0 => c.pc # "inactive"
          BY DEF HooksInv, EndpointsUntouched
        <4> QED
          BY <4>1, <4>2 DEF exhausted
      <3>4. st \in {"dead_letter", "pending"}
        OBVIOUS
      <3> HIDE DEF st
      <3>5. r1 \in [status : {st}, due : {FALSE}, attempts : {old.attempts}, lease : {"none"},
                    count : {old.count}]
        BY <3>1 DEF Cleared
      <3> HIDE DEF r1
      <3>6. DeliveryRow(r1) /\ r1.status = st /\ r1.attempts = old.attempts
        BY <3>1, <3>4, <3>5 DEF DeliveryRow
      <3> QED
        BY <2>2, <3>2, <3>3, <3>4, <3>6, SettleKeeps
    <2> QED
      BY <2>1, <2>2
  <1>13. ASSUME NEW c \in claims, RequeueWithDelay(c) PROVE HooksInv'
    <2>1. CASE DeliveryStatus(c.row) # "in_flight"
      BY <1>13, <2>1, DropKeeps DEF RequeueWithDelay, Drop
    <2>2. CASE DeliveryStatus(c.row) = "in_flight"
      <3> DEFINE old == row[c.row]
                 left == IF old.attempts = 0 THEN 0 ELSE old.attempts - 1
                 r1 == Cleared([old EXCEPT !.status = "pending", !.due = FALSE,
                                           !.attempts = IF @ = 0 THEN 0 ELSE @ - 1])
      <3>1. /\ old = [status |-> old.status, due |-> old.due, attempts |-> old.attempts,
                      lease |-> old.lease, count |-> old.count]
            /\ old.attempts \in Nat /\ old.count \in Nat
        BY <2>2 DEF HooksInv, HooksTypeOK, ClaimRecord, DeliveryStatus, DeliveryRow, Absent
      <3>2. r1 \in [status : {"pending"}, due : {FALSE}, attempts : {left}, lease : {"none"},
                    count : {old.count}]
        BY <3>1 DEF Cleared
      <3>3. /\ row' = [row EXCEPT ![c.row] = r1] /\ claims' = claims \ {c}
            /\ UNCHANGED <<endpoint, posts, late, admin>> /\ c.pc = "queued"
        BY <1>13, <2>2 DEF RequeueWithDelay, Drop
      <3>4. left \in Nat /\ (left = old.attempts \/ left = old.attempts - 1)
        BY <3>1
      <3> HIDE DEF r1, left
      <3>5. DeliveryRow(r1) /\ r1.status = "pending" /\ r1.attempts = left
        BY <3>1, <3>2, <3>4 DEF DeliveryRow
      <3> QED
        BY <2>2, <3>3, <3>4, <3>5, SettleKeeps
    <2> QED
      BY <2>1, <2>2
  <1>14. ASSUME NEW c \in claims, DeliveryStoreFails(c) PROVE HooksInv'
    BY <1>14, DropKeeps DEF DeliveryStoreFails, Drop
  <1>15. ASSUME NEW r \in HookReplica, Crash(r) PROVE HooksInv'
    BY <1>15, DropKeeps DEF Crash
  <1>16. CASE UNCHANGED hookVars
    BY <1>16, DropKeeps DEF hookVars
  <1> QED
    BY <1>1, <1>2, <1>3, <1>4, <1>5, <1>6, <1>7, <1>8, <1>9, <1>10, <1>11, <1>12, <1>13, <1>14, <1>15, <1>16
       DEF HookNext, Work

(* One claim of a row at a time while leases hold, no POST that the row's   *)
(* attempts do not cover, and no event given up early, in every behaviour   *)
(* of the dispatcher (ClaimDeliveries, RequeueWithDelay, MarkDelivered,     *)
(* MarkFailed, RecoverStuck).                                               *)
THEOREM DeliveryIsSafe == HookSpec => []DeliverySafe
  <1>1. HooksInv => DeliverySafe
    <2> SUFFICES ASSUME HooksInv PROVE DeliverySafe
      OBVIOUS
    <2>1. LeaseExcludes
      <3> SUFFICES ASSUME late = 0, NEW d \in Rows
                   PROVE  /\ Cardinality(ClaimsOf(d)) <= 1
                          /\ ClaimsOf(d) # {} => DeliveryStatus(d) \in {"in_flight", "deleted"}
        BY DEF LeaseExcludes
      <3>1. ClaimsOf(d) = {} \/ \E c \in claims : ClaimsOf(d) = {c}
        BY DEF ClaimsOf, HooksInv, ClaimsOwnRows
      <3>2. Cardinality(ClaimsOf(d)) \in {0, 1}
        BY <3>1, FS_EmptySet, FS_Singleton, Zenon
      <3> QED
        BY <3>2 DEF ClaimsOf, HooksInv, ClaimsOwnRows
    <2>2. AttemptsCoverPosts
      <3> SUFFICES ASSUME NEW d \in Rows, DeliveryStatus(d) \notin {"absent", "deleted"}
                   PROVE  posts[d] <= row[d].attempts
        BY DEF AttemptsCoverPosts
      <3>1. /\ posts[d] + Cardinality(Unposted(d)) <= row[d].attempts /\ posts[d] \in Nat
            /\ row[d].attempts \in Nat
        BY DEF HooksInv, AttemptsCoverClaims, HooksTypeOK, DeliveryRow, DeliveryStatus, Absent
      <3>2. Cardinality(Unposted(d)) \in Nat
        BY UnpostedType DEF HooksInv
      <3> QED
        BY <3>1, <3>2
    <2> QED
      BY <2>1, <2>2 DEF HooksInv, DeliverySafe
  <1> QED
    BY <1>1, HooksInvInit, HooksInvStep, PTL DEF HookSpec

=============================================================================
