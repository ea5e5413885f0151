----------------------------- MODULE MCWorkers -----------------------------
(***************************************************************************)
(* The gateway's background workers, one at a time: leader election, the   *)
(* future-sign loops, price triggers, oracle feeds, the two halves of the  *)
(* audit log, webhook delivery and the reconciler of swap intents.  They   *)
(* share no row, so a behaviour of all of them is one of each: "part" says *)
(* which one moves.                                                        *)
(***************************************************************************)
EXTENDS FutureSign, PriceTriggers, OracleFeeds, AuditChain, Webhooks, Intents

CONSTANTS
    Candidate,           \* replicas of the election by itself
    i1, s1,              \* a swap intent and a submit of it
    MaxElectionFaults    \* bound: its lost sessions and stopped processes

ASSUME CandidateAssumption == NoReplica \notin Candidate

VARIABLES part, candidates, holder, connection, pinging, losses

electionVars == <<candidates, holder, connection, pinging, losses>>

(* The election of a worker that may return by itself, with more replicas   *)
(* and faults than the future-sign loops can be explored with.              *)
Election == INSTANCE Leader WITH
    Replica <- Candidate, Returns <- TRUE, MaxFaults <- MaxElectionFaults,
    lock <- holder, worker <- candidates, session <- connection, heartbeat <- pinging,
    faults <- losses

workerVars == <<electionVars, allVars, priceTriggerVars, feedVars, auditVars, hookVars, intentVars, part>>

EveryFamily == i1 :> Families
OneSubmit == s1 :> {i1}

WorkersInit ==
    /\ part \in {"leader", "futuresign", "triggers", "feeds", "signing", "reading", "hooks",
                "intents"}
    /\ Election!LeaderInit /\ FutureSignInit /\ TriggerInit /\ FeedInit /\ AuditInit /\ HookInit /\ IntentInit
    /\ part # "feeds" => \A p \in PythPrice : pyth.price <= p

Others(p) ==
    /\ part = p
    /\ UNCHANGED part
    /\ p # "leader" => UNCHANGED electionVars
    /\ p # "futuresign" => UNCHANGED allVars
    /\ p # "triggers" => UNCHANGED priceTriggerVars
    /\ p # "feeds" => UNCHANGED feedVars
    /\ p \notin {"signing", "reading"} => UNCHANGED auditVars
    /\ p # "hooks" => UNCHANGED hookVars
    /\ p # "intents" => UNCHANGED intentVars

WorkersNext ==
    \/ Others("leader") /\ Election!LeaderNext
    \/ Others("futuresign") /\ FutureSignNext
    \/ Others("triggers") /\ TriggerNext
    \/ Others("feeds") /\ FeedNext
    \/ Others("signing") /\ (AppendNext \/ SignNext)
    \/ Others("reading") /\ (AppendNext \/ ReadNext \/ ArchiveNext)
    \/ Others("hooks") /\ HookNext
    \/ Others("intents") /\ IntentNext

(* Fairness.  The steps are those of the modules' own fairness, which they  *)
(* explain; of several replicas, rows or requests, some one gets its turn.  *)
(* Only one part ever moves, so fairness of a disjunction over the parts is *)
(* fairness of the step of each.                                            *)

(* Clocks, tickers and polls come round. *)
TickersTurn ==
    \/ Others("leader") /\ \E r \in Candidate : Election!runOnce(r)
    \/ Others("futuresign") /\ Tick
    \/ Others("triggers") /\ TriggerTick
    \/ Others("feeds") /\ FeedTick
    \/ Others("signing") /\ \E w \in Signer : ClaimUnsigned(w)
    \/ Others("hooks") /\ \E d \in Rows : Claim(d)
    \/ Others("intents") /\ Sweep

(* What has been taken up is gone on with: every call has a timeout. *)
WorkGoesOn ==
    \/ Others("feeds") /\ \E r \in Relay : RefreshGoesOn(r)
    \/ Others("signing") /\ \E w \in Signer : SignBatch(w)
    \/ Others("hooks") /\ \E d \in Rows : WorkOn(d)
    \/ Others("intents") /\ Reconcile
RequestsGoOn == Others("intents") /\ \E s \in Submitter : SubmitStep(s)

(* Processes are started again and abandoned rows are swept up. *)
RestartsCome ==
    \/ Others("leader") /\ \E r \in Candidate : Election!Restart(r)
    \/ Others("futuresign") /\ \E r \in Replica : Restart(r) /\ UNCHANGED triggerVars
    \/ Others("triggers") /\ ReapStuckFiring
    \/ Others("hooks") /\ RecoverStuck
SweepsCome ==
    \/ Others("leader") /\ \E r \in Candidate : Election!HeartbeatFails(r)
    \/ Others("futuresign") /\ \E r \in Replica : runOnce(r) /\ UNCHANGED triggerVars
    \/ Others("triggers") /\ ExpireOverdueTriggers
    \/ Others("hooks") /\ \E d \in Rows : LeaseRunsOut(d) /\ Orphaned(d)

(* Deadlines come, and transactions that a node took are mined. *)
TimePasses ==
    \/ Others("hooks") /\ \E d \in Rows : ComesDue(d)
    \/ Others("intents") /\ \E i \in SwapIntent : Age(i)
ChainGoesOn ==
    Others("intents") /\ \E i \in SwapIntent, which \in {"approve", "swap"} : Mine(i, which)

(* Loops that others' steps disable get their turn now and then. *)
LoopsMeet ==
    \/ Others("futuresign") /\ \E r \in Replica : ExpireOverdue(r)
    \/ Others("feeds") /\ \E r \in Relay : tickAll(r)

WorkersFairness ==
    /\ WF_workerVars(TickersTurn)
    /\ WF_workerVars(WorkGoesOn) /\ WF_workerVars(RequestsGoOn)
    /\ WF_workerVars(RestartsCome) /\ WF_workerVars(SweepsCome)
    /\ WF_workerVars(TimePasses) /\ WF_workerVars(ChainGoesOn)
    /\ SF_workerVars(LoopsMeet)
    /\ \A r \in Replica :
          WF_allVars(Others("futuresign") /\ LoopStep(<<r, "external_webhook">>))
    /\ \A t \in Trigger : SF_allVars(Others("futuresign") /\ CallbackDecides(t))
    /\ \A w \in Watcher : WF_priceTriggerVars(Others("triggers") /\ WatcherGoesOn(w))

WorkersSpec == WorkersInit /\ [][WorkersNext]_workerVars /\ WorkersFairness

----------------------------------------------------------------------------
(* Properties. *)

(* The advisory lock is held exactly by the replica that runs the worker    *)
(* over a live session (runOnce, heartbeat).                                *)
ElectionGuarded == Election!LockGuardsWorker

(* Nothing is left undone in the part that moves. *)
CaughtUp ==
    /\ part = "leader" => Election!WorkerRuns
    /\ part = "futuresign" => PolledTriggersEnded
    /\ part = "triggers" => TriggersEnded
    /\ part = "feeds" => FeedCaughtUp
    /\ part = "signing" => EntriesSigned
    /\ part = "hooks" => EventsSettled
    /\ part = "intents" => IntentsResolved

(* The workers never fall behind for good, whatever stops half way: after   *)
(* any number of stops and lost sessions some replica leads again (Start);  *)
(* a trigger whose callback does not defer for ever ends, unless stranded   *)
(* in "firing"; every price trigger ends, however its watcher left it; an   *)
(* active feed gets Pyth's price after a large move ("This stops a          *)
(* legitimate large move from freezing a feed forever"); every audit entry  *)
(* is signed, one that commits behind signed ones too; every event is       *)
(* delivered or given up; every swap intent is carried on or ended, and one *)
(* whose transaction a node took is resolved.  The work given to each part  *)
(* is bounded, so to be caught up again and again is to finish all of it.   *)
WorkersCatchUp == []<>CaughtUp

=============================================================================
