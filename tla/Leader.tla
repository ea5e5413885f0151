------------------------------- MODULE Leader -------------------------------
(***************************************************************************)
(* Leader election among the gateway's replicas                            *)
(* (gateway/internal/leader/leader.go): a replica runs a worker function   *)
(* while a database session of its own holds a Postgres advisory lock.     *)
(*                                                                         *)
(* The lock belongs to the session: Postgres frees it when the session     *)
(* dies, and the replica learns of that from its heartbeat at best.        *)
(***************************************************************************)
EXTENDS Naturals, FiniteSets

CONSTANTS
    Replica,     \* gateway processes
    NoReplica,   \* nobody holds the lock
    Returns,     \* TRUE when the worker function may return by itself
    MaxFaults    \* bound: sessions lost and processes stopped

ASSUME NoReplicaAssumption == NoReplica \notin Replica
ASSUME FaultsAssumption == MaxFaults \in Nat

VARIABLES
    lock,        \* the replica whose session holds the advisory lock
    worker,      \* replica -> what its Start loop is doing
    session,     \* replica -> the pooled connection it leads with
    heartbeat,   \* replica -> its heartbeat goroutine is alive
    faults       \* faults so far

leaderVars == <<lock, worker, session, heartbeat, faults>>

LeaderTypeOK ==
    /\ lock \in Replica \cup {NoReplica}
    /\ worker \in [Replica -> {"waiting", "running", "stopped"}]
    /\ session \in [Replica -> {"none", "up", "lost"}]
    /\ heartbeat \in [Replica -> BOOLEAN]
    /\ faults \in 0..MaxFaults

LeaderInit ==
    /\ lock = NoReplica
    /\ worker = [r \in Replica |-> "waiting"]
    /\ session = [r \in Replica |-> "none"]
    /\ heartbeat = [r \in Replica |-> FALSE]
    /\ faults = 0

----------------------------------------------------------------------------
(* Start and runOnce: pg_try_advisory_lock.  A loser waits for the next     *)
(* poll, which changes nothing.                                             *)
runOnce(r) ==
    /\ worker[r] = "waiting"
    /\ lock = NoReplica
    /\ lock' = r
    /\ worker' = [worker EXCEPT ![r] = "running"]
    /\ session' = [session EXCEPT ![r] = "up"]
    /\ heartbeat' = [heartbeat EXCEPT ![r] = TRUE]
    /\ UNCHANGED faults

(* Seeded fault: the connection goes back to the pool with the lock on it. *)
KeptLock(r) == lock

(* The deferred pg_advisory_unlock, over the session the lock was taken on. *)
UnlockedBy(r) == IF lock = r THEN NoReplica ELSE lock

(* The worker function returned: unlock, release the connection, poll again.*)
FuncReturns(r) ==
    /\ Returns
    /\ worker[r] = "running"
    /\ lock' = UnlockedBy(r)
    /\ worker' = [worker EXCEPT ![r] = "waiting"]
    /\ session' = [session EXCEPT ![r] = "none"]
    /\ heartbeat' = [heartbeat EXCEPT ![r] = FALSE]
    /\ UNCHANGED faults

(* The connection breaks: the server ends the session and frees the lock.   *)
LoseSession(r) ==
    /\ session[r] = "up"
    /\ faults < MaxFaults
    /\ faults' = faults + 1
    /\ session' = [session EXCEPT ![r] = "lost"]
    /\ lock' = IF lock = r THEN NoReplica ELSE lock
    /\ UNCHANGED <<worker, heartbeat>>

(* heartbeat: a failed ping ends the heartbeat goroutine, and only it.      *)
HeartbeatFails(r) ==
    /\ heartbeat[r]
    /\ session[r] = "lost"
    /\ heartbeat' = [heartbeat EXCEPT ![r] = FALSE]
    /\ UNCHANGED <<lock, worker, session, faults>>

(* The process ends, in order or not: either way the lock is free.          *)
Stop(r) ==
    /\ worker[r] # "stopped"
    /\ faults < MaxFaults
    /\ faults' = faults + 1
    /\ lock' = IF lock = r THEN NoReplica ELSE lock
    /\ worker' = [worker EXCEPT ![r] = "stopped"]
    /\ session' = [session EXCEPT ![r] = "none"]
    /\ heartbeat' = [heartbeat EXCEPT ![r] = FALSE]

Restart(r) ==
    /\ worker[r] = "stopped"
    /\ worker' = [worker EXCEPT ![r] = "waiting"]
    /\ UNCHANGED <<lock, session, heartbeat, faults>>

ElectionStep(r) ==
    \/ runOnce(r)
    \/ FuncReturns(r)
    \/ LoseSession(r)
    \/ HeartbeatFails(r)

LeaderNext == \E r \in Replica : ElectionStep(r) \/ Stop(r) \/ Restart(r)

(* The poll timer, the heartbeat timer and the supervisor that restarts a   *)
(* stopped process all come round again.                                    *)
ElectionFairness ==
    \A r \in Replica : /\ WF_leaderVars(runOnce(r))
                       /\ WF_leaderVars(HeartbeatFails(r))
                       /\ WF_leaderVars(Restart(r))

LeaderSpec == LeaderInit /\ [][LeaderNext]_leaderVars

FairLeaderSpec == LeaderSpec /\ ElectionFairness

----------------------------------------------------------------------------
(* Properties. *)

(* The lock is held exactly by the replica that runs the worker over a live *)
(* session, so two replicas run the worker at once only after a session was *)
(* lost under one of them.                                                  *)
LockGuardsWorker ==
    /\ \A r \in Replica : lock = r <=> (worker[r] = "running" /\ session[r] = "up")
    /\ \A r, s \in Replica :
          (worker[r] = "running" /\ worker[s] = "running" /\ r # s) =>
              session[r] = "lost" \/ session[s] = "lost"

(* Some replica runs the worker. *)
WorkerRuns == \E r \in Replica : worker[r] = "running"

=============================================================================
