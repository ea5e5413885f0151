------------------------------ MODULE Presign ------------------------------
(***************************************************************************)
(* Presign prefetch (gateway/internal/policy/presign_prefetch.go over the  *)
(* Redis cache of gateway/internal/api/presign_prefetch_wire.go): a signing*)
(* challenge starts a background presign, the submit takes its result out  *)
(* of the cache.  Every Redis command is a step; gateways share the cache. *)
(* Challenges of one tenant; time in units of 30 s.                        *)
(***************************************************************************)
EXTENDS Naturals, FiniteSets

CONSTANTS
    Challenges,
    Job,             \* background dispatches
    Harvest,         \* submits that look for a presign
    MaxInflightJobs, \* presignMaxInflight
    MaxPerMinute,    \* presignMaxDispatchPerMinute
    PresignTTL,      \* life of a cached presign
    DispatchTimeout, \* presignDispatchTimeout
    MaxTime,         \* bound: the clock
    MaxEpoch,        \* bound: epochs of the network
    MaxRedisFaults   \* bound: Redis commands that fail

(* 120 s unless a positive life is configured, and 90 s. *)
ASSUME PresignTimesAssumption == PresignTTL \in Nat \ {0} /\ DispatchTimeout \in Nat \ {0}

VARIABLES
    dispatchLock, \* challenge -> when its dispatch lock expires (0: free)
    cached,       \* challenge -> presign in the cache
    epochKey,     \* presign:epoch:current
    spent,        \* dispatches counted this minute
    job,          \* background dispatches
    harvest,      \* submits
    netEpoch,     \* the epoch of the network
    clock,
    handed,       \* history: presigns given to a client, as <<job, epoch>>
    observed,     \* history: the latest epoch whose observation was completed
    raced,        \* history: an observer wrote over a later write
    overwritten,  \* history: presigns replaced in the cache
    redisFaults

presignVars == <<dispatchLock, cached, epochKey, spent, job, harvest, netEpoch, clock, handed,
                 observed, raced, overwritten, redisFaults>>

NoPresign == [by |-> "none"]
Ready == [pc |-> "idle"]
Ended == [pc |-> "done"]

PresignInit ==
    /\ dispatchLock = [c \in Challenges |-> 0]
    /\ cached = [c \in Challenges |-> NoPresign]
    /\ epochKey = 0 /\ spent = 0
    /\ job = [j \in Job |-> Ready]
    /\ harvest = [h \in Harvest |-> Ready]
    /\ netEpoch = 1 /\ clock = 1
    /\ handed = {} /\ observed = 0 /\ raced = FALSE /\ overwritten = {} /\ redisFaults = 0

(* A command that failed. *)
PresignRedisFails == redisFaults < MaxRedisFaults /\ redisFaults' = redisFaults + 1
RedisWorks == UNCHANGED redisFaults

Inflight == Cardinality({j \in Job : job[j].pc \notin {"idle", "done"}})

(* Seeded fault: the lock lives as long as the call only. *)
LockForDispatch == DispatchTimeout

(* The lock outlives the call and then the cached result. *)
lockTTL == PresignTTL + DispatchTimeout

(* FirePresignPrefetchDirect: a place among the goroutines, or nothing;     *)
(* then the lock, which is taken to be free when Redis does not answer.     *)
FirePresignPrefetchDirect(j, c) ==
    /\ job[j] = Ready
    /\ Inflight < MaxInflightJobs
    /\ \/ /\ PresignRedisFails
          /\ job' = [job EXCEPT ![j] = [pc |-> "budget", c |-> c, at |-> clock]]
          /\ UNCHANGED dispatchLock
       \/ /\ RedisWorks
          /\ IF dispatchLock[c] = 0
             THEN /\ dispatchLock' = [dispatchLock EXCEPT ![c] = clock + lockTTL]
                  /\ job' = [job EXCEPT ![j] = [pc |-> "budget", c |-> c, at |-> clock]]
             ELSE job' = [job EXCEPT ![j] = Ended] /\ UNCHANGED dispatchLock
    /\ UNCHANGED <<cached, epochKey, spent, harvest, netEpoch, clock, handed, observed, raced,
                   overwritten>>

(* The count goes up even when it is over. *)
AllowDispatch(j) ==
    /\ job[j].pc = "budget"
    /\ \/ /\ PresignRedisFails
          /\ job' = [job EXCEPT ![j].pc = "call"]
          /\ UNCHANGED <<spent, dispatchLock>>
       \/ /\ RedisWorks
          /\ spent' = spent + 1
          /\ IF spent + 1 <= MaxPerMinute
             THEN job' = [job EXCEPT ![j].pc = "call"] /\ UNCHANGED dispatchLock
             ELSE /\ job' = [job EXCEPT ![j] = Ended]
                  /\ dispatchLock' = [dispatchLock EXCEPT ![job[j].c] = 0]
    /\ UNCHANGED <<cached, epochKey, harvest, netEpoch, clock, handed, observed, raced, overwritten>>

(* The call to the engine answers with a presign of the present epoch, or   *)
(* fails or times out, and then the lock is given up, whoever holds it.     *)
PresignAnswers(j) ==
    /\ job[j].pc = "call"
    /\ \/ /\ job' = [job EXCEPT ![j] = [pc |-> "put", c |-> job[j].c, at |-> job[j].at,
                                        epoch |-> netEpoch]]
          /\ UNCHANGED dispatchLock
       \/ /\ job' = [job EXCEPT ![j] = Ended]
          /\ dispatchLock' = [dispatchLock EXCEPT ![job[j].c] = 0]
    /\ RedisWorks
    /\ UNCHANGED <<cached, epochKey, spent, harvest, netEpoch, clock, handed, observed, raced,
                   overwritten>>

(* Put: the result under the challenge, ... *)
Put(j) ==
    /\ job[j].pc = "put"
    /\ \/ /\ PresignRedisFails /\ UNCHANGED <<cached, overwritten>>
       \/ /\ RedisWorks
          /\ cached' = [cached EXCEPT ![job[j].c] =
                [by |-> j, epoch |-> job[j].epoch, until |-> clock + PresignTTL]]
          /\ overwritten' = IF cached[job[j].c] = NoPresign THEN overwritten
                            ELSE overwritten \cup {cached[job[j].c].by}
    /\ job' = [job EXCEPT ![j].pc = "observe"]
    /\ UNCHANGED <<dispatchLock, epochKey, spent, harvest, netEpoch, clock, handed, observed, raced>>

(* ... then its epoch: observeEpoch reads the key ... *)
observeEpoch(j) ==
    /\ job[j].pc = "observe"
    /\ \/ PresignRedisFails /\ job' = [job EXCEPT ![j] = Ended]
       \/ /\ RedisWorks
          /\ job' = [job EXCEPT ![j] = [pc |-> "raise", epoch |-> job[j].epoch, cur |-> epochKey]]
    /\ UNCHANGED <<dispatchLock, cached, epochKey, spent, harvest, netEpoch, clock, handed, observed,
                   raced, overwritten>>

(* Seeded fault: the key is always written. *)
WriteAnyEpoch(j) == TRUE

LaterEpoch(j) == job[j].epoch > job[j].cur

(* ... and writes it if its own is later than what it read. *)
RaiseEpoch(j) ==
    /\ job[j].pc = "raise"
    /\ \/ PresignRedisFails /\ UNCHANGED <<epochKey, observed, raced>>
       \/ /\ RedisWorks
          /\ epochKey' = IF LaterEpoch(j) THEN job[j].epoch ELSE epochKey
          /\ observed' = IF job[j].epoch > observed THEN job[j].epoch ELSE observed
          /\ raced' = (raced \/ epochKey # job[j].cur)
    /\ job' = [job EXCEPT ![j] = Ended]
    /\ UNCHANGED <<dispatchLock, cached, spent, harvest, netEpoch, clock, handed, overwritten>>

(* Seeded fault: the entry is read and left. *)
GetOnly(c) == cached

GetDel(c) == [cached EXCEPT ![c] = NoPresign]

(* HarvestPresignDirect takes the entry out of the cache ... *)
HarvestPresignDirect(h, c) ==
    /\ harvest[h] = Ready
    /\ cached[c] # NoPresign
    /\ cached' = GetDel(c)
    /\ harvest' = [harvest EXCEPT ![h] = [pc |-> "check", got |-> cached[c]]]
    /\ UNCHANGED <<dispatchLock, epochKey, spent, job, netEpoch, clock, handed, observed, raced,
                   overwritten, redisFaults>>

(* ... and drops it if the network is known to have moved on. *)
CurrentEpoch(h) ==
    /\ harvest[h].pc = "check"
    /\ LET got == harvest[h].got IN
       \/ /\ PresignRedisFails
          /\ handed' = handed \cup {[job |-> got.by, to |-> h, fresh |-> TRUE]}
       \/ /\ RedisWorks
          /\ handed' = IF epochKey > got.epoch THEN handed
                       ELSE handed \cup {[job |-> got.by, to |-> h,
                                          fresh |-> raced \/ got.epoch >= observed]}
    /\ harvest' = [harvest EXCEPT ![h] = Ended]
    /\ UNCHANGED <<dispatchLock, cached, epochKey, spent, job, netEpoch, clock, observed, raced, overwritten>>

(* A tick: keys expire, a minute may begin, and a call does not outlast its *)
(* time-out.                                                                *)
PresignTick ==
    /\ clock < MaxTime
    /\ \A j \in Job : job[j].pc \in {"budget", "call", "put"} => clock < job[j].at + DispatchTimeout
    /\ clock' = clock + 1
    /\ dispatchLock' = [c \in Challenges |-> IF dispatchLock[c] <= clock + 1 THEN 0 ELSE dispatchLock[c]]
    /\ cached' = [c \in Challenges |->
                    IF cached[c] # NoPresign /\ cached[c].until <= clock + 1 THEN NoPresign ELSE cached[c]]
    /\ spent' \in {spent, 0}
    /\ UNCHANGED <<epochKey, job, harvest, netEpoch, handed, observed, raced, overwritten,
                   redisFaults>>

NextEpoch ==
    /\ netEpoch < MaxEpoch
    /\ netEpoch' = netEpoch + 1
    /\ UNCHANGED <<dispatchLock, cached, epochKey, spent, job, harvest, clock, handed, observed, raced,
                   overwritten, redisFaults>>

PresignNext ==
    \/ \E j \in Job : \/ \E c \in Challenges : FirePresignPrefetchDirect(j, c)
                      \/ AllowDispatch(j) \/ PresignAnswers(j) \/ Put(j) \/ observeEpoch(j)
                      \/ RaiseEpoch(j)
    \/ \E h \in Harvest : CurrentEpoch(h) \/ \E c \in Challenges : HarvestPresignDirect(h, c)
    \/ PresignTick \/ NextEpoch

PresignSpec == PresignInit /\ [][PresignNext]_presignVars

----------------------------------------------------------------------------
(* Properties. *)

(* A presign is single-use: no two submits are given the same one, over     *)
(* concurrent harvests and re-issued challenges.                            *)
PresignSingleUse ==
    \A x \in handed, y \in handed : x.job = y.job => x = y

(* As long as Redis answers, no presign that was paid for is lost under     *)
(* another one of its challenge: the lock is held until the cached one has  *)
(* expired, through slow calls too.                                         *)
PresignNotReplaced == redisFaults = 0 => overwritten = {}

(* A presign of an epoch older than one the gateways have finished to       *)
(* observe is not handed out, unless two observers raced.                   *)
PresignFresh == \A x \in handed : x.fresh

(* A presign reaches one submit at most, is not lost under another one, and *)
(* is not stale.                                                            *)
PresignSafe == PresignSingleUse /\ PresignNotReplaced /\ PresignFresh

=============================================================================
