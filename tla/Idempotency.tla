---------------------------- MODULE Idempotency ----------------------------
(***************************************************************************)
(* The Idempotency-Key middleware of the gateway                           *)
(* (gateway/internal/idempotency/idempotency.go), for the requests that    *)
(* share one cache key: same tenant, same route, same Idempotency-Key.     *)
(*                                                                         *)
(* A Redis command is one action, the handler behind the middleware is     *)
(* another; requests of any replica interleave between them.  Redis may    *)
(* fail on any command, the lock lives 60 s and the cached answer 24 h, a  *)
(* replica may stop in the middle of a request.                            *)
(***************************************************************************)
EXTENDS Naturals, FiniteSets

CONSTANTS
    Request,       \* HTTP requests carrying the key
    Body,          \* request bodies (their hashes)
    None,          \* no cache entry, no lock, no body
    MaxFaults,     \* bound: failed Redis commands and stopped replicas
    MaxExpiries    \* bound: locks and entries that run out

(* Statuses by class: 2xx, 4xx and 5xx. *)
Statuses == {200, 400, 500}

(* A stored answer: its status, the request it was made for, the body hash. *)
Entry == [status : Statuses, of : Request, hash : Body]

ASSUME NoneAssumption == None \notin Request \cup Body \cup Entry

VARIABLES
    cache,      \* the stored entry: status, the run it came from, body hash
    lock,       \* the request whose SetNX succeeded, until deleted or expired
    pc,         \* request -> where its handler chain is
    body,       \* request -> body hash
    answer,     \* request -> what the client got
    runs,       \* history: requests that executed the handler, with its status
    late,       \* history: requests sent when an answer was stored
    guarded,    \* FailClosed (default in production) on a route that demands the key
    faults, expiries

idemVars == <<cache, lock, pc, body, answer, runs, late, guarded, faults, expiries>>

IdemInit ==
    /\ cache = None
    /\ lock = None
    /\ pc = [r \in Request |-> "unsent"]
    /\ body = [r \in Request |-> None]
    /\ answer = [r \in Request |-> [kind |-> "none"]]
    /\ runs = {}
    /\ late = {}
    /\ guarded \in BOOLEAN
    /\ faults = 0
    /\ expiries = 0

Goto(r, label) == pc' = [pc EXCEPT ![r] = label]

Answer(r, a) ==
    /\ answer' = [answer EXCEPT ![r] = a]
    /\ Goto(r, "done")

Fault == faults < MaxFaults /\ faults' = faults + 1

----------------------------------------------------------------------------
(* The client's requests: the first one, retries, concurrent duplicates,    *)
(* with the same body or another.                                           *)
Send(r) ==
    /\ pc[r] = "unsent"
    /\ \E b \in Body : body' = [body EXCEPT ![r] = b]
    /\ Goto(r, "get")
    /\ late' = IF cache = None THEN late ELSE late \cup {r}
    /\ UNCHANGED <<cache, lock, answer, runs, guarded, faults, expiries>>

(* A failed command rejects the request on a guarded route; elsewhere the   *)
(* handler runs unprotected.                                                *)
RedisDown(r) ==
    /\ Fault
    /\ \/ /\ guarded
          /\ Answer(r, [kind |-> "unavailable"])
       \/ /\ ~guarded
          /\ Goto(r, "unprotected")
          /\ UNCHANGED answer
    /\ UNCHANGED <<cache, lock, body, runs, late, guarded, expiries>>

(* Seeded fault: the stored body hash is not compared. *)
SameRequestAlways(entry, r) == TRUE

SameRequest(entry, r) == entry.hash = body[r]

(* Seeded fault: an entry for another body counts as none. *)
GetIgnoringOthers(r) ==
    /\ pc[r] = "get"
    /\ \/ /\ cache # None => ~SameRequest(cache, r)
          /\ Goto(r, "lock")
          /\ UNCHANGED answer
       \/ /\ cache # None /\ SameRequest(cache, r)
          /\ Answer(r, [kind |-> "replay", status |-> cache.status, of |-> cache.of])
    /\ UNCHANGED <<cache, lock, body, runs, late, guarded, faults, expiries>>

Get(r) ==
    /\ pc[r] = "get"
    /\ \/ /\ cache = None
          /\ Goto(r, "lock")
          /\ UNCHANGED answer
       \/ /\ cache # None
          /\ Answer(r, IF SameRequest(cache, r)
                       THEN [kind |-> "replay", status |-> cache.status, of |-> cache.of]
                       ELSE [kind |-> "collision"])
    /\ UNCHANGED <<cache, lock, body, runs, late, guarded, faults, expiries>>

(* Seeded fault: the lock is taken whoever has it. *)
LockTaken == FALSE

LockHeld == lock # None

SetNX(r) ==
    /\ pc[r] = "lock"
    /\ \/ /\ LockHeld
          /\ Answer(r, [kind |-> "in_progress"])
          /\ UNCHANGED lock
       \/ /\ ~LockHeld
          /\ lock' = r
          /\ Goto(r, "run")
          /\ UNCHANGED answer
    /\ UNCHANGED <<cache, body, runs, late, guarded, faults, expiries>>

RedisFails(r) == pc[r] \in {"get", "lock"} /\ RedisDown(r)

(* The handler, with its side effects. *)
ServeHTTP(r) ==
    /\ pc[r] \in {"run", "unprotected"}
    /\ \E s \in Statuses :
          /\ runs' = runs \cup {[of |-> r, status |-> s]}
          /\ answer' = [answer EXCEPT ![r] = [kind |-> "run", status |-> s, of |-> r]]
    /\ Goto(r, IF pc[r] = "run" THEN "save" ELSE "done")
    /\ UNCHANGED <<cache, lock, body, late, guarded, faults, expiries>>

Cacheable(status) == status >= 200 /\ status < 500

(* A failed Set is logged and the answer is lost to later retries. *)
Set(r) ==
    /\ pc[r] = "save"
    /\ \/ /\ Cacheable(answer[r].status)
          /\ cache' = [status |-> answer[r].status, of |-> r, hash |-> body[r]]
          /\ UNCHANGED faults
       \/ /\ ~Cacheable(answer[r].status)
          /\ UNCHANGED <<cache, faults>>
       \/ /\ Cacheable(answer[r].status)
          /\ Fault
          /\ UNCHANGED cache
    /\ Goto(r, "unlock")
    /\ UNCHANGED <<lock, body, answer, runs, late, guarded, expiries>>

(* The lock key is deleted whoever set it, unless the command fails. *)
Del(r) ==
    /\ pc[r] = "unlock"
    /\ \/ lock' = None /\ UNCHANGED faults
       \/ Fault /\ UNCHANGED lock
    /\ Goto(r, "done")
    /\ UNCHANGED <<cache, body, answer, runs, late, guarded, expiries>>

----------------------------------------------------------------------------
(* The replica stops, or the handler panics (the unlock is not deferred):   *)
(* the client gets nothing and the lock stays.                              *)
Crash(r) ==
    /\ pc[r] \in {"get", "lock", "run", "save", "unlock"}
    /\ Fault
    /\ Answer(r, [kind |-> "lost"])
    /\ UNCHANGED <<cache, lock, body, runs, late, guarded, expiries>>

Expire ==
    /\ expiries < MaxExpiries
    /\ expiries' = expiries + 1
    /\ \/ lock # None /\ lock' = None /\ UNCHANGED cache
       \/ cache # None /\ cache' = None /\ UNCHANGED lock
    /\ UNCHANGED <<pc, body, answer, runs, late, guarded, faults>>

Handle(r) == Get(r) \/ SetNX(r) \/ ServeHTTP(r) \/ Set(r) \/ Del(r)

IdemNext ==
    \/ \E r \in Request : Send(r) \/ Handle(r) \/ RedisFails(r) \/ Crash(r)
    \/ Expire

IdemSpec == IdemInit /\ [][IdemNext]_idemVars

----------------------------------------------------------------------------
(* Properties. *)

(* A replayed answer is the final answer, never a server error, that the    *)
(* handler gave to a request with the same body.                            *)
ReplayIsFaithful ==
    \A r \in Request : answer[r].kind = "replay" =>
        /\ answer[r].status < 500
        /\ body[answer[r].of] = body[r]
        /\ [of |-> answer[r].of, status |-> answer[r].status] \in runs

Inside == {r \in Request : pc[r] \in {"run", "unprotected", "save", "unlock"}}

(* On a route that fails closed, two requests are past the middleware at    *)
(* once only after a lock has run out under the first.                      *)
OneInside == (guarded /\ expiries = 0) => Cardinality(Inside) <= 1

(* There, a retry sent once an answer is stored never runs the handler,     *)
(* with its own body or another, whatever Redis does to it on the way,      *)
(* until the answer expires.                                                *)
RetryNeverRuns == (guarded /\ expiries = 0) => \A x \in runs : x.of \notin late

(* What a client that repeats a request can rely on: the answer it is given *)
(* again is the one that was made for it, and the handler is not run again. *)
KeyHonoured == ReplayIsFaithful /\ OneInside /\ RetryNeverRuns

(* "The first request with a given tuple runs ... others get 409": while    *)
(* nothing has expired or failed, a final answer is produced once.          *)
RunsOnce ==
    (expiries = 0 /\ faults = 0) => Cardinality({x \in runs : Cacheable(x.status)}) <= 1

=============================================================================
