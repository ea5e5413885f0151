------------------------------ MODULE Webhooks ------------------------------
(***************************************************************************)
(* Webhook delivery by the gateway (gateway/internal/webhooks): an event   *)
(* is fanned out to one row per active endpoint of the tenant; every       *)
(* replica claims due rows under a lease, a worker of its pool posts each  *)
(* claim, and a sweeper puts back the rows whose lease ran out.            *)
(*                                                                         *)
(* A statement on the tables is one action, and so is the POST.  Between   *)
(* them a claim lives in the memory of its replica with the attempt number *)
(* it was given: in the queue of the pool, where it may wait longer than   *)
(* its lease, or with a worker.  Times are abstracted to what they decide: *)
(* whether a row is due, whether its lease has run out.                    *)
(***************************************************************************)
EXTENDS Naturals, FiniteSets

CONSTANTS
    Event, Endpoint,
    HookReplica,       \* gateway processes, each with a dispatcher
    MaxAttempts,   \* 8 in the code
    MaxHookFaults,     \* bound: stopped replicas and failed statements
    MaxLate,       \* bound: leases that run out under a live claim
    MaxLimited,    \* bound: claims deferred by the rate limiter
    MaxAdmin       \* bound: the tenant's changes of endpoints and retries

ASSUME AttemptsAssumption == MaxAttempts \in Nat \ {0}

VARIABLES
    endpoint,   \* endpoint -> active, inactive or deleted
    row,        \* <<event, endpoint>> -> row of webhook_deliveries
    claims,     \* claims in memory
    posts,      \* history: POSTs made for a row
    hookFaults, late, limited, admin

hookVars == <<endpoint, row, claims, posts, hookFaults, late, limited, admin>>

Rows == Event \X Endpoint
Absent == [status |-> "absent"]

HookInit ==
    /\ endpoint = [p \in Endpoint |-> "active"]
    /\ row = [d \in Rows |-> Absent]
    /\ claims = {}
    /\ posts = [d \in Rows |-> 0]
    /\ hookFaults = 0 /\ late = 0 /\ limited = 0 /\ admin = 0

DeliveryStatus(d) == row[d].status

(* `count' numbers the claims of a row in the history. *)
NewRow == [status |-> "pending", due |-> TRUE, attempts |-> 0, lease |-> "none",
           count |-> 0]

----------------------------------------------------------------------------
(* Publish: one row per active endpoint; a failed insert ends the fan-out. *)
Publish(e) ==
    /\ \A d \in Rows : d[1] = e => DeliveryStatus(d) = "absent"
    /\ LET active == {p \in Endpoint : endpoint[p] = "active"}
       IN  \E reached \in SUBSET active :
             /\ reached # {}
             /\ reached = active \/ hookFaults < MaxHookFaults
             /\ hookFaults' = IF reached = active THEN hookFaults ELSE hookFaults + 1
             /\ row' = [d \in Rows |-> IF d[1] = e /\ d[2] \in reached THEN NewRow ELSE row[d]]
    /\ UNCHANGED <<endpoint, claims, posts, late, limited, admin>>

(* The tenant's requests.  Deleting an endpoint deletes its rows. *)
UpdateEndpoint(p) ==
    /\ admin < MaxAdmin
    /\ admin' = admin + 1
    /\ endpoint[p] # "deleted"
    /\ endpoint' = [endpoint EXCEPT ![p] = IF @ = "active" THEN "inactive" ELSE "active"]
    /\ UNCHANGED <<row, claims, posts, hookFaults, late, limited>>

DeleteEndpoint(p) ==
    /\ admin < MaxAdmin
    /\ admin' = admin + 1
    /\ endpoint[p] # "deleted"
    /\ endpoint' = [endpoint EXCEPT ![p] = "deleted"]
    /\ row' = [d \in Rows |-> IF d[2] = p /\ DeliveryStatus(d) # "absent"
                              THEN [status |-> "deleted"] ELSE row[d]]
    /\ UNCHANGED <<claims, posts, hookFaults, late, limited>>

RetryDeadLetter(d) ==
    /\ admin < MaxAdmin
    /\ admin' = admin + 1
    /\ DeliveryStatus(d) = "dead_letter"
    /\ row' = [row EXCEPT ![d].status = "pending", ![d].due = TRUE]
    /\ UNCHANGED <<endpoint, claims, posts, hookFaults, late, limited>>

----------------------------------------------------------------------------
(* ClaimDeliveries.  A batch is claimed row by row.  *)

(* Seeded fault: a claim looks at the lease and not at the status. *)
ClaimableLoose(d) == DeliveryStatus(d) \in {"pending", "in_flight"} /\ row[d].due

ClaimableDelivery(d) == DeliveryStatus(d) = "pending" /\ row[d].due

(* Seeded fault: the attempt is counted when it has failed, if ever. *)
UncountedAttempt(attempts) == attempts

CountedAttempt(attempts) == attempts + 1

ClaimDeliveries(r, d) ==
    /\ ClaimableDelivery(d)
    /\ row' = [row EXCEPT ![d].status = "in_flight", ![d].lease = "live",
                          ![d].attempts = CountedAttempt(@), ![d].count = @ + 1]
    /\ claims' = claims \cup {[by |-> r, row |-> d, attempts |-> CountedAttempt(row[d].attempts),
                               count |-> row[d].count + 1, pc |-> "queued"]}
    /\ UNCHANGED <<endpoint, posts, hookFaults, late, limited, admin>>

Move(c, label) == claims' = (claims \ {c}) \cup {[c EXCEPT !.pc = label]}
Drop(c) == claims' = claims \ {c}

Cleared(rec) == [rec EXCEPT !.lease = "none"]

(* deliver: the rate limiter of the endpoint.  A deferred claim gives its   *)
(* attempt back, to whoever holds the row by now.                           *)
RequeueWithDelay(c) ==
    /\ c.pc = "queued"
    /\ limited < MaxLimited
    /\ limited' = limited + 1
    /\ row' = IF DeliveryStatus(c.row) = "in_flight"
              THEN [row EXCEPT ![c.row] =
                      Cleared([row[c.row] EXCEPT !.status = "pending", !.due = FALSE,
                                                 !.attempts = IF @ = 0 THEN 0 ELSE @ - 1])]
              ELSE row
    /\ Drop(c)
    /\ UNCHANGED <<endpoint, posts, hookFaults, late, admin>>

(* The endpoint is read, then its URL is checked. *)
fetchEndpoint(c) ==
    /\ c.pc = "queued"
    /\ \/ endpoint[c.row[2]] = "inactive" /\ Move(c, "inactive")
       \/ endpoint[c.row[2]] = "deleted" /\ Move(c, "failed")
       \/ endpoint[c.row[2]] = "active" /\ (Move(c, "post") \/ Move(c, "failed"))
    /\ UNCHANGED <<endpoint, row, posts, hookFaults, late, limited, admin>>

(* The request may reach the endpoint although its answer is lost. *)
Post(c) ==
    /\ c.pc = "post"
    /\ posts' = [posts EXCEPT ![c.row] = @ + 1]
    /\ Move(c, "ok") \/ Move(c, "failed")
    /\ UNCHANGED <<endpoint, row, hookFaults, late, limited, admin>>

(* MarkDelivered and MarkFailed go by the row's id alone. The endpoint's    *)
(* failure statistics, which nothing decides on, are left out.              *)
MarkDelivered(c) ==
    /\ c.pc = "ok"
    /\ row' = IF DeliveryStatus(c.row) = "deleted" THEN row
              ELSE [row EXCEPT ![c.row] =
                      Cleared([@ EXCEPT !.status = "delivered"])]
    /\ Drop(c)
    /\ UNCHANGED <<endpoint, posts, hookFaults, late, limited, admin>>

(* Seeded fault: the last attempt is never made. *)
exhaustedEarly(attempts) == attempts + 1 >= MaxAttempts

exhausted(attempts) == attempts >= MaxAttempts

MarkDeliveryFailed(c) ==
    /\ c.pc \in {"failed", "inactive"}
    /\ row' = IF DeliveryStatus(c.row) = "deleted" THEN row
              ELSE [row EXCEPT ![c.row] =
                      Cleared([@ EXCEPT !.due = FALSE,
                                        !.status = IF c.pc = "inactive" \/ exhausted(c.attempts)
                                                   THEN "dead_letter" ELSE "pending"])]
    /\ Drop(c)
    /\ UNCHANGED <<endpoint, posts, hookFaults, late, limited, admin>>

(* An error of the statement is discarded: the row waits for its lease. *)
DeliveryStoreFails(c) ==
    /\ hookFaults < MaxHookFaults
    /\ hookFaults' = hookFaults + 1
    /\ c.pc \in {"ok", "failed", "inactive"}
    /\ Drop(c)
    /\ UNCHANGED <<endpoint, row, posts, late, limited, admin>>

(* The replica stops: its claims are gone, as after a shutdown, whose       *)
(* cancelled context makes every further statement fail.                    *)
Crash(r) ==
    /\ hookFaults < MaxHookFaults
    /\ hookFaults' = hookFaults + 1
    /\ \E c \in claims : c.by = r
    /\ claims' = {c \in claims : c.by # r}
    /\ UNCHANGED <<endpoint, row, posts, late, limited, admin>>

----------------------------------------------------------------------------
(* Time: a delayed row comes due, a lease runs out. *)
ComesDue(d) ==
    /\ DeliveryStatus(d) = "pending" /\ ~row[d].due
    /\ row' = [row EXCEPT ![d].due = TRUE]
    /\ UNCHANGED <<endpoint, claims, posts, hookFaults, late, limited, admin>>

Orphaned(d) == \A c \in claims : c.row = d => c.count # row[d].count

LeaseRunsOut(d) ==
    /\ DeliveryStatus(d) = "in_flight" /\ row[d].lease = "live"
    /\ \/ Orphaned(d) /\ UNCHANGED late
       \/ ~Orphaned(d) /\ late < MaxLate /\ late' = late + 1
    /\ row' = [row EXCEPT ![d].lease = "over"]
    /\ UNCHANGED <<endpoint, claims, posts, hookFaults, limited, admin>>

(* Seeded fault: the sweeper looks for rows without a deadline. *)
StuckWithoutLease(d) == DeliveryStatus(d) = "in_flight" /\ row[d].lease = "none"

Stuck(d) == DeliveryStatus(d) = "in_flight" /\ row[d].lease = "over"

RecoverStuck ==
    /\ \E d \in Rows : Stuck(d)
    /\ row' = [d \in Rows |-> IF Stuck(d)
                              THEN Cleared([row[d] EXCEPT !.status = "pending", !.due = TRUE])
                              ELSE row[d]]
    /\ UNCHANGED <<endpoint, claims, posts, hookFaults, late, limited, admin>>

----------------------------------------------------------------------------
Work(c) == fetchEndpoint(c) \/ Post(c) \/ MarkDelivered(c) \/ MarkDeliveryFailed(c)

WorkOn(d) == \E c \in claims : c.row = d /\ Work(c)
Claim(d) == \E r \in HookReplica : ClaimDeliveries(r, d)

HookNext ==
    \/ \E e \in Event : Publish(e)
    \/ \E p \in Endpoint : UpdateEndpoint(p) \/ DeleteEndpoint(p)
    \/ \E d \in Rows : RetryDeadLetter(d) \/ Claim(d) \/ ComesDue(d) \/ LeaseRunsOut(d)
    \/ \E c \in claims : Work(c) \/ RequeueWithDelay(c) \/ DeliveryStoreFails(c)
    \/ \E r \in HookReplica : Crash(r)
    \/ RecoverStuck

HookSpec == HookInit /\ [][HookNext]_hookVars

(* The tickers of claim and sweep come round on some replica, its workers   *)
(* get on with their claims, and time passes.                               *)
HookFairness ==
    /\ \A d \in Rows : /\ WF_hookVars(Claim(d))
                       /\ WF_hookVars(WorkOn(d))
                       /\ WF_hookVars(ComesDue(d))
                       /\ WF_hookVars(LeaseRunsOut(d) /\ Orphaned(d))
    /\ WF_hookVars(RecoverStuck)

FairHookSpec == HookSpec /\ HookFairness

----------------------------------------------------------------------------
(* Properties. *)

ClaimsOf(d) == {c \in claims : c.row = d}

(* Two claims of a row are in memory at once only after a lease ran out     *)
(* under a live one; until then the row of a claim is in_flight.            *)
LeaseExcludes ==
    late = 0 => \A d \in Rows :
        /\ Cardinality(ClaimsOf(d)) <= 1
        /\ ClaimsOf(d) # {} => DeliveryStatus(d) \in {"in_flight", "deleted"}

(* The attempts on record cover every POST made, however claims were lost,  *)
(* recovered, deferred or late: an endpoint is never called more often than *)
(* the row admits.                                                          *)
AttemptsCoverPosts ==
    \A d \in Rows : DeliveryStatus(d) \notin {"absent", "deleted"} => posts[d] <= row[d].attempts

(* As long as claims keep their leases, an event is given up only when its  *)
(* attempts are used up or its endpoint has been switched off.              *)
DeadLetterEarned ==
    (late = 0 /\ admin = 0) =>
        \A d \in Rows : DeliveryStatus(d) = "dead_letter" => row[d].attempts >= MaxAttempts

(* What the rows promise while replicas crash, statements fail and leases   *)
(* run out: one claim at a time, no POST off the record, and no event given *)
(* up early.                                                                *)
DeliverySafe == LeaseExcludes /\ AttemptsCoverPosts /\ DeadLetterEarned

(* Every published event has come to an end. *)
EventsSettled == \A d \in Rows : DeliveryStatus(d) \notin {"pending", "in_flight"}

=============================================================================
