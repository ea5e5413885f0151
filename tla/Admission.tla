----------------------------- MODULE Admission -----------------------------
(***************************************************************************)
(* What may refuse a request before its handler runs: the API key          *)
(* (gateway/internal/api/middleware.go, store/keys.go), the Redis token    *)
(* bucket (ratelimit/ratelimit.go) and the circuit breaker in front of an  *)
(* upstream (upstream/upstream.go, api/proxy.go).                          *)
(***************************************************************************)
EXTENDS Naturals, Sequences

CONSTANTS
    Call,           \* requests made with one API key
    Burst, Rps,     \* the key's token bucket, tokens per tick
    FailOpen,       \* what the limiter does when Redis is down
    TripAfter,      \* consecutive failures that open the breaker (5)
    OpenFor,        \* ticks an open breaker refuses
    MaxTicks, MaxOutages   \* bounds

ASSUME AdmissionAssumption ==
    /\ {Burst, Rps, TripAfter, OpenFor} \subseteq Nat \ {0}
    /\ FailOpen \in BOOLEAN

VARIABLES
    key,        \* the API key row
    bucket,     \* the bucket hash in Redis
    breaker,    \* the upstream's circuit breaker
    call,       \* call -> where it is
    ticks, outages,
    passed,     \* history: the ticks at which the limiter let a call through, in order
    probes      \* history: calls sent on while the breaker was half-open

admissionVars == <<key, bucket, breaker, call, ticks, outages, passed, probes>>

AtMost(a, b) == IF a < b THEN a ELSE b
Move(c, to) == call' = [call EXCEPT ![c] = to]

(* A key is usable when it exists, is not revoked, and the caller's address *)
(* and origin are on its allowlists (MatchesIPAllowlist and the production  *)
(* rule on trusted proxies, MatchesOriginAllowlist).                        *)
AuthenticateAPIKey == key.revokedAt = 0

requireAPIKey(c) ==
    /\ call[c] = "unsent"
    /\ IF AuthenticateAPIKey /\ key.listed THEN Move(c, "authed") ELSE Move(c, "refused")
    /\ key' = IF AuthenticateAPIKey /\ key.listed THEN [key EXCEPT !.lastUsed = ticks] ELSE key
    /\ UNCHANGED <<bucket, breaker, ticks, outages, passed, probes>>

RevokeAPIKey ==
    /\ key.revokedAt = 0
    /\ key' = [key EXCEPT !.revokedAt = ticks + 1]
    /\ UNCHANGED <<bucket, breaker, call, ticks, outages, passed, probes>>

(* Seeded fault: the tokens that accrue are not capped by the burst. *)
RefillUncapped == bucket.tokens + (ticks - bucket.ts) * Rps

(* What the script finds: the tokens left, and the time gone since it last  *)
(* ran times the rate, up to the burst.                                     *)
tokenBucketScript == AtMost(Burst, bucket.tokens + (ticks - bucket.ts) * Rps)

(* applyRateLimitFor *)
Allow(c) ==
    /\ call[c] = "authed"
    /\ \/ /\ tokenBucketScript >= 1
          /\ bucket' = [tokens |-> tokenBucketScript - 1, ts |-> ticks]
          /\ passed' = Append(passed, ticks)
          /\ Move(c, "admitted")
          /\ UNCHANGED outages
       \/ /\ tokenBucketScript < 1
          /\ bucket' = [tokens |-> tokenBucketScript, ts |-> ticks]
          /\ Move(c, "refused")
          /\ UNCHANGED <<outages, passed>>
       \/ /\ outages < MaxOutages
          /\ outages' = outages + 1
          /\ Move(c, IF FailOpen THEN "admitted" ELSE "refused")
          /\ UNCHANGED <<bucket, passed>>
    /\ UNCHANGED <<key, breaker, ticks, probes>>

(* An open breaker turns half-open when its time is up. *)
State ==
    IF breaker.mode = "open" /\ ticks >= breaker.until THEN "half-open" ELSE breaker.mode

(* Target.Allow asks for the state and takes nothing. *)
Forward(c) ==
    /\ call[c] = "admitted"
    /\ IF State = "open" THEN Move(c, "refused") ELSE Move(c, "upstream")
    /\ probes' = IF State = "half-open" THEN probes \cup {c} ELSE probes
    /\ UNCHANGED <<key, bucket, breaker, ticks, outages, passed>>

Closed(n) == [mode |-> "closed", fails |-> n, until |-> 0]
Opened == [mode |-> "open", fails |-> 0, until |-> ticks + OpenFor]

(* Execute: an open breaker ignores the result, a half-open one is decided  *)
(* by the first result it is told of, whoever sent that call.               *)
MarkResult(failed) ==
    breaker' = CASE State = "open" -> breaker
                 [] failed /\ (State = "half-open" \/ breaker.fails + 1 >= TripAfter) -> Opened
                 [] failed /\ State = "closed" -> Closed(breaker.fails + 1)
                 [] OTHER -> Closed(0)

(* A call whose client hung up says nothing of the upstream. *)
Complete(c) ==
    /\ call[c] = "upstream"
    /\ Move(c, "done")
    /\ UNCHANGED breaker \/ \E failed \in BOOLEAN : MarkResult(failed)
    /\ UNCHANGED <<key, bucket, ticks, outages, passed, probes>>

AdmissionTick ==
    /\ ticks < MaxTicks
    /\ ticks' = ticks + 1
    /\ UNCHANGED <<key, bucket, breaker, call, outages, passed, probes>>

AdmissionInit ==
    /\ key \in [revokedAt : {0}, lastUsed : {0}, listed : BOOLEAN]
    /\ bucket = [tokens |-> Burst, ts |-> 0]
    /\ breaker = Closed(0)
    /\ call = [c \in Call |-> "unsent"]
    /\ ticks = 0
    /\ outages = 0
    /\ passed = <<>>
    /\ probes = {}

AdmissionNext ==
    \/ AdmissionTick
    \/ RevokeAPIKey
    \/ \E c \in Call : requireAPIKey(c) \/ Allow(c) \/ Forward(c) \/ Complete(c)

AdmissionSpec == AdmissionInit /\ [][AdmissionNext]_admissionVars

----------------------------------------------------------------------------
(* In any stretch of time the limiter lets no more calls through than the   *)
(* burst and what the rate grants meanwhile, whatever refusals and outages  *)
(* come in between.                                                         *)
RateBounded ==
    \A i, j \in DOMAIN passed :
        i <= j => j - i + 1 <= Burst + Rps * (passed[j] - passed[i])
=============================================================================
