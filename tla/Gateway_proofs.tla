--------------------------- MODULE Gateway_proofs ---------------------------
(***************************************************************************)
(* Proofs about what stands between a client of the gateway and the chain, *)
(* for every number of requests, challenges, destinations and faults: the  *)
(* idempotency middleware, the presign cache, the rate limit, the risk     *)
(* advisory, the relay of the chain's events to the tenant, and the policy *)
(* endpoints.                                                              *)
(***************************************************************************)
EXTENDS PolicyApi, Presign, Admission, Risk, ChainEvents, Idempotency, FiniteSetTheorems, TLAPS

----------------------------------------------------------------------------
(* Idempotency keys (idempotency/idempotency.go). *)

IdemTypeOK ==
    /\ cache \in Entry \cup {None}
    /\ lock \in Request \cup {None}
    /\ DOMAIN pc = Request /\ DOMAIN body = Request /\ DOMAIN answer = Request
    /\ late \subseteq Request
    /\ expiries \in Nat
    /\ \A r \in Request : pc[r] # "unsent" => body[r] \in Body

(* What is stored is a final answer that the handler gave, with the hash of *)
(* the body it gave it for.                                                 *)
CacheTrue ==
    cache # None =>
        /\ cache.status < 500
        /\ cache.of \in Request /\ pc[cache.of] # "unsent"
        /\ cache.hash = body[cache.of]
        /\ [of |-> cache.of, status |-> cache.status] \in runs

(* What is about to be stored is what the handler just answered. *)
SaveTrue ==
    \A r \in Request : pc[r] = "save" =>
        /\ answer[r].kind = "run" /\ answer[r].status \in Statuses
        /\ [of |-> r, status |-> answer[r].status] \in runs

RunsSent == \A x \in runs : x.of \in Request /\ pc[x.of] # "unsent"

RepliesTrue ==
    \A r \in Request : answer[r].kind = "replay" =>
        /\ pc[r] # "unsent"
        /\ answer[r].of \in Request /\ pc[answer[r].of] # "unsent"
        /\ answer[r].status < 500
        /\ body[answer[r].of] = body[r]
        /\ [of |-> answer[r].of, status |-> answer[r].status] \in runs

(* On a route that fails closed, until something runs out: who is past the  *)
(* middleware holds the lock, and a retry of a stored answer is not on the  *)
(* way there.                                                               *)
HolderInside ==
    guarded /\ expiries = 0 => \A r \in Request :
        /\ pc[r] # "unprotected"
        /\ pc[r] \in {"run", "save", "unlock"} => lock = r

LateOutside ==
    guarded /\ expiries = 0 =>
        /\ late # {} => cache # None
        /\ \A r \in late : pc[r] \in {"get", "done"}
        /\ \A x \in runs : x.of \notin late

IdemInv ==
    /\ IdemTypeOK /\ CacheTrue /\ SaveTrue /\ RunsSent /\ RepliesTrue
    /\ HolderInside /\ LateOutside

LEMMA IdemInvInit == IdemInit => IdemInv
  BY NoneAssumption
  DEF IdemInit, IdemInv, IdemTypeOK, CacheTrue, SaveTrue, RunsSent, RepliesTrue, HolderInside,
      LateOutside

(* One step of the chain of one request, or of its client. *)
LEMMA IdemInvRequest ==
    ASSUME IdemInv, NEW r \in Request,
           Send(r) \/ Handle(r) \/ RedisFails(r) \/ Crash(r)
    PROVE  IdemInv'
  <1> USE NoneAssumption
      DEF IdemInv, IdemTypeOK, CacheTrue, SaveTrue, RunsSent, RepliesTrue, HolderInside, LateOutside,
          Goto, Answer, Fault, Statuses, Entry
  <1>1. CASE Send(r)
    BY <1>1 DEF Send
  <1>2. CASE Get(r)
    BY <1>2 DEF Get, SameRequest
  <1>3. CASE SetNX(r)
    BY <1>3 DEF SetNX, LockHeld
  <1>4. CASE ServeHTTP(r)
    BY <1>4 DEF ServeHTTP
  <1>5. CASE Set(r)
    BY <1>5 DEF Set, Cacheable
  <1>6. CASE Del(r)
    BY <1>6 DEF Del
  <1>7. CASE RedisFails(r)
    BY <1>7 DEF RedisFails, RedisDown
  <1>8. CASE Crash(r)
    BY <1>8 DEF Crash
  <1> QED
    BY <1>1, <1>2, <1>3, <1>4, <1>5, <1>6, <1>7, <1>8 DEF Handle

LEMMA IdemInvStep == ASSUME IdemInv, [IdemNext]_idemVars PROVE IdemInv'
  <1> USE DEF IdemInv, IdemTypeOK, CacheTrue, SaveTrue, RunsSent, RepliesTrue, HolderInside, LateOutside
  <1>1. CASE Expire
    BY <1>1 DEF Expire
  <1>2. CASE UNCHANGED idemVars
    BY <1>2 DEF idemVars
  <1> HIDE DEF IdemInv
  <1> QED
    BY <1>1, <1>2, IdemInvRequest DEF IdemNext

LEMMA IdemInvHonours == IdemInv => KeyHonoured
  <1> SUFFICES ASSUME IdemInv PROVE KeyHonoured
    OBVIOUS
  <1>1. ReplayIsFaithful
    BY DEF ReplayIsFaithful, IdemInv, RepliesTrue
  <1>2. RetryNeverRuns
    BY DEF RetryNeverRuns, IdemInv, LateOutside
  <1>3. OneInside
    <2> SUFFICES ASSUME guarded, expiries = 0 PROVE Cardinality(Inside) <= 1
      BY DEF OneInside
    <2>1. Inside \subseteq {lock}
      BY DEF Inside, IdemInv, HolderInside
    <2>2. IsFiniteSet({lock}) /\ Cardinality({lock}) = 1
      BY FS_Singleton
    <2>3. Cardinality(Inside) \in Nat /\ Cardinality(Inside) <= Cardinality({lock})
      BY <2>1, <2>2, FS_Subset, FS_CardinalityType
    <2> QED
      BY <2>2, <2>3
  <1> QED
    BY <1>1, <1>2, <1>3 DEF KeyHonoured

(* A replayed answer is the final answer to a request with the same body;   *)
(* on a route that fails closed, and until a key runs out in Redis, one     *)
(* request at a time is past the middleware and a retry of a stored answer  *)
(* never reaches the handler, for any number of requests, bodies and        *)
(* failed commands.                                                         *)
THEOREM KeyIsHonoured == IdemSpec => []KeyHonoured
  <1>1. IdemSpec => []IdemInv
    BY IdemInvInit, IdemInvStep, PTL DEF IdemSpec
  <1> QED
    BY <1>1, IdemInvHonours, PTL

----------------------------------------------------------------------------
(* Presign prefetch (policy/presign_prefetch.go). *)

JobRecord(r) ==
    \/ r = Ready
    \/ r = Ended
    \/ /\ r = [pc |-> r.pc, c |-> r.c, at |-> r.at]
       /\ r.pc \in {"budget", "call"} /\ r.c \in Challenges /\ r.at \in Nat
    \/ /\ r = [pc |-> r.pc, c |-> r.c, at |-> r.at, epoch |-> r.epoch]
       /\ r.pc \in {"put", "observe"} /\ r.c \in Challenges /\ r.at \in Nat /\ r.epoch \in Nat
    \/ /\ r = [pc |-> "raise", epoch |-> r.epoch, cur |-> r.cur]
       /\ r.epoch \in Nat /\ r.cur \in Nat

PresignRecord(p) ==
    /\ p = [by |-> p.by, epoch |-> p.epoch, until |-> p.until]
    /\ p.by \in Job /\ p.epoch \in Nat /\ p.until \in Nat

HarvestRecord(r) ==
    \/ r = Ready
    \/ r = Ended
    \/ r = [pc |-> "check", got |-> r.got] /\ PresignRecord(r.got)

PresignTypeOK ==
    /\ DOMAIN dispatchLock = Challenges /\ \A c \in Challenges : dispatchLock[c] \in Nat
    /\ DOMAIN cached = Challenges
    /\ \A c \in Challenges : cached[c] = NoPresign \/ PresignRecord(cached[c])
    /\ DOMAIN job = Job /\ \A j \in Job : JobRecord(job[j])
    /\ DOMAIN harvest = Harvest /\ \A h \in Harvest : HarvestRecord(harvest[h])
    /\ epochKey \in Nat /\ netEpoch \in Nat /\ observed \in Nat
    /\ clock \in Nat \ {0} /\ redisFaults \in Nat

(* Where a presign is, it is nowhere else: in the cache, with a submit, or  *)
(* handed out, and only once its job has put it.                            *)
HasPut(j) == job[j].pc \in {"observe", "raise", "done"}
Holding(c, j) == cached[c] # NoPresign /\ cached[c].by = j
Checking(h, j) == harvest[h].pc = "check" /\ harvest[h].got.by = j

OnePlace ==
    /\ \A j \in Job, c \in Challenges : Holding(c, j) =>
          /\ HasPut(j)
          /\ \A d \in Challenges : Holding(d, j) => c = d
          /\ \A h \in Harvest : ~Checking(h, j)
    /\ \A j \in Job, h \in Harvest : Checking(h, j) =>
          /\ HasPut(j)
          /\ \A g \in Harvest : Checking(g, j) => h = g
    /\ \A x \in handed :
          /\ x.job \in Job /\ HasPut(x.job)
          /\ \A c \in Challenges : ~Holding(c, x.job)
          /\ \A h \in Harvest : ~Checking(h, x.job)
    /\ PresignSingleUse

(* While Redis answers, a dispatch on its way has the lock of its challenge *)
(* for itself, taken when it began, and the cache is empty; and a cached    *)
(* presign expires no later than the lock.                                  *)
Dispatching(j, c) == job[j].pc \in {"budget", "call", "put"} /\ job[j].c = c

LockCovers ==
    redisFaults = 0 =>
        /\ overwritten = {}
        /\ \A j \in Job, c \in Challenges : Dispatching(j, c) =>
              /\ dispatchLock[c] = job[j].at + lockTTL
              /\ clock <= job[j].at + DispatchTimeout
              /\ cached[c] = NoPresign
              /\ \A i \in Job : Dispatching(i, c) => i = j
        /\ \A c \in Challenges : cached[c] # NoPresign =>
              dispatchLock[c] # 0 /\ cached[c].until <= dispatchLock[c]

EpochsKept == (~raced => observed <= epochKey) /\ PresignFresh

PresignInv == PresignTypeOK /\ OnePlace /\ LockCovers /\ EpochsKept

LEMMA PresignInvInit == PresignInit => PresignInv
  <1> SUFFICES ASSUME PresignInit PROVE PresignInv
    OBVIOUS
  <1> USE DEF PresignInit, PresignTypeOK, JobRecord, HarvestRecord, Ready, Ended
  <1>1. PresignTypeOK
    OBVIOUS
  <1>2. OnePlace
    BY DEF OnePlace, Holding, Checking, PresignSingleUse
  <1>3. LockCovers
    BY DEF LockCovers, Dispatching
  <1>4. EpochsKept
    BY DEF EpochsKept, PresignFresh
  <1> QED
    BY <1>1, <1>2, <1>3, <1>4 DEF PresignInv

(* CurrentEpoch gives out what the submit took, and gives it out fresh. *)
LEMMA GivenFresh ==
    ASSUME PresignInv, NEW h \in Harvest, CurrentEpoch(h)
    PROVE  \/ handed' = handed
           \/ handed' = handed \cup {[job |-> harvest[h].got.by, to |-> h, fresh |-> TRUE]}
  <1> DEFINE got == harvest[h].got
  <1>1. PresignRecord(got)
    BY DEF PresignInv, PresignTypeOK, HarvestRecord, Ready, Ended, CurrentEpoch
  <1>2. ~(epochKey > got.epoch) => (raced \/ got.epoch >= observed)
    BY <1>1 DEF PresignInv, PresignTypeOK, EpochsKept, PresignRecord
  <1>3. ~(epochKey > got.epoch) => (raced \/ got.epoch >= observed) = TRUE
    BY <1>2, Zenon
  <1>4. \/ handed' = handed
        \/ handed' = handed \cup {[job |-> got.by, to |-> h, fresh |-> TRUE]}
        \/ /\ ~(epochKey > got.epoch)
           /\ handed' = handed \cup {[job |-> got.by, to |-> h,
                                     fresh |-> (raced \/ got.epoch >= observed)]}
    BY Zenon DEF CurrentEpoch
  <1> QED
    BY <1>3, <1>4, Zenon

LEMMA PresignTypeStep == ASSUME PresignInv, PresignNext PROVE PresignTypeOK'
  <1> USE PresignTimesAssumption
      DEF PresignInv, PresignTypeOK, JobRecord, HarvestRecord, PresignRecord, Ready, Ended,
          PresignRedisFails, RedisWorks, lockTTL
  <1>1. ASSUME NEW j \in Job, NEW c \in Challenges, FirePresignPrefetchDirect(j, c)
        PROVE  PresignTypeOK'
    BY <1>1 DEF FirePresignPrefetchDirect
  <1>2. ASSUME NEW j \in Job, AllowDispatch(j) PROVE PresignTypeOK'
    BY <1>2 DEF AllowDispatch
  <1>3. ASSUME NEW j \in Job, PresignAnswers(j) PROVE PresignTypeOK'
    BY <1>3 DEF PresignAnswers
  <1>4. ASSUME NEW j \in Job, Put(j) PROVE PresignTypeOK'
    BY <1>4 DEF Put
  <1>5. ASSUME NEW j \in Job, observeEpoch(j) PROVE PresignTypeOK'
    BY <1>5 DEF observeEpoch
  <1>6. ASSUME NEW j \in Job, RaiseEpoch(j) PROVE PresignTypeOK'
    BY <1>6 DEF RaiseEpoch
  <1>7. ASSUME NEW h \in Harvest, NEW c \in Challenges, HarvestPresignDirect(h, c)
        PROVE  PresignTypeOK'
    BY <1>7 DEF HarvestPresignDirect, GetDel
  <1>8. ASSUME NEW h \in Harvest, CurrentEpoch(h) PROVE PresignTypeOK'
    BY <1>8 DEF CurrentEpoch
  <1>9. CASE PresignTick
    BY <1>9 DEF PresignTick
  <1>10. CASE NextEpoch
    BY <1>10 DEF NextEpoch
  <1> QED
    BY <1>1, <1>2, <1>3, <1>4, <1>5, <1>6, <1>7, <1>8, <1>9, <1>10 DEF PresignNext

LEMMA OnePlaceStep == ASSUME PresignInv, PresignNext PROVE OnePlace'
  <1> USE DEF PresignInv, PresignTypeOK, JobRecord, HarvestRecord, PresignRecord, Ready, Ended,
              OnePlace, HasPut, Holding, Checking, PresignSingleUse
  <1>1. ASSUME NEW j \in Job, NEW c \in Challenges, FirePresignPrefetchDirect(j, c)
        PROVE  OnePlace'
    BY <1>1 DEF FirePresignPrefetchDirect
  <1>2. ASSUME NEW j \in Job, AllowDispatch(j) PROVE OnePlace'
    BY <1>2 DEF AllowDispatch
  <1>3. ASSUME NEW j \in Job, PresignAnswers(j) PROVE OnePlace'
    BY <1>3 DEF PresignAnswers
  <1>4. ASSUME NEW j \in Job, Put(j) PROVE OnePlace'
    BY <1>4 DEF Put
  <1>5. ASSUME NEW j \in Job, observeEpoch(j) PROVE OnePlace'
    BY <1>5 DEF observeEpoch
  <1>6. ASSUME NEW j \in Job, RaiseEpoch(j) PROVE OnePlace'
    BY <1>6 DEF RaiseEpoch
  <1>7. ASSUME NEW h \in Harvest, NEW c \in Challenges, HarvestPresignDirect(h, c)
        PROVE  OnePlace'
    BY <1>7 DEF HarvestPresignDirect, GetDel
  <1>8. ASSUME NEW h \in Harvest, CurrentEpoch(h) PROVE OnePlace'
    <2>1. UNCHANGED <<cached, job>> /\ harvest' = [harvest EXCEPT ![h] = Ended]
      BY <1>8 DEF CurrentEpoch
    <2>2. harvest[h].pc = "check" /\ PresignRecord(harvest[h].got)
      BY <1>8 DEF CurrentEpoch
    <2>3. PICK i \in Job : i = harvest[h].got.by
      BY <2>2
    <2>4. /\ Checking(h, i) /\ HasPut(i)
          /\ \A c \in Challenges : ~Holding(c, i)
          /\ \A g \in Harvest : Checking(g, i) => g = h
          /\ \A x \in handed : x.job # i
      BY <2>2, <2>3
    <2>5. /\ \A j \in Job : HasPut(j)' = HasPut(j)
          /\ \A j \in Job, c \in Challenges : Holding(c, j)' = Holding(c, j)
          /\ \A j \in Job, g \in Harvest : Checking(g, j)' = (Checking(g, j) /\ g # h)
      BY <2>1
    <2>6. PICK y : y.job = i /\ handed' \subseteq handed \cup {y}
      <3> DEFINE new == [job |-> i, to |-> h, fresh |-> TRUE]
      <3>1. new.job = i
        OBVIOUS
      <3>2. handed' \subseteq handed \cup {new}
        BY <1>8, <2>3, GivenFresh
      <3> HIDE DEF new
      <3> QED
        BY <3>1, <3>2
    <2> HIDE DEF HasPut, Holding, Checking, PresignTypeOK
    <2>7. \A x \in handed' :
             /\ x.job \in Job /\ HasPut(x.job)'
             /\ \A c \in Challenges : ~Holding(c, x.job)'
             /\ \A g \in Harvest : ~Checking(g, x.job)'
      BY <2>4, <2>5, <2>6
    <2>8. PresignSingleUse'
      BY <2>4, <2>6
    <2> QED
      BY ZenonT(60), <2>5, <2>7, <2>8
  <1>9. CASE PresignTick
    BY <1>9 DEF PresignTick
  <1>10. CASE NextEpoch
    BY <1>10 DEF NextEpoch
  <1> QED
    BY <1>1, <1>2, <1>3, <1>4, <1>5, <1>6, <1>7, <1>8, <1>9, <1>10 DEF PresignNext

LEMMA LockCoversStep == ASSUME PresignInv, PresignNext PROVE LockCovers'
  <1> USE PresignTimesAssumption
      DEF PresignInv, PresignTypeOK, JobRecord, PresignRecord, Ready, Ended,
          LockCovers, Dispatching, PresignRedisFails, RedisWorks, lockTTL
  <1>1. ASSUME NEW j \in Job, NEW c \in Challenges, FirePresignPrefetchDirect(j, c)
        PROVE  LockCovers'
    BY <1>1 DEF FirePresignPrefetchDirect
  <1>2. ASSUME NEW j \in Job, AllowDispatch(j) PROVE LockCovers'
    BY <1>2 DEF AllowDispatch
  <1>3. ASSUME NEW j \in Job, PresignAnswers(j) PROVE LockCovers'
    BY <1>3 DEF PresignAnswers
  <1>4. ASSUME NEW j \in Job, Put(j) PROVE LockCovers'
    BY SMTT(40), <1>4 DEF Put
  <1>5. ASSUME NEW j \in Job, observeEpoch(j) PROVE LockCovers'
    BY <1>5 DEF observeEpoch
  <1>6. ASSUME NEW j \in Job, RaiseEpoch(j) PROVE LockCovers'
    BY <1>6 DEF RaiseEpoch
  <1>7. ASSUME NEW h \in Harvest, NEW c \in Challenges, HarvestPresignDirect(h, c)
        PROVE  LockCovers'
    BY <1>7 DEF HarvestPresignDirect, GetDel
  <1>8. ASSUME NEW h \in Harvest, CurrentEpoch(h) PROVE LockCovers'
    BY <1>8 DEF CurrentEpoch
  <1>9. CASE PresignTick
    BY <1>9 DEF PresignTick
  <1>10. CASE NextEpoch
    BY <1>10 DEF NextEpoch
  <1> QED
    BY <1>1, <1>2, <1>3, <1>4, <1>5, <1>6, <1>7, <1>8, <1>9, <1>10 DEF PresignNext

LEMMA EpochsKeptStep == ASSUME PresignInv, PresignNext PROVE EpochsKept'
  <1> USE DEF PresignInv, PresignTypeOK, EpochsKept, PresignFresh
  <1>1. ASSUME NEW j \in Job, RaiseEpoch(j) PROVE EpochsKept'
    <2>1. job[j].epoch \in Nat /\ job[j].cur \in Nat
      BY <1>1 DEF RaiseEpoch, JobRecord, Ready, Ended
    <2>2. CASE UNCHANGED <<epochKey, observed, raced, handed>>
      BY <2>2
    <2>3. CASE epochKey # job[j].cur /\ raced' = (raced \/ epochKey # job[j].cur)
      BY <1>1, <2>3 DEF RaiseEpoch
    <2>4. CASE /\ epochKey = job[j].cur /\ raced' = (raced \/ epochKey # job[j].cur)
               /\ epochKey' = IF LaterEpoch(j) THEN job[j].epoch ELSE epochKey
               /\ observed' = IF job[j].epoch > observed THEN job[j].epoch ELSE observed
      <3>1. ~raced => observed' <= epochKey'
        BY <2>1, <2>4 DEF LaterEpoch
      <3>2. ~raced' => ~raced
        BY <2>4
      <3> QED
        BY <1>1, <3>1, <3>2 DEF RaiseEpoch
    <2> QED
      BY <1>1, <2>2, <2>3, <2>4 DEF RaiseEpoch
  <1>2. ASSUME NEW h \in Harvest, CurrentEpoch(h) PROVE EpochsKept'
    <2>1. UNCHANGED <<epochKey, observed, raced>>
      BY <1>2 DEF CurrentEpoch
    <2>2. \A x \in handed' : x.fresh
      BY <1>2, GivenFresh
    <2> QED
      BY <2>1, <2>2
  <1>3. CASE UNCHANGED <<epochKey, handed, observed, raced>>
    BY <1>3
  <1> QED
    BY <1>1, <1>2, <1>3
    DEF PresignNext, FirePresignPrefetchDirect, AllowDispatch, PresignAnswers, Put, observeEpoch,
        HarvestPresignDirect, PresignTick, NextEpoch

LEMMA PresignInvStep == ASSUME PresignInv, [PresignNext]_presignVars PROVE PresignInv'
  <1>1. CASE UNCHANGED presignVars
    BY <1>1 DEF PresignInv, PresignTypeOK, OnePlace, LockCovers, EpochsKept, HasPut, Holding, Checking,
                Dispatching, PresignSingleUse, PresignFresh, presignVars
  <1> QED
    BY <1>1, PresignTypeStep, OnePlaceStep, LockCoversStep, EpochsKeptStep DEF PresignInv

(* A presign is given to one submit at most; while Redis answers, none is   *)
(* replaced in the cache before it expires; and none older than a completed *)
(* observation of the epoch is given out unless two observers raced, for    *)
(* any number of challenges, dispatches and submits and any lives.          *)
THEOREM PresignIsSafe == PresignSpec => []PresignSafe
  <1>1. PresignSpec => []PresignInv
    BY PresignInvInit, PresignInvStep, PTL DEF PresignSpec
  <1>2. PresignInv => PresignSafe
    BY DEF PresignInv, OnePlace, LockCovers, EpochsKept, PresignSafe, PresignNotReplaced
  <1> QED
    BY <1>1, <1>2, PTL

----------------------------------------------------------------------------
(* Admission: the token bucket (ratelimit/ratelimit.go). *)

(* Tokens and calls let through are paid for by the burst and by the time   *)
(* gone, counted from any call on.                                          *)
BucketPays ==
    \A i \in DOMAIN passed :
        (Len(passed) - i + 1) + bucket.tokens <= Burst + Rps * (bucket.ts - passed[i])

RateInv ==
    /\ ticks \in Nat /\ bucket \in [tokens : Nat, ts : Nat]
    /\ bucket.ts <= ticks /\ bucket.tokens <= Burst
    /\ passed \in Seq(Nat)
    /\ \A i \in DOMAIN passed : passed[i] <= bucket.ts
    /\ \A i, j \in DOMAIN passed : i <= j => passed[i] <= passed[j]
    /\ BucketPays
    /\ RateBounded

LEMMA RateInvInit == AdmissionInit => RateInv
  BY AdmissionAssumption DEF AdmissionInit, RateInv, BucketPays, RateBounded

(* What the refill finds: no more than the burst, nor than what was left and *)
(* what the rate has added since.                                            *)
LEMMA RefillBounded ==
    ASSUME RateInv
    PROVE  /\ tokenBucketScript \in Nat /\ tokenBucketScript <= Burst
           /\ \A i \in DOMAIN passed :
                 (Len(passed) - i + 1) + tokenBucketScript <= Burst + Rps * (ticks - passed[i])
  <1> DEFINE gone == ticks - bucket.ts
  <1>1. gone \in Nat /\ gone * Rps \in Nat /\ Burst \in Nat /\ Rps \in Nat /\ bucket.tokens \in Nat
    BY AdmissionAssumption DEF RateInv
  <1>2. tokenBucketScript \in Nat /\ tokenBucketScript <= Burst
        /\ tokenBucketScript <= bucket.tokens + gone * Rps
    BY <1>1 DEF tokenBucketScript, AtMost
  <1>3. ASSUME NEW i \in DOMAIN passed
        PROVE  (Len(passed) - i + 1) + tokenBucketScript <= Burst + Rps * (ticks - passed[i])
    <2>1. passed[i] \in Nat /\ i \in 1..Len(passed) /\ Len(passed) \in Nat
      BY DEF RateInv
    <2>2. (Len(passed) - i + 1) + bucket.tokens <= Burst + Rps * (bucket.ts - passed[i])
      BY DEF RateInv, BucketPays
    <2>3. Rps * (ticks - passed[i]) = Rps * (bucket.ts - passed[i]) + gone * Rps
      BY SMTT(40), <1>1, <2>1 DEF RateInv
    <2>4. PICK paid \in Nat : paid = gone * Rps
      BY <1>1
    <2>5. PICK base \in Int : base = Rps * (bucket.ts - passed[i])
      BY SMTT(40), <1>1, <2>1 DEF RateInv
    <2>6. PICK level \in Nat : level = tokenBucketScript
      BY <1>2
    <2>7. PICK due : due = Rps * (ticks - passed[i])
      OBVIOUS
    <2>8. due = base + paid
      BY <2>3, <2>4, <2>5, <2>7
    <2>9. level <= bucket.tokens + paid
      BY <1>2, <2>4, <2>6
    <2>10. (Len(passed) - i + 1) + bucket.tokens <= Burst + base
      BY <2>2, <2>5
    <2>11. (Len(passed) - i + 1) + level <= Burst + due
      <3>1. Burst \in Nat /\ bucket.tokens \in Nat /\ i \in Nat /\ Len(passed) \in Nat
        BY <1>1, <2>1
      <3>2. level \in Nat /\ paid \in Nat /\ base \in Int
        OBVIOUS
      <3> QED
        BY SMTT(40), <3>1, <3>2, <2>8, <2>9, <2>10
    <2>12. (Len(passed) - i + 1) + tokenBucketScript <= Burst + due
      BY <2>6, <2>11
    <2> QED
      BY <2>7, <2>12
  <1> QED
    BY <1>2, <1>3

(* A call is let through. *)
LEMMA PassPays ==
    ASSUME RateInv, UNCHANGED ticks, tokenBucketScript >= 1,
           bucket' = [tokens |-> tokenBucketScript - 1, ts |-> ticks],
           passed' = Append(passed, ticks)
    PROVE  RateInv'
  <1>1. /\ passed \in Seq(Nat) /\ ticks \in Nat /\ Burst \in Nat /\ Rps \in Nat
        /\ Len(passed) \in Nat /\ DOMAIN passed = 1..Len(passed)
    BY AdmissionAssumption DEF RateInv
  <1>2. /\ passed' \in Seq(Nat) /\ Len(passed') = Len(passed) + 1
        /\ DOMAIN passed' = 1..(Len(passed) + 1)
        /\ passed'[Len(passed) + 1] = ticks
        /\ \A i \in DOMAIN passed : passed'[i] = passed[i]
    BY <1>1
  <1>3. \A i \in DOMAIN passed' : i = Len(passed) + 1 \/ i \in DOMAIN passed
    BY <1>1, <1>2
  <1>t. PICK level \in Nat : level = tokenBucketScript
    BY RefillBounded
  <1>4. bucket' \in [tokens : Nat, ts : Nat] /\ bucket'.tokens = level - 1 /\ bucket'.ts = ticks
    BY <1>1, <1>t
  <1>5. level <= Burst
    BY <1>t, RefillBounded
  <1>6. \A i \in DOMAIN passed' : passed'[i] \in Nat /\ passed'[i] <= ticks
    BY <1>1, <1>2, <1>3 DEF RateInv
  <1>7. ASSUME NEW i \in DOMAIN passed', NEW j \in DOMAIN passed', i <= j
        PROVE  passed'[i] <= passed'[j]
    <2>1. CASE j = Len(passed) + 1
      BY <1>2, <1>6, <2>1
    <2>2. CASE j \in DOMAIN passed
      <3>1. i \in DOMAIN passed
        BY <1>1, <1>2, <1>7, <2>2
      <3> QED
        BY <1>2, <1>7, <2>2, <3>1 DEF RateInv
    <2> QED
      BY <1>3, <2>1, <2>2
  <1>8. ASSUME NEW i \in DOMAIN passed'
        PROVE  (Len(passed') - i + 1) + bucket'.tokens <= Burst + Rps * (ticks - passed'[i])
    <2>1. CASE i = Len(passed) + 1
      BY <1>1, <1>2, <1>4, <1>5, <2>1
    <2>2. CASE i \in DOMAIN passed
      <3>1. (Len(passed) - i + 1) + level <= Burst + Rps * (ticks - passed[i])
        BY <1>t, <2>2, RefillBounded
      <3>2. PICK paid \in Int : paid = Rps * (ticks - passed[i])
        BY <1>1, <2>2
      <3> QED
        BY <1>1, <1>2, <1>4, <2>2, <3>1, <3>2
    <2> QED
      BY <1>3, <2>1, <2>2
  <1>9. ASSUME NEW i \in DOMAIN passed', NEW j \in DOMAIN passed', i <= j
        PROVE  j - i + 1 <= Burst + Rps * (passed'[j] - passed'[i])
    <2>1. CASE j = Len(passed) + 1
      <3>1. PICK paid \in Int : paid = Rps * (ticks - passed'[i])
        BY <1>1, <1>6
      <3>2. (Len(passed') - i + 1) + (level - 1) <= Burst + paid
        BY <1>4, <1>8, <3>1
      <3>3. level - 1 \in Nat
        BY <1>t
      <3> QED
        BY <1>1, <1>2, <2>1, <3>1, <3>2, <3>3
    <2>2. CASE j \in DOMAIN passed
      <3>1. i \in DOMAIN passed
        BY <1>1, <1>2, <1>9, <2>2
      <3> QED
        BY <1>2, <1>9, <2>2, <3>1 DEF RateInv, RateBounded
    <2> QED
      BY <1>3, <2>1, <2>2
  <1>10. BucketPays'
    BY <1>4, <1>8 DEF BucketPays
  <1>11. RateBounded'
    BY <1>9 DEF RateBounded
  <1> QED
    BY <1>1, <1>2, <1>4, <1>5, <1>6, <1>7, <1>10, <1>11, SMTT(40) DEF RateInv

(* A call is refused, and the bucket remembers when. *)
LEMMA RefusalPays ==
    ASSUME RateInv, UNCHANGED <<ticks, passed>>,
           bucket' = [tokens |-> tokenBucketScript, ts |-> ticks]
    PROVE  RateInv'
  <1>1. ticks \in Nat /\ bucket'.tokens = tokenBucketScript /\ bucket'.ts = ticks
    BY DEF RateInv
  <1>2. bucket' \in [tokens : Nat, ts : Nat] /\ bucket'.tokens <= Burst
    BY <1>1, RefillBounded
  <1>3. BucketPays'
    BY <1>1, RefillBounded DEF BucketPays
  <1>4. \A i \in DOMAIN passed : passed[i] <= ticks
    BY DEF RateInv
  <1> QED
    BY <1>1, <1>2, <1>3, <1>4 DEF RateInv, RateBounded

LEMMA RateInvStep == ASSUME RateInv, [AdmissionNext]_admissionVars PROVE RateInv'
  <1>1. CASE UNCHANGED <<ticks, bucket, passed>>
    BY <1>1 DEF RateInv, BucketPays, RateBounded
  <1>2. CASE AdmissionTick
    BY <1>2 DEF AdmissionTick, RateInv, BucketPays, RateBounded
  <1>3. ASSUME NEW c \in Call, Allow(c) PROVE RateInv'
    BY <1>1, <1>3, PassPays, RefusalPays DEF Allow
  <1>4. CASE RevokeAPIKey
    BY <1>1, <1>4 DEF RevokeAPIKey
  <1>5. ASSUME NEW c \in Call, requireAPIKey(c) \/ Forward(c) \/ Complete(c) PROVE RateInv'
    BY <1>1, <1>5 DEF requireAPIKey, Forward, Complete
  <1>6. CASE UNCHANGED admissionVars
    BY <1>1, <1>6 DEF admissionVars
  <1> QED
    BY <1>2, <1>3, <1>4, <1>5, <1>6 DEF AdmissionNext

(* In any stretch of time the limiter lets no more calls through than the   *)
(* burst and what the rate grants meanwhile, for any burst and rate, any    *)
(* number of calls and any refusals and outages between them.               *)
THEOREM RateStaysBounded == AdmissionSpec => []RateBounded
  <1>1. AdmissionSpec => []RateInv
    BY RateInvInit, RateInvStep, PTL DEF AdmissionSpec
  <1> QED
    BY <1>1, PTL DEF RateInv

----------------------------------------------------------------------------
(* The risk advisory (risk/service.go, policy/submit.go). *)

(* What the four sources may have said to a call: the tenant's denylist is  *)
(* critical only when it held the destination, and not silent while it      *)
(* does; the blocklist is critical only for one of its destinations.        *)
SourcesTrue(r) ==
    /\ r.got["tenant_denylist"] \in {"pending", "critical", "none", "error"}
    /\ r.always => r.got["tenant_denylist"] # "none"
    /\ r.got["tenant_denylist"] = "critical" => r.once
    /\ r.got["blocklist"] \in {"pending", "critical", "none", "error"}
    /\ r.got["blocklist"] = "critical" => r.dest \in blocklist
    /\ r.got["tenant_allowlist"] \in {"pending", "none", "error"}
    /\ r.got["dest_history"] \in {"pending", "low", "error"}

Reading(r) ==
    /\ DOMAIN r = {"pc", "tenant", "dest", "verified", "always", "once", "warn", "got"}
    /\ r.pc = "reading"
    /\ r.tenant \in Tenant /\ r.dest \in Destination
    /\ DOMAIN r.got = Source
    /\ r.always => denylist[<<r.tenant, r.dest>>] # "absent"
    /\ denylist[<<r.tenant, r.dest>>] # "absent" => r.once
    /\ SourcesTrue(r)

Answered(r) ==
    /\ r.pc = "done"
    /\ r.always => \/ r.answer.level = "critical" \/ r.answer.degraded \/ r.verified = "mismatch"
    /\ r.answer.level = "critical" => r.once \/ r.dest \in blocklist

RiskInv ==
    /\ DOMAIN denylist = Tenant \X Destination
    /\ DOMAIN eval = Evaluation
    /\ \A e \in Evaluation : eval[e] = IdleEval \/ Reading(eval[e]) \/ Answered(eval[e])

LEMMA RiskInvInit == RiskInit => RiskInv
  BY DEF RiskInit, RiskInv

LEMMA LevelNumbers ==
    /\ LevelToInt("none") = 1 /\ LevelToInt("low") = 2 /\ LevelToInt("critical") = 5
    /\ IntToLevel(1) = "none" /\ IntToLevel(2) = "low" /\ IntToLevel(5) = "critical"
  <1>1. /\ Levels[1] = "none" /\ Levels[2] = "low" /\ Levels[3] = "medium" /\ Levels[4] = "high"
        /\ Levels[5] = "critical"
    BY DEF Levels
  <1> HIDE DEF Levels
  <1>2. \A i \in 1..5 : i = 1 \/ i = 2 \/ i = 3 \/ i = 4 \/ i = 5
    OBVIOUS
  <1>3. LevelToInt("none") = 1
    BY <1>1, <1>2 DEF LevelToInt
  <1>4. LevelToInt("low") = 2
    BY <1>1, <1>2 DEF LevelToInt
  <1>5. LevelToInt("critical") = 5
    BY <1>1, <1>2 DEF LevelToInt
  <1> QED
    BY <1>1, <1>3, <1>4, <1>5 DEF IntToLevel

(* The score is critical exactly when the denylist or the blocklist was. *)
LEMMA ScoreIsCritical ==
    ASSUME NEW e \in Evaluation, SourcesTrue(eval[e]),
           \A s \in Source : eval[e].got[s] # "pending"
    PROVE  /\ IntToLevel(maxLevel(e)) \in {"none", "low", "critical"}
           /\ IntToLevel(maxLevel(e)) = "critical" <=>
                 \/ eval[e].got["tenant_denylist"] = "critical"
                 \/ eval[e].got["blocklist"] = "critical"
  <1> DEFINE got == eval[e].got
             levels == {LevelToInt(got[s]) : s \in {x \in Source : got[x] # "error"}}
             critical == got["tenant_denylist"] = "critical" \/ got["blocklist"] = "critical"
  <1>1. \A s \in Source : got[s] \in {"none", "low", "critical", "error"}
    BY DEF Source, SourcesTrue
  <1>2. levels \subseteq {1, 2, 5}
    BY <1>1, LevelNumbers
  <1>3. 5 \in levels <=> critical
    BY <1>1, LevelNumbers DEF Source, SourcesTrue
  <1>4. maxLevel(e) = CHOOSE n \in levels \cup {1} : \A m \in levels : m <= n
    BY DEF maxLevel
  <1> HIDE DEF levels, critical
  <1>5. \E n \in levels \cup {1} : \A m \in levels : m <= n
    BY <1>2
  <1>6. maxLevel(e) \in levels \cup {1} /\ \A m \in levels : m <= maxLevel(e)
    BY <1>4, <1>5
  <1>7. maxLevel(e) \in {1, 2, 5} /\ (maxLevel(e) = 5 <=> 5 \in levels)
    <2>1. \A n : n \in levels => n = 1 \/ n = 2 \/ n = 5
      BY <1>2
    <2> QED
      BY <1>6, <2>1
  <1> QED
    BY <1>3, <1>7, LevelNumbers DEF critical

(* A call that is watched through an edit of the denylist. *)
LEMMA WatchedStays ==
    ASSUME RiskInv, NEW t \in Tenant, NEW d \in Destination,
           (\E reason \in {Null, "text"} : addToDenylist(t, d, reason)) \/ removeFromDenylist(t, d)
    PROVE  RiskInv'
  <1>1. /\ DOMAIN denylist' = Tenant \X Destination
        /\ eval' = [e \in Evaluation |-> Watched(denylist', e)]
        /\ UNCHANGED blocklist
    BY DEF RiskInv, addToDenylist, removeFromDenylist, RemoveEntry
  <1>2. ASSUME NEW e \in Evaluation
        PROVE  eval'[e] = IdleEval \/ Reading(eval[e])' \/ Answered(eval[e])'
    <2>1. CASE eval[e].pc # "reading"
      <3>1. eval'[e] = eval[e]
        BY <1>1, <2>1 DEF Watched
      <3> QED
        BY <1>1, <2>1, <3>1 DEF RiskInv, Reading, Answered, IdleEval
    <2>2. CASE eval[e].pc = "reading"
      <3> DEFINE r == eval[e]
                 now == denylist'[<<r.tenant, r.dest>>] # "absent"
                 q == [r EXCEPT !.always = @ /\ now, !.once = @ \/ now]
      <3>1. Reading(r)
        BY <2>2 DEF RiskInv, IdleEval, Answered
      <3>2. eval'[e] = q
        BY <1>1, <2>2 DEF Watched
      <3>3. /\ q.pc = "reading" /\ q.tenant = r.tenant /\ q.dest = r.dest /\ q.got = r.got
            /\ q.always = (r.always /\ now) /\ q.once = (r.once \/ now)
        BY <3>1 DEF Reading
      <3>4. DOMAIN q = DOMAIN r
        BY <3>1 DEF Reading
      <3> HIDE DEF q
      <3>5. PICK s : s = eval'[e]
        OBVIOUS
      <3>6. /\ DOMAIN s = DOMAIN r /\ s.pc = "reading" /\ s.tenant = r.tenant /\ s.dest = r.dest
            /\ s.got = r.got
        BY <3>2, <3>3, <3>4, <3>5
      <3>7. (s.always => r.always /\ now) /\ (r.once => s.once) /\ (now => s.once)
        BY <3>2, <3>3, <3>5, Zenon
      <3>8. SourcesTrue(s)'
        BY <1>1, <3>1, <3>6, <3>7 DEF Reading, SourcesTrue
      <3>9. Reading(s)'
        BY <3>1, <3>6, <3>7, <3>8 DEF Reading
      <3> QED
        BY <3>5, <3>9, Zenon DEF Reading, SourcesTrue
    <2> QED
      BY <2>1, <2>2
  <1> QED
    BY <1>1, <1>2 DEF RiskInv

(* A step that leaves the denylist alone, grows the blocklist at most, and  *)
(* moves one call at most.                                                  *)
LEMMA OthersStay ==
    ASSUME RiskInv, UNCHANGED denylist, blocklist \subseteq blocklist',
           NEW e \in Evaluation, DOMAIN eval' = Evaluation,
           \A o \in Evaluation : o # e => eval'[o] = eval[o],
           eval'[e] = eval[e] \/ Reading(eval[e])' \/ Answered(eval[e])'
    PROVE  RiskInv'
  BY DEF RiskInv, Reading, Answered, SourcesTrue

LEMMA NoCallMoves ==
    ASSUME RiskInv, UNCHANGED <<denylist, eval>>, blocklist \subseteq blocklist'
    PROVE  RiskInv'
  BY DEF RiskInv, Reading, Answered, SourcesTrue

LEMMA CallBegins ==
    ASSUME RiskInv, NEW e \in Evaluation, NEW t \in Tenant, NEW d \in Destination,
           NEW v \in {"match", "mismatch"}, evaluateRisk(e, t, d, v)
    PROVE  RiskInv'
  <1>1. /\ UNCHANGED <<denylist, blocklist>> /\ DOMAIN eval' = Evaluation
        /\ \A o \in Evaluation : o # e => eval'[o] = eval[o]
    BY DEF evaluateRisk, RiskInv
  <1> DEFINE now == denylist[<<t, d>>] # "absent"
             refused == [pc |-> "done", tenant |-> t, dest |-> d, verified |-> v, always |-> now,
                         once |-> now,
                         answer |-> [level |-> "high", action |-> "none", degraded |-> FALSE]]
             begun == [pc |-> "reading", tenant |-> t, dest |-> d, verified |-> v, always |-> now,
                       once |-> now, warn |-> resolveConfig(t), got |-> [s \in Source |-> "pending"]]
  <1>2. eval'[e] = IF v = "mismatch" THEN refused ELSE begun
    BY DEF evaluateRisk, RiskInv
  <1>3. CASE v = "mismatch"
    <2>1. refused.pc = "done" /\ refused.verified = "mismatch" /\ refused.answer.level = "high"
      BY <1>3
    <2> HIDE DEF refused
    <2> QED
      BY <1>1, <1>2, <1>3, <2>1, OthersStay DEF Answered
  <1>4. CASE v # "mismatch"
    <2>1. /\ DOMAIN begun = {"pc", "tenant", "dest", "verified", "always", "once", "warn", "got"}
          /\ begun.pc = "reading" /\ begun.tenant = t /\ begun.dest = d
          /\ begun.always = now /\ begun.once = now
          /\ begun.got = [s \in Source |-> "pending"]
      OBVIOUS
    <2> HIDE DEF begun
    <2>2. Reading(eval[e])'
      <3>1. eval'[e] = begun
        BY <1>2, <1>4
      <3>2. begun.always <=> now
        BY <2>1
      <3>3. begun.once <=> now
        BY <2>1
      <3>4. SourcesTrue(eval[e])'
        BY <1>1, <2>1, <3>1, <3>2 DEF SourcesTrue, Source
      <3> QED
        BY <1>1, <2>1, <3>1, <3>2, <3>3, <3>4 DEF Reading
    <2> QED
      BY <1>1, <2>2, OthersStay
  <1> QED
    BY <1>3, <1>4

(* A source answers, or cannot be read. *)
LEMMA SourceRead ==
    ASSUME RiskInv, NEW e \in Evaluation, NEW s \in Source,
           ReadSource(e, s) \/ ReadSourceFails(e, s)
    PROVE  RiskInv'
  <1>1. /\ UNCHANGED <<denylist, blocklist>> /\ DOMAIN eval' = Evaluation
        /\ \A o \in Evaluation : o # e => eval'[o] = eval[o]
    BY DEF ReadSource, ReadSourceFails, RiskInv
  <1>2. Reading(eval[e])
    BY DEF ReadSource, ReadSourceFails, RiskInv, IdleEval, Answered
  <1>3. PICK a : /\ a \in {Evaluated(e, s), "error"}
                 /\ eval' = [eval EXCEPT ![e].got[s] = a]
    BY DEF ReadSource, ReadSourceFails
  <1> DEFINE r == eval[e]
  <1>q. PICK q : q = eval'[e]
    OBVIOUS
  <1>4. /\ DOMAIN q = DOMAIN r /\ q.pc = r.pc /\ q.tenant = r.tenant /\ q.dest = r.dest
        /\ q.always = r.always /\ q.once = r.once /\ q.got = [r.got EXCEPT ![s] = a]
    BY <1>2, <1>3, <1>q DEF RiskInv, Reading
  <1>5. /\ s = "tenant_denylist" =>
              /\ a \in {"critical", "none", "error"}
              /\ a = "none" => denylist[<<r.tenant, r.dest>>] = "absent"
              /\ a = "critical" => denylist[<<r.tenant, r.dest>>] # "absent"
        /\ s = "blocklist" =>
              a \in {"critical", "none", "error"} /\ (a = "critical" => r.dest \in blocklist)
        /\ s = "tenant_allowlist" => a \in {"none", "error"}
        /\ s = "dest_history" => a \in {"low", "error"}
    BY <1>3 DEF Evaluated, TenantDenylist, TenantAllowlist, Blocklist, DestHistory, ReadEntry
  <1>6. Reading(eval[e])'
    BY <1>1, <1>2, <1>q, <1>4, <1>5 DEF Reading, SourcesTrue, Source
  <1> QED
    BY <1>1, <1>6, OthersStay

LEMMA CallAnswered ==
    ASSUME RiskInv, NEW e \in Evaluation, AnswerEvaluation(e)
    PROVE  RiskInv'
  <1>1. /\ UNCHANGED <<denylist, blocklist>> /\ DOMAIN eval' = Evaluation
        /\ \A o \in Evaluation : o # e => eval'[o] = eval[o]
    BY DEF AnswerEvaluation, RiskInv
  <1>2. Reading(eval[e]) /\ \A s \in Source : eval[e].got[s] # "pending"
    BY DEF AnswerEvaluation, RiskInv, IdleEval, Answered
  <1> DEFINE r == eval[e]
             degraded == \E s \in Source : r.got[s] = "error"
             level == IntToLevel(maxLevel(e))
             q == [pc |-> "done", tenant |-> r.tenant, dest |-> r.dest, verified |-> r.verified,
                   always |-> r.always, once |-> r.once,
                   answer |-> [level |-> level, action |-> DecideAction(level, r.warn),
                               degraded |-> degraded]]
  <1>3. eval'[e] = q
    BY Zenon DEF AnswerEvaluation, RiskInv
  <1>4. /\ q.pc = "done" /\ q.dest = r.dest /\ q.always = r.always /\ q.once = r.once
        /\ q.answer.level = level /\ q.answer.degraded = degraded
    OBVIOUS
  <1>5. r.always => level = "critical" \/ degraded
    BY <1>2, ScoreIsCritical DEF Reading, SourcesTrue, Source
  <1>6. level = "critical" => r.once \/ r.dest \in blocklist
    BY <1>2, ScoreIsCritical DEF Reading, SourcesTrue
  <1> HIDE DEF q, level, degraded
  <1>7. Answered(eval[e])'
    BY <1>1, <1>3, <1>4, <1>5, <1>6 DEF Answered
  <1> QED
    BY <1>1, <1>7, OthersStay

LEMMA RiskInvStep == ASSUME RiskInv, [RiskNext]_riskVars PROVE RiskInv'
  <1>1. ASSUME NEW t \in Tenant, NEW d \in Destination,
               \/ \E reason \in {Null, "text"} : addToDenylist(t, d, reason) \/ addToAllowlist(t, d, reason)
               \/ removeFromDenylist(t, d)
               \/ removeFromAllowlist(t, d)
        PROVE  RiskInv'
    <2>1. CASE UNCHANGED <<denylist, eval, blocklist>>
      BY <2>1, NoCallMoves
    <2> QED
      BY <1>1, <2>1, WatchedStays DEF addToAllowlist, removeFromAllowlist
  <1>2. ASSUME NEW t \in Tenant, NEW warn \in Level,
               updateRiskConfig(t, warn) \/ updateTenantDefaults(t, warn) \/ deleteRiskConfig(t)
        PROVE  UNCHANGED <<denylist, eval, blocklist>>
    BY <1>2 DEF updateRiskConfig, updateTenantDefaults, deleteRiskConfig
  <1>3. ASSUME NEW t \in Tenant, deleteRiskConfig(t) PROVE UNCHANGED <<denylist, eval, blocklist>>
    BY <1>3 DEF deleteRiskConfig
  <1>4. ASSUME NEW f \in Feed, SeedFeedRuns(f) \/ downloadFails(f)
        PROVE  UNCHANGED <<denylist, eval, blocklist>>
    BY <1>4 DEF SeedFeedRuns, downloadFails
  <1>5. ASSUME NEW f \in Feed, NEW c \in Content, NEW ok \in SUBSET c.entries, ingestFeed(f, c, ok)
        PROVE  UNCHANGED <<denylist, eval>> /\ blocklist \subseteq blocklist'
    <2>1. UNCHANGED <<denylist, eval>> /\ blocklist' \in {blocklist, blocklist \cup ok}
      BY <1>5, Zenon DEF ingestFeed
    <2> QED
      BY <2>1
  <1>6. CASE UNCHANGED riskVars
    BY <1>6, NoCallMoves DEF riskVars
  <1>7. CASE UNCHANGED <<denylist, eval, blocklist>>
    BY <1>7, NoCallMoves
  <1> QED
    BY <1>1, <1>2, <1>3, <1>4, <1>5, <1>6, <1>7, NoCallMoves, CallBegins, SourceRead, CallAnswered
    DEF RiskNext

(* A destination that stayed on the tenant's denylist through a call is     *)
(* answered "critical", or the answer says that checks were missing or that *)
(* the transaction could not be verified; and "critical" is answered only   *)
(* for a destination that was denied at some moment of the call or is on    *)
(* the blocklist, for any number of calls, edits, feeds and faults.         *)
THEOREM AdvisoryIsHonest == RiskSpec => []AdvisoryHonest
  <1>1. RiskSpec => []RiskInv
    BY RiskInvInit, RiskInvStep, PTL DEF RiskSpec
  <1>2. RiskInv => AdvisoryHonest
    <2> SUFFICES ASSUME RiskInv, NEW e \in Evaluation, eval[e].pc = "done"
                 PROVE  LET a == eval[e].answer
                        IN  /\ eval[e].always =>
                                 \/ a.level = "critical" \/ a.degraded \/ eval[e].verified = "mismatch"
                            /\ a.level = "critical" => eval[e].once \/ eval[e].dest \in blocklist
      BY Zenon DEF AdvisoryHonest
    <2>1. Answered(eval[e])
      <3>1. eval[e] = IdleEval \/ Reading(eval[e]) \/ Answered(eval[e])
        BY Zenon DEF RiskInv
      <3>2. eval[e] # IdleEval
        BY DEF IdleEval
      <3>3. ~Reading(eval[e])
        BY Zenon DEF Reading
      <3> QED
        BY <3>1, <3>2, <3>3, Zenon
    <2> QED
      BY <2>1, Zenon DEF Answered
  <1> QED
    BY <1>1, <1>2, PTL
----------------------------------------------------------------------------
(* From the chain's logs to the endpoints (webhooks/listener.go). *)

ToldLine == [tx : Nat, line : Nat, sub : Nat]

(* A notification is of a confirmed transaction, which mentions the program *)
(* of its subscription.                                                     *)
Known(x) ==
    /\ x.tx \in DOMAIN confirmed
    /\ x.sub \in DOMAIN Programs
    /\ Programs[x.sub] \in confirmed[x.tx].mentions

Before(x, y) == x.tx <= y.tx /\ (x.tx = y.tx => x.sub # y.sub)

RelayTypeOK ==
    /\ confirmed \in Seq(Transaction)
    /\ subscribed.up \in BOOLEAN
    /\ subscribed.count \in Nat /\ subscribed.count <= Len(Programs)
    /\ subscribed = [up |-> subscribed.up, count |-> subscribed.count]
    /\ stream \in Seq(ToldLine)
    /\ DOMAIN inbox = {EndpointList[i] : i \in DOMAIN EndpointList}
    /\ \A p \in DOMAIN inbox : inbox[p] \in Seq(ToldLine)
    /\ listenerFaults \in Nat

(* What waits is in the order of the chain, one notification per            *)
(* subscription and transaction.                                            *)
StreamOrdered ==
    /\ \A m \in DOMAIN stream : Known(stream[m])
    /\ \A m, k \in DOMAIN stream : m < k => Before(stream[m], stream[k])

(* What an endpoint got of a notification comes before what is to be read   *)
(* of it, and it got no line of it twice.                                   *)
InboxOrdered ==
    \A p \in DOMAIN inbox :
        /\ \A i \in DOMAIN inbox[p] : Known(inbox[p][i]) /\ ~confirmed[inbox[p][i].tx].err
        /\ \A i, j \in DOMAIN inbox[p] : i < j =>
              /\ inbox[p][i].tx <= inbox[p][j].tx
              /\ inbox[p][i] # inbox[p][j]
        /\ \A i \in DOMAIN inbox[p], m \in DOMAIN stream :
              /\ inbox[p][i].tx <= stream[m].tx
              /\ inbox[p][i].tx = stream[m].tx /\ inbox[p][i].sub = stream[m].sub =>
                    inbox[p][i].line < stream[m].line

SameInboxes == listenerFaults = 0 => \A p, q \in DOMAIN inbox : inbox[p] = inbox[q]

RelayInv == RelayTypeOK /\ StreamOrdered /\ InboxOrdered /\ SameInboxes

LEMMA ConfiguredSequences ==
    /\ Len(Programs) \in Nat /\ DOMAIN Programs = 1..Len(Programs)
    /\ Len(EndpointList) \in Nat /\ DOMAIN EndpointList = 1..Len(EndpointList)
  <1>1. \A s \in Seq(STRING) : Len(s) \in Nat /\ DOMAIN s = 1..Len(s)
    OBVIOUS
  <1> QED
    BY <1>1, RelayAssumption

LEMMA RelayInvInit == ChainInit => RelayInv
  <1> SUFFICES ASSUME ChainInit PROVE RelayInv
    OBVIOUS
  <1>1. /\ confirmed = <<>> /\ stream = <<>> /\ listenerFaults = 0 /\ subscribed = Down
        /\ DOMAIN inbox = {EndpointList[i] : i \in DOMAIN EndpointList}
        /\ \A p \in DOMAIN inbox : inbox[p] = <<>>
    BY DEF ChainInit
  <1>2. /\ confirmed \in Seq(Transaction) /\ stream \in Seq(ToldLine)
        /\ \A p \in DOMAIN inbox : inbox[p] \in Seq(ToldLine)
    <2>1. <<>> \in Seq(Transaction) /\ <<>> \in Seq(ToldLine)
      OBVIOUS
    <2> QED
      BY <1>1, <2>1, Zenon
  <1>3. /\ subscribed.up \in BOOLEAN
        /\ subscribed.count \in Nat /\ subscribed.count <= Len(Programs)
        /\ subscribed = [up |-> subscribed.up, count |-> subscribed.count]
    BY <1>1, ConfiguredSequences DEF Down
  <1> QED
    BY <1>1, <1>2, <1>3 DEF RelayInv, RelayTypeOK, StreamOrdered, InboxOrdered, SameInboxes

(* What is lost of the stream leaves what was published in order.           *)
LEMMA StreamLost ==
    ASSUME RelayInv, UNCHANGED <<confirmed, inbox>>, stream' = <<>>,
           subscribed' = Down, listenerFaults' = listenerFaults + 1
    PROVE  RelayInv'
  <1>1. RelayTypeOK'
    BY ConfiguredSequences DEF Down, RelayInv, RelayTypeOK
  <1>2. DOMAIN stream' = {}
    OBVIOUS
  <1>3. StreamOrdered' /\ InboxOrdered'
    BY <1>2 DEF RelayInv, StreamOrdered, InboxOrdered, Known
  <1>4. SameInboxes'
    BY DEF RelayInv, RelayTypeOK, SameInboxes
  <1> QED
    BY <1>1, <1>3, <1>4 DEF RelayInv

LEMMA ConnectionMoves ==
    ASSUME RelayInv, UNCHANGED <<confirmed, inbox, stream, listenerFaults>>,
           Dial \/ Subscribe
    PROVE  RelayInv'
  <1>1. PICK s : s = subscribed
    OBVIOUS
  <1>2. /\ s.up \in BOOLEAN /\ s.count \in Nat /\ s.count <= Len(Programs)
        /\ s = [up |-> s.up, count |-> s.count]
    BY <1>1 DEF RelayInv, RelayTypeOK
  <1> DEFINE Connected(r) == /\ r.up \in BOOLEAN /\ r.count \in Nat /\ r.count <= Len(Programs)
                            /\ r = [up |-> r.up, count |-> r.count]
  <1>d. ASSUME Dial PROVE Connected(subscribed')
    <2>1. subscribed' = [up |-> TRUE, count |-> 0]
      BY <1>d DEF Dial
    <2> QED
      BY <2>1, ConfiguredSequences
  <1>s. ASSUME Subscribe PROVE Connected(subscribed')
    <2>1. s.count < Len(Programs) /\ subscribed' = [s EXCEPT !.count = @ + 1]
      BY <1>1, <1>s DEF Subscribe
    <2>2. subscribed' = [up |-> s.up, count |-> s.count + 1]
      BY <1>2, <2>1
    <2> QED
      BY <1>2, <2>1, <2>2, ConfiguredSequences
  <1>3. /\ subscribed'.up \in BOOLEAN
        /\ subscribed'.count \in Nat /\ subscribed'.count <= Len(Programs)
        /\ subscribed' = [up |-> subscribed'.up, count |-> subscribed'.count]
    BY <1>d, <1>s
  <1>4. RelayTypeOK'
    BY <1>3 DEF RelayInv, RelayTypeOK
  <1>5. (StreamOrdered /\ InboxOrdered /\ SameInboxes)'
    BY DEF RelayInv, StreamOrdered, InboxOrdered, SameInboxes, Known
  <1> QED
    BY <1>4, <1>5 DEF RelayInv

(* A transaction is confirmed and told on each subscription it mentions.    *)
LEMMA ToldInOrder ==
    ASSUME RelayInv, NEW tx \in Transaction, Confirm(tx)
    PROVE  RelayInv'
  <1> DEFINE n == Len(confirmed) + 1
  <1>1. /\ confirmed \in Seq(Transaction) /\ confirmed' = Append(confirmed, tx)
        /\ UNCHANGED <<subscribed, inbox, listenerFaults>>
        /\ Len(confirmed) \in Nat /\ DOMAIN confirmed = 1..Len(confirmed)
    BY DEF Confirm, RelayInv, RelayTypeOK
  <1>2. /\ confirmed' \in Seq(Transaction) /\ DOMAIN confirmed' = 1..n /\ confirmed'[n] = tx
        /\ \A t \in DOMAIN confirmed : confirmed'[t] = confirmed[t] /\ t \in DOMAIN confirmed' /\ t < n
    BY <1>1
  <1>3. \A x : Known(x) => Known(x)' /\ x.tx < n
    BY <1>2 DEF Known
  <1>4. CASE UNCHANGED stream
    <2>1. RelayTypeOK'
      BY <1>1, <1>2, <1>4 DEF RelayInv, RelayTypeOK
    <2>2. StreamOrdered'
      BY <1>3, <1>4 DEF RelayInv, StreamOrdered
    <2>3. InboxOrdered'
      BY <1>1, <1>2, <1>3, <1>4 DEF RelayInv, InboxOrdered, Known
    <2>4. SameInboxes'
      BY <1>1 DEF RelayInv, SameInboxes
    <2> QED
      BY <2>1, <2>2, <2>3, <2>4 DEF RelayInv
  <1>5. ASSUME NEW heard \in Notifications(n, tx), stream' = stream \o heard PROVE RelayInv'
    <2> DEFINE c == Cardinality(Mentioned(tx))
    <2>1. IsFiniteSet(Mentioned(tx))
      <3>1. subscribed.count \in Nat
        BY DEF RelayInv, RelayTypeOK
      <3> QED
        BY <3>1, FS_Interval, FS_Subset DEF Mentioned
    <2>2. c \in Nat
      BY <2>1, FS_CardinalityType
    <2>3. PICK order \in [1..c -> Mentioned(tx)] :
              /\ \A a, b \in 1..c : order[a] = order[b] => a = b
              /\ heard = [i \in 1..c |-> [tx |-> n, line |-> 1, sub |-> order[i]]]
      BY <1>5 DEF Notifications
    <2> HIDE DEF c
    <2>4. \A k \in Mentioned(tx) : k \in Nat /\ k \in DOMAIN Programs /\ Programs[k] \in tx.mentions
      BY ConfiguredSequences DEF Mentioned, RelayInv, RelayTypeOK
    <2>5. /\ heard \in Seq(ToldLine) /\ Len(heard) = c /\ DOMAIN heard = 1..c
          /\ \A i \in 1..c : heard[i].tx = n /\ heard[i].line = 1 /\ heard[i].sub \in Mentioned(tx)
          /\ \A a, b \in 1..c : heard[a].sub = heard[b].sub => a = b
      <3>1. \A i \in 1..c : order[i] \in Mentioned(tx) /\ order[i] \in Nat
        BY <2>3, <2>4
      <3>2. \A i \in 1..c : [tx |-> n, line |-> 1, sub |-> order[i]] \in ToldLine
        BY <1>1, <3>1 DEF ToldLine
      <3>3. heard \in [1..c -> ToldLine]
        BY <2>3, <3>2
      <3>4. heard \in Seq(ToldLine) /\ Len(heard) = c /\ DOMAIN heard = 1..c
        BY <2>2, <3>3
      <3>5. \A i \in 1..c : heard[i] = [tx |-> n, line |-> 1, sub |-> order[i]]
        BY <2>3
      <3>6. ASSUME NEW i \in 1..c
            PROVE  heard[i].tx = n /\ heard[i].line = 1 /\ heard[i].sub = order[i]
        <4>1. PICK x, k, l : x = heard[i] /\ k = order[i] /\ l = n
          OBVIOUS
        <4>2. x = [tx |-> l, line |-> 1, sub |-> k]
          BY <3>5, <4>1, Zenon
        <4>3. x.tx = l /\ x.line = 1 /\ x.sub = k
          BY <4>2
        <4> QED
          BY <4>1, <4>3, Zenon
      <3> QED
        BY <2>3, <3>1, <3>4, <3>6
    <2>6. /\ stream' \in Seq(ToldLine) /\ Len(stream') = Len(stream) + c
          /\ DOMAIN stream' = 1..(Len(stream) + c) /\ Len(stream) \in Nat
          /\ DOMAIN stream = 1..Len(stream)
          /\ \A m \in 1..Len(stream) : stream'[m] = stream[m]
          /\ \A m \in (Len(stream) + 1)..(Len(stream) + c) : stream'[m] = heard[m - Len(stream)]
      BY <1>5, <2>2, <2>5 DEF RelayInv, RelayTypeOK
    <2>7. ASSUME NEW m \in DOMAIN stream'
          PROVE  \/ m \in DOMAIN stream /\ stream'[m] = stream[m] /\ stream[m].tx < n
                 \/ /\ m - Len(stream) \in 1..c /\ stream'[m] = heard[m - Len(stream)]
                    /\ stream'[m].tx = n /\ Known(stream[m])'
      <3>1. CASE m <= Len(stream)
        BY <1>3, <2>2, <2>6, <3>1 DEF RelayInv, StreamOrdered
      <3>2. CASE m > Len(stream)
        <4>1. m - Len(stream) \in 1..c /\ stream'[m] = heard[m - Len(stream)]
          BY <2>2, <2>6, <3>2
        <4>2. stream'[m].tx = n /\ stream'[m].sub \in Mentioned(tx)
          BY <2>5, <4>1
        <4>3. n \in DOMAIN confirmed'
          BY <1>1, <1>2
        <4> QED
          BY <1>2, <2>4, <4>1, <4>2, <4>3 DEF Known
      <3> QED
        BY <2>2, <2>6, <3>1, <3>2
    <2>8. StreamOrdered'
      <3>1. \A m \in DOMAIN stream' : Known(stream[m])'
        BY <1>3, <2>7 DEF RelayInv, StreamOrdered
      <3>2. ASSUME NEW m \in DOMAIN stream', NEW k \in DOMAIN stream', m < k
            PROVE  Before(stream'[m], stream'[k])
        <4>1. CASE k \in DOMAIN stream
          <5>1. m \in DOMAIN stream
            BY <2>6, <3>2, <4>1
          <5> QED
            BY <2>6, <3>2, <4>1, <5>1 DEF RelayInv, StreamOrdered
        <4>2. CASE k \notin DOMAIN stream /\ m \in DOMAIN stream
          <5>1. stream'[k].tx = n /\ stream'[m].tx < n /\ stream'[m].tx \in Nat
            <6>1. stream[m] \in ToldLine
              BY <2>6, <4>2 DEF RelayInv, RelayTypeOK
            <6>2. stream[m].tx \in Nat
              BY <6>1 DEF ToldLine
            <6> QED
              BY <2>7, <4>2, <6>2
          <5> QED
            BY <1>1, <5>1 DEF Before
        <4>3. CASE k \notin DOMAIN stream /\ m \notin DOMAIN stream
          <5>1. /\ stream'[k].tx = n /\ k - Len(stream) \in 1..c /\ stream'[k] = heard[k - Len(stream)]
                /\ stream'[m].tx = n /\ m - Len(stream) \in 1..c /\ stream'[m] = heard[m - Len(stream)]
            BY <2>7, <4>3
          <5>2. m - Len(stream) # k - Len(stream)
            BY <2>6, <3>2
          <5>3. stream'[m].sub # stream'[k].sub
            BY <2>5, <5>1, <5>2
          <5> QED
            BY <1>1, <5>1, <5>3 DEF Before
        <4> QED
          BY <4>1, <4>2, <4>3
      <3>3. \A m, k \in DOMAIN stream' : m < k => Before(stream'[m], stream'[k])
        BY <3>2
      <3> QED
        BY <3>1, <3>3 DEF StreamOrdered, Before
    <2>9. InboxOrdered'
      <3>1. ASSUME NEW p \in DOMAIN inbox, NEW i \in DOMAIN inbox[p], NEW m \in DOMAIN stream'
            PROVE  /\ inbox[p][i].tx <= stream'[m].tx
                   /\ inbox[p][i].tx = stream'[m].tx /\ inbox[p][i].sub = stream'[m].sub =>
                         inbox[p][i].line < stream'[m].line
        <4>1. Known(inbox[p][i]) /\ inbox[p][i].tx < n /\ inbox[p][i].tx \in Nat
          <5>1. inbox[p][i] \in ToldLine
            BY DEF RelayInv, RelayTypeOK
          <5>2. inbox[p][i].tx \in Nat
            BY <5>1 DEF ToldLine
          <5> QED
            BY <1>3, <5>2 DEF RelayInv, InboxOrdered
        <4> QED
          BY <1>1, <2>7, <4>1 DEF RelayInv, InboxOrdered
      <3>2. \A p \in DOMAIN inbox : \A i \in DOMAIN inbox[p] :
               Known(inbox[p][i])' /\ ~confirmed'[inbox[p][i].tx].err
        <4> SUFFICES ASSUME NEW p \in DOMAIN inbox, NEW i \in DOMAIN inbox[p]
                     PROVE  Known(inbox[p][i])' /\ ~confirmed'[inbox[p][i].tx].err
          BY <1>1
        <4>1. PICK x : x = inbox[p][i]
          OBVIOUS
        <4>2. Known(x) /\ ~confirmed[x.tx].err
          BY <4>1 DEF RelayInv, InboxOrdered
        <4>3. Known(x)' /\ confirmed'[x.tx] = confirmed[x.tx]
          BY <1>2, <1>3, <4>2 DEF Known
        <4> QED
          BY <1>1, <4>1, <4>2, <4>3
      <3> QED
        <4>1. \A p \in DOMAIN inbox : \A i, j \in DOMAIN inbox[p] : i < j =>
                 /\ inbox[p][i].tx <= inbox[p][j].tx
                 /\ inbox[p][i] # inbox[p][j]
          BY Zenon DEF RelayInv, InboxOrdered
        <4>2. inbox' = inbox
          BY <1>1
        <4>3. \A p \in DOMAIN inbox' : \A i \in DOMAIN inbox'[p] :
                 Known(inbox[p][i])' /\ ~confirmed'[inbox'[p][i].tx].err
          BY <3>2, <4>2, Zenon
        <4>4. \A p \in DOMAIN inbox' : \A i \in DOMAIN inbox'[p], m \in DOMAIN stream' :
                   /\ inbox'[p][i].tx <= stream'[m].tx
                   /\ inbox'[p][i].tx = stream'[m].tx /\ inbox'[p][i].sub = stream'[m].sub =>
                         inbox'[p][i].line < stream'[m].line
          BY <3>1, <4>2
        <4> QED
          BY <4>1, <4>2, <4>3, <4>4 DEF InboxOrdered, Known
    <2> QED
      BY <1>1, <1>2, <2>6, <2>8, <2>9 DEF RelayInv, RelayTypeOK, SameInboxes
  <1> QED
    BY <1>4, <1>5 DEF Confirm
(* The reader has gone on: what is left of the stream is its rest, or all of *)
(* it with the first notification at a later line.                           *)
Advanced ==
    /\ stream' \in Seq(ToldLine)
    /\ \E d \in {0, 1} : \A m \in DOMAIN stream' :
          /\ m + d \in DOMAIN stream
          /\ stream'[m].tx = stream[m + d].tx /\ stream'[m].sub = stream[m + d].sub
          /\ stream'[m].line >= stream[m + d].line
          /\ m + d = 1 => stream'[m].line > stream[1].line

LEMMA RestAdvances ==
    ASSUME RelayInv, stream # <<>>, stream' = Tail(stream)
    PROVE  Advanced
  <1>1. stream \in Seq(ToldLine) /\ Len(stream) \in Nat /\ Len(stream) # 0
    BY DEF RelayInv, RelayTypeOK
  <1>2. /\ stream' \in Seq(ToldLine) /\ DOMAIN stream' = 1..(Len(stream) - 1)
        /\ \A m \in DOMAIN stream' : stream'[m] = stream[m + 1] /\ m + 1 \in DOMAIN stream /\ m \in Nat
                                       /\ m >= 1
    BY <1>1
  <1>3. \A m \in DOMAIN stream' : stream[m + 1].line \in Nat
    <2>1. \A m \in DOMAIN stream : stream[m] \in ToldLine
      BY <1>1
    <2> QED
      BY <1>2, <2>1 DEF ToldLine
  <1> QED
    BY <1>2, <1>3 DEF Advanced

LEMMA NextLineAdvances ==
    ASSUME RelayInv, stream # <<>>, stream' = NextLine(stream)
    PROVE  Advanced
  <1>1. CASE stream' = Tail(stream)
    BY <1>1, RestAdvances
  <1>2. CASE stream' = <<[Head(stream) EXCEPT !.line = @ + 1]>> \o Tail(stream)
    <2>1. stream \in Seq(ToldLine) /\ Len(stream) \in Nat /\ Len(stream) # 0
      BY DEF RelayInv, RelayTypeOK
    <2>2. PICK h \in ToldLine : h = Head(stream) /\ h = stream[1]
      BY <2>1
    <2>3. PICK n \in ToldLine : /\ n = [h EXCEPT !.line = @ + 1]
                             /\ n.tx = h.tx /\ n.sub = h.sub /\ n.line = h.line + 1 /\ h.line \in Nat
      <3>1. h.line + 1 \in Nat /\ h.line \in Nat
        BY <2>2 DEF ToldLine
      <3>2. PICK l \in Nat : l = h.line + 1
        BY <3>1
      <3>3. [h EXCEPT !.line = l] \in ToldLine
        BY <3>2 DEF ToldLine
      <3>4. [h EXCEPT !.line = @ + 1] = [h EXCEPT !.line = l]
        BY <3>2, Zenon
      <3>5. /\ [h EXCEPT !.line = l].tx = h.tx /\ [h EXCEPT !.line = l].sub = h.sub
            /\ [h EXCEPT !.line = l].line = l
        BY <2>2 DEF ToldLine
      <3> QED
        BY <3>1, <3>2, <3>3, <3>4, <3>5
    <2>4. stream' = <<n>> \o Tail(stream)
      BY <1>2, <2>2, <2>3
    <2>5. Tail(stream) \in Seq(ToldLine) /\ Len(Tail(stream)) = Len(stream) - 1
          /\ \A m \in 1..(Len(stream) - 1) : Tail(stream)[m] = stream[m + 1]
      BY <2>1
    <2>6. /\ stream' \in Seq(ToldLine) /\ DOMAIN stream' = 1..Len(stream) /\ stream'[1] = n
          /\ \A m \in 2..Len(stream) : stream'[m] = stream[m]
      <3>1. PICK r \in Seq(ToldLine) : r = Tail(stream)
        BY <2>5
      <3>2. /\ <<n>> \o r \in Seq(ToldLine) /\ Len(<<n>> \o r) = 1 + Len(r)
            /\ (<<n>> \o r)[1] = n
            /\ \A m \in 2..(1 + Len(r)) : (<<n>> \o r)[m] = r[m - 1]
        BY <3>1
      <3> QED
        BY <2>1, <2>4, <2>5, <3>1, <3>2
    <2>7. \A m \in DOMAIN stream' : m = 1 \/ m \in 2..Len(stream)
      BY <2>1, <2>6
    <2>8. ASSUME NEW m \in DOMAIN stream'
          PROVE  /\ m + 0 \in DOMAIN stream
                 /\ stream'[m].tx = stream[m + 0].tx /\ stream'[m].sub = stream[m + 0].sub
                 /\ stream'[m].line >= stream[m + 0].line
                 /\ m + 0 = 1 => stream'[m].line > stream[1].line
      <3>1. m \in DOMAIN stream /\ m + 0 = m
        BY <2>1, <2>6
      <3>2. CASE m = 1
        <4>1. stream'[m] = n /\ stream[m + 0] = h
          BY <2>2, <2>6, <3>2
        <4>2. n.line > h.line /\ n.line >= h.line
          BY <2>3
        <4> QED
          BY <2>2, <2>3, <3>1, <4>1, <4>2
      <3>3. CASE m \in 2..Len(stream)
        <4>1. stream[m] \in ToldLine
          BY <2>1, <3>1
        <4>2. stream[m].line \in Nat
          BY <4>1 DEF ToldLine
        <4> QED
          BY <2>1, <2>6, <3>1, <3>3, <4>2
      <3> QED
        BY <2>7, <3>2, <3>3
    <2> QED
      BY <2>6, <2>8 DEF Advanced
  <1> QED
    BY <1>1, <1>2 DEF NextLine

LEMMA AdvancedInOrder == ASSUME RelayInv, Advanced, UNCHANGED confirmed PROVE StreamOrdered'
  <1>1. PICK d \in {0, 1} : \A m \in DOMAIN stream' :
            /\ m + d \in DOMAIN stream
            /\ stream'[m].tx = stream[m + d].tx /\ stream'[m].sub = stream[m + d].sub
    BY DEF Advanced
  <1>2. \A m \in DOMAIN stream' : m \in Nat
    BY DEF Advanced
  <1>3. \A m, k \in DOMAIN stream' : m < k => m + d < k + d
    BY <1>2
  <1> QED
    BY <1>1, <1>3 DEF RelayInv, StreamOrdered, Known, Before

(* A line is left out.                                                      *)
LEMMA LeftOut ==
    ASSUME RelayInv, Advanced, UNCHANGED <<confirmed, subscribed, inbox>>,
           listenerFaults' \in {listenerFaults, listenerFaults + 1}
    PROVE  RelayInv'
  <1>1. RelayTypeOK'
    BY DEF RelayInv, RelayTypeOK, Advanced
  <1>2. StreamOrdered'
    BY AdvancedInOrder
  <1>3. SameInboxes'
    BY DEF RelayInv, RelayTypeOK, SameInboxes
  <1>4. InboxOrdered'
    <2>1. PICK d \in {0, 1} : \A m \in DOMAIN stream' :
              /\ m + d \in DOMAIN stream
              /\ stream'[m].tx = stream[m + d].tx /\ stream'[m].sub = stream[m + d].sub
              /\ stream'[m].line >= stream[m + d].line
      BY DEF Advanced
    <2>2. ASSUME NEW p \in DOMAIN inbox, NEW i \in DOMAIN inbox[p], NEW m \in DOMAIN stream'
          PROVE  /\ inbox[p][i].tx <= stream'[m].tx
                 /\ inbox[p][i].tx = stream'[m].tx /\ inbox[p][i].sub = stream'[m].sub =>
                       inbox[p][i].line < stream'[m].line
      <3>1. inbox[p][i] \in ToldLine /\ stream'[m] \in ToldLine /\ stream[m + d] \in ToldLine
        BY SMTT(40), <2>1 DEF RelayInv, RelayTypeOK, Advanced
      <3>2. inbox[p][i].line \in Nat /\ stream'[m].line \in Nat /\ stream[m + d].line \in Nat
        BY <3>1 DEF ToldLine
      <3> QED
        BY <2>1, <3>2 DEF RelayInv, InboxOrdered
    <2> QED
      BY <2>2 DEF RelayInv, InboxOrdered, Known
  <1> QED
    BY <1>1, <1>2, <1>3, <1>4 DEF RelayInv

(* A line is published to some endpoints, in their order.                    *)
LEMMA PublishedInOrder ==
    ASSUME RelayInv, NEW reached \in 0..Len(EndpointList), Publish(reached)
    PROVE  RelayInv'
  <1>1. /\ stream # <<>> /\ ~confirmed[Head(stream).tx].err
        /\ stream' = NextLine(stream) /\ UNCHANGED <<confirmed, subscribed>>
        /\ inbox' = [p \in DOMAIN inbox |->
              IF \E i \in 1..reached : EndpointList[i] = p THEN Append(inbox[p], Head(stream)) ELSE inbox[p]]
    BY DEF Publish, Readable, Current
  <1>2. Advanced
    BY <1>1, NextLineAdvances
  <1>3. StreamOrdered'
    BY <1>1, <1>2, AdvancedInOrder
  <1>h. PICK h \in ToldLine : h = Head(stream) /\ h = stream[1] /\ 1 \in DOMAIN stream
    BY <1>1 DEF RelayInv, RelayTypeOK
  <1>4. listenerFaults' \in {listenerFaults, listenerFaults + 1} /\ listenerFaults' \in Nat
    BY ConfiguredSequences DEF Publish, ListenerFault, Reaches, RelayInv, RelayTypeOK
  <1>5. SameInboxes'
    <2> SUFFICES ASSUME listenerFaults' = 0 PROVE \A p, q \in DOMAIN inbox' : inbox'[p] = inbox'[q]
      BY DEF SameInboxes
    <2>1. reached = Len(EndpointList) /\ listenerFaults = 0
      BY ConfiguredSequences DEF Publish, ListenerFault, Reaches, RelayInv, RelayTypeOK
    <2>2. \A p \in DOMAIN inbox : \E i \in 1..reached : EndpointList[i] = p
      BY <2>1, ConfiguredSequences DEF RelayInv, RelayTypeOK
    <2>3. \A p \in DOMAIN inbox' : p \in DOMAIN inbox /\ inbox'[p] = Append(inbox[p], h)
      BY <1>1, <1>h, <2>2
    <2>4. \A p, q \in DOMAIN inbox : inbox[p] = inbox[q]
      BY <2>1 DEF RelayInv, SameInboxes
    <2> QED
      BY <2>3, <2>4
  <1>6. /\ DOMAIN inbox' = DOMAIN inbox
        /\ \A p \in DOMAIN inbox : inbox'[p] = inbox[p] \/ inbox'[p] = Append(inbox[p], h)
    BY <1>1, <1>h
  <1>7. \A p \in DOMAIN inbox : inbox[p] \in Seq(ToldLine) /\ Append(inbox[p], h) \in Seq(ToldLine)
    BY <1>h DEF RelayInv, RelayTypeOK
  <1>8. RelayTypeOK'
    BY <1>1, <1>2, <1>4, <1>6, <1>7 DEF RelayInv, RelayTypeOK, Advanced
  <1>9. PICK d \in {0, 1} : \A m \in DOMAIN stream' :
            /\ m + d \in DOMAIN stream
            /\ stream'[m].tx = stream[m + d].tx /\ stream'[m].sub = stream[m + d].sub
            /\ stream'[m].line >= stream[m + d].line
            /\ m + d = 1 => stream'[m].line > stream[1].line
    BY <1>2 DEF Advanced
  <1>10. Known(h) /\ ~confirmed[h.tx].err
    BY <1>1, <1>h DEF RelayInv, StreamOrdered
  <1>11. ASSUME NEW m \in DOMAIN stream'
         PROVE  /\ h.tx <= stream'[m].tx
                /\ h.tx = stream'[m].tx /\ h.sub = stream'[m].sub => h.line < stream'[m].line
    <2>1. m + d \in DOMAIN stream /\ m \in Nat /\ m >= 1 /\ m + d \in Nat
      BY <1>2, <1>9 DEF Advanced, RelayInv, RelayTypeOK
    <2>2. CASE m + d = 1
      <3>1. h.tx \in Nat /\ h.line \in Nat
        BY <1>h DEF ToldLine
      <3> QED
        BY <1>h, <1>9, <2>2, <3>1
    <2>3. CASE m + d > 1
      BY <1>h, <1>9, <2>1, <2>3 DEF RelayInv, StreamOrdered, Before
    <2> QED
      BY <2>1, <2>2, <2>3
  <1>12. ASSUME NEW p \in DOMAIN inbox, NEW i \in DOMAIN inbox[p]
         PROVE  /\ inbox[p][i].tx <= h.tx /\ inbox[p][i] # h
                /\ Known(inbox[p][i]) /\ ~confirmed[inbox[p][i].tx].err
                /\ \A m \in DOMAIN stream' :
                      /\ inbox[p][i].tx <= stream'[m].tx
                      /\ inbox[p][i].tx = stream'[m].tx /\ inbox[p][i].sub = stream'[m].sub =>
                            inbox[p][i].line < stream'[m].line
    <2>1. inbox[p][i].line \in Nat /\ h.line \in Nat
      <3>1. inbox[p][i] \in ToldLine
        BY <1>7
      <3> QED
        BY <1>h, <3>1 DEF ToldLine
    <2>2. /\ inbox[p][i].tx <= h.tx
          /\ inbox[p][i].tx = h.tx /\ inbox[p][i].sub = h.sub => inbox[p][i].line < h.line
      BY <1>h DEF RelayInv, InboxOrdered
    <2>3. ASSUME NEW m \in DOMAIN stream'
          PROVE  /\ inbox[p][i].tx <= stream'[m].tx
                 /\ inbox[p][i].tx = stream'[m].tx /\ inbox[p][i].sub = stream'[m].sub =>
                       inbox[p][i].line < stream'[m].line
      <3>1. stream'[m] \in ToldLine /\ stream[m + d] \in ToldLine
        BY <1>2, <1>9 DEF RelayInv, RelayTypeOK, Advanced
      <3>2. stream'[m].line \in Nat /\ stream[m + d].line \in Nat
        BY <3>1 DEF ToldLine
      <3> QED
        BY <1>9, <2>1, <3>2 DEF RelayInv, InboxOrdered
    <2> QED
      BY <2>1, <2>2, <2>3 DEF RelayInv, InboxOrdered
  <1>13. ASSUME NEW p \in DOMAIN inbox
         PROVE  /\ \A i \in DOMAIN inbox'[p] : Known(inbox[p][i])' /\ ~confirmed'[inbox'[p][i].tx].err
                /\ \A i, j \in DOMAIN inbox'[p] : i < j =>
                      inbox'[p][i].tx <= inbox'[p][j].tx /\ inbox'[p][i] # inbox'[p][j]
                /\ \A i \in DOMAIN inbox'[p], m \in DOMAIN stream' :
                      /\ inbox'[p][i].tx <= stream'[m].tx
                      /\ inbox'[p][i].tx = stream'[m].tx /\ inbox'[p][i].sub = stream'[m].sub =>
                            inbox'[p][i].line < stream'[m].line
    <2>1. \A i, j \in DOMAIN inbox[p] : i < j =>
                      inbox[p][i].tx <= inbox[p][j].tx /\ inbox[p][i] # inbox[p][j]
      BY DEF RelayInv, InboxOrdered
    <2>2. CASE inbox'[p] = inbox[p]
      BY <1>1, <1>12, <2>1, <2>2 DEF Known
    <2>3. CASE inbox'[p] = Append(inbox[p], h)
      <3> DEFINE l == Len(inbox[p])
      <3>1. /\ l \in Nat /\ DOMAIN inbox[p] = 1..l /\ DOMAIN inbox'[p] = 1..(l + 1)
            /\ inbox'[p][l + 1] = h
            /\ \A i \in 1..l : inbox'[p][i] = inbox[p][i]
        BY <1>7, <2>3
      <3> HIDE DEF l
      <3>2. \A i \in DOMAIN inbox'[p] : i \in Nat /\ (i = l + 1 \/ i \in DOMAIN inbox[p])
        BY <3>1
      <3>3. \A i \in DOMAIN inbox'[p] : Known(inbox[p][i])' /\ ~confirmed'[inbox'[p][i].tx].err
        BY <1>1, <1>10, <1>12, <3>1, <3>2 DEF Known
      <3>4. ASSUME NEW i \in DOMAIN inbox'[p], NEW j \in DOMAIN inbox'[p], i < j
            PROVE  inbox'[p][i].tx <= inbox'[p][j].tx /\ inbox'[p][i] # inbox'[p][j]
        <4>1. i \in DOMAIN inbox[p] /\ inbox'[p][i] = inbox[p][i]
          BY <3>1, <3>4
        <4> QED
          BY <1>12, <2>1, <3>1, <3>2, <3>4, <4>1
      <3> QED
        BY <1>11, <1>12, <3>1, <3>2, <3>3, <3>4
    <2> QED
      BY <1>6, <2>2, <2>3
  <1>14. InboxOrdered'
    BY <1>6, <1>13 DEF InboxOrdered, Known
  <1> QED
    BY <1>3, <1>5, <1>8, <1>14 DEF RelayInv

LEMMA RelayInvStep == ASSUME RelayInv, [ChainNext]_relayVars PROVE RelayInv'
  <1>1. CASE UNCHANGED <<confirmed, subscribed, stream, inbox, listenerFaults>>
    <2>1. RelayTypeOK'
      BY <1>1 DEF RelayInv, RelayTypeOK
    <2>2. StreamOrdered' /\ SameInboxes'
      BY <1>1 DEF RelayInv, StreamOrdered, SameInboxes, Known
    <2>3. InboxOrdered'
      BY <1>1 DEF RelayInv, InboxOrdered, Known
    <2> QED
      BY <2>1, <2>2, <2>3 DEF RelayInv
  <1>2. CASE Disconnect \/ LeaderChanges
    BY <1>2, StreamLost DEF Disconnect, LeaderChanges, ListenerFault
  <1>3. CASE SkipNotification
    BY <1>3, RestAdvances, LeftOut DEF SkipNotification
  <1>4. CASE SkipLine \/ ResolveFails
    BY <1>4, NextLineAdvances, LeftOut DEF SkipLine, ResolveFails, Readable, ListenerFault
  <1>5. CASE SubscribePolicy \/ ListenerTick \/ UNCHANGED relayVars
    BY <1>1, <1>5 DEF SubscribePolicy, ListenerTick, relayVars
  <1> QED
    <2>1. ASSUME Dial \/ Subscribe PROVE RelayInv'
      BY <2>1, ConnectionMoves DEF Dial, Subscribe
    <2> QED
      BY <1>2, <1>3, <1>4, <1>5, <2>1, ToldInOrder, PublishedInOrder DEF ChainNext

(* An event is repeated only on another subscription of its transaction.    *)
LEMMA RepeatsBounded ==
    ASSUME RelayInv, NEW p \in DOMAIN inbox, NEW tx, NEW line,
           tx \in DOMAIN confirmed
    PROVE  Times(p, tx, line)
             <= Cardinality({k \in DOMAIN Programs : Programs[k] \in confirmed[tx].mentions})
  <1> DEFINE A == {i \in DOMAIN inbox[p] : inbox[p][i].tx = tx /\ inbox[p][i].line = line}
             B == {k \in DOMAIN Programs : Programs[k] \in confirmed[tx].mentions}
             f == [i \in A |-> inbox[p][i].sub]
  <1>1. IsFiniteSet(B)
    <2>1. IsFiniteSet(DOMAIN Programs)
      BY ConfiguredSequences, FS_Interval
    <2> QED
      BY <2>1, FS_Subset
  <1>2. f \in [A -> B]
    BY DEF RelayInv, InboxOrdered, Known
  <1>3. ASSUME NEW i \in A, NEW j \in A, f[i] = f[j] PROVE i = j
    <2>1. /\ inbox[p][i] \in ToldLine /\ inbox[p][j] \in ToldLine /\ i \in Nat /\ j \in Nat
      BY DEF RelayInv, RelayTypeOK
    <2>2. inbox[p][i].sub = inbox[p][j].sub /\ inbox[p][i].tx = inbox[p][j].tx
          /\ inbox[p][i].line = inbox[p][j].line
      BY <1>3
    <2>3. inbox[p][i] = inbox[p][j]
      BY <2>1, <2>2 DEF ToldLine
    <2>4. ~(i < j) /\ ~(j < i)
      BY <2>3 DEF RelayInv, InboxOrdered
    <2> QED
      BY <2>1, <2>4
  <1>4. f \in Injection(A, B)
    <2>1. DOMAIN f = A
      OBVIOUS
    <2> HIDE DEF f, A, B
    <2> QED
      BY <1>2, <1>3, <2>1, Zenon DEF Injection, IsInjective
  <1>5. Cardinality(A) <= Cardinality(B)
    <2> HIDE DEF f, A, B
    <2> QED
      BY <1>1, <1>4, FS_Injection
  <1> QED
    BY <1>5 DEF Times

(* However connections drop, leaders change and statements fail, an         *)
(* endpoint receives events in the order of the chain, none of a failed     *)
(* transaction, and none more often than its transaction mentions           *)
(* configured programs; without a failure all endpoints receive the same,   *)
(* for any programs, endpoints, transactions and limits.                    *)
THEOREM RelayIsFaithful == ChainSpec => []RelayFaithful
  <1>1. ChainSpec => []RelayInv
    BY RelayInvInit, RelayInvStep, PTL DEF ChainSpec
  <1>2. RelayInv => RelayFaithful
    BY RepeatsBounded DEF RelayInv, InboxOrdered, SameInboxes, Known, RelayFaithful
  <1> QED
    BY <1>1, <1>2, PTL

----------------------------------------------------------------------------
(* The policy endpoints (gateway/internal/policy): what the engine's        *)
(* counters promise, whichever instruction moves them.                      *)

Counters == {"adminNonce", "rulesGen", "session", "sessionNonce", "sessionUses", "life",
             "recoverNonce", "quorumNonce", "passkeyNonce", "passkeyUses"}

(* The accounts of an engine. *)
EngineOK(c) ==
    /\ DOMAIN c = Counters \cup {"exists", "rule", "quorum", "passkeyOpen", "approved"}
    /\ \A f \in Counters : c[f] \in Nat
    /\ c.exists \in BOOLEAN /\ c.passkeyOpen \in BOOLEAN
    /\ c.rule \in [Kinds -> Nat]
    /\ DOMAIN c.quorum = {"p", "votes"} /\ c.quorum.p \in Nat
    /\ c.approved \subseteq Nat

(* The quorum session with the last number takes no more votes. *)
Voted(c) == c.quorum.votes # {} \/ c.quorum.p = 0

(* Nonces, numbers and approvals only grow; a session's nonce does in its   *)
(* life, and what is closed does not come back in the same life.            *)
EngineGrows(c, d) ==
    /\ c.exists => d.exists
    /\ c.adminNonce <= d.adminNonce /\ c.recoverNonce <= d.recoverNonce
    /\ c.quorumNonce <= d.quorumNonce /\ c.passkeyNonce <= d.passkeyNonce
    /\ c.life <= d.life /\ c.approved \subseteq d.approved
    /\ c.life = d.life => d.session = 0 \/ (c.session # 0 /\ c.sessionNonce <= d.sessionNonce)
    /\ c.quorumNonce = d.quorumNonce /\ Voted(c) => Voted(d)

(* Operations by what their signature is bound to: the admin nonce, or a    *)
(* message that is approved once.                                           *)
AddRuleOps == {"add-rule-allowlist", "add-rule-oracle", "add-rule-spending-usd"}
AddItemOps == {"allowlist-add-destination", "oracle-add-feed", "spending-usd-add-feed"}
AdminOps == AddRuleOps \cup AddItemOps \cup {"remove-rule", "session-open"}
MessageOps == {"primary-recover", "passkey-primary-use", "normal-sign", "swap-sign", "bundle-sign"}

(* What an operation's signature is bound to is used up: its nonce, the     *)
(* life of its session, its vote or its message.                            *)
Spent(op, n, p, life, c) ==
    /\ op = "init" => c.exists
    /\ op \in AdminOps => n < c.adminNonce
    /\ op \in SessionOps => \/ life < c.life
                            \/ life = c.life /\ (c.session = 0 \/ n < c.sessionNonce)
    /\ op = "quorum-session-open" => n < c.quorumNonce
    /\ op = "quorum-contribute" => n + 1 < c.quorumNonce \/ (n + 1 = c.quorumNonce /\ Voted(c))
    /\ op = "passkey-session-open" => n < c.passkeyNonce
    /\ op \in MessageOps => p \in c.approved

(* An instruction that succeeds spends what it is bound to; one bound to    *)
(* what is spent does not succeed.                                          *)
TakesEffect(v, op, ix, c) ==
    v.ok => /\ EngineOK(v.next) /\ EngineGrows(c, v.next)
            /\ Spent(op, ix.nonce, ix.p, c.life, v.next)

Refuses(v, op, ix, c) ==
    Spent(op, ix.nonce, ix.p, c.life, c) => ~v.ok

IxOK(ix) == ix.nonce \in Nat /\ ix.p \in Nat

(* What is spent, one family of operations at a time. *)
LEMMA SpentFor ==
    ASSUME NEW op, NEW n, NEW p, NEW life, NEW c
    PROVE  /\ op = "init" => (Spent(op, n, p, life, c) <=> c.exists)
           /\ op \in AdminOps => (Spent(op, n, p, life, c) <=> n < c.adminNonce)
           /\ op \in SessionOps => (Spent(op, n, p, life, c) <=> life < c.life \/ (life = c.life
                /\ (c.session = 0 \/ n < c.sessionNonce)))
           /\ op = "quorum-session-open" => (Spent(op, n, p, life, c) <=> n < c.quorumNonce)
           /\ op = "quorum-contribute" => (Spent(op, n, p, life, c) <=>
                 n + 1 < c.quorumNonce \/ (n + 1 = c.quorumNonce /\ Voted(c)))
           /\ op = "passkey-session-open" => (Spent(op, n, p, life, c) <=> n < c.passkeyNonce)
           /\ op \in MessageOps => (Spent(op, n, p, life, c) <=> p \in c.approved)
           /\ op \in Unsigned => Spent(op, n, p, life, c)
  <1>1. /\ op = "init" => (Spent(op, n, p, life, c) <=> c.exists)
        /\ op \in Unsigned => Spent(op, n, p, life, c)
    BY Zenon DEF Spent, AdminOps, AddRuleOps, AddItemOps, SessionOps, MessageOps, Unsigned
  <1>2. op \in AdminOps => (Spent(op, n, p, life, c) <=> n < c.adminNonce)
    BY Zenon DEF Spent, AdminOps, AddRuleOps, AddItemOps, SessionOps, MessageOps
  <1>3. op \in SessionOps => (Spent(op, n, p, life, c) <=> life < c.life \/ (life = c.life
        /\ (c.session = 0 \/ n < c.sessionNonce)))
    BY Zenon DEF Spent, AdminOps, AddRuleOps, AddItemOps, SessionOps, MessageOps
  <1>4. /\ op = "quorum-session-open" => (Spent(op, n, p, life, c) <=> n < c.quorumNonce)
        /\ op = "quorum-contribute" => (Spent(op, n, p, life, c) <=>
              n + 1 < c.quorumNonce \/ (n + 1 = c.quorumNonce /\ Voted(c)))
        /\ op = "passkey-session-open" => (Spent(op, n, p, life, c) <=> n < c.passkeyNonce)
    BY Zenon DEF Spent, AdminOps, AddRuleOps, AddItemOps, SessionOps, MessageOps
  <1>5. op \in MessageOps => (Spent(op, n, p, life, c) <=> p \in c.approved)
    BY Zenon DEF Spent, AdminOps, AddRuleOps, AddItemOps, SessionOps, MessageOps
  <1> QED
    BY <1>1, <1>2, <1>3, <1>4, <1>5

(* The fields of a verdict. *)
LEMMA VerdictFields ==
    ASSUME NEW ok, NEW challenge, NEW next, NEW v, v = Verdict(ok, challenge, next)
    PROVE  v.ok = ok /\ v.challenge = challenge /\ v.next = next
  BY DEF Verdict

(* init_engine happens once. *)
LEMMA init_engine_effect ==
    ASSUME NEW c, EngineOK(c), NEW ix, IxOK(ix), NEW op, op = "init"
    PROVE  TakesEffect(init_engine(ix, c), op, ix, c) /\ Refuses(init_engine(ix, c), op, ix, c)
  <1>1. PICK v : v = init_engine(ix, c)
    OBVIOUS
  <1>2. /\ v.ok = (~c.exists)
        /\ v.next = [c EXCEPT !.exists = TRUE]
    <2> DEFINE ok == ~c.exists
              next == [c EXCEPT !.exists = TRUE]
    <2>1. PICK ch : v = Verdict(ok, ch, next)
      BY <1>1, Zenon DEF init_engine
    <2> HIDE DEF ok, next
    <2>2. v.ok = ok /\ v.next = next
      BY <2>1, VerdictFields
    <2> QED
      BY <2>2 DEF ok, next
  <1>3. ASSUME v.ok PROVE ~c.exists
    BY <1>2, <1>3, Zenon
  <1>4. ASSUME v.ok
        PROVE EngineOK(v.next) /\ EngineGrows(c, v.next)
              /\ Spent(op, ix.nonce, ix.p, c.life, v.next)
    <2>0. ~c.exists
      BY <1>3, <1>4
    <2>1. PICK d : d = [c EXCEPT !.exists = TRUE]
      OBVIOUS
    <2>2. EngineOK(d)
      BY <2>1 DEF EngineOK, Counters, IxOK
    <2>3. EngineGrows(c, d)
      BY <2>0, <2>1 DEF EngineOK, Counters, EngineGrows, Voted, IxOK
    <2>4. d.exists
      BY <2>0, <2>1 DEF EngineOK, Counters, Voted, IxOK
    <2>5. Spent(op, ix.nonce, ix.p, c.life, d)
      BY <2>4, SpentFor, Zenon DEF AdminOps, MessageOps
    <2> QED
      BY <1>2, <2>1, <2>2, <2>3, <2>5, Zenon
  <1>5. ASSUME Spent(op, ix.nonce, ix.p, c.life, c), v.ok PROVE FALSE
    <2>0. ~c.exists
      BY <1>3, <1>5
    <2>1. c.exists
      BY <1>5, SpentFor, Zenon DEF AdminOps, MessageOps
    <2> QED
      BY <2>0, <2>1 DEF EngineOK, Counters, Voted, IxOK
  <1> QED
    BY <1>1, <1>4, <1>5, Zenon DEF TakesEffect, Refuses

(* A rule is added under the admin nonce, which moves. *)
LEMMA add_rule_effect ==
    ASSUME NEW c, EngineOK(c), NEW ix, IxOK(ix), NEW op \in AddRuleOps, NEW kind \in Kinds
    PROVE  /\ TakesEffect(add_rule(op, kind, ix, c), op, ix, c)
           /\ Refuses(add_rule(op, kind, ix, c), op, ix, c)
  <1>1. PICK v : v = add_rule(op, kind, ix, c)
    OBVIOUS
  <1>2. /\ v.ok = (c.exists /\ c.rule[kind] = 0 /\ ix.nonce = c.adminNonce)
        /\ v.next = WithRule(c, kind, 1)
    <2> DEFINE ok == c.exists /\ c.rule[kind] = 0 /\ ix.nonce = c.adminNonce
              next == WithRule(c, kind, 1)
    <2>1. PICK ch : v = Verdict(ok, ch, next)
      BY <1>1, Zenon DEF add_rule
    <2> HIDE DEF ok, next
    <2>2. v.ok = ok /\ v.next = next
      BY <2>1, VerdictFields
    <2> QED
      BY <2>2 DEF ok, next
  <1>3. ASSUME v.ok PROVE c.exists /\ c.rule[kind] = 0 /\ ix.nonce = c.adminNonce
    BY <1>2, <1>3, Zenon
  <1>4. ASSUME v.ok
        PROVE EngineOK(v.next) /\ EngineGrows(c, v.next)
              /\ Spent(op, ix.nonce, ix.p, c.life, v.next)
    <2>0. c.exists /\ c.rule[kind] = 0 /\ ix.nonce = c.adminNonce
      BY <1>3, <1>4
    <2>1. PICK d : d = WithRule(c, kind, 1)
      OBVIOUS
    <2>2. EngineOK(d)
      BY <2>1 DEF EngineOK, Counters, IxOK, WithRule
    <2>3. EngineGrows(c, d)
      BY <2>0, <2>1 DEF EngineOK, Counters, EngineGrows, Voted, IxOK, WithRule
    <2>4. ix.nonce < d.adminNonce
      BY <2>0, <2>1 DEF EngineOK, Counters, Voted, IxOK, WithRule
    <2>5. Spent(op, ix.nonce, ix.p, c.life, d)
      BY <2>4, SpentFor, Zenon DEF AdminOps, MessageOps
    <2> QED
      BY <1>2, <2>1, <2>2, <2>3, <2>5, Zenon
  <1>5. ASSUME Spent(op, ix.nonce, ix.p, c.life, c), v.ok PROVE FALSE
    <2>0. c.exists /\ c.rule[kind] = 0 /\ ix.nonce = c.adminNonce
      BY <1>3, <1>5
    <2>1. ix.nonce < c.adminNonce
      BY <1>5, SpentFor, Zenon DEF AdminOps, MessageOps
    <2> QED
      BY <2>0, <2>1 DEF EngineOK, Counters, Voted, IxOK, WithRule
  <1> QED
    BY <1>1, <1>4, <1>5, Zenon DEF TakesEffect, Refuses

(* An item is added under the admin nonce, which moves. *)
LEMMA add_item_effect ==
    ASSUME NEW c, EngineOK(c), NEW ix, IxOK(ix), NEW op \in AddItemOps, NEW kind \in Kinds
    PROVE  /\ TakesEffect(add_item(op, kind, ix, c), op, ix, c)
           /\ Refuses(add_item(op, kind, ix, c), op, ix, c)
  <1>1. PICK v : v = add_item(op, kind, ix, c)
    OBVIOUS
  <1>2. /\ v.ok = (c.rule[kind] > 0 /\ ix.nonce = c.adminNonce)
        /\ v.next = WithRule(c, kind, c.rule[kind] + 1)
    <2> DEFINE ok == c.rule[kind] > 0 /\ ix.nonce = c.adminNonce
              next == WithRule(c, kind, c.rule[kind] + 1)
    <2>1. PICK ch : v = Verdict(ok, ch, next)
      BY <1>1, Zenon DEF add_item
    <2> HIDE DEF ok, next
    <2>2. v.ok = ok /\ v.next = next
      BY <2>1, VerdictFields
    <2> QED
      BY <2>2 DEF ok, next
  <1>3. ASSUME v.ok PROVE c.rule[kind] > 0 /\ ix.nonce = c.adminNonce
    BY <1>2, <1>3, Zenon
  <1>4. ASSUME v.ok
        PROVE EngineOK(v.next) /\ EngineGrows(c, v.next)
              /\ Spent(op, ix.nonce, ix.p, c.life, v.next)
    <2>0. c.rule[kind] > 0 /\ ix.nonce = c.adminNonce
      BY <1>3, <1>4
    <2>1. PICK d : d = WithRule(c, kind, c.rule[kind] + 1)
      OBVIOUS
    <2>2. EngineOK(d)
      BY <2>1 DEF EngineOK, Counters, IxOK, WithRule
    <2>3. EngineGrows(c, d)
      BY <2>0, <2>1 DEF EngineOK, Counters, EngineGrows, Voted, IxOK, WithRule
    <2>4. ix.nonce < d.adminNonce
      BY <2>0, <2>1 DEF EngineOK, Counters, Voted, IxOK, WithRule
    <2>5. Spent(op, ix.nonce, ix.p, c.life, d)
      BY <2>4, SpentFor, Zenon DEF AdminOps, MessageOps
    <2> QED
      BY <1>2, <2>1, <2>2, <2>3, <2>5, Zenon
  <1>5. ASSUME Spent(op, ix.nonce, ix.p, c.life, c), v.ok PROVE FALSE
    <2>0. c.rule[kind] > 0 /\ ix.nonce = c.adminNonce
      BY <1>3, <1>5
    <2>1. ix.nonce < c.adminNonce
      BY <1>5, SpentFor, Zenon DEF AdminOps, MessageOps
    <2> QED
      BY <2>0, <2>1 DEF EngineOK, Counters, Voted, IxOK, WithRule
  <1> QED
    BY <1>1, <1>4, <1>5, Zenon DEF TakesEffect, Refuses

(* A rule is removed under the admin nonce, which moves. *)
LEMMA remove_rule_effect ==
    ASSUME NEW c, EngineOK(c), NEW ix, IxOK(ix), NEW op, op = "remove-rule"
    PROVE  TakesEffect(remove_rule(ix, c), op, ix, c) /\ Refuses(remove_rule(ix, c), op, ix, c)
  <1>1. PICK v : v = remove_rule(ix, c)
    OBVIOUS
  <1>2. /\ v.ok = (c.rule[KindAllowlist] > 0 /\ ix.nonce = c.adminNonce)
        /\ v.next = WithRule(c, KindAllowlist, 0)
    <2> DEFINE ok == c.rule[KindAllowlist] > 0 /\ ix.nonce = c.adminNonce
              next == WithRule(c, KindAllowlist, 0)
    <2>1. PICK ch : v = Verdict(ok, ch, next)
      BY <1>1, Zenon DEF remove_rule
    <2> HIDE DEF ok, next
    <2>2. v.ok = ok /\ v.next = next
      BY <2>1, VerdictFields
    <2> QED
      BY <2>2 DEF ok, next
  <1>3. ASSUME v.ok PROVE c.rule[KindAllowlist] > 0 /\ ix.nonce = c.adminNonce
    BY <1>2, <1>3, Zenon
  <1>4. ASSUME v.ok
        PROVE EngineOK(v.next) /\ EngineGrows(c, v.next)
              /\ Spent(op, ix.nonce, ix.p, c.life, v.next)
    <2>0. c.rule[KindAllowlist] > 0 /\ ix.nonce = c.adminNonce
      BY <1>3, <1>4
    <2>1. PICK d : d = WithRule(c, KindAllowlist, 0)
      OBVIOUS
    <2>2. EngineOK(d)
      BY <2>1 DEF EngineOK, Counters, IxOK, WithRule, Kinds, KindAllowlist, KindOracle,
         KindSessionKey, KindSpendingUsd
    <2>3. EngineGrows(c, d)
      BY <2>0, <2>1 DEF EngineOK, Counters, EngineGrows, Voted, IxOK, WithRule, Kinds,
         KindAllowlist, KindOracle, KindSessionKey, KindSpendingUsd
    <2>4. ix.nonce < d.adminNonce
      BY <2>0, <2>1 DEF EngineOK, Counters, Voted, IxOK, WithRule, Kinds, KindAllowlist,
         KindOracle, KindSessionKey, KindSpendingUsd
    <2>5. Spent(op, ix.nonce, ix.p, c.life, d)
      BY <2>4, SpentFor, Zenon DEF AdminOps, MessageOps
    <2> QED
      BY <1>2, <2>1, <2>2, <2>3, <2>5, Zenon
  <1>5. ASSUME Spent(op, ix.nonce, ix.p, c.life, c), v.ok PROVE FALSE
    <2>0. c.rule[KindAllowlist] > 0 /\ ix.nonce = c.adminNonce
      BY <1>3, <1>5
    <2>1. ix.nonce < c.adminNonce
      BY <1>5, SpentFor, Zenon DEF AdminOps, MessageOps
    <2> QED
      BY <2>0, <2>1 DEF EngineOK, Counters, Voted, IxOK, WithRule, Kinds, KindAllowlist,
         KindOracle, KindSessionKey, KindSpendingUsd
  <1> QED
    BY <1>1, <1>4, <1>5, Zenon DEF TakesEffect, Refuses

(* A session is opened under the admin nonce, and begins a life. *)
LEMMA session_open_effect ==
    ASSUME NEW c, EngineOK(c), NEW ix, IxOK(ix), NEW op, op = "session-open"
    PROVE  TakesEffect(session_open(ix, c), op, ix, c) /\ Refuses(session_open(ix, c), op, ix, c)
  <1>1. PICK v : v = session_open(ix, c)
    OBVIOUS
  <1>2. /\ v.ok = (c.rule[KindSessionKey] > 0 /\ c.session = 0 /\ ix.nonce = c.adminNonce)
        /\ v.next = [c EXCEPT !.adminNonce = @ + 1, !.session = ix.p, !.life = @ + 1]
    <2> DEFINE ok == c.rule[KindSessionKey] > 0 /\ c.session = 0 /\ ix.nonce = c.adminNonce
              next == [c EXCEPT !.adminNonce = @ + 1, !.session = ix.p, !.life = @ + 1]
    <2>1. PICK ch : v = Verdict(ok, ch, next)
      BY <1>1, Zenon DEF session_open
    <2> HIDE DEF ok, next
    <2>2. v.ok = ok /\ v.next = next
      BY <2>1, VerdictFields
    <2> QED
      BY <2>2 DEF ok, next
  <1>3. ASSUME v.ok PROVE c.rule[KindSessionKey] > 0 /\ c.session = 0 /\ ix.nonce = c.adminNonce
    BY <1>2, <1>3, Zenon
  <1>4. ASSUME v.ok
        PROVE EngineOK(v.next) /\ EngineGrows(c, v.next)
              /\ Spent(op, ix.nonce, ix.p, c.life, v.next)
    <2>0. c.rule[KindSessionKey] > 0 /\ c.session = 0 /\ ix.nonce = c.adminNonce
      BY <1>3, <1>4
    <2>1. PICK d : d = [c EXCEPT !.adminNonce = @ + 1, !.session = ix.p, !.life = @ + 1]
      OBVIOUS
    <2>2. EngineOK(d)
      BY <2>1 DEF EngineOK, Counters, IxOK
    <2>3. EngineGrows(c, d)
      BY <2>0, <2>1 DEF EngineOK, Counters, EngineGrows, Voted, IxOK
    <2>4. ix.nonce < d.adminNonce
      BY <2>0, <2>1 DEF EngineOK, Counters, Voted, IxOK
    <2>5. Spent(op, ix.nonce, ix.p, c.life, d)
      BY <2>4, SpentFor, Zenon DEF AdminOps, MessageOps
    <2> QED
      BY <1>2, <2>1, <2>2, <2>3, <2>5, Zenon
  <1>5. ASSUME Spent(op, ix.nonce, ix.p, c.life, c), v.ok PROVE FALSE
    <2>0. c.rule[KindSessionKey] > 0 /\ c.session = 0 /\ ix.nonce = c.adminNonce
      BY <1>3, <1>5
    <2>1. ix.nonce < c.adminNonce
      BY <1>5, SpentFor, Zenon DEF AdminOps, MessageOps
    <2> QED
      BY <2>0, <2>1 DEF EngineOK, Counters, Voted, IxOK
  <1> QED
    BY <1>1, <1>4, <1>5, Zenon DEF TakesEffect, Refuses

(* A session is changed under its own nonce, which moves, or it is closed. *)
LEMMA session_admin_effect ==
    ASSUME NEW c, EngineOK(c), NEW ix, IxOK(ix), NEW op \in SessionOps, NEW extras,
           NEW closes \in BOOLEAN
    PROVE  /\ TakesEffect(session_admin(op, extras, ix, c, closes), op, ix, c)
           /\ Refuses(session_admin(op, extras, ix, c, closes), op, ix, c)
  <1>1. PICK v : v = session_admin(op, extras, ix, c, closes)
    OBVIOUS
  <1>2. /\ v.ok = (c.session > 0 /\ ix.nonce = c.sessionNonce)
        /\ v.next = IF closes THEN [c EXCEPT !.session = 0, !.sessionNonce = 0, !.sessionUses =
              0] ELSE [c EXCEPT !.sessionNonce = @ + 1]
    <2> DEFINE ok == c.session > 0 /\ ix.nonce = c.sessionNonce
              next == IF closes THEN [c EXCEPT !.session = 0, !.sessionNonce = 0, !.sessionUses =
                 0] ELSE [c EXCEPT !.sessionNonce = @ + 1]
    <2>1. PICK ch : v = Verdict(ok, ch, next)
      BY <1>1, Zenon DEF session_admin
    <2> HIDE DEF ok, next
    <2>2. v.ok = ok /\ v.next = next
      BY <2>1, VerdictFields
    <2> QED
      BY <2>2 DEF ok, next
  <1>3. ASSUME v.ok PROVE c.session > 0 /\ ix.nonce = c.sessionNonce
    BY <1>2, <1>3, Zenon
  <1>4. ASSUME v.ok
        PROVE EngineOK(v.next) /\ EngineGrows(c, v.next)
              /\ Spent(op, ix.nonce, ix.p, c.life, v.next)
    <2>0. c.session > 0 /\ ix.nonce = c.sessionNonce
      BY <1>3, <1>4
    <2>1. PICK d : d = IF closes THEN [c EXCEPT !.session = 0, !.sessionNonce = 0, !.sessionUses =
             0] ELSE [c EXCEPT !.sessionNonce = @ + 1]
      OBVIOUS
    <2>2. EngineOK(d)
      BY <2>1 DEF EngineOK, Counters, IxOK
    <2>3. EngineGrows(c, d)
      BY <2>0, <2>1 DEF EngineOK, Counters, EngineGrows, Voted, IxOK
    <2>4. c.life < d.life \/ (c.life = d.life /\ (d.session = 0 \/ ix.nonce < d.sessionNonce))
      BY <2>0, <2>1 DEF EngineOK, Counters, Voted, IxOK
    <2>5. Spent(op, ix.nonce, ix.p, c.life, d)
      BY <2>4, SpentFor, Zenon DEF AdminOps, MessageOps
    <2> QED
      BY <1>2, <2>1, <2>2, <2>3, <2>5, Zenon
  <1>5. ASSUME Spent(op, ix.nonce, ix.p, c.life, c), v.ok PROVE FALSE
    <2>0. c.session > 0 /\ ix.nonce = c.sessionNonce
      BY <1>3, <1>5
    <2>1. c.life < c.life \/ (c.life = c.life /\ (c.session = 0 \/ ix.nonce < c.sessionNonce))
      BY <1>5, SpentFor, Zenon DEF AdminOps, MessageOps
    <2> QED
      BY <2>0, <2>1 DEF EngineOK, Counters, Voted, IxOK
  <1> QED
    BY <1>1, <1>4, <1>5, Zenon DEF TakesEffect, Refuses

(* A recovery by the primary approves a message that was not. *)
LEMMA recover_as_primary_effect ==
    ASSUME NEW c, EngineOK(c), NEW ix, IxOK(ix), NEW op, op = "primary-recover"
    PROVE  /\ TakesEffect(recover_as_primary(ix, c), op, ix, c)
           /\ Refuses(recover_as_primary(ix, c), op, ix, c)
  <1>1. PICK v : v = recover_as_primary(ix, c)
    OBVIOUS
  <1>2. /\ v.ok = (c.exists /\ ix.nonce = c.recoverNonce /\ ix.p \notin c.approved)
        /\ v.next = [c EXCEPT !.recoverNonce = @ + 1, !.approved = @ \cup {ix.p}]
    <2> DEFINE ok == c.exists /\ ix.nonce = c.recoverNonce /\ ix.p \notin c.approved
              next == [c EXCEPT !.recoverNonce = @ + 1, !.approved = @ \cup {ix.p}]
    <2>1. PICK ch : v = Verdict(ok, ch, next)
      BY <1>1, Zenon DEF recover_as_primary
    <2> HIDE DEF ok, next
    <2>2. v.ok = ok /\ v.next = next
      BY <2>1, VerdictFields
    <2> QED
      BY <2>2 DEF ok, next
  <1>3. ASSUME v.ok PROVE c.exists /\ ix.nonce = c.recoverNonce /\ ix.p \notin c.approved
    BY <1>2, <1>3, Zenon
  <1>4. ASSUME v.ok
        PROVE EngineOK(v.next) /\ EngineGrows(c, v.next)
              /\ Spent(op, ix.nonce, ix.p, c.life, v.next)
    <2>0. c.exists /\ ix.nonce = c.recoverNonce /\ ix.p \notin c.approved
      BY <1>3, <1>4
    <2>1. PICK d : d = [c EXCEPT !.recoverNonce = @ + 1, !.approved = @ \cup {ix.p}]
      OBVIOUS
    <2>2. EngineOK(d)
      BY <2>1 DEF EngineOK, Counters, IxOK
    <2>3. EngineGrows(c, d)
      BY <2>0, <2>1 DEF EngineOK, Counters, EngineGrows, Voted, IxOK
    <2>4. ix.p \in d.approved
      BY <2>0, <2>1 DEF EngineOK, Counters, Voted, IxOK
    <2>5. Spent(op, ix.nonce, ix.p, c.life, d)
      BY <2>4, SpentFor, Zenon DEF AdminOps, MessageOps
    <2> QED
      BY <1>2, <2>1, <2>2, <2>3, <2>5, Zenon
  <1>5. ASSUME Spent(op, ix.nonce, ix.p, c.life, c), v.ok PROVE FALSE
    <2>0. c.exists /\ ix.nonce = c.recoverNonce /\ ix.p \notin c.approved
      BY <1>3, <1>5
    <2>1. ix.p \in c.approved
      BY <1>5, SpentFor, Zenon DEF AdminOps, MessageOps
    <2> QED
      BY <2>0, <2>1 DEF EngineOK, Counters, Voted, IxOK
  <1> QED
    BY <1>1, <1>4, <1>5, Zenon DEF TakesEffect, Refuses

(* A quorum session takes its number. *)
LEMMA quorum_session_open_effect ==
    ASSUME NEW c, EngineOK(c), NEW ix, IxOK(ix), NEW op, op = "quorum-session-open"
    PROVE  /\ TakesEffect(quorum_session_open(ix, c), op, ix, c)
           /\ Refuses(quorum_session_open(ix, c), op, ix, c)
  <1>1. PICK v : v = quorum_session_open(ix, c)
    OBVIOUS
  <1>2. /\ v.ok = (c.exists /\ ix.nonce = c.quorumNonce)
        /\ v.next = [c EXCEPT !.quorumNonce = @ + 1, !.quorum = [p |-> ix.p, votes |-> {}]]
    <2> DEFINE ok == c.exists /\ ix.nonce = c.quorumNonce
              next == [c EXCEPT !.quorumNonce = @ + 1, !.quorum = [p |-> ix.p, votes |-> {}]]
    <2>1. PICK ch : v = Verdict(ok, ch, next)
      BY <1>1, Zenon DEF quorum_session_open
    <2> HIDE DEF ok, next
    <2>2. v.ok = ok /\ v.next = next
      BY <2>1, VerdictFields
    <2> QED
      BY <2>2 DEF ok, next
  <1>3. ASSUME v.ok PROVE c.exists /\ ix.nonce = c.quorumNonce
    BY <1>2, <1>3, Zenon
  <1>4. ASSUME v.ok
        PROVE EngineOK(v.next) /\ EngineGrows(c, v.next)
              /\ Spent(op, ix.nonce, ix.p, c.life, v.next)
    <2>0. c.exists /\ ix.nonce = c.quorumNonce
      BY <1>3, <1>4
    <2>1. PICK d : d = [c EXCEPT !.quorumNonce = @ + 1, !.quorum = [p |-> ix.p, votes |-> {}]]
      OBVIOUS
    <2>2. EngineOK(d)
      BY <2>1 DEF EngineOK, Counters, IxOK
    <2>3. EngineGrows(c, d)
      BY <2>0, <2>1 DEF EngineOK, Counters, EngineGrows, Voted, IxOK
    <2>4. ix.nonce < d.quorumNonce
      BY <2>0, <2>1 DEF EngineOK, Counters, Voted, IxOK
    <2>5. Spent(op, ix.nonce, ix.p, c.life, d)
      BY <2>4, SpentFor, Zenon DEF AdminOps, MessageOps
    <2> QED
      BY <1>2, <2>1, <2>2, <2>3, <2>5, Zenon
  <1>5. ASSUME Spent(op, ix.nonce, ix.p, c.life, c), v.ok PROVE FALSE
    <2>0. c.exists /\ ix.nonce = c.quorumNonce
      BY <1>3, <1>5
    <2>1. ix.nonce < c.quorumNonce
      BY <1>5, SpentFor, Zenon DEF AdminOps, MessageOps
    <2> QED
      BY <2>0, <2>1 DEF EngineOK, Counters, Voted, IxOK
  <1> QED
    BY <1>1, <1>4, <1>5, Zenon DEF TakesEffect, Refuses

(* The owner votes once in a quorum session. *)
LEMMA quorum_session_contribute_effect ==
    ASSUME NEW c, EngineOK(c), NEW ix, IxOK(ix), NEW op, op = "quorum-contribute"
    PROVE  /\ TakesEffect(quorum_session_contribute(ix, c), op, ix, c)
           /\ Refuses(quorum_session_contribute(ix, c), op, ix, c)
  <1>1. PICK v : v = quorum_session_contribute(ix, c)
    OBVIOUS
  <1>2. /\ v.ok = (c.quorum.p > 0 /\ ix.nonce = c.quorumNonce - 1 /\ c.quorum.votes = {})
        /\ v.next = [c EXCEPT !.quorum.votes = {1}]
    <2> DEFINE ok == c.quorum.p > 0 /\ ix.nonce = c.quorumNonce - 1 /\ c.quorum.votes = {}
              next == [c EXCEPT !.quorum.votes = {1}]
    <2>1. PICK ch : v = Verdict(ok, ch, next)
      BY <1>1, Zenon DEF quorum_session_contribute
    <2> HIDE DEF ok, next
    <2>2. v.ok = ok /\ v.next = next
      BY <2>1, VerdictFields
    <2> QED
      BY <2>2 DEF ok, next
  <1>3. ASSUME v.ok PROVE c.quorum.p > 0 /\ ix.nonce = c.quorumNonce - 1 /\ c.quorum.votes = {}
    BY <1>2, <1>3, Zenon
  <1>4. ASSUME v.ok
        PROVE EngineOK(v.next) /\ EngineGrows(c, v.next)
              /\ Spent(op, ix.nonce, ix.p, c.life, v.next)
    <2>0. c.quorum.p > 0 /\ ix.nonce = c.quorumNonce - 1 /\ c.quorum.votes = {}
      BY <1>3, <1>4
    <2>1. PICK d : d = [c EXCEPT !.quorum.votes = {1}]
      OBVIOUS
    <2>2. EngineOK(d)
      BY <2>1 DEF EngineOK, Counters, IxOK
    <2>3. EngineGrows(c, d)
      BY <2>0, <2>1 DEF EngineOK, Counters, EngineGrows, Voted, IxOK
    <2>4. ix.nonce + 1 < d.quorumNonce \/ (ix.nonce + 1 = d.quorumNonce /\ Voted(d))
      BY <2>0, <2>1 DEF EngineOK, Counters, Voted, IxOK
    <2>5. Spent(op, ix.nonce, ix.p, c.life, d)
      BY <2>4, SpentFor, Zenon DEF AdminOps, MessageOps
    <2> QED
      BY <1>2, <2>1, <2>2, <2>3, <2>5, Zenon
  <1>5. ASSUME Spent(op, ix.nonce, ix.p, c.life, c), v.ok PROVE FALSE
    <2>0. c.quorum.p > 0 /\ ix.nonce = c.quorumNonce - 1 /\ c.quorum.votes = {}
      BY <1>3, <1>5
    <2>1. ix.nonce + 1 < c.quorumNonce \/ (ix.nonce + 1 = c.quorumNonce /\ Voted(c))
      BY <1>5, SpentFor, Zenon DEF AdminOps, MessageOps
    <2> QED
      BY <2>0, <2>1 DEF EngineOK, Counters, Voted, IxOK
  <1> QED
    BY <1>1, <1>4, <1>5, Zenon DEF TakesEffect, Refuses

(* A passkey session takes its number. *)
LEMMA passkey_session_open_effect ==
    ASSUME NEW c, EngineOK(c), NEW ix, IxOK(ix), NEW op, op = "passkey-session-open"
    PROVE  /\ TakesEffect(passkey_session_open(ix, c), op, ix, c)
           /\ Refuses(passkey_session_open(ix, c), op, ix, c)
  <1>1. PICK v : v = passkey_session_open(ix, c)
    OBVIOUS
  <1>2. /\ v.ok = (c.exists /\ ix.nonce = c.passkeyNonce)
        /\ v.next = [c EXCEPT !.passkeyNonce = @ + 1, !.passkeyOpen = TRUE, !.passkeyUses = 0]
    <2> DEFINE ok == c.exists /\ ix.nonce = c.passkeyNonce
              next == [c EXCEPT !.passkeyNonce = @ + 1, !.passkeyOpen = TRUE, !.passkeyUses = 0]
    <2>1. PICK ch : v = Verdict(ok, ch, next)
      BY <1>1, Zenon DEF passkey_session_open
    <2> HIDE DEF ok, next
    <2>2. v.ok = ok /\ v.next = next
      BY <2>1, VerdictFields
    <2> QED
      BY <2>2 DEF ok, next
  <1>3. ASSUME v.ok PROVE c.exists /\ ix.nonce = c.passkeyNonce
    BY <1>2, <1>3, Zenon
  <1>4. ASSUME v.ok
        PROVE EngineOK(v.next) /\ EngineGrows(c, v.next)
              /\ Spent(op, ix.nonce, ix.p, c.life, v.next)
    <2>0. c.exists /\ ix.nonce = c.passkeyNonce
      BY <1>3, <1>4
    <2>1. PICK d : d = [c EXCEPT !.passkeyNonce = @ + 1, !.passkeyOpen = TRUE, !.passkeyUses = 0]
      OBVIOUS
    <2>2. EngineOK(d)
      BY <2>1 DEF EngineOK, Counters, IxOK
    <2>3. EngineGrows(c, d)
      BY <2>0, <2>1 DEF EngineOK, Counters, EngineGrows, Voted, IxOK
    <2>4. ix.nonce < d.passkeyNonce
      BY <2>0, <2>1 DEF EngineOK, Counters, Voted, IxOK
    <2>5. Spent(op, ix.nonce, ix.p, c.life, d)
      BY <2>4, SpentFor, Zenon DEF AdminOps, MessageOps
    <2> QED
      BY <1>2, <2>1, <2>2, <2>3, <2>5, Zenon
  <1>5. ASSUME Spent(op, ix.nonce, ix.p, c.life, c), v.ok PROVE FALSE
    <2>0. c.exists /\ ix.nonce = c.passkeyNonce
      BY <1>3, <1>5
    <2>1. ix.nonce < c.passkeyNonce
      BY <1>5, SpentFor, Zenon DEF AdminOps, MessageOps
    <2> QED
      BY <2>0, <2>1 DEF EngineOK, Counters, Voted, IxOK
  <1> QED
    BY <1>1, <1>4, <1>5, Zenon DEF TakesEffect, Refuses

(* A use of a passkey session approves a message that was not. *)
LEMMA recover_as_primary_passkey_session_effect ==
    ASSUME NEW c, EngineOK(c), NEW ix, IxOK(ix), NEW op, op = "passkey-primary-use"
    PROVE  /\ TakesEffect(recover_as_primary_passkey_session(ix, c), op, ix, c)
           /\ Refuses(recover_as_primary_passkey_session(ix, c), op, ix, c)
  <1>1. PICK v : v = recover_as_primary_passkey_session(ix, c)
    OBVIOUS
  <1>2. /\ v.ok = (c.passkeyOpen /\ ix.gen = c.passkeyNonce - 1 /\ ix.nonce = c.passkeyUses
             /\ ix.p \notin c.approved)
        /\ v.next = [c EXCEPT !.passkeyUses = @ + 1, !.approved = @ \cup {ix.p}]
    <2> DEFINE ok == c.passkeyOpen /\ ix.gen = c.passkeyNonce - 1 /\ ix.nonce = c.passkeyUses
    /\ ix.p \notin c.approved
              next == [c EXCEPT !.passkeyUses = @ + 1, !.approved = @ \cup {ix.p}]
    <2>1. PICK ch : v = Verdict(ok, ch, next)
      BY <1>1, Zenon DEF recover_as_primary_passkey_session
    <2> HIDE DEF ok, next
    <2>2. v.ok = ok /\ v.next = next
      BY <2>1, VerdictFields
    <2> QED
      BY <2>2 DEF ok, next
  <1>3. ASSUME v.ok
        PROVE c.passkeyOpen /\ ix.gen = c.passkeyNonce - 1 /\ ix.nonce = c.passkeyUses
              /\ ix.p \notin c.approved
    BY <1>2, <1>3, Zenon
  <1>4. ASSUME v.ok
        PROVE EngineOK(v.next) /\ EngineGrows(c, v.next)
              /\ Spent(op, ix.nonce, ix.p, c.life, v.next)
    <2>0. c.passkeyOpen /\ ix.gen = c.passkeyNonce - 1 /\ ix.nonce = c.passkeyUses
          /\ ix.p \notin c.approved
      BY <1>3, <1>4
    <2>1. PICK d : d = [c EXCEPT !.passkeyUses = @ + 1, !.approved = @ \cup {ix.p}]
      OBVIOUS
    <2>2. EngineOK(d)
      BY <2>1 DEF EngineOK, Counters, IxOK
    <2>3. EngineGrows(c, d)
      BY <2>0, <2>1 DEF EngineOK, Counters, EngineGrows, Voted, IxOK
    <2>4. ix.p \in d.approved
      BY <2>0, <2>1 DEF EngineOK, Counters, Voted, IxOK
    <2>5. Spent(op, ix.nonce, ix.p, c.life, d)
      BY <2>4, SpentFor, Zenon DEF AdminOps, MessageOps
    <2> QED
      BY <1>2, <2>1, <2>2, <2>3, <2>5, Zenon
  <1>5. ASSUME Spent(op, ix.nonce, ix.p, c.life, c), v.ok PROVE FALSE
    <2>0. c.passkeyOpen /\ ix.gen = c.passkeyNonce - 1 /\ ix.nonce = c.passkeyUses
          /\ ix.p \notin c.approved
      BY <1>3, <1>5
    <2>1. ix.p \in c.approved
      BY <1>5, SpentFor, Zenon DEF AdminOps, MessageOps
    <2> QED
      BY <2>0, <2>1 DEF EngineOK, Counters, Voted, IxOK
  <1> QED
    BY <1>1, <1>4, <1>5, Zenon DEF TakesEffect, Refuses

(* A signature request approves a message that was not. *)
LEMMA request_signature_effect ==
    ASSUME NEW c, EngineOK(c), NEW ix, IxOK(ix), NEW op \in {"normal-sign", "swap-sign"}
    PROVE  /\ TakesEffect(request_signature(op, ix, c), op, ix, c)
           /\ Refuses(request_signature(op, ix, c), op, ix, c)
  <1>1. PICK v : v = request_signature(op, ix, c)
    OBVIOUS
  <1>2. /\ v.ok = (Dispatchable(ix, c))
        /\ v.next = [c EXCEPT !.approved = @ \cup {ix.p}]
    <2> DEFINE ok == Dispatchable(ix, c)
              next == [c EXCEPT !.approved = @ \cup {ix.p}]
    <2>1. PICK ch : v = Verdict(ok, ch, next)
      BY <1>1, Zenon DEF request_signature
    <2> HIDE DEF ok, next
    <2>2. v.ok = ok /\ v.next = next
      BY <2>1, VerdictFields
    <2> QED
      BY <2>2 DEF ok, next
  <1>3. ASSUME v.ok PROVE Dispatchable(ix, c)
    BY <1>2, <1>3, Zenon
  <1>4. ASSUME v.ok
        PROVE EngineOK(v.next) /\ EngineGrows(c, v.next)
              /\ Spent(op, ix.nonce, ix.p, c.life, v.next)
    <2>0. Dispatchable(ix, c)
      BY <1>3, <1>4
    <2>1. PICK d : d = [c EXCEPT !.approved = @ \cup {ix.p}]
      OBVIOUS
    <2>2. EngineOK(d)
      BY <2>1 DEF EngineOK, Counters, IxOK, Dispatchable
    <2>3. EngineGrows(c, d)
      BY <2>0, <2>1 DEF EngineOK, Counters, EngineGrows, Voted, IxOK, Dispatchable
    <2>4. ix.p \in d.approved
      BY <2>0, <2>1 DEF EngineOK, Counters, Voted, IxOK, Dispatchable
    <2>5. Spent(op, ix.nonce, ix.p, c.life, d)
      BY <2>4, SpentFor, Zenon DEF AdminOps, MessageOps
    <2> QED
      BY <1>2, <2>1, <2>2, <2>3, <2>5, Zenon
  <1>5. ASSUME Spent(op, ix.nonce, ix.p, c.life, c), v.ok PROVE FALSE
    <2>0. Dispatchable(ix, c)
      BY <1>3, <1>5
    <2>1. ix.p \in c.approved
      BY <1>5, SpentFor, Zenon DEF AdminOps, MessageOps
    <2> QED
      BY <2>0, <2>1 DEF EngineOK, Counters, Voted, IxOK, Dispatchable
  <1> QED
    BY <1>1, <1>4, <1>5, Zenon DEF TakesEffect, Refuses

(* So does each leg of a bundle. *)
LEMMA request_signature_leg_effect ==
    ASSUME NEW c, EngineOK(c), NEW ix, IxOK(ix), NEW op, op = "bundle-sign", NEW leg
    PROVE  /\ TakesEffect(request_signature_leg(leg, ix, c), op, ix, c)
           /\ Refuses(request_signature_leg(leg, ix, c), op, ix, c)
  <1>1. PICK v : v = request_signature_leg(leg, ix, c)
    OBVIOUS
  <1>2. /\ v.ok = (Dispatchable(ix, c))
        /\ v.next = [c EXCEPT !.approved = @ \cup {ix.p}]
    <2> DEFINE ok == Dispatchable(ix, c)
              next == [c EXCEPT !.approved = @ \cup {ix.p}]
    <2>1. PICK ch : v = Verdict(ok, ch, next)
      BY <1>1, Zenon DEF request_signature_leg
    <2> HIDE DEF ok, next
    <2>2. v.ok = ok /\ v.next = next
      BY <2>1, VerdictFields
    <2> QED
      BY <2>2 DEF ok, next
  <1>3. ASSUME v.ok PROVE Dispatchable(ix, c)
    BY <1>2, <1>3, Zenon
  <1>4. ASSUME v.ok
        PROVE EngineOK(v.next) /\ EngineGrows(c, v.next)
              /\ Spent(op, ix.nonce, ix.p, c.life, v.next)
    <2>0. Dispatchable(ix, c)
      BY <1>3, <1>4
    <2>1. PICK d : d = [c EXCEPT !.approved = @ \cup {ix.p}]
      OBVIOUS
    <2>2. EngineOK(d)
      BY <2>1 DEF EngineOK, Counters, IxOK, Dispatchable
    <2>3. EngineGrows(c, d)
      BY <2>0, <2>1 DEF EngineOK, Counters, EngineGrows, Voted, IxOK, Dispatchable
    <2>4. ix.p \in d.approved
      BY <2>0, <2>1 DEF EngineOK, Counters, Voted, IxOK, Dispatchable
    <2>5. Spent(op, ix.nonce, ix.p, c.life, d)
      BY <2>4, SpentFor, Zenon DEF AdminOps, MessageOps
    <2> QED
      BY <1>2, <2>1, <2>2, <2>3, <2>5, Zenon
  <1>5. ASSUME Spent(op, ix.nonce, ix.p, c.life, c), v.ok PROVE FALSE
    <2>0. Dispatchable(ix, c)
      BY <1>3, <1>5
    <2>1. ix.p \in c.approved
      BY <1>5, SpentFor, Zenon DEF AdminOps, MessageOps
    <2> QED
      BY <2>0, <2>1 DEF EngineOK, Counters, Voted, IxOK, Dispatchable
  <1> QED
    BY <1>1, <1>4, <1>5, Zenon DEF TakesEffect, Refuses

(* An expired session is closed. *)
LEMMA close_expired_session_effect ==
    ASSUME NEW c, EngineOK(c), NEW ix, IxOK(ix), NEW op, op = "close-expired-session"
    PROVE  TakesEffect(close_expired_session(ix, c), op, ix, c)
  <1>1. PICK v : v = close_expired_session(ix, c)
    OBVIOUS
  <1>2. /\ v.ok = (c.session > 0)
        /\ v.next = [c EXCEPT !.session = 0, !.sessionNonce = 0, !.sessionUses = 0]
    <2> DEFINE ok == c.session > 0
              next == [c EXCEPT !.session = 0, !.sessionNonce = 0, !.sessionUses = 0]
    <2>1. PICK ch : v = Verdict(ok, ch, next)
      BY <1>1, Zenon DEF close_expired_session
    <2> HIDE DEF ok, next
    <2>2. v.ok = ok /\ v.next = next
      BY <2>1, VerdictFields
    <2> QED
      BY <2>2 DEF ok, next
  <1>3. ASSUME v.ok PROVE c.session > 0
    BY <1>2, <1>3, Zenon
  <1>4. ASSUME v.ok
        PROVE EngineOK(v.next) /\ EngineGrows(c, v.next)
              /\ Spent(op, ix.nonce, ix.p, c.life, v.next)
    <2>0. c.session > 0
      BY <1>3, <1>4
    <2>1. PICK d : d = [c EXCEPT !.session = 0, !.sessionNonce = 0, !.sessionUses = 0]
      OBVIOUS
    <2>2. EngineOK(d)
      BY <2>1 DEF EngineOK, Counters, IxOK
    <2>3. EngineGrows(c, d)
      BY <2>0, <2>1 DEF EngineOK, Counters, EngineGrows, Voted, IxOK
    <2>5. Spent(op, ix.nonce, ix.p, c.life, d)
      BY SpentFor, Zenon DEF Unsigned
    <2> QED
      BY <1>2, <2>1, <2>2, <2>3, <2>5, Zenon
  <1> QED
    BY <1>1, <1>4, Zenon DEF TakesEffect

(* A session is used. *)
LEMMA request_signature_via_session_effect ==
    ASSUME NEW c, EngineOK(c), NEW ix, IxOK(ix), NEW op, op = "session-use"
    PROVE  TakesEffect(request_signature_via_session(ix, c), op, ix, c)
  <1>1. PICK v : v = request_signature_via_session(ix, c)
    OBVIOUS
  <1>2. /\ v.ok = (c.session > 0 /\ ix.nonce = c.sessionUses /\ ix.p \notin c.approved)
        /\ v.next = [c EXCEPT !.sessionUses = @ + 1, !.approved = @ \cup {ix.p}]
    <2> DEFINE ok == c.session > 0 /\ ix.nonce = c.sessionUses /\ ix.p \notin c.approved
              next == [c EXCEPT !.sessionUses = @ + 1, !.approved = @ \cup {ix.p}]
    <2>1. PICK ch : v = Verdict(ok, ch, next)
      BY <1>1, Zenon DEF request_signature_via_session
    <2> HIDE DEF ok, next
    <2>2. v.ok = ok /\ v.next = next
      BY <2>1, VerdictFields
    <2> QED
      BY <2>2 DEF ok, next
  <1>3. ASSUME v.ok PROVE c.session > 0 /\ ix.nonce = c.sessionUses /\ ix.p \notin c.approved
    BY <1>2, <1>3, Zenon
  <1>4. ASSUME v.ok
        PROVE EngineOK(v.next) /\ EngineGrows(c, v.next)
              /\ Spent(op, ix.nonce, ix.p, c.life, v.next)
    <2>0. c.session > 0 /\ ix.nonce = c.sessionUses /\ ix.p \notin c.approved
      BY <1>3, <1>4
    <2>1. PICK d : d = [c EXCEPT !.sessionUses = @ + 1, !.approved = @ \cup {ix.p}]
      OBVIOUS
    <2>2. EngineOK(d)
      BY <2>1 DEF EngineOK, Counters, IxOK
    <2>3. EngineGrows(c, d)
      BY <2>0, <2>1 DEF EngineOK, Counters, EngineGrows, Voted, IxOK
    <2>5. Spent(op, ix.nonce, ix.p, c.life, d)
      BY SpentFor, Zenon DEF Unsigned
    <2> QED
      BY <1>2, <2>1, <2>2, <2>3, <2>5, Zenon
  <1> QED
    BY <1>1, <1>4, Zenon DEF TakesEffect

(* The message of a quorum session is approved. *)
LEMMA quorum_session_finalize_effect ==
    ASSUME NEW c, EngineOK(c), NEW ix, IxOK(ix), NEW op, op = "quorum-finalize"
    PROVE  TakesEffect(quorum_session_finalize(ix, c), op, ix, c)
  <1>1. PICK v : v = quorum_session_finalize(ix, c)
    OBVIOUS
  <1>2. /\ v.ok = (c.quorum.p > 0 /\ ix.nonce = c.quorumNonce - 1 /\ c.quorum.votes # {}
             /\ c.quorum.p \notin c.approved)
        /\ v.next = [c EXCEPT !.approved = @ \cup {c.quorum.p}]
    <2> DEFINE ok == c.quorum.p > 0 /\ ix.nonce = c.quorumNonce - 1 /\ c.quorum.votes # {}
    /\ c.quorum.p \notin c.approved
              next == [c EXCEPT !.approved = @ \cup {c.quorum.p}]
    <2>1. PICK ch : v = Verdict(ok, ch, next)
      BY <1>1, Zenon DEF quorum_session_finalize
    <2> HIDE DEF ok, next
    <2>2. v.ok = ok /\ v.next = next
      BY <2>1, VerdictFields
    <2> QED
      BY <2>2 DEF ok, next
  <1>3. ASSUME v.ok
        PROVE c.quorum.p > 0 /\ ix.nonce = c.quorumNonce - 1 /\ c.quorum.votes # {}
              /\ c.quorum.p \notin c.approved
    BY <1>2, <1>3, Zenon
  <1>4. ASSUME v.ok
        PROVE EngineOK(v.next) /\ EngineGrows(c, v.next)
              /\ Spent(op, ix.nonce, ix.p, c.life, v.next)
    <2>0. c.quorum.p > 0 /\ ix.nonce = c.quorumNonce - 1 /\ c.quorum.votes # {}
          /\ c.quorum.p \notin c.approved
      BY <1>3, <1>4
    <2>1. PICK d : d = [c EXCEPT !.approved = @ \cup {c.quorum.p}]
      OBVIOUS
    <2>2. EngineOK(d)
      BY <2>1 DEF EngineOK, Counters, IxOK
    <2>3. EngineGrows(c, d)
      BY <2>0, <2>1 DEF EngineOK, Counters, EngineGrows, Voted, IxOK
    <2>5. Spent(op, ix.nonce, ix.p, c.life, d)
      BY SpentFor, Zenon DEF Unsigned
    <2> QED
      BY <1>2, <2>1, <2>2, <2>3, <2>5, Zenon
  <1> QED
    BY <1>1, <1>4, Zenon DEF TakesEffect

(* A quorum session is cleared away. *)
LEMMA quorum_session_close_effect ==
    ASSUME NEW c, EngineOK(c), NEW ix, IxOK(ix), NEW op, op = "quorum-close"
    PROVE  TakesEffect(quorum_session_close(ix, c), op, ix, c)
  <1>1. PICK v : v = quorum_session_close(ix, c)
    OBVIOUS
  <1>2. /\ v.ok = (c.quorum.p > 0 /\ ix.nonce = c.quorumNonce - 1)
        /\ v.next = [c EXCEPT !.quorum = [p |-> 0, votes |-> {}]]
    <2> DEFINE ok == c.quorum.p > 0 /\ ix.nonce = c.quorumNonce - 1
              next == [c EXCEPT !.quorum = [p |-> 0, votes |-> {}]]
    <2>1. PICK ch : v = Verdict(ok, ch, next)
      BY <1>1, Zenon DEF quorum_session_close
    <2> HIDE DEF ok, next
    <2>2. v.ok = ok /\ v.next = next
      BY <2>1, VerdictFields
    <2> QED
      BY <2>2 DEF ok, next
  <1>3. ASSUME v.ok PROVE c.quorum.p > 0 /\ ix.nonce = c.quorumNonce - 1
    BY <1>2, <1>3, Zenon
  <1>4. ASSUME v.ok
        PROVE EngineOK(v.next) /\ EngineGrows(c, v.next)
              /\ Spent(op, ix.nonce, ix.p, c.life, v.next)
    <2>0. c.quorum.p > 0 /\ ix.nonce = c.quorumNonce - 1
      BY <1>3, <1>4
    <2>1. PICK d : d = [c EXCEPT !.quorum = [p |-> 0, votes |-> {}]]
      OBVIOUS
    <2>2. EngineOK(d)
      BY <2>1 DEF EngineOK, Counters, IxOK
    <2>3. EngineGrows(c, d)
      BY <2>0, <2>1 DEF EngineOK, Counters, EngineGrows, Voted, IxOK
    <2>5. Spent(op, ix.nonce, ix.p, c.life, d)
      BY SpentFor, Zenon DEF Unsigned
    <2> QED
      BY <1>2, <2>1, <2>2, <2>3, <2>5, Zenon
  <1> QED
    BY <1>1, <1>4, Zenon DEF TakesEffect

(* A passkey session is closed. *)
LEMMA passkey_session_close_effect ==
    ASSUME NEW c, EngineOK(c), NEW ix, IxOK(ix), NEW op, op = "passkey-close"
    PROVE  TakesEffect(passkey_session_close(ix, c), op, ix, c)
  <1>1. PICK v : v = passkey_session_close(ix, c)
    OBVIOUS
  <1>2. /\ v.ok = (c.passkeyOpen /\ ix.gen = c.passkeyNonce - 1)
        /\ v.next = [c EXCEPT !.passkeyOpen = FALSE]
    <2> DEFINE ok == c.passkeyOpen /\ ix.gen = c.passkeyNonce - 1
              next == [c EXCEPT !.passkeyOpen = FALSE]
    <2>1. PICK ch : v = Verdict(ok, ch, next)
      BY <1>1, Zenon DEF passkey_session_close
    <2> HIDE DEF ok, next
    <2>2. v.ok = ok /\ v.next = next
      BY <2>1, VerdictFields
    <2> QED
      BY <2>2 DEF ok, next
  <1>3. ASSUME v.ok PROVE c.passkeyOpen /\ ix.gen = c.passkeyNonce - 1
    BY <1>2, <1>3, Zenon
  <1>4. ASSUME v.ok
        PROVE EngineOK(v.next) /\ EngineGrows(c, v.next)
              /\ Spent(op, ix.nonce, ix.p, c.life, v.next)
    <2>0. c.passkeyOpen /\ ix.gen = c.passkeyNonce - 1
      BY <1>3, <1>4
    <2>1. PICK d : d = [c EXCEPT !.passkeyOpen = FALSE]
      OBVIOUS
    <2>2. EngineOK(d)
      BY <2>1 DEF EngineOK, Counters, IxOK
    <2>3. EngineGrows(c, d)
      BY <2>0, <2>1 DEF EngineOK, Counters, EngineGrows, Voted, IxOK
    <2>5. Spent(op, ix.nonce, ix.p, c.life, d)
      BY SpentFor, Zenon DEF Unsigned
    <2> QED
      BY <1>2, <2>1, <2>2, <2>3, <2>5, Zenon
  <1> QED
    BY <1>1, <1>4, Zenon DEF TakesEffect

----------------------------------------------------------------------------
(* The policy endpoints: which code each operation runs. *)

(* Every operation belongs to one family. *)
LEMMA Families ==
    /\ AllOps = {"init"} \cup AddRuleOps \cup AddItemOps \cup {"remove-rule", "session-open"}
                  \cup SessionOps \cup {"primary-recover", "quorum-session-open", "quorum-contribute",
                                          "passkey-session-open", "passkey-primary-use"}
                  \cup {"normal-sign", "swap-sign"} \cup {"bundle-sign"} \cup Unsigned
    /\ DOMAIN AddOps = AddRuleOps /\ DOMAIN ItemOps = AddItemOps
    /\ \A op \in AddRuleOps : AddOps[op] \in Kinds
    /\ \A op \in AddItemOps : ItemOps[op] \in Kinds
  <1>1. DOMAIN AddOps = AddRuleOps /\ DOMAIN ItemOps = AddItemOps
    BY DEF AddOps, ItemOps, AddRuleOps, AddItemOps
  <1>2. /\ \A op \in AddRuleOps : AddOps[op] \in Kinds
        /\ \A op \in AddItemOps : ItemOps[op] \in Kinds
    BY Zenon DEF AddOps, ItemOps, AddRuleOps, AddItemOps, Kinds
  <1> QED
    BY <1>1, <1>2 DEF AllOps, SwapOps, SessionOps, Unsigned

(* Adding a rule. *)
LEMMA AddRuleRoutes ==
    ASSUME NEW op \in AddRuleOps, NEW req, NEW leg, NEW ix, NEW c
    PROVE  /\ ChallengeRoute(op, req) = AddRuleInput(op, AddOps[op], req, addGen(req))
           /\ SubmitRoute(op, req, leg, c) =
                 Tx(AddRuleInput(op, AddOps[op], req, 1), Ix(req.nonce, 0, req.p))
           /\ process_instruction(op, leg, ix, c) = add_rule(op, AddOps[op], ix, c)
  BY Zenon DEF AddRuleOps, AddOps, ItemOps, Unsigned, ChallengeRoute, SubmitRoute,
     process_instruction,
       addRuleChallenge, addRuleOracleChallenge, addRuleAllowlistChallenge,
       addRuleSpendingUsdChallenge,
       addRuleSubmit, addRuleOracleSubmit, addRuleAllowlistSubmit, addRuleSpendingUsdSubmit,
       AddRuleOracle, AddRuleAllowlist, AddRuleSpendingUsd

(* Adding an item to a rule. *)
LEMMA AddItemRoutes ==
    ASSUME NEW op \in AddItemOps, NEW req, NEW leg, NEW ix, NEW c
    PROVE  /\ ChallengeRoute(op, req) = ItemInput(op, ItemOps[op], req)
           /\ SubmitRoute(op, req, leg, c) =
                 Tx(ItemInput(op, ItemOps[op], req), Ix(req.nonce, 0, req.p))
           /\ process_instruction(op, leg, ix, c) = add_item(op, ItemOps[op], ix, c)
  BY Zenon DEF AddItemOps, AddOps, ItemOps, Unsigned, ChallengeRoute, SubmitRoute,
     process_instruction,
       itemsAddChallenge, itemsAddOracleChallenge, itemsAddAllowlistChallenge,
       itemsAddSpendingUsdChallenge,
       itemsAddSubmit, itemsAddOracleSubmit, itemsAddAllowlistSubmit, itemsAddSpendingUsdSubmit,
       UpdateRuleOracleAddFeed, UpdateRuleAllowlistAddDestination, UpdateRuleSpendingUsdAddFeed

(* Of the operations of a session only a revocation binds no payload. *)
ExtrasOf(op, p) == IF op = "session-revoke" THEN << >> ELSE <<p>>

(* The operations of an open session. *)
LEMMA SessionRoutes ==
    ASSUME NEW op \in SessionOps, NEW req, NEW leg, NEW ix, NEW c
    PROVE  /\ ChallengeRoute(op, req) =
                 buildSessionAdminChallenge(op, req, FALSE, ExtrasOf(op, req.p))
           /\ SubmitRoute(op, req, leg, c) =
                 Tx(buildSessionAdminChallenge(op, req, FALSE, ExtrasOf(op, req.p)),
                    Ix(req.nonce, 0, req.p))
           /\ \E closes \in BOOLEAN :
                 process_instruction(op, leg, ix, c) =
                    session_admin(op, ExtrasOf(op, ix.p), ix, c, closes)
  BY Zenon DEF SessionOps, AddOps, ItemOps, Unsigned, ExtrasOf, ChallengeRoute, SubmitRoute,
     process_instruction,
       sessionRevokeChallenge, sessionCloseChallenge, sessionDestChallenge,
       sessionRevokeSubmit, sessionCloseSubmit, sessionDestSubmit,
       sessionRevokeExtras, sessionCloseExtras, sessionDestExtras,
       SessionRevoke, SessionClose, buildSessionUpdateDestination

(* The other operations on rules. *)
LEMMA RuleRoutes ==
    ASSUME NEW req, NEW leg, NEW ix, NEW c
    PROVE  /\ ChallengeRoute("init", req) = <<"init", <<0, req.p>>>>
           /\ SubmitRoute("init", req, leg, c) = Tx(<<"init", <<0, req.p>>>>, Ix(0, 0, req.p))
           /\ process_instruction("init", leg, ix, c) = init_engine(ix, c)
           /\ ChallengeRoute("remove-rule", req) = buildRemoveRuleChallenge(req)
           /\ SubmitRoute("remove-rule", req, leg, c) =
                 Tx(buildRemoveRuleChallenge(req), Ix(req.nonce, 0, req.p))
           /\ process_instruction("remove-rule", leg, ix, c) = remove_rule(ix, c)
           /\ ChallengeRoute("session-open", req) =
                 buildSessionAdminChallenge("session-open", req, TRUE, <<req.p>>)
           /\ SubmitRoute("session-open", req, leg, c) =
                 Tx(buildSessionAdminChallenge("session-open", req, TRUE, <<req.p>>),
                    Ix(req.nonce, 0, req.p))
           /\ process_instruction("session-open", leg, ix, c) = session_open(ix, c)
  BY Zenon DEF AddOps, ItemOps, Unsigned, ChallengeRoute, SubmitRoute, process_instruction,
       initChallenge, initSubmit, initChallengePreimageAndHash, InitEngine,
       removeRuleChallenge, removeRuleSubmit, RemoveRule,
       sessionOpenChallenge, sessionOpenSubmit, sessionOpenExtras, SessionOpen

(* Recovery. *)
LEMMA RecoveryRoutes ==
    ASSUME NEW req, NEW leg, NEW ix, NEW c
    PROVE  /\ ChallengeRoute("primary-recover", req) = <<"primary-recover", <<req.p, req.nonce>>>>
           /\ SubmitRoute("primary-recover", req, leg, c) =
                 Tx(<<"primary-recover", <<req.p, req.nonce>>>>, Ix(req.nonce, 0, req.p))
           /\ process_instruction("primary-recover", leg, ix, c) = recover_as_primary(ix, c)
           /\ ChallengeRoute("quorum-session-open", req) =
                 <<"quorum-session-open", <<req.p, req.nonce>>>>
           /\ SubmitRoute("quorum-session-open", req, leg, c) =
                 Tx(<<"quorum-session-open", <<req.p, req.nonce>>>>, Ix(req.nonce, 0, req.p))
           /\ process_instruction("quorum-session-open", leg, ix, c) = quorum_session_open(ix, c)
           /\ ChallengeRoute("quorum-contribute", req) =
                 <<"quorum-contribute", <<req.nonce, req.p>>>>
           /\ SubmitRoute("quorum-contribute", req, leg, c) =
                 Tx(<<"quorum-contribute", <<req.nonce, req.p>>>>, Ix(req.nonce, 0, 0))
           /\ process_instruction("quorum-contribute", leg, ix, c) =
                 quorum_session_contribute(ix, c)
           /\ ChallengeRoute("passkey-session-open", req) =
                 <<"passkey-session-open", <<req.p, req.nonce>>>>
           /\ SubmitRoute("passkey-session-open", req, leg, c) =
                 Tx(<<"passkey-session-open", <<req.p, req.nonce>>>>, Ix(req.nonce, 0, req.p))
           /\ process_instruction("passkey-session-open", leg, ix, c) = passkey_session_open(ix, c)
           /\ ChallengeRoute("passkey-primary-use", req) =
                 <<"passkey-primary-use", <<req.gen, req.p, req.nonce>>>>
           /\ SubmitRoute("passkey-primary-use", req, leg, c) =
                 Tx(<<"passkey-primary-use", <<req.gen, req.p, req.nonce>>>>,
                    Ix(req.nonce, req.gen, req.p))
           /\ process_instruction("passkey-primary-use", leg, ix, c) =
                 recover_as_primary_passkey_session(ix, c)
  BY Zenon DEF AddOps, ItemOps, Unsigned, ChallengeRoute, SubmitRoute, process_instruction,
       recoverAsPrimaryChallenge, deriveRecoverAsPrimary, PrimaryRecoverPreimage,
       recoverAsPrimarySubmit, RecoverAsPrimary,
       quorumOpenChallenge, QuorumOpenPreimage, deriveQuorum, quorumOpenSubmit, QuorumSessionOpen,
       quorumContributeChallenge, ContributePreimage, quorumContributeSubmit,
       QuorumSessionContribute,
       passkeyOpenChallenge, PasskeyOpenPreimage, passkeyOpenSubmit, PasskeySessionOpen,
       passkeyUseChallenge, PasskeyUsePreimage, derivePasskey, passkeyUseSubmit,
       RecoverAsPrimaryPasskeySession

(* The digests of an approve and its swap. *)
BundlePayload(p) == <<"bundle-sign", <<<<0, p + 4>>, <<0, p>>>>>>

(* Signature requests. *)
LEMMA SignatureRoutes ==
    ASSUME NEW req, NEW leg, NEW ix, NEW c
    PROVE  /\ ChallengeRoute("normal-sign", req) = <<"normal-sign", <<<<req.gen, req.p>>>>>>
           /\ SubmitRoute("normal-sign", req, leg, c) =
                 Tx(<<"normal-sign", <<<<req.gen, req.p>>>>>>,
                    assembleRequestSignatureIx(req.gen, req.p, c))
           /\ process_instruction("normal-sign", leg, ix, c) =
                 request_signature("normal-sign", ix, c)
           /\ ChallengeRoute("swap-sign", req) = <<"swap-sign", <<<<0, req.p>>>>>>
           /\ SubmitRoute("swap-sign", req, leg, c) =
                 Tx(<<"swap-sign", <<<<0, req.p>>>>>>, assembleRequestSignatureIx(0, req.p, c))
           /\ process_instruction("swap-sign", leg, ix, c) = request_signature("swap-sign", ix, c)
           /\ ChallengeRoute("bundle-sign", req) = BundlePayload(req.p)
           /\ SubmitRoute("bundle-sign", req, leg, c) = bundleLeg(req, leg, c)
           /\ process_instruction("bundle-sign", leg, ix, c) = request_signature_leg(leg, ix, c)
  BY Zenon DEF AddOps, ItemOps, Unsigned, ChallengeRoute, SubmitRoute, process_instruction,
       requestSignatureChallenge, buildRequestSignatureOwnerAuth, requestSignatureSubmit,
       NormalUsePreimage, RequestMetadataDigest,
       SwapOwnerAuthChallenge, AuthorizeSwap, SwapUsePreimage, swapChallenge, SwapMetadataDigest,
       bundleChallenge, BundlePreimage, BundlePayload, ApproveLeg

(* Each leg of a bundle is signed under the bundle's preimage. *)
LEMMA BundleBuilt ==
    ASSUME NEW req, NEW leg \in 0..1, NEW c
    PROVE  bundleLeg(req, leg, c) =
              Tx(BundlePayload(req.p),
                 assembleRequestSignatureIx(0, IF leg = 0 THEN req.p + 4 ELSE req.p, c))
  BY DEF bundleLeg, BundlePreimage, BundlePayload, swapChallenge, SwapMetadataDigest, ApproveLeg

(* Those nobody signs. *)
LEMMA UnsignedRoutes ==
    ASSUME NEW leg, NEW ix, NEW c
    PROVE  /\ process_instruction("close-expired-session", leg, ix, c) =
                 close_expired_session(ix, c)
           /\ process_instruction("session-use", leg, ix, c) = request_signature_via_session(ix, c)
           /\ process_instruction("quorum-finalize", leg, ix, c) = quorum_session_finalize(ix, c)
           /\ process_instruction("quorum-close", leg, ix, c) = quorum_session_close(ix, c)
           /\ process_instruction("passkey-close", leg, ix, c) = passkey_session_close(ix, c)
  BY Zenon DEF AddOps, ItemOps, process_instruction

(* Every instruction. *)
LEMMA ProgramStep ==
    ASSUME NEW c, EngineOK(c), NEW op \in AllOps, NEW leg, NEW ix, IxOK(ix)
    PROVE  /\ TakesEffect(process_instruction(op, leg, ix, c), op, ix, c)
           /\ op \notin Unsigned => Refuses(process_instruction(op, leg, ix, c), op, ix, c)
  <1>0. PICK v : v = process_instruction(op, leg, ix, c)
    OBVIOUS
  <1> SUFFICES TakesEffect(v, op, ix, c) /\ (op \notin Unsigned => Refuses(v, op, ix, c))
    BY <1>0, Zenon
  <1>1. CASE op \in AddRuleOps
    <2>1. v = add_rule(op, AddOps[op], ix, c)
      BY <1>0, <1>1, AddRuleRoutes, ZenonT(40)
    <2> QED
      BY <1>1, <2>1, add_rule_effect, Families, Zenon
  <1>2. CASE op \in AddItemOps
    <2>1. v = add_item(op, ItemOps[op], ix, c)
      BY <1>0, <1>2, AddItemRoutes, ZenonT(40)
    <2> QED
      BY <1>2, <2>1, add_item_effect, Families, Zenon
  <1>3. CASE op = "init"
    <2>1. v = init_engine(ix, c)
      BY <1>0, <1>3, RuleRoutes, ZenonT(40)
    <2> QED
      BY <1>3, <2>1, init_engine_effect, Zenon
  <1>4. CASE op = "remove-rule"
    <2>1. v = remove_rule(ix, c)
      BY <1>0, <1>4, RuleRoutes, ZenonT(40)
    <2> QED
      BY <1>4, <2>1, remove_rule_effect, Zenon
  <1>5. CASE op = "session-open"
    <2>1. v = session_open(ix, c)
      BY <1>0, <1>5, RuleRoutes, ZenonT(40)
    <2> QED
      BY <1>5, <2>1, session_open_effect, Zenon
  <1>6. CASE op = "primary-recover"
    <2>1. v = recover_as_primary(ix, c)
      BY <1>0, <1>6, RecoveryRoutes, ZenonT(40)
    <2> QED
      BY <1>6, <2>1, recover_as_primary_effect, Zenon
  <1>7. CASE op = "quorum-session-open"
    <2>1. v = quorum_session_open(ix, c)
      BY <1>0, <1>7, RecoveryRoutes, ZenonT(40)
    <2> QED
      BY <1>7, <2>1, quorum_session_open_effect, Zenon
  <1>8. CASE op = "quorum-contribute"
    <2>1. v = quorum_session_contribute(ix, c)
      BY <1>0, <1>8, RecoveryRoutes, ZenonT(40)
    <2> QED
      BY <1>8, <2>1, quorum_session_contribute_effect, Zenon
  <1>9. CASE op = "passkey-session-open"
    <2>1. v = passkey_session_open(ix, c)
      BY <1>0, <1>9, RecoveryRoutes, ZenonT(40)
    <2> QED
      BY <1>9, <2>1, passkey_session_open_effect, Zenon
  <1>10. CASE op = "passkey-primary-use"
    <2>1. v = recover_as_primary_passkey_session(ix, c)
      BY <1>0, <1>10, RecoveryRoutes, ZenonT(40)
    <2> QED
      BY <1>10, <2>1, recover_as_primary_passkey_session_effect, Zenon
  <1>11. CASE op \in {"normal-sign", "swap-sign"}
    <2>1. v = request_signature(op, ix, c)
      BY <1>0, <1>11, SignatureRoutes, ZenonT(40)
    <2> QED
      BY <1>11, <2>1, request_signature_effect, Zenon
  <1>12. CASE op = "bundle-sign"
    <2>1. v = request_signature_leg(leg, ix, c)
      BY <1>0, <1>12, SignatureRoutes, ZenonT(40)
    <2> QED
      BY <1>12, <2>1, request_signature_leg_effect, Zenon
  <1>13. CASE op = "close-expired-session"
    <2>1. v = close_expired_session(ix, c)
      BY <1>0, <1>13, UnsignedRoutes, Zenon
    <2> QED
      BY <1>13, <2>1, close_expired_session_effect, Zenon DEF Unsigned
  <1>14. CASE op = "session-use"
    <2>1. v = request_signature_via_session(ix, c)
      BY <1>0, <1>14, UnsignedRoutes, Zenon
    <2> QED
      BY <1>14, <2>1, request_signature_via_session_effect, Zenon DEF Unsigned
  <1>15. CASE op = "quorum-finalize"
    <2>1. v = quorum_session_finalize(ix, c)
      BY <1>0, <1>15, UnsignedRoutes, Zenon
    <2> QED
      BY <1>15, <2>1, quorum_session_finalize_effect, Zenon DEF Unsigned
  <1>16. CASE op = "quorum-close"
    <2>1. v = quorum_session_close(ix, c)
      BY <1>0, <1>16, UnsignedRoutes, Zenon
    <2> QED
      BY <1>16, <2>1, quorum_session_close_effect, Zenon DEF Unsigned
  <1>17. CASE op = "passkey-close"
    <2>1. v = passkey_session_close(ix, c)
      BY <1>0, <1>17, UnsignedRoutes, Zenon
    <2> QED
      BY <1>17, <2>1, passkey_session_close_effect, Zenon DEF Unsigned
  <1>18. CASE op \in SessionOps
    <2>1. PICK closes \in BOOLEAN : v = session_admin(op, ExtrasOf(op, ix.p), ix, c, closes)
      BY <1>0, <1>18, SessionRoutes, ZenonT(40)
    <2> QED
      BY <1>18, <2>1, session_admin_effect, Zenon
  <1> QED
    BY <1>1, <1>2, <1>3, <1>4, <1>5, <1>6, <1>7, <1>8, <1>9, <1>10, <1>11, <1>12, <1>13, <1>14,
       <1>15, <1>16, <1>17, <1>18, Families, Zenon DEF Unsigned

----------------------------------------------------------------------------
(* The policy endpoints: what is shown, rebuilt and recomputed. *)

(* A submit with the given of its challenge, onto the engine that was read, is *)
(* checked against what was shown.                                           *)
Agrees(op, leg, c, p) ==
    LET req == readPolicy(op, c, p)
        tx == SubmitRoute(op, req, leg, c)
        v == process_instruction(op, leg, tx.ix, c)
    IN  /\ v.ok => tx.signed = ChallengeRoute(op, req) /\ v.challenge = ChallengeRoute(op, req)
        /\ op = "normal-sign" /\ c.exists /\ p \notin c.approved => v.ok

(* The fields of what a client reads. *)
LEMMA ReadFields ==
    ASSUME NEW op, NEW c, NEW p, NEW req, req = readPolicy(op, c, p)
    PROVE  req.nonce = NonceFor(op, c) /\ req.gen = GenFor(op, c) /\ req.cfg = GenFor(op, c)
           /\ req.p = p
  BY DEF readPolicy

(* The fields of a submit. *)
LEMMA TxFields ==
    ASSUME NEW signed, NEW nonce, NEW gen, NEW p, NEW tx, tx = Tx(signed, Ix(nonce, gen, p))
    PROVE  tx.signed = signed /\ tx.ix.nonce = nonce /\ tx.ix.gen = gen /\ tx.ix.p = p
  BY DEF Tx, Ix

(* Adding a rule, whatever its kind. *)
LEMMA AddRuleAgrees ==
    ASSUME NEW c, EngineOK(c), NEW p \in Nat, NEW leg, NEW op \in AddRuleOps
    PROVE  Agrees(op, leg, c, p)
  <1>1. PICK req : req = readPolicy(op, c, p)
    OBVIOUS
  <1>2. NonceFor(op, c) = c.adminNonce /\ GenFor(op, c) = 0
    BY Zenon DEF NonceFor, GenFor, SessionOps, ItemOps, AddRuleOps
  <1>3. req.p = p /\ req.nonce = c.adminNonce /\ req.gen = 0
    BY <1>1, <1>2, ReadFields
  <1>4. PICK shown : shown = ChallengeRoute(op, req)
    OBVIOUS
  <1>5. PICK tx : tx = SubmitRoute(op, req, leg, c)
    OBVIOUS
  <1>6. PICK ix : ix = tx.ix
    OBVIOUS
  <1>7. PICK v : v = process_instruction(op, leg, ix, c)
    OBVIOUS
  <1>8. shown = AddRuleInput(op, AddOps[op], req, addGen(req))
    BY <1>4, AddRuleRoutes, ZenonT(40)
  <1>9. tx = Tx(AddRuleInput(op, AddOps[op], req, 1), Ix(req.nonce, 0, req.p))
    BY <1>5, <1>8, AddRuleRoutes, ZenonT(40)
  <1>10. v = add_rule(op, AddOps[op], ix, c)
    BY <1>7, AddRuleRoutes, ZenonT(40)
  <1>11. tx.signed = AddRuleInput(op, AddOps[op], req, 1) /\ ix.nonce = req.nonce /\ ix.gen = 0
         /\ ix.p = req.p
    BY <1>6, <1>9, TxFields
  <1>12. tx.signed = shown
    BY <1>3, <1>8, <1>11 DEF AddRuleInput, addGen, Admin
  <1>13. ASSUME v.ok PROVE v.challenge = shown
    BY <1>3, <1>8, <1>10, <1>11, <1>13 DEF Verdict, EngineOK, Counters, AddRuleInput, addGen,
       Admin, admin_challenge, add_rule
  <1>14. op # "normal-sign"
    BY DEF SessionOps, AddRuleOps
  <1> QED
    BY <1>1, <1>4, <1>5, <1>6, <1>7, <1>12, <1>13, <1>14 DEF Agrees

(* Adding an item: the generation the client reads is the one that results. *)
LEMMA AddItemAgrees ==
    ASSUME NEW c, EngineOK(c), NEW p \in Nat, NEW leg, NEW op \in AddItemOps
    PROVE  Agrees(op, leg, c, p)
  <1>1. PICK req : req = readPolicy(op, c, p)
    OBVIOUS
  <1>2. NonceFor(op, c) = c.adminNonce /\ GenFor(op, c) = c.rule[ItemOps[op]] + 1
    BY Zenon DEF NonceFor, GenFor, SessionOps, ItemOps, AddItemOps
  <1>3. req.p = p /\ req.nonce = c.adminNonce /\ req.gen = c.rule[ItemOps[op]] + 1
    BY <1>1, <1>2, ReadFields
  <1>4. PICK shown : shown = ChallengeRoute(op, req)
    OBVIOUS
  <1>5. PICK tx : tx = SubmitRoute(op, req, leg, c)
    OBVIOUS
  <1>6. PICK ix : ix = tx.ix
    OBVIOUS
  <1>7. PICK v : v = process_instruction(op, leg, ix, c)
    OBVIOUS
  <1>8. shown = ItemInput(op, ItemOps[op], req)
    BY <1>4, AddItemRoutes, ZenonT(40)
  <1>9. tx = Tx(shown, Ix(req.nonce, 0, req.p))
    BY <1>5, <1>8, AddItemRoutes, ZenonT(40)
  <1>10. v = add_item(op, ItemOps[op], ix, c)
    BY <1>7, AddItemRoutes, ZenonT(40)
  <1>11. tx.signed = shown /\ ix.nonce = req.nonce /\ ix.gen = 0 /\ ix.p = req.p
    BY <1>6, <1>9, TxFields
  <1>12. tx.signed = shown
    BY <1>11
  <1>13. ASSUME v.ok PROVE v.challenge = shown
    BY <1>3, <1>8, <1>10, <1>11, <1>13 DEF Verdict, EngineOK, Counters, ItemInput, Admin,
       admin_challenge, add_item
  <1>14. op # "normal-sign"
    BY DEF SessionOps, AddItemOps
  <1> QED
    BY <1>1, <1>4, <1>5, <1>6, <1>7, <1>12, <1>13, <1>14 DEF Agrees

(* The operations of an open session. *)
LEMMA SessionOpAgrees ==
    ASSUME NEW c, EngineOK(c), NEW p \in Nat, NEW leg, NEW op \in SessionOps
    PROVE  Agrees(op, leg, c, p)
  <1>1. PICK req : req = readPolicy(op, c, p)
    OBVIOUS
  <1>2. NonceFor(op, c) = c.sessionNonce
    BY Zenon DEF NonceFor, GenFor, SessionOps, ItemOps
  <1>3. req.p = p /\ req.nonce = c.sessionNonce
    BY <1>1, <1>2, ReadFields
  <1>4. PICK shown : shown = ChallengeRoute(op, req)
    OBVIOUS
  <1>5. PICK tx : tx = SubmitRoute(op, req, leg, c)
    OBVIOUS
  <1>6. PICK ix : ix = tx.ix
    OBVIOUS
  <1>7. PICK v : v = process_instruction(op, leg, ix, c)
    OBVIOUS
  <1>8. shown = buildSessionAdminChallenge(op, req, FALSE, ExtrasOf(op, req.p))
    BY <1>4, SessionRoutes, ZenonT(40)
  <1>9. tx = Tx(shown, Ix(req.nonce, 0, req.p))
    BY <1>5, <1>8, SessionRoutes, ZenonT(40)
  <1>10. PICK closes \in BOOLEAN : v = session_admin(op, ExtrasOf(op, ix.p), ix, c, closes)
    BY <1>7, SessionRoutes, ZenonT(40)
  <1>11. tx.signed = shown /\ ix.nonce = req.nonce /\ ix.gen = 0 /\ ix.p = req.p
    BY <1>6, <1>9, TxFields
  <1>12. tx.signed = shown
    BY <1>11
  <1>13. ASSUME v.ok PROVE v.challenge = shown
    <2>1. shown = <<op, <<KindSessionKey, 0, req.nonce, Zero32, ExtrasOf(op, req.p)>>>>
      BY <1>3, <1>8, Zenon DEF buildSessionAdminChallenge, Admin
    <2>2. v.challenge = <<op, <<KindSessionKey, 0, c.sessionNonce, Zero32, ExtrasOf(op, ix.p)>>>>
      BY <1>10, <1>13 DEF Verdict, admin_challenge, session_admin
    <2>3. v.ok => ix.nonce = c.sessionNonce
      BY <1>10 DEF Verdict, session_admin
    <2> QED
      BY <1>3, <1>11, <1>13, <2>1, <2>2, <2>3
  <1>14. op # "normal-sign"
    BY DEF SessionOps
  <1> QED
    BY <1>1, <1>4, <1>5, <1>6, <1>7, <1>12, <1>13, <1>14 DEF Agrees

(* Removing a rule. *)
LEMMA RemoveAgrees ==
    ASSUME NEW c, EngineOK(c), NEW p \in Nat, NEW leg
    PROVE  Agrees("remove-rule", leg, c, p)
  <1>1. PICK req : req = readPolicy("remove-rule", c, p)
    OBVIOUS
  <1>2. NonceFor("remove-rule", c) = c.adminNonce
        /\ GenFor("remove-rule", c) = c.rule[KindAllowlist]
    BY Zenon DEF NonceFor, GenFor, SessionOps, ItemOps
  <1>3. req.p = p /\ req.nonce = c.adminNonce /\ req.gen = c.rule[KindAllowlist]
        /\ req.cfg = c.rule[KindAllowlist]
    BY <1>1, <1>2, ReadFields
  <1>4. PICK shown : shown = ChallengeRoute("remove-rule", req)
    OBVIOUS
  <1>5. PICK tx : tx = SubmitRoute("remove-rule", req, leg, c)
    OBVIOUS
  <1>6. PICK ix : ix = tx.ix
    OBVIOUS
  <1>7. PICK v : v = process_instruction("remove-rule", leg, ix, c)
    OBVIOUS
  <1>8. shown = buildRemoveRuleChallenge(req)
    BY <1>4, RuleRoutes, ZenonT(40)
  <1>9. tx = Tx(shown, Ix(req.nonce, 0, req.p))
    BY <1>5, <1>8, RuleRoutes, ZenonT(40)
  <1>10. v = remove_rule(ix, c)
    BY <1>7, RuleRoutes, ZenonT(40)
  <1>11. tx.signed = shown /\ ix.nonce = req.nonce /\ ix.gen = 0 /\ ix.p = req.p
    BY <1>6, <1>9, TxFields
  <1>12. tx.signed = shown
    BY <1>11
  <1>13. ASSUME v.ok PROVE v.challenge = shown
    BY <1>3, <1>8, <1>10, <1>11, <1>13 DEF Verdict, EngineOK, Counters, buildRemoveRuleChallenge,
       Admin, admin_challenge, remove_rule
  <1>14. "remove-rule" # "normal-sign"
    BY DEF SessionOps
  <1> QED
    BY <1>1, <1>4, <1>5, <1>6, <1>7, <1>12, <1>13, <1>14 DEF Agrees

(* Opening a session: with the rule's generation and configuration. *)
LEMMA SessionOpenAgrees ==
    ASSUME NEW c, EngineOK(c), NEW p \in Nat, NEW leg
    PROVE  Agrees("session-open", leg, c, p)
  <1>1. PICK req : req = readPolicy("session-open", c, p)
    OBVIOUS
  <1>2. NonceFor("session-open", c) = c.adminNonce
        /\ GenFor("session-open", c) = c.rule[KindSessionKey]
    BY Zenon DEF NonceFor, GenFor, SessionOps, ItemOps
  <1>3. req.p = p /\ req.nonce = c.adminNonce /\ req.gen = c.rule[KindSessionKey]
        /\ req.cfg = c.rule[KindSessionKey]
    BY <1>1, <1>2, ReadFields
  <1>4. PICK shown : shown = ChallengeRoute("session-open", req)
    OBVIOUS
  <1>5. PICK tx : tx = SubmitRoute("session-open", req, leg, c)
    OBVIOUS
  <1>6. PICK ix : ix = tx.ix
    OBVIOUS
  <1>7. PICK v : v = process_instruction("session-open", leg, ix, c)
    OBVIOUS
  <1>8. shown = buildSessionAdminChallenge("session-open", req, TRUE, <<req.p>>)
    BY <1>4, RuleRoutes, ZenonT(40)
  <1>9. tx = Tx(shown, Ix(req.nonce, 0, req.p))
    BY <1>5, <1>8, RuleRoutes, ZenonT(40)
  <1>10. v = session_open(ix, c)
    BY <1>7, RuleRoutes, ZenonT(40)
  <1>11. tx.signed = shown /\ ix.nonce = req.nonce /\ ix.gen = 0 /\ ix.p = req.p
    BY <1>6, <1>9, TxFields
  <1>12. tx.signed = shown
    BY <1>11
  <1>13. ASSUME v.ok PROVE v.challenge = shown
    <2>1. shown = <<"session-open", <<KindSessionKey, req.gen, req.nonce, req.cfg, <<req.p>>>>>>
      BY <1>3, <1>8, Zenon DEF buildSessionAdminChallenge, Admin
    <2>2. v.challenge = <<"session-open", <<KindSessionKey, c.rule[KindSessionKey], c.adminNonce,
             c.rule[KindSessionKey], <<ix.p>>>>>>
      BY <1>10, <1>13 DEF Verdict, admin_challenge, session_open
    <2>3. v.ok => ix.nonce = c.adminNonce
      BY <1>10 DEF Verdict, session_open
    <2> QED
      BY <1>3, <1>11, <1>13, <2>1, <2>2, <2>3
  <1>14. "session-open" # "normal-sign"
    BY DEF SessionOps
  <1> QED
    BY <1>1, <1>4, <1>5, <1>6, <1>7, <1>12, <1>13, <1>14 DEF Agrees

(* Creating the engine. *)
LEMMA InitAgrees ==
    ASSUME NEW c, EngineOK(c), NEW p \in Nat, NEW leg
    PROVE  Agrees("init", leg, c, p)
  <1>1. PICK req : req = readPolicy("init", c, p)
    OBVIOUS
  <1>3. req.p = p
    BY <1>1, ReadFields
  <1>4. PICK shown : shown = ChallengeRoute("init", req)
    OBVIOUS
  <1>5. PICK tx : tx = SubmitRoute("init", req, leg, c)
    OBVIOUS
  <1>6. PICK ix : ix = tx.ix
    OBVIOUS
  <1>7. PICK v : v = process_instruction("init", leg, ix, c)
    OBVIOUS
  <1>8. shown = <<"init", <<0, req.p>>>>
    BY <1>4, RuleRoutes, ZenonT(40)
  <1>9. tx = Tx(shown, Ix(0, 0, req.p))
    BY <1>5, <1>8, RuleRoutes, ZenonT(40)
  <1>10. v = init_engine(ix, c)
    BY <1>7, RuleRoutes, ZenonT(40)
  <1>11. tx.signed = shown /\ ix.nonce = 0 /\ ix.gen = 0 /\ ix.p = req.p
    BY <1>6, <1>9, TxFields
  <1>12. tx.signed = shown
    BY <1>11
  <1>13. ASSUME v.ok PROVE v.challenge = shown
    BY <1>3, <1>8, <1>10, <1>11, <1>13 DEF Verdict, EngineOK, Counters, init_engine
  <1>14. "init" # "normal-sign"
    BY DEF SessionOps
  <1> QED
    BY <1>1, <1>4, <1>5, <1>6, <1>7, <1>12, <1>13, <1>14 DEF Agrees

(* Recovery by the primary. *)
LEMMA RecoverAgrees ==
    ASSUME NEW c, EngineOK(c), NEW p \in Nat, NEW leg
    PROVE  Agrees("primary-recover", leg, c, p)
  <1>1. PICK req : req = readPolicy("primary-recover", c, p)
    OBVIOUS
  <1>2. NonceFor("primary-recover", c) = c.recoverNonce
    BY Zenon DEF NonceFor, GenFor, SessionOps, ItemOps
  <1>3. req.p = p /\ req.nonce = c.recoverNonce
    BY <1>1, <1>2, ReadFields
  <1>4. PICK shown : shown = ChallengeRoute("primary-recover", req)
    OBVIOUS
  <1>5. PICK tx : tx = SubmitRoute("primary-recover", req, leg, c)
    OBVIOUS
  <1>6. PICK ix : ix = tx.ix
    OBVIOUS
  <1>7. PICK v : v = process_instruction("primary-recover", leg, ix, c)
    OBVIOUS
  <1>8. shown = <<"primary-recover", <<req.p, req.nonce>>>>
    BY <1>4, RecoveryRoutes, ZenonT(40)
  <1>9. tx = Tx(shown, Ix(req.nonce, 0, req.p))
    BY <1>5, <1>8, RecoveryRoutes, ZenonT(40)
  <1>10. v = recover_as_primary(ix, c)
    BY <1>7, RecoveryRoutes, ZenonT(40)
  <1>11. tx.signed = shown /\ ix.nonce = req.nonce /\ ix.gen = 0 /\ ix.p = req.p
    BY <1>6, <1>9, TxFields
  <1>12. tx.signed = shown
    BY <1>11
  <1>13. ASSUME v.ok PROVE v.challenge = shown
    BY <1>3, <1>8, <1>10, <1>11, <1>13 DEF Verdict, EngineOK, Counters, recover_as_primary
  <1>14. "primary-recover" # "normal-sign"
    BY DEF SessionOps
  <1> QED
    BY <1>1, <1>4, <1>5, <1>6, <1>7, <1>12, <1>13, <1>14 DEF Agrees

(* Opening a quorum session. *)
LEMMA QuorumOpenAgrees ==
    ASSUME NEW c, EngineOK(c), NEW p \in Nat, NEW leg
    PROVE  Agrees("quorum-session-open", leg, c, p)
  <1>1. PICK req : req = readPolicy("quorum-session-open", c, p)
    OBVIOUS
  <1>2. NonceFor("quorum-session-open", c) = c.quorumNonce
    BY Zenon DEF NonceFor, GenFor, SessionOps, ItemOps
  <1>3. req.p = p /\ req.nonce = c.quorumNonce
    BY <1>1, <1>2, ReadFields
  <1>4. PICK shown : shown = ChallengeRoute("quorum-session-open", req)
    OBVIOUS
  <1>5. PICK tx : tx = SubmitRoute("quorum-session-open", req, leg, c)
    OBVIOUS
  <1>6. PICK ix : ix = tx.ix
    OBVIOUS
  <1>7. PICK v : v = process_instruction("quorum-session-open", leg, ix, c)
    OBVIOUS
  <1>8. shown = <<"quorum-session-open", <<req.p, req.nonce>>>>
    BY <1>4, RecoveryRoutes, ZenonT(40)
  <1>9. tx = Tx(shown, Ix(req.nonce, 0, req.p))
    BY <1>5, <1>8, RecoveryRoutes, ZenonT(40)
  <1>10. v = quorum_session_open(ix, c)
    BY <1>7, RecoveryRoutes, ZenonT(40)
  <1>11. tx.signed = shown /\ ix.nonce = req.nonce /\ ix.gen = 0 /\ ix.p = req.p
    BY <1>6, <1>9, TxFields
  <1>12. tx.signed = shown
    BY <1>11
  <1>13. ASSUME v.ok PROVE v.challenge = shown
    BY <1>3, <1>8, <1>10, <1>11, <1>13 DEF Verdict, EngineOK, Counters, quorum_session_open
  <1>14. "quorum-session-open" # "normal-sign"
    BY DEF SessionOps
  <1> QED
    BY <1>1, <1>4, <1>5, <1>6, <1>7, <1>12, <1>13, <1>14 DEF Agrees

(* A vote, for the message of the session. *)
LEMMA ContributeAgrees ==
    ASSUME NEW c, EngineOK(c), NEW p \in Nat, NEW leg, p = c.quorum.p
    PROVE  Agrees("quorum-contribute", leg, c, p)
  <1>1. PICK req : req = readPolicy("quorum-contribute", c, p)
    OBVIOUS
  <1>2. (NonceFor("quorum-contribute", c) = IF c.quorumNonce = 0 THEN 0 ELSE c.quorumNonce - 1)
    BY Zenon DEF NonceFor, GenFor, SessionOps, ItemOps
  <1>3. req.p = p /\ req.nonce = (IF c.quorumNonce = 0 THEN 0 ELSE c.quorumNonce - 1)
    BY <1>1, <1>2, ReadFields
  <1>4. PICK shown : shown = ChallengeRoute("quorum-contribute", req)
    OBVIOUS
  <1>5. PICK tx : tx = SubmitRoute("quorum-contribute", req, leg, c)
    OBVIOUS
  <1>6. PICK ix : ix = tx.ix
    OBVIOUS
  <1>7. PICK v : v = process_instruction("quorum-contribute", leg, ix, c)
    OBVIOUS
  <1>8. shown = <<"quorum-contribute", <<req.nonce, req.p>>>>
    BY <1>4, RecoveryRoutes, ZenonT(40)
  <1>9. tx = Tx(shown, Ix(req.nonce, 0, 0))
    BY <1>5, <1>8, RecoveryRoutes, ZenonT(40)
  <1>10. v = quorum_session_contribute(ix, c)
    BY <1>7, RecoveryRoutes, ZenonT(40)
  <1>11. tx.signed = shown /\ ix.nonce = req.nonce /\ ix.gen = 0 /\ ix.p = 0
    BY <1>6, <1>9, TxFields
  <1>12. tx.signed = shown
    BY <1>11
  <1>13. ASSUME v.ok PROVE v.challenge = shown
    BY <1>3, <1>8, <1>10, <1>11, <1>13 DEF Verdict, EngineOK, Counters, quorum_session_contribute
  <1>14. "quorum-contribute" # "normal-sign"
    BY DEF SessionOps
  <1> QED
    BY <1>1, <1>4, <1>5, <1>6, <1>7, <1>12, <1>13, <1>14 DEF Agrees

(* Opening a passkey session. *)
LEMMA PasskeyOpenAgrees ==
    ASSUME NEW c, EngineOK(c), NEW p \in Nat, NEW leg
    PROVE  Agrees("passkey-session-open", leg, c, p)
  <1>1. PICK req : req = readPolicy("passkey-session-open", c, p)
    OBVIOUS
  <1>2. NonceFor("passkey-session-open", c) = c.passkeyNonce
    BY Zenon DEF NonceFor, GenFor, SessionOps, ItemOps
  <1>3. req.p = p /\ req.nonce = c.passkeyNonce
    BY <1>1, <1>2, ReadFields
  <1>4. PICK shown : shown = ChallengeRoute("passkey-session-open", req)
    OBVIOUS
  <1>5. PICK tx : tx = SubmitRoute("passkey-session-open", req, leg, c)
    OBVIOUS
  <1>6. PICK ix : ix = tx.ix
    OBVIOUS
  <1>7. PICK v : v = process_instruction("passkey-session-open", leg, ix, c)
    OBVIOUS
  <1>8. shown = <<"passkey-session-open", <<req.p, req.nonce>>>>
    BY <1>4, RecoveryRoutes, ZenonT(40)
  <1>9. tx = Tx(shown, Ix(req.nonce, 0, req.p))
    BY <1>5, <1>8, RecoveryRoutes, ZenonT(40)
  <1>10. v = passkey_session_open(ix, c)
    BY <1>7, RecoveryRoutes, ZenonT(40)
  <1>11. tx.signed = shown /\ ix.nonce = req.nonce /\ ix.gen = 0 /\ ix.p = req.p
    BY <1>6, <1>9, TxFields
  <1>12. tx.signed = shown
    BY <1>11
  <1>13. ASSUME v.ok PROVE v.challenge = shown
    BY <1>3, <1>8, <1>10, <1>11, <1>13 DEF Verdict, EngineOK, Counters, passkey_session_open
  <1>14. "passkey-session-open" # "normal-sign"
    BY DEF SessionOps
  <1> QED
    BY <1>1, <1>4, <1>5, <1>6, <1>7, <1>12, <1>13, <1>14 DEF Agrees

(* Using a passkey session. *)
LEMMA PasskeyUseAgrees ==
    ASSUME NEW c, EngineOK(c), NEW p \in Nat, NEW leg
    PROVE  Agrees("passkey-primary-use", leg, c, p)
  <1>1. PICK req : req = readPolicy("passkey-primary-use", c, p)
    OBVIOUS
  <1>2. NonceFor("passkey-primary-use", c) = c.passkeyUses
        /\ (GenFor("passkey-primary-use", c) = IF c.passkeyNonce = 0 THEN 0 ELSE c.passkeyNonce - 1)
    BY Zenon DEF NonceFor, GenFor, SessionOps, ItemOps
  <1>3. req.p = p /\ req.nonce = c.passkeyUses
        /\ req.gen = (IF c.passkeyNonce = 0 THEN 0 ELSE c.passkeyNonce - 1)
    BY <1>1, <1>2, ReadFields
  <1>4. PICK shown : shown = ChallengeRoute("passkey-primary-use", req)
    OBVIOUS
  <1>5. PICK tx : tx = SubmitRoute("passkey-primary-use", req, leg, c)
    OBVIOUS
  <1>6. PICK ix : ix = tx.ix
    OBVIOUS
  <1>7. PICK v : v = process_instruction("passkey-primary-use", leg, ix, c)
    OBVIOUS
  <1>8. shown = <<"passkey-primary-use", <<req.gen, req.p, req.nonce>>>>
    BY <1>4, RecoveryRoutes, ZenonT(40)
  <1>9. tx = Tx(shown, Ix(req.nonce, req.gen, req.p))
    BY <1>5, <1>8, RecoveryRoutes, ZenonT(40)
  <1>10. v = recover_as_primary_passkey_session(ix, c)
    BY <1>7, RecoveryRoutes, ZenonT(40)
  <1>11. tx.signed = shown /\ ix.nonce = req.nonce /\ ix.gen = req.gen /\ ix.p = req.p
    BY <1>6, <1>9, TxFields
  <1>12. tx.signed = shown
    BY <1>11
  <1>13. ASSUME v.ok PROVE v.challenge = shown
    BY <1>3, <1>8, <1>10, <1>11, <1>13 DEF Verdict, EngineOK, Counters,
       recover_as_primary_passkey_session
  <1>14. "passkey-primary-use" # "normal-sign"
    BY DEF SessionOps
  <1> QED
    BY <1>1, <1>4, <1>5, <1>6, <1>7, <1>12, <1>13, <1>14 DEF Agrees

(* The instruction of a signature request lists the rules the engine has. *)
LEMMA SignedIx ==
    ASSUME NEW signed, NEW gen, NEW p, NEW c, EngineOK(c),
           NEW tx, tx = Tx(signed, assembleRequestSignatureIx(gen, p, c))
    PROVE  /\ tx.signed = signed /\ tx.ix.gen = gen /\ tx.ix.p = p /\ tx.ix.nonce = 0
           /\ tx.ix.accounts = {k \in DOMAIN c.rule : c.rule[k] # 0}
  <1>1. PICK ix : ix = RequestSignature(gen, p, resolveTrailingAccounts(c))
    OBVIOUS
  <1>2. tx.signed = signed /\ tx.ix = ix
    BY <1>1 DEF Tx, assembleRequestSignatureIx
  <1>3. ix.gen = gen /\ ix.p = p /\ ix.nonce = 0 /\ ix.accounts = resolveTrailingAccounts(c)
    BY <1>1 DEF RequestSignature, Ix
  <1>4. resolveTrailingAccounts(c) = {k \in DOMAIN c.rule : c.rule[k] # 0}
    BY DEF resolveTrailingAccounts, EngineOK
  <1> QED
    BY <1>2, <1>3, <1>4

(* A signature request, which the program has no reason to refuse. *)
LEMMA SignAgrees ==
    ASSUME NEW c, EngineOK(c), NEW p \in Nat, NEW leg
    PROVE  Agrees("normal-sign", leg, c, p)
  <1>1. PICK req : req = readPolicy("normal-sign", c, p)
    OBVIOUS
  <1>2. GenFor("normal-sign", c) = c.rulesGen
    BY Zenon DEF GenFor, ItemOps
  <1>3. req.p = p /\ req.gen = c.rulesGen
    BY <1>1, <1>2, ReadFields
  <1>4. PICK shown : shown = ChallengeRoute("normal-sign", req)
    OBVIOUS
  <1>5. PICK tx : tx = SubmitRoute("normal-sign", req, leg, c)
    OBVIOUS
  <1>6. PICK ix : ix = tx.ix
    OBVIOUS
  <1>7. PICK v : v = process_instruction("normal-sign", leg, ix, c)
    OBVIOUS
  <1>8. shown = <<"normal-sign", <<<<req.gen, req.p>>>>>>
    BY <1>4, SignatureRoutes, ZenonT(40)
  <1>9. tx = Tx(shown, assembleRequestSignatureIx(req.gen, req.p, c))
    BY <1>5, <1>8, SignatureRoutes, ZenonT(40)
  <1>10. v = request_signature("normal-sign", ix, c)
    BY <1>7, SignatureRoutes, ZenonT(40)
  <1>11. tx.signed = shown /\ ix.gen = req.gen /\ ix.p = req.p
         /\ ix.accounts = {k \in DOMAIN c.rule : c.rule[k] # 0}
    BY <1>6, <1>9, SignedIx
  <1>12. v.challenge = shown
    BY <1>3, <1>8, <1>10, <1>11 DEF request_signature, Verdict, RequestMetadataDigest
  <1>13. c.exists /\ p \notin c.approved => Dispatchable(ix, c)
    BY <1>3, <1>11 DEF Dispatchable
  <1>14. v.ok = Dispatchable(ix, c)
    BY <1>10, VerdictFields DEF request_signature
  <1> QED
    BY <1>1, <1>4, <1>5, <1>6, <1>7, <1>11, <1>12, <1>13, <1>14 DEF Agrees

(* A swap, on an engine without rules. *)
LEMMA SwapAgrees ==
    ASSUME NEW c, EngineOK(c), c.rulesGen = 0, NEW p \in Nat, NEW leg
    PROVE  Agrees("swap-sign", leg, c, p)
  <1>1. PICK req : req = readPolicy("swap-sign", c, p)
    OBVIOUS
  <1>3. req.p = p
    BY <1>1, ReadFields
  <1>4. PICK shown : shown = ChallengeRoute("swap-sign", req)
    OBVIOUS
  <1>5. PICK tx : tx = SubmitRoute("swap-sign", req, leg, c)
    OBVIOUS
  <1>6. PICK ix : ix = tx.ix
    OBVIOUS
  <1>7. PICK v : v = process_instruction("swap-sign", leg, ix, c)
    OBVIOUS
  <1>8. shown = <<"swap-sign", <<<<0, req.p>>>>>>
    BY <1>4, SignatureRoutes, ZenonT(40)
  <1>9. tx = Tx(shown, assembleRequestSignatureIx(0, req.p, c))
    BY <1>5, <1>8, SignatureRoutes, ZenonT(40)
  <1>10. v = request_signature("swap-sign", ix, c)
    BY <1>7, SignatureRoutes, ZenonT(40)
  <1>11. tx.signed = shown /\ ix.gen = 0 /\ ix.p = req.p
    BY <1>6, <1>9, SignedIx
  <1>12. v.challenge = shown
    BY <1>3, <1>8, <1>10, <1>11 DEF request_signature, Verdict, RequestMetadataDigest
  <1> QED
    BY <1>1, <1>4, <1>5, <1>6, <1>7, <1>11, <1>12 DEF Agrees

(* Each leg of a bundle, on an engine without rules. *)
LEMMA BundleAgrees ==
    ASSUME NEW c, EngineOK(c), c.rulesGen = 0, NEW p \in Nat, NEW leg \in 0..1
    PROVE  Agrees("bundle-sign", leg, c, p)
  <1>1. PICK req : req = readPolicy("bundle-sign", c, p)
    OBVIOUS
  <1>3. req.p = p
    BY <1>1, ReadFields
  <1>4. PICK shown : shown = ChallengeRoute("bundle-sign", req)
    OBVIOUS
  <1>5. PICK tx : tx = SubmitRoute("bundle-sign", req, leg, c)
    OBVIOUS
  <1>6. PICK ix : ix = tx.ix
    OBVIOUS
  <1>7. PICK v : v = process_instruction("bundle-sign", leg, ix, c)
    OBVIOUS
  <1>8. shown = BundlePayload(req.p)
    BY <1>4, SignatureRoutes, ZenonT(40)
  <1>9. tx = bundleLeg(req, leg, c)
    BY <1>5, SignatureRoutes, ZenonT(40)
  <1>10. PICK q : q = IF leg = 0 THEN p + 4 ELSE p
    OBVIOUS
  <1>11. tx = Tx(shown, assembleRequestSignatureIx(0, q, c))
    BY <1>3, <1>8, <1>9, <1>10, BundleBuilt, ZenonT(40)
  <1>12. v = request_signature_leg(leg, ix, c)
    BY <1>7, SignatureRoutes, ZenonT(40)
  <1>13. tx.signed = shown /\ ix.gen = 0 /\ ix.p = q
    BY <1>6, <1>11, SignedIx
  <1>14. v.challenge = shown
    BY <1>3, <1>8, <1>10, <1>12, <1>13 DEF request_signature_leg, Verdict, SwapMetadataDigest,
       BundlePayload
  <1> QED
    BY <1>1, <1>4, <1>5, <1>6, <1>7, <1>13, <1>14 DEF Agrees

(* Every endpoint. *)
LEMMA RoundTrip ==
    ASSUME NEW c, EngineOK(c), NEW op \in AllOps \ Unsigned, NEW p \in Nat, NEW leg,
           op \in SwapOps => c.rulesGen = 0,
           op = "quorum-contribute" => p = c.quorum.p,
           op = "bundle-sign" => leg \in 0..1
    PROVE  Agrees(op, leg, c, p)
  <1>1. CASE op \in AddRuleOps
    BY <1>1, AddRuleAgrees
  <1>2. CASE op \in AddItemOps
    BY <1>2, AddItemAgrees
  <1>3. CASE op \in SessionOps
    BY <1>3, SessionOpAgrees
  <1>4. CASE op \in {"init", "remove-rule", "session-open"}
    BY <1>4, InitAgrees, RemoveAgrees, SessionOpenAgrees
  <1>5. CASE op \in {"primary-recover", "quorum-session-open", "quorum-contribute"}
    BY <1>5, RecoverAgrees, QuorumOpenAgrees, ContributeAgrees
  <1>6. CASE op \in {"passkey-session-open", "passkey-primary-use"}
    BY <1>6, PasskeyOpenAgrees, PasskeyUseAgrees
  <1>7. CASE op \in {"normal-sign", "swap-sign", "bundle-sign"}
    BY <1>7, SignAgrees, SwapAgrees, BundleAgrees DEF SwapOps
  <1> QED
    BY <1>1, <1>2, <1>3, <1>4, <1>5, <1>6, <1>7, Families, Zenon

(* What a transaction carries: the counter it is bound to and its payload. *)
IxNonce(op, req) == IF op \in {"init", "normal-sign", "swap-sign", "bundle-sign"} THEN 0
   ELSE req.nonce
IxPayload(op, p, leg) ==
    IF op = "quorum-contribute" THEN 0 ELSE IF op = "bundle-sign" /\ leg = 0 THEN p + 4 ELSE p

Carries(op, req, leg, tx) == tx.ix.nonce = IxNonce(op, req) /\ tx.ix.p = IxPayload(op, req.p, leg)

(* What nobody signs. *)
LEMMA UnsignedSubmits ==
    ASSUME NEW op \in Unsigned, NEW req, NEW leg, NEW c
    PROVE  /\ ChallengeRoute(op, req) = Nothing
           /\ \E nonce \in {0, req.nonce}, gen \in {0, req.gen} :
                 SubmitRoute(op, req, leg, c) = Tx(Nothing, Ix(nonce, gen, req.p))
  BY Zenon DEF Unsigned, AddOps, ItemOps, SessionOps, ChallengeRoute, SubmitRoute,
     sessionCloseExpiredSubmit,
       CloseExpiredSession, sessionUseBuild, RequestSignatureViaSession, quorumFinalize,
       QuorumSessionFinalize, quorumClose, QuorumSessionClose, passkeyClose, PasskeySessionClose,
       deriveQuorum, derivePasskey

(* An instruction carries the nonce that was read and the payload submitted. *)
LEMMA SubmitCarries ==
    ASSUME NEW op \in AllOps \ Unsigned, NEW req, NEW leg, op = "bundle-sign" => leg \in 0..1,
           NEW c, EngineOK(c), NEW tx, tx = SubmitRoute(op, req, leg, c)
    PROVE  Carries(op, req, leg, tx)
  <1>1. CASE op \in AddRuleOps \cup AddItemOps \cup SessionOps
    <2>1. PICK signed : tx = Tx(signed, Ix(req.nonce, 0, req.p))
      <3>1. CASE op \in AddRuleOps
        BY <3>1, AddRuleRoutes, ZenonT(40)
      <3>2. CASE op \in AddItemOps
        BY <3>2, AddItemRoutes, ZenonT(40)
      <3>3. CASE op \in SessionOps
        BY <3>3, SessionRoutes, ZenonT(40)
      <3> QED
        BY <1>1, <3>1, <3>2, <3>3
    <2>2. tx.ix.nonce = req.nonce /\ tx.ix.p = req.p
      BY <2>1, TxFields
    <2> QED
      BY <1>1, <2>2 DEF Carries, IxNonce, IxPayload, AddRuleOps, AddItemOps, SessionOps
  <1>2. CASE op = "init"
    <2>1. PICK signed : tx = Tx(signed, Ix(0, 0, req.p))
      BY <1>2, RuleRoutes, ZenonT(40)
    <2>2. tx.ix.nonce = 0 /\ tx.ix.p = req.p
      BY <2>1, TxFields
    <2> QED
      BY <1>2, <2>2 DEF Carries, IxNonce, IxPayload
  <1>3. CASE op \in {"remove-rule", "session-open"}
    <2>1. PICK signed : tx = Tx(signed, Ix(req.nonce, 0, req.p))
      BY <1>3, RuleRoutes, ZenonT(40)
    <2>2. tx.ix.nonce = req.nonce /\ tx.ix.p = req.p
      BY <2>1, TxFields
    <2> QED
      BY <1>3, <2>2 DEF Carries, IxNonce, IxPayload
  <1>4. CASE op \in {"primary-recover", "quorum-session-open", "passkey-session-open",
           "passkey-primary-use"}
    <2>1. PICK signed, gen : tx = Tx(signed, Ix(req.nonce, gen, req.p))
      BY <1>4, RecoveryRoutes, ZenonT(40)
    <2>2. tx.ix.nonce = req.nonce /\ tx.ix.p = req.p
      BY <2>1, TxFields
    <2> QED
      BY <1>4, <2>2 DEF Carries, IxNonce, IxPayload
  <1>5. CASE op = "quorum-contribute"
    <2>1. PICK signed : tx = Tx(signed, Ix(req.nonce, 0, 0))
      BY <1>5, RecoveryRoutes, ZenonT(40)
    <2>2. tx.ix.nonce = req.nonce /\ tx.ix.p = 0
      BY <2>1, TxFields
    <2> QED
      BY <1>5, <2>2 DEF Carries, IxNonce, IxPayload
  <1>6. CASE op \in {"normal-sign", "swap-sign"}
    <2>1. PICK signed, gen : tx = Tx(signed, assembleRequestSignatureIx(gen, req.p, c))
      BY <1>6, SignatureRoutes, ZenonT(40)
    <2>2. tx.ix.nonce = 0 /\ tx.ix.p = req.p
      BY <2>1, SignedIx
    <2> QED
      BY <1>6, <2>2 DEF Carries, IxNonce, IxPayload
  <1>7. CASE op = "bundle-sign"
    <2>1. PICK q : q = IF leg = 0 THEN req.p + 4 ELSE req.p
      OBVIOUS
    <2>2. tx = bundleLeg(req, leg, c)
      BY <1>7, SignatureRoutes, ZenonT(40)
    <2>3. tx = Tx(BundlePayload(req.p), assembleRequestSignatureIx(0, q, c))
      BY <1>7, <2>1, <2>2, BundleBuilt, ZenonT(40)
    <2>4. tx.ix.nonce = 0 /\ tx.ix.p = q
      BY <2>3, SignedIx
    <2> QED
      BY <1>7, <2>1, <2>4 DEF Carries, IxNonce, IxPayload
  <1> QED
    BY <1>1, <1>2, <1>3, <1>4, <1>5, <1>6, <1>7, Families, Zenon

(* An instruction is made of numbers. *)
LEMMA SubmitTypes ==
    ASSUME NEW op \in AllOps, NEW req, req.nonce \in Nat, req.p \in Nat,
           NEW leg, op = "bundle-sign" => leg \in 0..1,
           NEW c, EngineOK(c), NEW tx, tx = SubmitRoute(op, req, leg, c)
    PROVE  IxOK(tx.ix)
  <1>1. CASE op \in Unsigned
    <2>0. \E nonce \in {0, req.nonce}, gen \in {0, req.gen} :
             SubmitRoute(op, req, leg, c) = Tx(Nothing, Ix(nonce, gen, req.p))
      BY <1>1, UnsignedSubmits
    <2>1. PICK nonce \in {0, req.nonce}, gen \in {0, req.gen} : tx =
             Tx(Nothing, Ix(nonce, gen, req.p))
      BY <2>0
    <2>2. tx.ix.nonce = nonce /\ tx.ix.p = req.p
      BY <2>1, TxFields
    <2> QED
      BY <2>1, <2>2 DEF IxOK
  <1>2. CASE op \notin Unsigned
    BY <1>2, SubmitCarries DEF Carries, IxNonce, IxPayload, IxOK
  <1> QED
    BY <1>1, <1>2

(* What a precompile checks is the preimage it was given. *)
LEMMA Signs ==
    ASSUME NEW pre, NEW ix, NEW tx, tx = Tx(pre, ix), NEW shown, tx.signed = shown
    PROVE  pre = shown
  BY DEF Tx

(* The preimage names the payload, except where there is none. *)
LEMMA SignedNamesPayload ==
    ASSUME NEW op \in AllOps \ (Unsigned \cup {"session-revoke"}), NEW req, NEW given,
           req.p \in Nat, given.p \in Nat, NEW leg, op = "bundle-sign" => leg \in 0..1, NEW c,
           NEW tx, tx = SubmitRoute(op, given, leg, c), tx.signed = ChallengeRoute(op, req)
    PROVE  given.p = req.p
  <1>1. CASE op \in AddRuleOps
    <2>1. PICK ix : tx = Tx(AddRuleInput(op, AddOps[op], given, 1), ix)
      BY <1>1, AddRuleRoutes, ZenonT(40)
    <2>2. tx.signed = AddRuleInput(op, AddOps[op], req, addGen(req))
      BY <1>1, AddRuleRoutes, ZenonT(40)
    <2>3. AddRuleInput(op, AddOps[op], given, 1) = AddRuleInput(op, AddOps[op], req, addGen(req))
      BY <2>1, <2>2, Signs, ZenonT(40)
    <2> QED
      BY <2>3 DEF AddRuleInput, Admin
  <1>2. CASE op \in AddItemOps
    <2>1. PICK ix : tx = Tx(ItemInput(op, ItemOps[op], given), ix)
      BY <1>2, AddItemRoutes, ZenonT(40)
    <2>2. tx.signed = ItemInput(op, ItemOps[op], req)
      BY <1>2, AddItemRoutes, ZenonT(40)
    <2>3. ItemInput(op, ItemOps[op], given) = ItemInput(op, ItemOps[op], req)
      BY <2>1, <2>2, Signs, ZenonT(40)
    <2> QED
      BY <2>3 DEF ItemInput, Admin
  <1>3. CASE op \in SessionOps
    <2>1. PICK ix : tx = Tx(buildSessionAdminChallenge(op, given, FALSE, ExtrasOf(op, given.p)), ix)
      BY <1>3, SessionRoutes, ZenonT(40)
    <2>2. tx.signed = buildSessionAdminChallenge(op, req, FALSE, ExtrasOf(op, req.p))
      BY <1>3, SessionRoutes, ZenonT(40)
    <2>3. buildSessionAdminChallenge(op, given, FALSE, ExtrasOf(op, given.p)) =
             buildSessionAdminChallenge(op, req, FALSE, ExtrasOf(op, req.p))
      BY <2>1, <2>2, Signs, ZenonT(40)
    <2>4. <<op, <<KindSessionKey, 0, given.nonce, Zero32, ExtrasOf(op, given.p)>>>>
             = <<op, <<KindSessionKey, 0, req.nonce, Zero32, ExtrasOf(op, req.p)>>>>
      BY <2>3, Zenon DEF buildSessionAdminChallenge, Admin
    <2> QED
      BY <2>4 DEF ExtrasOf
  <1>4. CASE op = "init"
    <2>1. PICK ix : tx = Tx(<<"init", <<0, given.p>>>>, ix)
      BY <1>4, RuleRoutes, ZenonT(40)
    <2>2. tx.signed = <<"init", <<0, req.p>>>>
      BY <1>4, RuleRoutes, ZenonT(40)
    <2>3. <<"init", <<0, given.p>>>> = <<"init", <<0, req.p>>>>
      BY <2>1, <2>2, Signs, ZenonT(40)
    <2> QED
      BY <2>3
  <1>5. CASE op = "remove-rule"
    <2>1. PICK ix : tx = Tx(buildRemoveRuleChallenge(given), ix)
      BY <1>5, RuleRoutes, ZenonT(40)
    <2>2. tx.signed = buildRemoveRuleChallenge(req)
      BY <1>5, RuleRoutes, ZenonT(40)
    <2>3. buildRemoveRuleChallenge(given) = buildRemoveRuleChallenge(req)
      BY <2>1, <2>2, Signs, ZenonT(40)
    <2> QED
      BY <2>3 DEF buildRemoveRuleChallenge, Admin
  <1>6. CASE op = "session-open"
    <2>1. PICK ix : tx =
             Tx(buildSessionAdminChallenge("session-open", given, TRUE, <<given.p>>), ix)
      BY <1>6, RuleRoutes, ZenonT(40)
    <2>2. tx.signed = buildSessionAdminChallenge("session-open", req, TRUE, <<req.p>>)
      BY <1>6, RuleRoutes, ZenonT(40)
    <2>3. buildSessionAdminChallenge("session-open", given, TRUE, <<given.p>>) =
             buildSessionAdminChallenge("session-open", req, TRUE, <<req.p>>)
      BY <2>1, <2>2, Signs, ZenonT(40)
    <2>4. <<"session-open", <<KindSessionKey, given.gen, given.nonce, given.cfg, <<given.p>>>>>>
             = <<"session-open", <<KindSessionKey, req.gen, req.nonce, req.cfg, <<req.p>>>>>>
      BY <2>3, Zenon DEF buildSessionAdminChallenge, Admin
    <2> QED
      BY <2>4
  <1>7. CASE op \in {"primary-recover", "quorum-session-open", "passkey-session-open"}
    <2>1. PICK ix : tx = Tx(<<op, <<given.p, given.nonce>>>>, ix)
      BY <1>7, RecoveryRoutes, ZenonT(40)
    <2>2. tx.signed = <<op, <<req.p, req.nonce>>>>
      BY <1>7, RecoveryRoutes, ZenonT(40)
    <2>3. <<op, <<given.p, given.nonce>>>> = <<op, <<req.p, req.nonce>>>>
      BY <2>1, <2>2 DEF Tx
    <2> QED
      BY <2>3
  <1>8. CASE op = "quorum-contribute"
    <2>1. PICK ix : tx = Tx(<<op, <<given.nonce, given.p>>>>, ix)
      BY <1>8, RecoveryRoutes, ZenonT(40)
    <2>2. tx.signed = <<op, <<req.nonce, req.p>>>>
      BY <1>8, RecoveryRoutes, ZenonT(40)
    <2>3. <<op, <<given.nonce, given.p>>>> = <<op, <<req.nonce, req.p>>>>
      BY <2>1, <2>2 DEF Tx
    <2> QED
      BY <2>3
  <1>9. CASE op = "passkey-primary-use"
    <2>1. PICK ix : tx = Tx(<<op, <<given.gen, given.p, given.nonce>>>>, ix)
      BY <1>9, RecoveryRoutes, ZenonT(40)
    <2>2. tx.signed = <<op, <<req.gen, req.p, req.nonce>>>>
      BY <1>9, RecoveryRoutes, ZenonT(40)
    <2>3. <<op, <<given.gen, given.p, given.nonce>>>> = <<op, <<req.gen, req.p, req.nonce>>>>
      BY <2>1, <2>2 DEF Tx
    <2> QED
      BY <2>3
  <1>10. CASE op = "normal-sign"
    <2>1. PICK ix : tx = Tx(<<op, <<<<given.gen, given.p>>>>>>, ix)
      BY <1>10, SignatureRoutes, ZenonT(40)
    <2>2. tx.signed = <<op, <<<<req.gen, req.p>>>>>>
      BY <1>10, SignatureRoutes, ZenonT(40)
    <2>3. <<op, <<<<given.gen, given.p>>>>>> = <<op, <<<<req.gen, req.p>>>>>>
      BY <2>1, <2>2 DEF Tx
    <2> QED
      BY <2>3
  <1>11. CASE op = "swap-sign"
    <2>1. PICK ix : tx = Tx(<<op, <<<<0, given.p>>>>>>, ix)
      BY <1>11, SignatureRoutes, ZenonT(40)
    <2>2. tx.signed = <<op, <<<<0, req.p>>>>>>
      BY <1>11, SignatureRoutes, ZenonT(40)
    <2>3. <<op, <<<<0, given.p>>>>>> = <<op, <<<<0, req.p>>>>>>
      BY <2>1, <2>2 DEF Tx
    <2> QED
      BY <2>3
  <1>12. CASE op = "bundle-sign"
    <2>1. tx = bundleLeg(given, leg, c) /\ tx.signed = BundlePayload(req.p)
      BY <1>12, SignatureRoutes, ZenonT(40)
    <2>2. PICK ix : tx = Tx(BundlePayload(given.p), ix)
      BY <1>12, <2>1, BundleBuilt, ZenonT(40)
    <2>3. BundlePayload(given.p) = BundlePayload(req.p)
      BY <2>1, <2>2, Signs, ZenonT(40)
    <2> QED
      BY <2>3 DEF BundlePayload
  <1> QED
    BY <1>1, <1>2, <1>3, <1>4, <1>5, <1>6, <1>7, <1>8, <1>9, <1>10, <1>11, <1>12, Families, Zenon

(* What is spent stays spent. *)
LEMMA SpentStays ==
    ASSUME NEW c, EngineOK(c), NEW d, EngineOK(d), EngineGrows(c, d), NEW op \in AllOps,
           NEW n \in Nat, NEW p, NEW life \in Nat, Spent(op, n, p, life, c)
    PROVE  Spent(op, n, p, life, d)
  <1>1. /\ c.adminNonce \in Nat /\ d.adminNonce \in Nat /\ c.sessionNonce \in Nat
             /\ d.sessionNonce \in Nat
        /\ c.quorumNonce \in Nat /\ d.quorumNonce \in Nat /\ c.passkeyNonce \in Nat
             /\ d.passkeyNonce \in Nat
        /\ c.life \in Nat /\ d.life \in Nat
    BY DEF EngineOK, Counters
  <1>2. CASE op \in AdminOps
    BY <1>1, <1>2, SpentFor DEF EngineGrows
  <1>3. CASE op \in SessionOps
    BY <1>1, <1>3, SpentFor DEF EngineGrows
  <1>4. CASE op \in MessageOps
    BY <1>4, SpentFor DEF EngineGrows
  <1>5. CASE op = "init"
    BY <1>5, SpentFor, Zenon DEF EngineGrows
  <1>6. CASE op = "quorum-session-open"
    BY <1>1, <1>6, SpentFor DEF EngineGrows
  <1>7. CASE op = "quorum-contribute"
    BY <1>1, <1>7, SpentFor DEF EngineGrows
  <1>8. CASE op = "passkey-session-open"
    BY <1>1, <1>8, SpentFor DEF EngineGrows
  <1>9. CASE op \in Unsigned
    BY <1>9, SpentFor, Zenon
  <1> QED
    BY <1>2, <1>3, <1>4, <1>5, <1>6, <1>7, <1>8, <1>9, Families, Zenon DEF AdminOps, MessageOps

----------------------------------------------------------------------------
(* The policy endpoints: the invariant. *)

(* What a client holds: what it read, and a preimage that was shown for it; *)
(* while the engine has not moved it is what the client would read again.   *)
ReqFields == {"nonce", "gen", "cfg", "p"}

ClientAt(k) ==
    /\ client[k].pc \in {"idle", "signed"}
    /\ client[k].pc = "signed" =>
          /\ DOMAIN client[k] = {"pc", "op", "req", "at", "shown", "sends"}
          /\ client[k].op \in AllOps /\ client[k].at \in Nat /\ client[k].at <= moves
               /\ client[k].sends \in Nat
          /\ DOMAIN client[k].req = ReqFields /\ client[k].req.p \in Nat
               /\ client[k].req.nonce \in Nat
          /\ client[k].shown = ChallengeRoute(client[k].op, client[k].req)
          /\ client[k].at = moves =>
                client[k].req = readPolicy(client[k].op, chain, client[k].req.p)

ClientsOK == DOMAIN client = Client /\ \A k \in Client : ClientAt(k)

(* The submit with this number was made by a client. *)
Made(id) == id[1] \in Client /\ client[id[1]].pc = "signed"
               /\ id[3] \in Nat /\ id[3] < client[id[1]].sends

(* A transaction is a submit of what its client signed: the preimage that   *)
(* was shown, the nonce that was read, and, wherever the preimage names it, *)
(* the payload that was asked for.                                          *)
TxOK(t) ==
    LET cl == client[t.id[1]] IN
    /\ Made(t.id) /\ t.op = cl.op /\ t.shown = cl.shown /\ t.asked = cl.req.p
    /\ t.op = "bundle-sign" => t.leg \in 0..1
    /\ IxOK(t.tx.ix)
    /\ t.op \notin Unsigned => /\ t.tx.ix.nonce = IxNonce(t.op, cl.req)
                               /\ t.tx.ix.p = IxPayload(t.op, t.body, t.leg)
    /\ t.op \notin Unsigned \cup {"session-revoke"} => t.body = t.asked

(* What a landed transaction was bound to is spent. *)
SpentBy(x) == Spent(x.t.op, x.t.tx.ix.nonce, x.t.tx.ix.p, x.life, chain)

(* Nothing was both reported as refused and sent, and everything that       *)
(* landed has spent what it was bound to.                                   *)
ApiInv ==
    /\ EngineOK(chain) /\ moves \in Nat /\ ClientsOK
    /\ \A i \in told : Made(i)
    /\ \A t \in inflight : TxOK(t) /\ t.id \notin told
    /\ \A x \in landed : TxOK(x.t) /\ x.t.id \notin told /\ x.life \in Nat /\ SpentBy(x)
    /\ SignedOnce

(* What nobody signs agrees with anything. *)
LEMMA UnsignedAgrees ==
    ASSUME NEW op \in Unsigned, NEW req, NEW leg, NEW ix, NEW c
    PROVE  /\ SubmitRoute(op, req, leg, c).signed = ChallengeRoute(op, req)
           /\ process_instruction(op, leg, ix, c).challenge = ChallengeRoute(op, req)
  <1>1. ChallengeRoute(op, req) = Nothing
    BY UnsignedSubmits, Zenon
  <1>2. SubmitRoute(op, req, leg, c).signed = Nothing
    <2>1. PICK tx : tx = SubmitRoute(op, req, leg, c)
      OBVIOUS
    <2>2. \E i : tx = Tx(Nothing, i)
      BY <2>1, UnsignedSubmits
    <2> QED
      BY <2>1, <2>2 DEF Tx
  <1>3. process_instruction(op, leg, ix, c).challenge = Nothing
    <2>1. PICK v : v = process_instruction(op, leg, ix, c)
      OBVIOUS
    <2>2. CASE op = "close-expired-session"
      <3>1. v = close_expired_session(ix, c)
        BY <2>1, <2>2, UnsignedRoutes, Zenon
      <3> QED
        BY <2>1, <3>1 DEF close_expired_session, Verdict
    <2>3. CASE op = "session-use"
      <3>1. v = request_signature_via_session(ix, c)
        BY <2>1, <2>3, UnsignedRoutes, Zenon
      <3> QED
        BY <2>1, <3>1 DEF request_signature_via_session, Verdict
    <2>4. CASE op = "quorum-finalize"
      <3>1. v = quorum_session_finalize(ix, c)
        BY <2>1, <2>4, UnsignedRoutes, Zenon
      <3> QED
        BY <2>1, <3>1 DEF quorum_session_finalize, Verdict
    <2>5. CASE op = "quorum-close"
      <3>1. v = quorum_session_close(ix, c)
        BY <2>1, <2>5, UnsignedRoutes, Zenon
      <3> QED
        BY <2>1, <3>1 DEF quorum_session_close, Verdict
    <2>6. CASE op = "passkey-close"
      <3>1. v = passkey_session_close(ix, c)
        BY <2>1, <2>6, UnsignedRoutes, Zenon
      <3> QED
        BY <2>1, <3>1 DEF passkey_session_close, Verdict
    <2> QED
      BY <2>2, <2>3, <2>4, <2>5, <2>6 DEF Unsigned
  <1> QED
    BY <1>1, <1>2, <1>3

(* Every endpoint agrees with what it shows. *)
LEMMA InvAgrees == ApiInv => RoundTripAgrees
  <1> SUFFICES ASSUME ApiInv, NEW k \in Client, client[k].pc = "signed", client[k].at = moves,
                      client[k].op \in SwapOps => chain.rulesGen = 0,
                      client[k].op = "quorum-contribute" => client[k].req.p = chain.quorum.p,
                      NEW leg \in IF client[k].op = "bundle-sign" THEN 0..1 ELSE {0},
                      NEW tx, tx = SubmitRoute(client[k].op, client[k].req, leg, chain),
                      NEW v, v = process_instruction(client[k].op, leg, tx.ix, chain)
               PROVE  /\ v.ok => tx.signed = client[k].shown /\ v.challenge = client[k].shown
                      /\ client[k].op = "normal-sign" /\ chain.exists
                            /\ client[k].req.p \notin chain.approved => v.ok
    BY DEF RoundTripAgrees
  <1>1. ClientAt(k) /\ EngineOK(chain)
    BY DEF ApiInv, ClientsOK
  <1>2. PICK op \in AllOps : op = client[k].op
    BY <1>1 DEF ClientAt
  <1>7. PICK req : req = client[k].req
    OBVIOUS
  <1>3. PICK p \in Nat : p = req.p
    BY <1>1, <1>2, <1>7 DEF ClientAt
  <1>4. req = readPolicy(op, chain, p) /\ client[k].shown = ChallengeRoute(op, req)
    BY <1>1, <1>2, <1>7, <1>3 DEF ClientAt
  <1>5. CASE op \in Unsigned
    <2>1. tx.signed = ChallengeRoute(op, req) /\ v.challenge = ChallengeRoute(op, req)
      BY <1>2, <1>7, <1>5, UnsignedAgrees
    <2>2. op # "normal-sign"
      BY <1>5 DEF Unsigned
    <2> QED
      BY <1>2, <1>7, <1>4, <2>1, <2>2
  <1>6. CASE op \notin Unsigned
    <2>1. op = "bundle-sign" => leg \in 0..1
      BY <1>2
    <2>2. Agrees(op, leg, chain, p)
      BY <1>1, <1>2, <1>7, <1>3, <1>6, <2>1, RoundTrip, Zenon
    <2> QED
      BY <1>2, <1>7, <1>3, <1>4, <2>2 DEF Agrees
  <1> QED
    BY <1>5, <1>6

(* The invariant holds what EffectAsSigned says. *)
LEMMA InvEffect == ApiInv => EffectAsSigned
  <1>1. ASSUME ApiInv PROVE LandedAsSigned
    BY <1>1 DEF ApiInv, LandedAsSigned, TxOK
  <1>2. ASSUME ApiInv PROVE PreflightNeverLands
    BY <1>2 DEF ApiInv, PreflightNeverLands
  <1> QED
    BY <1>1, <1>2 DEF ApiInv, EffectAsSigned

(* Before anything is asked. *)
LEMMA ApiInitially == ApiInit => ApiInv
  <1> SUFFICES ASSUME ApiInit PROVE ApiInv
    OBVIOUS
  <1>1. EngineOK(NoEngine) /\ EngineOK(BareEngine)
    BY DEF EngineOK, Counters, NoEngine, BareEngine, Kinds, KindAllowlist, KindOracle,
       KindSessionKey, KindSpendingUsd
  <1>2. EngineOK(FullEngine)
    <2>1. PICK b : b = BareEngine
      OBVIOUS
    <2>2. EngineOK(b)
      BY <1>1, <2>1
    <2>3. PICK r : r = [k \in Kinds |-> 1]
      OBVIOUS
    <2>4. PICK q : q = [b.quorum EXCEPT !.p = 1]
      OBVIOUS
    <2>5. r \in [Kinds -> Nat] /\ DOMAIN q = {"p", "votes"} /\ q.p \in Nat
      BY <2>2, <2>3, <2>4 DEF EngineOK
    <2>6. PICK d : d = FullEngine
      OBVIOUS
    <2>7. d = [b EXCEPT !.adminNonce = 5, !.rulesGen = 4, !.rule = r, !.session =
             1, !.quorumNonce = 1,
                        !.quorum = q, !.passkeyNonce = 1, !.passkeyOpen = TRUE]
      BY <2>1, <2>2, <2>3, <2>4, <2>6 DEF FullEngine, EngineOK, Counters
    <2>8. EngineOK(d)
      BY <2>2, <2>5, <2>7 DEF EngineOK, Counters
    <2> QED
      BY <2>6, <2>8
  <1>3. ClientsOK
    BY DEF ApiInit, ClientsOK, ClientAt
  <1> QED
    BY <1>1, <1>2, <1>3 DEF ApiInit, ApiInv, SignedOnce

(* What was signed does not change, and a client only counts its submits up. *)
ClientsKeep ==
    \A j \in Client :
       client[j].pc = "signed" =>
          /\ client'[j].pc = "signed" /\ client'[j].op = client[j].op
          /\ client'[j].shown = client[j].shown /\ client'[j].req = client[j].req
          /\ client'[j].sends \in Nat /\ client[j].sends <= client'[j].sends

(* A submit stays one that was made. *)
LEMMA MadeKept ==
    ASSUME ClientsOK, ClientsKeep, NEW id, Made(id)
    PROVE  Made(id)'
  <1>1. PICK j \in Client : j = id[1]
    BY DEF Made
  <1>2. client[j].sends \in Nat /\ client[j].pc = "signed"
    BY <1>1 DEF Made, ClientsOK, ClientAt
  <1> QED
    BY <1>1, <1>2 DEF Made, ClientsKeep

(* A transaction stays true to its client. *)
LEMMA TxKept ==
    ASSUME ClientsOK, ClientsKeep, NEW t, TxOK(t)
    PROVE  TxOK(t)'
  <1>1. PICK j \in Client : j = t.id[1]
    BY DEF TxOK, Made
  <1>2. Made(t.id)'
    BY MadeKept DEF TxOK
  <1>3. /\ client[j].pc = "signed" /\ client'[j].op = client[j].op
        /\ client'[j].shown = client[j].shown /\ client'[j].req = client[j].req
    BY <1>1 DEF TxOK, Made, ClientsKeep
  <1> QED
    BY <1>1, <1>2, <1>3 DEF TxOK

(* A client reads a number. *)
LEMMA NonceRead ==
    ASSUME NEW op, NEW c, EngineOK(c)
    PROVE  NonceFor(op, c) \in Nat
  <1>1. NonceFor(op, c) \in {c.sessionNonce, c.sessionUses, c.recoverNonce, c.quorumNonce,
           c.passkeyNonce,
                             c.passkeyUses, c.adminNonce, IF c.quorumNonce =
                                0 THEN 0 ELSE c.quorumNonce - 1}
    BY Zenon DEF NonceFor
  <1> QED
    BY <1>1 DEF EngineOK, Counters

(* A challenge: the client is new to signing, so nothing in flight is its. *)
LEMMA ChallengeKeeps ==
    ASSUME ApiInv, NEW k \in Client, NEW op \in Endpoints[k],
           NEW p \in Payload, GetChallenge(k, op, p)
    PROVE  ApiInv'
  <1>1. op \in AllOps /\ p \in Nat
    BY ApiAssumption
  <1>2. ClientsOK /\ EngineOK(chain) /\ moves \in Nat
    BY DEF ApiInv
  <1>3. PICK req : req = readPolicy(op, chain, p)
    OBVIOUS
  <1>4. DOMAIN req = ReqFields /\ req.p = p /\ req.nonce \in Nat
    BY <1>2, <1>3, NonceRead DEF readPolicy, ReqFields
  <1>5. PICK shown : shown = ChallengeRoute(op, req)
    OBVIOUS
  <1>6. PICK signed : signed =
           [pc |-> "signed", op |-> op, req |-> req, at |-> moves, shown |-> shown, sends |-> 0]
    OBVIOUS
  <1>7. client' = [client EXCEPT ![k] = signed] /\ client[k].pc = "idle"
    BY <1>3, <1>5, <1>6, Zenon DEF GetChallenge
  <1>8. chain' = chain /\ moves' = moves /\ inflight' = inflight /\ landed' = landed /\ told' = told
    BY DEF GetChallenge
  <1>9. client'[k] = signed /\ \A j \in Client \ {k} : client'[j] = client[j]
    BY <1>2, <1>7 DEF ClientsOK
  <1>10. ClientsKeep
    BY <1>2, <1>7, <1>9 DEF ClientsKeep, ClientsOK, ClientAt
  <1>11. ClientsOK'
    <2>1. DOMAIN client' = Client
      BY <1>2, <1>7 DEF ClientsOK
    <2>2. ClientAt(k)'
      <3>1. signed.req = readPolicy(signed.op, chain, signed.req.p)
            /\ signed.shown = ChallengeRoute(signed.op, signed.req)
        BY <1>3, <1>4, <1>5, <1>6
      <3> QED
        BY <1>1, <1>2, <1>4, <1>6, <1>8, <1>9, <3>1 DEF ClientAt
    <2>3. ASSUME NEW j \in Client, j # k PROVE ClientAt(j)'
      BY <1>2, <1>8, <1>9, <2>3 DEF ClientsOK, ClientAt
    <2> QED
      BY <2>1, <2>2, <2>3 DEF ClientsOK
  <1>12. \A i \in told' : Made(i)'
    BY <1>2, <1>8, <1>10, MadeKept DEF ApiInv
  <1>13. \A t \in inflight' : TxOK(t)' /\ t.id \notin told'
    BY <1>2, <1>8, <1>10, TxKept DEF ApiInv
  <1>14. \A x \in landed' : TxOK(x.t)' /\ x.t.id \notin told' /\ x.life \in Nat /\ SpentBy(x)'
    BY <1>2, <1>8, <1>10, TxKept DEF ApiInv, SpentBy
  <1>15. SignedOnce'
    BY <1>8 DEF ApiInv, SignedOnce
  <1> QED
    BY <1>2, <1>8, <1>11, <1>12, <1>13, <1>14, <1>15 DEF ApiInv

(* A submit: its number is new, and a node only takes what executes, so the *)
(* payload is the one that was shown.                                      *)
LEMMA SubmitKeeps ==
    ASSUME ApiInv, NEW k \in Client, NEW leg \in 0..1, NEW p \in Payload, Submit(k, leg, p)
    PROVE  ApiInv'
  <1>1. p \in Nat
    BY ApiAssumption
  <1>2. ClientsOK /\ EngineOK(chain) /\ moves \in Nat
    BY DEF ApiInv
  <1>3. PICK cl : cl = client[k]
    OBVIOUS
  <1>26. cl.pc = "signed"
    BY <1>3, Zenon DEF Submit
  <1>4. PICK op \in AllOps, n \in Nat : op = cl.op /\ n = cl.sends
    BY <1>26, <1>2, <1>3 DEF ClientsOK, ClientAt
  <1>25. PICK req, shown : req = cl.req /\ shown = cl.shown
    OBVIOUS
  <1>5. /\ cl.pc = "signed" /\ DOMAIN cl = {"pc", "op", "req", "at", "shown", "sends"}
        /\ DOMAIN req = ReqFields /\ req.p \in Nat /\ req.nonce \in Nat
             /\ shown = ChallengeRoute(op, req)
    BY <1>26, <1>2, <1>3, <1>4, <1>25 DEF ClientsOK, ClientAt
  <1>6. PICK given : given = [req EXCEPT !.p = p]
    OBVIOUS
  <1>7. given.p = p /\ given.nonce = req.nonce
    BY <1>5, <1>6 DEF ReqFields
  <1>8. PICK tx : tx = SubmitRoute(op, given, leg, chain)
    OBVIOUS
  <1>9. PICK t : t = [id |-> <<k, leg, n>>, op |-> op, leg |-> leg, at |-> cl.at, shown |-> shown,
                      asked |-> req.p, body |-> p, tx |-> tx]
    OBVIOUS
  <1>10. /\ client' = [client EXCEPT ![k].sends = @ + 1] /\ (leg = 1 => op = "bundle-sign")
              /\ SignAndSend(t)
         /\ chain' = chain /\ moves' = moves /\ landed' = landed
    BY <1>3, <1>4, <1>25, <1>6, <1>8, <1>9, Zenon DEF Submit
  <1>11. /\ DOMAIN client' = Client /\ \A j \in Client \ {k} : client'[j] = client[j]
         /\ client'[k] = [cl EXCEPT !.sends = n + 1]
    BY <1>2, <1>3, <1>4, <1>25, <1>10 DEF ClientsOK
  <1>12. /\ DOMAIN client'[k] = {"pc", "op", "req", "at", "shown", "sends"}
              /\ client'[k].pc = "signed"
         /\ client'[k].op = op /\ client'[k].req = req /\ client'[k].at = cl.at
              /\ client'[k].shown = shown
         /\ client'[k].sends = n + 1
    BY <1>4, <1>25, <1>5, <1>11
  <1>13. ClientsKeep
    BY <1>2, <1>3, <1>4, <1>25, <1>11, <1>12 DEF ClientsKeep, ClientsOK, ClientAt
  <1>14. ClientsOK'
    <2>1. ClientAt(k)'
      BY <1>2, <1>3, <1>4, <1>25, <1>5, <1>10, <1>12 DEF ClientsOK, ClientAt
    <2>2. ASSUME NEW j \in Client, j # k PROVE ClientAt(j)'
      BY <1>2, <1>10, <1>11, <2>2 DEF ClientsOK, ClientAt
    <2> QED
      BY <1>11, <2>1, <2>2 DEF ClientsOK
  <1>15. t.id = <<k, leg, n>> /\ t.op = op /\ t.leg = leg /\ t.shown = shown /\ t.asked = req.p
         /\ t.body = p /\ t.tx = tx
    BY <1>9
  <1>16. ~Made(t.id) /\ Made(t.id)'
    <2>1. t.id[1] = k /\ t.id[3] = n
      BY <1>15
    <2> QED
      BY <1>3, <1>4, <1>25, <1>12, <2>1 DEF Made
  <1>17. op = "bundle-sign" => leg \in 0..1
    OBVIOUS
  <1>18. ASSUME Executes(t, chain) PROVE TxOK(t)'
    <2>1. IxOK(tx.ix)
      BY <1>1, <1>2, <1>5, <1>7, <1>8, <1>17, SubmitTypes
    <2>2. op \notin Unsigned => tx.ix.nonce = IxNonce(op, req) /\ tx.ix.p = IxPayload(op, p, leg)
      <3> SUFFICES ASSUME op \notin Unsigned PROVE tx.ix.nonce = IxNonce(op, req)
      /\ tx.ix.p = IxPayload(op, p, leg)
        OBVIOUS
      <3>1. Carries(op, given, leg, tx)
        BY <1>2, <1>8, <1>17, SubmitCarries
      <3> QED
        BY <1>7, <3>1 DEF Carries, IxNonce
    <2>3. tx.signed = shown
      BY <1>15, <1>18, Zenon DEF Executes
    <2>4. op \notin Unsigned \cup {"session-revoke"} => p = req.p
      BY <1>1, <1>5, <1>7, <1>8, <1>17, <2>3, SignedNamesPayload
    <2>5. t.id[1] = k
      BY <1>15
    <2> QED
      BY <1>12, <1>15, <1>16, <1>17, <2>1, <2>2, <2>4, <2>5 DEF TxOK
  <1>19. \/ told' = told \cup {t.id} /\ inflight' = inflight
         \/ told' = told /\ inflight' = inflight
         \/ told' = told /\ inflight' = inflight \cup {t} /\ Executes(t, chain)
    <2>1. PICK outcome \in {"rejected", "transport", "ok"} :
             /\ told' = IF classifySendError(outcome) = "preflight" THEN told \cup {t.id} ELSE told
             /\ inflight' = IF outcome # "rejected"
                  /\ Executes(t, chain) THEN inflight \cup {t} ELSE inflight
      BY <1>10, Zenon DEF SignAndSend
    <2>2. outcome # "rejected" => classifySendError(outcome) \in {"unknown", "sent"}
      BY Zenon DEF classifySendError
    <2> QED
      BY <2>1, <2>2
  <1>20. \A i \in told' : Made(i)'
    BY <1>2, <1>13, <1>16, <1>19, MadeKept DEF ApiInv
  <1>21. \A u \in inflight' : TxOK(u)'
    BY <1>2, <1>13, <1>18, <1>19, TxKept DEF ApiInv
  <1>22. \A u \in inflight' : u.id \notin told'
    BY <1>16, <1>19 DEF ApiInv, TxOK
  <1>23. \A x \in landed' : TxOK(x.t)' /\ x.t.id \notin told' /\ x.life \in Nat /\ SpentBy(x)'
    <2> SUFFICES ASSUME NEW x \in landed
                 PROVE  TxOK(x.t)' /\ x.t.id \notin told' /\ x.life \in Nat /\ SpentBy(x)'
      BY <1>10
    <2>1. TxOK(x.t) /\ x.t.id \notin told /\ x.life \in Nat /\ SpentBy(x)
      BY DEF ApiInv
    <2>2. x.t.id \notin told'
      BY <1>16, <1>19, <2>1 DEF TxOK
    <2>3. SpentBy(x)'
      BY <1>10, <2>1 DEF SpentBy
    <2> QED
      BY <1>2, <1>13, <2>1, <2>2, <2>3, TxKept
  <1>24. SignedOnce'
    BY <1>10 DEF ApiInv, SignedOnce
  <1> QED
    BY <1>2, <1>10, <1>14, <1>20, <1>21, <1>22, <1>23, <1>24 DEF ApiInv

(* A transaction lands: what it is bound to was not spent and now is, so no *)
(* other of the same signature has landed.                                  *)
LEMMA LandKeeps ==
    ASSUME ApiInv, NEW t \in inflight, Land(t)
    PROVE  ApiInv'
  <1>1. ClientsOK /\ EngineOK(chain) /\ moves \in Nat /\ TxOK(t) /\ t.id \notin told
    BY DEF ApiInv
  <1>2. inflight' = inflight \ {t} /\ client' = client /\ told' = told
    BY DEF Land
  <1>3. ClientsKeep
    BY <1>1, <1>2 DEF ClientsKeep, ClientsOK, ClientAt
  <1>4. \A i \in told' : Made(i)'
    BY <1>1, <1>2, <1>3, MadeKept DEF ApiInv
  <1>5. \A u \in inflight' : TxOK(u)' /\ u.id \notin told'
    BY <1>1, <1>2, <1>3, TxKept DEF ApiInv
  <1>6. CASE ~Executes(t, chain)
    <2>1. chain' = chain /\ moves' = moves /\ landed' = landed
      BY <1>6, Zenon DEF Land
    <2>2. ClientsOK'
      BY <1>1, <1>2, <2>1 DEF ClientsOK, ClientAt
    <2>3. \A x \in landed' : TxOK(x.t)' /\ x.t.id \notin told' /\ x.life \in Nat /\ SpentBy(x)'
      BY <1>1, <1>2, <1>3, <2>1, TxKept DEF ApiInv, SpentBy
    <2>4. SignedOnce'
      BY <2>1 DEF ApiInv, SignedOnce
    <2> QED
      BY <1>1, <1>4, <1>5, <2>1, <2>2, <2>3, <2>4 DEF ApiInv
  <1>7. CASE Executes(t, chain)
    <2>1. PICK op \in AllOps : op = t.op
      BY <1>1 DEF TxOK, Made, ClientsOK, ClientAt
    <2>2. PICK ix : ix = t.tx.ix
      OBVIOUS
    <2>3. PICK v : v = process_instruction(op, t.leg, ix, chain)
      OBVIOUS
    <2>4. PICK new : new = [t |-> t, life |-> chain.life]
      OBVIOUS
    <2>5. v.ok /\ chain' = v.next /\ moves' = moves + 1 /\ landed' = landed \cup {new}
      BY <1>7, <2>1, <2>2, <2>3, <2>4, Zenon DEF Executes, Land
    <2>6. IxOK(ix)
      BY <1>1, <2>2 DEF TxOK
    <2>7. TakesEffect(v, op, ix, chain) /\ (op \notin Unsigned => Refuses(v, op, ix, chain))
      BY <1>1, <2>3, <2>6, ProgramStep, Zenon
    <2>8. EngineOK(chain') /\ EngineGrows(chain, chain')
          /\ Spent(op, ix.nonce, ix.p, chain.life, chain')
      BY <2>5, <2>7, Zenon DEF TakesEffect
    <2>9. op \notin Unsigned => ~Spent(op, ix.nonce, ix.p, chain.life, chain)
      BY <2>5, <2>7, Zenon DEF Refuses
    <2>10. EngineOK(chain)'
      BY <2>8
    <2>11. chain.life \in Nat
      BY <1>1 DEF EngineOK, Counters
    <2>12. new.t = t /\ new.life = chain.life
      BY <2>4
    <2>13. ClientsOK'
      BY <1>1, <1>2, <2>5 DEF ClientsOK, ClientAt
    <2>14. ASSUME NEW x \in landed
           PROVE  TxOK(x.t)' /\ x.t.id \notin told' /\ x.life \in Nat /\ SpentBy(x)'
      <3>1. TxOK(x.t) /\ x.t.id \notin told /\ x.life \in Nat /\ SpentBy(x)
        BY DEF ApiInv
      <3>2. PICK o \in AllOps, m \in Nat, q \in Nat, life \in Nat :
               o = x.t.op /\ m = x.t.tx.ix.nonce /\ q = x.t.tx.ix.p /\ life = x.life
        BY <1>1, <3>1 DEF TxOK, Made, IxOK, ClientsOK, ClientAt
      <3>3. Spent(o, m, q, life, chain)
        BY <3>1, <3>2, Zenon DEF SpentBy
      <3>4. Spent(o, m, q, life, chain')
        BY <1>1, <2>8, <3>3, SpentStays
      <3>5. SpentBy(x)'
        BY <3>2, <3>4, Zenon DEF SpentBy
      <3> QED
        BY <1>1, <1>2, <1>3, <3>1, <3>5, TxKept
    <2>15. TxOK(new.t)' /\ new.t.id \notin told' /\ new.life \in Nat /\ SpentBy(new)'
      <3>1. SpentBy(new)'
        BY <2>1, <2>2, <2>8, <2>12, Zenon DEF SpentBy
      <3> QED
        BY <1>1, <1>2, <1>3, <2>11, <2>12, <3>1, TxKept
    <2>16. ASSUME NEW x \in landed, x.t.id[1] = t.id[1], x.t.leg = t.leg, x.life = chain.life,
                  op \notin Unsigned
           PROVE  FALSE
      <3>1. TxOK(x.t) /\ SpentBy(x)
        BY DEF ApiInv
      <3>2. PICK cl : cl = client[t.id[1]]
        OBVIOUS
      <3>3. x.t.op = op /\ x.t.asked = cl.req.p /\ t.asked = cl.req.p
        BY <1>1, <2>1, <2>16, <3>1, <3>2 DEF TxOK
      <3>4. PICK other : other = x.t.tx.ix
        OBVIOUS
      <3>5. /\ other.nonce = IxNonce(op, cl.req) /\ ix.nonce = IxNonce(op, cl.req)
            /\ other.p = IxPayload(op, x.t.body, x.t.leg) /\ ix.p = IxPayload(op, t.body, t.leg)
        BY <1>1, <2>1, <2>2, <2>16, <3>1, <3>2, <3>3, <3>4 DEF TxOK
      <3>6. Spent(op, other.nonce, other.p, chain.life, chain)
        BY <2>16, <3>1, <3>3, <3>4, Zenon DEF SpentBy
      <3>7. Spent(op, ix.nonce, ix.p, chain.life, chain)
        <4>1. CASE op = "session-revoke"
          <5>1. op \in SessionOps
            BY <4>1 DEF SessionOps
          <5>2. PICK n : n = other.nonce /\ n = ix.nonce
            BY <3>5
          <5>3. Spent(op, n, other.p, chain.life, chain)
            BY <3>6, <5>2
          <5>4. Spent(op, n, ix.p, chain.life, chain)
            BY <5>1, <5>3, SpentFor, Zenon
          <5> QED
            BY <5>2, <5>4
        <4>2. CASE op # "session-revoke"
          <5>1. x.t.body = cl.req.p /\ t.body = cl.req.p
            BY <1>1, <2>1, <2>16, <3>1, <3>3, <4>2 DEF TxOK
          <5>2. other.p = ix.p /\ other.nonce = ix.nonce
            BY <2>16, <3>5, <5>1
          <5> QED
            BY <3>6, <5>2
        <4> QED
          BY <4>1, <4>2
      <3> QED
        BY <2>9, <2>16, <3>7
    <2>17. SignedOnce'
      <3> SUFFICES ASSUME NEW x \in landed', NEW y \in landed', x.t.id[1] = y.t.id[1], x.t.leg =
         y.t.leg,
                          x.life = y.life, x.t.op \notin Unsigned
                   PROVE  x = y
        BY DEF SignedOnce
      <3>1. CASE x \in landed /\ y \in landed
        BY <3>1 DEF ApiInv, SignedOnce
      <3>2. ASSUME NEW z \in landed, z.t.id[1] = t.id[1] PROVE z.t.op = op
        BY <1>1, <2>1, <3>2 DEF ApiInv, TxOK
      <3>3. CASE x \in landed /\ y = new
        BY <2>12, <2>16, <3>2, <3>3
      <3>4. CASE x = new /\ y \in landed
        BY <2>1, <2>12, <2>16, <3>4
      <3> QED
        BY <2>5, <3>1, <3>3, <3>4
    <2>18. \A x \in landed' : TxOK(x.t)' /\ x.t.id \notin told' /\ x.life \in Nat /\ SpentBy(x)'
      BY <2>5, <2>14, <2>15
    <2> QED
      BY <1>1, <1>4, <1>5, <2>5, <2>10, <2>13, <2>17, <2>18 DEF ApiInv
  <1> QED
    BY <1>6, <1>7

(* Every step keeps the invariant. *)
LEMMA ApiKept == ApiInv /\ [ApiNext]_apiVars => ApiInv'
  <1> SUFFICES ASSUME ApiInv, [ApiNext]_apiVars PROVE ApiInv'
    OBVIOUS
  <1>1. ASSUME NEW k \in Client, NEW op \in Endpoints[k], NEW p \in Payload, GetChallenge(k, op, p)
        PROVE  ApiInv'
    BY <1>1, ChallengeKeeps
  <1>2. ASSUME NEW k \in Client, NEW leg \in 0..1, NEW p \in Payload, Submit(k, leg, p)
        PROVE  ApiInv'
    BY <1>2, SubmitKeeps
  <1>3. ASSUME NEW t \in inflight, Land(t)
        PROVE  ApiInv'
    BY <1>3, LandKeeps
  <1>4. CASE UNCHANGED apiVars
    <2>1. /\ chain' = chain /\ moves' = moves /\ client' = client
          /\ inflight' = inflight /\ landed' = landed /\ told' = told
      BY <1>4 DEF apiVars
    <2>2. ClientsOK /\ ClientsKeep
      BY <2>1 DEF ApiInv, ClientsOK, ClientAt, ClientsKeep
    <2>3. ClientsOK'
      BY <2>1, <2>2 DEF ClientsOK, ClientAt
    <2>4. \A i \in told' : Made(i)'
      BY <2>1, <2>2, MadeKept DEF ApiInv
    <2>5. \A t \in inflight' : TxOK(t)' /\ t.id \notin told'
      BY <2>1, <2>2, TxKept DEF ApiInv
    <2>6. \A x \in landed' : TxOK(x.t)' /\ x.t.id \notin told' /\ x.life \in Nat /\ SpentBy(x)'
      BY <2>1, <2>2, TxKept DEF ApiInv, SpentBy
    <2>7. SignedOnce'
      BY <2>1 DEF ApiInv, SignedOnce
    <2> QED
      BY <2>1, <2>3, <2>4, <2>5, <2>6, <2>7 DEF ApiInv
  <1> QED
    BY <1>1, <1>2, <1>3, <1>4, Zenon DEF ApiNext

(* The invariant of the policy endpoints. *)
THEOREM PolicyApiInvariant == ApiSpec => []ApiInv
  BY ApiInitially, ApiKept, PTL DEF ApiSpec

(* For every number of clients, payloads and submits, what the owner is     *)
(* shown, what submit rebuilds and what the program recomputes are one      *)
(* preimage, for every endpoint (challenge.go, submit.go, lib.rs).          *)
THEOREM EndpointsAgree == ApiSpec => []RoundTripAgrees
  BY PolicyApiInvariant, InvAgrees, PTL

(* For every number of clients, payloads and submits: a signature takes     *)
(* effect once and for what was signed, and a submit reported as refused in *)
(* preflight never does.                                                    *)
THEOREM SignaturesTakeEffectOnce == ApiSpec => []EffectAsSigned
  BY PolicyApiInvariant, InvEffect, PTL

=============================================================================
