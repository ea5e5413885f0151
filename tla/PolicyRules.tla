---------------------------- MODULE PolicyRules ----------------------------
(***************************************************************************)
(* The nine rule kinds of the PolicyEngine v3 program                      *)
(* (contracts/policy-engine/src/lib.rs): the configuration each kind       *)
(* accepts when it is created, the mutable state its sub-account keeps,    *)
(* the check it runs on a signature request, and the state it leaves       *)
(* behind when the request passes.  Everything here is a pure operator;    *)
(* PolicyEngine.tla gives the program its state and its instructions.      *)
(*                                                                         *)
(* Addresses, digests and public keys are model values; times are seconds  *)
(* of the Solana clock scaled down; the u64 accumulators keep their        *)
(* saturating width (U64Max).                                              *)
(***************************************************************************)
EXTENDS Naturals, Sequences, FiniteSets

CONSTANTS
    Dest,              \* destinations a transfer may name
    Feed,              \* oracle feed accounts owned by the Pyth adapter
    Authority,         \* FHE decision authorities compiled into the program
    Member,            \* recovery member slots (keys)
    Masks,             \* the applies_to masks a run explores
    VelocityWindows,   \* the window lists a run explores
    TimeLocks,         \* the [mode, unlock, delay] triples a run explores
    Bands,             \* the [min, max] oracle bands a run explores
    Freshness,         \* the price/decision freshness bounds a run explores
    MaxConfidence,     \* the confidence ceilings in bps (0 = no ceiling)
    SpendingCaps,      \* the [tx, day, week] USD ceilings (0 = no ceiling)
    SessionLimits,     \* the SessionKey rule's limits
    RecoveryPolicies,  \* the immutable part of a Recovery rule
    Decimals,          \* asset decimals
    Day, Week,         \* bucket lengths (86 400 s and 604 800 s in the code)
    U64Max,            \* the largest u64 of the accumulators
    MaxDestinations,   \* 32 for an allowlist
    MaxOracleFeeds,    \* 4
    MaxSpendingFeeds,  \* 16
    MaxMembers         \* 16 recovery members

(* The signing paths a rule's applies_to mask may name. *)
Paths == {"normal", "session", "recovery"}

AllKinds == {"ALLOWLIST", "VELOCITY", "TIME_LOCK", "ORACLE", "PASSKEY",
             "FHE_GATED", "SESSION_KEY", "RECOVERY", "SPENDING_USD"}

ASSUME U64Assumption == U64Max \in Nat
ASSUME DecimalsAssumption == \A d \in Decimals : 10 ^ d \in Nat \ {0}
ASSUME MasksAssumption == Masks \subseteq (SUBSET Paths) \ {{}}
ASSUME BucketAssumption == Day \in Nat \ {0} /\ Week \in Nat \ {0}
(* The code casts a window's seconds to an i64: these are the windows for   *)
(* which the cast is exact.                                                 *)
ASSUME WindowAssumption ==
    \A ws \in VelocityWindows :
        /\ ws \in Seq([secs : Nat \ {0}, cap : Nat \ {0}])
        /\ Len(ws) \in 1..4

ASSUME CapsAssumption == SpendingCaps \subseteq [tx : Nat, day : Nat, week : Nat]
ASSUME PolicyAssumption ==
    \A p \in RecoveryPolicies : /\ p.limitPresent \in BOOLEAN
                                /\ p.dailyLimit \in Nat /\ p.threshold \in Nat
ASSUME MemberAssumption == IsFiniteSet(Member)

SatAdd(a, b) == IF a + b > U64Max THEN U64Max ELSE a + b

Bucket(t, len) == (t \div len) * len

(* What the entries [ts, amount] of a history add up to in one bucket. *)
SumOf(v) ==
    LET sum[n \in 0..Len(v)] == IF n = 0 THEN 0 ELSE sum[n - 1] + v[n]
    IN  sum[Len(v)]

ShareOf(e, len, bucket) == IF Bucket(e.ts, len) = bucket THEN e.amount ELSE 0

SpentIn(h, len, bucket) == SumOf([n \in DOMAIN h |-> ShareOf(h[n], len, bucket)])

----------------------------------------------------------------------------
(* Configurations accepted by the add_rule_* instructions.  The list-like   *)
(* parts (destinations, feeds, authorities, members) start empty.           *)

AllowlistConfigs == [applies : Masks, dests : {{}}]

VelocityConfigs == [applies : Masks, windows : VelocityWindows]

TimeLockConfigs == [applies : Masks, lock : TimeLocks]

OracleConfigs == [applies : Masks, fresh : Freshness \ {0},
                  maxConf : MaxConfidence, feeds : {{}}]

PasskeyConfigs == [applies : Masks, credentials : {{}}]

FheGatedConfigs == [applies : Masks, fresh : Freshness, authorities : {{}}]

SessionKeyConfigs == [applies : {{"session"}}, limits : SessionLimits]

RecoveryConfigs == [applies : {{"recovery"}}, policy : RecoveryPolicies,
                    members : {{}}, dests : {{}}]

SpendingUsdConfigs == [applies : {{"normal"}}, fresh : Freshness \ {0},
                       maxConf : MaxConfidence, caps : SpendingCaps,
                       feeds : {<<>>}]

NewConfigs(kind) ==
    CASE kind = "ALLOWLIST"    -> AllowlistConfigs
      [] kind = "VELOCITY"     -> VelocityConfigs
      [] kind = "TIME_LOCK"    -> TimeLockConfigs
      [] kind = "ORACLE"       -> OracleConfigs
      [] kind = "PASSKEY"      -> PasskeyConfigs
      [] kind = "FHE_GATED"    -> FheGatedConfigs
      [] kind = "SESSION_KEY"  -> SessionKeyConfigs
      [] kind = "RECOVERY"     -> RecoveryConfigs
      [] kind = "SPENDING_USD" -> SpendingUsdConfigs

(* Every configuration a rule of the kind can have during its life. *)
OracleFeeds == [feed : Feed, min : {b.min : b \in Bands}, max : {b.max : b \in Bands}]
SpendingFeeds == [feed : Feed, decimals : Decimals]

Configs(kind) ==
    CASE kind = "ALLOWLIST"    -> [applies : Masks, dests : SUBSET Dest]
      [] kind = "VELOCITY"     -> VelocityConfigs
      [] kind = "TIME_LOCK"    -> TimeLockConfigs
      [] kind = "ORACLE"       -> [applies : Masks, fresh : Freshness, maxConf : MaxConfidence,
                                   feeds : SUBSET OracleFeeds]
      [] kind = "PASSKEY"      -> PasskeyConfigs
      [] kind = "FHE_GATED"    -> [applies : Masks, fresh : Freshness,
                                   authorities : SUBSET Authority]
      [] kind = "SESSION_KEY"  -> SessionKeyConfigs
      [] kind = "RECOVERY"     -> [applies : {{"recovery"}}, policy : RecoveryPolicies,
                                   members : SUBSET Member, dests : SUBSET Dest]
      [] kind = "SPENDING_USD" -> [applies : {{"normal"}}, fresh : Freshness,
                                   maxConf : MaxConfidence, caps : SpendingCaps,
                                   feeds : Seq(SpendingFeeds)]

(* config_hash.  The hash is taken as collision free, so it is the          *)
(* configuration itself; the roster and the destinations of a Recovery rule *)
(* are left out of it (they are hashed as zero buffers at creation and the  *)
(* update instructions do not recompute it).                                *)
ConfigHash(kind, cfg) ==
    IF kind = "RECOVERY" THEN [cfg EXCEPT !.members = {}, !.dests = {}] ELSE cfg

(* The mutable state a fresh sub-account starts with.  `hist' is a history  *)
(* variable: what the rule let through since it was created.                *)
InitialState(kind, cfg, now) ==
    CASE kind = "VELOCITY" ->
            [windows |-> [i \in DOMAIN cfg.windows |-> [count |-> 0, start |-> 0]],
             hist |-> <<>>]
      [] kind = "TIME_LOCK" -> [created |-> now]
      [] kind = "SPENDING_USD" ->
            [day |-> 0, daySum |-> 0, week |-> 0, weekSum |-> 0, hist |-> <<>>]
      [] kind = "RECOVERY" ->
            [day |-> 0, daySum |-> 0, recoverNonce |-> 0, sessionNonce |-> 0,
             passkeyNonce |-> 0, hist |-> <<>>]
      [] OTHER -> [none |-> 0]

----------------------------------------------------------------------------
(* Seeded fault: the request that restarts a window is not counted in it.   *)
NextWindowUncounted(w, st, now) ==
    IF now >= st.start + w.secs
    THEN [count |-> 0, start |-> now]
    ELSE [count |-> SatAdd(st.count, 1), start |-> st.start]

(* VELOCITY.  A window that has run out restarts at this request. *)
NextWindow(w, st, now) ==
    IF now >= st.start + w.secs
    THEN [count |-> 1, start |-> now]
    ELSE [count |-> SatAdd(st.count, 1), start |-> st.start]

VelocityNext(cfg, st, now) ==
    [windows |-> [i \in DOMAIN cfg.windows |->
                     NextWindow(cfg.windows[i], st.windows[i], now)],
     hist |-> Append(st.hist, now)]

VelocityOK(cfg, st, now) ==
    \A i \in DOMAIN cfg.windows :
        VelocityNext(cfg, st, now).windows[i].count <= cfg.windows[i].cap

----------------------------------------------------------------------------
(* TIME_LOCK: absolute unlock time, or a delay from the rule's creation. *)
TimeLockOK(cfg, st, now) ==
    now >= IF cfg.lock.mode = "absolute" THEN cfg.lock.unlock
                                         ELSE st.created + cfg.lock.delay

----------------------------------------------------------------------------
(* ORACLE: every feed of the rule is fresh, in its band and certain enough. *)
ConfidenceOK(p, maxConf) ==
    maxConf > 0 => IF p.price = 0 THEN p.conf = 0
                   ELSE (p.conf * 10000) \div p.price <= maxConf

Fresh(ts, fresh, now) == ts + fresh >= now

OracleOK(cfg, prices, now) ==
    \A f \in cfg.feeds :
        LET p == prices[f.feed]
        IN  /\ Fresh(p.ts, cfg.fresh, now)
            /\ f.min <= p.price /\ p.price <= f.max
            /\ ConfidenceOK(p, cfg.maxConf)

----------------------------------------------------------------------------
(* SPENDING_USD: the request names the moved asset by its position in the   *)
(* rule's feed list; its amount is valued at the feed's price and charged   *)
(* to the current day and week buckets.                                     *)
Usd(cfg, prices, req) ==
    LET f == cfg.feeds[req.asset + 1]
    IN  (req.amount * prices[f.feed].price) \div (10 ^ f.decimals)

(* Seeded fault: only the first request of a bucket is charged to it.       *)
SpendingNextForgets(cfg, st, prices, req, now) ==
    LET usd == Usd(cfg, prices, req)
    IN  [day |-> Bucket(now, Day), daySum |-> usd, week |-> Bucket(now, Week), weekSum |-> usd,
         hist |-> Append(st.hist, [ts |-> now, amount |-> usd])]

SpendingNext(cfg, st, prices, req, now) ==
    LET usd     == Usd(cfg, prices, req)
        day     == Bucket(now, Day)
        week    == Bucket(now, Week)
    IN  [day     |-> day,
         daySum  |-> IF day # st.day THEN usd ELSE SatAdd(st.daySum, usd),
         week    |-> week,
         weekSum |-> IF week # st.week THEN usd ELSE SatAdd(st.weekSum, usd),
         hist    |-> Append(st.hist, [ts |-> now, amount |-> usd])]

SpendingOK(cfg, st, prices, req, path, now) ==
    /\ path = "normal"
    /\ req.asset < Len(cfg.feeds)
    /\ LET p    == prices[cfg.feeds[req.asset + 1].feed]
           next == SpendingNext(cfg, st, prices, req, now)
       IN  /\ Fresh(p.ts, cfg.fresh, now)
           /\ p.price > 0
           /\ ConfidenceOK(p, cfg.maxConf)
           /\ Usd(cfg, prices, req) <= U64Max
           /\ cfg.caps.tx > 0   => Usd(cfg, prices, req) <= cfg.caps.tx
           /\ cfg.caps.day > 0  => next.daySum <= cfg.caps.day
           /\ cfg.caps.week > 0 => next.weekSum <= cfg.caps.week

----------------------------------------------------------------------------
(* Seeded fault: a refusal passes for a permission.                         *)
FheOKAnyVerdict(cfg, decisions, req, now) ==
    \E d \in decisions : d.by \in cfg.authorities /\ d.req = req /\ Fresh(d.ts, cfg.fresh, now)

(* FHE_GATED: a fresh positive decision on exactly this request, signed by  *)
(* one of the rule's authorities.                                           *)
FheOK(cfg, decisions, req, now) ==
    \E d \in decisions : /\ d.by \in cfg.authorities
                         /\ d.req = req
                         /\ d.authorize
                         /\ Fresh(d.ts, cfg.fresh, now)

----------------------------------------------------------------------------
(* The per-kind arms of dispatch_active_rules for a rule whose mask names   *)
(* `path'.  env is [now, prices, decisions].                                *)
RuleOK(kind, cfg, st, req, path, env) ==
    CASE kind = "ALLOWLIST"    -> req.dest \in cfg.dests
      [] kind = "VELOCITY"     -> VelocityOK(cfg, st, env.now)
      [] kind = "TIME_LOCK"    -> TimeLockOK(cfg, st, env.now)
      [] kind = "ORACLE"       -> OracleOK(cfg, env.prices, env.now)
      [] kind = "SPENDING_USD" -> SpendingOK(cfg, st, env.prices, req, path, env.now)
      [] kind = "PASSKEY"      -> cfg.credentials # {}
      [] kind = "FHE_GATED"    -> FheOK(cfg, env.decisions, req, env.now)
      [] kind = "SESSION_KEY"  -> path = "session"
      [] kind = "RECOVERY"     -> FALSE

RuleNext(kind, cfg, st, req, env) ==
    CASE kind = "VELOCITY"     -> VelocityNext(cfg, st, env.now)
      [] kind = "SPENDING_USD" -> SpendingNext(cfg, st, env.prices, req, env.now)
      [] OTHER                 -> st
=============================================================================
