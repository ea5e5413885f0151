---------------------------- MODULE PolicyEngine ----------------------------
(***************************************************************************)
(* The PolicyEngine v3 program of one dWallet                              *)
(* (contracts/policy-engine/src/lib.rs): the engine account with its table *)
(* of rule slots, the sub-account of each rule, the owner's administrative *)
(* instructions, and the normal signing path.                              *)
(*                                                                         *)
(* A Solana transaction is atomic, so an instruction is one action: when a *)
(* require! fails nothing changes, and the action is simply not enabled.   *)
(* What is not atomic is the round trip around it.  The owner signs a      *)
(* challenge off chain, from the state the gateway showed; the gateway     *)
(* submits it later, possibly after other transactions, possibly twice.    *)
(* Hence signing and submitting are separate actions, a signature stays in *)
(* `commands' or `requests' for ever, and an instruction is enabled when   *)
(* the challenge it recomputes from the current state was ever signed.     *)
(***************************************************************************)
EXTENDS PolicyRules

CONSTANTS
    Slots,          \* rule slots (0..15 in the code)
    Kinds,          \* the rule kinds a run explores
    Msg,            \* message digests
    Amounts,        \* amounts in asset base units
    Assets,         \* asset_index values
    Prices,         \* [price, conf] pairs the oracle may publish
    MaxPriceStaleness,   \* the oldest price the adapter takes (1 day)
    MaxPriceFuture,      \* how far ahead of the clock a price may be (120 s)
    MinRefreshInterval,  \* between two refreshes of a feed (1 s)
    StartTime,      \* clock at engine creation
    MaxTime,        \* bound: the clock stops here
    MaxCommands,    \* bound: admin challenges the owner signs
    MaxRequests,    \* bound: request challenges the owner signs
    MaxBundle,      \* legs one owner signature may cover (4 in the code)
    MaxDecisions    \* bound: FHE decisions issued

ASSUME KindsAssumption == Kinds \subseteq AllKinds
ASSUME SlotsAssumption == IsFiniteSet(Slots)
ASSUME TimeAssumption == StartTime \in Nat /\ MaxTime \in Nat
ASSUME ItemAssumption == Amounts \subseteq Nat /\ Assets \subseteq Nat
ASSUME PriceAssumption == \A p \in Prices : p.price \in Nat

VARIABLES
    next_admin_nonce, paused, rules_count, rules_generation,
    rules_flat,     \* slot -> RuleEntry
    rule_pda,       \* <<kind, slot>> -> the rule's sub-account, if it exists
    now,            \* Clock.unix_timestamp
    prices,         \* feed -> the adapter's FeedCache
    decisions,      \* signed FHE decisions in existence
    commands,       \* admin challenges the owner has signed
    applied,        \* history: the signed commands that took effect
    requests,       \* request challenges the owner has signed
    approvals       \* Ika MessageApproval accounts

engineVars == <<next_admin_nonce, paused, rules_count, rules_generation,
                rules_flat, rule_pda>>
envVars  == <<now, prices, decisions>>
signVars == <<commands, requests>>
vars == <<engineVars, envVars, signVars, applied, approvals>>

EMPTY == [kind |-> "EMPTY", generation |-> 0]
NoAccount == [exists |-> FALSE]

(* A sub-account's address is derived from its kind and its slot. *)
Addresses == Kinds \X Slots

Live == {s \in Slots : rules_flat[s].kind # "EMPTY"}
Pda(s) == rule_pda[<<rules_flat[s].kind, s>>]

(* What the owner sees of the policy: the rule of every slot with its       *)
(* configuration, without the counters the rules keep.                      *)
View == [s \in Slots |-> IF s \in Live THEN [kind |-> rules_flat[s].kind,
                                             cfg  |-> Pda(s).cfg]
                                       ELSE EMPTY]

AnyConfig == UNION {Configs(k) : k \in Kinds}

Entries == [kind : Kinds, generation : Nat, hash : AnyConfig]

(* A sub-account of the kind: absent, or with a configuration of the kind.  *)
AccountOK(k, r) ==
    \/ r = NoAccount
    \/ /\ DOMAIN r = {"exists", "generation", "hash", "cfg", "st"}
       /\ r.exists = TRUE
       /\ r.generation \in Nat
       /\ r.cfg \in Configs(k)
       /\ r.hash \in Configs(k)

Items == [msg : Msg, dest : Dest, amount : Amounts, asset : Assets]

(* Types of the engine account, of its rule table, of the sub-accounts and  *)
(* of what the signing paths are given.                                     *)
TypeOK ==
    /\ next_admin_nonce \in Nat
    /\ paused \in BOOLEAN
    /\ rules_count \in Nat
    /\ rules_generation \in Nat
    /\ rules_flat \in [Slots -> {EMPTY} \cup Entries]
    /\ DOMAIN rule_pda = Addresses
    /\ \A k \in Kinds, s \in Slots : AccountOK(k, rule_pda[<<k, s>>])
    /\ now \in Nat
    /\ DOMAIN prices = Feed
    /\ \A f \in Feed : prices[f].price \in Nat
    /\ \A r \in requests : \A i \in DOMAIN r.legs : r.legs[i] \in Items

(* init_engine: a fresh engine is unpaused and has no rules. *)
Init ==
    /\ next_admin_nonce = 0
    /\ paused = FALSE
    /\ rules_count = 0
    /\ rules_generation = 0
    /\ rules_flat = [s \in Slots |-> EMPTY]
    /\ rule_pda = [a \in Addresses |-> NoAccount]
    /\ now = StartTime
    /\ prices \in [Feed -> {[price |-> p.price, conf |-> p.conf, ts |-> StartTime,
                             refreshed |-> StartTime] : p \in Prices}]
    /\ decisions = {}
    /\ commands = {}
    /\ applied = {}
    /\ requests = {}
    /\ approvals = {}

----------------------------------------------------------------------------
(* The owner's admin challenges.  A challenge binds the operation, the rule *)
(* it is about with its next generation, and the on-chain admin nonce.      *)

ZeroHash == [zero |-> TRUE]
NoExtras == [none |-> 0]

admin_challenge(op, kind, index, generation, hash, extras) ==
    [op |-> op, kind |-> kind, index |-> index, generation |-> generation,
     nonce |-> next_admin_nonce, hash |-> hash, extras |-> extras]

AddCommand(kind, s, cfg) ==
    admin_challenge("add", kind, s, rules_flat[s].generation + 1,
                    ConfigHash(kind, cfg), [cfg |-> cfg])

RemoveCommand(s) ==
    admin_challenge("remove", rules_flat[s].kind, s, rules_flat[s].generation + 1,
                    rules_flat[s].hash, NoExtras)

(* An update binds no hash, except that of a Recovery rule. *)
UpdateHash(kind, s) == IF kind = "RECOVERY" THEN rules_flat[s].hash ELSE ZeroHash

UpdateCommand(op, kind, s, extras) ==
    admin_challenge(op, kind, s, rules_flat[s].generation + 1, UpdateHash(kind, s), extras)

EngineCommand(op) == admin_challenge(op, "EMPTY", 255, 0, ZeroHash, NoExtras)

(* The list updates an owner may be asked to sign for a rule of each kind. *)
Updates(kind) ==
    CASE kind = "ALLOWLIST" ->
            {<<op, [dest |-> d]>> : op \in {"add_dest", "remove_dest"}, d \in Dest}
      [] kind = "ORACLE" -> {<<"add_feed", [feed |-> f]>> : f \in OracleFeeds}
      [] kind = "SPENDING_USD" -> {<<"add_asset", [feed |-> f]>> : f \in SpendingFeeds}
      [] kind = "FHE_GATED" ->
            {<<"authorities", [authorities |-> a]>> : a \in (SUBSET Authority) \ {{}}}
      [] kind = "RECOVERY" ->
            {<<op, [member |-> m]>> : op \in {"add_member", "remove_member"}, m \in Member}
            \cup {<<op, [dest |-> d]>> : op \in {"add_dest", "remove_dest"}, d \in Dest}
      [] OTHER -> {}

Signable ==
    {EngineCommand(op) : op \in {"pause", "resume"}}
    \cup (UNION {{AddCommand(k, s, c) : s \in Slots \ Live, c \in NewConfigs(k)} : k \in Kinds})
    \cup {RemoveCommand(s) : s \in Live}
    \cup (UNION {{UpdateCommand(u[1], rules_flat[s].kind, s, u[2]) :
                     u \in Updates(rules_flat[s].kind)} : s \in Live})

(* The owner signs a challenge the gateway built from the current state. *)
OwnerSignsCommand ==
    /\ Cardinality(commands) < MaxCommands
    /\ \E c \in Signable : commands' = commands \cup {c}
    /\ UNCHANGED <<engineVars, envVars, requests, applied, approvals>>

(* Seeded fault: the nonce is checked and not consumed. *)
StuckAdminNonce == next_admin_nonce

NextAdminNonce == next_admin_nonce + 1

(* verify_owner_admin: the owner signed this very challenge, whose nonce is *)
(* the current one; the nonce is consumed.                                  *)
verify_owner_admin(c) ==
    /\ c \in commands
    /\ next_admin_nonce' = NextAdminNonce
    /\ applied' = applied \cup {c}

(* Seeded fault: an instruction forgets rules_generation. *)
KeepRulesGeneration == UNCHANGED rules_generation

BumpRulesGeneration == rules_generation' = rules_generation + 1

----------------------------------------------------------------------------
(* Seeded fault: the search for a rule of the kind stops at the first slot  *)
(* that holds something else.                                               *)
SomeSlotFree(kind) == \E t \in Slots : rules_flat[t].kind # kind

(* add_rule_*: one rule of each kind at most, in an empty slot. *)
KindUnused(kind) == \A t \in Slots : rules_flat[t].kind # kind

AddRule(kind, s, cfg) ==
    /\ kind \in Kinds
    /\ KindUnused(kind)
    /\ rules_flat[s] = EMPTY
    /\ ~rule_pda[<<kind, s>>].exists
    /\ verify_owner_admin(AddCommand(kind, s, cfg))
    /\ LET generation == rules_flat[s].generation + 1
           hash       == ConfigHash(kind, cfg)
       IN  /\ rule_pda' = [rule_pda EXCEPT ![<<kind, s>>] =
                 [exists |-> TRUE, generation |-> generation, hash |-> hash,
                  cfg |-> cfg, st |-> InitialState(kind, cfg, now)]]
           /\ rules_flat' = [rules_flat EXCEPT ![s] =
                 [kind |-> kind, generation |-> generation, hash |-> hash]]
    /\ rules_count' = rules_count + 1
    /\ BumpRulesGeneration
    /\ UNCHANGED <<paused, envVars, signVars, approvals>>

add_rule_allowlist(s)    == \E c \in AllowlistConfigs   : AddRule("ALLOWLIST", s, c)
add_rule_velocity(s)     == \E c \in VelocityConfigs    : AddRule("VELOCITY", s, c)
add_rule_time_lock(s)    == \E c \in TimeLockConfigs    : AddRule("TIME_LOCK", s, c)
add_rule_oracle(s)       == \E c \in OracleConfigs      : AddRule("ORACLE", s, c)
add_rule_spending_usd(s) == \E c \in SpendingUsdConfigs : AddRule("SPENDING_USD", s, c)
add_rule_passkey(s)      == \E c \in PasskeyConfigs     : AddRule("PASSKEY", s, c)
add_rule_fhe_gated(s)    == \E c \in FheGatedConfigs    : AddRule("FHE_GATED", s, c)
add_rule_session_key(s)  == \E c \in SessionKeyConfigs  : AddRule("SESSION_KEY", s, c)
add_rule_recovery(s)     == \E c \in RecoveryConfigs    : AddRule("RECOVERY", s, c)

----------------------------------------------------------------------------
(* remove_rule closes the sub-account and empties the slot. *)

HeaderMatches(s) ==
    /\ Pda(s).exists
    /\ Pda(s).generation = rules_flat[s].generation
    /\ Pda(s).hash = rules_flat[s].hash

remove_rule(s) ==
    /\ s \in Live
    /\ HeaderMatches(s)
    /\ verify_owner_admin(RemoveCommand(s))
    /\ rule_pda' = [rule_pda EXCEPT ![<<rules_flat[s].kind, s>>] = NoAccount]
    /\ rules_flat' = [rules_flat EXCEPT ![s] = EMPTY]
    /\ rules_count' = IF rules_count = 0 THEN 0 ELSE rules_count - 1
    /\ BumpRulesGeneration
    /\ UNCHANGED <<paused, envVars, signVars, approvals>>

(* pause and resume leave the rules and their generation alone. *)
SetPaused(op, value) ==
    /\ verify_owner_admin(EngineCommand(op))
    /\ paused' = value
    /\ UNCHANGED <<rules_count, rules_generation, rules_flat, rule_pda,
                   envVars, signVars, approvals>>

pause  == SetPaused("pause", TRUE)
resume == SetPaused("resume", FALSE)

----------------------------------------------------------------------------
(* update_rule_*: a list of the rule changes, its generation advances and   *)
(* the new generation and hash are written to both the sub-account and the  *)
(* engine's entry for it.                                                   *)

(* The updates of a Recovery rule compare the address only. *)
RuleAt(kind, s) ==
    /\ rules_flat[s].kind = kind
    /\ rule_pda[<<kind, s>>].exists
    /\ kind = "RECOVERY" \/ rule_pda[<<kind, s>>].generation = rules_flat[s].generation

(* Seeded faults: the engine's entry keeps its old generation and hash; the *)
(* hash is not recomputed.                                                  *)
WriteConfigUnmirrored(kind, s, cfg) ==
    /\ rule_pda' = [rule_pda EXCEPT ![<<kind, s>>] =
          [@ EXCEPT !.generation = rules_flat[s].generation + 1,
                    !.hash = ConfigHash(kind, cfg), !.cfg = cfg]]
    /\ UNCHANGED rules_flat

WriteConfigUnhashed(kind, s, cfg) ==
    LET generation == rules_flat[s].generation + 1
    IN  /\ rule_pda' = [rule_pda EXCEPT ![<<kind, s>>] =
              [@ EXCEPT !.generation = generation, !.hash = ZeroHash, !.cfg = cfg]]
        /\ rules_flat' = [rules_flat EXCEPT ![s] =
              [@ EXCEPT !.generation = generation, !.hash = ZeroHash]]

WriteConfig(kind, s, cfg) ==
    LET generation == rules_flat[s].generation + 1
        hash       == ConfigHash(kind, cfg)
    IN  /\ rule_pda' = [rule_pda EXCEPT ![<<kind, s>>] =
              [@ EXCEPT !.generation = generation, !.hash = hash, !.cfg = cfg]]
        /\ rules_flat' = [rules_flat EXCEPT ![s] =
              [@ EXCEPT !.generation = generation, !.hash = hash]]

UpdateRule(kind, s, op, extras, cfg) ==
    /\ verify_owner_admin(UpdateCommand(op, kind, s, extras))
    /\ WriteConfig(kind, s, cfg)
    /\ BumpRulesGeneration
    /\ UNCHANGED <<rules_count, paused, envVars, signVars, approvals>>

(* An item that is already listed leaves everything as it was, before the   *)
(* owner's signature is even looked at: a stuttering step.                  *)
update_rule_allowlist_add_destination(s, d) ==
    /\ RuleAt("ALLOWLIST", s)
    /\ LET cfg == Pda(s).cfg
       IN  /\ Cardinality(cfg.dests) < MaxDestinations
           /\ d \notin cfg.dests
           /\ UpdateRule("ALLOWLIST", s, "add_dest", [dest |-> d],
                         [cfg EXCEPT !.dests = @ \cup {d}])

(* Removing an absent destination still advances nonce and generations. *)
update_rule_allowlist_remove_destination(s, d) ==
    /\ RuleAt("ALLOWLIST", s)
    /\ UpdateRule("ALLOWLIST", s, "remove_dest", [dest |-> d],
                  [Pda(s).cfg EXCEPT !.dests = @ \ {d}])

update_rule_oracle_add_feed(s, f) ==
    /\ RuleAt("ORACLE", s)
    /\ f.min <= f.max
    /\ LET cfg == Pda(s).cfg
       IN  /\ Cardinality(cfg.feeds) < MaxOracleFeeds
           /\ \A g \in cfg.feeds : g.feed # f.feed
           /\ UpdateRule("ORACLE", s, "add_feed", [feed |-> f],
                         [cfg EXCEPT !.feeds = @ \cup {f}])

update_rule_spending_usd_add_feed(s, f) ==
    /\ RuleAt("SPENDING_USD", s)
    /\ f.decimals <= 24
    /\ LET cfg == Pda(s).cfg
       IN  /\ Len(cfg.feeds) < MaxSpendingFeeds
           /\ \A i \in DOMAIN cfg.feeds : cfg.feeds[i].feed # f.feed
           /\ UpdateRule("SPENDING_USD", s, "add_asset", [feed |-> f],
                         [cfg EXCEPT !.feeds = Append(@, f)])

update_rule_fhe_gated_authorities(s, a) ==
    /\ RuleAt("FHE_GATED", s)
    /\ a # {} /\ Cardinality(a) <= 4
    /\ UpdateRule("FHE_GATED", s, "authorities", [authorities |-> a],
                  [Pda(s).cfg EXCEPT !.authorities = a])

(* Re-adding a listed member or destination of a Recovery rule consumes the *)
(* nonce and nothing else.                                                  *)
NonceOnly(c) ==
    /\ verify_owner_admin(c)
    /\ UNCHANGED <<paused, rules_count, rules_generation, rules_flat, rule_pda,
                   envVars, signVars, approvals>>

update_rule_recovery_add_member(s, m) ==
    /\ RuleAt("RECOVERY", s)
    /\ LET cfg == Pda(s).cfg
       IN  \/ /\ m \in cfg.members
              /\ NonceOnly(UpdateCommand("add_member", "RECOVERY", s, [member |-> m]))
           \/ /\ m \notin cfg.members
              /\ Cardinality(cfg.members) < MaxMembers
              /\ UpdateRule("RECOVERY", s, "add_member", [member |-> m],
                            [cfg EXCEPT !.members = @ \cup {m}])

update_rule_recovery_remove_member(s, m) ==
    /\ RuleAt("RECOVERY", s)
    /\ UpdateRule("RECOVERY", s, "remove_member", [member |-> m],
                  [Pda(s).cfg EXCEPT !.members = @ \ {m}])

update_rule_recovery_add_destination(s, d) ==
    /\ RuleAt("RECOVERY", s)
    /\ LET cfg == Pda(s).cfg
       IN  \/ /\ d \in cfg.dests
              /\ NonceOnly(UpdateCommand("add_dest", "RECOVERY", s, [dest |-> d]))
           \/ /\ d \notin cfg.dests
              /\ Cardinality(cfg.dests) < MaxMembers
              /\ UpdateRule("RECOVERY", s, "add_dest", [dest |-> d],
                            [cfg EXCEPT !.dests = @ \cup {d}])

update_rule_recovery_remove_destination(s, d) ==
    /\ RuleAt("RECOVERY", s)
    /\ UpdateRule("RECOVERY", s, "remove_dest", [dest |-> d],
                  [Pda(s).cfg EXCEPT !.dests = @ \ {d}])

----------------------------------------------------------------------------
(* The normal signing path. *)

Bundles == UNION {{b \in [1..n -> Items] :
                      \A i, j \in 1..n : i # j => b[i].msg # b[j].msg} : n \in 1..MaxBundle}

(* The owner signs one request, or a bundle of them, under the rules        *)
(* generation the gateway showed.  `view' is a history variable.            *)
OwnerSignsRequest ==
    /\ Cardinality(requests) < MaxRequests
    /\ \E b \in Bundles :
          requests' = requests \cup {[legs |-> b, generation |-> rules_generation,
                                      view |-> View]}
    /\ UNCHANGED <<engineVars, envVars, commands, applied, approvals>>

(* request_metadata_digest: what the owner, a session or an FHE authority   *)
(* signs of a request.                                                      *)
request_metadata_digest(item, generation, path) ==
    [msg |-> item.msg, dest |-> item.dest, amount |-> item.amount,
     asset |-> item.asset, generation |-> generation, path |-> path]

Env == [now |-> now, prices |-> prices, decisions |-> decisions]

(* Seeded fault: the loop stops at the slot it should pass over. *)
EnforcedBeforeSkip(path, skip) ==
    {s \in Live \ skip : path \in Pda(s).cfg.applies /\ \A t \in skip : s < t}

(* dispatch_active_rules: every live slot's sub-account must match the      *)
(* engine's entry; the rules whose mask names the path must accept, and     *)
(* leave their new counters behind.                                         *)
Enforced(path, skip) == {s \in Live \ skip : path \in Pda(s).cfg.applies}

dispatch_active_rules(req, path, skip) ==
    /\ \A s \in Live \ skip : HeaderMatches(s)
    /\ \A s \in Enforced(path, skip) :
          RuleOK(rules_flat[s].kind, Pda(s).cfg, Pda(s).st, req, path, Env)
    /\ rule_pda' = [a \in Addresses |->
          IF a[2] \in Enforced(path, skip) /\ a[1] = rules_flat[a[2]].kind
          THEN [rule_pda[a] EXCEPT !.st =
                   RuleNext(a[1], rule_pda[a].cfg, rule_pda[a].st, req, Env)]
          ELSE rule_pda[a]]

(* Ika's approve_message creates the MessageApproval account of a message;  *)
(* a second approval of the same message fails.  `seen' and `at' record the *)
(* policy the signer saw and the policy in force.                           *)
approve_message(msg, path, seen) ==
    /\ \A a \in approvals : a.msg # msg
    /\ approvals' = approvals \cup {[msg |-> msg, path |-> path, seen |-> seen, at |-> View]}

(* Seeded fault: a request signed under older rules is let through. *)
GenerationNotAhead(r) == r.generation <= rules_generation

GenerationCurrent(r) == r.generation = rules_generation

(* Seeded fault: the pause flag is not looked at. *)
EngineActiveAlways == TRUE

(* Every signing path starts with the engine's pause flag. *)
EngineActive == ~paused

request_signature(r, i) ==
    /\ EngineActive
    /\ GenerationCurrent(r)
    /\ dispatch_active_rules(
          request_metadata_digest(r.legs[i], rules_generation, "normal"), "normal", {})
    /\ approve_message(r.legs[i].msg, "normal", r.view)
    /\ UNCHANGED <<next_admin_nonce, paused, rules_count, rules_generation, rules_flat,
                   envVars, signVars, applied>>

----------------------------------------------------------------------------
(* The environment: the clock, the price feeds, the FHE authorities. *)

Tick ==
    /\ now < MaxTime
    /\ now' = now + 1
    /\ UNCHANGED <<engineVars, prices, decisions, signVars, applied, approvals>>

(* Anyone may bring a price of Pyth into the adapter's cache.  It must be   *)
(* newer than the cached one, and neither too old nor too far ahead.        *)
PublishPrice(f) ==
    /\ now >= prices[f].refreshed + MinRefreshInterval
    /\ \E p \in Prices, ts \in (prices[f].ts + 1)..(now + MaxPriceFuture) :
          /\ ts + MaxPriceStaleness >= now
          /\ prices' = [prices EXCEPT ![f] = [price |-> p.price, conf |-> p.conf, ts |-> ts,
                                              refreshed |-> now]]
    /\ UNCHANGED <<engineVars, now, decisions, signVars, applied, approvals>>

Decide(a) ==
    /\ Cardinality(decisions) < MaxDecisions
    /\ \E r \in requests, ok \in BOOLEAN : \E i \in DOMAIN r.legs :
          decisions' = decisions \cup
             {[by |-> a, authorize |-> ok, ts |-> now,
               req |-> request_metadata_digest(r.legs[i], r.generation, "normal")]}
    /\ UNCHANGED <<engineVars, now, prices, signVars, applied, approvals>>

----------------------------------------------------------------------------
AddRuleStep(s) ==
    \/ add_rule_allowlist(s)  \/ add_rule_velocity(s)     \/ add_rule_time_lock(s)
    \/ add_rule_oracle(s)     \/ add_rule_spending_usd(s) \/ add_rule_passkey(s)
    \/ add_rule_fhe_gated(s)  \/ add_rule_session_key(s)  \/ add_rule_recovery(s)

UpdateRuleStep(s) ==
    \/ \E d \in Dest : \/ update_rule_allowlist_add_destination(s, d)
                       \/ update_rule_allowlist_remove_destination(s, d)
                       \/ update_rule_recovery_add_destination(s, d)
                       \/ update_rule_recovery_remove_destination(s, d)
    \/ \E f \in OracleFeeds : update_rule_oracle_add_feed(s, f)
    \/ \E f \in SpendingFeeds : update_rule_spending_usd_add_feed(s, f)
    \/ \E a \in SUBSET Authority : update_rule_fhe_gated_authorities(s, a)
    \/ \E m \in Member : \/ update_rule_recovery_add_member(s, m)
                         \/ update_rule_recovery_remove_member(s, m)

EngineStep ==
    \/ \E s \in Slots : AddRuleStep(s) \/ UpdateRuleStep(s) \/ remove_rule(s)
    \/ pause
    \/ resume
    \/ \E r \in requests : \E i \in DOMAIN r.legs : request_signature(r, i)

EnvStep ==
    \/ OwnerSignsCommand
    \/ OwnerSignsRequest
    \/ Tick
    \/ \E f \in Feed : PublishPrice(f)
    \/ \E a \in Authority : Decide(a)

Next == EngineStep \/ EnvStep

Spec == Init /\ [][Next]_vars

----------------------------------------------------------------------------
(* Properties. *)

Mirrored(k, s) ==
    /\ rule_pda[<<k, s>>].exists <=> rules_flat[s].kind = k
    /\ rule_pda[<<k, s>>].exists =>
          /\ rule_pda[<<k, s>>].generation = rules_flat[s].generation
          /\ rule_pda[<<k, s>>].hash = rules_flat[s].hash
          /\ rule_pda[<<k, s>>].hash = ConfigHash(k, rule_pda[<<k, s>>].cfg)

(* The engine's entry and the rule's sub-account never drift apart: a       *)
(* sub-account exists exactly for the kind its slot lists, with the same    *)
(* generation and the hash of its current configuration.  Drift would make  *)
(* dispatch_active_rules reject every signature of the dWallet.             *)
HeadersMirrored == \A k \in Kinds, s \in Slots : Mirrored(k, s)

(* rules_count, kept by increments and saturating decrements, is the number *)
(* of slots in use, and no kind occupies two slots.                         *)
SlotsConsistent ==
    /\ rules_count = Cardinality(Live)
    /\ \A s, t \in Live : rules_flat[s].kind = rules_flat[t].kind => s = t

(* Every admin nonce is consumed by exactly one signed command, whatever    *)
(* the order, delay or repetition of the submissions: no signed command     *)
(* takes effect twice.                                                      *)
CommandsAppliedOnce ==
    /\ applied \subseteq commands
    /\ \A c \in applied : c.nonce < next_admin_nonce
    /\ Cardinality(applied) = next_admin_nonce

(* A request signed under the current rules generation was signed under the *)
(* current configuration of every rule: each instruction that changes what  *)
(* a rule enforces advances rules_generation.                               *)
GenerationIdentifiesRules ==
    \A r \in requests :
        /\ r.generation <= rules_generation
        /\ r.generation = rules_generation => r.view = View

(* A message is approved only under the very rules its signer was shown.    *)
ApprovedUnderSeenRules == \A a \in approvals : a.seen = a.at

(* VELOCITY, from the history of approvals rather than from its counters:   *)
(* with windows that restart at the first request after they run out, any   *)
(* stretch of time as long as a window holds at most 2 * cap - 1 approvals. *)
(* A window that reaches back to 1970 is first counted from there, not from *)
(* its first request, and may hold one more.  A cap of u64::MAX is no cap:  *)
(* the counter saturates there.                                             *)
VelocityLimit(w) == IF w.secs <= StartTime THEN 2 * w.cap - 1 ELSE 2 * w.cap

VelocityBounded ==
    \A s \in Live : rules_flat[s].kind = "VELOCITY" =>
        \A i \in DOMAIN Pda(s).cfg.windows :
            LET w == Pda(s).cfg.windows[i]
                h == Pda(s).st.hist
            IN  w.cap < U64Max =>
                   \A j, k \in DOMAIN h :
                      (j < k /\ h[k] < h[j] + w.secs) => k - j + 1 <= VelocityLimit(w)

(* SPENDING_USD, from the history of approvals: the value let through in    *)
(* any one UTC day, and in any one week, stays within the rule's ceilings   *)
(* (0 is no ceiling, and neither is u64::MAX, where the sums saturate).     *)
Ceiling(cap) == cap > 0 /\ cap < U64Max

SpendingWithinCaps ==
    \A s \in Live : rules_flat[s].kind = "SPENDING_USD" =>
        LET h == Pda(s).st.hist
            c == Pda(s).cfg.caps
        IN  \A j \in DOMAIN h :
               /\ c.tx > 0        => h[j].amount <= c.tx
               /\ Ceiling(c.day)  => SpentIn(h, Day, Bucket(h[j].ts, Day)) <= c.day
               /\ Ceiling(c.week) => SpentIn(h, Week, Bucket(h[j].ts, Week)) <= c.week

(* FHE_GATED, across rule changes: whoever approves a message on a path the *)
(* rule covers has a positive decision on that message from an authority    *)
(* the signer was shown, however the authority list changed in between.     *)
DecisionBacked ==
    \A a \in approvals, s \in Slots :
        (a.seen[s].kind = "FHE_GATED" /\ a.path \in a.seen[s].cfg.applies) =>
            \E d \in decisions : /\ d.req.msg = a.msg
                                 /\ d.authorize
                                 /\ d.by \in a.seen[s].cfg.authorities

=============================================================================
