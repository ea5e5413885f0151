------------------------ MODULE PolicyEngine_proofs ------------------------
(***************************************************************************)
(* Proofs about PolicyEngine, for every number of slots, every set of rule *)
(* kinds, every configuration and every number of commands and requests.   *)
(***************************************************************************)
EXTENDS PolicyEngine, FiniteSetTheorems, NaturalsInduction, WellFoundedInduction, TLAPS

----------------------------------------------------------------------------
(* Sums. *)

(* A set of numbers that is not empty has a least one: what the proofs by  *)
(* induction below rest on.                                                 *)
LEMMA LeastNat ==
    ASSUME NEW S, S \subseteq Nat, S # {}
    PROVE  \E x \in S : \A y \in S : x <= y
  <1> DEFINE R == OpToRel(<, Nat)
  <1>1. IsWellFoundedOn(R, Nat)
    BY NatLessThanWellFounded
  <1>2. \A x, y \in Nat : y < x => <<y, x>> \in R
    BY DEF OpToRel
  <1> HIDE DEF R
  <1>3. PICK x \in S : \A y \in S : ~ (<<y, x>> \in R)
    BY <1>1, WFMin
  <1>4. ASSUME NEW y \in S PROVE x <= y
    <2>1. x \in Nat /\ y \in Nat
      OBVIOUS
    <2>2. ~ (y < x)
      BY <1>2, <1>3, <2>1, Zenon
    <2> QED
      BY <2>1, <2>2
  <1> QED
    BY <1>4

(* f holds the sums of the first n numbers of v, for n up to N. *)
PartialSums(f, v, N) == f = [n \in 0..N |-> IF n = 0 THEN 0 ELSE f[n - 1] + v[n]]

LEMMA PartialSumsExist ==
    ASSUME NEW v, NEW N \in Nat PROVE \E f : PartialSums(f, v, N)
  <1> DEFINE Bad == {m \in Nat : ~ \E f : PartialSums(f, v, m)}
  <1> SUFFICES ASSUME Bad # {} PROVE FALSE
    OBVIOUS
  <1>1. PICK m \in Bad : \A y \in Bad : m <= y
    <2>1. Bad \subseteq Nat
      OBVIOUS
    <2> HIDE DEF Bad
    <2> QED
      BY <2>1, LeastNat
  <1>2. CASE m = 0
    <2> DEFINE f == [n \in 0..0 |-> 0]
    <2>1. PartialSums(f, v, 0)
      BY DEF PartialSums
    <2> QED
      BY <1>2, <2>1
  <1>3. CASE m # 0
    <2>1. m - 1 \in Nat /\ m - 1 \notin Bad
      BY <1>1, <1>3
    <2>2. PICK f : PartialSums(f, v, m - 1)
      BY <2>1
    <2> DEFINE g == [n \in 0..m |-> IF n = m THEN f[m - 1] + v[m] ELSE f[n]]
    <2>3. PartialSums(g, v, m)
      <3>1. \A n \in 0..(m - 1) : f[n] = IF n = 0 THEN 0 ELSE f[n - 1] + v[n]
        BY <2>2 DEF PartialSums
      <3>2. ASSUME NEW n \in 0..m PROVE g[n] = IF n = 0 THEN 0 ELSE g[n - 1] + v[n]
        <4>1. CASE n = m
          BY <1>3, <4>1
        <4>2. CASE n # m
          BY <2>1, <3>1, <4>2
        <4> QED
          BY <4>1, <4>2
      <3>3. g = [n \in 0..m |-> g[n]]
        OBVIOUS
      <3> HIDE DEF g
      <3> QED
        BY <3>2, <3>3 DEF PartialSums
    <2> QED
      BY <2>3
  <1> QED
    BY <1>2, <1>3

LEMMA PartialSumsAgree ==
    ASSUME NEW f, NEW v, NEW N \in Nat, PartialSums(f, v, N),
           NEW g, NEW w, NEW M \in Nat, PartialSums(g, w, M), M <= N,
           \A n \in 1..M : v[n] = w[n]
    PROVE  \A n \in 0..M : f[n] = g[n]
  <1> DEFINE Bad == {m \in 0..M : f[m] # g[m]}
  <1> SUFFICES ASSUME Bad # {} PROVE FALSE
    OBVIOUS
  <1>1. PICK m \in Bad : \A y \in Bad : m <= y
    <2>1. Bad \subseteq Nat
      OBVIOUS
    <2> HIDE DEF Bad
    <2> QED
      BY <2>1, LeastNat
  <1>2. /\ f[m] = IF m = 0 THEN 0 ELSE f[m - 1] + v[m]
        /\ g[m] = IF m = 0 THEN 0 ELSE g[m - 1] + w[m]
    BY DEF PartialSums
  <1>3. m # 0
    BY <1>2
  <1>4. m - 1 \in 0..M /\ m - 1 \notin Bad
    BY <1>1, <1>3
  <1> QED
    BY <1>2, <1>3, <1>4

LEMMA PartialSumsType ==
    ASSUME NEW f, NEW v, NEW N \in Nat, PartialSums(f, v, N), \A n \in 1..N : v[n] \in Nat
    PROVE  \A n \in 0..N : f[n] \in Nat
  <1> DEFINE Bad == {m \in 0..N : f[m] \notin Nat}
  <1> SUFFICES ASSUME Bad # {} PROVE FALSE
    OBVIOUS
  <1>1. PICK m \in Bad : \A y \in Bad : m <= y
    <2>1. Bad \subseteq Nat
      OBVIOUS
    <2> HIDE DEF Bad
    <2> QED
      BY <2>1, LeastNat
  <1>2. f[m] = IF m = 0 THEN 0 ELSE f[m - 1] + v[m]
    BY DEF PartialSums
  <1>3. m # 0
    BY <1>2
  <1>4. m - 1 \in 0..N /\ m - 1 \notin Bad
    BY <1>1, <1>3
  <1> QED
    BY <1>2, <1>3, <1>4

LEMMA SumIsPartialSum ==
    ASSUME NEW v, Len(v) \in Nat
    PROVE  \E f : PartialSums(f, v, Len(v)) /\ SumOf(v) = f[Len(v)]
  <1> DEFINE P(f) == f = [n \in 0..Len(v) |-> IF n = 0 THEN 0 ELSE f[n - 1] + v[n]]
  <1>1. \E f : P(f)
    BY PartialSumsExist DEF PartialSums
  <1>2. P(CHOOSE f : P(f))
    <2> HIDE DEF P
    <2> QED
      BY <1>1
  <1>3. SumOf(v) = (CHOOSE f : P(f))[Len(v)]
    BY DEF SumOf
  <1> QED
    BY <1>2, <1>3 DEF PartialSums

(* A sum starts at 0 and grows by what is appended. *)
LEMMA SumEmpty == SumOf(<<>>) = 0
  BY SumIsPartialSum DEF PartialSums

LEMMA SumType == ASSUME NEW v \in Seq(Nat) PROVE SumOf(v) \in Nat
  <1>1. Len(v) \in Nat /\ \A n \in 1..Len(v) : v[n] \in Nat
    OBVIOUS
  <1> QED
    BY <1>1, SumIsPartialSum, PartialSumsType

LEMMA SumAppend ==
    ASSUME NEW v \in Seq(Nat), NEW x \in Nat
    PROVE  SumOf(Append(v, x)) = SumOf(v) + x
  <1> DEFINE w == Append(v, x)
             N == Len(v)
  <1>1. N \in Nat /\ Len(w) = N + 1 /\ w[N + 1] = x /\ \A n \in 1..N : w[n] = v[n]
    OBVIOUS
  <1>2. PICK f : PartialSums(f, v, N) /\ SumOf(v) = f[N]
    BY SumIsPartialSum
  <1> HIDE DEF w, N
  <1>3. PICK g : PartialSums(g, w, N + 1) /\ SumOf(w) = g[N + 1]
    BY <1>1, SumIsPartialSum
  <1>4. g[N] = f[N]
    BY <1>1, <1>2, <1>3, PartialSumsAgree
  <1>5. g[N + 1] = g[N] + w[N + 1]
    BY <1>1, <1>3 DEF PartialSums
  <1> QED
    BY <1>1, <1>2, <1>3, <1>4, <1>5 DEF w

----------------------------------------------------------------------------
(* The instructions fall into a few shapes; each invariant is proved once   *)
(* per shape.                                                               *)

AddShape ==
    \E s \in Slots, k \in Kinds : \E c \in Configs(k) : AddRule(k, s, c)

(* What the counters of a rule are measured against, which no update        *)
(* instruction rewrites.                                                    *)
SameLimits(k, c, d) ==
    /\ k = "VELOCITY" => c = d
    /\ k = "SPENDING_USD" => c.caps = d.caps
    /\ k = "RECOVERY" => c.policy = d.policy

UpdateShape ==
    \E s \in Slots, k \in Kinds : \E c \in Configs(k) :
        /\ RuleAt(k, s)
        /\ SameLimits(k, c, rule_pda[<<k, s>>].cfg)
        /\ \E op, extras : UpdateRule(k, s, op, extras, c)

RemoveShape == \E s \in Slots : remove_rule(s)

(* pause, resume, and the Recovery updates that change nothing. *)
CommandShape ==
    /\ \E c : verify_owner_admin(c) /\ c.nonce = next_admin_nonce
    /\ paused' \in BOOLEAN
    /\ UNCHANGED <<rules_count, rules_generation, rules_flat, rule_pda,
                   envVars, signVars, approvals>>

SignShape == \E r \in requests : \E i \in DOMAIN r.legs : request_signature(r, i)

(* What a signing path that runs the rules does to the engine. *)
DispatchShape ==
    /\ \E req, path, skip :
          /\ req.amount \in Nat /\ req.asset \in Nat
          /\ dispatch_active_rules(req, path, skip)
    /\ UNCHANGED <<next_admin_nonce, paused, rules_count, rules_generation, rules_flat,
                   envVars, signVars, applied>>

(* What a signing path that runs none of them does: it may move the         *)
(* counters of a RECOVERY rule.                                             *)
RecoverShape ==
    /\ \/ rule_pda' = rule_pda
       \/ \E s \in Slots : \E st : /\ "RECOVERY" \in Kinds
                                    /\ rule_pda[<<"RECOVERY", s>>].exists
                                    /\ rule_pda' = [rule_pda EXCEPT ![<<"RECOVERY", s>>].st = st]
    /\ UNCHANGED <<next_admin_nonce, paused, rules_count, rules_generation, rules_flat,
                   envVars, signVars, applied>>

LEMMA SignIsDispatch == TypeOK /\ SignShape => DispatchShape
  <1> SUFFICES ASSUME TypeOK, NEW r \in requests, NEW i \in DOMAIN r.legs, request_signature(r, i)
               PROVE  DispatchShape
    BY DEF SignShape
  <1> DEFINE req == request_metadata_digest(r.legs[i], rules_generation, "normal")
  <1>1. r.legs[i].amount \in Nat /\ r.legs[i].asset \in Nat
    BY ItemAssumption DEF TypeOK, Items
  <1>2. req.amount \in Nat /\ req.asset \in Nat
    BY <1>1 DEF request_metadata_digest
  <1>3. dispatch_active_rules(req, "normal", {})
    BY DEF request_signature
  <1> HIDE DEF req
  <1> QED
    BY <1>2, <1>3 DEF DispatchShape, request_signature

EnvShape ==
    /\ UNCHANGED <<engineVars, applied, approvals>>
    /\ now' = now \/ now' = now + 1
    /\ commands \subseteq commands'
    /\ decisions \subseteq decisions'
    /\ requests' = requests \/ OwnerSignsRequest
    /\ prices' = prices \/ \E f \in Feed : PublishPrice(f)

(* A configuration accepted at creation is one the kind may have. *)
LEMMA NewConfigsAreConfigs ==
    ASSUME NEW k \in AllKinds PROVE NewConfigs(k) \subseteq Configs(k)
  <1> SUFFICES ASSUME NEW c \in NewConfigs(k) PROVE c \in Configs(k)
    OBVIOUS
  <1>1. CASE k = "ALLOWLIST"
    BY <1>1 DEF NewConfigs, Configs, AllowlistConfigs
  <1>2. CASE k = "VELOCITY"
    BY <1>2 DEF NewConfigs, Configs, VelocityConfigs
  <1>3. CASE k = "TIME_LOCK"
    BY <1>3 DEF NewConfigs, Configs, TimeLockConfigs
  <1>4. CASE k = "ORACLE"
    BY <1>4 DEF NewConfigs, Configs, OracleConfigs
  <1>5. CASE k = "PASSKEY"
    BY <1>5 DEF NewConfigs, Configs, PasskeyConfigs
  <1>6. CASE k = "FHE_GATED"
    BY <1>6 DEF NewConfigs, Configs, FheGatedConfigs
  <1>7. CASE k = "SESSION_KEY"
    BY <1>7 DEF NewConfigs, Configs, SessionKeyConfigs
  <1>8. CASE k = "RECOVERY"
    BY <1>8 DEF NewConfigs, Configs, RecoveryConfigs
  <1>9. CASE k = "SPENDING_USD"
    <2>1. c \in SpendingUsdConfigs
      BY <1>9 DEF NewConfigs
    <2>a. c.feeds = <<>>
      BY <2>1 DEF SpendingUsdConfigs
    <2>b. \A S : <<>> \in Seq(S)
      OBVIOUS
    <2>2. c.feeds \in Seq(SpendingFeeds)
      BY <2>a, <2>b
    <2>3. Configs(k) = [applies : {{"normal"}}, fresh : Freshness, maxConf : MaxConfidence,
                        caps : SpendingCaps, feeds : Seq(SpendingFeeds)]
      BY <1>9 DEF Configs
    <2> QED
      BY <2>1, <2>2, <2>3 DEF SpendingUsdConfigs
  <1> QED
    BY <1>1, <1>2, <1>3, <1>4, <1>5, <1>6, <1>7, <1>8, <1>9 DEF AllKinds

(* Hashing keeps a configuration within its kind. *)
LEMMA HashIsConfig ==
    ASSUME NEW k \in AllKinds, NEW c \in Configs(k) PROVE ConfigHash(k, c) \in Configs(k)
  BY DEF ConfigHash, Configs, AllKinds

----------------------------------------------------------------------------
(* The rule an update instruction finds has a configuration of its kind. *)
LEMMA RuleAtType ==
    ASSUME TypeOK, NEW s \in Slots, NEW k \in AllKinds, RuleAt(k, s)
    PROVE  /\ k \in Kinds
           /\ Pda(s) = rule_pda[<<k, s>>]
           /\ Pda(s).cfg \in Configs(k)
  <1>1. rules_flat[s] \in {EMPTY} \cup Entries /\ rules_flat[s].kind = k
    BY DEF TypeOK, RuleAt
  <1>2. rules_flat[s] # EMPTY
    BY <1>1 DEF EMPTY, AllKinds
  <1>3. k \in Kinds
    BY <1>1, <1>2 DEF Entries
  <1>4. Pda(s) = rule_pda[<<k, s>>]
    BY <1>1 DEF Pda
  <1>5. rule_pda[<<k, s>>] # NoAccount
    BY DEF RuleAt, NoAccount
  <1>6. rule_pda[<<k, s>>].cfg \in Configs(k)
    BY <1>3, <1>5 DEF TypeOK, AccountOK
  <1> QED
    BY <1>3, <1>4, <1>6

(* An update has the update shape when the configuration it writes is one   *)
(* of the kind.                                                             *)
LEMMA UpdateHasShape ==
    ASSUME TypeOK, NEW s \in Slots, NEW k \in AllKinds, RuleAt(k, s), NEW c \in Configs(k),
           SameLimits(k, c, Pda(s).cfg), NEW op, NEW extras, UpdateRule(k, s, op, extras, c)
    PROVE  UpdateShape
  BY RuleAtType DEF UpdateShape

LEMMA NonceOnlyHasShape ==
    ASSUME TypeOK, NEW op, NEW k, NEW s, NEW extras,
           NonceOnly(UpdateCommand(op, k, s, extras))
    PROVE  CommandShape
  BY DEF TypeOK, CommandShape, NonceOnly, UpdateCommand, admin_challenge

LEMMA UpdateStepHasShape ==
    ASSUME TypeOK, NEW s \in Slots, UpdateRuleStep(s)
    PROVE  UpdateShape \/ CommandShape
  <1>1. ASSUME NEW d \in Dest, update_rule_allowlist_add_destination(s, d)
        PROVE  UpdateShape
    <2> DEFINE c == [Pda(s).cfg EXCEPT !.dests = @ \cup {d}]
    <2>1. RuleAt("ALLOWLIST", s) /\ UpdateRule("ALLOWLIST", s, "add_dest", [dest |-> d], c)
      BY <1>1 DEF update_rule_allowlist_add_destination
    <2>2. Pda(s).cfg \in Configs("ALLOWLIST")
      BY <2>1, RuleAtType DEF AllKinds
    <2>3. c \in Configs("ALLOWLIST")
      BY <2>2 DEF Configs
    <2> QED
      BY <2>1, <2>3, UpdateHasShape DEF AllKinds, SameLimits, SameLimits, SameLimits
  <1>2. ASSUME NEW d \in Dest, update_rule_allowlist_remove_destination(s, d)
        PROVE  UpdateShape
    <2> DEFINE c == [Pda(s).cfg EXCEPT !.dests = @ \ {d}]
    <2>1. RuleAt("ALLOWLIST", s) /\ UpdateRule("ALLOWLIST", s, "remove_dest", [dest |-> d], c)
      BY <1>2 DEF update_rule_allowlist_remove_destination
    <2>2. Pda(s).cfg \in Configs("ALLOWLIST")
      BY <2>1, RuleAtType DEF AllKinds
    <2>3. c \in Configs("ALLOWLIST")
      BY <2>2 DEF Configs
    <2> QED
      BY <2>1, <2>3, UpdateHasShape DEF AllKinds, SameLimits, SameLimits, SameLimits
  <1>3. ASSUME NEW f \in OracleFeeds, update_rule_oracle_add_feed(s, f)
        PROVE  UpdateShape
    <2> DEFINE c == [Pda(s).cfg EXCEPT !.feeds = @ \cup {f}]
    <2>1. RuleAt("ORACLE", s) /\ UpdateRule("ORACLE", s, "add_feed", [feed |-> f], c)
      BY <1>3 DEF update_rule_oracle_add_feed
    <2>2. Pda(s).cfg \in Configs("ORACLE")
      BY <2>1, RuleAtType DEF AllKinds
    <2>3. c \in Configs("ORACLE")
      BY <2>2 DEF Configs
    <2> QED
      BY <2>1, <2>3, UpdateHasShape DEF AllKinds, SameLimits, SameLimits, SameLimits
  <1>4. ASSUME NEW f \in SpendingFeeds, update_rule_spending_usd_add_feed(s, f)
        PROVE  UpdateShape
    <2> DEFINE c == [Pda(s).cfg EXCEPT !.feeds = Append(@, f)]
               R == [applies : {{"normal"}}, fresh : Freshness, maxConf : MaxConfidence,
                     caps : SpendingCaps, feeds : Seq(SpendingFeeds)]
               F == Seq(SpendingFeeds)
    <2>1. RuleAt("SPENDING_USD", s)
            /\ UpdateRule("SPENDING_USD", s, "add_asset", [feed |-> f], c)
      BY <1>4 DEF update_rule_spending_usd_add_feed
    <2>2. Pda(s).cfg \in Configs("SPENDING_USD")
      BY <2>1, RuleAtType DEF AllKinds
    <2>3. Configs("SPENDING_USD") = R
      BY DEF Configs
    <2>4. Pda(s).cfg.feeds \in F
      <3>1. R = [applies : {{"normal"}}, fresh : Freshness, maxConf : MaxConfidence,
                 caps : SpendingCaps, feeds : F]
        OBVIOUS
      <3> HIDE DEF F
      <3>2. \A x \in R : x.feeds \in F
        BY <3>1
      <3> HIDE DEF R
      <3> QED
        BY <2>2, <2>3, <3>2
    <2>5. Append(Pda(s).cfg.feeds, f) \in Seq(SpendingFeeds)
      BY <2>4
    <2>6. c \in R
      <3>1. Append(Pda(s).cfg.feeds, f) \in F
        BY <2>5
      <3>2. R = [applies : {{"normal"}}, fresh : Freshness, maxConf : MaxConfidence,
                 caps : SpendingCaps, feeds : F]
        OBVIOUS
      <3> HIDE DEF F, R
      <3> QED
        BY <2>2, <2>3, <3>1, <3>2
    <2>7. SameLimits("SPENDING_USD", c, Pda(s).cfg)
      <3>1. R = [applies : {{"normal"}}, fresh : Freshness, maxConf : MaxConfidence,
                 caps : SpendingCaps, feeds : F]
        OBVIOUS
      <3> HIDE DEF F, R
      <3> QED
        BY <2>2, <2>3, <3>1 DEF SameLimits
    <2> HIDE DEF c
    <2> QED
      BY <2>1, <2>3, <2>6, <2>7, UpdateHasShape DEF AllKinds
  <1>5. ASSUME NEW a \in SUBSET Authority, update_rule_fhe_gated_authorities(s, a)
        PROVE  UpdateShape
    <2> DEFINE c == [Pda(s).cfg EXCEPT !.authorities = a]
    <2>1. RuleAt("FHE_GATED", s)
            /\ UpdateRule("FHE_GATED", s, "authorities", [authorities |-> a], c)
      BY <1>5 DEF update_rule_fhe_gated_authorities
    <2>2. Pda(s).cfg \in Configs("FHE_GATED")
      BY <2>1, RuleAtType DEF AllKinds
    <2>3. c \in Configs("FHE_GATED")
      BY <2>2 DEF Configs
    <2> QED
      BY <2>1, <2>3, UpdateHasShape DEF AllKinds, SameLimits, SameLimits, SameLimits
  <1>6. ASSUME NEW m \in Member, update_rule_recovery_add_member(s, m)
        PROVE  UpdateShape \/ CommandShape
    <2> DEFINE c == [Pda(s).cfg EXCEPT !.members = @ \cup {m}]
    <2>1. /\ RuleAt("RECOVERY", s)
          /\ \/ UpdateRule("RECOVERY", s, "add_member", [member |-> m], c)
             \/ NonceOnly(UpdateCommand("add_member", "RECOVERY", s, [member |-> m]))
      BY <1>6 DEF update_rule_recovery_add_member
    <2>2. Pda(s).cfg \in Configs("RECOVERY")
      BY <2>1, RuleAtType DEF AllKinds
    <2>3. c \in Configs("RECOVERY")
      BY <2>2 DEF Configs
    <2>4. SameLimits("RECOVERY", c, Pda(s).cfg)
      BY <2>2 DEF Configs, SameLimits
    <2> QED
      BY <2>1, <2>3, <2>4, UpdateHasShape, NonceOnlyHasShape DEF AllKinds
  <1>7. ASSUME NEW m \in Member, update_rule_recovery_remove_member(s, m)
        PROVE  UpdateShape
    <2> DEFINE c == [Pda(s).cfg EXCEPT !.members = @ \ {m}]
    <2>1. RuleAt("RECOVERY", s)
            /\ UpdateRule("RECOVERY", s, "remove_member", [member |-> m], c)
      BY <1>7 DEF update_rule_recovery_remove_member
    <2>2. Pda(s).cfg \in Configs("RECOVERY")
      BY <2>1, RuleAtType DEF AllKinds
    <2>3. c \in Configs("RECOVERY")
      BY <2>2 DEF Configs
    <2>4. SameLimits("RECOVERY", c, Pda(s).cfg)
      BY <2>2 DEF Configs, SameLimits
    <2> QED
      BY <2>1, <2>3, <2>4, UpdateHasShape DEF AllKinds, SameLimits, SameLimits
  <1>8. ASSUME NEW d \in Dest, update_rule_recovery_add_destination(s, d)
        PROVE  UpdateShape \/ CommandShape
    <2> DEFINE c == [Pda(s).cfg EXCEPT !.dests = @ \cup {d}]
    <2>1. /\ RuleAt("RECOVERY", s)
          /\ \/ UpdateRule("RECOVERY", s, "add_dest", [dest |-> d], c)
             \/ NonceOnly(UpdateCommand("add_dest", "RECOVERY", s, [dest |-> d]))
      BY <1>8 DEF update_rule_recovery_add_destination
    <2>2. Pda(s).cfg \in Configs("RECOVERY")
      BY <2>1, RuleAtType DEF AllKinds
    <2>3. c \in Configs("RECOVERY")
      BY <2>2 DEF Configs
    <2>4. SameLimits("RECOVERY", c, Pda(s).cfg)
      BY <2>2 DEF Configs, SameLimits
    <2> QED
      BY <2>1, <2>3, <2>4, UpdateHasShape, NonceOnlyHasShape DEF AllKinds
  <1>9. ASSUME NEW d \in Dest, update_rule_recovery_remove_destination(s, d)
        PROVE  UpdateShape
    <2> DEFINE c == [Pda(s).cfg EXCEPT !.dests = @ \ {d}]
    <2>1. RuleAt("RECOVERY", s)
            /\ UpdateRule("RECOVERY", s, "remove_dest", [dest |-> d], c)
      BY <1>9 DEF update_rule_recovery_remove_destination
    <2>2. Pda(s).cfg \in Configs("RECOVERY")
      BY <2>1, RuleAtType DEF AllKinds
    <2>3. c \in Configs("RECOVERY")
      BY <2>2 DEF Configs
    <2>4. SameLimits("RECOVERY", c, Pda(s).cfg)
      BY <2>2 DEF Configs, SameLimits
    <2> QED
      BY <2>1, <2>3, <2>4, UpdateHasShape DEF AllKinds, SameLimits, SameLimits
  <1> QED
    BY <1>1, <1>2, <1>3, <1>4, <1>5, <1>6, <1>7, <1>8, <1>9 DEF UpdateRuleStep

(* Every step has one of the shapes. *)
LEMMA StepHasShape ==
    ASSUME TypeOK, Next
    PROVE  AddShape \/ UpdateShape \/ RemoveShape \/ CommandShape \/ SignShape \/ EnvShape
  <1>1. ASSUME NEW s \in Slots, AddRuleStep(s) PROVE AddShape
    <2>1. \E k \in AllKinds : \E c \in NewConfigs(k) : AddRule(k, s, c)
      BY <1>1 DEF AddRuleStep, AllKinds, NewConfigs,
           add_rule_allowlist, add_rule_velocity, add_rule_time_lock, add_rule_oracle,
           add_rule_spending_usd, add_rule_passkey, add_rule_fhe_gated,
           add_rule_session_key, add_rule_recovery
    <2>2. PICK k \in AllKinds : \E c \in Configs(k) : AddRule(k, s, c)
      BY <2>1, NewConfigsAreConfigs
    <2>3. k \in Kinds
      BY <2>2 DEF AddRule
    <2> QED
      BY <2>2, <2>3 DEF AddShape
  <1>2. ASSUME NEW s \in Slots, UpdateRuleStep(s) PROVE UpdateShape \/ CommandShape
    BY <1>2, UpdateStepHasShape
  <1>3. ASSUME pause \/ resume PROVE CommandShape
    <2>1. PICK op \in {"pause", "resume"}, v \in BOOLEAN : SetPaused(op, v)
      BY <1>3 DEF pause, resume
    <2>2. verify_owner_admin(EngineCommand(op))
            /\ EngineCommand(op).nonce = next_admin_nonce
      BY <2>1 DEF SetPaused, EngineCommand, admin_challenge
    <2>3. /\ paused' \in BOOLEAN
          /\ UNCHANGED <<rules_count, rules_generation, rules_flat, rule_pda,
                         envVars, signVars, approvals>>
      BY <2>1 DEF SetPaused
    <2> QED
      BY <2>2, <2>3 DEF CommandShape
  <1>4. ASSUME EnvStep PROVE EnvShape
    BY <1>4 DEF EnvShape, EnvStep, OwnerSignsCommand, OwnerSignsRequest, Tick, PublishPrice,
         Decide, engineVars, envVars, signVars
  <1> QED
    BY <1>1, <1>2, <1>3, <1>4 DEF Next, EngineStep, RemoveShape, SignShape

----------------------------------------------------------------------------
(* Type correctness. *)

(* The shapes a step of the engine takes, whichever signing path it is on. *)
EngineShape ==
    \/ AddShape \/ UpdateShape \/ RemoveShape \/ CommandShape \/ DispatchShape \/ RecoverShape
    \/ EnvShape \/ UNCHANGED vars

(* The steps of the engine itself do not touch the counters of RECOVERY. *)
OwnShape ==
    \/ AddShape \/ UpdateShape \/ RemoveShape \/ CommandShape \/ DispatchShape
    \/ EnvShape \/ UNCHANGED vars

LEMMA OwnShapes == TypeOK /\ [Next]_vars => OwnShape
  BY StepHasShape, SignIsDispatch DEF OwnShape

LEMMA EngineShapes == TypeOK /\ [Next]_vars => EngineShape
  BY OwnShapes DEF OwnShape, EngineShape

LEMMA ConfigsWithinAny ==
    ASSUME NEW k \in Kinds PROVE Configs(k) \subseteq AnyConfig
  BY DEF AnyConfig

LEMMA AddKeepsType == TypeOK /\ AddShape => TypeOK'
  <1> SUFFICES ASSUME TypeOK, NEW s \in Slots, NEW k \in Kinds, NEW c \in Configs(k),
                      AddRule(k, s, c)
               PROVE  TypeOK'
    BY DEF AddShape
  <1> DEFINE h == ConfigHash(k, c)
             g == rules_flat[s].generation + 1
             r == [exists |-> TRUE, generation |-> g, hash |-> h, cfg |-> c,
                   st |-> InitialState(k, c, now)]
  <1>1. h \in Configs(k)
    BY HashIsConfig, KindsAssumption
  <1>2. g \in Nat
    BY DEF AddRule, EMPTY
  <1>3. /\ rule_pda' = [rule_pda EXCEPT ![<<k, s>>] = r]
        /\ rules_flat' = [rules_flat EXCEPT ![s] = [kind |-> k, generation |-> g, hash |-> h]]
    BY DEF AddRule
  <1>4. [kind |-> k, generation |-> g, hash |-> h] \in Entries
    BY <1>1, <1>2, ConfigsWithinAny DEF Entries
  <1>5. rules_flat' \in [Slots -> {EMPTY} \cup Entries]
    BY <1>3, <1>4 DEF TypeOK
  <1>6. AccountOK(k, r)
    <2> HIDE DEF g, h
    <2> QED
      BY <1>1, <1>2 DEF AccountOK
  <1>7. DOMAIN rule_pda' = Addresses
    BY <1>3 DEF TypeOK
  <1>8. \A k2 \in Kinds, s2 \in Slots : AccountOK(k2, rule_pda'[<<k2, s2>>])
    <2> HIDE DEF r
    <2> TAKE k2 \in Kinds, s2 \in Slots
    <2>1. CASE k2 = k /\ s2 = s
      BY <2>1, <1>3, <1>6 DEF TypeOK, Addresses
    <2>2. CASE ~(k2 = k /\ s2 = s)
      <3>1. rule_pda'[<<k2, s2>>] = rule_pda[<<k2, s2>>]
        BY <2>2, <1>3 DEF TypeOK, Addresses
      <3> QED
        BY <3>1 DEF TypeOK
    <2> QED
      BY <2>1, <2>2
  <1>9. /\ next_admin_nonce' \in Nat /\ paused' \in BOOLEAN /\ rules_count' \in Nat
        /\ rules_generation' \in Nat /\ now' \in Nat
        /\ prices' = prices /\ requests' = requests
    BY DEF TypeOK, AddRule, verify_owner_admin, NextAdminNonce, BumpRulesGeneration, envVars, signVars
  <1> QED
    BY <1>5, <1>7, <1>8, <1>9 DEF TypeOK, Addresses

LEMMA UpdateKeepsType == TypeOK /\ UpdateShape => TypeOK'
  <1> SUFFICES ASSUME TypeOK, NEW s \in Slots, NEW k \in Kinds, NEW c \in Configs(k),
                      RuleAt(k, s), NEW op, NEW extras, UpdateRule(k, s, op, extras, c)
               PROVE  TypeOK'
    BY DEF UpdateShape
  <1> DEFINE h == ConfigHash(k, c)
             g == rules_flat[s].generation + 1
             r == rule_pda[<<k, s>>]
             q == [r EXCEPT !.generation = g, !.hash = h, !.cfg = c]
             e == rules_flat[s]
             f == [e EXCEPT !.generation = g, !.hash = h]
  <1>1. h \in Configs(k)
    BY HashIsConfig, KindsAssumption
  <1>2. /\ rule_pda' = [rule_pda EXCEPT ![<<k, s>>] = q]
        /\ rules_flat' = [rules_flat EXCEPT ![s] = f]
    BY DEF UpdateRule, WriteConfig
  <1>3. e \in Entries
    <2>1. e.kind = k /\ k # "EMPTY"
      BY KindsAssumption DEF RuleAt, AllKinds
    <2> QED
      BY <2>1 DEF TypeOK, EMPTY
  <1>4. g \in Nat
    BY <1>3 DEF Entries
  <1>5. f \in Entries
    <2>1. h \in AnyConfig
      BY <1>1, ConfigsWithinAny
    <2> HIDE DEF e, g, h
    <2> QED
      BY <1>3, <1>4, <2>1 DEF Entries
  <1>6. rules_flat' \in [Slots -> {EMPTY} \cup Entries]
    <2> HIDE DEF f
    <2> QED
      BY <1>2, <1>5 DEF TypeOK
  <1>7. AccountOK(k, q)
    <2>1. AccountOK(k, r) /\ r # NoAccount
      BY DEF TypeOK, RuleAt, NoAccount
    <2> HIDE DEF r, g, h
    <2> QED
      BY <2>1, <1>1, <1>4 DEF AccountOK
  <1>8. DOMAIN rule_pda' = Addresses
    BY <1>2 DEF TypeOK
  <1>9. \A k2 \in Kinds, s2 \in Slots : AccountOK(k2, rule_pda'[<<k2, s2>>])
    <2> HIDE DEF q
    <2> TAKE k2 \in Kinds, s2 \in Slots
    <2>1. CASE k2 = k /\ s2 = s
      BY <2>1, <1>2, <1>7 DEF TypeOK, Addresses
    <2>2. CASE ~(k2 = k /\ s2 = s)
      <3>1. rule_pda'[<<k2, s2>>] = rule_pda[<<k2, s2>>]
        BY <2>2, <1>2 DEF TypeOK, Addresses
      <3> QED
        BY <3>1 DEF TypeOK
    <2> QED
      BY <2>1, <2>2
  <1>10. /\ next_admin_nonce' \in Nat /\ paused' \in BOOLEAN /\ rules_count' \in Nat
         /\ rules_generation' \in Nat /\ now' \in Nat
        /\ prices' = prices /\ requests' = requests
    BY DEF TypeOK, UpdateRule, verify_owner_admin, NextAdminNonce, BumpRulesGeneration, envVars, signVars
  <1> QED
    BY <1>6, <1>8, <1>9, <1>10 DEF TypeOK, Addresses

LEMMA RemoveKeepsType == TypeOK /\ RemoveShape => TypeOK'
  <1> SUFFICES ASSUME TypeOK, NEW s \in Slots, remove_rule(s) PROVE TypeOK'
    BY DEF RemoveShape
  <1> DEFINE k == rules_flat[s].kind
  <1>1. /\ rule_pda' = [rule_pda EXCEPT ![<<k, s>>] = NoAccount]
        /\ rules_flat' = [rules_flat EXCEPT ![s] = EMPTY]
    BY DEF remove_rule
  <1>2. rules_flat' \in [Slots -> {EMPTY} \cup Entries] /\ DOMAIN rule_pda' = Addresses
    BY <1>1 DEF TypeOK
  <1>3. \A k2 \in Kinds, s2 \in Slots : AccountOK(k2, rule_pda'[<<k2, s2>>])
    <2> HIDE DEF k
    <2> TAKE k2 \in Kinds, s2 \in Slots
    <2>1. CASE k2 = k /\ s2 = s
      BY <2>1, <1>1 DEF TypeOK, Addresses, AccountOK
    <2>2. CASE ~(k2 = k /\ s2 = s)
      <3>1. rule_pda'[<<k2, s2>>] = rule_pda[<<k2, s2>>]
        BY <2>2, <1>1 DEF TypeOK, Addresses
      <3> QED
        BY <3>1 DEF TypeOK
    <2> QED
      BY <2>1, <2>2
  <1>4. /\ next_admin_nonce' \in Nat /\ paused' \in BOOLEAN /\ rules_count' \in Nat
        /\ rules_generation' \in Nat /\ now' \in Nat
        /\ prices' = prices /\ requests' = requests
    BY DEF TypeOK, remove_rule, verify_owner_admin, NextAdminNonce, BumpRulesGeneration, envVars, signVars
  <1> QED
    BY <1>2, <1>3, <1>4 DEF TypeOK, Addresses

(* A signature changes nothing but the counters of the rules. *)
LEMMA SignFrame ==
    ASSUME TypeOK, DispatchShape \/ RecoverShape
    PROVE  /\ UNCHANGED <<next_admin_nonce, paused, rules_count, rules_generation,
                          rules_flat, now, prices, commands, requests, applied>>
           /\ DOMAIN rule_pda' = Addresses
           /\ \A a \in Addresses :
                  \/ rule_pda'[a] = rule_pda[a]
                  \/ \E v : rule_pda'[a] = [rule_pda[a] EXCEPT !.st = v]
  <1>1. CASE DispatchShape
    BY <1>1 DEF DispatchShape, dispatch_active_rules, envVars, signVars
  <1>2. CASE RecoverShape
    <2>1. CASE rule_pda' = rule_pda
      BY <1>2, <2>1 DEF RecoverShape, envVars, signVars, TypeOK
    <2>2. ASSUME NEW s \in Slots, NEW st, "RECOVERY" \in Kinds,
                 rule_pda' = [rule_pda EXCEPT ![<<"RECOVERY", s>>].st = st]
          PROVE  /\ DOMAIN rule_pda' = Addresses
                 /\ \A a \in Addresses :
                        \/ rule_pda'[a] = rule_pda[a]
                        \/ \E v : rule_pda'[a] = [rule_pda[a] EXCEPT !.st = v]
      BY <2>2 DEF TypeOK
    <2> QED
      BY <1>2, <2>1, <2>2 DEF RecoverShape, envVars, signVars
  <1> QED
    BY <1>1, <1>2

LEMMA SignKeepsType == TypeOK /\ (DispatchShape \/ RecoverShape) => TypeOK'
  <1> SUFFICES ASSUME TypeOK, DispatchShape \/ RecoverShape PROVE TypeOK'
    OBVIOUS
  <1>1. \A k \in Kinds, s \in Slots : AccountOK(k, rule_pda'[<<k, s>>])
    <2> TAKE k \in Kinds, s \in Slots
    <2>1. AccountOK(k, rule_pda[<<k, s>>]) /\ <<k, s>> \in Addresses
      BY DEF TypeOK, Addresses
    <2>2. CASE rule_pda'[<<k, s>>] = rule_pda[<<k, s>>]
      BY <2>1, <2>2
    <2>3. ASSUME NEW v, rule_pda'[<<k, s>>] = [rule_pda[<<k, s>>] EXCEPT !.st = v]
          PROVE  AccountOK(k, rule_pda'[<<k, s>>])
      BY <2>1, <2>3 DEF AccountOK, NoAccount
    <2> QED
      BY <2>1, <2>2, <2>3, SignFrame
  <1> QED
    BY <1>1, SignFrame DEF TypeOK, Addresses

LEMMA OthersKeepType == TypeOK /\ (CommandShape \/ EnvShape \/ UNCHANGED vars) => TypeOK'
  <1> SUFFICES ASSUME TypeOK, CommandShape \/ EnvShape \/ UNCHANGED vars PROVE TypeOK'
    OBVIOUS
  <1>1. /\ next_admin_nonce' \in Nat /\ paused' \in BOOLEAN /\ now' \in Nat
        /\ UNCHANGED <<rules_count, rules_generation, rules_flat, rule_pda>>
    BY DEF TypeOK, CommandShape, EnvShape, vars, engineVars, envVars, verify_owner_admin,
           NextAdminNonce
  <1>2. DOMAIN prices' = Feed /\ \A f \in Feed : prices'[f].price \in Nat
    <2>1. CASE prices' = prices
      BY <2>1 DEF TypeOK
    <2>2. ASSUME NEW f \in Feed, PublishPrice(f)
          PROVE  DOMAIN prices' = Feed /\ \A g \in Feed : prices'[g].price \in Nat
      <3>1. PICK p \in Prices :
               \E ts : prices' = [prices EXCEPT ![f] = [price |-> p.price, conf |-> p.conf,
                                                        ts |-> ts, refreshed |-> now]]
        BY <2>2 DEF PublishPrice
      <3>2. p.price \in Nat
        BY PriceAssumption
      <3> QED
        BY <3>1, <3>2 DEF TypeOK
    <2> QED
      BY <2>1, <2>2 DEF CommandShape, EnvShape, vars, envVars
  <1>3. \A r \in requests' : \A i \in DOMAIN r.legs : r.legs[i] \in Items
    <2>1. CASE requests' = requests
      BY <2>1 DEF TypeOK
    <2>2. CASE OwnerSignsRequest
      <3>1. PICK b \in Bundles :
               requests' = requests \cup {[legs |-> b, generation |-> rules_generation,
                                           view |-> View]}
        BY <2>2 DEF OwnerSignsRequest
      <3>2. \A i \in DOMAIN b : b[i] \in Items
        BY DEF Bundles
      <3>3. [legs |-> b, generation |-> rules_generation, view |-> View].legs = b
        OBVIOUS
      <3> QED
        BY <3>1, <3>2, <3>3 DEF TypeOK
    <2> QED
      BY <2>1, <2>2 DEF CommandShape, EnvShape, vars, signVars
  <1> QED
    BY <1>1, <1>2, <1>3 DEF TypeOK, Addresses

LEMMA TypeInit == Init => TypeOK
  <1> SUFFICES ASSUME Init PROVE TypeOK
    OBVIOUS
  <1>1. rules_flat \in [Slots -> {EMPTY} \cup Entries]
    BY DEF Init
  <1>2. DOMAIN rule_pda = Addresses
    BY DEF Init
  <1>3. \A k \in Kinds, s \in Slots : AccountOK(k, rule_pda[<<k, s>>])
    BY DEF Init, AccountOK, Addresses
  <1>4. DOMAIN prices = Feed /\ \A f \in Feed : prices[f].price \in Nat
    BY PriceAssumption DEF Init
  <1> QED
    BY <1>1, <1>2, <1>3, <1>4, TimeAssumption DEF Init, TypeOK

LEMMA TypeStep == TypeOK /\ EngineShape => TypeOK'
  BY AddKeepsType, UpdateKeepsType, RemoveKeepsType, SignKeepsType, OthersKeepType DEF EngineShape

(* The accounts always have their types. *)
THEOREM TypeCorrect == Spec => []TypeOK
  BY TypeInit, TypeStep, EngineShapes, PTL DEF Spec

----------------------------------------------------------------------------
(* The entry of a slot and its sub-account. *)

LEMMA AddKeepsMirror == TypeOK /\ HeadersMirrored /\ AddShape => HeadersMirrored'
  <1> SUFFICES ASSUME TypeOK, HeadersMirrored, NEW s \in Slots, NEW k \in Kinds,
                      NEW c \in Configs(k), AddRule(k, s, c),
                      NEW k2 \in Kinds, NEW s2 \in Slots
               PROVE  Mirrored(k2, s2)'
    BY DEF AddShape, HeadersMirrored
  <1> DEFINE h == ConfigHash(k, c)
             g == rules_flat[s].generation + 1
             r == [exists |-> TRUE, generation |-> g, hash |-> h, cfg |-> c,
                   st |-> InitialState(k, c, now)]
  <1>1. /\ rule_pda' = [rule_pda EXCEPT ![<<k, s>>] = r]
        /\ rules_flat' = [rules_flat EXCEPT ![s] = [kind |-> k, generation |-> g, hash |-> h]]
    BY DEF AddRule
  <1>2. Mirrored(k2, s2)
    BY DEF HeadersMirrored
  <1>3. CASE s2 # s
    BY <1>1, <1>2, <1>3 DEF TypeOK, Addresses, Mirrored
  <1>4. CASE s2 = s /\ k2 = k
    <2>1. rule_pda'[<<k, s>>] = r /\ rules_flat'[s] = [kind |-> k, generation |-> g, hash |-> h]
      BY <1>1 DEF TypeOK, Addresses
    <2> HIDE DEF g
    <2> QED
      BY <1>4, <2>1 DEF Mirrored
  <1>5. CASE s2 = s /\ k2 # k
    <2>1. rule_pda'[<<k2, s>>] = rule_pda[<<k2, s>>]
      BY <1>1, <1>5 DEF TypeOK, Addresses
    <2>2. rules_flat'[s].kind = k
      BY <1>1 DEF TypeOK
    <2>3. rules_flat[s].kind # k2
      BY KindsAssumption DEF AddRule, EMPTY, AllKinds
    <2> QED
      BY <1>2, <1>5, <2>1, <2>2, <2>3 DEF Mirrored
  <1> QED
    BY <1>3, <1>4, <1>5

LEMMA UpdateKeepsMirror == TypeOK /\ HeadersMirrored /\ UpdateShape => HeadersMirrored'
  <1> SUFFICES ASSUME TypeOK, HeadersMirrored, NEW s \in Slots, NEW k \in Kinds,
                      NEW c \in Configs(k), RuleAt(k, s), NEW op, NEW extras,
                      UpdateRule(k, s, op, extras, c), NEW k2 \in Kinds, NEW s2 \in Slots
               PROVE  Mirrored(k2, s2)'
    BY DEF UpdateShape, HeadersMirrored
  <1> DEFINE h == ConfigHash(k, c)
             g == rules_flat[s].generation + 1
             r == rule_pda[<<k, s>>]
             q == [r EXCEPT !.generation = g, !.hash = h, !.cfg = c]
             e == rules_flat[s]
             f == [e EXCEPT !.generation = g, !.hash = h]
  <1>1. /\ rule_pda' = [rule_pda EXCEPT ![<<k, s>>] = q]
        /\ rules_flat' = [rules_flat EXCEPT ![s] = f]
    BY DEF UpdateRule, WriteConfig
  <1>2. Mirrored(k2, s2)
    BY DEF HeadersMirrored
  <1>3. /\ DOMAIN r = {"exists", "generation", "hash", "cfg", "st"}
        /\ r.exists = TRUE
    <2>1. AccountOK(k, r)
      BY DEF TypeOK
    <2> QED
      BY <2>1 DEF AccountOK, RuleAt, NoAccount
  <1>4. e \in Entries /\ e.kind = k
    <2>1. e.kind = k /\ k # "EMPTY"
      BY KindsAssumption DEF RuleAt, AllKinds
    <2> QED
      BY <2>1 DEF TypeOK, EMPTY
  <1>5. f.kind = k /\ f.generation = g /\ f.hash = h
    <2> HIDE DEF e, g, h
    <2> QED
      BY <1>4 DEF Entries
  <1>6. q.exists = TRUE /\ q.generation = g /\ q.hash = h /\ q.cfg = c
    <2> HIDE DEF r, g, h
    <2> QED
      BY <1>3
  <1> HIDE DEF q, f
  <1>7. CASE s2 # s
    BY <1>1, <1>2, <1>7 DEF TypeOK, Addresses, Mirrored
  <1>8. CASE s2 = s /\ k2 = k
    <2>1. rule_pda'[<<k, s>>] = q /\ rules_flat'[s] = f
      BY <1>1 DEF TypeOK, Addresses
    <2> HIDE DEF g
    <2> QED
      BY <1>8, <2>1, <1>5, <1>6 DEF Mirrored
  <1>9. CASE s2 = s /\ k2 # k
    <2>1. rule_pda'[<<k2, s>>] = rule_pda[<<k2, s>>] /\ rules_flat'[s] = f
      BY <1>1, <1>9 DEF TypeOK, Addresses
    <2> HIDE DEF e, g, h
    <2> QED
      BY <1>2, <1>4, <1>5, <1>9, <2>1 DEF Mirrored, e
  <1> QED
    BY <1>7, <1>8, <1>9

LEMMA RemoveKeepsMirror == TypeOK /\ HeadersMirrored /\ RemoveShape => HeadersMirrored'
  <1> SUFFICES ASSUME TypeOK, HeadersMirrored, NEW s \in Slots, remove_rule(s),
                      NEW k2 \in Kinds, NEW s2 \in Slots
               PROVE  Mirrored(k2, s2)'
    BY DEF RemoveShape, HeadersMirrored
  <1> DEFINE k == rules_flat[s].kind
  <1>1. /\ rule_pda' = [rule_pda EXCEPT ![<<k, s>>] = NoAccount]
        /\ rules_flat' = [rules_flat EXCEPT ![s] = EMPTY]
    BY DEF remove_rule
  <1>2. Mirrored(k2, s2)
    BY DEF HeadersMirrored
  <1>3. k2 # "EMPTY"
    BY KindsAssumption DEF AllKinds
  <1>4. CASE s2 # s
    BY <1>1, <1>2, <1>4 DEF TypeOK, Addresses, Mirrored
  <1>5. CASE s2 = s
    <2>1. ~rule_pda'[<<k2, s>>].exists
      BY <1>1, <1>2, <1>5 DEF TypeOK, Addresses, Mirrored, NoAccount
    <2>2. rules_flat'[s].kind # k2
      BY <1>1, <1>3 DEF TypeOK, EMPTY
    <2> QED
      BY <1>5, <2>1, <2>2 DEF Mirrored
  <1> QED
    BY <1>4, <1>5

LEMMA SignKeepsHeaders ==
    ASSUME TypeOK, DispatchShape \/ RecoverShape, NEW k \in Kinds, NEW s \in Slots
    PROVE  /\ rule_pda'[<<k, s>>].exists = rule_pda[<<k, s>>].exists
           /\ rule_pda[<<k, s>>].exists =>
                 /\ rule_pda'[<<k, s>>].generation = rule_pda[<<k, s>>].generation
                 /\ rule_pda'[<<k, s>>].hash = rule_pda[<<k, s>>].hash
                 /\ rule_pda'[<<k, s>>].cfg = rule_pda[<<k, s>>].cfg
  <1>1. AccountOK(k, rule_pda[<<k, s>>]) /\ <<k, s>> \in Addresses
    BY DEF TypeOK, Addresses
  <1>2. CASE rule_pda'[<<k, s>>] = rule_pda[<<k, s>>]
    BY <1>2
  <1>3. ASSUME NEW v, rule_pda'[<<k, s>>] = [rule_pda[<<k, s>>] EXCEPT !.st = v]
        PROVE  /\ rule_pda'[<<k, s>>].exists = rule_pda[<<k, s>>].exists
               /\ rule_pda[<<k, s>>].exists =>
                     /\ rule_pda'[<<k, s>>].generation = rule_pda[<<k, s>>].generation
                     /\ rule_pda'[<<k, s>>].hash = rule_pda[<<k, s>>].hash
                     /\ rule_pda'[<<k, s>>].cfg = rule_pda[<<k, s>>].cfg
    BY <1>1, <1>3 DEF AccountOK, NoAccount
  <1> QED
    BY <1>1, <1>2, <1>3, SignFrame

LEMMA SignKeepsMirror ==
    TypeOK /\ HeadersMirrored /\ (DispatchShape \/ RecoverShape) => HeadersMirrored'
  <1> SUFFICES ASSUME TypeOK, HeadersMirrored, DispatchShape \/ RecoverShape,
                      NEW k \in Kinds, NEW s \in Slots
               PROVE  Mirrored(k, s)'
    BY DEF HeadersMirrored
  <1> QED
    BY SignKeepsHeaders, SignFrame DEF HeadersMirrored, Mirrored

LEMMA UnchangedRules ==
    ASSUME CommandShape \/ EnvShape \/ UNCHANGED vars
    PROVE  rules_flat' = rules_flat /\ rule_pda' = rule_pda
  BY DEF CommandShape, EnvShape, vars, engineVars

LEMMA MirrorStep == TypeOK /\ HeadersMirrored /\ EngineShape => HeadersMirrored'
  <1>1. ASSUME HeadersMirrored, CommandShape \/ EnvShape \/ UNCHANGED vars
        PROVE  HeadersMirrored'
    <2>1. rules_flat' = rules_flat /\ rule_pda' = rule_pda
      BY <1>1, UnchangedRules
    <2> QED
      BY ZenonT(60), <1>1, <2>1 DEF HeadersMirrored, Mirrored
  <1> QED
    BY <1>1, AddKeepsMirror, UpdateKeepsMirror, RemoveKeepsMirror, SignKeepsMirror DEF EngineShape

LEMMA MirrorInit == Init => HeadersMirrored
  BY KindsAssumption DEF Init, HeadersMirrored, Mirrored, Addresses, EMPTY, NoAccount, AllKinds

(* A slot's entry and its sub-account agree in every reachable state, so    *)
(* dispatch_active_rules never rejects a signature for header drift.        *)
THEOREM HeadersStayMirrored == Spec => []HeadersMirrored
  <1> QED
    BY MirrorInit, MirrorStep, EngineShapes, TypeCorrect, PTL DEF Spec

----------------------------------------------------------------------------
(* rules_generation.  The owner's view of the policy changes only in steps  *)
(* that advance it.                                                         *)

GenerationInv ==
    /\ \A r \in requests : r.generation \in Nat
    /\ GenerationIdentifiesRules

(* A rule change advances the generation and signs nothing. *)
LEMMA RuleChangeBumps ==
    ASSUME AddShape \/ UpdateShape \/ RemoveShape
    PROVE  /\ rules_generation' = rules_generation + 1
           /\ requests' = requests
           /\ approvals' = approvals
  <1>1. CASE AddShape
    BY <1>1 DEF AddShape, AddRule, BumpRulesGeneration, signVars
  <1>2. CASE UpdateShape
    BY <1>2 DEF UpdateShape, UpdateRule, BumpRulesGeneration, signVars
  <1>3. CASE RemoveShape
    BY <1>3 DEF RemoveShape, remove_rule, BumpRulesGeneration, signVars
  <1> QED
    BY <1>1, <1>2, <1>3

(* Signing moves counters, which the owner's view does not show. *)
LEMMA SignKeepsView ==
    ASSUME TypeOK, HeadersMirrored, DispatchShape \/ RecoverShape
    PROVE  View' = View
  <1>1. rules_flat' = rules_flat
    BY SignFrame
  <1>2. Live' = Live
    BY <1>1 DEF Live
  <1>3. ASSUME NEW s \in Live
        PROVE  (Pda(s).cfg)' = Pda(s).cfg
    <2> DEFINE k == rules_flat[s].kind
    <2>1. s \in Slots /\ k \in Kinds
      BY <1>3 DEF Live, TypeOK, Entries, EMPTY
    <2>2. rule_pda[<<k, s>>].exists
      BY <2>1 DEF HeadersMirrored, Mirrored
    <2>3. rule_pda'[<<k, s>>].cfg = rule_pda[<<k, s>>].cfg
      <3> HIDE DEF k
      <3> QED
        BY <2>1, <2>2, SignKeepsHeaders
    <2> QED
      BY <1>1, <2>3 DEF Pda
  <1> QED
    BY <1>1, <1>2, <1>3 DEF View

LEMMA UnchangedView ==
    ASSUME rules_flat' = rules_flat, rule_pda' = rule_pda
    PROVE  View' = View
  BY DEF View, Live, Pda

LEMMA GenerationStep ==
    TypeOK /\ HeadersMirrored /\ GenerationInv /\ [Next]_vars => GenerationInv'
  <1> SUFFICES ASSUME TypeOK, HeadersMirrored, GenerationInv, [Next]_vars
               PROVE  GenerationInv'
    OBVIOUS
  <1>0. rules_generation \in Nat
    BY DEF TypeOK
  <1>1. CASE AddShape \/ UpdateShape \/ RemoveShape
    <2>1. rules_generation' = rules_generation + 1 /\ requests' = requests
      BY <1>1, RuleChangeBumps
    <2> QED
      BY <1>0, <2>1 DEF GenerationInv, GenerationIdentifiesRules
  <1>2. CASE SignShape
    <2>1. rules_generation' = rules_generation /\ requests' = requests
      BY <1>2 DEF SignShape, request_signature, signVars
    <2>2. View' = View
      BY <1>2, SignKeepsView, SignIsDispatch
    <2> QED
      BY <2>1, <2>2 DEF GenerationInv, GenerationIdentifiesRules
  <1>3. CASE CommandShape \/ EnvShape \/ UNCHANGED vars
    <2>1. rules_generation' = rules_generation
      BY <1>3 DEF CommandShape, EnvShape, vars, engineVars
    <2>2. View' = View
      BY <1>3, UnchangedRules, UnchangedView
    <2>3. CASE requests' = requests
      BY <2>1, <2>2, <2>3 DEF GenerationInv, GenerationIdentifiesRules
    <2>4. CASE OwnerSignsRequest
      <3>1. PICK b \in Bundles :
               requests' = requests \cup {[legs |-> b, generation |-> rules_generation,
                                           view |-> View]}
        BY <2>4 DEF OwnerSignsRequest
      <3> QED
        BY <1>0, <2>1, <2>2, <3>1 DEF GenerationInv, GenerationIdentifiesRules
    <2> QED
      BY <1>3, <2>3, <2>4 DEF CommandShape, EnvShape, vars, signVars
  <1> QED
    BY <1>1, <1>2, <1>3, StepHasShape

LEMMA GenerationInvariant == Spec => []GenerationInv
  <1>1. Init => GenerationInv
    BY DEF Init, GenerationInv, GenerationIdentifiesRules
  <1> QED
    BY <1>1, GenerationStep, TypeCorrect, HeadersStayMirrored, PTL DEF Spec

(* Every instruction that changes what a rule enforces advances             *)
(* rules_generation: a request bound to the current generation was signed   *)
(* under the current rules.                                                 *)
THEOREM GenerationNamesRules == Spec => []GenerationIdentifiesRules
  <1>1. GenerationInv => GenerationIdentifiesRules
    BY DEF GenerationInv
  <1> QED
    BY <1>1, GenerationInvariant, PTL

(* No message is approved under rules other than the ones its signer was    *)
(* shown, whatever owner commands land between signing and submission.      *)
THEOREM ApprovalsUnderSeenRules == Spec => []ApprovedUnderSeenRules
  <1>1. Init => ApprovedUnderSeenRules
    BY DEF Init, ApprovedUnderSeenRules
  <1>2. TypeOK /\ GenerationInv /\ ApprovedUnderSeenRules /\ [Next]_vars
            => ApprovedUnderSeenRules'
    <2> SUFFICES ASSUME TypeOK, GenerationInv, ApprovedUnderSeenRules, [Next]_vars
                 PROVE  ApprovedUnderSeenRules'
      OBVIOUS
    <2>1. CASE SignShape
      <3>0. PICK r \in requests : \E i \in DOMAIN r.legs : request_signature(r, i)
        BY <2>1 DEF SignShape
      <3>1. PICK i \in DOMAIN r.legs : request_signature(r, i)
        BY <3>0
      <3>2. r.view = View
        BY <3>1 DEF request_signature, GenerationCurrent, GenerationInv, GenerationIdentifiesRules
      <3>3. approvals' = approvals \cup
               {[msg |-> r.legs[i].msg, path |-> "normal", seen |-> r.view, at |-> View]}
        BY <3>1 DEF request_signature, approve_message
      <3> QED
        BY <3>2, <3>3 DEF ApprovedUnderSeenRules
    <2>2. CASE ~SignShape
      <3>1. approvals' = approvals
        BY <2>2, StepHasShape, RuleChangeBumps DEF CommandShape, EnvShape, vars
      <3> QED
        BY <3>1 DEF ApprovedUnderSeenRules
    <2> QED
      BY <2>1, <2>2
  <1> QED
    BY <1>1, <1>2, TypeCorrect, GenerationInvariant, PTL DEF Spec

----------------------------------------------------------------------------
(* FHE_GATED. *)

(* A signature on the normal path has the decision of every gate that the   *)
(* policy in force puts on it.                                              *)
LEMMA GateAsked ==
    ASSUME NEW item, NEW s \in Slots,
           dispatch_active_rules(request_metadata_digest(item, rules_generation, "normal"),
                                 "normal", {}),
           View[s].kind = "FHE_GATED", "normal" \in View[s].cfg.applies
    PROVE  \E d \in decisions : d.req.msg = item.msg /\ d.authorize /\ d.by \in View[s].cfg.authorities
  <1> DEFINE req == request_metadata_digest(item, rules_generation, "normal")
  <1>1. View[s] = IF s \in Live THEN [kind |-> rules_flat[s].kind, cfg |-> Pda(s).cfg] ELSE EMPTY
    BY DEF View
  <1>2. s \in Live /\ rules_flat[s].kind = "FHE_GATED" /\ View[s].cfg = Pda(s).cfg
    BY <1>1 DEF EMPTY
  <1>3. s \in Enforced("normal", {})
    BY <1>2 DEF Enforced
  <1>4. RuleOK("FHE_GATED", Pda(s).cfg, Pda(s).st, req, "normal", Env)
    BY <1>2, <1>3 DEF dispatch_active_rules
  <1>5. FheOK(Pda(s).cfg, decisions, req, now)
    BY <1>4 DEF RuleOK, Env
  <1>6. req.msg = item.msg
    BY DEF request_metadata_digest
  <1> HIDE DEF req
  <1> QED
    BY <1>2, <1>5, <1>6 DEF FheOK

(* Whoever approves a message on a path an FHE gate covers has a positive   *)
(* decision on it from an authority that its signer was shown, whatever the *)
(* owner does to the gate in between and however decisions are delayed.     *)
THEOREM DecisionsBackApprovals == Spec => []DecisionBacked
  <1>1. Init => DecisionBacked
    BY DEF Init, DecisionBacked
  <1>2. TypeOK /\ GenerationInv /\ DecisionBacked /\ [Next]_vars => DecisionBacked'
    <2> SUFFICES ASSUME TypeOK, GenerationInv, DecisionBacked, [Next]_vars
                 PROVE  DecisionBacked'
      OBVIOUS
    <2>1. CASE SignShape
      <3>0. PICK r \in requests : \E i \in DOMAIN r.legs : request_signature(r, i)
        BY <2>1 DEF SignShape
      <3>1. PICK i \in DOMAIN r.legs : request_signature(r, i)
        BY <3>0
      <3>2. r.view = View
        BY <3>1 DEF request_signature, GenerationCurrent, GenerationInv, GenerationIdentifiesRules
      <3>3. PICK a : /\ a.msg = r.legs[i].msg /\ a.path = "normal" /\ a.seen = View
                     /\ approvals' = approvals \cup {a}
        <4> DEFINE a == [msg |-> r.legs[i].msg, path |-> "normal", seen |-> r.view, at |-> View]
        <4>1. approvals' = approvals \cup {a}
          BY <3>1 DEF request_signature, approve_message
        <4>2. a.msg = r.legs[i].msg /\ a.path = "normal" /\ a.seen = View
          BY <3>2
        <4> HIDE DEF a
        <4> QED
          BY <4>1, <4>2
      <3>4. decisions' = decisions
        BY <3>1 DEF request_signature, envVars
      <3>5. ASSUME NEW s \in Slots, a.seen[s].kind = "FHE_GATED", a.path \in a.seen[s].cfg.applies
            PROVE  \E d \in decisions : d.req.msg = a.msg /\ d.authorize
                                        /\ d.by \in a.seen[s].cfg.authorities
        <4>1. dispatch_active_rules(
                 request_metadata_digest(r.legs[i], rules_generation, "normal"), "normal", {})
          BY <3>1 DEF request_signature
        <4>2. View[s].kind = "FHE_GATED" /\ "normal" \in View[s].cfg.applies
          BY <3>3, <3>5
        <4> QED
          BY <3>3, <4>1, <4>2, GateAsked
      <3> QED
        BY <3>3, <3>4, <3>5 DEF DecisionBacked
    <2>2. CASE ~SignShape
      <3>1. approvals' = approvals
        BY <2>2, StepHasShape, RuleChangeBumps DEF CommandShape, EnvShape, vars
      <3>2. decisions \subseteq decisions'
        BY <2>2, StepHasShape DEF AddShape, AddRule, UpdateShape, UpdateRule, RemoveShape, remove_rule,
              CommandShape, EnvShape, vars, envVars
      <3> QED
        BY <3>1, <3>2 DEF DecisionBacked
    <2> QED
      BY <2>1, <2>2
  <1> QED
    BY <1>1, <1>2, TypeCorrect, GenerationInvariant, PTL DEF Spec

----------------------------------------------------------------------------
(* The admin nonce. *)

AppliedInv ==
    /\ IsFiniteSet(applied)
    /\ \A c \in applied : c.nonce \in Nat
    /\ \A c, d \in applied : c.nonce = d.nonce => c = d
    /\ CommandsAppliedOnce

(* Every instruction the owner administers consumes one signed command that *)
(* names the current nonce; no other step touches the nonce.                *)
LEMMA ConsumesCommand ==
    ASSUME AddShape \/ UpdateShape \/ RemoveShape \/ CommandShape
    PROVE  /\ \E c : verify_owner_admin(c) /\ c.nonce = next_admin_nonce
           /\ commands' = commands
  <1>1. CASE AddShape
    BY <1>1 DEF AddShape, AddRule, AddCommand, admin_challenge, signVars
  <1>2. CASE UpdateShape
    BY <1>2 DEF UpdateShape, UpdateRule, UpdateCommand, admin_challenge, signVars
  <1>3. CASE RemoveShape
    BY <1>3 DEF RemoveShape, remove_rule, RemoveCommand, admin_challenge, signVars
  <1>4. CASE CommandShape
    BY <1>4 DEF CommandShape, signVars
  <1> QED
    BY <1>1, <1>2, <1>3, <1>4

LEMMA AppliedStep == TypeOK /\ AppliedInv /\ EngineShape => AppliedInv'
  <1> SUFFICES ASSUME TypeOK, AppliedInv, EngineShape PROVE AppliedInv'
    OBVIOUS
  <1>1. CASE AddShape \/ UpdateShape \/ RemoveShape \/ CommandShape
    <2>1. PICK c : verify_owner_admin(c) /\ c.nonce = next_admin_nonce
      BY <1>1, ConsumesCommand
    <2>2. /\ c \in commands /\ commands' = commands
          /\ next_admin_nonce' = next_admin_nonce + 1
          /\ applied' = applied \cup {c}
      BY <1>1, <2>1, ConsumesCommand DEF verify_owner_admin, NextAdminNonce
    <2>3. c \notin applied
      BY <2>1 DEF TypeOK, AppliedInv, CommandsAppliedOnce
    <2>4. IsFiniteSet(applied') /\ Cardinality(applied') = Cardinality(applied) + 1
      BY <2>2, <2>3, FS_AddElement DEF AppliedInv
    <2>5. applied' \subseteq commands' /\ Cardinality(applied') = next_admin_nonce'
      BY <2>2, <2>4 DEF AppliedInv, CommandsAppliedOnce
    <2>6. \A x \in applied' : x.nonce \in Nat /\ x.nonce < next_admin_nonce'
      BY <2>1, <2>2 DEF TypeOK, AppliedInv, CommandsAppliedOnce
    <2>7. \A x, y \in applied' : x.nonce = y.nonce => x = y
      BY <2>1, <2>2 DEF TypeOK, AppliedInv, CommandsAppliedOnce
    <2> QED
      BY <2>4, <2>5, <2>6, <2>7 DEF AppliedInv, CommandsAppliedOnce
  <1>2. CASE DispatchShape \/ RecoverShape \/ EnvShape \/ UNCHANGED vars
    <2>1. /\ next_admin_nonce' = next_admin_nonce
          /\ applied' = applied
          /\ commands \subseteq commands'
      BY <1>2, SignFrame DEF EnvShape, vars, engineVars, signVars
    <2> QED
      BY <2>1 DEF AppliedInv, CommandsAppliedOnce
  <1> QED
    BY <1>1, <1>2 DEF EngineShape

LEMMA AppliedInit == Init => AppliedInv
  BY FS_EmptySet DEF Init, AppliedInv, CommandsAppliedOnce

(* The engine's part of the invariant of every signing path. *)
EngineInv == TypeOK /\ HeadersMirrored /\ AppliedInv

LEMMA EngineInvInit == Init => EngineInv
  BY TypeInit, MirrorInit, AppliedInit DEF EngineInv

LEMMA EngineInvStep == EngineInv /\ EngineShape => EngineInv'
  BY TypeStep, MirrorStep, AppliedStep DEF EngineInv

(* Every admin nonce is consumed by exactly one signed command, so no       *)
(* command takes effect twice, however often it is submitted.               *)
THEOREM CommandsOnce == Spec => []CommandsAppliedOnce
  <1>1. AppliedInv => CommandsAppliedOnce
    BY DEF AppliedInv
  <1> QED
    BY <1>1, AppliedInit, AppliedStep, EngineShapes, TypeCorrect, PTL DEF Spec

----------------------------------------------------------------------------
(* The slot table. *)

LEMMA LiveFinite == IsFiniteSet(Live)
  BY SlotsAssumption, FS_Subset DEF Live

LEMMA AddKeepsSlots == TypeOK /\ SlotsConsistent /\ AddShape => SlotsConsistent'
  <1> SUFFICES ASSUME TypeOK, SlotsConsistent, NEW s \in Slots, NEW k \in Kinds,
                      NEW c, AddRule(k, s, c)
               PROVE  SlotsConsistent'
    BY DEF AddShape
  <1>1. /\ rules_count' = rules_count + 1
        /\ rules_flat[s] = EMPTY
        /\ \A t \in Slots : rules_flat[t].kind # k
    BY DEF AddRule, KindUnused
  <1>2. PICK g, h : rules_flat' = [rules_flat EXCEPT ![s] =
                                     [kind |-> k, generation |-> g, hash |-> h]]
    BY DEF AddRule
  <1>3. k # "EMPTY"
    BY KindsAssumption DEF AllKinds
  <1>4. /\ rules_flat'[s].kind = k
        /\ \A t \in Slots \ {s} : rules_flat'[t] = rules_flat[t]
    BY <1>2 DEF TypeOK
  <1>5. s \notin Live /\ Live' = Live \cup {s}
    BY <1>1, <1>3, <1>4 DEF Live, EMPTY
  <1>6. rules_count' = Cardinality(Live')
    BY <1>1, <1>5, LiveFinite, FS_AddElement DEF SlotsConsistent
  <1>7. \A t, u \in Live' : rules_flat'[t].kind = rules_flat'[u].kind => t = u
    BY <1>1, <1>4, <1>5 DEF SlotsConsistent, Live
  <1> QED
    BY <1>6, <1>7 DEF SlotsConsistent

LEMMA RemoveKeepsSlots == TypeOK /\ SlotsConsistent /\ RemoveShape => SlotsConsistent'
  <1> SUFFICES ASSUME TypeOK, SlotsConsistent, NEW s \in Slots, remove_rule(s)
               PROVE  SlotsConsistent'
    BY DEF RemoveShape
  <1>1. /\ rules_count' = IF rules_count = 0 THEN 0 ELSE rules_count - 1
        /\ s \in Live
        /\ rules_flat' = [rules_flat EXCEPT ![s] = EMPTY]
    BY DEF remove_rule
  <1>2. Live' = Live \ {s} /\ \A t \in Live' : rules_flat'[t] = rules_flat[t]
    BY <1>1 DEF Live, TypeOK, EMPTY
  <1>3. /\ Cardinality(Live) \in Nat
        /\ Cardinality(Live') = Cardinality(Live) - 1
        /\ Cardinality(Live') \in Nat
    <2>1. IsFiniteSet(Live) /\ Cardinality(Live \ {s}) = Cardinality(Live) - 1
      BY <1>1, LiveFinite, FS_RemoveElement
    <2>2. IsFiniteSet(Live \ {s})
      BY LiveFinite, FS_Subset
    <2> QED
      BY <1>2, <2>1, <2>2, FS_CardinalityType
  <1>4. rules_count' = Cardinality(Live')
    BY <1>1, <1>3 DEF SlotsConsistent
  <1> QED
    BY <1>2, <1>4 DEF SlotsConsistent

LEMMA UpdateKeepsSlots == TypeOK /\ SlotsConsistent /\ UpdateShape => SlotsConsistent'
  <1> SUFFICES ASSUME TypeOK, SlotsConsistent, NEW s \in Slots, NEW k \in Kinds, NEW c,
                      RuleAt(k, s), NEW op, NEW extras, UpdateRule(k, s, op, extras, c)
               PROVE  SlotsConsistent'
    BY DEF UpdateShape
  <1>1. PICK g, h : rules_flat' = [rules_flat EXCEPT ![s] =
                                     [@ EXCEPT !.generation = g, !.hash = h]]
    BY DEF UpdateRule, WriteConfig
  <1>2. \A t \in Slots : rules_flat'[t].kind = rules_flat[t].kind
    <2>1. rules_flat[s] \in Entries
      BY KindsAssumption DEF RuleAt, TypeOK, EMPTY, AllKinds
    <2> QED
      BY <1>1, <2>1 DEF TypeOK, Entries
  <1>3. Live' = Live
    BY <1>2 DEF Live
  <1>4. rules_count' = rules_count
    BY DEF UpdateRule
  <1> QED
    BY <1>2, <1>3, <1>4 DEF SlotsConsistent, Live

(* rules_count is the number of slots in use in every reachable state, so   *)
(* the saturating decrement of remove_rule never saturates, and a kind      *)
(* occupies at most one slot.                                               *)
THEOREM SlotsStayConsistent == Spec => []SlotsConsistent
  <1>1. Init => SlotsConsistent
    <2> SUFFICES ASSUME Init PROVE SlotsConsistent
      OBVIOUS
    <2>1. Live = {}
      BY DEF Init, Live, EMPTY
    <2> QED
      BY <2>1, FS_EmptySet DEF Init, SlotsConsistent
  <1>2. TypeOK /\ SlotsConsistent /\ [Next]_vars => SlotsConsistent'
    <2>1. ASSUME TypeOK, SlotsConsistent, CommandShape \/ EnvShape \/ SignShape \/ UNCHANGED vars
          PROVE  SlotsConsistent'
      <3>1. rules_flat' = rules_flat /\ rules_count' = rules_count
        BY <2>1, UnchangedRules, SignFrame, SignIsDispatch DEF CommandShape, EnvShape, vars, engineVars
      <3> QED
        BY <2>1, <3>1 DEF SlotsConsistent, Live
    <2> QED
      BY <2>1, StepHasShape, AddKeepsSlots, RemoveKeepsSlots, UpdateKeepsSlots
  <1> QED
    BY <1>1, <1>2, TypeCorrect, PTL DEF Spec

----------------------------------------------------------------------------
(* Counters. *)

(* An amount a rule has counted, and when. *)
Entry == [ts : Nat, amount : Nat]

(* The start of a bucket is not after the times in it, and later times are *)
(* in later buckets.                                                        *)
LEMMA BucketType ==
    ASSUME NEW t \in Nat, NEW len \in Nat \ {0}
    PROVE  Bucket(t, len) \in Nat /\ Bucket(t, len) <= t
  <1>1. t \div len \in Nat /\ (t \div len) * len <= t
    OBVIOUS
  <1>2. (t \div len) * len \in Nat
    BY <1>1
  <1> QED
    BY <1>1, <1>2 DEF Bucket

LEMMA BucketGrows ==
    ASSUME NEW t \in Nat, NEW u \in Nat, t <= u, NEW len \in Nat \ {0}
    PROVE  Bucket(t, len) <= Bucket(u, len)
  <1>0. PICK q \in Nat, p \in Nat, a \in Nat, b \in Nat :
           /\ q = t \div len /\ p = u \div len
           /\ a = q * len /\ b = p * len
           /\ a <= t /\ u < b + len
    <2>1. t \div len \in Nat /\ u \div len \in Nat
      OBVIOUS
    <2>2. (t \div len) * len <= t /\ u < (u \div len) * len + len
      OBVIOUS
    <2>3. (t \div len) * len \in Nat /\ (u \div len) * len \in Nat
      BY <2>1
    <2> QED
      BY <2>1, <2>2, <2>3
  <1>1. CASE q <= p
    <2>1. q * len <= p * len
      BY <1>1
    <2> QED
      BY <1>0, <2>1 DEF Bucket
  <1>2. CASE p < q
    <2>1. p * len + len <= q * len
      BY <1>2
    <2> QED
      BY <1>0, <2>1
  <1> QED
    BY <1>1, <1>2

LEMMA ShareType ==
    ASSUME NEW e \in Entry, NEW len, NEW b PROVE ShareOf(e, len, b) \in Nat
  BY DEF ShareOf, Entry

LEMMA SpentType ==
    ASSUME NEW h \in Seq(Entry), NEW len, NEW b
    PROVE  /\ [n \in DOMAIN h |-> ShareOf(h[n], len, b)] \in Seq(Nat)
           /\ SpentIn(h, len, b) \in Nat
  <1> DEFINE v == [n \in DOMAIN h |-> ShareOf(h[n], len, b)]
  <1>1. \A n \in DOMAIN h : ShareOf(h[n], len, b) \in Nat
    BY ShareType
  <1>2. v \in [1..Len(h) -> Nat] /\ Len(h) \in Nat
    BY <1>1
  <1>3. v \in Seq(Nat)
    <2> HIDE DEF v
    <2> QED
      BY <1>2
  <1>4. SumOf(v) \in Nat
    BY <1>3, SumType
  <1> QED
    BY <1>3, <1>4 DEF SpentIn

LEMMA SpentEmpty == ASSUME NEW len, NEW b PROVE SpentIn(<<>>, len, b) = 0
  <1>1. [n \in DOMAIN <<>> |-> ShareOf(<<>>[n], len, b)] = <<>>
    OBVIOUS
  <1> QED
    BY <1>1, SumEmpty DEF SpentIn

(* An entry adds to the bucket of its time and to no other. *)
LEMMA SpentAppended ==
    ASSUME NEW h \in Seq(Entry), NEW e \in Entry, NEW len, NEW b
    PROVE  SpentIn(Append(h, e), len, b) = SpentIn(h, len, b) + ShareOf(e, len, b)
  <1> DEFINE v == [n \in DOMAIN h |-> ShareOf(h[n], len, b)]
             g == Append(h, e)
             w == [n \in DOMAIN g |-> ShareOf(g[n], len, b)]
             x == ShareOf(e, len, b)
  <1>1. v \in Seq(Nat) /\ x \in Nat
    BY SpentType, ShareType
  <1>2. Len(v) = Len(h) /\ Len(h) \in Nat
    OBVIOUS
  <1>3. DOMAIN g = 1..(Len(h) + 1) /\ g[Len(h) + 1] = e /\ \A n \in 1..Len(h) : g[n] = h[n]
    OBVIOUS
  <1>4. \A n \in 1..Len(h) : v[n] = ShareOf(h[n], len, b)
    OBVIOUS
  <1>5. DOMAIN w = 1..(Len(h) + 1) /\ \A n \in DOMAIN w : w[n] = ShareOf(g[n], len, b)
    BY <1>3
  <1>6. w = [n \in DOMAIN w |-> w[n]]
    OBVIOUS
  <1>7. w = Append(v, x)
    <2>1. /\ DOMAIN Append(v, x) = 1..(Len(h) + 1)
          /\ Append(v, x)[Len(h) + 1] = x
          /\ \A n \in 1..Len(h) : Append(v, x)[n] = v[n]
      <3> HIDE DEF v, x
      <3> QED
        BY <1>1, <1>2
    <2>3. Append(v, x) = [n \in DOMAIN Append(v, x) |-> Append(v, x)[n]]
      <3>1. Append(v, x) \in Seq(Nat)
        <4> HIDE DEF v, x
        <4> QED
          BY <1>1
      <3>2. \A y \in Seq(Nat) : y = [n \in DOMAIN y |-> y[n]]
        OBVIOUS
      <3> HIDE DEF v, x
      <3> QED
        BY <3>1, <3>2
    <2> HIDE DEF v, g, w
    <2>2. \A n \in 1..(Len(h) + 1) : w[n] = Append(v, x)[n]
      BY <1>2, <1>3, <1>4, <1>5, <2>1
    <2> QED
      BY <1>5, <1>6, <2>1, <2>2, <2>3
  <1>8. SumOf(Append(v, x)) = SumOf(v) + x
    <2> HIDE DEF v, x
    <2> QED
      BY <1>1, SumAppend
  <1> QED
    BY <1>7, <1>8 DEF SpentIn

(* The bucket that starts at `day' is the latest of the history h at time   *)
(* t, its entries add up to `sum', and no bucket holds more than `cap'.     *)
BucketOK(h, len, day, sum, cap, t) ==
    /\ day \in Nat /\ day <= Bucket(t, len)
    /\ \A b \in Nat : b > day => SpentIn(h, len, b) = 0
    /\ SpentIn(h, len, day) = sum
    /\ \A b \in Nat : SpentIn(h, len, b) <= cap

LEMMA BucketStarts ==
    ASSUME NEW len \in Nat \ {0}, NEW cap \in Nat, NEW t \in Nat
    PROVE  BucketOK(<<>>, len, 0, 0, cap, t)
  BY SpentEmpty, BucketType DEF BucketOK

LEMMA BucketWaits ==
    ASSUME NEW h, NEW len \in Nat \ {0}, NEW day, NEW sum, NEW cap, NEW t \in Nat, NEW u \in Nat,
           t <= u, BucketOK(h, len, day, sum, cap, t)
    PROVE  BucketOK(h, len, day, sum, cap, u)
  BY BucketGrows, BucketType DEF BucketOK

(* What recover_as_primary, quorum_session_finalize and the SPENDING_USD    *)
(* arm of dispatch_active_rules do to a bucket.                             *)
LEMMA BucketCharged ==
    ASSUME NEW h \in Seq(Entry), NEW len \in Nat \ {0}, NEW day, NEW sum, NEW cap \in Nat,
           NEW t \in Nat, NEW x \in Nat, cap < U64Max, BucketOK(h, len, day, sum, cap, t),
           NEW next, next = (IF Bucket(t, len) # day THEN x ELSE SatAdd(sum, x)), next <= cap
    PROVE  BucketOK(Append(h, [ts |-> t, amount |-> x]), len, Bucket(t, len), next, cap, t)
  <1> DEFINE e == [ts |-> t, amount |-> x]
             g == Append(h, e)
             b0 == Bucket(t, len)
  <1>1. e \in Entry /\ e.ts = t /\ e.amount = x
    BY DEF Entry
  <1>2. b0 \in Nat
    BY BucketType
  <1> HIDE DEF e
  <1>3. \A b \in Nat : /\ SpentIn(g, len, b) = SpentIn(h, len, b) + ShareOf(e, len, b)
                      /\ SpentIn(h, len, b) \in Nat
                      /\ ShareOf(e, len, b) = IF b0 = b THEN x ELSE 0
    <2> TAKE b \in Nat
    <2>1. SpentIn(g, len, b) = SpentIn(h, len, b) + ShareOf(e, len, b)
      BY <1>1, SpentAppended
    <2>2. SpentIn(h, len, b) \in Nat
      BY SpentType
    <2>3. ShareOf(e, len, b) = IF b0 = b THEN x ELSE 0
      BY <1>1 DEF ShareOf
    <2> QED
      BY <2>1, <2>2, <2>3
  <1> HIDE DEF g, b0
  <1>4. day \in Nat /\ day <= b0 /\ sum \in Nat /\ sum = SpentIn(h, len, day)
    BY <1>3 DEF BucketOK, b0
  <1>5. SpentIn(g, len, b0) = next
    <2>1. CASE b0 # day
      <3>1. SpentIn(h, len, b0) = 0
        BY <1>2, <1>4, <2>1 DEF BucketOK
      <3> QED
        BY <1>2, <1>3, <2>1, <3>1 DEF b0
    <2>2. CASE b0 = day
      <3>1. next = sum + x
        BY <1>4, <2>2, U64Assumption DEF SatAdd, b0
      <3> QED
        BY <1>3, <1>4, <2>2, <3>1
    <2> QED
      BY <2>1, <2>2
  <1>6. \A b \in Nat : b > b0 => SpentIn(g, len, b) = 0
    BY <1>2, <1>3, <1>4 DEF BucketOK
  <1>7. \A b \in Nat : SpentIn(g, len, b) <= cap
    <2> TAKE b \in Nat
    <2>1. CASE b = b0
      BY <1>5, <2>1
    <2>2. CASE b # b0
      BY <1>3, <2>2 DEF BucketOK
    <2> QED
      BY <2>1, <2>2
  <1> QED
    BY <1>2, <1>5, <1>6, <1>7 DEF BucketOK, e, g, b0

----------------------------------------------------------------------------
(* VELOCITY: the requests of the current window are the last x.count of the *)
(* history; it starts at the first of them, or has never been restarted.    *)
(* All but the last cap of the requests before it, or all but the last      *)
(* cap - 1, were out of its reach when it started.                          *)
Spare(w) == IF w.secs <= StartTime THEN 1 ELSE 0

WindowOK(w, x, h) ==
    LET n == Len(h)
    IN  /\ x.count \in Nat /\ x.start \in Nat /\ x.count <= w.cap /\ x.count <= n
        /\ \/ n > 0 /\ x.count > 0 /\ x.start = h[n - x.count + 1]
           \/ x.start = 0 /\ x.count = n /\ (n = 0 \/ StartTime < w.secs)
        /\ \A j \in 1..n : j + w.cap - Spare(w) <= n - x.count => h[j] + w.secs <= x.start
        /\ \A j, k \in 1..n : (j < k /\ h[k] < h[j] + w.secs) => k - j + 1 <= VelocityLimit(w)

(* The times a velocity rule has let requests through. *)
TimesOK(h, t) ==
    /\ h \in Seq(Nat)
    /\ \A j \in 1..Len(h) : StartTime <= h[j] /\ h[j] <= t
    /\ \A j, k \in 1..Len(h) : j <= k => h[j] <= h[k]

LEMMA TimesAppended ==
    ASSUME NEW h, NEW t \in Nat, StartTime <= t, TimesOK(h, t)
    PROVE  TimesOK(Append(h, t), t)
  <1>1. h \in Seq(Nat) /\ Len(h) \in Nat
    BY DEF TimesOK
  <1>2. /\ Append(h, t) \in Seq(Nat)
        /\ Len(Append(h, t)) = Len(h) + 1 /\ Append(h, t)[Len(h) + 1] = t
        /\ \A j \in 1..Len(h) : Append(h, t)[j] = h[j]
    BY <1>1
  <1>3. \A j \in 1..(Len(h) + 1) : j = Len(h) + 1 \/ j \in 1..Len(h)
    BY <1>1
  <1>4. \A j \in 1..Len(h) : h[j] \in Nat
    BY <1>1
  <1> HIDE DEF TimesOK
  <1>5. \A j \in 1..(Len(h) + 1) : StartTime <= Append(h, t)[j] /\ Append(h, t)[j] <= t
    BY <1>2, <1>3 DEF TimesOK
  <1>6. \A j, k \in 1..(Len(h) + 1) : j <= k => Append(h, t)[j] <= Append(h, t)[k]
    BY <1>1, <1>2, <1>3, <1>5 DEF TimesOK
  <1> QED
    BY <1>2, <1>5, <1>6 DEF TimesOK

(* One more request through a window: what the VELOCITY arm of              *)
(* dispatch_active_rules does to it.                                        *)
LEMMA WindowCounted ==
    ASSUME NEW w, w.secs \in Nat \ {0}, w.cap \in Nat \ {0}, w.cap < U64Max,
           NEW x, NEW h, NEW t \in Nat, StartTime <= t, TimesOK(h, t), WindowOK(w, x, h),
           NextWindow(w, x, t).count <= w.cap
    PROVE  WindowOK(w, NextWindow(w, x, t), Append(h, t))
  <1> DEFINE n == Len(h)
             g == Append(h, t)
             y == NextWindow(w, x, t)
             cap == w.cap
             secs == w.secs
             c == x.count
             st == x.start
  <1>0. /\ n \in Nat /\ Len(g) = n + 1 /\ g[n + 1] = t /\ StartTime \in Nat
        /\ \A j \in 1..n : g[j] = h[j] /\ h[j] \in Nat
    BY TimeAssumption DEF TimesOK
  <1>1. /\ \A j \in 1..n : StartTime <= h[j] /\ h[j] <= t
        /\ \A j, k \in 1..n : j <= k => h[j] <= h[k]
    BY DEF TimesOK
  <1>2. /\ c \in Nat /\ st \in Nat /\ c <= cap /\ c <= n
        /\ \/ n > 0 /\ c > 0 /\ st = h[n - c + 1]
           \/ st = 0 /\ c = n /\ (n = 0 \/ StartTime < secs)
        /\ \A j \in 1..n : j + cap - Spare(w) <= n - c => h[j] + secs <= st
        /\ \A j, k \in 1..n : (j < k /\ h[k] < h[j] + secs) => k - j + 1 <= VelocityLimit(w)
    BY DEF WindowOK
  <1>3. \A j \in 1..(n + 1) : j = n + 1 \/ j \in 1..n
    BY <1>0
  <1>4. cap \in Nat /\ cap >= 1 /\ secs \in Nat /\ secs >= 1
    OBVIOUS
  <1>5. CASE t >= st + secs
    <2>1. y.count = 1 /\ y.start = t
      BY <1>5 DEF NextWindow
    <2> HIDE DEF y, g, n, cap, secs, c, st
    <2>2. ASSUME NEW j \in 1..n, j + cap - Spare(w) <= n PROVE h[j] + secs <= t
      <3>1. CASE n > 0 /\ c > 0 /\ st = h[n - c + 1]
        <4>1. n - c + 1 \in 1..n /\ j <= n - c + 1
          BY <1>0, <1>2, <1>4, <2>2, <3>1 DEF Spare
        <4> QED
          BY <1>0, <1>1, <1>2, <1>4, <1>5, <3>1, <4>1
      <3>2. CASE st = 0 /\ c = n /\ StartTime < secs
        BY <1>0, <1>2, <1>4, <2>2, <3>2 DEF Spare, secs
      <3> QED
        BY <1>0, <1>2, <3>1, <3>2
    <2>3. ASSUME NEW j \in 1..n, t < h[j] + secs PROVE (n + 1) - j + 1 <= VelocityLimit(w)
      <3>1. CASE n > 0 /\ c > 0 /\ st = h[n - c + 1]
        <4>1. n - c + 1 \in 1..n
          BY <1>0, <1>2, <3>1
        <4>2. j > n - c + 1
          BY <1>0, <1>1, <1>2, <1>4, <1>5, <2>3, <3>1, <4>1
        <4> QED
          BY <1>0, <1>2, <1>4, <4>2 DEF VelocityLimit, cap
      <3>2. CASE st = 0 /\ c = n /\ StartTime < secs
        BY <1>0, <1>2, <1>4, <2>3, <3>2 DEF VelocityLimit, cap, secs
      <3> QED
        BY <1>0, <1>2, <3>1, <3>2
    <2>4. ASSUME NEW j \in 1..(n + 1), NEW k \in 1..(n + 1), j < k, g[k] < g[j] + secs
          PROVE  k - j + 1 <= VelocityLimit(w)
      BY SMTT(40), <1>0, <1>2, <1>3, <2>3, <2>4
    <2>5. \A j \in 1..(n + 1) : j + cap - Spare(w) <= n => g[j] + secs <= t
      <3>1. ~ ((n + 1) + cap - Spare(w) <= n)
        BY <1>0, <1>4 DEF Spare
      <3> QED
        BY <1>0, <1>3, <2>2, <3>1
    <2> QED
      BY SMTT(40), <1>0, <1>4, <2>1, <2>4, <2>5 DEF WindowOK, g, y, cap, secs
  <1>6. CASE ~(t >= st + secs)
    <2>1. y.count = c + 1 /\ y.start = st /\ c + 1 <= cap
      BY <1>2, <1>6, U64Assumption DEF NextWindow, SatAdd
    <2>2. t < st + secs
      BY <1>2, <1>4, <1>6
    <2> HIDE DEF y, g, n, cap, secs, c, st
    <2>3. \/ st = g[(n + 1) - (c + 1) + 1]
          \/ st = 0 /\ c + 1 = n + 1 /\ StartTime < secs
      <3>1. CASE n > 0 /\ c > 0 /\ st = h[n - c + 1]
        <4>1. n - c + 1 \in 1..n /\ (n + 1) - (c + 1) + 1 = n - c + 1
          BY <1>0, <1>2, <3>1
        <4> QED
          BY <1>0, <3>1, <4>1
      <3>2. CASE st = 0 /\ c = n
        BY <1>0, <1>4, <2>2, <3>2
      <3> QED
        BY <1>2, <3>1, <3>2
    <2>4. \A j \in 1..(n + 1) : j + cap - Spare(w) <= (n + 1) - (c + 1) => g[j] + secs <= st
      <3>1. ~ ((n + 1) + cap - Spare(w) <= (n + 1) - (c + 1))
        BY <1>0, <1>2, <1>4 DEF Spare
      <3>2. (n + 1) - (c + 1) = n - c
        BY <1>0, <1>2
      <3> QED
        BY <1>0, <1>2, <1>3, <3>1, <3>2
    <2>5. ASSUME NEW j \in 1..n, t < h[j] + secs PROVE (n + 1) - j + 1 <= VelocityLimit(w)
      <3>1. st <= t
        BY <1>0, <1>1, <1>2
      <3>2. ~ (j + cap - Spare(w) <= n - c)
        BY <1>0, <1>2, <1>4, <2>5, <3>1
      <3>3. CASE secs <= StartTime
        <4>1. Spare(w) = 1 /\ VelocityLimit(w) = 2 * cap - 1
          BY <3>3 DEF Spare, VelocityLimit, cap, secs
        <4> QED
          BY <1>0, <1>2, <1>4, <2>1, <3>2, <4>1
      <3>4. CASE ~(secs <= StartTime)
        <4>1. Spare(w) = 0 /\ VelocityLimit(w) = 2 * cap
          BY <3>4 DEF Spare, VelocityLimit, cap, secs
        <4> QED
          BY <1>0, <1>2, <1>4, <2>1, <3>2, <4>1
      <3> QED
        BY <3>3, <3>4
    <2>6. ASSUME NEW j \in 1..(n + 1), NEW k \in 1..(n + 1), j < k, g[k] < g[j] + secs
          PROVE  k - j + 1 <= VelocityLimit(w)
      BY SMTT(40), <1>0, <1>2, <1>3, <2>5, <2>6
    <2>7. /\ y.count \in Nat /\ y.start \in Nat /\ y.count <= cap /\ y.count <= n + 1
          /\ y.count > 0 /\ n + 1 > 0
      BY <1>0, <1>2, <1>4, <2>1
    <2>8. \/ n + 1 > 0 /\ y.count > 0 /\ y.start = g[(n + 1) - y.count + 1]
          \/ y.start = 0 /\ y.count = n + 1 /\ (n + 1 = 0 \/ StartTime < secs)
      BY <2>1, <2>3, <2>7
    <2>9. \A j \in 1..(n + 1) : j + cap - Spare(w) <= (n + 1) - y.count => g[j] + secs <= y.start
      BY <2>1, <2>4
    <2> QED
      BY <1>0, <2>6, <2>7, <2>8, <2>9 DEF WindowOK, g, y, cap, secs
  <1> QED
    BY <1>5, <1>6

----------------------------------------------------------------------------
(* What a step of the engine does to one account: it creates it, it changes *)
(* its lists, or it runs the rule (a RECOVERY rule is run by the recovery   *)
(* paths).                                                                  *)

AccountFresh(k, r) == r.cfg \in Configs(k) /\ r.st = InitialState(k, r.cfg, now)

AccountRuns(k, q, r) ==
    /\ r.cfg = q.cfg
    /\ \E req, path : /\ req.amount \in Nat /\ req.asset \in Nat
                      /\ RuleOK(k, q.cfg, q.st, req, path, Env)
                      /\ r.st = RuleNext(k, q.cfg, q.st, req, Env)

AccountKept(k, q, r) == SameLimits(k, r.cfg, q.cfg) /\ r.st = q.st

LEMMA AccountOwnStep ==
    ASSUME TypeOK, HeadersMirrored, OwnShape, NEW k \in Kinds, NEW s \in Slots,
           rule_pda'[<<k, s>>].exists
    PROVE  \/ AccountFresh(k, rule_pda'[<<k, s>>])
           \/ /\ rule_pda[<<k, s>>].exists
              /\ \/ AccountRuns(k, rule_pda[<<k, s>>], rule_pda'[<<k, s>>])
                 \/ AccountKept(k, rule_pda[<<k, s>>], rule_pda'[<<k, s>>])
  <1>0. DOMAIN rule_pda = Addresses /\ <<k, s>> \in Addresses
    BY DEF TypeOK, Addresses
  <1>1. CASE rule_pda'[<<k, s>>] = rule_pda[<<k, s>>]
    BY <1>1 DEF AccountKept, SameLimits
  <1>2. CASE AddShape
    <2>1. PICK s2 \in Slots, k2 \in Kinds : \E c \in Configs(k2) : AddRule(k2, s2, c)
      BY <1>2 DEF AddShape
    <2>2. PICK c \in Configs(k2) : AddRule(k2, s2, c)
      BY <2>1
    <2>3. PICK r : /\ r.cfg = c /\ r.st = InitialState(k2, c, now)
                   /\ rule_pda' = [rule_pda EXCEPT ![<<k2, s2>>] = r]
      <3> DEFINE r == [exists |-> TRUE, generation |-> rules_flat[s2].generation + 1,
                       hash |-> ConfigHash(k2, c), cfg |-> c, st |-> InitialState(k2, c, now)]
      <3>1. r.cfg = c /\ r.st = InitialState(k2, c, now)
        OBVIOUS
      <3>2. rule_pda' = [rule_pda EXCEPT ![<<k2, s2>>] = r]
        BY <2>2 DEF AddRule
      <3> HIDE DEF r
      <3> QED
        BY <3>1, <3>2
    <2>4. CASE <<k2, s2>> = <<k, s>>
      <3>1. rule_pda'[<<k, s>>] = r /\ k2 = k
        BY <1>0, <2>3, <2>4
      <3> QED
        BY <2>2, <2>3, <3>1 DEF AccountFresh
    <2>5. CASE <<k2, s2>> # <<k, s>>
      BY <1>0, <1>1, <2>3, <2>5
    <2> QED
      BY <2>4, <2>5
  <1>3. CASE UpdateShape
    <2>1. PICK s2 \in Slots, k2 \in Kinds : \E c \in Configs(k2) :
             /\ RuleAt(k2, s2) /\ SameLimits(k2, c, rule_pda[<<k2, s2>>].cfg)
             /\ \E op, extras : UpdateRule(k2, s2, op, extras, c)
      BY <1>3 DEF UpdateShape
    <2>2. PICK c \in Configs(k2) :
             /\ RuleAt(k2, s2) /\ SameLimits(k2, c, rule_pda[<<k2, s2>>].cfg)
             /\ \E op, extras : UpdateRule(k2, s2, op, extras, c)
      BY <2>1
    <2>3. PICK r, q : /\ q = rule_pda[<<k2, s2>>]
                      /\ \E g, h : r = [q EXCEPT !.generation = g, !.hash = h, !.cfg = c]
                      /\ rule_pda' = [rule_pda EXCEPT ![<<k2, s2>>] = r]
      BY <2>2 DEF UpdateRule, WriteConfig
    <2>4. CASE <<k2, s2>> = <<k, s>>
      <3>1. rule_pda'[<<k, s>>] = r /\ k2 = k /\ rule_pda[<<k, s>>] = q
        BY <1>0, <2>3, <2>4
      <3>2. q.exists /\ DOMAIN q = {"exists", "generation", "hash", "cfg", "st"}
        BY <2>2, <2>3 DEF RuleAt, TypeOK, AccountOK, NoAccount
      <3>3. r.cfg = c /\ r.st = q.st
        BY <2>3, <3>2
      <3> QED
        BY <2>2, <2>3, <3>1, <3>2, <3>3 DEF AccountKept
    <2>5. CASE <<k2, s2>> # <<k, s>>
      BY <1>0, <1>1, <2>3, <2>5
    <2> QED
      BY <2>4, <2>5
  <1>4. CASE RemoveShape
    <2>1. PICK k2, s2 : rule_pda' = [rule_pda EXCEPT ![<<k2, s2>>] = NoAccount]
      BY <1>4 DEF RemoveShape, remove_rule
    <2>2. CASE <<k2, s2>> = <<k, s>>
      BY <1>0, <2>1, <2>2 DEF NoAccount
    <2>3. CASE <<k2, s2>> # <<k, s>>
      BY <1>0, <1>1, <2>1, <2>3
    <2> QED
      BY <2>2, <2>3
  <1>5. CASE DispatchShape
    <2>1. PICK req, path, skip : /\ req.amount \in Nat /\ req.asset \in Nat
                                 /\ dispatch_active_rules(req, path, skip)
      BY <1>5 DEF DispatchShape
    <2>2. PICK q : q = rule_pda[<<k, s>>]
      OBVIOUS
    <2>3. rule_pda'[<<k, s>>] =
             IF s \in Enforced(path, skip) /\ k = rules_flat[s].kind
             THEN [q EXCEPT !.st = RuleNext(k, q.cfg, q.st, req, Env)] ELSE q
      BY <1>0, <2>1, <2>2 DEF dispatch_active_rules
    <2>4. CASE s \in Enforced(path, skip) /\ k = rules_flat[s].kind
      <3>1. RuleOK(k, q.cfg, q.st, req, path, Env)
        BY <2>1, <2>2, <2>4 DEF dispatch_active_rules, Pda
      <3>2. q.exists
        BY <2>2, <2>4 DEF HeadersMirrored, Mirrored
      <3>3. DOMAIN q = {"exists", "generation", "hash", "cfg", "st"}
        BY <2>2, <3>2 DEF TypeOK, AccountOK, NoAccount
      <3>4. PICK r, v : r = rule_pda'[<<k, s>>] /\ v = RuleNext(k, q.cfg, q.st, req, Env)
        OBVIOUS
      <3>5. r.cfg = q.cfg /\ r.st = v
        BY <2>3, <2>4, <3>3, <3>4
      <3> QED
        BY <2>1, <2>2, <3>1, <3>2, <3>4, <3>5 DEF AccountRuns
    <2>5. CASE ~(s \in Enforced(path, skip) /\ k = rules_flat[s].kind)
      BY <1>1, <2>2, <2>3, <2>5
    <2> QED
      BY <2>4, <2>5
  <1>7. CASE CommandShape \/ EnvShape \/ UNCHANGED vars
    BY <1>1, <1>7, UnchangedRules
  <1> QED
    BY <1>2, <1>3, <1>4, <1>5, <1>7 DEF OwnShape

LEMMA AccountStep ==
    ASSUME TypeOK, HeadersMirrored, EngineShape, NEW k \in Kinds, NEW s \in Slots,
           rule_pda'[<<k, s>>].exists
    PROVE  \/ AccountFresh(k, rule_pda'[<<k, s>>])
           \/ /\ rule_pda[<<k, s>>].exists
              /\ \/ AccountRuns(k, rule_pda[<<k, s>>], rule_pda'[<<k, s>>])
                 \/ AccountKept(k, rule_pda[<<k, s>>], rule_pda'[<<k, s>>])
                 \/ k = "RECOVERY" /\ RecoverShape
  <1>0. DOMAIN rule_pda = Addresses /\ <<k, s>> \in Addresses
    BY DEF TypeOK, Addresses
  <1>1. CASE rule_pda'[<<k, s>>] = rule_pda[<<k, s>>]
    BY <1>1 DEF AccountKept, SameLimits
  <1>2. CASE RecoverShape
    <2>1. CASE k = "RECOVERY"
      <3>1. rule_pda[<<k, s>>].exists
        BY <1>2, SignKeepsHeaders
      <3> QED
        BY <1>2, <2>1, <3>1
    <2>2. CASE k # "RECOVERY"
      BY <1>0, <1>1, <1>2, <2>2 DEF RecoverShape
    <2> QED
      BY <2>1, <2>2
  <1>3. CASE OwnShape
    BY <1>3, AccountOwnStep
  <1> QED
    BY <1>2, <1>3 DEF EngineShape, OwnShape

(* The clock only goes forward. *)
LEMMA ClockForward ==
    ASSUME TypeOK, EngineShape
    PROVE  now \in Nat /\ now' \in Nat /\ now <= now'
  <1>1. now \in Nat
    BY DEF TypeOK
  <1>2. CASE AddShape \/ UpdateShape \/ RemoveShape \/ CommandShape
    <2>1. CASE AddShape
      BY <1>1, <2>1 DEF AddShape, AddRule, envVars
    <2>2. CASE UpdateShape
      BY <1>1, <2>2 DEF UpdateShape, UpdateRule, envVars
    <2>3. CASE RemoveShape
      BY <1>1, <2>3 DEF RemoveShape, remove_rule, envVars
    <2>4. CASE CommandShape
      BY <1>1, <2>4 DEF CommandShape, envVars
    <2> QED
      BY <1>2, <2>1, <2>2, <2>3, <2>4
  <1>3. CASE DispatchShape \/ RecoverShape \/ EnvShape \/ UNCHANGED vars
    BY <1>1, <1>3 DEF DispatchShape, RecoverShape, EnvShape, vars, envVars
  <1> QED
    BY <1>2, <1>3 DEF EngineShape

(* What the counters of an account say, at time t. *)
VelocityCounted(cfg, st, t) ==
    /\ TimesOK(st.hist, t)
    /\ \A i \in DOMAIN cfg.windows :
          cfg.windows[i].cap < U64Max => WindowOK(cfg.windows[i], st.windows[i], st.hist)

SpendingCounted(cfg, st, t) ==
    /\ st.hist \in Seq(Entry)
    /\ \A j \in DOMAIN st.hist : cfg.caps.tx > 0 => st.hist[j].amount <= cfg.caps.tx
    /\ Ceiling(cfg.caps.day) => BucketOK(st.hist, Day, st.day, st.daySum, cfg.caps.day, t)
    /\ Ceiling(cfg.caps.week) => BucketOK(st.hist, Week, st.week, st.weekSum, cfg.caps.week, t)

CountersOK ==
    /\ StartTime <= now
    /\ \A s \in Slots, k \in Kinds : rule_pda[<<k, s>>].exists =>
          /\ k = "VELOCITY" =>
                VelocityCounted(rule_pda[<<k, s>>].cfg, rule_pda[<<k, s>>].st, now)
          /\ k = "SPENDING_USD" =>
                SpendingCounted(rule_pda[<<k, s>>].cfg, rule_pda[<<k, s>>].st, now)

LEMMA WindowsType ==
    ASSUME NEW cfg \in Configs("VELOCITY"), NEW i \in DOMAIN cfg.windows
    PROVE  cfg.windows[i].secs \in Nat \ {0} /\ cfg.windows[i].cap \in Nat \ {0}
  <1>1. cfg.windows \in VelocityWindows
    BY DEF Configs, VelocityConfigs
  <1>2. cfg.windows \in Seq([secs : Nat \ {0}, cap : Nat \ {0}])
    BY <1>1, WindowAssumption
  <1>3. cfg.windows[i] \in [secs : Nat \ {0}, cap : Nat \ {0}]
    <2>1. \A S : \A q \in Seq(S) : \A n \in DOMAIN q : q[n] \in S
      OBVIOUS
    <2> QED
      BY <1>2, <2>1, Zenon
  <1> QED
    BY <1>3

LEMMA VelocityFresh ==
    ASSUME NEW cfg \in Configs("VELOCITY"), NEW t \in Nat, NEW u \in Nat
    PROVE  VelocityCounted(cfg, InitialState("VELOCITY", cfg, u), t)
  <1> DEFINE st == InitialState("VELOCITY", cfg, u)
  <1>1. /\ st.hist = <<>>
        /\ \A i \in DOMAIN cfg.windows : st.windows[i] = [count |-> 0, start |-> 0]
    BY DEF InitialState
  <1> HIDE DEF st
  <1>2. TimesOK(<<>>, t)
    BY DEF TimesOK
  <1>3. ASSUME NEW i \in DOMAIN cfg.windows PROVE WindowOK(cfg.windows[i], st.windows[i], <<>>)
    BY <1>1, WindowsType DEF WindowOK
  <1> QED
    BY <1>1, <1>2, <1>3 DEF VelocityCounted, st

LEMMA VelocityWaits ==
    ASSUME NEW cfg, NEW st, NEW t \in Nat, NEW u \in Nat, t <= u, VelocityCounted(cfg, st, t)
    PROVE  VelocityCounted(cfg, st, u)
  <1>1. \A j \in 1..Len(st.hist) : st.hist[j] \in Nat
    BY DEF VelocityCounted, TimesOK
  <1> QED
    BY <1>1 DEF VelocityCounted, TimesOK

LEMMA VelocityRuns ==
    ASSUME NEW cfg \in Configs("VELOCITY"), NEW st, NEW t \in Nat, StartTime <= t,
           VelocityCounted(cfg, st, t), VelocityOK(cfg, st, t)
    PROVE  VelocityCounted(cfg, VelocityNext(cfg, st, t), t)
  <1> DEFINE next == VelocityNext(cfg, st, t)
  <1>1. /\ next.hist = Append(st.hist, t)
        /\ \A i \in DOMAIN cfg.windows :
              next.windows[i] = NextWindow(cfg.windows[i], st.windows[i], t)
    BY DEF VelocityNext
  <1>2. \A i \in DOMAIN cfg.windows : next.windows[i].count <= cfg.windows[i].cap
    BY DEF VelocityOK
  <1> HIDE DEF next
  <1>3. TimesOK(next.hist, t)
    BY <1>1, TimesAppended DEF VelocityCounted
  <1>4. ASSUME NEW i \in DOMAIN cfg.windows, cfg.windows[i].cap < U64Max
        PROVE  WindowOK(cfg.windows[i], next.windows[i], next.hist)
    <2>1. PICK w, x : w = cfg.windows[i] /\ x = st.windows[i]
      OBVIOUS
    <2>2. /\ w.secs \in Nat \ {0} /\ w.cap \in Nat \ {0} /\ w.cap < U64Max
          /\ TimesOK(st.hist, t) /\ WindowOK(w, x, st.hist)
          /\ NextWindow(w, x, t).count <= w.cap
      BY <1>1, <1>2, <1>4, <2>1, WindowsType DEF VelocityCounted
    <2>3. WindowOK(w, NextWindow(w, x, t), Append(st.hist, t))
      BY <2>2, WindowCounted
    <2> QED
      BY <1>1, <2>1, <2>3
  <1> QED
    BY <1>3, <1>4 DEF VelocityCounted, next

LEMMA SpendingConfig ==
    ASSUME NEW cfg \in Configs("SPENDING_USD")
    PROVE  /\ cfg.caps.tx \in Nat /\ cfg.caps.day \in Nat /\ cfg.caps.week \in Nat
           /\ \A n \in DOMAIN cfg.feeds : cfg.feeds[n].feed \in Feed /\ cfg.feeds[n].decimals \in Decimals
           /\ DOMAIN cfg.feeds = 1..Len(cfg.feeds) /\ Len(cfg.feeds) \in Nat
  <1> DEFINE F == Seq(SpendingFeeds)
             R == [applies : {{"normal"}}, fresh : Freshness, maxConf : MaxConfidence,
                   caps : SpendingCaps, feeds : F]
  <1>1. Configs("SPENDING_USD") = R
    BY DEF Configs
  <1>2. cfg.caps \in SpendingCaps /\ cfg.feeds \in F
    <2> HIDE DEF F
    <2>1. \A x \in R : x.caps \in SpendingCaps /\ x.feeds \in F
      OBVIOUS
    <2> HIDE DEF R
    <2> QED
      BY <1>1, <2>1
  <1>3. cfg.caps.tx \in Nat /\ cfg.caps.day \in Nat /\ cfg.caps.week \in Nat
    BY <1>2, CapsAssumption
  <1>4. \A n \in DOMAIN cfg.feeds : cfg.feeds[n] \in SpendingFeeds
    <2>1. \A S : \A q \in Seq(S) : \A n \in DOMAIN q : q[n] \in S
      OBVIOUS
    <2> QED
      BY <1>2, <2>1, Zenon
  <1>5. DOMAIN cfg.feeds = 1..Len(cfg.feeds) /\ Len(cfg.feeds) \in Nat
    BY <1>2
  <1> QED
    BY <1>3, <1>4, <1>5 DEF SpendingFeeds

LEMMA SpendingFresh ==
    ASSUME NEW cfg \in Configs("SPENDING_USD"), NEW t \in Nat, NEW u \in Nat
    PROVE  SpendingCounted(cfg, InitialState("SPENDING_USD", cfg, u), t)
  <1> DEFINE st == InitialState("SPENDING_USD", cfg, u)
  <1>1. st.hist = <<>> /\ st.day = 0 /\ st.daySum = 0 /\ st.week = 0 /\ st.weekSum = 0
    BY DEF InitialState
  <1>2. <<>> \in Seq(Entry)
    OBVIOUS
  <1> HIDE DEF st
  <1>3. /\ BucketOK(<<>>, Day, 0, 0, cfg.caps.day, t)
        /\ BucketOK(<<>>, Week, 0, 0, cfg.caps.week, t)
    BY SpendingConfig, BucketStarts, BucketAssumption
  <1>4. DOMAIN st.hist = {}
    BY <1>1
  <1> QED
    BY <1>1, <1>2, <1>3, <1>4 DEF SpendingCounted, st

LEMMA SpendingWaits ==
    ASSUME NEW cfg, NEW new, new.caps = cfg.caps, NEW st, NEW t \in Nat, NEW u \in Nat, t <= u,
           SpendingCounted(cfg, st, t)
    PROVE  SpendingCounted(new, st, u)
  BY BucketWaits, BucketAssumption DEF SpendingCounted

(* The value of a request is a number. *)
LEMMA UsdType ==
    ASSUME NEW cfg \in Configs("SPENDING_USD"), NEW req, req.amount \in Nat, req.asset \in Nat,
           req.asset < Len(cfg.feeds), TypeOK
    PROVE  Usd(cfg, prices, req) \in Nat
  <1>1. req.asset + 1 \in DOMAIN cfg.feeds
    BY SpendingConfig
  <1>2. PICK f : f = cfg.feeds[req.asset + 1]
    OBVIOUS
  <1>3. prices[f.feed].price \in Nat /\ 10 ^ f.decimals \in Nat \ {0}
    BY <1>1, <1>2, SpendingConfig, DecimalsAssumption DEF TypeOK
  <1>4. PICK a, p, d : a = req.amount /\ p = prices[f.feed].price /\ d = 10 ^ f.decimals
    OBVIOUS
  <1>5. a * p \in Nat /\ d \in Nat \ {0}
    BY <1>3, <1>4
  <1>6. (a * p) \div d \in Nat
    BY <1>5
  <1> QED
    BY <1>2, <1>4, <1>6 DEF Usd

LEMMA SpendingRuns ==
    ASSUME NEW cfg \in Configs("SPENDING_USD"), NEW st, TypeOK, SpendingCounted(cfg, st, now),
           NEW req, NEW path, req.amount \in Nat, req.asset \in Nat,
           SpendingOK(cfg, st, prices, req, path, now)
    PROVE  SpendingCounted(cfg, SpendingNext(cfg, st, prices, req, now), now)
  <1> DEFINE next == SpendingNext(cfg, st, prices, req, now)
  <1>1. PICK usd : usd = Usd(cfg, prices, req)
    OBVIOUS
  <1>2. usd \in Nat /\ now \in Nat
    BY <1>1, UsdType DEF SpendingOK, TypeOK
  <1>3. /\ next.hist = Append(st.hist, [ts |-> now, amount |-> usd])
        /\ next.day = Bucket(now, Day) /\ next.week = Bucket(now, Week)
        /\ next.daySum = (IF Bucket(now, Day) # st.day THEN usd ELSE SatAdd(st.daySum, usd))
        /\ next.weekSum = (IF Bucket(now, Week) # st.week THEN usd ELSE SatAdd(st.weekSum, usd))
    BY <1>1 DEF SpendingNext
  <1>4. /\ cfg.caps.tx > 0 => usd <= cfg.caps.tx
        /\ cfg.caps.day > 0 => next.daySum <= cfg.caps.day
        /\ cfg.caps.week > 0 => next.weekSum <= cfg.caps.week
    BY <1>1 DEF SpendingOK
  <1> HIDE DEF next
  <1>5. st.hist \in Seq(Entry) /\ [ts |-> now, amount |-> usd] \in Entry
    BY <1>2 DEF SpendingCounted, Entry
  <1>6. next.hist \in Seq(Entry)
    BY <1>3, <1>5
  <1>7. \A j \in DOMAIN next.hist : cfg.caps.tx > 0 => next.hist[j].amount <= cfg.caps.tx
    <2> TAKE j \in DOMAIN next.hist
    <2>1. PICK e : e = [ts |-> now, amount |-> usd]
      OBVIOUS
    <2>2. e.amount = usd /\ e \in Entry /\ next.hist = Append(st.hist, e)
      BY <1>3, <1>5, <2>1
    <2>3. (j \in DOMAIN st.hist /\ next.hist[j] = st.hist[j]) \/ next.hist[j] = e
      BY <1>5, <2>2
    <2> QED
      BY <1>4, <2>2, <2>3 DEF SpendingCounted
  <1>8. ASSUME Ceiling(cfg.caps.day)
        PROVE  BucketOK(next.hist, Day, next.day, next.daySum, cfg.caps.day, now)
    <2>1. PICK cap, sum : cap = cfg.caps.day /\ sum = next.daySum
      OBVIOUS
    <2>2. /\ cap \in Nat /\ cap < U64Max /\ sum <= cap /\ Day \in Nat \ {0}
          /\ BucketOK(st.hist, Day, st.day, st.daySum, cap, now)
      BY <1>4, <1>8, <2>1, SpendingConfig, BucketAssumption DEF SpendingCounted, Ceiling
    <2>3. BucketOK(Append(st.hist, [ts |-> now, amount |-> usd]), Day, Bucket(now, Day), sum, cap, now)
      BY <1>2, <1>3, <1>5, <2>1, <2>2, BucketCharged
    <2> QED
      BY <1>3, <2>1, <2>3
  <1>9. ASSUME Ceiling(cfg.caps.week)
        PROVE  BucketOK(next.hist, Week, next.week, next.weekSum, cfg.caps.week, now)
    <2>1. PICK cap, sum : cap = cfg.caps.week /\ sum = next.weekSum
      OBVIOUS
    <2>2. /\ cap \in Nat /\ cap < U64Max /\ sum <= cap /\ Week \in Nat \ {0}
          /\ BucketOK(st.hist, Week, st.week, st.weekSum, cap, now)
      BY <1>4, <1>9, <2>1, SpendingConfig, BucketAssumption DEF SpendingCounted, Ceiling
    <2>3. BucketOK(Append(st.hist, [ts |-> now, amount |-> usd]), Week, Bucket(now, Week), sum, cap, now)
      BY <1>2, <1>3, <1>5, <2>1, <2>2, BucketCharged
    <2> QED
      BY <1>3, <2>1, <2>3
  <1> QED
    BY <1>6, <1>7, <1>8, <1>9 DEF SpendingCounted, next

----------------------------------------------------------------------------
(* The counters through the steps of the engine. *)
LEMMA CountersInit == Init => CountersOK
  <1> SUFFICES ASSUME Init PROVE CountersOK
    OBVIOUS
  <1>1. \A s \in Slots, k \in Kinds : ~rule_pda[<<k, s>>].exists
    BY DEF Init, Addresses, NoAccount
  <1> QED
    BY <1>1, TimeAssumption DEF Init, CountersOK

LEMMA CountersStep ==
    TypeOK /\ HeadersMirrored /\ CountersOK /\ EngineShape => CountersOK'
  <1> SUFFICES ASSUME TypeOK, HeadersMirrored, CountersOK, EngineShape PROVE CountersOK'
    OBVIOUS
  <1>1. now \in Nat /\ now' \in Nat /\ now <= now' /\ StartTime \in Nat /\ StartTime <= now
    BY ClockForward, TimeAssumption DEF CountersOK
  <1>2. ASSUME NEW k \in Kinds, NEW s \in Slots, NEW q, NEW r, q = rule_pda[<<k, s>>],
               r = rule_pda'[<<k, s>>], r.exists, k = "VELOCITY"
        PROVE  VelocityCounted(r.cfg, r.st, now')
    <2>1. CASE AccountFresh(k, r)
      BY <1>1, <1>2, <2>1, VelocityFresh DEF AccountFresh
    <2>2. ASSUME q.exists PROVE VelocityCounted(q.cfg, q.st, now) /\ q.cfg \in Configs("VELOCITY")
      BY <1>2, <2>2 DEF CountersOK, TypeOK, AccountOK, NoAccount
    <2>3. CASE q.exists /\ AccountRuns(k, q, r)
      <3>1. VelocityOK(q.cfg, q.st, now) /\ r.st = VelocityNext(q.cfg, q.st, now) /\ r.cfg = q.cfg
        BY <1>2, <2>3 DEF AccountRuns, RuleOK, RuleNext, Env
      <3>2. VelocityCounted(r.cfg, r.st, now)
        BY <1>1, <2>2, <2>3, <3>1, VelocityRuns
      <3> QED
        BY <1>1, <3>2, VelocityWaits
    <2>4. CASE q.exists /\ AccountKept(k, q, r)
      <3>1. r.cfg = q.cfg /\ r.st = q.st
        BY <1>2, <2>4 DEF AccountKept, SameLimits
      <3> QED
        BY <1>1, <2>2, <2>4, <3>1, VelocityWaits
    <2> QED
      BY <1>2, <2>1, <2>3, <2>4, AccountStep
  <1>3. ASSUME NEW k \in Kinds, NEW s \in Slots, NEW q, NEW r, q = rule_pda[<<k, s>>],
               r = rule_pda'[<<k, s>>], r.exists, k = "SPENDING_USD"
        PROVE  SpendingCounted(r.cfg, r.st, now')
    <2>1. CASE AccountFresh(k, r)
      BY <1>1, <1>3, <2>1, SpendingFresh DEF AccountFresh
    <2>2. ASSUME q.exists PROVE SpendingCounted(q.cfg, q.st, now) /\ q.cfg \in Configs("SPENDING_USD")
      BY <1>3, <2>2 DEF CountersOK, TypeOK, AccountOK, NoAccount
    <2>3. CASE q.exists /\ AccountRuns(k, q, r)
      <3>1. PICK req, path : /\ req.amount \in Nat /\ req.asset \in Nat
                             /\ RuleOK(k, q.cfg, q.st, req, path, Env)
                             /\ r.st = RuleNext(k, q.cfg, q.st, req, Env)
        BY <2>3 DEF AccountRuns
      <3>2. /\ SpendingOK(q.cfg, q.st, prices, req, path, now)
            /\ r.st = SpendingNext(q.cfg, q.st, prices, req, now) /\ r.cfg = q.cfg
        BY <1>3, <2>3, <3>1 DEF AccountRuns, RuleOK, RuleNext, Env
      <3>3. SpendingCounted(r.cfg, r.st, now)
        BY <2>2, <2>3, <3>1, <3>2, SpendingRuns
      <3> QED
        BY <1>1, <3>3, SpendingWaits
    <2>4. CASE q.exists /\ AccountKept(k, q, r)
      <3>1. r.cfg.caps = q.cfg.caps /\ r.st = q.st
        BY <1>3, <2>4 DEF AccountKept, SameLimits
      <3> QED
        BY <1>1, <2>2, <2>4, <3>1, SpendingWaits
    <2> QED
      BY <1>3, <2>1, <2>3, <2>4, AccountStep
  <1>4. StartTime <= now'
    BY <1>1
  <1> QED
    BY <1>2, <1>3, <1>4 DEF CountersOK

(* The account of an active rule exists. *)
LEMMA LiveAccount ==
    ASSUME TypeOK, HeadersMirrored, NEW s \in Live
    PROVE  /\ rules_flat[s].kind \in Kinds /\ s \in Slots
           /\ Pda(s).exists /\ Pda(s) = rule_pda[<<rules_flat[s].kind, s>>]
           /\ Pda(s).cfg \in Configs(rules_flat[s].kind)
  <1>1. s \in Slots /\ rules_flat[s].kind \in Kinds
    BY DEF Live, TypeOK, Entries, EMPTY
  <1>2. PICK k : k = rules_flat[s].kind
    OBVIOUS
  <1>3. rule_pda[<<k, s>>].exists
    BY <1>1, <1>2 DEF HeadersMirrored, Mirrored
  <1>4. rule_pda[<<k, s>>].cfg \in Configs(k)
    BY <1>1, <1>2, <1>3 DEF TypeOK, AccountOK, NoAccount
  <1> QED
    BY <1>1, <1>2, <1>3, <1>4 DEF Pda

LEMMA CountersBoundSpending == TypeOK /\ HeadersMirrored /\ CountersOK => SpendingWithinCaps
  <1> SUFFICES ASSUME TypeOK, HeadersMirrored, CountersOK, NEW s \in Live,
                      rules_flat[s].kind = "SPENDING_USD", NEW j \in DOMAIN Pda(s).st.hist
               PROVE  LET h == Pda(s).st.hist
                          c == Pda(s).cfg.caps
                      IN  /\ c.tx > 0        => h[j].amount <= c.tx
                          /\ Ceiling(c.day)  => SpentIn(h, Day, Bucket(h[j].ts, Day)) <= c.day
                          /\ Ceiling(c.week) => SpentIn(h, Week, Bucket(h[j].ts, Week)) <= c.week
    BY DEF SpendingWithinCaps
  <1>1. SpendingCounted(Pda(s).cfg, Pda(s).st, now)
    BY LiveAccount DEF CountersOK
  <1>2. PICK h : h = Pda(s).st.hist
    OBVIOUS
  <1>3. h \in Seq(Entry) /\ j \in DOMAIN h
    BY <1>1, <1>2 DEF SpendingCounted
  <1>4. h[j].ts \in Nat
    <2>1. \A S : \A q \in Seq(S) : \A n \in DOMAIN q : q[n] \in S
      OBVIOUS
    <2>2. h[j] \in Entry
      BY <1>3, <2>1, Zenon
    <2> QED
      BY <2>2 DEF Entry
  <1>5. Bucket(h[j].ts, Day) \in Nat /\ Bucket(h[j].ts, Week) \in Nat
    BY <1>4, BucketType, BucketAssumption
  <1> QED
    BY <1>1, <1>2, <1>5 DEF SpendingCounted, BucketOK

LEMMA CountersBoundVelocity == TypeOK /\ HeadersMirrored /\ CountersOK => VelocityBounded
  <1> SUFFICES ASSUME TypeOK, HeadersMirrored, CountersOK, NEW s \in Live,
                      rules_flat[s].kind = "VELOCITY", NEW i \in DOMAIN Pda(s).cfg.windows,
                      Pda(s).cfg.windows[i].cap < U64Max,
                      NEW j \in DOMAIN Pda(s).st.hist, NEW k \in DOMAIN Pda(s).st.hist, j < k,
                      Pda(s).st.hist[k] < Pda(s).st.hist[j] + Pda(s).cfg.windows[i].secs
               PROVE  k - j + 1 <= VelocityLimit(Pda(s).cfg.windows[i])
    BY DEF VelocityBounded
  <1>1. VelocityCounted(Pda(s).cfg, Pda(s).st, now)
    BY LiveAccount DEF CountersOK
  <1>2. PICK h, w, x : h = Pda(s).st.hist /\ w = Pda(s).cfg.windows[i] /\ x = Pda(s).st.windows[i]
    OBVIOUS
  <1>3. h \in Seq(Nat) /\ WindowOK(w, x, h)
    BY <1>1, <1>2 DEF VelocityCounted, TimesOK
  <1>4. DOMAIN h = 1..Len(h)
    BY <1>3
  <1> QED
    BY <1>2, <1>3, <1>4 DEF WindowOK

(* Whatever is approved, and whenever, the value a SPENDING_USD rule lets   *)
(* through in one UTC day or week stays within its ceilings: the running    *)
(* sums of the sub-account are the sums over the bucket the clock is in,    *)
(* and feeds added to the rule leave them alone.                            *)
THEOREM SpendingStaysWithinCaps == Spec => []SpendingWithinCaps
  BY CountersInit, CountersStep, CountersBoundSpending, EngineShapes, TypeCorrect,
     HeadersStayMirrored, PTL DEF Spec

=============================================================================
