-------------------------- MODULE Recovery_proofs --------------------------
(***************************************************************************)
(* Proofs about the recovery paths of a PolicyEngine, for every number of  *)
(* slots, members, session seeds and signatures, while the owner goes on   *)
(* administering the engine and signing requests.                          *)
(***************************************************************************)
EXTENDS Recovery, PolicyEngine_proofs

----------------------------------------------------------------------------
(* What a recovery step does to the engine has one of its shapes. *)

(* The steps that read the engine and leave it alone. *)
OffEngine ==
    \/ PrimarySigns
    \/ \E n \in SessionSeeds :
          \/ \E m \in Member : MemberSigns(n, m) \/ Contribute(n, m)
          \/ quorum_session_close(n) \/ passkey_session_close(n) \/ oidc_session_close(n)

(* The steps of a session that load the rule of a slot. *)
OnRule(s, n) ==
    \/ \E c \in primarySigned :
          \/ c.op = "quorum" /\ quorum_session_open(s, n, c.msg, c.dest, c.amount, c.expires)
          \/ c.op = "passkey" /\ passkey_session_open(s, n, c.notAfter)
          \/ c.op = "oidc" /\ oidc_session_open(s, n, c.notAfter)
    \/ quorum_session_finalize(s, n)
    \/ \E msg \in Msg : recover_as_primary_passkey_session(s, n, msg)
    \/ \E msg \in Msg : recover_as_primary_oidc(s, n, msg)
    \/ \E msg \in Msg, d \in Dest : request_signature_via_oidc_session(s, n, msg, d)

LEMMA RecoverySteps ==
    ASSUME [RecoveryNext]_allVars
    PROVE  \/ [Next]_vars /\ UNCHANGED recoveryVars
           \/ OffEngine
           \/ \E s \in RecoverySlots, msg \in Msg, d \in Dest, amount \in Amounts :
                 recover_as_primary(s, msg, d, amount)
           \/ \E s \in RecoverySlots, n \in SessionSeeds : OnRule(s, n)
  BY DEF RecoveryNext, RecoveryStep, OffEngine, OnRule, quorum_session_contribute,
         quorum_session_contribute_webauthn, allVars, recoveryVars

(* A step that loads a rule writes its state, or runs the other rules. *)
LEMMA OnRuleShape ==
    ASSUME NEW s \in RecoverySlots, NEW n, OnRule(s, n)
    PROVE  DispatchShape \/ RecoverShape
  <1>0. s \in Slots /\ "RECOVERY" \in Kinds /\ rule_pda[<<"RECOVERY", s>>].exists
    BY DEF RecoverySlots, Rule
  <1>1. ASSUME NEW st, SetRuleState(s, st), EngineUnchanged PROVE RecoverShape
    BY <1>0, <1>1 DEF SetRuleState, EngineUnchanged, RecoverShape
  <1>2. ASSUME rule_pda' = rule_pda, EngineUnchanged PROVE RecoverShape
    BY <1>2 DEF EngineUnchanged, RecoverShape
  <1>4. ASSUME NEW msg, NEW d, NEW amount, NEW e, quorum_session_open(s, n, msg, d, amount, e)
        PROVE  RecoverShape
    BY <1>1, <1>4 DEF quorum_session_open
  <1>5. ASSUME NEW e, passkey_session_open(s, n, e) PROVE RecoverShape
    BY <1>1, <1>5 DEF passkey_session_open
  <1>6. ASSUME NEW e, oidc_session_open(s, n, e) PROVE RecoverShape
    BY <1>2, <1>6 DEF oidc_session_open
  <1>7. ASSUME quorum_session_finalize(s, n) PROVE RecoverShape
    BY <1>1, <1>7 DEF quorum_session_finalize
  <1>8. ASSUME NEW msg, recover_as_primary_passkey_session(s, n, msg) PROVE RecoverShape
    BY <1>2, <1>8 DEF recover_as_primary_passkey_session
  <1>9. ASSUME NEW msg, recover_as_primary_oidc(s, n, msg) PROVE RecoverShape
    BY <1>2, <1>9 DEF recover_as_primary_oidc
  <1>10. ASSUME NEW msg, NEW d, request_signature_via_oidc_session(s, n, msg, d)
         PROVE  DispatchShape
    <2> DEFINE req == request_metadata_digest([msg |-> msg, dest |-> d, amount |-> 0, asset |-> 0],
                                              rules_generation, "session")
    <2>1. req.amount \in Nat /\ req.asset \in Nat
      BY DEF request_metadata_digest
    <2>2. dispatch_active_rules(req, "session", {s}) /\ EngineUnchanged
      BY <1>10 DEF request_signature_via_oidc_session
    <2> HIDE DEF req
    <2> QED
      BY <2>1, <2>2 DEF DispatchShape, EngineUnchanged
  <1> QED
    BY <1>4, <1>5, <1>6, <1>7, <1>8, <1>9, <1>10 DEF OnRule

LEMMA RecoverAloneShape ==
    ASSUME NEW s \in RecoverySlots, NEW msg, NEW d, NEW amount, recover_as_primary(s, msg, d, amount)
    PROVE  RecoverShape
  BY DEF RecoverySlots, Rule, recover_as_primary, SetRuleState, EngineUnchanged, RecoverShape

LEMMA OffEngineFrame == OffEngine => UNCHANGED <<vars, recoveries>>
  BY DEF OffEngine, PrimarySigns, MemberSigns, Contribute, quorum_session_close,
         passkey_session_close, oidc_session_close

LEMMA RecoveryStepShape == TypeOK /\ [RecoveryNext]_allVars => EngineShape
  <1> SUFFICES ASSUME TypeOK, [RecoveryNext]_allVars PROVE EngineShape
    OBVIOUS
  <1>1. CASE [Next]_vars
    BY <1>1, EngineShapes
  <1>2. CASE OffEngine
    BY <1>2, OffEngineFrame DEF EngineShape
  <1>3. ASSUME NEW s \in RecoverySlots, NEW n, OnRule(s, n) PROVE EngineShape
    BY <1>3, OnRuleShape DEF EngineShape
  <1>4. ASSUME NEW s \in RecoverySlots, NEW msg, NEW d, NEW amount,
               recover_as_primary(s, msg, d, amount)
        PROVE  EngineShape
    BY <1>4, RecoverAloneShape DEF EngineShape
  <1> QED
    BY <1>1, <1>2, <1>3, <1>4, RecoverySteps

----------------------------------------------------------------------------
(* What the primaries and the members have signed. *)

ChallengesOK ==
    \A c \in primarySigned : /\ c.op = "quorum" => c.amount \in Nat
                             /\ c.op \in {"passkey", "oidc"} => c.notAfter \in Nat

(* Signatures are never lost. *)
LEMMA SignaturesKept ==
    ASSUME [RecoveryNext]_allVars
    PROVE  /\ endorsements \subseteq endorsements'
           /\ primarySigned \subseteq primarySigned'
           /\ primarySigned' = primarySigned \/ PrimarySigns
  <1>1. CASE OffEngine
    BY <1>1 DEF OffEngine, PrimarySigns, MemberSigns, Contribute, quorum_session_close,
                passkey_session_close, oidc_session_close
  <1>2. ASSUME NEW s, NEW n, OnRule(s, n) PROVE UNCHANGED <<primarySigned, endorsements>>
    BY <1>2 DEF OnRule, quorum_session_open, passkey_session_open,
                oidc_session_open, quorum_session_finalize, recover_as_primary_passkey_session,
                recover_as_primary_oidc, request_signature_via_oidc_session
  <1>3. ASSUME NEW s, NEW msg, NEW d, NEW amount, recover_as_primary(s, msg, d, amount)
        PROVE  UNCHANGED <<primarySigned, endorsements>>
    BY <1>3 DEF recover_as_primary
  <1> QED
    BY <1>1, <1>2, <1>3, RecoverySteps DEF recoveryVars

LEMMA ChallengesStep ==
    ASSUME TypeOK, ChallengesOK, [RecoveryNext]_allVars
    PROVE  ChallengesOK'
  <1>1. CASE primarySigned' = primarySigned
    BY <1>1 DEF ChallengesOK
  <1>2. CASE PrimarySigns
    <2>1. PICK s \in RecoverySlots : \E c \in PrimaryMaySign(s) : primarySigned' = primarySigned \cup {c}
      BY <1>2 DEF PrimarySigns
    <2>2. PICK c \in PrimaryMaySign(s) : primarySigned' = primarySigned \cup {c}
      BY <2>1
    <2>3. now \in Nat
      BY DEF TypeOK
    <2>4. (c.op = "quorum" => c.amount \in Nat) /\ (c.op \in {"passkey", "oidc"} => c.notAfter \in Nat)
      <3>1. CASE PrimaryOf(s).scheme = "key"
        <4>1. \/ \E m \in Msg : c = RecoverChallenge(s, m)
              \/ \E m \in Msg, d \in Dest, a \in Amounts, t \in Ttls :
                    c = QuorumChallenge(s, m, d, a, now + t)
          BY <2>2, <3>1 DEF PrimaryMaySign
        <4> QED
          BY <4>1, ItemAssumption DEF RecoverChallenge, QuorumChallenge
      <3>2. CASE PrimaryOf(s).scheme = "webauthn"
        <4>1. \E t \in Ttls : c = PasskeyChallenge(s, now + t)
          BY <2>2, <3>2 DEF PrimaryMaySign
        <4> QED
          BY <2>3, <4>1, TtlAssumption DEF PasskeyChallenge
      <3>3. CASE PrimaryOf(s).scheme = "oidc"
        <4>1. \E t \in Ttls : c = OidcChallenge(s, now + t)
          BY <2>2, <3>3 DEF PrimaryMaySign
        <4> QED
          BY <2>3, <4>1, TtlAssumption DEF OidcChallenge
      <3> QED
        BY <2>2, <3>1, <3>2, <3>3 DEF PrimaryMaySign
    <2> QED
      BY <2>2, <2>4 DEF ChallengesOK
  <1> QED
    BY <1>1, <1>2, SignaturesKept

----------------------------------------------------------------------------
(* Quorum sessions. *)

(* A quorum session copies the primary's request and its rule's roster and  *)
(* threshold; its counter is the number of members whose endorsement of     *)
(* this very request has been seen.                                         *)
QuorumRecord(q) ==
    \/ q = NoSession
    \/ /\ DOMAIN q = {"exists", "rule", "nonce", "msg", "dest", "amount", "expires", "finalized",
                      "members", "threshold", "count", "bitmap", "primary"}
       /\ q.exists = TRUE
       /\ q.amount \in Nat
       /\ q.threshold \in Nat /\ q.threshold >= 1
       /\ q.members \subseteq Member /\ q.bitmap \subseteq q.members
       /\ q.count = Cardinality(q.bitmap)
       /\ \A m \in q.bitmap : \E e \in endorsements :
             e.member = m /\ e.msg = q.msg /\ e.dest = q.dest
       /\ \E c \in primarySigned : /\ c.op = "quorum" /\ c.msg = q.msg
                                   /\ c.dest = q.dest /\ c.primary = q.primary

QuorumsOK ==
    /\ DOMAIN quorumSessions = SessionSeeds
    /\ \A n \in SessionSeeds : QuorumRecord(quorumSessions[n])

(* What the history keeps of a quorum recovery is the session it used. *)
QuorumsRecovered ==
    /\ QuorumEndorsed
    /\ \A u \in recoveries : u.via = "quorum" => /\ u.grant.threshold \in Nat
                                                 /\ u.grant.members \subseteq Member

LEMMA QuorumKept ==
    ASSUME NEW q, QuorumRecord(q), endorsements \subseteq endorsements',
           primarySigned \subseteq primarySigned'
    PROVE  QuorumRecord(q)'
  BY DEF QuorumRecord

LEMMA RuleFields ==
    ASSUME TypeOK, NEW s \in RecoverySlots
    PROVE  /\ Rule(s).exists = TRUE
           /\ DOMAIN Rule(s) = {"exists", "generation", "hash", "cfg", "st"}
           /\ Rule(s).cfg.policy \in RecoveryPolicies
           /\ Rule(s).cfg.policy.threshold \in Nat
           /\ Rule(s).cfg.policy.limitPresent \in BOOLEAN
           /\ Rule(s).cfg.policy.dailyLimit \in Nat
           /\ Rule(s).cfg.members \subseteq Member
  <1>1. s \in Slots /\ "RECOVERY" \in Kinds /\ Rule(s).exists
    BY DEF RecoverySlots
  <1>2. PICK r : r = Rule(s)
    OBVIOUS
  <1>3. /\ r.exists = TRUE /\ DOMAIN r = {"exists", "generation", "hash", "cfg", "st"}
        /\ r.cfg \in Configs("RECOVERY")
    BY <1>1, <1>2 DEF TypeOK, AccountOK, NoAccount, Rule
  <1>4. r.cfg.policy \in RecoveryPolicies /\ r.cfg.members \subseteq Member
    BY <1>3 DEF Configs
  <1> QED
    BY <1>2, <1>3, <1>4, PolicyAssumption

LEMMA QuorumOpened ==
    ASSUME TypeOK, ChallengesOK, NEW s \in RecoverySlots, NEW n, NEW c \in primarySigned,
           c.op = "quorum", quorum_session_open(s, n, c.msg, c.dest, c.amount, c.expires),
           NEW q, q = NewQuorum(s, c.msg, c.dest, c.amount, c.expires)
    PROVE  QuorumRecord(q)'
  <1>2. /\ DOMAIN q = {"exists", "rule", "nonce", "msg", "dest", "amount", "expires", "finalized",
                       "members", "threshold", "count", "bitmap", "primary"}
        /\ q.exists = TRUE /\ q.amount = c.amount /\ q.msg = c.msg /\ q.dest = c.dest
        /\ q.threshold = ThresholdOf(s) /\ q.members = Rule(s).cfg.members
        /\ q.count = 0 /\ q.bitmap = {} /\ q.primary = PrimaryOf(s)
    BY DEF NewQuorum
  <1>3. c.amount \in Nat
    BY DEF ChallengesOK
  <1>4. ThresholdOf(s) \in Nat /\ ThresholdOf(s) >= 1 /\ Rule(s).cfg.members \subseteq Member
    BY RuleFields DEF quorum_session_open, ThresholdOf
  <1>5. PICK d \in primarySigned : /\ d.op = "quorum" /\ d.msg = c.msg /\ d.dest = c.dest
                                   /\ d.primary = PrimaryOf(s)
    <2> DEFINE d == QuorumChallenge(s, c.msg, c.dest, c.amount, c.expires)
    <2>1. d.op = "quorum" /\ d.msg = c.msg /\ d.dest = c.dest /\ d.primary = PrimaryOf(s)
      BY DEF QuorumChallenge
    <2>2. d \in primarySigned
      BY DEF quorum_session_open
    <2> HIDE DEF d
    <2> QED
      BY <2>1, <2>2
  <1>6. Cardinality({}) = 0
    BY FS_EmptySet
  <1>7. QuorumRecord(q)
    BY <1>2, <1>3, <1>4, <1>5, <1>6 DEF QuorumRecord
  <1> QED
    BY <1>7, QuorumKept DEF quorum_session_open

LEMMA QuorumContributed ==
    ASSUME NEW n \in SessionSeeds, NEW m, NEW q, q = quorumSessions[n], QuorumsOK, Contribute(n, m)
    PROVE  QuorumRecord(quorumSessions[n])'
  <1>1. /\ DOMAIN q = {"exists", "rule", "nonce", "msg", "dest", "amount", "expires", "finalized",
                       "members", "threshold", "count", "bitmap", "primary"}
        /\ QuorumRecord(q) /\ q # NoSession
    BY DEF QuorumsOK, QuorumRecord, NoSession, Contribute
  <1>2. PICK r : r = quorumSessions'[n]
    OBVIOUS
  <1>3. r = [q EXCEPT !.bitmap = @ \cup {m}, !.count = @ + 1]
    BY <1>2 DEF QuorumsOK, Contribute
  <1>4. /\ DOMAIN r = DOMAIN q
        /\ r.exists = q.exists /\ r.amount = q.amount /\ r.threshold = q.threshold
        /\ r.members = q.members /\ r.msg = q.msg /\ r.dest = q.dest /\ r.primary = q.primary
        /\ r.bitmap = q.bitmap \cup {m} /\ r.count = q.count + 1
    BY <1>1, <1>3
  <1>5. m \in q.members /\ m \notin q.bitmap /\ UNCHANGED <<primarySigned, endorsements>>
    BY DEF Contribute
  <1>6. PICK e \in endorsements : e.member = m /\ e.msg = q.msg /\ e.dest = q.dest
    <2> DEFINE e == ContributeChallenge(n, m)
    <2>1. e.member = m /\ e.msg = q.msg /\ e.dest = q.dest
      BY DEF ContributeChallenge
    <2>2. e \in endorsements
      BY DEF Contribute
    <2> HIDE DEF e
    <2> QED
      BY <2>1, <2>2
  <1>7. IsFiniteSet(q.bitmap)
    <2>1. q.bitmap \subseteq Member
      BY <1>1 DEF QuorumRecord
    <2> QED
      BY <2>1, MemberAssumption, FS_Subset
  <1>8. Cardinality(r.bitmap) = Cardinality(q.bitmap) + 1
    <2>1. PICK b : b = q.bitmap
      OBVIOUS
    <2>2. Cardinality(b \cup {m}) = Cardinality(b) + 1
      BY <1>5, <1>7, <2>1, FS_AddElement
    <2> QED
      BY <1>4, <2>1, <2>2
  <1>9. QuorumRecord(r)
    BY <1>1, <1>4, <1>5, <1>6, <1>8 DEF QuorumRecord
  <1>10. QuorumRecord(r)'
    BY <1>5, <1>9, QuorumKept
  <1> QED
    BY <1>2, <1>10

LEMMA QuorumFinalized ==
    ASSUME NEW n \in SessionSeeds, NEW s, NEW q, q = quorumSessions[n], QuorumsOK,
           quorum_session_finalize(s, n)
    PROVE  QuorumRecord(quorumSessions[n])'
  <1>1. /\ DOMAIN q = {"exists", "rule", "nonce", "msg", "dest", "amount", "expires", "finalized",
                       "members", "threshold", "count", "bitmap", "primary"}
        /\ QuorumRecord(q) /\ q # NoSession
    BY DEF QuorumsOK, QuorumRecord, NoSession, quorum_session_finalize
  <1>2. PICK r : r = quorumSessions'[n]
    OBVIOUS
  <1>3. r = [q EXCEPT !.finalized = TRUE]
    BY <1>2 DEF QuorumsOK, quorum_session_finalize
  <1>4. /\ DOMAIN r = DOMAIN q
        /\ r.exists = q.exists /\ r.amount = q.amount /\ r.threshold = q.threshold
        /\ r.members = q.members /\ r.msg = q.msg /\ r.dest = q.dest /\ r.primary = q.primary
        /\ r.bitmap = q.bitmap /\ r.count = q.count
    BY <1>1, <1>3
  <1>5. QuorumRecord(r)
    BY <1>1, <1>4 DEF QuorumRecord
  <1>6. QuorumRecord(r)'
    BY <1>5, QuorumKept DEF quorum_session_finalize
  <1> QED
    BY <1>2, <1>6

LEMMA QuorumsStep ==
    ASSUME TypeOK, ChallengesOK, QuorumsOK, [RecoveryNext]_allVars
    PROVE  QuorumsOK'
  <1>0. endorsements \subseteq endorsements' /\ primarySigned \subseteq primarySigned'
    BY SignaturesKept
  <1>1. CASE quorumSessions' = quorumSessions
    BY <1>0, <1>1, QuorumKept DEF QuorumsOK
  <1>2. ASSUME NEW n \in SessionSeeds, QuorumRecord(quorumSessions[n])',
               \/ \E m : Contribute(n, m)
               \/ \E s : quorum_session_finalize(s, n)
               \/ \E s, msg, d, a, e : quorum_session_open(s, n, msg, d, a, e)
        PROVE  QuorumsOK'
    <2>1. /\ DOMAIN quorumSessions' = SessionSeeds
          /\ \A k \in SessionSeeds : k # n => quorumSessions'[k] = quorumSessions[k]
      BY ZenonT(60), <1>2 DEF QuorumsOK, Contribute, quorum_session_finalize, quorum_session_open
    <2>2. ASSUME NEW k \in SessionSeeds PROVE QuorumRecord(quorumSessions[k])'
      <3>1. CASE k = n
        BY <1>2, <3>1
      <3>2. CASE k # n
        <4>1. PICK q : q = quorumSessions[k]
          OBVIOUS
        <4>2. QuorumRecord(q)' /\ quorumSessions'[k] = q
          BY <1>0, <2>1, <3>2, <4>1, QuorumKept DEF QuorumsOK
        <4> QED
          BY <4>2
      <3> QED
        BY <3>1, <3>2
    <2> QED
      BY <2>1, <2>2 DEF QuorumsOK
  <1>3. ASSUME NEW n \in SessionSeeds, quorum_session_close(n) PROVE QuorumsOK'
    <2>1. /\ DOMAIN quorumSessions' = SessionSeeds
          /\ quorumSessions'[n] = NoSession
          /\ \A k \in SessionSeeds : k # n => quorumSessions'[k] = quorumSessions[k]
          /\ UNCHANGED <<endorsements, primarySigned>>
      BY <1>3 DEF QuorumsOK, quorum_session_close
    <2> QED
      BY <2>1 DEF QuorumsOK, QuorumRecord
  <1>4. ASSUME NEW s \in RecoverySlots, NEW n \in SessionSeeds, NEW c \in primarySigned,
               c.op = "quorum", quorum_session_open(s, n, c.msg, c.dest, c.amount, c.expires)
        PROVE  QuorumsOK'
    <2>1. PICK q : q = NewQuorum(s, c.msg, c.dest, c.amount, c.expires)
      OBVIOUS
    <2>2. quorumSessions'[n] = q
      BY <1>4, <2>1 DEF quorum_session_open, QuorumsOK
    <2>3. QuorumRecord(q)'
      BY <1>4, <2>1, QuorumOpened
    <2> QED
      BY <1>2, <1>4, <2>2, <2>3
  <1>5. CASE OffEngine
    <2>1. ASSUME NEW n \in SessionSeeds, NEW m, Contribute(n, m) PROVE QuorumsOK'
      BY <1>2, <2>1, QuorumContributed
    <2> QED
      BY <1>1, <1>3, <1>5, <2>1
      DEF OffEngine, PrimarySigns, MemberSigns, passkey_session_close, oidc_session_close
  <1>6. ASSUME NEW s \in RecoverySlots, NEW n \in SessionSeeds, OnRule(s, n) PROVE QuorumsOK'
    <2>1. CASE quorum_session_finalize(s, n)
      BY <1>2, <2>1, QuorumFinalized
    <2> QED
      BY <1>1, <1>4, <1>6, <2>1
      DEF OnRule, passkey_session_open, oidc_session_open, recover_as_primary_passkey_session,
          recover_as_primary_oidc, request_signature_via_oidc_session
  <1>7. ASSUME NEW s, NEW msg, NEW d, NEW amount, recover_as_primary(s, msg, d, amount)
        PROVE  QuorumsOK'
    BY <1>1, <1>7 DEF recover_as_primary
  <1> QED
    BY <1>1, <1>5, <1>6, <1>7, RecoverySteps DEF recoveryVars

----------------------------------------------------------------------------
(* The history of recoveries. *)

(* The members of a quorum recovery who endorsed its message. *)
Endorsers(u) ==
    {m \in u.grant.members : \E e \in endorsements :
        e.member = m /\ e.msg = u.msg /\ u.to = {e.dest}}

LEMMA EndorsersKept ==
    ASSUME NEW u, u.grant.members \subseteq Member, endorsements \subseteq endorsements'
    PROVE  /\ Cardinality(Endorsers(u)) \in Nat /\ Cardinality(Endorsers(u)') \in Nat
           /\ Cardinality(Endorsers(u)) <= Cardinality(Endorsers(u)')
  <1>1. PICK S, T : S = Endorsers(u) /\ T = Endorsers(u)'
    OBVIOUS
  <1>2. S \subseteq T /\ T \subseteq Member
    BY <1>1 DEF Endorsers
  <1>3. IsFiniteSet(T)
    BY <1>2, MemberAssumption, FS_Subset
  <1>4. IsFiniteSet(S) /\ Cardinality(S) <= Cardinality(T)
    BY <1>2, <1>3, FS_Subset
  <1>5. Cardinality(S) \in Nat /\ Cardinality(T) \in Nat
    BY <1>3, <1>4, FS_CardinalityType
  <1> QED
    BY <1>1, <1>4, <1>5

(* Each step adds at most one recovery to the history. *)
Asked(u) ==
    \E c \in primarySigned : /\ c.op = "quorum" /\ c.msg = u.msg
                             /\ u.to = {c.dest} /\ c.primary = u.grant.primary

QuorumHistory(u) ==
    /\ u.grant.threshold \in Nat /\ u.grant.members \subseteq Member
    /\ u.grant.threshold >= 1
    /\ Asked(u)
    /\ Cardinality(Endorsers(u)) >= u.grant.threshold

LEMMA QuorumHistories ==
    QuorumsRecovered <=> \A u \in recoveries : u.via = "quorum" => QuorumHistory(u)
  BY DEF QuorumsRecovered, QuorumEndorsed, QuorumHistory, Asked, Endorsers

LEMMA QuorumHistoryKept ==
    ASSUME NEW u, QuorumHistory(u), endorsements \subseteq endorsements',
           primarySigned \subseteq primarySigned'
    PROVE  QuorumHistory(u)'
  <1>1. u.grant.members \subseteq Member /\ u.grant.threshold \in Nat
    BY DEF QuorumHistory
  <1>2. Asked(u)'
    BY DEF QuorumHistory, Asked
  <1>3. PICK x, y : x = Cardinality(Endorsers(u)) /\ y = Cardinality(Endorsers(u)')
    OBVIOUS
  <1>4. x \in Nat /\ y \in Nat /\ x <= y /\ x >= u.grant.threshold
    BY <1>1, <1>3, EndorsersKept DEF QuorumHistory
  <1>5. y >= u.grant.threshold
    BY <1>1, <1>4
  <1> QED
    BY <1>1, <1>2, <1>3, <1>5 DEF QuorumHistory

LEMMA QuorumRecovers ==
    ASSUME QuorumsOK, NEW n \in SessionSeeds, NEW s, quorum_session_finalize(s, n)
    PROVE  \E u : /\ recoveries' = recoveries \cup {u} /\ QuorumHistory(u)
                  /\ u.via = "quorum"
  <1>1. PICK q : q = quorumSessions[n]
    OBVIOUS
  <1>2. QuorumRecord(q) /\ q # NoSession /\ q.count >= q.threshold
    BY <1>1 DEF QuorumsOK, NoSession, quorum_session_finalize, QuorumReached
  <1>3. PICK u : /\ recoveries' = recoveries \cup {u}
                 /\ u.via = "quorum" /\ u.msg = q.msg /\ u.to = {q.dest} /\ u.grant = q
    <2> DEFINE u == [via |-> "quorum", msg |-> q.msg, to |-> {q.dest}, ts |-> now, grant |-> q,
                     at |-> View]
    <2>1. u.via = "quorum" /\ u.msg = q.msg /\ u.to = {q.dest} /\ u.grant = q
      OBVIOUS
    <2>2. recoveries' = recoveries \cup {u}
      BY <1>1 DEF quorum_session_finalize, Recovered
    <2> HIDE DEF u
    <2> QED
      BY <2>1, <2>2
  <1>4. Asked(u)
    BY <1>2, <1>3 DEF QuorumRecord, Asked
  <1>5. q.bitmap \subseteq Endorsers(u) /\ Endorsers(u) \subseteq Member
    BY <1>2, <1>3 DEF QuorumRecord, Endorsers
  <1>6. /\ Cardinality(q.bitmap) \in Nat /\ Cardinality(Endorsers(u)) \in Nat
        /\ Cardinality(q.bitmap) <= Cardinality(Endorsers(u))
    <2>1. PICK S, T : S = q.bitmap /\ T = Endorsers(u)
      OBVIOUS
    <2>2. IsFiniteSet(T)
      BY <1>5, <2>1, MemberAssumption, FS_Subset
    <2>3. IsFiniteSet(S) /\ Cardinality(S) <= Cardinality(T)
      BY <1>5, <2>1, <2>2, FS_Subset
    <2> QED
      BY <2>1, <2>2, <2>3, FS_CardinalityType
  <1>7. /\ q.threshold \in Nat /\ q.threshold >= 1 /\ q.members \subseteq Member
        /\ q.count = Cardinality(q.bitmap)
    BY <1>2 DEF QuorumRecord
  <1>8. Cardinality(Endorsers(u)) >= q.threshold
    BY <1>2, <1>6, <1>7
  <1> QED
    BY <1>3, <1>4, <1>7, <1>8 DEF QuorumHistory

(* The recoveries of the other paths carry their own label. *)
LEMMA OtherRecoveries ==
    ASSUME [RecoveryNext]_allVars
    PROVE  \/ recoveries' = recoveries
           \/ \E s \in RecoverySlots, n \in SessionSeeds : quorum_session_finalize(s, n)
           \/ \E u : recoveries' = recoveries \cup {u} /\ u.via # "quorum"
  <1>1. ASSUME NEW via, via # "quorum", NEW s, NEW msg, NEW to, NEW grant,
               Recovered(via, s, msg, to, grant)
        PROVE  \E u : recoveries' = recoveries \cup {u} /\ u.via # "quorum"
    <2> DEFINE u == [via |-> via, msg |-> msg, to |-> to, ts |-> now, grant |-> grant, at |-> View]
    <2>1. u.via # "quorum" /\ recoveries' = recoveries \cup {u}
      BY <1>1 DEF Recovered
    <2> HIDE DEF u
    <2> QED
      BY <2>1
  <1>2. ASSUME NEW s \in RecoverySlots, NEW n \in SessionSeeds, OnRule(s, n)
        PROVE  \/ recoveries' = recoveries
               \/ quorum_session_finalize(s, n)
               \/ \E u : recoveries' = recoveries \cup {u} /\ u.via # "quorum"
    <2>1. CASE \E msg : recover_as_primary_passkey_session(s, n, msg)
      BY <1>1, <2>1 DEF recover_as_primary_passkey_session
    <2>2. CASE \E msg : recover_as_primary_oidc(s, n, msg)
      BY <1>1, <2>2 DEF recover_as_primary_oidc
    <2>3. CASE \E msg, d : request_signature_via_oidc_session(s, n, msg, d)
      BY <1>1, <2>3 DEF request_signature_via_oidc_session
    <2> QED
      BY <1>2, <2>1, <2>2, <2>3
      DEF OnRule, quorum_session_open, passkey_session_open, oidc_session_open
  <1>3. ASSUME NEW s, NEW msg, NEW d, NEW amount, recover_as_primary(s, msg, d, amount)
        PROVE  \E u : recoveries' = recoveries \cup {u} /\ u.via # "quorum"
    BY <1>1, <1>3 DEF recover_as_primary
  <1> QED
    BY <1>2, <1>3, RecoverySteps, OffEngineFrame DEF recoveryVars

LEMMA QuorumsRecoveredStep ==
    ASSUME QuorumsOK, QuorumsRecovered, [RecoveryNext]_allVars
    PROVE  QuorumsRecovered'
  <1>0. endorsements \subseteq endorsements' /\ primarySigned \subseteq primarySigned'
    BY SignaturesKept
  <1>1. \A u \in recoveries : u.via = "quorum" => QuorumHistory(u)'
    BY <1>0, QuorumHistories, QuorumHistoryKept
  <1>2. ASSUME NEW s, NEW n \in SessionSeeds, quorum_session_finalize(s, n)
        PROVE  \A u \in recoveries' : u.via = "quorum" => QuorumHistory(u)'
    <2>1. PICK v : recoveries' = recoveries \cup {v} /\ QuorumHistory(v)
      BY <1>2, QuorumRecovers
    <2>2. QuorumHistory(v)'
      BY <1>0, <2>1, QuorumHistoryKept
    <2> QED
      BY <1>1, <2>1, <2>2
  <1>3. \A u \in recoveries' : u.via = "quorum" => QuorumHistory(u)'
    BY <1>1, <1>2, OtherRecoveries
  <1> QED
    BY <1>3 DEF QuorumsRecovered, QuorumEndorsed, QuorumHistory, Asked, Endorsers

----------------------------------------------------------------------------
(* Passkey and OIDC sessions. *)

(* An ephemeral session does not outlive what its primary signed for. *)
EphemeralRecord(x, op) ==
    \/ x = NoSession
    \/ /\ DOMAIN x = {"exists", "rule", "primary", "useNonce", "expires"}
       /\ x.exists = TRUE /\ x.expires \in Nat
       /\ \E c \in primarySigned : /\ c.op = op /\ c.primary = x.primary
                                   /\ c.notAfter \in Nat /\ x.expires <= c.notAfter

EphemeralsIn(f, op) ==
    DOMAIN f = SessionSeeds /\ \A n \in SessionSeeds : EphemeralRecord(f[n], op)

EphemeralsOK == EphemeralsIn(passkeySessions, "passkey") /\ EphemeralsIn(oidcSessions, "oidc")

LEMMA EphemeralKept ==
    ASSUME NEW x, NEW op, EphemeralRecord(x, op), primarySigned \subseteq primarySigned'
    PROVE  EphemeralRecord(x, op)'
  BY DEF EphemeralRecord

(* One session is opened, used or closed. *)
LEMMA EphemeralsChange ==
    ASSUME NEW f, NEW g, NEW op, EphemeralsIn(f, op), primarySigned \subseteq primarySigned',
           \/ g = f
           \/ \E n \in SessionSeeds : g = [f EXCEPT ![n] = NoSession]
           \/ \E n \in SessionSeeds : f[n].exists /\ g = [f EXCEPT ![n].useNonce = @ + 1]
           \/ \E n \in SessionSeeds : \E x : EphemeralRecord(x, op) /\ g = [f EXCEPT ![n] = x]
    PROVE  DOMAIN g = SessionSeeds /\ \A n \in SessionSeeds : EphemeralRecord(g[n], op)'
  <1>1. \A n \in SessionSeeds : EphemeralRecord(f[n], op)'
    BY EphemeralKept DEF EphemeralsIn
  <1>2. ASSUME NEW n \in SessionSeeds, NEW x, EphemeralRecord(x, op), g = [f EXCEPT ![n] = x]
        PROVE  DOMAIN g = SessionSeeds /\ \A k \in SessionSeeds : EphemeralRecord(g[k], op)'
    <2>1. EphemeralRecord(x, op)'
      BY <1>2, EphemeralKept
    <2> QED
      BY <1>1, <1>2, <2>1 DEF EphemeralsIn
  <1>3. EphemeralRecord(NoSession, op)
    BY DEF EphemeralRecord
  <1>4. ASSUME NEW n \in SessionSeeds, f[n].exists, g = [f EXCEPT ![n].useNonce = @ + 1]
        PROVE  DOMAIN g = SessionSeeds /\ \A k \in SessionSeeds : EphemeralRecord(g[k], op)'
    <2>1. PICK x, y : x = f[n] /\ y = [x EXCEPT !.useNonce = @ + 1]
      OBVIOUS
    <2>2. g = [f EXCEPT ![n] = y]
      BY <1>4, <2>1
    <2>3. EphemeralRecord(x, op) /\ x # NoSession
      BY <1>4, <2>1 DEF EphemeralsIn, NoSession
    <2>4. DOMAIN y = DOMAIN x /\ y.exists = x.exists /\ y.expires = x.expires /\ y.primary = x.primary
      BY <2>1, <2>3 DEF EphemeralRecord
    <2>5. EphemeralRecord(y, op)
      BY <2>3, <2>4 DEF EphemeralRecord
    <2> QED
      BY <1>2, <2>2, <2>5
  <1> QED
    BY <1>1, <1>2, <1>3, <1>4 DEF EphemeralsIn

LEMMA NewEphemeralOK ==
    ASSUME TypeOK, NEW s, NEW notAfter \in Nat, NEW c \in primarySigned, NEW op, c.op = op,
           c.primary = PrimaryOf(s), c.notAfter = notAfter
    PROVE  EphemeralRecord(NewEphemeral(s, notAfter), op)
  <1>1. PICK x : x = NewEphemeral(s, notAfter)
    OBVIOUS
  <1>2. /\ DOMAIN x = {"exists", "rule", "primary", "useNonce", "expires"}
        /\ x.exists = TRUE /\ x.expires = EffectiveExpiry(notAfter) /\ x.primary = PrimaryOf(s)
    BY <1>1 DEF NewEphemeral
  <1>3. EffectiveExpiry(notAfter) \in Nat /\ EffectiveExpiry(notAfter) <= notAfter
    BY TtlAssumption DEF EffectiveExpiry, Earlier, TypeOK
  <1> QED
    BY <1>1, <1>2, <1>3 DEF EphemeralRecord

LEMMA EphemeralsStep ==
    ASSUME TypeOK, ChallengesOK, EphemeralsOK, [RecoveryNext]_allVars
    PROVE  EphemeralsOK'
  <1> DEFINE Change(f, g, op) ==
               \/ g = f
               \/ \E n \in SessionSeeds : g = [f EXCEPT ![n] = NoSession]
               \/ \E n \in SessionSeeds : f[n].exists /\ g = [f EXCEPT ![n].useNonce = @ + 1]
               \/ \E n \in SessionSeeds : \E x : EphemeralRecord(x, op) /\ g = [f EXCEPT ![n] = x]
             Changes == /\ Change(passkeySessions, passkeySessions', "passkey")
                        /\ Change(oidcSessions, oidcSessions', "oidc")
  <1>1. ASSUME UNCHANGED <<passkeySessions, oidcSessions>> PROVE Changes
    BY <1>1
  <1>2. ASSUME OffEngine PROVE Changes
    BY <1>2 DEF OffEngine, PrimarySigns, MemberSigns, Contribute, quorum_session_close,
                passkey_session_close, oidc_session_close
  <1>3. ASSUME NEW s, NEW n \in SessionSeeds, NEW c \in primarySigned, c.op = "passkey",
               passkey_session_open(s, n, c.notAfter)
        PROVE  Changes
    <2>1. PICK d \in primarySigned :
             d.op = "passkey" /\ d.primary = PrimaryOf(s) /\ d.notAfter = c.notAfter
      <3> DEFINE d == PasskeyChallenge(s, c.notAfter)
      <3>1. d.op = "passkey" /\ d.primary = PrimaryOf(s) /\ d.notAfter = c.notAfter
        BY DEF PasskeyChallenge
      <3>2. d \in primarySigned
        BY <1>3 DEF passkey_session_open
      <3> HIDE DEF d
      <3> QED
        BY <3>1, <3>2
    <2>2. c.notAfter \in Nat
      BY <1>3 DEF ChallengesOK
    <2>3. PICK x : x = NewEphemeral(s, c.notAfter)
      OBVIOUS
    <2>4. EphemeralRecord(x, "passkey")
      BY <2>1, <2>2, <2>3, NewEphemeralOK
    <2> QED
      BY <1>3, <2>3, <2>4 DEF passkey_session_open
  <1>4. ASSUME NEW s, NEW n \in SessionSeeds, NEW c \in primarySigned, c.op = "oidc",
               oidc_session_open(s, n, c.notAfter)
        PROVE  Changes
    <2>1. PICK d \in primarySigned :
             d.op = "oidc" /\ d.primary = PrimaryOf(s) /\ d.notAfter = c.notAfter
      <3> DEFINE d == OidcChallenge(s, c.notAfter)
      <3>1. d.op = "oidc" /\ d.primary = PrimaryOf(s) /\ d.notAfter = c.notAfter
        BY DEF OidcChallenge
      <3>2. d \in primarySigned
        BY <1>4 DEF oidc_session_open
      <3> HIDE DEF d
      <3> QED
        BY <3>1, <3>2
    <2>2. c.notAfter \in Nat
      BY <1>4 DEF ChallengesOK
    <2>3. PICK x : x = NewEphemeral(s, c.notAfter)
      OBVIOUS
    <2>4. EphemeralRecord(x, "oidc")
      BY <2>1, <2>2, <2>3, NewEphemeralOK
    <2> QED
      BY <1>4, <2>3, <2>4 DEF oidc_session_open
  <1>5. ASSUME NEW s, NEW n \in SessionSeeds,
               \/ \E msg : \/ recover_as_primary_passkey_session(s, n, msg)
                           \/ recover_as_primary_oidc(s, n, msg)
               \/ \E msg, d : request_signature_via_oidc_session(s, n, msg, d)
        PROVE  Changes
    BY <1>5 DEF recover_as_primary_passkey_session, recover_as_primary_oidc,
                request_signature_via_oidc_session, Usable
  <1>6. Changes
    <2>1. ASSUME NEW s \in RecoverySlots, NEW n \in SessionSeeds, OnRule(s, n) PROVE Changes
      <3>1. CASE quorum_session_finalize(s, n) \/ \E msg, d, a, e : quorum_session_open(s, n, msg, d, a, e)
        BY <1>1, <3>1 DEF quorum_session_finalize, quorum_session_open
      <3> HIDE DEF Changes
      <3> QED
        BY <1>3, <1>4, <1>5, <2>1, <3>1 DEF OnRule
    <2>2. ASSUME NEW s, NEW msg, NEW d, NEW amount, recover_as_primary(s, msg, d, amount)
          PROVE  Changes
      BY <1>1, <2>2 DEF recover_as_primary
    <2> HIDE DEF Changes
    <2> QED
      BY <1>1, <1>2, <2>1, <2>2, RecoverySteps DEF recoveryVars
  <1>7. PICK p, o, p2, o2 : /\ p = passkeySessions /\ o = oidcSessions
                            /\ p2 = passkeySessions' /\ o2 = oidcSessions'
    OBVIOUS
  <1>8. primarySigned \subseteq primarySigned'
    BY SignaturesKept
  <1>9. DOMAIN p2 = SessionSeeds /\ \A n \in SessionSeeds : EphemeralRecord(p2[n], "passkey")'
    BY <1>6, <1>7, <1>8, EphemeralsChange DEF EphemeralsOK
  <1>10. DOMAIN o2 = SessionSeeds /\ \A n \in SessionSeeds : EphemeralRecord(o2[n], "oidc")'
    BY <1>6, <1>7, <1>8, EphemeralsChange DEF EphemeralsOK
  <1> QED
    BY <1>7, <1>9, <1>10 DEF EphemeralsOK, EphemeralsIn, EphemeralRecord

(* What the history says of a recovery through an ephemeral session. *)
SignedFor(u) ==
    \E c \in primarySigned : /\ c.op = (IF u.via = "passkey" THEN "passkey" ELSE "oidc")
                             /\ c.primary = u.grant.primary
                             /\ u.ts < c.notAfter

ListObeyed(u) ==
    \A s \in Slots : (u.at[s].kind = "ALLOWLIST" /\ "session" \in u.at[s].cfg.applies) =>
                        u.to \subseteq u.at[s].cfg.dests

EphemeralHistory(u) ==
    /\ u.via \in {"passkey", "oidc", "oidc_sign"} => SignedFor(u)
    /\ u.via = "oidc_sign" => ListObeyed(u)

LEMMA EphemeralHistories ==
    SessionsWithinGrant <=> \A u \in recoveries : EphemeralHistory(u)
  BY DEF SessionsWithinGrant, EphemeralWithinGrant, OidcObeysAllowlist, EphemeralHistory,
         SignedFor, ListObeyed

(* A usable session was signed for by its primary, for longer than now. *)
LEMMA UsableSignedFor ==
    ASSUME TypeOK, NEW x, NEW s, Usable(x, s), NEW op, EphemeralRecord(x, op),
           NEW u, op = (IF u.via = "passkey" THEN "passkey" ELSE "oidc"), u.grant = x, u.ts = now
    PROVE  SignedFor(u)
  <1>1. x # NoSession /\ now < x.expires /\ now \in Nat
    BY DEF Usable, NoSession, TypeOK
  <1>2. PICK c \in primarySigned : /\ c.op = op /\ c.primary = x.primary
                                   /\ c.notAfter \in Nat /\ x.expires <= c.notAfter
    BY <1>1 DEF EphemeralRecord
  <1>3. x.expires \in Nat
    BY <1>1 DEF EphemeralRecord
  <1>4. now < c.notAfter
    BY <1>1, <1>2, <1>3
  <1> QED
    BY <1>2, <1>4 DEF SignedFor

(* The slot an OIDC session passes over holds the recovery rule, so it is   *)
(* not the slot of an allowlist.                                            *)
LEMMA OidcSignsWithin ==
    ASSUME TypeOK, HeadersMirrored, NEW s \in RecoverySlots, NEW n, NEW msg, NEW d,
           request_signature_via_oidc_session(s, n, msg, d),
           NEW t \in Slots, View[t].kind = "ALLOWLIST", "session" \in View[t].cfg.applies
    PROVE  d \in View[t].cfg.dests
  <1> DEFINE req == request_metadata_digest([msg |-> msg, dest |-> d, amount |-> 0, asset |-> 0],
                                            rules_generation, "session")
  <1>1. t \in Live
    BY DEF View, EMPTY
  <1>2. rules_flat[t].kind = "ALLOWLIST" /\ View[t].cfg = Pda(t).cfg
    BY <1>1 DEF View
  <1>3. rules_flat[s].kind = "RECOVERY"
    BY DEF RecoverySlots, Rule, HeadersMirrored, Mirrored
  <1>4. t # s
    BY <1>2, <1>3
  <1>5. t \in Enforced("session", {s})
    BY <1>1, <1>2, <1>4 DEF Enforced
  <1>6. RuleOK("ALLOWLIST", Pda(t).cfg, Pda(t).st, req, "session", Env)
    BY <1>2, <1>5 DEF request_signature_via_oidc_session, dispatch_active_rules
  <1>7. req.dest = d
    BY DEF request_metadata_digest
  <1> HIDE DEF req
  <1>8. req.dest \in Pda(t).cfg.dests
    BY <1>6 DEF RuleOK
  <1> QED
    BY <1>2, <1>7, <1>8

LEMMA EphemeralRecoveries ==
    ASSUME TypeOK, HeadersMirrored, EphemeralsOK, [RecoveryNext]_allVars
    PROVE  \/ recoveries' = recoveries
           \/ \E u : recoveries' = recoveries \cup {u} /\ EphemeralHistory(u)
  <1>1. ASSUME NEW via, via \notin {"passkey", "oidc", "oidc_sign"}, NEW s, NEW msg, NEW to,
               NEW grant, Recovered(via, s, msg, to, grant)
        PROVE  \E u : recoveries' = recoveries \cup {u} /\ EphemeralHistory(u)
    <2> DEFINE u == [via |-> via, msg |-> msg, to |-> to, ts |-> now, grant |-> grant, at |-> View]
    <2>1. u.via = via /\ recoveries' = recoveries \cup {u}
      BY <1>1 DEF Recovered
    <2> HIDE DEF u
    <2> QED
      BY <1>1, <2>1 DEF EphemeralHistory
  <1>2. ASSUME NEW s, NEW n \in SessionSeeds, NEW msg, recover_as_primary_passkey_session(s, n, msg)
        PROVE  \E u : recoveries' = recoveries \cup {u} /\ EphemeralHistory(u)
    <2>1. PICK x : x = passkeySessions[n]
      OBVIOUS
    <2> DEFINE u == [via |-> "passkey", msg |-> msg, to |-> {}, ts |-> now, grant |-> x, at |-> View]
    <2>2. u.via = "passkey" /\ u.grant = x /\ u.ts = now /\ recoveries' = recoveries \cup {u}
      BY <1>2, <2>1 DEF recover_as_primary_passkey_session, Recovered
    <2>3. Usable(x, s) /\ EphemeralRecord(x, "passkey")
      BY <1>2, <2>1 DEF recover_as_primary_passkey_session, EphemeralsOK, EphemeralsIn
    <2> HIDE DEF u
    <2> QED
      BY <2>2, <2>3, UsableSignedFor DEF EphemeralHistory
  <1>3. ASSUME NEW s, NEW n \in SessionSeeds, NEW msg, recover_as_primary_oidc(s, n, msg)
        PROVE  \E u : recoveries' = recoveries \cup {u} /\ EphemeralHistory(u)
    <2>1. PICK x : x = oidcSessions[n]
      OBVIOUS
    <2> DEFINE u == [via |-> "oidc", msg |-> msg, to |-> {}, ts |-> now, grant |-> x, at |-> View]
    <2>2. u.via = "oidc" /\ u.grant = x /\ u.ts = now /\ recoveries' = recoveries \cup {u}
      BY <1>3, <2>1 DEF recover_as_primary_oidc, Recovered
    <2>3. Usable(x, s) /\ EphemeralRecord(x, "oidc")
      BY <1>3, <2>1 DEF recover_as_primary_oidc, EphemeralsOK, EphemeralsIn
    <2> HIDE DEF u
    <2> QED
      BY <2>2, <2>3, UsableSignedFor DEF EphemeralHistory
  <1>4. ASSUME NEW s \in RecoverySlots, NEW n \in SessionSeeds, NEW msg, NEW d,
               request_signature_via_oidc_session(s, n, msg, d)
        PROVE  \E u : recoveries' = recoveries \cup {u} /\ EphemeralHistory(u)
    <2>1. PICK x, v : x = oidcSessions[n] /\ v = View
      OBVIOUS
    <2> DEFINE u == [via |-> "oidc_sign", msg |-> msg, to |-> {d}, ts |-> now, grant |-> x, at |-> v]
    <2>2. /\ u.via = "oidc_sign" /\ u.grant = x /\ u.ts = now /\ u.to = {d} /\ u.at = v
          /\ recoveries' = recoveries \cup {u}
      BY <1>4, <2>1 DEF request_signature_via_oidc_session, Recovered
    <2>3. Usable(x, s) /\ EphemeralRecord(x, "oidc")
      BY <1>4, <2>1 DEF request_signature_via_oidc_session, EphemeralsOK, EphemeralsIn
    <2> HIDE DEF u
    <2>4. SignedFor(u)
      BY <2>2, <2>3, UsableSignedFor
    <2>5. ListObeyed(u)
      BY <1>4, <2>1, <2>2, OidcSignsWithin DEF ListObeyed
    <2> QED
      BY <2>2, <2>4, <2>5 DEF EphemeralHistory
  <1>5. ASSUME NEW s \in RecoverySlots, NEW n \in SessionSeeds, OnRule(s, n)
        PROVE  \/ recoveries' = recoveries
               \/ \E u : recoveries' = recoveries \cup {u} /\ EphemeralHistory(u)
    <2>1. CASE quorum_session_finalize(s, n)
      BY <1>1, <2>1 DEF quorum_session_finalize
    <2>2. CASE \/ \E msg, d, a, e : quorum_session_open(s, n, msg, d, a, e)
               \/ \E e : passkey_session_open(s, n, e) \/ oidc_session_open(s, n, e)
      BY <2>2 DEF quorum_session_open, passkey_session_open, oidc_session_open
    <2> QED
      BY <1>2, <1>3, <1>4, <1>5, <2>1, <2>2 DEF OnRule
  <1>6. ASSUME NEW s, NEW msg, NEW d, NEW amount, recover_as_primary(s, msg, d, amount)
        PROVE  \E u : recoveries' = recoveries \cup {u} /\ EphemeralHistory(u)
    BY <1>1, <1>6 DEF recover_as_primary
  <1> QED
    BY <1>5, <1>6, RecoverySteps, OffEngineFrame DEF recoveryVars

LEMMA SessionsWithinGrantStep ==
    ASSUME TypeOK, HeadersMirrored, EphemeralsOK, SessionsWithinGrant, [RecoveryNext]_allVars
    PROVE  SessionsWithinGrant'
  <1>0. primarySigned \subseteq primarySigned'
    BY SignaturesKept
  <1>1. ASSUME NEW u, EphemeralHistory(u) PROVE EphemeralHistory(u)'
    BY <1>0, <1>1 DEF EphemeralHistory, SignedFor, ListObeyed
  <1>2. \A u \in recoveries' : EphemeralHistory(u)'
    BY <1>1, EphemeralRecoveries, EphemeralHistories
  <1> QED
    BY <1>2 DEF SessionsWithinGrant, EphemeralWithinGrant, OidcObeysAllowlist, EphemeralHistory,
                SignedFor, ListObeyed

----------------------------------------------------------------------------
(* The daily limit. *)

(* The bucket of a recovery rule with a limit counts the amounts of its day. *)
LimitCounted(cfg, st, t) ==
    /\ DOMAIN st = {"day", "daySum", "recoverNonce", "sessionNonce", "passkeyNonce", "hist"}
    /\ st.hist \in Seq(Entry)
    /\ cfg.policy.limitPresent /\ cfg.policy.dailyLimit < U64Max =>
          BucketOK(st.hist, Day, st.day, st.daySum, cfg.policy.dailyLimit, t)

DaysCounted == \A s \in RecoverySlots : LimitCounted(Rule(s).cfg, Rule(s).st, now)

LEMMA LimitFresh ==
    ASSUME NEW cfg \in Configs("RECOVERY"), NEW t \in Nat, NEW u \in Nat
    PROVE  LimitCounted(cfg, InitialState("RECOVERY", cfg, u), t)
  <1> DEFINE st == InitialState("RECOVERY", cfg, u)
  <1>1. /\ DOMAIN st = {"day", "daySum", "recoverNonce", "sessionNonce", "passkeyNonce", "hist"}
        /\ st.hist = <<>> /\ st.day = 0 /\ st.daySum = 0
    BY DEF InitialState
  <1>2. cfg.policy.dailyLimit \in Nat
    <2>1. cfg.policy \in RecoveryPolicies
      BY DEF Configs
    <2> QED
      BY <2>1, PolicyAssumption
  <1> HIDE DEF st
  <1>3. BucketOK(<<>>, Day, 0, 0, cfg.policy.dailyLimit, t)
    BY <1>2, BucketStarts, BucketAssumption
  <1>4. <<>> \in Seq(Entry)
    OBVIOUS
  <1> QED
    BY <1>1, <1>3, <1>4 DEF LimitCounted, st

LEMMA LimitWaits ==
    ASSUME NEW cfg, NEW new, new.policy = cfg.policy, NEW st, NEW t \in Nat, NEW u \in Nat, t <= u,
           LimitCounted(cfg, st, t)
    PROVE  LimitCounted(new, st, u)
  BY BucketWaits, BucketAssumption DEF LimitCounted

(* The nonces of a rule are not part of its bucket. *)
LEMMA LimitNonces ==
    ASSUME NEW cfg, NEW st, NEW t, LimitCounted(cfg, st, t), NEW x, DOMAIN x = DOMAIN st,
           x.hist = st.hist, x.day = st.day, x.daySum = st.daySum
    PROVE  LimitCounted(cfg, x, t)
  BY DEF LimitCounted

LEMMA LimitCharged ==
    ASSUME TypeOK, NEW s \in RecoverySlots, NEW amount \in Nat, WithinDailyLimit(s, amount),
           LimitCounted(Rule(s).cfg, Rule(s).st, now)
    PROVE  LimitCounted(Rule(s).cfg, Charged(s, amount), now)
  <1>1. PICK st, cfg, x, p, next :
           /\ st = Rule(s).st /\ cfg = Rule(s).cfg /\ x = Charged(s, amount) /\ p = cfg.policy
           /\ next = NextDaySum(s, amount)
    OBVIOUS
  <1>2. p.limitPresent \in BOOLEAN /\ p.dailyLimit \in Nat /\ now \in Nat /\ Day \in Nat \ {0}
    BY <1>1, RuleFields, BucketAssumption DEF TypeOK
  <1>3. /\ DOMAIN st = {"day", "daySum", "recoverNonce", "sessionNonce", "passkeyNonce", "hist"}
        /\ st.hist \in Seq(Entry)
    BY <1>1 DEF LimitCounted
  <1>4. /\ DOMAIN x = DOMAIN st
        /\ x.hist = Append(st.hist, [ts |-> now, amount |-> amount])
        /\ p.limitPresent => x.day = Bucket(now, Day) /\ x.daySum = next
    BY <1>1, <1>3 DEF Charged, LimitPresent
  <1>5. x.hist \in Seq(Entry)
    <2>1. [ts |-> now, amount |-> amount] \in Entry
      BY <1>2 DEF Entry
    <2> QED
      BY <1>3, <1>4, <2>1
  <1>6. ASSUME p.limitPresent, p.dailyLimit < U64Max
        PROVE  BucketOK(x.hist, Day, x.day, x.daySum, p.dailyLimit, now)
    <2>1. next = (IF Bucket(now, Day) # st.day THEN amount ELSE SatAdd(st.daySum, amount))
      BY <1>1 DEF NextDaySum
    <2>2. PICK cap : cap = p.dailyLimit
      OBVIOUS
    <2>3. next <= cap
      BY <1>1, <1>6, <2>2 DEF WithinDailyLimit, LimitPresent
    <2>4. BucketOK(st.hist, Day, st.day, st.daySum, cap, now)
      BY <1>1, <1>6, <2>2 DEF LimitCounted
    <2>5. BucketOK(Append(st.hist, [ts |-> now, amount |-> amount]), Day, Bucket(now, Day), next,
                   cap, now)
      BY <1>2, <1>3, <1>6, <2>1, <2>2, <2>3, <2>4, BucketCharged
    <2> QED
      BY <1>4, <1>6, <2>2, <2>5
  <1> QED
    BY <1>1, <1>3, <1>4, <1>5, <1>6 DEF LimitCounted

LEMMA StateCounted ==
    ASSUME TypeOK, DaysCounted, NEW s \in RecoverySlots, NEW st, SetRuleState(s, st), now' = now,
           LimitCounted(Rule(s).cfg, st, now)
    PROVE  DaysCounted'
  <1>1. s \in Slots /\ "RECOVERY" \in Kinds
    BY DEF RecoverySlots
  <1>2. PICK a, q : a = <<"RECOVERY", s>> /\ q = rule_pda[a]
    OBVIOUS
  <1>3. /\ DOMAIN rule_pda = Addresses /\ a \in Addresses
        /\ DOMAIN q = {"exists", "generation", "hash", "cfg", "st"} /\ q = Rule(s)
    BY <1>1, <1>2, RuleFields DEF TypeOK, Addresses, Rule
  <1>4. rule_pda' = [rule_pda EXCEPT ![a].st = st]
    BY <1>2 DEF SetRuleState
  <1>5. PICK r : r = [q EXCEPT !.st = st]
    OBVIOUS
  <1>6. r.exists = q.exists /\ r.cfg = q.cfg /\ r.st = st
    BY <1>3, <1>5
  <1>7. rule_pda'[a] = r
    BY <1>2, <1>3, <1>4, <1>5
  <1> SUFFICES ASSUME NEW t \in RecoverySlots' PROVE LimitCounted(Rule(t)'.cfg, Rule(t)'.st, now')
    BY DEF DaysCounted
  <1>8. CASE t = s
    <2>1. Rule(t)' = r
      BY <1>2, <1>7, <1>8 DEF Rule
    <2> QED
      BY <1>3, <1>6, <2>1
  <1>9. CASE t # s
    <2>1. <<"RECOVERY", t>> # a /\ <<"RECOVERY", t>> \in Addresses
      BY <1>2, <1>9 DEF RecoverySlots, Addresses
    <2>2. Rule(t)' = Rule(t)
      BY <1>3, <1>4, <2>1 DEF Rule
    <2>3. t \in RecoverySlots
      BY <2>2 DEF RecoverySlots
    <2> QED
      BY <2>2, <2>3 DEF DaysCounted
  <1> QED
    BY <1>8, <1>9

LEMMA DaysEngineStep ==
    ASSUME TypeOK, HeadersMirrored, DaysCounted, OwnShape
    PROVE  DaysCounted'
  <1>1. now \in Nat /\ now' \in Nat /\ now <= now'
    BY ClockForward DEF OwnShape, EngineShape
  <1> SUFFICES ASSUME NEW s \in RecoverySlots' PROVE LimitCounted(Rule(s)'.cfg, Rule(s)'.st, now')
    BY DEF DaysCounted
  <1>2. s \in Slots /\ "RECOVERY" \in Kinds
    BY DEF RecoverySlots
  <1>3. PICK k, q, r : k = "RECOVERY" /\ q = rule_pda[<<k, s>>] /\ r = rule_pda'[<<k, s>>]
    OBVIOUS
  <1>4. r.exists /\ r = Rule(s)' /\ q = Rule(s)
    BY <1>3 DEF RecoverySlots, Rule
  <1>5. CASE AccountFresh(k, r)
    BY <1>1, <1>3, <1>4, <1>5, LimitFresh DEF AccountFresh
  <1>6. CASE q.exists /\ AccountRuns(k, q, r)
    BY <1>3, <1>6 DEF AccountRuns, RuleOK
  <1>7. CASE q.exists /\ AccountKept(k, q, r)
    <2>1. s \in RecoverySlots
      BY <1>2, <1>4, <1>7 DEF RecoverySlots
    <2>2. LimitCounted(q.cfg, q.st, now)
      BY <1>4, <2>1 DEF DaysCounted
    <2>3. r.cfg.policy = q.cfg.policy /\ r.st = q.st
      BY <1>3, <1>7 DEF AccountKept, SameLimits
    <2> QED
      BY <1>1, <1>4, <2>2, <2>3, LimitWaits
  <1> QED
    BY <1>2, <1>3, <1>4, <1>5, <1>6, <1>7, AccountOwnStep

LEMMA DaysStep ==
    ASSUME TypeOK, HeadersMirrored, QuorumsOK, DaysCounted, [RecoveryNext]_allVars
    PROVE  DaysCounted'
  <1>1. ASSUME NEW s \in RecoverySlots, NEW msg, NEW d, NEW amount \in Amounts,
               recover_as_primary(s, msg, d, amount)
        PROVE  DaysCounted'
    <2>1. PICK x, y : x = Charged(s, amount) /\ y = [x EXCEPT !.recoverNonce = @ + 1]
      OBVIOUS
    <2>2. LimitCounted(Rule(s).cfg, x, now)
      BY <1>1, <2>1, ItemAssumption, LimitCharged DEF recover_as_primary, DaysCounted
    <2>3. DOMAIN y = DOMAIN x /\ y.hist = x.hist /\ y.day = x.day /\ y.daySum = x.daySum
      BY <2>1, <2>2 DEF LimitCounted
    <2>4. LimitCounted(Rule(s).cfg, y, now)
      BY <2>2, <2>3, LimitNonces
    <2>5. SetRuleState(s, y) /\ now' = now
      BY <1>1, <2>1 DEF recover_as_primary, EngineUnchanged, envVars
    <2> QED
      BY <2>4, <2>5, StateCounted
  <1>2. ASSUME NEW s \in RecoverySlots, NEW n \in SessionSeeds, quorum_session_finalize(s, n)
        PROVE  DaysCounted'
    <2>1. PICK q, x : q = quorumSessions[n] /\ x = Charged(s, q.amount)
      OBVIOUS
    <2>2. q.amount \in Nat
      BY <1>2, <2>1 DEF QuorumsOK, QuorumRecord, NoSession, quorum_session_finalize
    <2>3. LimitCounted(Rule(s).cfg, x, now)
      BY <1>2, <2>1, <2>2, LimitCharged DEF quorum_session_finalize, DaysCounted
    <2>4. SetRuleState(s, x) /\ now' = now
      BY <1>2, <2>1 DEF quorum_session_finalize, EngineUnchanged, envVars
    <2> QED
      BY <2>3, <2>4, StateCounted
  <1>3. ASSUME NEW s \in RecoverySlots, NEW n \in SessionSeeds,
               \/ \E msg, d, a, e : quorum_session_open(s, n, msg, d, a, e)
               \/ \E e : passkey_session_open(s, n, e)
        PROVE  DaysCounted'
    <2>1. PICK x, y : /\ x = Rule(s).st
                      /\ \/ y = [x EXCEPT !.sessionNonce = @ + 1]
                         \/ y = [x EXCEPT !.passkeyNonce = @ + 1]
                      /\ SetRuleState(s, y) /\ now' = now
      BY <1>3 DEF quorum_session_open, passkey_session_open, EngineUnchanged, envVars
    <2>2. LimitCounted(Rule(s).cfg, x, now)
      BY <2>1 DEF DaysCounted
    <2>3. DOMAIN y = DOMAIN x /\ y.hist = x.hist /\ y.day = x.day /\ y.daySum = x.daySum
      BY <2>1, <2>2 DEF LimitCounted
    <2>4. LimitCounted(Rule(s).cfg, y, now)
      BY <2>2, <2>3, LimitNonces
    <2> QED
      BY <2>1, <2>4, StateCounted
  <1>4. ASSUME rule_pda' = rule_pda, now' = now PROVE DaysCounted'
    BY <1>4 DEF DaysCounted, RecoverySlots, Rule
  <1>5. ASSUME NEW s \in RecoverySlots, NEW n \in SessionSeeds, OnRule(s, n) PROVE DaysCounted'
    <2>1. CASE \/ \E e : oidc_session_open(s, n, e)
               \/ \E msg : recover_as_primary_passkey_session(s, n, msg)
               \/ \E msg : recover_as_primary_oidc(s, n, msg)
      BY <1>4, <2>1 DEF oidc_session_open, recover_as_primary_passkey_session,
                        recover_as_primary_oidc, EngineUnchanged, envVars
    <2>2. CASE \E msg, d : request_signature_via_oidc_session(s, n, msg, d)
      <3>1. PICK msg, d : request_signature_via_oidc_session(s, n, msg, d)
        BY <2>2
      <3> DEFINE req == request_metadata_digest([msg |-> msg, dest |-> d, amount |-> 0,
                                                 asset |-> 0], rules_generation, "session")
      <3>2. req.amount \in Nat /\ req.asset \in Nat
        BY DEF request_metadata_digest
      <3>3. dispatch_active_rules(req, "session", {s}) /\ EngineUnchanged
        BY <3>1 DEF request_signature_via_oidc_session
      <3> HIDE DEF req
      <3>4. DispatchShape
        BY <3>2, <3>3 DEF DispatchShape, EngineUnchanged
      <3> QED
        BY <3>4, DaysEngineStep DEF OwnShape
    <2> QED
      BY <1>2, <1>3, <1>5, <2>1, <2>2 DEF OnRule
  <1>6. CASE [Next]_vars
    BY <1>6, OwnShapes, DaysEngineStep
  <1>7. CASE OffEngine
    BY <1>4, <1>7, OffEngineFrame DEF vars, engineVars, envVars
  <1> QED
    BY <1>1, <1>5, <1>6, <1>7, RecoverySteps

LEMMA DaysBound == TypeOK /\ DaysCounted => RecoveryWithinDailyLimit
  <1> SUFFICES ASSUME TypeOK, DaysCounted, NEW s \in RecoverySlots, LimitPresent(s),
                      Rule(s).cfg.policy.dailyLimit < U64Max, NEW j \in DOMAIN Rule(s).st.hist
               PROVE  SpentIn(Rule(s).st.hist, Day, Bucket(Rule(s).st.hist[j].ts, Day))
                         <= Rule(s).cfg.policy.dailyLimit
    BY DEF RecoveryWithinDailyLimit
  <1>1. PICK h, st, cfg : st = Rule(s).st /\ h = st.hist /\ cfg = Rule(s).cfg
    OBVIOUS
  <1>2. LimitCounted(cfg, st, now)
    BY <1>1 DEF DaysCounted
  <1>3. h \in Seq(Entry) /\ j \in DOMAIN h
    BY <1>1, <1>2 DEF LimitCounted
  <1>4. h[j].ts \in Nat
    <2>1. \A S : \A q \in Seq(S) : \A n \in DOMAIN q : q[n] \in S
      OBVIOUS
    <2>2. h[j] \in Entry
      BY <1>3, <2>1, Zenon
    <2> QED
      BY <2>2 DEF Entry
  <1>5. Bucket(h[j].ts, Day) \in Nat
    BY <1>4, BucketType, BucketAssumption
  <1>6. BucketOK(h, Day, st.day, st.daySum, cfg.policy.dailyLimit, now)
    BY <1>1, <1>2 DEF LimitCounted, LimitPresent
  <1> QED
    BY <1>1, <1>5, <1>6 DEF BucketOK

----------------------------------------------------------------------------
(* The inductive invariant. *)

RecoveryInv ==
    /\ TypeOK /\ HeadersMirrored /\ ChallengesOK
    /\ QuorumsOK /\ QuorumsRecovered
    /\ EphemeralsOK /\ SessionsWithinGrant
    /\ DaysCounted

LEMMA RecoveryInvInit == RecoveryInit => RecoveryInv
  <1> SUFFICES ASSUME RecoveryInit PROVE RecoveryInv
    OBVIOUS
  <1>1. TypeOK /\ HeadersMirrored
    BY TypeInit, MirrorInit DEF RecoveryInit
  <1>2. ChallengesOK /\ QuorumsRecovered /\ SessionsWithinGrant
    BY DEF RecoveryInit, ChallengesOK, QuorumsRecovered, QuorumEndorsed, SessionsWithinGrant,
           EphemeralWithinGrant, OidcObeysAllowlist
  <1>3. QuorumsOK /\ EphemeralsOK
    BY DEF RecoveryInit, QuorumsOK, QuorumRecord, EphemeralsOK, EphemeralsIn, EphemeralRecord
  <1>4. RecoverySlots = {}
    BY DEF RecoveryInit, Init, RecoverySlots, Rule, Addresses, NoAccount
  <1> QED
    BY <1>1, <1>2, <1>3, <1>4 DEF RecoveryInv, DaysCounted

LEMMA RecoveryInvStep == RecoveryInv /\ [RecoveryNext]_allVars => RecoveryInv'
  <1> SUFFICES ASSUME RecoveryInv, [RecoveryNext]_allVars PROVE RecoveryInv'
    OBVIOUS
  <1>1. EngineShape
    BY RecoveryStepShape DEF RecoveryInv
  <1> QED
    BY <1>1, TypeStep, MirrorStep, ChallengesStep, QuorumsStep, QuorumsRecoveredStep,
       EphemeralsStep, SessionsWithinGrantStep, DaysStep DEF RecoveryInv

----------------------------------------------------------------------------
(* Whatever the roster does meanwhile and however contributions are delayed *)
(* or repeated, quorum_session_finalize approves a message only if the      *)
(* primary asked for it and at least the threshold of the members of the    *)
(* session endorsed that message and destination.                           *)
THEOREM QuorumsAreEndorsed == RecoverySpec => []QuorumEndorsed
  <1>1. RecoveryInv => QuorumEndorsed
    BY DEF RecoveryInv, QuorumsRecovered
  <1> QED
    BY <1>1, RecoveryInvInit, RecoveryInvStep, PTL DEF RecoverySpec

(* What recover_as_primary and quorum_session_finalize let through in one   *)
(* UTC day stays, together, within the rule's daily limit.                  *)
THEOREM RecoveryStaysWithinLimit == RecoverySpec => []RecoveryWithinDailyLimit
  <1>1. RecoveryInv => RecoveryWithinDailyLimit
    BY DaysBound DEF RecoveryInv
  <1> QED
    BY <1>1, RecoveryInvInit, RecoveryInvStep, PTL DEF RecoverySpec

(* An ephemeral key recovers only within the life its primary signed for,   *)
(* and an OIDC session that signs a normal request never gets past an       *)
(* allowlist that covers sessions: the slot dispatch_active_rules skips     *)
(* always holds the recovery rule.                                          *)
THEOREM EphemeralsStayWithinGrant == RecoverySpec => []SessionsWithinGrant
  <1>1. RecoveryInv => SessionsWithinGrant
    BY DEF RecoveryInv
  <1> QED
    BY <1>1, RecoveryInvInit, RecoveryInvStep, PTL DEF RecoverySpec

(* While the engine is paused no recovery path approves a message and none  *)
(* opens a session; members may still contribute.                           *)
THEOREM PauseStopsRecovery == RecoverySpec => PausedStopsRecovery
  <1> DEFINE Kept == approvals' = approvals /\ OpenSessions' \subseteq OpenSessions
  <1>1. ASSUME RecoveryInv, [RecoveryNext]_allVars, paused PROVE Kept
    <2>0. /\ TypeOK
          /\ DOMAIN quorumSessions = SessionSeeds /\ DOMAIN passkeySessions = SessionSeeds
          /\ DOMAIN oidcSessions = SessionSeeds
      BY <1>1 DEF RecoveryInv, QuorumsOK, EphemeralsOK, EphemeralsIn
    <2>1. ASSUME approvals' = approvals,
                 \A n \in SessionSeeds : /\ quorumSessions'[n].exists => quorumSessions[n].exists
                                         /\ passkeySessions'[n].exists => passkeySessions[n].exists
                                         /\ oidcSessions'[n].exists => oidcSessions[n].exists
          PROVE  Kept
      BY <2>1 DEF OpenSessions
    <2>2. ASSUME UNCHANGED <<approvals, quorumSessions, passkeySessions, oidcSessions>> PROVE Kept
      BY <2>1, <2>2
    <2>3. CASE [Next]_vars /\ UNCHANGED recoveryVars
      <3>1. approvals' = approvals
        BY <1>1, <2>0, <2>3, StepHasShape, RuleChangeBumps
        DEF SignShape, request_signature, EngineActive, CommandShape, EnvShape, vars
      <3> QED
        BY <2>2, <2>3, <3>1 DEF recoveryVars
    <2>4. ASSUME NEW n \in SessionSeeds, NEW m, Contribute(n, m) PROVE Kept
      <3>1. /\ quorumSessions[n].exists
            /\ \A k \in SessionSeeds : k # n => quorumSessions'[k] = quorumSessions[k]
            /\ UNCHANGED <<approvals, passkeySessions, oidcSessions>>
        BY <2>0, <2>4 DEF Contribute, vars
      <3> QED
        BY <2>1, <3>1
    <2>5. ASSUME NEW n \in SessionSeeds, quorum_session_close(n) PROVE Kept
      <3>1. /\ quorumSessions[n].exists
            /\ \A k \in SessionSeeds : k # n => quorumSessions'[k] = quorumSessions[k]
            /\ UNCHANGED <<approvals, passkeySessions, oidcSessions>>
        BY <2>0, <2>5 DEF quorum_session_close, vars
      <3> QED
        BY <2>1, <3>1
    <2>6. ASSUME NEW n \in SessionSeeds, passkey_session_close(n) PROVE Kept
      <3>1. /\ passkeySessions[n].exists
            /\ \A k \in SessionSeeds : k # n => passkeySessions'[k] = passkeySessions[k]
            /\ UNCHANGED <<approvals, quorumSessions, oidcSessions>>
        BY <2>0, <2>6 DEF passkey_session_close, vars
      <3> QED
        BY <2>1, <3>1
    <2>7. ASSUME NEW n \in SessionSeeds, oidc_session_close(n) PROVE Kept
      <3>1. /\ oidcSessions[n].exists
            /\ \A k \in SessionSeeds : k # n => oidcSessions'[k] = oidcSessions[k]
            /\ UNCHANGED <<approvals, quorumSessions, passkeySessions>>
        BY <2>0, <2>7 DEF oidc_session_close, vars
      <3> QED
        BY <2>1, <3>1
    <2>8. CASE OffEngine
      <3>1. CASE PrimarySigns \/ \E n, m : MemberSigns(n, m)
        BY <2>2, <3>1 DEF PrimarySigns, MemberSigns, vars
      <3> HIDE DEF Kept
      <3> QED
        BY <2>4, <2>5, <2>6, <2>7, <2>8, <3>1 DEF OffEngine
    <2>9. ASSUME NEW s, NEW n, OnRule(s, n) PROVE FALSE
      BY <1>1, <2>9
      DEF OnRule, quorum_session_open, passkey_session_open, oidc_session_open,
          quorum_session_finalize, recover_as_primary_passkey_session, recover_as_primary_oidc,
          request_signature_via_oidc_session, EngineActive
    <2>10. ASSUME NEW s, NEW msg, NEW d, NEW amount, recover_as_primary(s, msg, d, amount)
           PROVE  FALSE
      BY <1>1, <2>10 DEF recover_as_primary, EngineActive
    <2> HIDE DEF Kept
    <2> QED
      BY <1>1, <2>3, <2>8, <2>9, <2>10, RecoverySteps
  <1>2. RecoveryInv /\ [RecoveryNext]_allVars => [paused => Kept]_allVars
    BY <1>1
  <1> QED
    BY <1>2, RecoveryInvInit, RecoveryInvStep, PTL DEF RecoverySpec, PausedStopsRecovery

=============================================================================
