------------------------------ MODULE Recovery ------------------------------
(***************************************************************************)
(* The recovery paths of a PolicyEngine (discriminators 80..91 and 107):   *)
(* the primary recovering alone, a primary and an m-of-n quorum of members *)
(* recovering together, and the short sessions a passkey or an OIDC        *)
(* primary opens for an ephemeral key.  The rule they all refer to is the  *)
(* RECOVERY rule of PolicyEngine, found by the address of its sub-account. *)
(*                                                                         *)
(* What the primary and the members sign is kept for ever, so a signature  *)
(* may be submitted late, twice, or against a rule or a session that was   *)
(* removed and created again in the meantime.  A transaction signed by an  *)
(* ephemeral key is built on the state it executes in.                     *)
(***************************************************************************)
EXTENDS PolicyEngine

CONSTANTS
    WebauthnMembers,       \* the members that sign with a passkey
    SessionSeeds,          \* caller-chosen session PDA seeds a run explores
    Ttls,                  \* lifetimes signed for a session
    QuorumTtl,             \* longest quorum session (7 days)
    EphemeralTtl,          \* longest passkey or OIDC session (10 minutes)
    MaxPrimarySignatures,  \* bound: challenges the primary signs
    MaxUses                \* bound: uses of an ephemeral session

ASSUME WebauthnAssumption == WebauthnMembers \subseteq Member
ASSUME TtlAssumption == Ttls \subseteq Nat /\ EphemeralTtl \in Nat

VARIABLES
    next_oidc_session_nonce,
    quorumSessions,    \* seed -> QuorumSession account
    passkeySessions,   \* seed -> PasskeySession account
    oidcSessions,      \* seed -> OidcSession account
    primarySigned,     \* challenges primaries have signed
    endorsements,      \* contribute challenges members have signed
    recoveries         \* history: the approvals given by these paths

recoveryVars == <<next_oidc_session_nonce, quorumSessions, passkeySessions, oidcSessions,
                  primarySigned, endorsements, recoveries>>
allVars == <<vars, recoveryVars>>

NoSession == [exists |-> FALSE]

RecoveryInit ==
    /\ Init
    /\ next_oidc_session_nonce = 0
    /\ quorumSessions  = [n \in SessionSeeds |-> NoSession]
    /\ passkeySessions = [n \in SessionSeeds |-> NoSession]
    /\ oidcSessions    = [n \in SessionSeeds |-> NoSession]
    /\ primarySigned = {}
    /\ endorsements = {}
    /\ recoveries = {}

----------------------------------------------------------------------------
(* The rule account a recovery instruction loads, by kind and slot. *)
Rule(s) == rule_pda[<<"RECOVERY", s>>]
RecoverySlots == {s \in Slots : "RECOVERY" \in Kinds /\ Rule(s).exists}

PrimaryOf(s) == Rule(s).cfg.policy.primary
ThresholdOf(s) == Rule(s).cfg.policy.threshold

SetRuleState(s, st) == rule_pda' = [rule_pda EXCEPT ![<<"RECOVERY", s>>].st = st]

(* The whitelist of destinations binds only when it is not empty. *)
DestinationAllowed(s, d) == Rule(s).cfg.dests # {} => d \in Rule(s).cfg.dests

(* The daily limit: a UTC-day bucket in the rule's state, shared by the     *)
(* primary and the quorum.  Without a limit the bucket is left alone.       *)
LimitPresent(s) == Rule(s).cfg.policy.limitPresent

(* Seeded fault: the bucket holds the last amount only. *)
LastAmountOnly(s, amount) == amount

NextDaySum(s, amount) ==
    IF Bucket(now, Day) # Rule(s).st.day THEN amount ELSE SatAdd(Rule(s).st.daySum, amount)

WithinDailyLimit(s, amount) ==
    LimitPresent(s) => NextDaySum(s, amount) <= Rule(s).cfg.policy.dailyLimit

Charged(s, amount) ==
    LET st == Rule(s).st
        h  == Append(st.hist, [ts |-> now, amount |-> amount])
    IN  IF LimitPresent(s)
        THEN [st EXCEPT !.day = Bucket(now, Day), !.daySum = NextDaySum(s, amount), !.hist = h]
        ELSE [st EXCEPT !.hist = h]

(* What a recovery leaves in the history: `to' holds the destination, if    *)
(* the instruction knows one; `grant' is the session it used.               *)
Recovered(via, s, msg, to, grant) ==
    recoveries' = recoveries \cup
        {[via |-> via, msg |-> msg, to |-> to, ts |-> now, grant |-> grant,
          at |-> View]}

EngineUnchanged ==
    UNCHANGED <<next_admin_nonce, paused, rules_count, rules_generation, rules_flat,
                envVars, signVars, applied>>

----------------------------------------------------------------------------
(* The challenges of the primary.  None of them names the rule's slot or    *)
(* generation; the recover challenge names neither destination nor amount.  *)

RecoverChallenge(s, msg) ==
    [op |-> "recover", msg |-> msg, nonce |-> Rule(s).st.recoverNonce, primary |-> PrimaryOf(s)]

QuorumChallenge(s, msg, dest, amount, expires) ==
    [op |-> "quorum", msg |-> msg, dest |-> dest, amount |-> amount, expires |-> expires,
     nonce |-> Rule(s).st.sessionNonce, primary |-> PrimaryOf(s)]

PasskeyChallenge(s, notAfter) ==
    [op |-> "passkey", notAfter |-> notAfter, nonce |-> Rule(s).st.passkeyNonce,
     primary |-> PrimaryOf(s)]

OidcChallenge(s, notAfter) ==
    [op |-> "oidc", notAfter |-> notAfter, nonce |-> next_oidc_session_nonce,
     primary |-> PrimaryOf(s)]

PrimaryMaySign(s) ==
    CASE PrimaryOf(s).scheme = "key" ->
            {RecoverChallenge(s, m) : m \in Msg}
            \cup {QuorumChallenge(s, m, d, a, now + t) : m \in Msg, d \in Dest, a \in Amounts,
                                                         t \in Ttls}
      [] PrimaryOf(s).scheme = "webauthn" -> {PasskeyChallenge(s, now + t) : t \in Ttls}
      [] PrimaryOf(s).scheme = "oidc" -> {OidcChallenge(s, now + t) : t \in Ttls}
      [] OTHER -> {}

PrimarySigns ==
    /\ Cardinality(primarySigned) < MaxPrimarySignatures
    /\ \E s \in RecoverySlots : \E c \in PrimaryMaySign(s) :
          primarySigned' = primarySigned \cup {c}
    /\ UNCHANGED <<vars, next_oidc_session_nonce, quorumSessions, passkeySessions,
                   oidcSessions, endorsements, recoveries>>

----------------------------------------------------------------------------
(* recover_as_primary.  Destination and amount are the submitter's. *)
recover_as_primary(s, msg, dest, amount) ==
    /\ EngineActive
    /\ rules_flat[s].kind = "RECOVERY"
    /\ Rule(s).exists
    /\ PrimaryOf(s).scheme = "key"
    /\ DestinationAllowed(s, dest)
    /\ WithinDailyLimit(s, amount)
    /\ RecoverChallenge(s, msg) \in primarySigned
    /\ SetRuleState(s, [Charged(s, amount) EXCEPT !.recoverNonce = @ + 1])
    /\ approve_message(msg, "recovery", View)
    /\ Recovered("recover", s, msg, {dest}, [primary |-> PrimaryOf(s)])
    /\ EngineUnchanged
    /\ UNCHANGED <<next_oidc_session_nonce, quorumSessions, passkeySessions, oidcSessions,
                   primarySigned, endorsements>>

----------------------------------------------------------------------------
(* Quorum sessions.  The account's seed is the caller's argument; the nonce *)
(* in the challenge is the rule's.  Roster and threshold are copied.        *)

NewQuorum(s, msg, dest, amount, expires) ==
    [exists |-> TRUE, rule |-> s, nonce |-> Rule(s).st.sessionNonce, msg |-> msg,
     dest |-> dest, amount |-> amount, expires |-> expires, finalized |-> FALSE,
     members |-> Rule(s).cfg.members, threshold |-> ThresholdOf(s),
     count |-> 0, bitmap |-> {}, primary |-> PrimaryOf(s)]

quorum_session_open(s, n, msg, dest, amount, expires) ==
    /\ EngineActive
    /\ Rule(s).exists
    /\ expires > now /\ expires - now <= QuorumTtl
    /\ ThresholdOf(s) >= 1
    /\ Cardinality(Rule(s).cfg.members) >= ThresholdOf(s)
    /\ PrimaryOf(s).scheme = "key"
    /\ QuorumChallenge(s, msg, dest, amount, expires) \in primarySigned
    /\ ~quorumSessions[n].exists
    /\ quorumSessions' = [quorumSessions EXCEPT ![n] = NewQuorum(s, msg, dest, amount, expires)]
    /\ SetRuleState(s, [Rule(s).st EXCEPT !.sessionNonce = @ + 1])
    /\ EngineUnchanged
    /\ UNCHANGED <<approvals, next_oidc_session_nonce, passkeySessions, oidcSessions,
                   primarySigned, endorsements, recoveries>>

ContributeChallenge(n, m) ==
    LET q == quorumSessions[n]
    IN  [session |-> n, member |-> m, msg |-> q.msg, dest |-> q.dest,
         amount |-> q.amount, expires |-> q.expires]

MemberSigns(n, m) ==
    /\ quorumSessions[n].exists
    /\ m \in quorumSessions[n].members
    /\ endorsements' = endorsements \cup {ContributeChallenge(n, m)}
    /\ UNCHANGED <<vars, next_oidc_session_nonce, quorumSessions, passkeySessions,
                   oidcSessions, primarySigned, recoveries>>

(* The engine may be paused: only finalizing looks at that. *)
Contribute(n, m) ==
    /\ quorumSessions[n].exists
    /\ ~quorumSessions[n].finalized
    /\ now < quorumSessions[n].expires
    /\ m \in quorumSessions[n].members
    /\ m \notin quorumSessions[n].bitmap
    /\ ContributeChallenge(n, m) \in endorsements
    /\ quorumSessions' = [quorumSessions EXCEPT ![n].bitmap = @ \cup {m}, ![n].count = @ + 1]
    /\ UNCHANGED <<vars, next_oidc_session_nonce, passkeySessions, oidcSessions,
                   primarySigned, endorsements, recoveries>>

quorum_session_contribute(n, m) == m \notin WebauthnMembers /\ Contribute(n, m)
quorum_session_contribute_webauthn(n, m) == m \in WebauthnMembers /\ Contribute(n, m)

(* Seeded fault: one endorsement short. *)
QuorumAlmostReached(q) == q.count + 1 >= q.threshold

(* Anyone may finalize; whitelist and limit are those of the rule account   *)
(* now at the address the session was opened against.                       *)
QuorumReached(q) == q.count >= q.threshold

quorum_session_finalize(s, n) ==
    LET q == quorumSessions[n]
    IN  /\ Rule(s).exists
        /\ q.exists
        /\ q.rule = s
        /\ EngineActive
        /\ ~q.finalized
        /\ now < q.expires
        /\ QuorumReached(q)
        /\ DestinationAllowed(s, q.dest)
        /\ WithinDailyLimit(s, q.amount)
        /\ SetRuleState(s, Charged(s, q.amount))
        /\ quorumSessions' = [quorumSessions EXCEPT ![n].finalized = TRUE]
        /\ approve_message(q.msg, "recovery", View)
        /\ Recovered("quorum", s, q.msg, {q.dest}, q)
        /\ EngineUnchanged
        /\ UNCHANGED <<next_oidc_session_nonce, passkeySessions, oidcSessions,
                       primarySigned, endorsements>>

quorum_session_close(n) ==
    /\ quorumSessions[n].exists
    /\ quorumSessions[n].finalized \/ now >= quorumSessions[n].expires
    /\ quorumSessions' = [quorumSessions EXCEPT ![n] = NoSession]
    /\ UNCHANGED <<vars, next_oidc_session_nonce, passkeySessions, oidcSessions,
                   primarySigned, endorsements, recoveries>>

----------------------------------------------------------------------------
(* Passkey and OIDC sessions: the primary authenticates once and names an   *)
(* ephemeral key, which then signs until the session expires.               *)

Earlier(a, b) == IF a < b THEN a ELSE b

(* Seeded fault: the deadline the primary signed is ignored. *)
EphemeralTtlOnly(notAfter) == now + EphemeralTtl

EffectiveExpiry(notAfter) == Earlier(now + EphemeralTtl, notAfter)

NewEphemeral(s, notAfter) ==
    [exists |-> TRUE, rule |-> s, primary |-> PrimaryOf(s), useNonce |-> 0,
     expires |-> EffectiveExpiry(notAfter)]

passkey_session_open(s, n, notAfter) ==
    /\ EngineActive
    /\ Rule(s).exists
    /\ PrimaryOf(s).scheme = "webauthn"
    /\ EffectiveExpiry(notAfter) > now
    /\ PasskeyChallenge(s, notAfter) \in primarySigned
    /\ ~passkeySessions[n].exists
    /\ passkeySessions' = [passkeySessions EXCEPT ![n] = NewEphemeral(s, notAfter)]
    /\ SetRuleState(s, [Rule(s).st EXCEPT !.passkeyNonce = @ + 1])
    /\ EngineUnchanged
    /\ UNCHANGED <<approvals, next_oidc_session_nonce, quorumSessions, oidcSessions,
                   primarySigned, endorsements, recoveries>>

(* Taken with the RSA check compiled in (feature oidc-rsa); a valid JWT is  *)
(* a challenge signed by the OIDC identity.                                 *)
oidc_session_open(s, n, notAfter) ==
    /\ EngineActive
    /\ Rule(s).exists
    /\ PrimaryOf(s).scheme = "oidc"
    /\ EffectiveExpiry(notAfter) > now
    /\ OidcChallenge(s, notAfter) \in primarySigned
    /\ ~oidcSessions[n].exists
    /\ oidcSessions' = [oidcSessions EXCEPT ![n] = NewEphemeral(s, notAfter)]
    /\ next_oidc_session_nonce' = next_oidc_session_nonce + 1
    /\ EngineUnchanged
    /\ UNCHANGED <<rule_pda, approvals, quorumSessions, passkeySessions,
                   primarySigned, endorsements, recoveries>>

(* A session works only while the rule at its address still names the       *)
(* primary that opened it.                                                  *)
Usable(x, s) ==
    /\ Rule(s).exists
    /\ x.exists
    /\ x.rule = s
    /\ now < x.expires
    /\ x.primary = PrimaryOf(s)
    /\ x.useNonce < MaxUses

recover_as_primary_passkey_session(s, n, msg) ==
    /\ EngineActive
    /\ Usable(passkeySessions[n], s)
    /\ passkeySessions' = [passkeySessions EXCEPT ![n].useNonce = @ + 1]
    /\ Recovered("passkey", s, msg, {}, passkeySessions[n])
    /\ approve_message(msg, "recovery", View)
    /\ EngineUnchanged
    /\ UNCHANGED <<rule_pda, next_oidc_session_nonce, quorumSessions, oidcSessions,
                   primarySigned, endorsements>>

recover_as_primary_oidc(s, n, msg) ==
    /\ EngineActive
    /\ Usable(oidcSessions[n], s)
    /\ oidcSessions' = [oidcSessions EXCEPT ![n].useNonce = @ + 1]
    /\ Recovered("oidc", s, msg, {}, oidcSessions[n])
    /\ approve_message(msg, "recovery", View)
    /\ EngineUnchanged
    /\ UNCHANGED <<rule_pda, next_oidc_session_nonce, quorumSessions, passkeySessions,
                   primarySigned, endorsements>>

(* The same session signing a normal request: every rule that covers the    *)
(* session path is enforced, except at the slot of the recovery rule.       *)
request_signature_via_oidc_session(s, n, msg, dest) ==
    /\ EngineActive
    /\ Usable(oidcSessions[n], s)
    /\ oidcSessions' = [oidcSessions EXCEPT ![n].useNonce = @ + 1]
    /\ dispatch_active_rules(
          request_metadata_digest([msg |-> msg, dest |-> dest, amount |-> 0, asset |-> 0],
                                  rules_generation, "session"), "session", {s})
    /\ approve_message(msg, "session", View)
    /\ Recovered("oidc_sign", s, msg, {dest}, oidcSessions[n])
    /\ EngineUnchanged
    /\ UNCHANGED <<next_oidc_session_nonce, quorumSessions, passkeySessions,
                   primarySigned, endorsements>>

passkey_session_close(n) ==
    /\ passkeySessions[n].exists
    /\ now >= passkeySessions[n].expires
    /\ passkeySessions' = [passkeySessions EXCEPT ![n] = NoSession]
    /\ UNCHANGED <<vars, next_oidc_session_nonce, quorumSessions, oidcSessions,
                   primarySigned, endorsements, recoveries>>

oidc_session_close(n) ==
    /\ oidcSessions[n].exists
    /\ now >= oidcSessions[n].expires
    /\ oidcSessions' = [oidcSessions EXCEPT ![n] = NoSession]
    /\ UNCHANGED <<vars, next_oidc_session_nonce, quorumSessions, passkeySessions,
                   primarySigned, endorsements, recoveries>>

----------------------------------------------------------------------------
RecoveryStep ==
    \/ PrimarySigns
    \/ \E s \in RecoverySlots, msg \in Msg, d \in Dest, amount \in Amounts :
          recover_as_primary(s, msg, d, amount)
    \/ \E s \in RecoverySlots, n \in SessionSeeds :
          \/ \E c \in primarySigned :
                \/ /\ c.op = "quorum"
                   /\ quorum_session_open(s, n, c.msg, c.dest, c.amount, c.expires)
                \/ c.op = "passkey" /\ passkey_session_open(s, n, c.notAfter)
                \/ c.op = "oidc" /\ oidc_session_open(s, n, c.notAfter)
          \/ quorum_session_finalize(s, n)
          \/ \E msg \in Msg : recover_as_primary_passkey_session(s, n, msg)
          \/ \E msg \in Msg : recover_as_primary_oidc(s, n, msg)
          \/ \E msg \in Msg, d \in Dest : request_signature_via_oidc_session(s, n, msg, d)
    \/ \E n \in SessionSeeds :
          \/ \E m \in Member : \/ MemberSigns(n, m)
                               \/ quorum_session_contribute(n, m)
                               \/ quorum_session_contribute_webauthn(n, m)
          \/ quorum_session_close(n)
          \/ passkey_session_close(n)
          \/ oidc_session_close(n)

RecoveryNext ==
    \/ Next /\ UNCHANGED recoveryVars
    \/ RecoveryStep

RecoverySpec == RecoveryInit /\ [][RecoveryNext]_allVars

----------------------------------------------------------------------------
(* Properties. *)

(* Every quorum recovery was asked for by the primary and endorsed, for     *)
(* this very message and destination, by at least the threshold of distinct *)
(* members, both as they stood when the session was opened: neither member  *)
(* updates in flight nor repeated, delayed or older contributions change    *)
(* who has to agree.                                                        *)
QuorumEndorsed ==
    \A u \in recoveries : u.via = "quorum" =>
        /\ u.grant.threshold >= 1
        /\ \E c \in primarySigned : /\ c.op = "quorum" /\ c.msg = u.msg
                                    /\ u.to = {c.dest} /\ c.primary = u.grant.primary
        /\ Cardinality({m \in u.grant.members : \E e \in endorsements :
                           e.member = m /\ e.msg = u.msg /\ u.to = {e.dest}}) >= u.grant.threshold

(* A message recovered through a session of an ephemeral key was opened by  *)
(* the primary, and within the life the primary signed for.                 *)
EphemeralWithinGrant ==
    \A u \in recoveries : u.via \in {"passkey", "oidc", "oidc_sign"} =>
        \E c \in primarySigned :
            /\ c.op = (IF u.via = "passkey" THEN "passkey" ELSE "oidc")
            /\ c.primary = u.grant.primary
            /\ u.ts < c.notAfter

(* The amounts recovered in one UTC day by the primary and by quorums       *)
(* together stay within the rule's daily limit (a limit of u64::MAX is      *)
(* none: the sum saturates there).                                          *)
RecoveryWithinDailyLimit ==
    \A s \in RecoverySlots :
        LET h     == Rule(s).st.hist
            limit == Rule(s).cfg.policy.dailyLimit
        IN  LimitPresent(s) /\ limit < U64Max =>
               \A j \in DOMAIN h : SpentIn(h, Day, Bucket(h[j].ts, Day)) <= limit

(* "Slot rule_index is provably the recovery slot": an OIDC session that    *)
(* signs a normal request never skips an allowlist that covers sessions.    *)
OidcObeysAllowlist ==
    \A u \in recoveries : u.via = "oidc_sign" =>
        \A s \in Slots :
            (u.at[s].kind = "ALLOWLIST" /\ "session" \in u.at[s].cfg.applies) =>
                u.to \subseteq u.at[s].cfg.dests

(* Recovery through a session of an ephemeral key keeps to the life that    *)
(* was signed for and to the allowlists that cover sessions.                *)
SessionsWithinGrant == EphemeralWithinGrant /\ OidcObeysAllowlist

(* While the engine is paused nothing is approved and no session opens.     *)
OpenSessions == {<<"quorum", n>> : n \in {n \in SessionSeeds : quorumSessions[n].exists}}
    \cup {<<"passkey", n>> : n \in {n \in SessionSeeds : passkeySessions[n].exists}}
    \cup {<<"oidc", n>> : n \in {n \in SessionSeeds : oidcSessions[n].exists}}

PausedStopsRecovery ==
    [][paused => approvals' = approvals /\ OpenSessions' \subseteq OpenSessions]_allVars

=============================================================================
