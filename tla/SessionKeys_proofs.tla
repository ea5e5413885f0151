------------------------- MODULE SessionKeys_proofs -------------------------
(***************************************************************************)
(* Proofs about the session keys of a PolicyEngine, for every number of    *)
(* session indexes, grants, uses and commands, while the owner goes on     *)
(* administering the engine.                                               *)
(***************************************************************************)
EXTENDS SessionKeys, PolicyEngine_proofs

----------------------------------------------------------------------------
(* What a session step does to the engine has one of its shapes. *)
LEMMA SessionStepShape == TypeOK /\ [SessionNext]_allVars => EngineShape
  <1> SUFFICES ASSUME TypeOK, [SessionNext]_allVars PROVE EngineShape
    OBVIOUS
  <1>1. CASE Next
    BY <1>1, EngineShapes
  <1>2. CASE OwnerSignsSession
    <2>1. EnvShape
      BY <1>2 DEF OwnerSignsSession, EnvShape, envVars
    <2> QED
      BY <2>1 DEF EngineShape
  <1>3. ASSUME NEW s \in Slots, NEW i \in SessionIndexes, NEW g, session_open(s, i, g)
        PROVE  EngineShape
    <2>1. /\ verify_owner_admin(OpenCommand(s, i, g))
          /\ OpenCommand(s, i, g).nonce = next_admin_nonce
      BY <1>3 DEF session_open, OpenCommand, admin_challenge
    <2>2. CommandShape
      BY <1>3, <2>1 DEF session_open, CommandShape, TypeOK
    <2> QED
      BY <2>2 DEF EngineShape
  <1>4. ASSUME NEW i, NEW msg, NEW d, NEW amount, request_signature_via_session(i, msg, d, amount)
        PROVE  EngineShape
    <2> DEFINE req == request_metadata_digest([msg |-> msg, dest |-> d, amount |-> 0, asset |-> 0],
                                              rules_generation, "session")
    <2>1. req.amount \in Nat /\ req.asset \in Nat
      BY DEF request_metadata_digest
    <2>2. dispatch_active_rules(req, "session", {})
      BY <1>4 DEF request_signature_via_session
    <2> HIDE DEF req
    <2>3. DispatchShape
      BY <1>4, <2>1, <2>2 DEF request_signature_via_session, DispatchShape
    <2> QED
      BY <2>3 DEF EngineShape
  <1>5. CASE UNCHANGED vars
    BY <1>5 DEF EngineShape
  <1> QED
    BY <1>1, <1>2, <1>3, <1>4, <1>5
    DEF SessionNext, SessionStep, OwnerSignsSessionCommand, session_revoke, session_close,
        close_expired_session, session_add_destination, session_remove_destination, allVars

----------------------------------------------------------------------------
(* The sessions. *)

SessionRecord(x) ==
    \/ x = NoSession
    \/ /\ DOMAIN x = {"exists", "expires", "used", "maxUses", "sigNonce", "maxAmount", "adminNonce",
                      "dests", "id"}
       /\ x.exists = TRUE
       /\ x.used \in Nat /\ x.maxUses \in Nat /\ x.adminNonce \in Nat
       /\ x.id \in Nat /\ x.id < next_admin_nonce

(* What the owner signs to open a session names a number of uses; no other  *)
(* challenge passes for one.                                                *)
GrantsSigned ==
    \A c \in commands : c.op = "session_open" => c.extras.grant.uses \in Nat

SessionsTypeOK ==
    /\ DOMAIN sessions = SessionIndexes
    /\ \A i \in SessionIndexes : SessionRecord(sessions[i])
    /\ IsFiniteSet(sessionUses) /\ IsFiniteSet(sessionApplied)
    /\ GrantsSigned

(* Sessions are told apart by the nonce that opened them. *)
SessionsDistinct ==
    /\ \A i, j \in SessionIndexes :
          sessions[i].exists /\ sessions[j].exists /\ sessions[i].id = sessions[j].id => i = j
    /\ \A u \in sessionUses : u.id \in Nat /\ u.id < next_admin_nonce
    /\ \A x \in sessionApplied : x[1] \in Nat /\ x[1] < next_admin_nonce
    /\ \A e \in ended : e.id \in Nat /\ e.id < next_admin_nonce

(* The session of an index is the one its grant opened, or has been revoked.*)
Granted(x, c) ==
    /\ c.op = "session_open" /\ c.nonce = x.id
    /\ x.expires = c.extras.grant.expires \/ x.expires = 0
    /\ x.maxUses = c.extras.grant.uses
    /\ x.maxAmount = c.extras.grant.amount

SessionsGranted ==
    \A i \in SessionIndexes : sessions[i].exists => \E c \in applied : Granted(sessions[i], c)

(* Its counter is the number of messages it signed. *)
UsesCounted ==
    /\ \A i \in SessionIndexes : sessions[i].exists =>
          /\ UsesOf(sessions[i].id) = sessions[i].used
          /\ sessions[i].used <= sessions[i].maxUses
    /\ \A u \in sessionUses : \E a \in approvals : a.msg = u.msg

(* The last nonce of a session is later than the ones it has consumed. *)
NoncesConsumed ==
    /\ SessionAdminOnce
    /\ \A i \in SessionIndexes, x \in sessionApplied :
          sessions[i].exists /\ x[1] = sessions[i].id =>
              x[2].nonce \in Nat /\ x[2].nonce < sessions[i].adminNonce

(* A session that has ended and is still there has no time left. *)
EndedExpired ==
    /\ EndedForGood
    /\ \A e \in ended, i \in SessionIndexes :
          sessions[i].exists /\ sessions[i].id = e.id => sessions[i].expires = 0

SessionInv ==
    /\ EngineInv
    /\ SessionsTypeOK /\ SessionsDistinct /\ SessionsGranted /\ UsesCounted /\ NoncesConsumed
    /\ EndedExpired /\ SessionWithinGrant

LEMMA SessionInvInit == SessionInit => SessionInv
  <1> SUFFICES ASSUME SessionInit PROVE SessionInv
    OBVIOUS
  <1>1. EngineInv
    BY EngineInvInit DEF SessionInit
  <1>2. \A i \in SessionIndexes : ~sessions[i].exists /\ sessions[i] = NoSession
    BY DEF SessionInit, NoSession
  <1>3. SessionsTypeOK
    BY <1>2, FS_EmptySet DEF SessionInit, Init, SessionsTypeOK, GrantsSigned, SessionRecord
  <1> QED
    BY <1>1, <1>2, <1>3
    DEF SessionInv, SessionInit, SessionsDistinct, SessionsGranted, UsesCounted, NoncesConsumed,
        EndedExpired, SessionWithinGrant, SessionAdminOnce, EndedForGood

----------------------------------------------------------------------------
(* Steps of the engine and of the owner, which leave the sessions alone. *)

LEMMA SignableOpensNothing == \A c \in Signable : c.op # "session_open"
  <1> SUFFICES ASSUME NEW x \in Signable PROVE x.op # "session_open"
    OBVIOUS
  <1>1. ASSUME NEW k, NEW u \in Updates(k) PROVE u[1] # "session_open"
    <2>1. CASE k = "ALLOWLIST"
      BY <2>1 DEF Updates
    <2>2. CASE k = "ORACLE"
      BY <2>2 DEF Updates
    <2>3. CASE k = "SPENDING_USD"
      BY <2>3 DEF Updates
    <2>4. CASE k = "FHE_GATED"
      BY <2>4 DEF Updates
    <2>5. CASE k = "RECOVERY"
      BY <2>5 DEF Updates
    <2>6. CASE k \notin {"ALLOWLIST", "ORACLE", "SPENDING_USD", "FHE_GATED", "RECOVERY"}
      BY <2>6 DEF Updates
    <2> QED
      BY <2>1, <2>2, <2>3, <2>4, <2>5, <2>6
  <1>2. CASE x \in {EngineCommand(op) : op \in {"pause", "resume"}}
    BY <1>2 DEF EngineCommand, admin_challenge
  <1>3. CASE x \in UNION {{AddCommand(k, s, c) : s \in Slots \ Live, c \in NewConfigs(k)} : k \in Kinds}
    BY <1>3 DEF AddCommand, admin_challenge
  <1>4. CASE x \in {RemoveCommand(s) : s \in Live}
    BY <1>4 DEF RemoveCommand, admin_challenge
  <1>5. CASE x \in UNION {{UpdateCommand(u[1], rules_flat[s].kind, s, u[2]) :
                             u \in Updates(rules_flat[s].kind)} : s \in Live}
    <2>1. PICK s \in Live : \E u \in Updates(rules_flat[s].kind) :
                               x = UpdateCommand(u[1], rules_flat[s].kind, s, u[2])
      BY <1>5
    <2>2. PICK u \in Updates(rules_flat[s].kind) : x = UpdateCommand(u[1], rules_flat[s].kind, s, u[2])
      BY <2>1
    <2>3. x.op = u[1]
      BY <2>2 DEF UpdateCommand, admin_challenge
    <2> QED
      BY <1>1, <2>2, <2>3
  <1>6. \/ x \in {EngineCommand(op) : op \in {"pause", "resume"}}
        \/ x \in UNION {{AddCommand(k, s, c) : s \in Slots \ Live, c \in NewConfigs(k)} : k \in Kinds}
        \/ x \in {RemoveCommand(s) : s \in Live}
        \/ x \in UNION {{UpdateCommand(u[1], rules_flat[s].kind, s, u[2]) :
                             u \in Updates(rules_flat[s].kind)} : s \in Live}
    BY DEF Signable
  <1> QED
    BY <1>2, <1>3, <1>4, <1>5, <1>6

LEMMA EngineGrows ==
    ASSUME EngineInv, EngineShape
    PROVE  /\ applied \subseteq applied'
           /\ next_admin_nonce \in Nat /\ next_admin_nonce' \in Nat
           /\ next_admin_nonce <= next_admin_nonce'
  <1>1. next_admin_nonce \in Nat
    BY DEF EngineInv, TypeOK
  <1>2. CASE AddShape \/ UpdateShape \/ RemoveShape \/ CommandShape
    BY <1>1, <1>2, ConsumesCommand DEF verify_owner_admin, NextAdminNonce
  <1>3. CASE DispatchShape \/ RecoverShape \/ EnvShape \/ UNCHANGED vars
    BY <1>1, <1>3 DEF DispatchShape, RecoverShape, EnvShape, vars, engineVars
  <1> QED
    BY <1>2, <1>3 DEF EngineShape

LEMMA ApprovalsGrow == TypeOK /\ [Next]_vars => approvals \subseteq approvals'
  BY StepHasShape, RuleChangeBumps
  DEF SignShape, request_signature, approve_message, CommandShape, EnvShape, vars

LEMMA OwnerSignsNoGrant == TypeOK /\ GrantsSigned /\ [Next]_vars => GrantsSigned'
  <1> SUFFICES ASSUME TypeOK, GrantsSigned, [Next]_vars PROVE GrantsSigned'
    OBVIOUS
  <1>1. CASE OwnerSignsCommand
    BY <1>1, SignableOpensNothing DEF OwnerSignsCommand, GrantsSigned
  <1>2. CASE commands' = commands
    BY <1>2 DEF GrantsSigned
  <1>3. ASSUME NEW s \in Slots, AddRuleStep(s) PROVE commands' = commands
    BY <1>3
    DEF AddRuleStep, AddRule, signVars, add_rule_allowlist, add_rule_velocity, add_rule_time_lock,
        add_rule_oracle, add_rule_spending_usd, add_rule_passkey, add_rule_fhe_gated,
        add_rule_session_key, add_rule_recovery
  <1>4. ASSUME NEW s \in Slots, UpdateRuleStep(s) PROVE commands' = commands
    BY <1>4, UpdateStepHasShape, ConsumesCommand
  <1>5. ASSUME NEW s \in Slots, remove_rule(s) PROVE commands' = commands
    BY <1>5 DEF remove_rule, signVars
  <1>6. CASE EngineStep
    BY <1>2, <1>3, <1>4, <1>5, <1>6
    DEF EngineStep, pause, resume, SetPaused, request_signature, signVars
  <1> QED
    BY <1>1, <1>2, <1>6
    DEF Next, EnvStep, OwnerSignsRequest, Tick, PublishPrice, Decide, vars, signVars

LEMMA SessionsLeftAlone ==
    ASSUME SessionInv, EngineInv', UNCHANGED <<sessions, sessionApplied, sessionUses, ended>>,
           applied \subseteq applied', next_admin_nonce \in Nat, next_admin_nonce' \in Nat,
           next_admin_nonce <= next_admin_nonce', approvals \subseteq approvals', GrantsSigned'
    PROVE  SessionInv'
  <1>1. \A id : UsesOf(id)' = UsesOf(id)
    BY DEF UsesOf
  <1>2. SessionsTypeOK'
    BY DEF SessionInv, SessionsTypeOK, SessionRecord
  <1>3. SessionsDistinct'
    BY DEF SessionInv, SessionsDistinct
  <1>4. SessionsGranted'
    BY DEF SessionInv, SessionsGranted, Granted
  <1>5. UsesCounted'
    BY <1>1 DEF SessionInv, UsesCounted
  <1>6. NoncesConsumed'
    BY DEF SessionInv, NoncesConsumed, SessionAdminOnce
  <1>7. EndedExpired'
    BY <1>1 DEF SessionInv, EndedExpired, EndedForGood
  <1>8. SessionWithinGrant'
    BY <1>1 DEF SessionInv, SessionWithinGrant
  <1> QED
    BY <1>2, <1>3, <1>4, <1>5, <1>6, <1>7, <1>8 DEF SessionInv

LEMMA EngineStepKeepsSessions ==
    ASSUME SessionInv, EngineInv', EngineShape,
           \/ Next /\ UNCHANGED sessionVars
           \/ OwnerSignsSession
           \/ OwnerSignsSessionCommand
           \/ UNCHANGED allVars
    PROVE  SessionInv'
  <1>1. EngineInv /\ TypeOK /\ GrantsSigned
    BY DEF SessionInv, EngineInv, SessionsTypeOK
  <1>2. /\ applied \subseteq applied' /\ next_admin_nonce \in Nat /\ next_admin_nonce' \in Nat
        /\ next_admin_nonce <= next_admin_nonce'
    BY <1>1, EngineGrows
  <1>3. UNCHANGED <<sessions, sessionApplied, sessionUses, ended>>
    BY DEF OwnerSignsSession, OwnerSignsSessionCommand, sessionVars, allVars
  <1>4. approvals \subseteq approvals'
    BY <1>1, ApprovalsGrow DEF OwnerSignsSession, OwnerSignsSessionCommand, vars, allVars
  <1>5. GrantsSigned'
    <2>1. CASE [Next]_vars
      BY <1>1, <2>1, OwnerSignsNoGrant
    <2>2. CASE OwnerSignsSession
      <3>1. PICK s \in Live, i \in SessionIndexes, g \in Grants :
               commands' = commands \cup
                  {OpenCommand(s, i, [expires |-> now + g.ttl, uses |-> g.uses, amount |-> g.amount])}
        BY <2>2 DEF OwnerSignsSession
      <3>2. g.uses \in Nat
        BY GrantsAssumption
      <3>3. OpenCommand(s, i, [expires |-> now + g.ttl, uses |-> g.uses, amount |-> g.amount]).extras.grant.uses
               = g.uses
        BY DEF OpenCommand, admin_challenge
      <3> QED
        BY <1>1, <3>1, <3>2, <3>3 DEF GrantsSigned
    <2> QED
      BY <2>1, <2>2 DEF OwnerSignsSessionCommand, allVars
  <1> QED
    BY <1>2, <1>3, <1>4, <1>5, SessionsLeftAlone

----------------------------------------------------------------------------
(* Steps of the sessions. *)

LEMMA SessionFields ==
    ASSUME SessionInv, NEW i \in SessionIndexes, sessions[i].exists
    PROVE  /\ DOMAIN sessions[i] = {"exists", "expires", "used", "maxUses", "sigNonce", "maxAmount",
                                    "adminNonce", "dests", "id"}
           /\ sessions[i].exists = TRUE
           /\ sessions[i].used \in Nat /\ sessions[i].maxUses \in Nat /\ sessions[i].adminNonce \in Nat
           /\ sessions[i].id \in Nat /\ sessions[i].id < next_admin_nonce
  BY DEF SessionInv, SessionsTypeOK, SessionRecord, NoSession

LEMMA AddsOne ==
    ASSUME NEW S, NEW x, IsFiniteSet(S), x \notin S
    PROVE  IsFiniteSet(S \cup {x}) /\ Cardinality(S \cup {x}) = Cardinality(S) + 1
  BY FS_AddElement

(* The owner administers session i: y is what it becomes, c the challenge.  *)
LEMMA SessionAdministered ==
    ASSUME SessionInv, UNCHANGED vars, UNCHANGED sessionUses,
           NEW i \in SessionIndexes, sessions[i].exists,
           DOMAIN sessions' = SessionIndexes,
           \A j \in SessionIndexes : j # i => sessions'[j] = sessions[j],
           DOMAIN sessions'[i] = DOMAIN sessions[i],
           sessions'[i].exists = TRUE, sessions'[i].id = sessions[i].id,
           sessions'[i].used = sessions[i].used, sessions'[i].maxUses = sessions[i].maxUses,
           sessions'[i].maxAmount = sessions[i].maxAmount,
           sessions'[i].adminNonce = sessions[i].adminNonce + 1,
           NEW c, c.nonce = sessions[i].adminNonce,
           sessionApplied' = sessionApplied \cup {<<sessions[i].id, c>>},
           \/ sessions'[i].expires = sessions[i].expires /\ ended' = ended
           \/ sessions'[i].expires = 0 /\ Ends(i)
    PROVE  SessionInv'
  <1> DEFINE id == sessions[i].id
             nonce == sessions[i].adminNonce
  <1>0. /\ id \in Nat /\ id < next_admin_nonce /\ nonce \in Nat /\ sessions[i].used \in Nat
        /\ sessions[i].maxUses \in Nat
    BY SessionFields
  <1>1. \A x : UsesOf(x)' = UsesOf(x)
    BY DEF UsesOf
  <1>2. /\ next_admin_nonce' = next_admin_nonce /\ applied' = applied /\ commands' = commands
        /\ approvals' = approvals
    BY DEF vars, engineVars, signVars
  <1>3. EngineInv'
    BY EngineInvStep DEF EngineShape, SessionInv
  <1>4. \A j \in SessionIndexes : sessions'[j].exists = sessions[j].exists /\ sessions'[j].id = sessions[j].id
    BY SessionFields
  <1>5. <<id, c>> \notin sessionApplied
    BY <1>0 DEF SessionInv, NoncesConsumed
  <1>6. IsFiniteSet(sessionApplied')
    BY FS_AddElement DEF SessionInv, SessionsTypeOK
  <1>7. SessionsTypeOK'
    <2>1. \A j \in SessionIndexes : SessionRecord(sessions[j])'
      <3>1. SessionRecord(sessions[i])'
        <4>1. sessions[i].adminNonce + 1 \in Nat
          BY <1>0
        <4> QED
          BY <1>0, <1>2, <4>1, SessionFields, Zenon DEF SessionRecord
      <3>2. \A j \in SessionIndexes : j # i => SessionRecord(sessions[j])'
        BY <1>2 DEF SessionInv, SessionsTypeOK, SessionRecord
      <3> QED
        BY <3>1, <3>2
    <2> QED
      BY <1>2, <1>6, <2>1 DEF SessionInv, SessionsTypeOK, GrantsSigned
  <1>8. SessionsDistinct'
    <2>1. \A x \in sessionApplied' : x[1] \in Nat /\ x[1] < next_admin_nonce
      BY <1>0 DEF SessionInv, SessionsDistinct
    <2>2. \A e \in ended' : e.id \in Nat /\ e.id < next_admin_nonce
      BY <1>0 DEF SessionInv, SessionsDistinct, Ends
    <2> QED
      BY <1>2, <1>4, <2>1, <2>2 DEF SessionInv, SessionsDistinct
  <1>9. SessionsGranted'
    <2>1. PICK g \in applied : Granted(sessions[i], g)
      BY DEF SessionInv, SessionsGranted
    <2>2. Granted(sessions[i], g)'
      BY <2>1 DEF Granted
    <2> QED
      BY <1>2, <1>4, <2>2 DEF SessionInv, SessionsGranted, Granted
  <1>10. UsesCounted'
    BY <1>1, <1>2, <1>4 DEF SessionInv, UsesCounted
  <1>11. NoncesConsumed'
    <2>1. ASSUME NEW j \in SessionIndexes, sessions[j].exists, j # i
          PROVE  {x \in sessionApplied' : x[1] = sessions[j].id} = {x \in sessionApplied : x[1] = sessions[j].id}
      BY <2>1 DEF SessionInv, SessionsDistinct
    <2> DEFINE before == {x \in sessionApplied : x[1] = id}
               after == {x \in sessionApplied' : x[1] = id}
    <2>2. after = before \cup {<<id, c>>}
      OBVIOUS
    <2>3. IsFiniteSet(before) /\ <<id, c>> \notin before
      BY <1>5, FS_Subset DEF SessionInv, SessionsTypeOK
    <2>4. Cardinality(after) = Cardinality(before) + 1
      <3>1. PICK pair : pair = <<id, c>>
        OBVIOUS
      <3> HIDE DEF before, after
      <3> QED
        BY <2>2, <2>3, <3>1, AddsOne
    <2>5. Cardinality(before) = nonce
      BY DEF SessionInv, NoncesConsumed, SessionAdminOnce
    <2>6. SessionAdminOnce'
      <3> SUFFICES ASSUME NEW j \in SessionIndexes, sessions'[j].exists
                   PROVE  sessions'[j].adminNonce = Cardinality({x \in sessionApplied' : x[1] = sessions'[j].id})
        BY DEF SessionAdminOnce
      <3>1. CASE j = i
        BY <2>4, <2>5, <3>1
      <3>2. CASE j # i
        <4>1. sessions'[j] = sessions[j] /\ sessions[j].exists
          BY <3>2
        <4>2. sessions[j].adminNonce = Cardinality({x \in sessionApplied : x[1] = sessions[j].id})
          BY <4>1 DEF SessionInv, NoncesConsumed, SessionAdminOnce
        <4> QED
          BY ZenonT(60), <2>1, <3>2, <4>1, <4>2
      <3> QED
        BY <3>1, <3>2
    <2>7. ASSUME NEW j \in SessionIndexes, NEW x \in sessionApplied', sessions'[j].exists,
                 x[1] = sessions'[j].id
          PROVE  x[2].nonce \in Nat /\ x[2].nonce < sessions'[j].adminNonce
      <3>1. CASE x \in sessionApplied
        BY <1>0, <1>4, <2>7, <3>1 DEF SessionInv, NoncesConsumed
      <3>2. CASE x = <<id, c>>
        BY <1>0, <1>4, <2>7, <3>2 DEF SessionInv, SessionsDistinct
      <3> QED
        BY <3>1, <3>2
    <2> QED
      BY <2>6, <2>7 DEF NoncesConsumed
  <1>12. EndedExpired'
    BY <1>1, <1>4 DEF SessionInv, EndedExpired, EndedForGood, Ends, SessionsDistinct
  <1>13. SessionWithinGrant'
    BY <1>1, <1>2 DEF SessionInv, SessionWithinGrant
  <1> QED
    BY <1>3, <1>7, <1>8, <1>9, <1>10, <1>11, <1>12, <1>13 DEF SessionInv

(* Session i is closed, by the owner or because it has expired. *)
LEMMA SessionGone ==
    ASSUME SessionInv, UNCHANGED vars, UNCHANGED sessionUses,
           NEW i \in SessionIndexes, sessions[i].exists,
           sessions' = [sessions EXCEPT ![i] = NoSession],
           Ends(i),
           \/ sessionApplied' = sessionApplied
           \/ \E c : sessionApplied' = sessionApplied \cup {<<sessions[i].id, c>>}
    PROVE  SessionInv'
  <1> DEFINE id == sessions[i].id
  <1>0. id \in Nat /\ id < next_admin_nonce
    BY SessionFields
  <1>1. \A x : UsesOf(x)' = UsesOf(x)
    BY DEF UsesOf
  <1>2. /\ next_admin_nonce' = next_admin_nonce /\ applied' = applied /\ commands' = commands
        /\ approvals' = approvals
    BY DEF vars, engineVars, signVars
  <1>3. EngineInv'
    BY EngineInvStep DEF EngineShape, SessionInv
  <1>4. /\ DOMAIN sessions' = SessionIndexes
        /\ sessions'[i] = NoSession /\ sessions'[i].exists = FALSE
        /\ \A j \in SessionIndexes : j # i => sessions'[j] = sessions[j]
    BY DEF SessionInv, SessionsTypeOK, NoSession
  <1>5. \A x \in sessionApplied' : x \in sessionApplied \/ x[1] = id
    OBVIOUS
  <1>6. IsFiniteSet(sessionApplied')
    BY FS_AddElement DEF SessionInv, SessionsTypeOK
  <1>7. SessionsTypeOK'
    BY <1>2, <1>4, <1>6 DEF SessionInv, SessionsTypeOK, GrantsSigned, SessionRecord
  <1>8. SessionsDistinct'
    BY <1>0, <1>2, <1>4, <1>5 DEF SessionInv, SessionsDistinct, Ends
  <1>9. SessionsGranted'
    BY <1>2, <1>4 DEF SessionInv, SessionsGranted, Granted
  <1>10. UsesCounted'
    BY <1>1, <1>2, <1>4 DEF SessionInv, UsesCounted
  <1>11. NoncesConsumed'
    <2>1. ASSUME NEW j \in SessionIndexes, sessions'[j].exists
          PROVE  /\ j # i /\ sessions'[j] = sessions[j] /\ sessions[j].id # id
                 /\ {x \in sessionApplied' : x[1] = sessions[j].id} = {x \in sessionApplied : x[1] = sessions[j].id}
      BY <1>4, <1>5, <2>1 DEF SessionInv, SessionsDistinct
    <2> QED
      BY <1>5, <2>1 DEF SessionInv, NoncesConsumed, SessionAdminOnce
  <1>12. EndedExpired'
    BY <1>1, <1>4 DEF SessionInv, EndedExpired, EndedForGood, Ends, SessionsDistinct
  <1>13. SessionWithinGrant'
    BY <1>1, <1>2 DEF SessionInv, SessionWithinGrant
  <1> QED
    BY <1>3, <1>7, <1>8, <1>9, <1>10, <1>11, <1>12, <1>13 DEF SessionInv

(* A grant the owner signed opens a session under a nonce no other has. *)
LEMMA SessionOpened ==
    ASSUME SessionInv, EngineInv', NEW s \in Slots, NEW i \in SessionIndexes,
           NEW g \in SignedGrants(s, i), session_open(s, i, g)
    PROVE  SessionInv'
  <1> DEFINE n == next_admin_nonce
             y == NewSession(g)
             c == OpenCommand(s, i, g)
  <1>0. n \in Nat /\ EngineInv
    BY DEF SessionInv, EngineInv, TypeOK
  <1>1. /\ ~sessions[i].exists
        /\ applied' = applied \cup {c} /\ next_admin_nonce' = n + 1
        /\ sessions' = [sessions EXCEPT ![i] = y]
        /\ UNCHANGED <<approvals, commands, sessionApplied, sessionUses, ended>>
    BY DEF session_open, verify_owner_admin, NextAdminNonce, signVars
  <1>2. g.uses \in Nat
    BY DEF SignedGrants, SessionInv, SessionsTypeOK, GrantsSigned
  <1>3. /\ c.op = "session_open" /\ c.nonce = n /\ c.extras.grant = g
    BY DEF OpenCommand, admin_challenge
  <1>4. /\ DOMAIN y = {"exists", "expires", "used", "maxUses", "sigNonce", "maxAmount", "adminNonce",
                       "dests", "id"}
        /\ y.exists = TRUE /\ y.expires = g.expires /\ y.used = 0 /\ y.maxUses = g.uses
        /\ y.maxAmount = g.amount /\ y.adminNonce = 0 /\ y.id = n
    BY DEF NewSession
  <1> HIDE DEF y, c
  <1>5. /\ DOMAIN sessions' = SessionIndexes /\ sessions'[i] = y
        /\ \A j \in SessionIndexes : j # i => sessions'[j] = sessions[j]
    BY <1>1 DEF SessionInv, SessionsTypeOK
  <1>6. \A x : UsesOf(x)' = UsesOf(x)
    BY <1>1 DEF UsesOf
  <1>7. UsesOf(n) = 0
    <2>1. {u \in sessionUses : u.id = n} = {}
      BY <1>0 DEF SessionInv, SessionsDistinct
    <2> QED
      BY <2>1, FS_EmptySet DEF UsesOf
  <1>8. {x \in sessionApplied : x[1] = n} = {}
    BY <1>0 DEF SessionInv, SessionsDistinct
  <1>9. SessionsTypeOK'
    <2>2. \A j \in SessionIndexes : j # i => SessionRecord(sessions[j])'
      BY <1>0, <1>1, <1>5 DEF SessionInv, SessionsTypeOK, SessionRecord
    <2>3. SessionRecord(sessions[i])'
      BY <1>0, <1>1, <1>2, <1>4, <1>5 DEF SessionRecord
    <2> QED
      BY <1>1, <1>5, <2>2, <2>3 DEF SessionInv, SessionsTypeOK, GrantsSigned
  <1>10. \A j \in SessionIndexes : sessions[j].exists => sessions[j].id \in Nat /\ sessions[j].id < n
    BY SessionFields
  <1>11. SessionsDistinct'
    BY <1>0, <1>1, <1>4, <1>5, <1>10 DEF SessionInv, SessionsDistinct
  <1>12. SessionsGranted'
    <2>1. Granted(y, c)
      BY <1>3, <1>4 DEF Granted
    <2> QED
      BY <1>1, <1>5, <2>1 DEF SessionInv, SessionsGranted, Granted
  <1>13. UsesCounted'
    BY <1>1, <1>2, <1>4, <1>5, <1>6, <1>7 DEF SessionInv, UsesCounted
  <1>14. NoncesConsumed'
    <2>1. Cardinality({x \in sessionApplied : x[1] = n}) = 0
      BY <1>8, FS_EmptySet
    <2>2. SessionAdminOnce'
      <3> SUFFICES ASSUME NEW j \in SessionIndexes, sessions'[j].exists
                   PROVE  sessions'[j].adminNonce = Cardinality({x \in sessionApplied' : x[1] = sessions'[j].id})
        BY DEF SessionAdminOnce
      <3>1. CASE j = i
        BY <1>1, <1>4, <1>5, <2>1, <3>1
      <3>2. CASE j # i
        <4>1. sessions'[j] = sessions[j] /\ sessionApplied' = sessionApplied
          BY <1>1, <1>5, <3>2
        <4> QED
          BY <4>1 DEF SessionInv, NoncesConsumed, SessionAdminOnce
      <3> QED
        BY <3>1, <3>2
    <2> QED
      BY <1>1, <1>4, <1>5, <1>8, <2>2 DEF SessionInv, NoncesConsumed
  <1>15. EndedExpired'
    BY <1>0, <1>1, <1>4, <1>5, <1>6 DEF SessionInv, EndedExpired, EndedForGood, SessionsDistinct
  <1>16. SessionWithinGrant'
    BY <1>1, <1>6 DEF SessionInv, SessionWithinGrant
  <1> QED
    BY <1>9, <1>11, <1>12, <1>13, <1>14, <1>15, <1>16 DEF SessionInv

(* A session key signs a message: one use more, of a message that has not   *)
(* been approved before.                                                    *)
LEMMA SessionSigns ==
    ASSUME SessionInv, EngineInv', NEW i \in SessionIndexes, NEW msg, NEW dest, NEW amount,
           request_signature_via_session(i, msg, dest, amount)
    PROVE  SessionInv'
  <1>i. PICK id, x0 : x0 = sessions[i] /\ id = x0.id
    OBVIOUS
  <1>0. EngineInv /\ now \in Nat
    BY DEF SessionInv, EngineInv, TypeOK
  <1>1. sessions[i].exists /\ now < x0.expires /\ x0.used < x0.maxUses /\ amount <= x0.maxAmount
    BY <1>i DEF request_signature_via_session, SessionAccepts
  <1>2. /\ DOMAIN x0 = {"exists", "expires", "used", "maxUses", "sigNonce", "maxAmount",
                        "adminNonce", "dests", "id"}
        /\ x0.exists = TRUE /\ x0.used \in Nat /\ x0.maxUses \in Nat /\ x0.adminNonce \in Nat
        /\ id \in Nat /\ id < next_admin_nonce
    BY <1>1, <1>i, SessionFields
  <1>3. /\ DOMAIN sessions' = SessionIndexes
        /\ \A j \in SessionIndexes : j # i => sessions'[j] = sessions[j]
        /\ DOMAIN sessions'[i] = DOMAIN x0
        /\ sessions'[i].exists = TRUE /\ sessions'[i].id = id /\ sessions'[i].used = x0.used + 1
        /\ sessions'[i].maxUses = x0.maxUses /\ sessions'[i].maxAmount = x0.maxAmount
        /\ sessions'[i].adminNonce = x0.adminNonce /\ sessions'[i].expires = x0.expires
    BY <1>2, <1>i DEF request_signature_via_session, SessionInv, SessionsTypeOK
  <1>4. PICK u0 : /\ u0.id = id /\ u0.msg = msg /\ u0.ts = now /\ u0.amount = amount
                  /\ sessionUses' = sessionUses \cup {u0}
    <2> DEFINE u0 == [id |-> sessions[i].id, msg |-> msg, ts |-> now, dest |-> dest, amount |-> amount]
    <2>1. u0.id = id /\ u0.msg = msg /\ u0.ts = now /\ u0.amount = amount
      BY <1>i
    <2>2. sessionUses' = sessionUses \cup {u0}
      BY DEF request_signature_via_session
    <2> HIDE DEF u0
    <2> QED
      BY <2>1, <2>2
  <1>5. UNCHANGED <<next_admin_nonce, applied, commands, sessionApplied, ended>>
    BY DEF request_signature_via_session, signVars
  <1>6. PICK a0 : a0.msg = msg /\ approvals' = approvals \cup {a0}
    <2> DEFINE a0 == [msg |-> msg, path |-> "session", seen |-> View, at |-> View]
    <2>1. a0.msg = msg
      OBVIOUS
    <2>2. approvals' = approvals \cup {a0}
      BY DEF request_signature_via_session, approve_message
    <2> HIDE DEF a0
    <2> QED
      BY <2>1, <2>2
  <1>7. \A a \in approvals : a.msg # msg
    BY DEF request_signature_via_session, approve_message
  <1>8. u0 \notin sessionUses
    BY <1>4, <1>7 DEF SessionInv, UsesCounted
  <1>9. IsFiniteSet(sessionUses')
    BY <1>4, <1>8, AddsOne DEF SessionInv, SessionsTypeOK
  <1>10. UsesOf(id)' = UsesOf(id) + 1
    <2> DEFINE before == {u \in sessionUses : u.id = id}
               after == {u \in sessionUses' : u.id = id}
    <2>1. after = before \cup {u0} /\ u0 \notin before
      BY <1>4, <1>8
    <2>2. IsFiniteSet(before)
      BY FS_Subset DEF SessionInv, SessionsTypeOK
    <2>3. Cardinality(after) = Cardinality(before) + 1
      <3> HIDE DEF before, after
      <3> QED
        BY <2>1, <2>2, AddsOne
    <2> QED
      BY <2>3 DEF UsesOf
  <1>11. ASSUME NEW x, x # id PROVE UsesOf(x)' = UsesOf(x)
    <2>1. {u \in sessionUses' : u.id = x} = {u \in sessionUses : u.id = x}
      BY <1>4, <1>11
    <2> QED
      BY <2>1 DEF UsesOf
  <1>12. UsesOf(id) = x0.used
    BY <1>1, <1>i DEF SessionInv, UsesCounted
  <1>13. PICK c \in applied : Granted(x0, c)
    BY <1>1, <1>i DEF SessionInv, SessionsGranted
  <1>14. \A j \in SessionIndexes : j # i /\ sessions[j].exists => sessions[j].id # id
    BY <1>1, <1>i DEF SessionInv, SessionsDistinct
  <1>15. \A e \in ended : e.id # id
    BY <1>0, <1>1, <1>i DEF SessionInv, EndedExpired
  <1>16. SessionsTypeOK'
    <2>1. SessionRecord(sessions[i])'
      <3>1. x0.used + 1 \in Nat
        BY <1>2
      <3> QED
        BY <1>2, <1>3, <1>5, <3>1, Zenon DEF SessionRecord
    <2>2. \A j \in SessionIndexes : j # i => SessionRecord(sessions[j])'
      BY <1>3, <1>5 DEF SessionInv, SessionsTypeOK, SessionRecord
    <2> QED
      BY <1>3, <1>5, <1>9, <2>1, <2>2 DEF SessionInv, SessionsTypeOK, GrantsSigned
  <1>17. SessionsDistinct'
    BY <1>i, <1>1, <1>2, <1>3, <1>4, <1>5 DEF SessionInv, SessionsDistinct
  <1>18. SessionsGranted'
    <2>1. Granted(sessions[i], c)'
      BY <1>3, <1>13, <1>i DEF Granted
    <2> QED
      BY <1>3, <1>5, <2>1 DEF SessionInv, SessionsGranted, Granted
  <1>19. UsesCounted'
    <2>1. \A j \in SessionIndexes : sessions'[j].exists =>
             /\ UsesOf(sessions[j].id)' = sessions'[j].used
             /\ sessions'[j].used <= sessions'[j].maxUses
      <3> SUFFICES ASSUME NEW j \in SessionIndexes, sessions'[j].exists
                   PROVE  /\ UsesOf(sessions[j].id)' = sessions'[j].used
                          /\ sessions'[j].used <= sessions'[j].maxUses
        OBVIOUS
      <3>1. CASE j = i
        BY <1>1, <1>2, <1>3, <1>10, <1>12, <3>1
      <3>2. CASE j # i
        <4>1. sessions'[j] = sessions[j] /\ sessions[j].id # id
          BY <1>3, <1>14, <3>2
        <4> QED
          BY <1>11, <4>1 DEF SessionInv, UsesCounted
      <3> QED
        BY <3>1, <3>2
    <2>2. \A u \in sessionUses' : \E a \in approvals' : a.msg = u.msg
      BY <1>4, <1>6 DEF SessionInv, UsesCounted
    <2> QED
      BY <2>1, <2>2 DEF UsesCounted
  <1>20. NoncesConsumed'
    <2>1. \A j \in SessionIndexes : /\ sessions'[j].exists = sessions[j].exists
                                    /\ sessions'[j].exists => /\ sessions'[j].id = sessions[j].id
                                                              /\ sessions'[j].adminNonce = sessions[j].adminNonce
      BY <1>i, <1>2, <1>3
    <2> QED
      BY <1>5, <2>1 DEF SessionInv, NoncesConsumed, SessionAdminOnce
  <1>21. EndedExpired'
    BY <1>i, <1>1, <1>3, <1>5, <1>11, <1>15 DEF SessionInv, EndedExpired, EndedForGood
  <1>22. SessionWithinGrant'
    <2>1. /\ c.op = "session_open" /\ c.nonce = id
          /\ now < c.extras.grant.expires
          /\ amount <= c.extras.grant.amount
          /\ UsesOf(id)' <= c.extras.grant.uses
      BY <1>0, <1>1, <1>2, <1>10, <1>12, <1>13, <1>i DEF Granted
    <2>2. \A d \in applied : d.nonce = id => d = c
      BY <1>0, <1>13, <2>1 DEF EngineInv, AppliedInv
    <2> SUFFICES ASSUME NEW u \in sessionUses'
                 PROVE  \E d \in applied' :
                           /\ d.op = "session_open" /\ d.nonce = u.id
                           /\ u.ts < d.extras.grant.expires
                           /\ u.amount <= d.extras.grant.amount
                           /\ UsesOf(u.id)' <= d.extras.grant.uses
      BY DEF SessionWithinGrant
    <2>3. CASE u = u0
      BY <1>4, <1>5, <2>1, <2>3
    <2>4. CASE u \in sessionUses
      <3>1. PICK d \in applied : /\ d.op = "session_open" /\ d.nonce = u.id
                                 /\ u.ts < d.extras.grant.expires
                                 /\ u.amount <= d.extras.grant.amount
                                 /\ UsesOf(u.id) <= d.extras.grant.uses
        BY <2>4 DEF SessionInv, SessionWithinGrant
      <3>2. CASE u.id = id
        BY <1>5, <2>1, <2>2, <3>1, <3>2
      <3>3. CASE u.id # id
        BY <1>5, <1>11, <3>1, <3>3
      <3> QED
        BY <3>2, <3>3
    <2> QED
      BY <1>4, <2>3, <2>4
  <1> QED
    BY <1>16, <1>17, <1>18, <1>19, <1>20, <1>21, <1>22 DEF SessionInv

LEMMA SessionInvStep == SessionInv /\ [SessionNext]_allVars => SessionInv'
  <1> SUFFICES ASSUME SessionInv, [SessionNext]_allVars PROVE SessionInv'
    OBVIOUS
  <1>1. EngineInv /\ TypeOK /\ DOMAIN sessions = SessionIndexes
    BY DEF SessionInv, EngineInv, SessionsTypeOK
  <1>2. EngineShape
    BY <1>1, SessionStepShape
  <1>3. EngineInv'
    BY <1>1, <1>2, EngineInvStep
  <1>4. ASSUME NEW i \in SessionIndexes, session_revoke(i) PROVE SessionInv'
    <2>1. sessions[i].exists /\ UNCHANGED <<vars, sessionUses>>
      BY <1>4 DEF session_revoke, verify_session_admin
    <2>2. PICK c : c = SessionCommand("revoke", i, NoExtras)
      OBVIOUS
    <2>3. c.nonce = sessions[i].adminNonce
      BY <2>2 DEF SessionCommand
    <2>4. sessionApplied' = sessionApplied \cup {<<sessions[i].id, c>>} /\ Ends(i)
      BY <1>4, <2>2 DEF session_revoke, verify_session_admin
    <2>5. /\ DOMAIN sessions' = SessionIndexes
          /\ \A j \in SessionIndexes : j # i => sessions'[j] = sessions[j]
          /\ DOMAIN sessions'[i] = DOMAIN sessions[i]
          /\ sessions'[i].exists = TRUE /\ sessions'[i].id = sessions[i].id
          /\ sessions'[i].used = sessions[i].used /\ sessions'[i].maxUses = sessions[i].maxUses
          /\ sessions'[i].maxAmount = sessions[i].maxAmount
          /\ sessions'[i].adminNonce = sessions[i].adminNonce + 1
          /\ sessions'[i].expires = 0
      BY <1>1, <1>4, <2>1, SessionFields DEF session_revoke, NextSessionNonce
    <2> QED
      BY <2>1, <2>3, <2>4, <2>5, SessionAdministered
  <1>5. ASSUME NEW i \in SessionIndexes, NEW d,
               session_add_destination(i, d) \/ session_remove_destination(i, d)
        PROVE  SessionInv'
    <2>1. sessions[i].exists /\ UNCHANGED <<vars, sessionUses, ended>>
      BY <1>5 DEF session_add_destination, session_remove_destination, verify_session_admin
    <2>2. PICK c : /\ c.nonce = sessions[i].adminNonce
                   /\ sessionApplied' = sessionApplied \cup {<<sessions[i].id, c>>}
      <3>1. PICK op : sessionApplied' =
                         sessionApplied \cup {<<sessions[i].id, SessionCommand(op, i, [dest |-> d])>>}
        BY <1>5 DEF session_add_destination, session_remove_destination, verify_session_admin
      <3>2. SessionCommand(op, i, [dest |-> d]).nonce = sessions[i].adminNonce
        BY DEF SessionCommand
      <3> QED
        BY <3>1, <3>2
    <2>5. /\ DOMAIN sessions' = SessionIndexes
          /\ \A j \in SessionIndexes : j # i => sessions'[j] = sessions[j]
          /\ DOMAIN sessions'[i] = DOMAIN sessions[i]
          /\ sessions'[i].exists = TRUE /\ sessions'[i].id = sessions[i].id
          /\ sessions'[i].used = sessions[i].used /\ sessions'[i].maxUses = sessions[i].maxUses
          /\ sessions'[i].maxAmount = sessions[i].maxAmount
          /\ sessions'[i].adminNonce = sessions[i].adminNonce + 1
          /\ sessions'[i].expires = sessions[i].expires
      <3>1. CASE session_add_destination(i, d)
        BY <1>1, <2>1, <3>1, SessionFields DEF session_add_destination, NextSessionNonce
      <3>2. CASE session_remove_destination(i, d)
        BY <1>1, <2>1, <3>2, SessionFields DEF session_remove_destination, NextSessionNonce
      <3> QED
        BY <1>5, <3>1, <3>2
    <2> QED
      BY <2>1, <2>2, <2>5, SessionAdministered
  <1>6. ASSUME NEW i \in SessionIndexes, session_close(i) \/ close_expired_session(i)
        PROVE  SessionInv'
    <2>1. /\ sessions[i].exists /\ UNCHANGED <<vars, sessionUses>> /\ Ends(i)
          /\ sessions' = [sessions EXCEPT ![i] = NoSession]
          /\ \/ sessionApplied' = sessionApplied
             \/ \E c : sessionApplied' = sessionApplied \cup {<<sessions[i].id, c>>}
      BY <1>6 DEF session_close, close_expired_session, verify_session_admin
    <2> QED
      BY <2>1, SessionGone
  <1>7. CASE \/ Next /\ UNCHANGED sessionVars
             \/ OwnerSignsSession
             \/ OwnerSignsSessionCommand
             \/ UNCHANGED allVars
    BY <1>2, <1>3, <1>7, EngineStepKeepsSessions
  <1>8. ASSUME NEW s \in Slots, NEW i \in SessionIndexes, NEW g \in SignedGrants(s, i),
               session_open(s, i, g)
        PROVE  SessionInv'
    BY <1>3, <1>8, SessionOpened
  <1>9. ASSUME NEW i \in SessionIndexes, NEW msg, NEW d, NEW amount,
               request_signature_via_session(i, msg, d, amount)
        PROVE  SessionInv'
    BY <1>3, <1>9, SessionSigns
  <1> QED
    BY <1>4, <1>5, <1>6, <1>7, <1>8, <1>9 DEF SessionNext, SessionStep

----------------------------------------------------------------------------
(* A session key that was revoked or closed never signs again, although a   *)
(* later session takes its index, and each admin nonce of a session         *)
(* (session_revoke, session_close, session_add_destination,                 *)
(* session_remove_destination) is consumed by one challenge.                *)
THEOREM SessionsEndOnce == SessionSpec => []SessionEndsOnce
  <1>1. SessionInv => SessionEndsOnce
    BY DEF SessionInv, NoncesConsumed, EndedExpired, SessionEndsOnce
  <1> QED
    BY <1>1, SessionInvInit, SessionInvStep, PTL DEF SessionSpec

(* While the engine is paused, by no step and in no interleaving of the     *)
(* owner, the session keys and the passers-by, is a message approved        *)
(* (request_signature, request_signature_via_session) or a session opened.  *)
THEOREM PauseStopsSigning == SessionSpec => PausedStopsSigning
  <1> DEFINE Kept == /\ approvals' = approvals
                     /\ \A i \in SessionIndexes : sessions'[i].exists => sessions[i].exists
  <1>1. ASSUME SessionInv, [SessionNext]_allVars, paused PROVE Kept
    <2>0. TypeOK /\ DOMAIN sessions = SessionIndexes
      BY <1>1 DEF SessionInv, EngineInv, SessionsTypeOK
    <2>1. ASSUME NEW i \in SessionIndexes, session_revoke(i) PROVE Kept
      <3>1. sessions[i].exists /\ (\A j \in SessionIndexes : j # i => sessions'[j] = sessions[j])
        BY <2>0, <2>1 DEF session_revoke, verify_session_admin
      <3> QED
        BY <2>1, <3>1 DEF session_revoke, vars
    <2>2. ASSUME NEW i \in SessionIndexes, NEW d,
                 session_add_destination(i, d) \/ session_remove_destination(i, d)
          PROVE  Kept
      <3>1. sessions[i].exists /\ (\A j \in SessionIndexes : j # i => sessions'[j] = sessions[j])
        BY <2>0, <2>2 DEF session_add_destination, session_remove_destination, verify_session_admin
      <3> QED
        BY <2>2, <3>1 DEF session_add_destination, session_remove_destination, vars
    <2>3. ASSUME NEW i \in SessionIndexes, session_close(i) \/ close_expired_session(i) PROVE Kept
      <3>1. sessions[i].exists /\ (\A j \in SessionIndexes : j # i => sessions'[j] = sessions[j])
        BY <2>0, <2>3 DEF session_close, close_expired_session, verify_session_admin
      <3> QED
        BY <2>3, <3>1 DEF session_close, close_expired_session, vars
    <2>4. CASE Next /\ UNCHANGED sessionVars
      <3>1. approvals' = approvals
        BY <1>1, <2>0, <2>4, StepHasShape, RuleChangeBumps
        DEF SignShape, request_signature, EngineActive, CommandShape, EnvShape, vars
      <3> QED
        BY <2>4, <3>1 DEF sessionVars
    <2>5. CASE OwnerSignsSession \/ OwnerSignsSessionCommand \/ UNCHANGED allVars
      BY <2>5 DEF OwnerSignsSession, OwnerSignsSessionCommand, allVars, vars, sessionVars
    <2>6. ASSUME NEW s, NEW i, NEW g, session_open(s, i, g) PROVE FALSE
      BY <1>1, <2>6 DEF session_open, EngineActive
    <2>7. ASSUME NEW i, NEW msg, NEW d, NEW amount, request_signature_via_session(i, msg, d, amount)
          PROVE  FALSE
      BY <1>1, <2>7 DEF request_signature_via_session, EngineActive
    <2> QED
      BY <1>1, <2>1, <2>2, <2>3, <2>4, <2>5, <2>6, <2>7 DEF SessionNext, SessionStep
  <1>2. SessionInv /\ [SessionNext]_allVars => [paused => Kept]_allVars
    BY <1>1
  <1> QED
    BY <1>2, SessionInvInit, SessionInvStep, PTL DEF SessionSpec, PausedStopsSigning

(* What the session keys are granted, and what the velocity rule lets       *)
(* through, hold together: a session key signs at most its granted uses,    *)
(* within its amount and before its deadline, and no window of a velocity   *)
(* rule sees more requests than its two adjacent windows may count,         *)
(* whichever path (request_signature, request_signature_via_session) each   *)
(* of them took.                                                            *)
THEOREM SessionsWithinLimits == SessionSpec => []SessionWithinLimits
  <1>1. SessionInit => SessionInv /\ CountersOK
    BY SessionInvInit, CountersInit DEF SessionInit
  <1>2. SessionInv /\ CountersOK /\ [SessionNext]_allVars => SessionInv' /\ CountersOK'
    <2>1. SessionInv => TypeOK /\ HeadersMirrored
      BY DEF SessionInv, EngineInv
    <2> QED
      BY <2>1, SessionInvStep, SessionStepShape, CountersStep
  <1>3. SessionInv /\ CountersOK => SessionWithinLimits
    BY CountersBoundVelocity DEF SessionInv, EngineInv, SessionWithinLimits
  <1> QED
    BY <1>1, <1>2, <1>3, PTL DEF SessionSpec

=============================================================================
