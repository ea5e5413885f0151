---------------------------- MODULE SessionKeys ----------------------------
(***************************************************************************)
(* Session keys of a PolicyEngine (discriminators 100..106): the owner     *)
(* grants an ephemeral key a bounded number of signatures until a          *)
(* deadline, may narrow or end the grant, and anyone may clear it away     *)
(* once it has expired, after which its index is free for another grant.   *)
(*                                                                         *)
(* A grant is opened with an owner challenge over the engine's admin nonce *)
(* and administered with challenges over the session's own admin nonce,    *)
(* which starts at 0 in every session.  As in PolicyEngine, a signed       *)
(* challenge may be submitted late or more than once.                      *)
(***************************************************************************)
EXTENDS PolicyEngine

CONSTANTS
    SessionIndexes,       \* session_index values (u32) a run explores
    Grants,               \* [ttl, uses, amount] triples the owner may sign
    MaxSessionDests,      \* 8 destinations per session
    MaxSessionCommands    \* bound: session challenges the owner signs

ASSUME SessionIndexAssumption == SessionIndexes \subseteq Nat
ASSUME GrantsAssumption == Grants \subseteq [ttl : Nat, uses : Nat, amount : Nat]

VARIABLES
    sessions,          \* session_index -> Session account
    sessionCommands,   \* session challenges the owner has signed
    sessionApplied,    \* history: <<session, challenge>> pairs that took effect
    sessionUses,       \* history: the signatures made by session keys
    ended              \* history: sessions revoked or closed, with their uses

sessionVars == <<sessions, sessionCommands, sessionApplied, sessionUses, ended>>
allVars == <<vars, sessionVars>>

NoSession == [exists |-> FALSE]

SessionInit ==
    /\ Init
    /\ sessions = [i \in SessionIndexes |-> NoSession]
    /\ sessionCommands = {}
    /\ sessionApplied = {}
    /\ sessionUses = {}
    /\ ended = {}

UsesOf(id) == Cardinality({u \in sessionUses : u.id = id})

----------------------------------------------------------------------------
(* session_open *)

OpenCommand(s, i, grant) ==
    admin_challenge("session_open", "SESSION_KEY", s, rules_flat[s].generation,
                    rules_flat[s].hash, [session |-> i, grant |-> grant])

(* The owner signs an absolute deadline. *)
OwnerSignsSession ==
    /\ Cardinality(commands) < MaxCommands
    /\ \E s \in Live, i \in SessionIndexes, g \in Grants :
          /\ rules_flat[s].kind = "SESSION_KEY"
          /\ commands' = commands \cup
                {OpenCommand(s, i, [expires |-> now + g.ttl, uses |-> g.uses,
                                    amount |-> g.amount])}
    /\ UNCHANGED <<engineVars, envVars, requests, applied, approvals, sessionVars>>

(* The index is compared after its conversion to a u8. *)
IndexAllowed(i, limits) == i % 256 < limits.maxSessions

GrantAllowed(g, limits) ==
    /\ g.expires > now
    /\ g.expires - now <= limits.ttl
    /\ g.uses > 0 /\ g.uses <= limits.uses
    /\ g.amount > 0 /\ g.amount <= limits.amount

(* `id' names the session in the history: the admin nonce it was opened by. *)
NewSession(g) ==
    [exists |-> TRUE, expires |-> g.expires, used |-> 0, maxUses |-> g.uses,
     sigNonce |-> 0, maxAmount |-> g.amount, adminNonce |-> 0, dests |-> {},
     id |-> next_admin_nonce]

session_open(s, i, g) ==
    /\ EngineActive
    /\ rules_flat[s].kind = "SESSION_KEY"
    /\ Pda(s).exists
    /\ IndexAllowed(i, Pda(s).cfg.limits)
    /\ GrantAllowed(g, Pda(s).cfg.limits)
    /\ ~sessions[i].exists
    /\ verify_owner_admin(OpenCommand(s, i, g))
    /\ sessions' = [sessions EXCEPT ![i] = NewSession(g)]
    /\ UNCHANGED <<paused, rules_count, rules_generation, rules_flat, rule_pda, envVars,
                   signVars, approvals, sessionCommands, sessionApplied, sessionUses, ended>>

----------------------------------------------------------------------------
(* request_signature_via_session: the session key signs the transaction     *)
(* itself, with the nonce and the digest of the current state.  The digest  *)
(* carries no amount and no asset.                                          *)

(* Seeded fault: one use too many. *)
SessionAcceptsOneMore(x, dest, amount) ==
    /\ x.exists
    /\ now < x.expires
    /\ x.used <= x.maxUses
    /\ amount <= x.maxAmount
    /\ x.dests # {} => dest \in x.dests

SessionAccepts(x, dest, amount) ==
    /\ x.exists
    /\ now < x.expires
    /\ x.used < x.maxUses
    /\ amount <= x.maxAmount
    /\ x.dests # {} => dest \in x.dests

request_signature_via_session(i, msg, dest, amount) ==
    /\ EngineActive
    /\ SessionAccepts(sessions[i], dest, amount)
    /\ dispatch_active_rules(
          request_metadata_digest([msg |-> msg, dest |-> dest, amount |-> 0, asset |-> 0],
                                  rules_generation, "session"), "session", {})
    /\ sessions' = [sessions EXCEPT ![i].sigNonce = @ + 1, ![i].used = @ + 1]
    /\ approve_message(msg, "session", View)
    /\ sessionUses' = sessionUses \cup
          {[id |-> sessions[i].id, msg |-> msg, ts |-> now, dest |-> dest, amount |-> amount]}
    /\ UNCHANGED <<next_admin_nonce, paused, rules_count, rules_generation, rules_flat,
                   envVars, signVars, applied, sessionCommands, sessionApplied, ended>>

----------------------------------------------------------------------------
(* The owner's session challenges: over the session's address and its own   *)
(* admin nonce.                                                             *)

SessionCommand(op, i, extras) ==
    [op |-> op, session |-> i, nonce |-> sessions[i].adminNonce, extras |-> extras]

SessionOps ==
    {<<op, NoExtras>> : op \in {"revoke", "close"}}
    \cup {<<op, [dest |-> d]>> : op \in {"add_dest", "remove_dest"}, d \in Dest}

OwnerSignsSessionCommand ==
    /\ Cardinality(sessionCommands) < MaxSessionCommands
    /\ \E i \in SessionIndexes, o \in SessionOps :
          /\ sessions[i].exists
          /\ sessionCommands' = sessionCommands \cup {SessionCommand(o[1], i, o[2])}
    /\ UNCHANGED <<vars, sessions, sessionApplied, sessionUses, ended>>

verify_session_admin(i, c) ==
    /\ sessions[i].exists
    /\ c \in sessionCommands
    /\ sessionApplied' = sessionApplied \cup {<<sessions[i].id, c>>}

Ends(i) == ended' = ended \cup {[id |-> sessions[i].id, uses |-> UsesOf(sessions[i].id)]}

(* Seeded fault: a session command can be replayed on its session. *)
StuckSessionNonce(i) == sessions[i].adminNonce

NextSessionNonce(i) == sessions[i].adminNonce + 1

(* Seeded fault: revoking consumes the nonce and leaves the deadline. *)
session_revoke_keeps_deadline(i) ==
    /\ verify_session_admin(i, SessionCommand("revoke", i, NoExtras))
    /\ sessions' = [sessions EXCEPT ![i].adminNonce = NextSessionNonce(i)]
    /\ Ends(i)
    /\ UNCHANGED <<vars, sessionCommands, sessionUses>>

session_revoke(i) ==
    /\ verify_session_admin(i, SessionCommand("revoke", i, NoExtras))
    /\ sessions' = [sessions EXCEPT ![i].expires = 0, ![i].adminNonce = NextSessionNonce(i)]
    /\ Ends(i)
    /\ UNCHANGED <<vars, sessionCommands, sessionUses>>

session_close(i) ==
    /\ verify_session_admin(i, SessionCommand("close", i, NoExtras))
    /\ sessions' = [sessions EXCEPT ![i] = NoSession]
    /\ Ends(i)
    /\ UNCHANGED <<vars, sessionCommands, sessionUses>>

close_expired_session(i) ==
    /\ sessions[i].exists
    /\ now >= sessions[i].expires
    /\ sessions' = [sessions EXCEPT ![i] = NoSession]
    /\ Ends(i)
    /\ UNCHANGED <<vars, sessionCommands, sessionApplied, sessionUses>>

(* Adding a listed destination consumes the nonce and nothing else. *)
session_add_destination(i, d) ==
    /\ verify_session_admin(i, SessionCommand("add_dest", i, [dest |-> d]))
    /\ d \in sessions[i].dests \/ Cardinality(sessions[i].dests) < MaxSessionDests
    /\ sessions' = [sessions EXCEPT ![i].dests = @ \cup {d},
                                    ![i].adminNonce = NextSessionNonce(i)]
    /\ UNCHANGED <<vars, sessionCommands, sessionUses, ended>>

(* So does removing an absent one. *)
session_remove_destination(i, d) ==
    /\ verify_session_admin(i, SessionCommand("remove_dest", i, [dest |-> d]))
    /\ sessions' = [sessions EXCEPT ![i].dests = @ \ {d},
                                    ![i].adminNonce = NextSessionNonce(i)]
    /\ UNCHANGED <<vars, sessionCommands, sessionUses, ended>>

----------------------------------------------------------------------------
(* A challenge the owner signed for a session tells which grant it opens. *)
SignedGrants(s, i) ==
    {c.extras.grant : c \in {c \in commands : /\ c.op = "session_open"
                                              /\ c.index = s
                                              /\ c.extras.session = i}}

SessionStep ==
    \/ OwnerSignsSession
    \/ OwnerSignsSessionCommand
    \/ \E s \in Slots, i \in SessionIndexes : \E g \in SignedGrants(s, i) : session_open(s, i, g)
    \/ \E i \in SessionIndexes :
          \/ \E msg \in Msg, d \in Dest, amount \in Amounts :
                request_signature_via_session(i, msg, d, amount)
          \/ session_revoke(i)
          \/ session_close(i)
          \/ close_expired_session(i)
          \/ \E d \in Dest : session_add_destination(i, d) \/ session_remove_destination(i, d)

SessionNext ==
    \/ Next /\ UNCHANGED sessionVars
    \/ SessionStep

SessionSpec == SessionInit /\ [][SessionNext]_allVars

----------------------------------------------------------------------------
(* Properties. *)

(* A session key never signs beyond what the owner granted: every signature *)
(* belongs to an applied session_open, before its deadline, within its      *)
(* amount and, all of them together, within its number of uses, although    *)
(* an index is reused by one session after another.                         *)
SessionWithinGrant ==
    \A u \in sessionUses :
        \E c \in applied :
            /\ c.op = "session_open" /\ c.nonce = u.id
            /\ u.ts < c.extras.grant.expires
            /\ u.amount <= c.extras.grant.amount
            /\ UsesOf(u.id) <= c.extras.grant.uses

(* A session that was revoked or closed never signs again, even when a      *)
(* later session takes its index.                                           *)
EndedForGood == \A e \in ended : UsesOf(e.id) = e.uses

(* Within the life of a session each of its admin nonces is consumed by     *)
(* exactly one challenge.                                                   *)
SessionAdminOnce ==
    \A i \in SessionIndexes : sessions[i].exists =>
        sessions[i].adminNonce = Cardinality({x \in sessionApplied : x[1] = sessions[i].id})

(* A session ends once, and each of its commands is obeyed once, although   *)
(* indexes and nonces start again with the next session.                    *)
SessionEndsOnce == EndedForGood /\ SessionAdminOnce

(* Session keys stay within what was granted and, with all other signers,   *)
(* within the velocity rule.                                                *)
SessionWithinLimits == SessionWithinGrant /\ VelocityBounded

(* While the engine is paused no message is approved and no session opens.  *)
PausedStopsSigning ==
    [][paused => /\ approvals' = approvals
                 /\ \A i \in SessionIndexes : sessions'[i].exists => sessions[i].exists]_allVars

=============================================================================
