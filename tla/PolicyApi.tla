----------------------------- MODULE PolicyApi -----------------------------
(***************************************************************************)
(* The gateway's policy endpoints (gateway/internal/policy) between an     *)
(* owner's client and the policy-engine program.  Every signed operation   *)
(* is computed three times from separately written code: the challenge     *)
(* endpoint shows the owner a preimage, the submit endpoint rebuilds it    *)
(* from the submit body next to the instruction, and the program recomputes*)
(* it from the instruction and its accounts.  The gateway keeps no state:  *)
(* nonces and generations are what the client read.                        *)
(*                                                                         *)
(* A preimage is the tuple of what it binds; a payload (a destination, a   *)
(* feed, the terms of a session, a message) is a number.  Engine, dWallet, *)
(* owner slot and rule index are fixed: the model is of one engine.        *)
(***************************************************************************)
EXTENDS Naturals

CONSTANTS
    Client,
    Endpoints,    \* bound: client -> the operations it may ask for
    Payload,      \* numbers standing for what an operation is about
    Sends,        \* bound: client -> submits of its signature
    Changing      \* bound: clients whose body may change after the challenge

VARIABLES
    chain,      \* the accounts of the engine
    moves,      \* transactions that have changed them
    client,     \* what each client holds
    inflight,   \* transactions a node may still include
    landed,     \* history: transactions included
    told        \* history: submits reported as failed before they were sent

apiVars == <<chain, moves, client, inflight, landed, told>>

KindAllowlist == 1
KindOracle == 4
KindSessionKey == 7
KindSpendingUsd == 9
Kinds == {KindAllowlist, KindOracle, KindSessionKey, KindSpendingUsd}

(* The hash of a rule's configuration follows its generation here. *)
Zero32 == 0
EmptyConfig == 1

(* AdminChallengeInput.Preimage, and what the program hashes: every field,  *)
(* then the extras in order, each with its length.                          *)
Admin(op, kind, gen, nonce, cfg, extras) == <<op, <<kind, gen, nonce, cfg, extras>>>>
admin_challenge(op, kind, gen, nonce, cfg, extras) == <<op, <<kind, gen, nonce, cfg, extras>>>>

(* The parameters of an instruction, and a submit: the instruction next to  *)
(* what its precompile checks.  Instructions without one sign nothing.      *)
Ix(nonce, gen, p) == [nonce |-> nonce, gen |-> gen, p |-> p, accounts |-> {}]
Tx(signed, ix) == [signed |-> signed, ix |-> ix]
Nothing == <<"none", << >>>>

(* What the program makes of an instruction. *)
Verdict(ok, challenge, next) == [ok |-> ok, challenge |-> challenge, next |-> next]

----------------------------------------------------------------------------
(* init. *)
initChallengePreimageAndHash(p, recovery) == <<"init", <<recovery, p>>>>
initChallenge(req) == initChallengePreimageAndHash(req.p, 0)
InitEngine(req) == Ix(0, 0, req.p)
initSubmit(req) == Tx(initChallengePreimageAndHash(req.p, 0), InitEngine(req))

init_engine(ix, c) ==
    Verdict(~c.exists, <<"init", <<0, ix.p>>>>, [c EXCEPT !.exists = TRUE])

----------------------------------------------------------------------------
(* Rules.  The generation of an add is the client's, or 1, when the         *)
(* challenge is shown, and 1 when it is submitted.                          *)
AddRuleInput(op, kind, req, gen) ==
    Admin(op, kind, gen, req.nonce, EmptyConfig, <<req.p, gen>>)

addGen(req) == IF req.gen = 0 THEN 1 ELSE req.gen

addRuleAllowlistChallenge(req) ==
    AddRuleInput("add-rule-allowlist", KindAllowlist, req, addGen(req))
addRuleOracleChallenge(req) == AddRuleInput("add-rule-oracle", KindOracle, req, addGen(req))
addRuleSpendingUsdChallenge(req) ==
    AddRuleInput("add-rule-spending-usd", KindSpendingUsd, req, addGen(req))

AddRuleAllowlist(req) == Ix(req.nonce, 0, req.p)
AddRuleOracle(req) == Ix(req.nonce, 0, req.p)
AddRuleSpendingUsd(req) == Ix(req.nonce, 0, req.p)

addRuleAllowlistSubmit(req) ==
    Tx(AddRuleInput("add-rule-allowlist", KindAllowlist, req, 1), AddRuleAllowlist(req))
addRuleOracleSubmit(req) ==
    Tx(AddRuleInput("add-rule-oracle", KindOracle, req, 1), AddRuleOracle(req))
addRuleSpendingUsdSubmit(req) ==
    Tx(AddRuleInput("add-rule-spending-usd", KindSpendingUsd, req, 1), AddRuleSpendingUsd(req))

(* A rule at its next generation; the engine's counters move with it. *)
WithRule(c, kind, gen) ==
    [c EXCEPT !.rule[kind] = gen, !.rulesGen = @ + 1, !.adminNonce = @ + 1]

add_rule(op, kind, ix, c) ==
    Verdict(c.exists /\ c.rule[kind] = 0 /\ ix.nonce = c.adminNonce,
            admin_challenge(op, kind, 1, c.adminNonce, EmptyConfig, <<ix.p, 1>>), WithRule(c, kind, 1))

(* Items: the client names the generation that the update will give. *)
ItemInput(op, kind, req) ==
    Admin(op, kind, req.gen, req.nonce, Zero32, <<req.p, req.gen>>)

itemsAddAllowlistChallenge(req) == ItemInput("allowlist-add-destination", KindAllowlist, req)
itemsAddOracleChallenge(req) == ItemInput("oracle-add-feed", KindOracle, req)
itemsAddSpendingUsdChallenge(req) == ItemInput("spending-usd-add-feed", KindSpendingUsd, req)

UpdateRuleAllowlistAddDestination(req) == Ix(req.nonce, 0, req.p)
UpdateRuleOracleAddFeed(req) == Ix(req.nonce, 0, req.p)
UpdateRuleSpendingUsdAddFeed(req) == Ix(req.nonce, 0, req.p)

itemsAddAllowlistSubmit(req) ==
    Tx(ItemInput("allowlist-add-destination", KindAllowlist, req),
       UpdateRuleAllowlistAddDestination(req))
itemsAddOracleSubmit(req) ==
    Tx(ItemInput("oracle-add-feed", KindOracle, req), UpdateRuleOracleAddFeed(req))
itemsAddSpendingUsdSubmit(req) ==
    Tx(ItemInput("spending-usd-add-feed", KindSpendingUsd, req), UpdateRuleSpendingUsdAddFeed(req))

add_item(op, kind, ix, c) ==
    Verdict(c.rule[kind] > 0 /\ ix.nonce = c.adminNonce,
            admin_challenge(op, kind, c.rule[kind] + 1, c.adminNonce, Zero32,
                            <<ix.p, c.rule[kind] + 1>>),
            WithRule(c, kind, c.rule[kind] + 1))

(* Removal: the client names the present generation and the configuration;  *)
(* both are in the preimage, the instruction carries neither.               *)
(* Seeded fault: the present generation is bound as it is. *)
RemoveAtPresentGeneration(req) ==
    Admin("remove-rule", KindAllowlist, req.gen, req.nonce, req.cfg, <<req.p, req.gen>>)

buildRemoveRuleChallenge(req) ==
    Admin("remove-rule", KindAllowlist, req.gen + 1, req.nonce, req.cfg, <<req.p, req.gen + 1>>)

RemoveRule(req) == Ix(req.nonce, 0, req.p)
removeRuleChallenge(req) == buildRemoveRuleChallenge(req)
removeRuleSubmit(req) == Tx(buildRemoveRuleChallenge(req), RemoveRule(req))

remove_rule(ix, c) ==
    LET gen == c.rule[KindAllowlist] IN
    Verdict(gen > 0 /\ ix.nonce = c.adminNonce,
            admin_challenge("remove-rule", KindAllowlist, gen + 1, c.adminNonce, gen,
                            <<ix.p, gen + 1>>),
            WithRule(c, KindAllowlist, 0))

----------------------------------------------------------------------------
(* Session keys.  Opening is an operation on the rule, with its generation  *)
(* and configuration; the others are on the session, with neither.          *)
buildSessionAdminChallenge(op, req, engineLevel, extras) ==
    Admin(op, KindSessionKey, IF engineLevel THEN req.gen ELSE 0, req.nonce,
          IF engineLevel THEN req.cfg ELSE Zero32, extras)

sessionOpenExtras(req) == <<req.p>>
sessionRevokeExtras(req) == << >>

(* Seeded fault: the recipient of the rent is not bound. *)
CloseExtrasWithoutRecipient(req) == << >>

sessionCloseExtras(req) == <<req.p>>
sessionDestExtras(req) == <<req.p>>

sessionOpenChallenge(req) ==
    buildSessionAdminChallenge("session-open", req, TRUE, sessionOpenExtras(req))
SessionOpen(req) == Ix(req.nonce, 0, req.p)
sessionOpenSubmit(req) ==
    Tx(buildSessionAdminChallenge("session-open", req, TRUE, sessionOpenExtras(req)),
       SessionOpen(req))

session_open(ix, c) ==
    LET gen == c.rule[KindSessionKey] IN
    Verdict(gen > 0 /\ c.session = 0 /\ ix.nonce = c.adminNonce,
            admin_challenge("session-open", KindSessionKey, gen, c.adminNonce, gen, <<ix.p>>),
            [c EXCEPT !.adminNonce = @ + 1, !.session = ix.p, !.life = @ + 1])

sessionRevokeChallenge(req) ==
    buildSessionAdminChallenge("session-revoke", req, FALSE, sessionRevokeExtras(req))
SessionRevoke(req) == Ix(req.nonce, 0, req.p)
sessionRevokeSubmit(req) ==
    Tx(buildSessionAdminChallenge("session-revoke", req, FALSE, sessionRevokeExtras(req)),
       SessionRevoke(req))

sessionCloseChallenge(req) ==
    buildSessionAdminChallenge("session-close", req, FALSE, sessionCloseExtras(req))
SessionClose(req) == Ix(req.nonce, 0, req.p)
sessionCloseSubmit(req) ==
    Tx(buildSessionAdminChallenge("session-close", req, FALSE, sessionCloseExtras(req)),
       SessionClose(req))

sessionDestChallenge(req, op) ==
    buildSessionAdminChallenge(op, req, FALSE, sessionDestExtras(req))
buildSessionUpdateDestination(req) == Ix(req.nonce, 0, req.p)
sessionDestSubmit(req, op) ==
    Tx(buildSessionAdminChallenge(op, req, FALSE, sessionDestExtras(req)),
       buildSessionUpdateDestination(req))

(* Seeded fault: the nonce of the session does not move. *)
SessionAdminSameNonce(op, extras, ix, c, closes) ==
    Verdict(c.session > 0 /\ ix.nonce = c.sessionNonce,
            admin_challenge(op, KindSessionKey, 0, c.sessionNonce, Zero32, extras), c)

session_admin(op, extras, ix, c, closes) ==
    Verdict(c.session > 0 /\ ix.nonce = c.sessionNonce,
            admin_challenge(op, KindSessionKey, 0, c.sessionNonce, Zero32, extras),
            IF closes THEN [c EXCEPT !.session = 0, !.sessionNonce = 0, !.sessionUses = 0]
            ELSE [c EXCEPT !.sessionNonce = @ + 1])

(* Anyone may close a session past its end. *)
CloseExpiredSession(req) == Ix(0, 0, req.p)
sessionCloseExpiredSubmit(req) == Tx(Nothing, CloseExpiredSession(req))

close_expired_session(ix, c) ==
    Verdict(c.session > 0, Nothing,
            [c EXCEPT !.session = 0, !.sessionNonce = 0, !.sessionUses = 0])

(* A use is built for the client to sign; the gateway sends nothing. *)
RequestSignatureViaSession(req) == Ix(req.nonce, 0, req.p)
sessionUseBuild(req) == Tx(Nothing, RequestSignatureViaSession(req))

request_signature_via_session(ix, c) ==
    Verdict(c.session > 0 /\ ix.nonce = c.sessionUses /\ ix.p \notin c.approved, Nothing,
            [c EXCEPT !.sessionUses = @ + 1, !.approved = @ \cup {ix.p}])

----------------------------------------------------------------------------
(* Recovery by the primary, a quorum or a passkey session.  The counters    *)
(* are those of the recovery rule, the address of a session is that of its  *)
(* number.                                                                  *)
PrimaryRecoverPreimage(p, nonce) == <<"primary-recover", <<p, nonce>>>>
deriveRecoverAsPrimary(req) == PrimaryRecoverPreimage(req.p, req.nonce)
recoverAsPrimaryChallenge(req) == deriveRecoverAsPrimary(req)
RecoverAsPrimary(req) == Ix(req.nonce, 0, req.p)
recoverAsPrimarySubmit(req) == Tx(deriveRecoverAsPrimary(req), RecoverAsPrimary(req))

recover_as_primary(ix, c) ==
    Verdict(c.exists /\ ix.nonce = c.recoverNonce /\ ix.p \notin c.approved,
            <<"primary-recover", <<ix.p, c.recoverNonce>>>>,
            [c EXCEPT !.recoverNonce = @ + 1, !.approved = @ \cup {ix.p}])

QuorumOpenPreimage(p, nonce) == <<"quorum-session-open", <<p, nonce>>>>
ContributePreimage(session, p) == <<"quorum-contribute", <<session, p>>>>
deriveQuorum(req) == req.nonce

quorumOpenChallenge(req) == QuorumOpenPreimage(req.p, deriveQuorum(req))
QuorumSessionOpen(req) == Ix(deriveQuorum(req), 0, req.p)
quorumOpenSubmit(req) == Tx(QuorumOpenPreimage(req.p, deriveQuorum(req)), QuorumSessionOpen(req))

quorum_session_open(ix, c) ==
    Verdict(c.exists /\ ix.nonce = c.quorumNonce,
            <<"quorum-session-open", <<ix.p, c.quorumNonce>>>>,
            [c EXCEPT !.quorumNonce = @ + 1, !.quorum = [p |-> ix.p, votes |-> {}]])

quorumContributeChallenge(req) == ContributePreimage(deriveQuorum(req), req.p)
QuorumSessionContribute(req) == Ix(deriveQuorum(req), 0, 0)
quorumContributeSubmit(req) ==
    Tx(ContributePreimage(deriveQuorum(req), req.p), QuorumSessionContribute(req))

(* The message is that of the session, not of the instruction. *)
quorum_session_contribute(ix, c) ==
    Verdict(c.quorum.p > 0 /\ ix.nonce = c.quorumNonce - 1 /\ c.quorum.votes = {},
            <<"quorum-contribute", <<c.quorumNonce - 1, c.quorum.p>>>>,
            [c EXCEPT !.quorum.votes = {1}])

QuorumSessionFinalize(req) == Ix(deriveQuorum(req), 0, req.p)
quorumFinalize(req) == Tx(Nothing, QuorumSessionFinalize(req))

quorum_session_finalize(ix, c) ==
    Verdict(c.quorum.p > 0 /\ ix.nonce = c.quorumNonce - 1 /\ c.quorum.votes # {}
               /\ c.quorum.p \notin c.approved,
            Nothing, [c EXCEPT !.approved = @ \cup {c.quorum.p}])

(* A finished session, or one past its end, is cleared away by anyone; the  *)
(* gateway builds the transaction and the client pays.                      *)
QuorumSessionClose(req) == Ix(deriveQuorum(req), 0, req.p)
quorumClose(req) == Tx(Nothing, QuorumSessionClose(req))

quorum_session_close(ix, c) ==
    Verdict(c.quorum.p > 0 /\ ix.nonce = c.quorumNonce - 1, Nothing,
            [c EXCEPT !.quorum = [p |-> 0, votes |-> {}]])

PasskeyOpenPreimage(p, nonce) == <<"passkey-session-open", <<p, nonce>>>>
PasskeyUsePreimage(session, p, nonce) == <<"passkey-primary-use", <<session, p, nonce>>>>
derivePasskey(req) == req.gen

passkeyOpenChallenge(req) == PasskeyOpenPreimage(req.p, req.nonce)
PasskeySessionOpen(req) == Ix(req.nonce, 0, req.p)
passkeyOpenSubmit(req) == Tx(PasskeyOpenPreimage(req.p, req.nonce), PasskeySessionOpen(req))

passkey_session_open(ix, c) ==
    Verdict(c.exists /\ ix.nonce = c.passkeyNonce,
            <<"passkey-session-open", <<ix.p, c.passkeyNonce>>>>,
            [c EXCEPT !.passkeyNonce = @ + 1, !.passkeyOpen = TRUE, !.passkeyUses = 0])

(* The precompile is over the session's own key; the primary is in the      *)
(* preimage only.                                                           *)
passkeyUseChallenge(req) == PasskeyUsePreimage(derivePasskey(req), req.p, req.nonce)
RecoverAsPrimaryPasskeySession(req) == Ix(req.nonce, derivePasskey(req), req.p)
passkeyUseSubmit(req) ==
    Tx(PasskeyUsePreimage(derivePasskey(req), req.p, req.nonce),
       RecoverAsPrimaryPasskeySession(req))

recover_as_primary_passkey_session(ix, c) ==
    Verdict(c.passkeyOpen /\ ix.gen = c.passkeyNonce - 1 /\ ix.nonce = c.passkeyUses
               /\ ix.p \notin c.approved,
            <<"passkey-primary-use", <<c.passkeyNonce - 1, ix.p, c.passkeyUses>>>>,
            [c EXCEPT !.passkeyUses = @ + 1, !.approved = @ \cup {ix.p}])

PasskeySessionClose(req) == Ix(0, derivePasskey(req), req.p)
passkeyClose(req) == Tx(Nothing, PasskeySessionClose(req))

passkey_session_close(ix, c) ==
    Verdict(c.passkeyOpen /\ ix.gen = c.passkeyNonce - 1, Nothing,
            [c EXCEPT !.passkeyOpen = FALSE])

----------------------------------------------------------------------------
(* Signature requests.  The owner signs the digest of the request, which    *)
(* binds the generation of the rules; the program refuses another one.      *)
NormalUsePreimage(digest) == <<"normal-sign", <<digest>>>>
SwapUsePreimage(digest) == <<"swap-sign", <<digest>>>>

(* An approve and a swap under one signature: every leg puts its own digest *)
(* at its place among the others.                                           *)
(* Seeded fault: a leg's own digest always comes first. *)
BundleOwnFirst(this, index, other) == <<"bundle-sign", <<this, other>>>>

BundlePreimage(this, index, other) ==
    <<"bundle-sign", IF index = 0 THEN <<this, other>> ELSE <<other, this>>>>

(* Seeded fault: the message is left out of the digest. *)
DigestWithoutMessage(gen, p) == <<gen>>

RequestMetadataDigest(gen, p) == <<gen, p>>
SwapMetadataDigest(gen, p) == <<gen, p>>

requestSignatureChallenge(req) == NormalUsePreimage(RequestMetadataDigest(req.gen, req.p))
buildRequestSignatureOwnerAuth(req) == NormalUsePreimage(RequestMetadataDigest(req.gen, req.p))

(* The rule accounts that follow the fixed ones, as the engine lists them   *)
(* when the instruction is built.                                           *)
(* Seeded fault: the rule account of spending caps is forgotten. *)
TrailingWithoutSpending(c) == {k \in Kinds \ {KindSpendingUsd} : c.rule[k] > 0}

resolveTrailingAccounts(c) == {k \in Kinds : c.rule[k] > 0}

RequestSignature(gen, p, accounts) == [Ix(0, gen, p) EXCEPT !.accounts = accounts]

assembleRequestSignatureIx(gen, p, c) == RequestSignature(gen, p, resolveTrailingAccounts(c))

requestSignatureSubmit(req, c) ==
    Tx(buildRequestSignatureOwnerAuth(req), assembleRequestSignatureIx(req.gen, req.p, c))

(* The generation and the accounts of an instruction against the engine's. *)
Dispatchable(ix, c) ==
    /\ c.exists
    /\ ix.gen = c.rulesGen
    /\ ix.accounts = {k \in DOMAIN c.rule : c.rule[k] # 0}
    /\ ix.p \notin c.approved

request_signature(op, ix, c) ==
    Verdict(Dispatchable(ix, c), <<op, <<RequestMetadataDigest(c.rulesGen, ix.p)>>>>,
            [c EXCEPT !.approved = @ \cup {ix.p}])

(* A swap: the generation is not read but written down as zero. *)
swapChallenge(p) == SwapMetadataDigest(0, p)

SwapOwnerAuthChallenge(req) == SwapUsePreimage(swapChallenge(req.p))

AuthorizeSwap(req, c) ==
    Tx(SwapUsePreimage(swapChallenge(req.p)), assembleRequestSignatureIx(0, req.p, c))

(* The two legs of a bundle, of which the approve comes first. *)
ApproveLeg(p) == p + 4

bundleChallenge(req) == BundlePreimage(swapChallenge(ApproveLeg(req.p)), 0, swapChallenge(req.p))

bundleLeg(req, leg, c) ==
    LET approve == swapChallenge(ApproveLeg(req.p))
        swap == swapChallenge(req.p)
    IN  IF leg = 0
        THEN Tx(BundlePreimage(approve, 0, swap), assembleRequestSignatureIx(0, ApproveLeg(req.p), c))
        ELSE Tx(BundlePreimage(swap, 1, approve), assembleRequestSignatureIx(0, req.p, c))

(* The instruction carries the digests of the other legs as they are. *)
request_signature_leg(leg, ix, c) ==
    LET other == IF leg = 0 THEN ix.p - 4 ELSE ix.p + 4
        this == SwapMetadataDigest(c.rulesGen, ix.p)
        that == SwapMetadataDigest(0, other)
    IN  Verdict(Dispatchable(ix, c),
                <<"bundle-sign", IF leg = 0 THEN <<this, that>> ELSE <<that, this>>>>,
                [c EXCEPT !.approved = @ \cup {ix.p}])

----------------------------------------------------------------------------
(* What a client reads before it asks for a challenge: the nonce, the       *)
(* generation and the configuration the operation is about.                 *)
SessionOps == {"session-revoke", "session-close", "session-add-destination",
               "session-remove-destination"}
ItemOps == [a \in {"allowlist-add-destination", "oracle-add-feed", "spending-usd-add-feed"} |->
              CASE a = "allowlist-add-destination" -> KindAllowlist
                [] a = "oracle-add-feed" -> KindOracle
                [] OTHER -> KindSpendingUsd]
SwapOps == {"swap-sign", "bundle-sign"}
Unsigned == {"close-expired-session", "quorum-finalize", "quorum-close", "passkey-close",
             "session-use"}

NonceFor(op, c) ==
    CASE op \in SessionOps -> c.sessionNonce
      [] op = "session-use" -> c.sessionUses
      [] op = "primary-recover" -> c.recoverNonce
      [] op = "quorum-session-open" -> c.quorumNonce
      [] op \in {"quorum-contribute", "quorum-finalize", "quorum-close"} ->
            IF c.quorumNonce = 0 THEN 0 ELSE c.quorumNonce - 1
      [] op = "passkey-session-open" -> c.passkeyNonce
      [] op = "passkey-primary-use" -> c.passkeyUses
      [] OTHER -> c.adminNonce

GenFor(op, c) ==
    CASE op \in DOMAIN ItemOps -> c.rule[ItemOps[op]] + 1
      [] op = "remove-rule" -> c.rule[KindAllowlist]
      [] op = "session-open" -> c.rule[KindSessionKey]
      [] op = "normal-sign" -> c.rulesGen
      [] op \in {"passkey-primary-use", "passkey-close"} ->
            IF c.passkeyNonce = 0 THEN 0 ELSE c.passkeyNonce - 1
      [] OTHER -> 0

readPolicy(op, c, p) ==
    [nonce |-> NonceFor(op, c), gen |-> GenFor(op, c), cfg |-> GenFor(op, c), p |-> p]

----------------------------------------------------------------------------
(* The routes. *)
addRuleChallenge(op, req) ==
    CASE op = "add-rule-allowlist" -> addRuleAllowlistChallenge(req)
      [] op = "add-rule-oracle" -> addRuleOracleChallenge(req)
      [] op = "add-rule-spending-usd" -> addRuleSpendingUsdChallenge(req)

itemsAddChallenge(op, req) ==
    CASE op = "allowlist-add-destination" -> itemsAddAllowlistChallenge(req)
      [] op = "oracle-add-feed" -> itemsAddOracleChallenge(req)
      [] op = "spending-usd-add-feed" -> itemsAddSpendingUsdChallenge(req)

addRuleSubmit(op, req) ==
    CASE op = "add-rule-allowlist" -> addRuleAllowlistSubmit(req)
      [] op = "add-rule-oracle" -> addRuleOracleSubmit(req)
      [] op = "add-rule-spending-usd" -> addRuleSpendingUsdSubmit(req)

itemsAddSubmit(op, req) ==
    CASE op = "allowlist-add-destination" -> itemsAddAllowlistSubmit(req)
      [] op = "oracle-add-feed" -> itemsAddOracleSubmit(req)
      [] op = "spending-usd-add-feed" -> itemsAddSpendingUsdSubmit(req)

AddOps == [a \in {"add-rule-allowlist", "add-rule-oracle", "add-rule-spending-usd"} |->
             CASE a = "add-rule-allowlist" -> KindAllowlist
               [] a = "add-rule-oracle" -> KindOracle
               [] OTHER -> KindSpendingUsd]

AllOps == DOMAIN AddOps \cup DOMAIN ItemOps \cup SessionOps \cup SwapOps \cup Unsigned
             \cup {"init", "remove-rule", "session-open", "primary-recover",
                   "quorum-session-open", "quorum-contribute", "passkey-session-open",
                   "passkey-primary-use", "normal-sign"}

ChallengeRoute(op, req) ==
    CASE op = "init" -> initChallenge(req)
      [] op \in DOMAIN AddOps -> addRuleChallenge(op, req)
      [] op \in DOMAIN ItemOps -> itemsAddChallenge(op, req)
      [] op = "remove-rule" -> removeRuleChallenge(req)
      [] op = "session-open" -> sessionOpenChallenge(req)
      [] op = "session-revoke" -> sessionRevokeChallenge(req)
      [] op = "session-close" -> sessionCloseChallenge(req)
      [] op \in {"session-add-destination", "session-remove-destination"} ->
            sessionDestChallenge(req, op)
      [] op = "primary-recover" -> recoverAsPrimaryChallenge(req)
      [] op = "quorum-session-open" -> quorumOpenChallenge(req)
      [] op = "quorum-contribute" -> quorumContributeChallenge(req)
      [] op = "passkey-session-open" -> passkeyOpenChallenge(req)
      [] op = "passkey-primary-use" -> passkeyUseChallenge(req)
      [] op = "normal-sign" -> requestSignatureChallenge(req)
      [] op = "swap-sign" -> SwapOwnerAuthChallenge(req)
      [] op = "bundle-sign" -> bundleChallenge(req)
      [] op \in Unsigned -> Nothing

SubmitRoute(op, req, leg, c) ==
    CASE op = "init" -> initSubmit(req)
      [] op \in DOMAIN AddOps -> addRuleSubmit(op, req)
      [] op \in DOMAIN ItemOps -> itemsAddSubmit(op, req)
      [] op = "remove-rule" -> removeRuleSubmit(req)
      [] op = "session-open" -> sessionOpenSubmit(req)
      [] op = "session-revoke" -> sessionRevokeSubmit(req)
      [] op = "session-close" -> sessionCloseSubmit(req)
      [] op \in {"session-add-destination", "session-remove-destination"} ->
            sessionDestSubmit(req, op)
      [] op = "close-expired-session" -> sessionCloseExpiredSubmit(req)
      [] op = "session-use" -> sessionUseBuild(req)
      [] op = "primary-recover" -> recoverAsPrimarySubmit(req)
      [] op = "quorum-session-open" -> quorumOpenSubmit(req)
      [] op = "quorum-contribute" -> quorumContributeSubmit(req)
      [] op = "quorum-finalize" -> quorumFinalize(req)
      [] op = "quorum-close" -> quorumClose(req)
      [] op = "passkey-session-open" -> passkeyOpenSubmit(req)
      [] op = "passkey-primary-use" -> passkeyUseSubmit(req)
      [] op = "passkey-close" -> passkeyClose(req)
      [] op = "normal-sign" -> requestSignatureSubmit(req, c)
      [] op = "swap-sign" -> AuthorizeSwap(req, c)
      [] op = "bundle-sign" -> bundleLeg(req, leg, c)

process_instruction(op, leg, ix, c) ==
    CASE op = "init" -> init_engine(ix, c)
      [] op \in DOMAIN AddOps -> add_rule(op, AddOps[op], ix, c)
      [] op \in DOMAIN ItemOps -> add_item(op, ItemOps[op], ix, c)
      [] op = "remove-rule" -> remove_rule(ix, c)
      [] op = "session-open" -> session_open(ix, c)
      [] op = "session-revoke" -> session_admin(op, << >>, ix, c, FALSE)
      [] op = "session-close" -> session_admin(op, <<ix.p>>, ix, c, TRUE)
      [] op \in {"session-add-destination", "session-remove-destination"} ->
            session_admin(op, <<ix.p>>, ix, c, FALSE)
      [] op = "close-expired-session" -> close_expired_session(ix, c)
      [] op = "session-use" -> request_signature_via_session(ix, c)
      [] op = "primary-recover" -> recover_as_primary(ix, c)
      [] op = "quorum-session-open" -> quorum_session_open(ix, c)
      [] op = "quorum-contribute" -> quorum_session_contribute(ix, c)
      [] op = "quorum-finalize" -> quorum_session_finalize(ix, c)
      [] op = "quorum-close" -> quorum_session_close(ix, c)
      [] op = "passkey-session-open" -> passkey_session_open(ix, c)
      [] op = "passkey-primary-use" -> recover_as_primary_passkey_session(ix, c)
      [] op = "passkey-close" -> passkey_session_close(ix, c)
      [] op \in {"normal-sign", "swap-sign"} -> request_signature(op, ix, c)
      [] op = "bundle-sign" -> request_signature_leg(leg, ix, c)

ASSUME ApiAssumption ==
    /\ Payload \subseteq Nat
    /\ \A k \in Client : Endpoints[k] \subseteq AllOps /\ Sends[k] \in Nat

----------------------------------------------------------------------------
(* The engine without accounts, with no rule, and with everything open. *)
NoEngine ==
    [exists |-> FALSE, adminNonce |-> 0, rulesGen |-> 0, rule |-> [k \in Kinds |-> 0],
     session |-> 0, sessionNonce |-> 0, sessionUses |-> 0, life |-> 0, recoverNonce |-> 0,
     quorumNonce |-> 0, quorum |-> [p |-> 0, votes |-> {}], passkeyNonce |-> 0,
     passkeyOpen |-> FALSE, passkeyUses |-> 0, approved |-> {}]
BareEngine == [NoEngine EXCEPT !.exists = TRUE]
FullEngine ==
    [BareEngine EXCEPT !.adminNonce = 5, !.rulesGen = 4, !.rule = [k \in Kinds |-> 1],
                       !.session = 1, !.quorumNonce = 1, !.quorum.p = 1, !.passkeyNonce = 1,
                       !.passkeyOpen = TRUE]

ApiInit ==
    /\ chain \in {NoEngine, BareEngine, FullEngine}
    /\ moves = 0
    /\ client = [k \in Client |-> [pc |-> "idle"]]
    /\ inflight = {}
    /\ landed = {}
    /\ told = {}

(* The client reads the engine, asks for the challenge and signs it. *)
GetChallenge(k, op, p) ==
    /\ client[k].pc = "idle"
    /\ LET req == readPolicy(op, chain, p) IN
       client' = [client EXCEPT ![k] = [pc |-> "signed", op |-> op, req |-> req, at |-> moves,
                                        shown |-> ChallengeRoute(op, req), sends |-> 0]]
    /\ UNCHANGED <<chain, moves, inflight, landed, told>>

(* The precompile holds if what the gateway rebuilt is what was signed, and *)
(* the instruction if the program recomputes the same.                      *)
Executes(t, c) ==
    LET v == process_instruction(t.op, t.leg, t.tx.ix, c) IN
    v.ok /\ t.tx.signed = t.shown /\ v.challenge = t.tx.signed

(* Seeded fault: a failed transport is reported as a failed preflight. *)
TransportIsPreflight(outcome) == IF outcome \in {"rejected", "transport"} THEN "preflight" ELSE "sent"

(* A refusal by the node is a preflight failure; anything else may have     *)
(* sent the transaction.                                                    *)
classifySendError(outcome) ==
    CASE outcome = "rejected" -> "preflight"
      [] outcome = "transport" -> "unknown"
      [] OTHER -> "sent"

(* The node simulates and then takes the transaction or not; its answer may *)
(* not arrive.  A blockhash that cannot be fetched is a refusal.            *)
SignAndSend(t) ==
    \E outcome \in {"rejected", "transport", "ok"} :
       /\ told' = IF classifySendError(outcome) = "preflight" THEN told \cup {t.id} ELSE told
       /\ outcome = "ok" => Executes(t, chain)
       /\ inflight' = IF outcome # "rejected" /\ Executes(t, chain)
                      THEN inflight \cup {t} ELSE inflight

(* Submit, and submit again with the same signature; the body may have      *)
(* changed since the challenge.                                             *)
Submit(k, leg, p) ==
    LET cl == client[k]
        body == [cl.req EXCEPT !.p = p]
    IN  /\ cl.pc = "signed"
        /\ cl.sends < Sends[k]
        /\ p # cl.req.p => k \in Changing
        /\ leg = 1 => cl.op = "bundle-sign"
        /\ client' = [client EXCEPT ![k].sends = @ + 1]
        /\ SignAndSend([id |-> <<k, leg, cl.sends>>, op |-> cl.op, leg |-> leg, at |-> cl.at,
                         shown |-> cl.shown, asked |-> cl.req.p, body |-> p,
                         tx |-> SubmitRoute(cl.op, body, leg, chain)])
        /\ UNCHANGED <<chain, moves, landed>>

(* A block includes the transaction, which takes effect or fails; or its    *)
(* blockhash expires and it never lands.                                    *)
Land(t) ==
    /\ inflight' = inflight \ {t}
    /\ IF Executes(t, chain)
       THEN /\ chain' = process_instruction(t.op, t.leg, t.tx.ix, chain).next
            /\ moves' = moves + 1
            /\ landed' = landed \cup {[t |-> t, life |-> chain.life]}
       ELSE UNCHANGED <<chain, moves, landed>>
    /\ UNCHANGED <<client, told>>

ApiNext ==
    \/ \E k \in Client : \/ \E op \in Endpoints[k], p \in Payload : GetChallenge(k, op, p)
                         \/ \E leg \in 0..1, p \in Payload : Submit(k, leg, p)
    \/ \E t \in inflight : Land(t)

ApiSpec == ApiInit /\ [][ApiNext]_apiVars

----------------------------------------------------------------------------
(* Properties. *)

(* What the owner was shown, what submit rebuilds and what the program      *)
(* recomputes are the same: a transaction submitted with the body of its    *)
(* challenge onto an engine that has not moved since it was read takes      *)
(* effect, for every endpoint whose operation the engine has room for       *)
(* (swaps on engines without rules, votes for the message of the session).  *)
(* A signature request also names the rule accounts the program wants.      *)
RoundTripAgrees ==
    \A k \in Client :
       client[k].pc = "signed" /\ client[k].at = moves
          /\ (client[k].op \in SwapOps => chain.rulesGen = 0)
          /\ (client[k].op = "quorum-contribute" => client[k].req.p = chain.quorum.p) =>
       \A leg \in IF client[k].op = "bundle-sign" THEN 0..1 ELSE {0} :
          LET tx == SubmitRoute(client[k].op, client[k].req, leg, chain)
              v == process_instruction(client[k].op, leg, tx.ix, chain)
          IN  /\ v.ok => tx.signed = client[k].shown /\ v.challenge = client[k].shown
              /\ client[k].op = "normal-sign" /\ chain.exists
                    /\ client[k].req.p \notin chain.approved => v.ok

(* One signature takes effect at most once per leg, however often it is     *)
(* submitted, within the life of the session it is about.                   *)
SignedOnce ==
    \A x \in landed, y \in landed :
       x.t.id[1] = y.t.id[1] /\ x.t.leg = y.t.leg /\ x.life = y.life
          /\ x.t.op \notin Unsigned => x = y

(* Only what was signed takes effect: a body changed after the challenge    *)
(* does not, whatever it changes.                                           *)
LandedAsSigned ==
    \A x \in landed :
       x.t.op \notin Unsigned \cup {"session-revoke"} => x.t.body = x.t.asked

(* A submit reported as a preflight failure, the one kind that is safe to   *)
(* try again with fresh inputs, never takes effect.                         *)
PreflightNeverLands ==
    \A x \in landed : x.t.id \notin told

(* Signing and submitting mean what they say: a signature takes effect once *)
(* and for what was signed, and nothing does that was reported as refused.  *)
EffectAsSigned == SignedOnce /\ LandedAsSigned /\ PreflightNeverLands

=============================================================================
