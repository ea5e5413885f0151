----------------------------- MODULE MCGateway -----------------------------
(***************************************************************************)
(* What stands between a client of the gateway and the chain, one part at  *)
(* a time: the policy endpoints, the presign cache, admission, the risk    *)
(* advisory, idempotency keys, and the way back from the chain's logs to   *)
(* the tenant's endpoints.  The parts share no state.                      *)
(***************************************************************************)
EXTENDS PolicyApi, Presign, Admission, Risk, ChainEvents, Idempotency, TLC

CONSTANTS k1, k2
VARIABLE part

(* One client that submits twice, with another body if it likes, and one    *)
(* that moves the engine meanwhile, over all operations.                    *)
AllEndpoints == k1 :> AllOps @@ k2 :> AllOps
TwoSubmits == k1 :> 2 @@ k2 :> 1

(* A file that does not parse and one that lists every destination. *)
TwoFiles == {[hash |-> "h1", entries |-> {}, parses |-> FALSE],
             [hash |-> "h2", entries |-> Destination, parses |-> TRUE]}

TwoPrograms == <<"ika", "engine">>
TwoEndpoints == <<"p1", "p2">>

(* One transaction that mentions both programs, one with a line that is not *)
(* an event, and one that failed.                                           *)
ThreeTransactions ==
    {[mentions |-> {"ika", "engine"}, lines |-> <<"approved", "message_approval">>, err |-> FALSE],
     [mentions |-> {"engine"}, lines |-> <<"unknown", "paused">>, err |-> FALSE],
     [mentions |-> {"ika"}, lines |-> <<"signature_committed">>, err |-> TRUE]}

(* The parts that start in several states do so in their own turn only. *)
GatewayInit ==
    /\ part \in {"policy", "presign", "admission", "risk", "events", "keys"}
    /\ ApiInit /\ PresignInit /\ AdmissionInit /\ RiskInit /\ ChainInit /\ IdemInit
    /\ part # "policy" => chain = NoEngine
    /\ part # "admission" => key.listed
    /\ part # "keys" => guarded

GatewayNext ==
    \/ /\ part = "policy" /\ ApiNext
       /\ UNCHANGED <<presignVars, admissionVars, riskVars, relayVars, idemVars, part>>
    \/ /\ part = "presign" /\ PresignNext
       /\ UNCHANGED <<apiVars, admissionVars, riskVars, relayVars, idemVars, part>>
    \/ /\ part = "admission" /\ AdmissionNext
       /\ UNCHANGED <<apiVars, presignVars, riskVars, relayVars, idemVars, part>>
    \/ /\ part = "risk" /\ RiskNext
       /\ UNCHANGED <<apiVars, presignVars, admissionVars, relayVars, idemVars, part>>
    \/ /\ part = "events" /\ ChainNext
       /\ UNCHANGED <<apiVars, presignVars, admissionVars, riskVars, idemVars, part>>
    \/ /\ part = "keys" /\ IdemNext
       /\ UNCHANGED <<apiVars, presignVars, admissionVars, riskVars, relayVars, part>>

gatewayVars == <<apiVars, presignVars, admissionVars, riskVars, relayVars, idemVars, part>>
GatewaySpec == GatewayInit /\ [][GatewayNext]_gatewayVars
=============================================================================
