----------------------------- MODULE MCIntents -----------------------------
(***************************************************************************)
(* Two instances in one run: two EIP-1559 intents with one submit each, of *)
(* which nothing fails, and one intent of any family with two submits,     *)
(* under failed statements and stopped replicas.  The two submits of the   *)
(* one intent are alike, so the one that starts first is called s1.        *)
(***************************************************************************)
EXTENDS Intents
CONSTANTS i1, i2, s1, s2
VARIABLE instance
MCFamiliesOf == i1 :> Families @@ i2 :> {"evm"}
MCSubmitsFor == s1 :> {i1} @@ s2 :> {i1, i2}
mcIntentVars == <<intentVars, instance>>

Within ==
    /\ instance = "pair" =>
          /\ intentFaults' = 0 /\ aged'[i1] < 2 /\ aged'[i2] < 2
          /\ \A i \in {i1, i2} : quoted'[i] # NoIntent => quoted'[i].kind = "evm" /\ quoted'[i].envelope = "eip1559"
          /\ sub'[s2].pc = "loaded" => sub'[s2].id = i2
    /\ instance = "faults" => (sub'[s2].pc # "idle" => sub'[s1].pc # "idle")

MCIntentInit == IntentInit /\ instance \in {"pair", "faults"}
MCIntentNext ==
    /\ \/ \E i \in {i1, i2} : (i = i2 => instance = "pair") /\ QuoteStep(i)
       \/ IntentStep
    /\ Within /\ UNCHANGED instance
MCIntentSpec == MCIntentInit /\ [][MCIntentNext]_mcIntentVars
=============================================================================
