----------------------------- MODULE MCRecovery -----------------------------
(***************************************************************************)
(* Small instances of Recovery for TLC.                                    *)
(***************************************************************************)
EXTENDS Recovery, TLC

BothPaths == {{"normal", "session"}}

RulePolicy(scheme, threshold, limit) ==
    {[threshold |-> threshold, primary |-> [scheme |-> scheme, id |-> 1],
      limitPresent |-> limit > 0, dailyLimit |-> limit, cooldown |-> 0]}

(* Two members of the quorum, and a recovery of amount 1 a day. *)
TwoOfN  == RulePolicy("key", 2, 1)
Passkey == RulePolicy("webauthn", 0, 0)
Oidc    == RulePolicy("oidc", 0, 0)
Ephemeral == Passkey \cup Oidc

MsgSymmetry == Permutations(Msg)
=============================================================================
