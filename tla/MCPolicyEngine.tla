--------------------------- MODULE MCPolicyEngine ---------------------------
(***************************************************************************)
(* Small instances of PolicyEngine for TLC.  Each run explores the rule    *)
(* kinds that matter to its question; the constants of the others are      *)
(* empty.  The clock starts late enough for every window to have run out   *)
(* since time 0, as it does on a live cluster.                             *)
(***************************************************************************)
EXTENDS PolicyEngine, TLC

NormalOnly == {{"normal"}}

(* One window of length 2 that admits 2 signatures. *)
OneWindow == {<<[secs |-> 2, cap |-> 2]>>}

Caps == {[tx |-> 0, day |-> 3, week |-> 4], [tx |-> 2, day |-> 0, week |-> 3]}

(* Unlocked at time 9, or one second after the rule was created. *)
Locks == {[mode |-> "absolute", unlock |-> 9, delay |-> 0],
          [mode |-> "relative", unlock |-> 0, delay |-> 1]}
Band == {[min |-> 1, max |-> 1]}
OneLimit == {[maxSessions |-> 1, ttl |-> 2, uses |-> 1, amount |-> 1]}
OnePolicy == {[threshold |-> 1, primary |-> [scheme |-> "key", id |-> 1],
               limitPresent |-> FALSE, dailyLimit |-> 0, cooldown |-> 0]}

TwoPrices == {[price |-> 1, conf |-> 0], [price |-> 2, conf |-> 0]}

DestSymmetry == Permutations(Dest)
MsgSymmetry == Permutations(Msg)
=============================================================================
