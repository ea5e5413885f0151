--------------------------- MODULE MCSessionKeys ---------------------------
(***************************************************************************)
(* Small instances of SessionKeys for TLC.                                 *)
(***************************************************************************)
EXTENDS SessionKeys, TLC

BothPaths == {{"normal", "session"}}

(* One session at a time, of at most 2 uses and 2 seconds. *)
OneSession == {[maxSessions |-> 1, ttl |-> 2, uses |-> 2, amount |-> 2]}

(* The shortest grant, one that uses up the limits, and one that is too     *)
(* small for the amounts asked for.                                         *)
SomeGrants == {[ttl |-> 1, uses |-> 1, amount |-> 2], [ttl |-> 2, uses |-> 2, amount |-> 2],
               [ttl |-> 2, uses |-> 1, amount |-> 1]}

(* One signature in 2 seconds. *)
OneWindow == {<<[secs |-> 2, cap |-> 1]>>}

MsgSymmetry == Permutations(Msg)
=============================================================================
