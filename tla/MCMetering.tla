----------------------------- MODULE MCMetering -----------------------------
(***************************************************************************)
(* A read and its retry under one Idempotency-Key, and a call of an MCP    *)
(* tool beside them.                                                       *)
(***************************************************************************)
EXTENDS Metering, TLC

CONSTANTS r1, r2, r3

MCKeyOf == [r \in MeterRequest |-> IF r \in {r1, r2} THEN "retried" ELSE "single"]
MCRouteOf == [r \in MeterRequest |-> IF r \in {r1, r2} THEN "read" ELSE "mcp"]

(* The request and its retry are alike. *)
MCSymmetry == Permutations({r1, r2})
=============================================================================
