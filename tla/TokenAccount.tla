---------------------------- MODULE TokenAccount ----------------------------
(***************************************************************************)
(* What token metering promises a customer: an operation is debited at     *)
(* most once, in full and only when the balance covers it; it is refunded  *)
(* at most once and never more than it was debited; nothing else moves the *)
(* balance except a change of the account's terms (time, plan, settings,   *)
(* granted credits).                                                       *)
(***************************************************************************)
EXTENDS Naturals

CONSTANTS Op

VARIABLES
    balance,    \* tokens the account can spend now
    paid,       \* operation -> tokens debited, 0 before
    given,      \* operations refunded
    terms       \* whatever else the balance depends on

accountVars == <<balance, paid, given, terms>>

AccountInit ==
    /\ balance \in Nat
    /\ paid = [op \in Op |-> 0]
    /\ given = {}

Charge(op) ==
    /\ paid[op] = 0
    /\ \E n \in 1..balance :
          /\ paid' = [paid EXCEPT ![op] = n]
          /\ balance' = balance - n
    /\ UNCHANGED <<given, terms>>

Refund(op) ==
    /\ paid[op] > 0
    /\ op \notin given
    /\ given' = given \cup {op}
    /\ balance' \in balance..(balance + paid[op])
    /\ UNCHANGED <<paid, terms>>

Adjust ==
    /\ terms' # terms
    /\ balance' \in Nat
    /\ UNCHANGED <<paid, given>>

AccountNext == Adjust \/ \E op \in Op : Charge(op) \/ Refund(op)

AccountSpec == AccountInit /\ [][AccountNext]_accountVars
=============================================================================
