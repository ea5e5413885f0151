----------------------------- MODULE SwapRouter -----------------------------
(***************************************************************************)
(* The swap builder of the intents backend (intents-backend/internal/swap  *)
(* and chains): what it makes of a route of the aggregator, how it derives *)
(* the bytes to sign, and what it reports of a broadcast.  It keeps no     *)
(* state; Intents drives it.                                               *)
(***************************************************************************)
EXTENDS Naturals, Sequences

CONSTANT Wallet      \* the dWallet's own address, on every family

Families == {"solana", "evm", "sui"}

(* A route as the aggregator answers it: who pays and signs the transaction *)
(* it carries, and for EVM the fee fields it filled in.  "Other" stands for *)
(* any address that is not the dWallet's.                                   *)
Routes == [tx : BOOLEAN, from : {Wallet, "other"}, signers : SUBSET {Wallet, "other"},
           fees : {"eip1559", "legacy", "none"}, allowanceShort : BOOLEAN]

(* EVM: the sender is the dWallet; the envelope follows the fee fields; the *)
(* pending nonce goes to the approve if the allowance is short, and then    *)
(* the swap takes the next one.                                             *)
EvmPrepare(r, pendingNonce) ==
    [ok |-> r.tx /\ r.from = Wallet,
     approve |-> r.allowanceShort,
     nonce |-> IF r.allowanceShort THEN pendingNonce + 1 ELSE pendingNonce,
     type |-> IF r.fees = "legacy" THEN 0 ELSE 2,
     gasPrice |-> r.fees = "legacy"]

(* Solana: the fee payer and every required signer are the dWallet. *)
SolanaPrepare(r) ==
    [ok |-> r.tx /\ r.from = Wallet /\ r.signers = {Wallet},
     approve |-> FALSE, nonce |-> 0, type |-> 0, gasPrice |-> FALSE]

(* Sui: only the declared sender can be compared. *)
SuiPrepare(r) ==
    [ok |-> r.tx /\ r.from = Wallet,
     approve |-> FALSE, nonce |-> 0, type |-> 0, gasPrice |-> FALSE]

pickAdapter(kind, r, pendingNonce) ==
    CASE kind = "evm" -> EvmPrepare(r, pendingNonce)
      [] kind = "solana" -> SolanaPrepare(r)
      [] kind = "sui" -> SuiPrepare(r)

(* The envelope the EVM digest is taken over at prepare time ...            *)
SignedEnvelope(r) == IF r.fees = "legacy" THEN "legacy" ELSE "eip1559"

(* Seeded fault: the type field alone decides, as if snapshots without one  *)
(* were all EIP-1559.                                                       *)
DeriveFromType(snap) == "eip1559"

(* ... and the one DeriveMessage takes it over from the stored snapshot,    *)
(* where type 0 is written as an absent field.                              *)
DeriveMessage(snap) ==
    IF snap.type = 0 /\ snap.gasPrice THEN "legacy" ELSE "eip1559"

----------------------------------------------------------------------------
(* Broadcast.  Each node tried answers "ok", "rejected", "known" (it has    *)
(* the transaction, or its nonce is spent), or the transport fails before   *)
(* ("down") or after ("lost") the node took the transaction.                *)
Transport == {"down", "lost"}

(* What two nodes may answer, one after the other, to a transaction that is *)
(* spent (its nonce is below the node's count) or not; the second is asked  *)
(* only when the first was out of reach.                                    *)
NodeReplies(spent) ==
    IF spent THEN {<<"known", "down">>, <<"down", "known">>, <<"down", "down">>}
    ELSE {<<"ok", "down">>, <<"rejected", "down">>, <<"lost", "known">>, <<"lost", "down">>}
            \cup {<<"down", r>> : r \in {"ok", "rejected", "lost", "down"}}

Taken(rs) == \E n \in 1..2 : rs[n] \in {"ok", "lost"}

(* The first answer that ends the loop over the nodes, "none" if all are    *)
(* passed over.                                                             *)
Decisive(rs, passed) ==
    IF rs[1] \notin passed THEN rs[1] ELSE IF rs[2] \notin passed THEN rs[2] ELSE "none"

(* EVM: "already known" and "nonce too low" count as sent. *)
SendRawTransaction(rs) ==
    CASE Decisive(rs, Transport) \in {"ok", "known"} -> "sent"
      [] Decisive(rs, Transport) = "rejected" -> "error"
      [] OTHER -> "ambiguous"

(* Solana: "already processed" is among the rejections. *)
SolanaBroadcast(rs) ==
    CASE Decisive(rs, Transport) = "ok" -> "sent"
      [] Decisive(rs, Transport) \in {"known", "rejected"} -> "error"
      [] OTHER -> "ambiguous"

(* Sui: "already executed" is ambiguous and the next node is tried. *)
SuiExecute(rs) ==
    CASE Decisive(rs, Transport \cup {"known"}) = "ok" -> "sent"
      [] Decisive(rs, Transport \cup {"known"}) = "rejected" -> "error"
      [] OTHER -> "ambiguous"

(* The hash follows from the signed bytes, so an ambiguous send reports it  *)
(* too; an error carries none.                                              *)
EvmFinalize(rs) ==
    [hash |-> SendRawTransaction(rs) # "error", unknown |-> SendRawTransaction(rs) # "sent"]

SolanaFinalize(rs) ==
    [hash |-> SolanaBroadcast(rs) # "error", unknown |-> SolanaBroadcast(rs) # "sent"]

SuiFinalize(rs) ==
    [hash |-> SuiExecute(rs) # "error", unknown |-> SuiExecute(rs) # "sent"]

FinalizeSwap(kind, rs) ==
    CASE kind = "evm" -> EvmFinalize(rs)
      [] kind = "solana" -> SolanaFinalize(rs)
      [] kind = "sui" -> SuiFinalize(rs)

=============================================================================
