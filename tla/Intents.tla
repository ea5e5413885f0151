------------------------------ MODULE Intents ------------------------------
(***************************************************************************)
(* Swap intents of the gateway (gateway/internal/intents): prepare,        *)
(* challenge, submit and the reconciler over one table, for the intents of *)
(* one dWallet on one chain of each family.  SwapRouter is the backend     *)
(* that builds and broadcasts the transactions.                            *)
(*                                                                         *)
(* Every statement on the table is a step of its own; submits of several   *)
(* requests and the sweep interleave between them, and what one of them    *)
(* loaded may be out of date when it writes.  Most writes do not look at   *)
(* the status they replace and their errors are dropped.                   *)
(***************************************************************************)
EXTENDS SwapRouter, FiniteSets, TLC

CONSTANTS
    SwapIntent,       \* rows of the table
    FamiliesOf,       \* bound: row -> the families it may be prepared for
    Submitter,        \* submit requests
    SubmitsFor,       \* bound: request -> the rows it may name
    SignatureKinds,   \* the kinds of owner signature the request decoder lets through
    MaxNonce,         \* bound: EVM transactions of the wallet
    MaxIntentFaults   \* bound: failed statements and stopped replicas

ASSUME SubmitsAssumption == \A s \in Submitter : SubmitsFor[s] \subseteq SwapIntent

VARIABLES
    intent,     \* the table
    quoted,     \* prepares between the route and the insert
    aged,       \* 0, 1 (2 minutes) or 2 (10 minutes) since updated_at
    lapsed,     \* intents past expires_at
    sub,        \* submit requests
    listed,     \* rows of the sweep still to resolve, as they were read
    leg,        \* the transactions on their chain
    nonceNext,  \* the wallet's pending nonce
    sent,       \* history: broadcasts per leg
    verdicts,   \* history: settled and failed webhooks per intent
    overtaken,  \* history: intents written over while a submit worked on them
    intentFaults

intentVars == <<intent, quoted, aged, lapsed, sub, listed, leg, nonceNext,
                sent, verdicts, overtaken, intentFaults>>

NoIntent == [status |-> "none"]
FinalStatuses == {"SETTLED", "FAILED", "EXPIRED", "CANCELLED"}
IdleSubmit == [pc |-> "idle"]

IntentInit ==
    /\ intent = [i \in SwapIntent |-> NoIntent]
    /\ quoted = [i \in SwapIntent |-> NoIntent]
    /\ aged = [i \in SwapIntent |-> 0]
    /\ lapsed = {}
    /\ sub = [s \in Submitter |-> IdleSubmit]
    /\ listed = {}
    /\ leg = [i \in SwapIntent |-> [approve |-> "none", swap |-> "none"]]
    /\ nonceNext = 0
    /\ sent = [i \in SwapIntent |-> [approve |-> 0, swap |-> 0]]
    /\ verdicts = [i \in SwapIntent |-> {}]
    /\ overtaken = {}
    /\ intentFaults = 0

IsOpen(i) == intent[i].status \notin FinalStatuses \cup {"none"}

(* Requests past their claim on the intent. *)
Working(i) == {s \in Submitter : sub[s].pc \notin {"idle", "loaded", "done"} /\ sub[s].id = i}

(* One statement on a row: it touches updated_at, or fails, which nobody    *)
(* is told.                                                                 *)
StoreRow(i, row) ==
    \/ /\ intent' = [intent EXCEPT ![i] = row]
       /\ aged' = [aged EXCEPT ![i] = 0]
       /\ UNCHANGED intentFaults
    \/ /\ intentFaults < MaxIntentFaults
       /\ intentFaults' = intentFaults + 1
       /\ UNCHANGED <<intent, aged>>

SetStatus(i, status) == StoreRow(i, [intent[i] EXCEPT !.status = status])
SetError(i) == StoreRow(i, [intent[i] EXCEPT !.status = "FAILED"])
SaveERC20Approve(i, hash) ==
    StoreRow(i, [intent[i] EXCEPT !.status = "APPROVING", !.approveHash = hash])
SaveBroadcast(i, status, hash) ==
    StoreRow(i, [intent[i] EXCEPT !.status = status, !.swapHash = hash])

(* Seeded fault: the update does not look at the status. *)
CASIgnoringStatus(i, from) == TRUE

CASStatus(i, from) == intent[i].status = from

Goto_(s, pc) == sub' = [sub EXCEPT ![s].pc = pc]
Answered(s) == sub' = [sub EXCEPT ![s] = [pc |-> "done", refused |-> FALSE]]

(* A write decided on a status that is no longer there, or under a request  *)
(* that works on the intent.                                                *)
Overtake(i, seen) ==
    overtaken' = IF Working(i) # {} \/ intent[i].status # seen THEN overtaken \cup {i} ELSE overtaken

----------------------------------------------------------------------------
(* Prepare. *)

(* The destination must be one of the dWallet's own addresses. *)
verifyOwnDestination(to) == to = Wallet

(* A balance that cannot be read does not stop the swap. *)
checkNativeBalance(balance) == balance # "short"

(* The row that a route becomes: checked by the adapter, the digest of the  *)
(* signing engine compared with the router's, of the approve leg too.       *)
buildSwap(kind, r) ==
    LET p == pickAdapter(kind, r, nonceNext) IN
    [status |-> "PREPARED", kind |-> kind, approve |-> p.approve, nonce |-> p.nonce,
     envelope |-> SignedEnvelope(r), snap |-> [type |-> p.type, gasPrice |-> p.gasPrice],
     approveHash |-> FALSE, swapHash |-> FALSE]

Prepare(i, kind, r) ==
    /\ pickAdapter(kind, r, nonceNext).ok
    /\ \E to \in {Wallet, "other"} : verifyOwnDestination(to)
    /\ \E balance \in {"read", "short"} : checkNativeBalance(balance)
    /\ kind = "evm" => buildSwap(kind, r).nonce < MaxNonce
    /\ quoted' = [quoted EXCEPT ![i] = buildSwap(kind, r)]
    /\ UNCHANGED <<intent, aged, lapsed, sub, listed, leg, nonceNext, sent, verdicts,
                   overtaken, intentFaults>>

(* Seeded fault: an intent that is being broadcast does not count. *)
InFlightBeforeBroadcast(kind) ==
    \E i \in SwapIntent : intent[i].status \in {"PREPARED", "AUTHORIZING"} /\ intent[i].kind = kind

(* The count under the advisory lock. *)
EvmInFlight(kind) ==
    kind = "evm" /\ \E i \in SwapIntent : IsOpen(i) /\ intent[i].kind = "evm"

InsertPrepared(i) ==
    /\ quoted[i] # NoIntent
    /\ quoted' = [quoted EXCEPT ![i] = NoIntent]
    /\ intent' = IF EvmInFlight(quoted[i].kind) THEN intent ELSE [intent EXCEPT ![i] = quoted[i]]
    /\ UNCHANGED <<aged, lapsed, sub, listed, leg, nonceNext, sent, verdicts, overtaken,
                   intentFaults>>

(* What the challenge asks the owner to sign: one digest per leg, of the    *)
(* swap alone or of the approve and the swap in one bundle.                 *)
computeLegMetadataDigest(row, leg_) == <<leg_, row.kind, row.envelope, row.nonce>>

buildSingleChallengeLeg(row) ==
    [kind |-> "swap", digests |-> {computeLegMetadataDigest(row, "swap")}]

buildBundleChallengeLeg(row) ==
    [kind |-> "bundle", digests |-> {computeLegMetadataDigest(row, "approve"),
                                     computeLegMetadataDigest(row, "swap")}]

Challenge(row) ==
    IF row.approve THEN buildBundleChallengeLeg(row) ELSE buildSingleChallengeLeg(row)

----------------------------------------------------------------------------
(* Submit. *)

(* Exactly one signature, of the kind the intent needs. *)
validateOwnerSignatures(row, kind) == kind = Challenge(row).kind

(* The request is decoded, the row loaded, the signature's kind checked. *)
Submit(s, i, kind) ==
    /\ sub[s] = IdleSubmit
    /\ intent[i] # NoIntent
    /\ sub' = [sub EXCEPT ![s] =
          IF kind \in SignatureKinds /\ validateOwnerSignatures(intent[i], kind)
          THEN [pc |-> "loaded", id |-> i, row |-> intent[i], hash |-> FALSE]
          ELSE [pc |-> "done", refused |-> kind = Challenge(intent[i]).kind]]
    /\ UNCHANGED <<intent, quoted, aged, lapsed, listed, leg, nonceNext, sent, verdicts,
                   overtaken, intentFaults>>

(* A quote past its time is marked expired whatever its row holds by now;   *)
(* otherwise one request claims it.                                         *)
SubmitPrepared(s) ==
    /\ sub[s].pc = "loaded" /\ sub[s].row.status = "PREPARED"
    /\ LET i == sub[s].id IN
       \/ /\ i \in lapsed
          /\ SetStatus(i, "EXPIRED")
          /\ Overtake(i, "PREPARED")
          /\ Answered(s)
       \/ /\ i \notin lapsed
          /\ CASStatus(i, "PREPARED")
          /\ intent' = [intent EXCEPT ![i].status = "AUTHORIZING"]
          /\ aged' = [aged EXCEPT ![i] = 0]
          /\ Goto_(s, IF sub[s].row.approve THEN "approve" ELSE "swap")
          /\ UNCHANGED <<intentFaults, overtaken>>
       \/ /\ i \notin lapsed
          /\ ~CASStatus(i, "PREPARED")
          /\ Answered(s)
          /\ UNCHANGED <<intent, aged, intentFaults, overtaken>>
    /\ UNCHANGED <<quoted, lapsed, listed, leg, nonceNext, sent, verdicts>>

(* Any other status: resume after an approve, or report what is there. *)
SubmitOther(s) ==
    /\ sub[s].pc = "loaded" /\ sub[s].row.status # "PREPARED"
    /\ IF sub[s].row.status = "APPROVING"
       THEN sub' = [sub EXCEPT ![s].pc = "receipt", ![s].hash = sub[s].row.approveHash]
       ELSE Answered(s)
    /\ UNCHANGED <<intent, quoted, aged, lapsed, listed, leg, nonceNext, sent, verdicts,
                   overtaken, intentFaults>>

(* Revalidation, the on-chain approval and the signature, of either leg:    *)
(* any of them may refuse.                                                  *)
AuthorizeRefused(s) ==
    /\ sub[s].pc \in {"approve", "swap"}
    /\ SetError(sub[s].id)
    /\ Answered(s)
    /\ UNCHANGED <<quoted, lapsed, listed, leg, nonceNext, sent, verdicts, overtaken>>

revalidate(row) == DeriveMessage(row.snap) = row.envelope

(* The program approves a leg whose digest is among those the owner signed  *)
(* when he was challenged, the signing engine signs what was approved.      *)
signWithApproval(s, leg_) ==
    computeLegMetadataDigest(intent[sub[s].id], leg_) \in Challenge(sub[s].row).digests

authorizeAndSignWithBundle(s) == signWithApproval(s, "approve")
authorizeAndSignSwap(s) == signWithApproval(s, "swap")

runApprove(s) ==
    /\ sub[s].pc = "approve"
    /\ revalidate(sub[s].row)
    /\ authorizeAndSignWithBundle(s)
    /\ Goto_(s, "sendApprove")
    /\ UNCHANGED <<intent, quoted, aged, lapsed, listed, leg, nonceNext, sent, verdicts,
                   overtaken, intentFaults>>

runSwap(s) ==
    /\ sub[s].pc = "swap"
    /\ revalidate(sub[s].row) \/ sub[s].row.kind # "evm"
    /\ authorizeAndSignSwap(s)
    /\ SetStatus(sub[s].id, "BROADCASTING")
    /\ Goto_(s, "sendSwap")
    /\ UNCHANGED <<quoted, lapsed, listed, leg, nonceNext, sent, verdicts, overtaken>>

(* The finalize call.  Its answer may be lost on the way back, and then     *)
(* neither hash nor outcome is known.                                       *)
broadcastTx(s, which, n, next) ==
    LET i == sub[s].id
        spent == sub[s].row.kind = "evm" /\ n < nonceNext IN
    \E rs \in NodeReplies(spent), answered \in BOOLEAN :
       LET out == IF answered THEN FinalizeSwap(sub[s].row.kind, rs)
                  ELSE [hash |-> FALSE, unknown |-> TRUE] IN
       /\ leg' = [leg EXCEPT ![i][which] = IF Taken(rs) THEN "pending" ELSE @]
       /\ nonceNext' = IF Taken(rs) /\ sub[s].row.kind = "evm" THEN n + 1 ELSE nonceNext
       /\ sent' = [sent EXCEPT ![i][which] = @ + 1]
       /\ sub' = [sub EXCEPT ![s].pc = next, ![s].hash = out.hash,
                             ![s].row.status = IF out.unknown THEN "BROADCAST_UNKNOWN" ELSE "SUBMITTED"]
       /\ UNCHANGED <<intent, quoted, aged, lapsed, listed, verdicts, overtaken, intentFaults>>

SendApprove(s) ==
    sub[s].pc = "sendApprove" /\ broadcastTx(s, "approve", sub[s].row.nonce - 1, "saveApprove")

SaveApprove(s) ==
    /\ sub[s].pc = "saveApprove"
    /\ SaveERC20Approve(sub[s].id, sub[s].hash)
    /\ Goto_(s, "receipt")
    /\ UNCHANGED <<quoted, lapsed, listed, leg, nonceNext, sent, verdicts, overtaken>>

(* Seeded fault: a receipt that is there counts as success. *)
ReceiptFound(i) == leg[i].approve \in {"done", "failed"}

ReceiptSuccess(i) == leg[i].approve = "done"

(* No hash, or no receipt in time. *)
pollApproveReceipt(i, hash) == IF hash /\ leg[i].approve # "pending" THEN {"found", "late"} ELSE {"late"}

(* Without a receipt the client calls again.  A reverted approve ends the   *)
(* intent; a confirmed one lets one request claim the swap.                 *)
continueAfterApprove(s) ==
    /\ sub[s].pc = "receipt"
    /\ LET i == sub[s].id IN
       \/ /\ "late" \in pollApproveReceipt(i, sub[s].hash)
          /\ Answered(s)
          /\ UNCHANGED <<intent, aged, intentFaults>>
       \/ /\ sub[s].hash /\ leg[i].approve = "failed" /\ ~ReceiptSuccess(i)
          /\ SetError(i)
          /\ Answered(s)
       \/ /\ sub[s].hash /\ ReceiptSuccess(i)
          /\ CASStatus(i, "APPROVING")
          /\ intent' = [intent EXCEPT ![i].status = "SIGNING"]
          /\ aged' = [aged EXCEPT ![i] = 0]
          /\ Goto_(s, "swap")
          /\ UNCHANGED intentFaults
    /\ UNCHANGED <<quoted, lapsed, listed, leg, nonceNext, sent, verdicts, overtaken>>

SendSwap(s) == sub[s].pc = "sendSwap" /\ broadcastTx(s, "swap", sub[s].row.nonce, "saveSwap")

SaveSwap(s) ==
    /\ sub[s].pc = "saveSwap"
    /\ SaveBroadcast(sub[s].id, sub[s].row.status, sub[s].hash)
    /\ Answered(s)
    /\ UNCHANGED <<quoted, lapsed, listed, leg, nonceNext, sent, verdicts, overtaken>>

SubmitCrash(s) ==
    /\ sub[s].pc \notin {"idle", "done"}
    /\ intentFaults < MaxIntentFaults
    /\ intentFaults' = intentFaults + 1
    /\ Answered(s)
    /\ UNCHANGED <<intent, quoted, aged, lapsed, listed, leg, nonceNext, sent, verdicts, overtaken>>

SubmitStep(s) ==
    \/ SubmitPrepared(s) \/ SubmitOther(s) \/ AuthorizeRefused(s)
    \/ runApprove(s) \/ SendApprove(s) \/ SaveApprove(s) \/ continueAfterApprove(s)
    \/ runSwap(s) \/ SendSwap(s) \/ SaveSwap(s)

----------------------------------------------------------------------------
(* The reconciler. *)

(* Open rows not touched for two minutes, read once for the whole sweep. *)
ListOpenOlderThan == {i \in SwapIntent : IsOpen(i) /\ aged[i] >= 1}

Sweep ==
    /\ listed = {}
    /\ ListOpenOlderThan # {}
    /\ listed' = {[id |-> i, row |-> intent[i], aged |-> aged[i]] : i \in ListOpenOlderThan}
    /\ UNCHANGED <<intent, quoted, aged, lapsed, sub, leg, nonceNext, sent, verdicts,
                   overtaken, intentFaults>>

Resolved(x) == listed' = listed \ {x}

(* Seeded fault: a stuck broadcast is failed like a stuck authorization. *)
StuckUpToBroadcast == {"AUTHORIZING", "SIGNING", "BROADCASTING"}

StuckBeforeBroadcast == {"AUTHORIZING", "SIGNING"}

ResolvePrepared(x) ==
    /\ x.row.status = "PREPARED"
    /\ \/ x.id \in lapsed /\ SetStatus(x.id, "EXPIRED") /\ Overtake(x.id, x.row.status)
       \/ x.id \notin lapsed /\ UNCHANGED <<intent, aged, intentFaults, overtaken>>
    /\ UNCHANGED verdicts

ResolveStuck(x) ==
    /\ x.row.status \in StuckBeforeBroadcast
    /\ SetError(x.id)
    /\ Overtake(x.id, x.row.status)
    /\ UNCHANGED verdicts

(* The receipt of an approve that was broadcast, or ten minutes. *)
ResolveApproving(x) ==
    /\ x.row.status = "APPROVING"
    /\ IF (x.row.approveHash /\ leg[x.id].approve = "failed") \/ x.aged = 2
       THEN SetError(x.id) /\ Overtake(x.id, x.row.status)
       ELSE UNCHANGED <<intent, aged, intentFaults, overtaken>>
    /\ UNCHANGED verdicts

(* Nobody knows whether it was broadcast: poll from now on. *)
ResolveBroadcasting(x) ==
    /\ x.row.status = "BROADCASTING" /\ "BROADCASTING" \notin StuckBeforeBroadcast
    /\ SaveBroadcast(x.id, "BROADCAST_UNKNOWN", x.row.swapHash)
    /\ Overtake(x.id, x.row.status)
    /\ UNCHANGED verdicts

(* Seeded fault: any receipt counts as a success. *)
SwapMined(i) == leg[i].swap \in {"done", "failed"}

(* The chain's answer about the swap, as the reconciler understands it. *)
SwapConfirmed(i) == leg[i].swap = "done"

(* The webhook is published after the write and may be lost. *)
publish(i, verdict) ==
    verdicts' = [verdicts EXCEPT ![i] = @ \cup {verdict}] \/ UNCHANGED verdicts

(* Without a hash there is nothing to look up. *)
poll(x) ==
    /\ x.row.status \in {"SUBMITTED", "BROADCAST_UNKNOWN"}
    /\ \/ /\ x.row.swapHash /\ SwapConfirmed(x.id)
          /\ SetStatus(x.id, "SETTLED")
          /\ Overtake(x.id, x.row.status)
          /\ publish(x.id, "settled")
       \/ /\ x.row.swapHash /\ leg[x.id].swap = "failed" /\ ~SwapConfirmed(x.id)
          /\ SetError(x.id)
          /\ Overtake(x.id, x.row.status)
          /\ publish(x.id, "failed")
       \/ /\ ~x.row.swapHash \/ leg[x.id].swap \in {"none", "pending"}
          /\ UNCHANGED <<intent, aged, intentFaults, overtaken, verdicts>>

resolve(x) ==
    /\ \/ ResolvePrepared(x) \/ ResolveStuck(x) \/ ResolveApproving(x)
       \/ ResolveBroadcasting(x) \/ poll(x)
    /\ Resolved(x)
    /\ UNCHANGED <<quoted, lapsed, sub, leg, nonceNext, sent>>

Reconcile == \E x \in listed : resolve(x)

(* The leader's replica stops in the middle of a sweep. *)
SweepCrash ==
    /\ listed # {}
    /\ intentFaults < MaxIntentFaults
    /\ intentFaults' = intentFaults + 1
    /\ listed' = {}
    /\ UNCHANGED <<intent, quoted, aged, lapsed, sub, leg, nonceNext, sent, verdicts, overtaken>>

----------------------------------------------------------------------------
(* The chain and the clock. *)
Mine(i, which) ==
    /\ leg[i][which] = "pending"
    /\ \E r \in {"done", "failed"} : leg' = [leg EXCEPT ![i][which] = r]
    /\ UNCHANGED <<intent, quoted, aged, lapsed, sub, listed, nonceNext, sent, verdicts,
                   overtaken, intentFaults>>

Age(i) ==
    /\ IsOpen(i)
    /\ aged[i] < 2
    /\ aged' = [aged EXCEPT ![i] = @ + 1]
    /\ lapsed' = IF intent[i].status = "PREPARED" THEN lapsed \cup {i} ELSE lapsed   \* the quote lives 90 s, the shortest age is 2 minutes
    /\ UNCHANGED <<intent, quoted, sub, listed, leg, nonceNext, sent, verdicts, overtaken,
                   intentFaults>>

Lapse(i) ==
    /\ intent[i] # NoIntent
    /\ i \notin lapsed
    /\ intent[i].status = "PREPARED" \/ \E s \in Submitter : sub[s].pc = "loaded" /\ sub[s].id = i
    /\ lapsed' = lapsed \cup {i}
    /\ UNCHANGED <<intent, quoted, aged, sub, listed, leg, nonceNext, sent, verdicts,
                   overtaken, intentFaults>>

QuoteStep(i) ==
    /\ intent[i] = NoIntent /\ quoted[i] = NoIntent
    /\ \E r \in Routes, kind \in FamiliesOf[i] : Prepare(i, kind, r)

IntentStep ==
    \/ \E i \in SwapIntent : InsertPrepared(i) \/ Age(i) \/ Lapse(i)
    \/ \E i \in SwapIntent, which \in {"approve", "swap"} : Mine(i, which)
    \/ \E s \in Submitter, kind \in {"swap", "approve", "bundle"} :
          \E i \in SubmitsFor[s] : Submit(s, i, kind)
    \/ \E s \in Submitter : SubmitStep(s) \/ SubmitCrash(s)
    \/ Sweep \/ Reconcile \/ SweepCrash

IntentNext == (\E i \in SwapIntent : QuoteStep(i)) \/ IntentStep

(* Requests run to their end, the sweep runs every 30 s, time passes and    *)
(* transactions that a node took are mined.                                 *)
IntentFairness ==
    /\ \A s \in Submitter : WF_intentVars(SubmitStep(s))
    /\ WF_intentVars(Sweep) /\ WF_intentVars(Reconcile)
    /\ \A i \in SwapIntent : /\ WF_intentVars(Age(i))
                             /\ \A which \in {"approve", "swap"} : WF_intentVars(Mine(i, which))

IntentSpec == IntentInit /\ [][IntentNext]_intentVars /\ IntentFairness

----------------------------------------------------------------------------
(* Properties. *)

(* Concurrent and repeated submits, lost statements and a sweep that fails  *)
(* the row in between never send a leg of an intent twice: orchestrator.go  *)
(* claims each leg with a compare-and-swap.                                 *)
SwapSentOnce == \A i \in SwapIntent : sent[i].approve <= 1 /\ sent[i].swap <= 1

(* The swap of a two-step intent is sent only when its approve is confirmed *)
(* on chain, on resumed submits too.                                        *)
ApproveConfirmedFirst ==
    \A i \in SwapIntent : sent[i].swap > 0 /\ sent[i].approve > 0 => leg[i].approve = "done"

(* SETTLED, and the settled webhook, only for a swap that is done on chain; *)
(* no intent is reported both settled and failed.                           *)
SettledIsTrue ==
    \A i \in SwapIntent :
       /\ intent[i].status = "SETTLED" \/ "settled" \in verdicts[i] => leg[i].swap = "done"
       /\ Cardinality(verdicts[i]) <= 1

(* As long as no statement is lost and no writer overtakes a working        *)
(* submit, an intent reported FAILED or EXPIRED has no swap under way.      *)
FailureIsTrue ==
    \A i \in SwapIntent :
       intentFaults = 0 /\ i \notin overtaken /\ intent[i].status \in {"FAILED", "EXPIRED"}
          => leg[i].swap \notin {"pending", "done"}

(* ... and the wallet has one EVM intent open at a time. *)
OneEvmInFlight ==
    overtaken = {} => Cardinality({i \in SwapIntent : IsOpen(i) /\ intent[i].kind = "evm"}) <= 1

(* Revalidation never refuses what prepare stored: the digest is taken over *)
(* the same envelope (EIP-1559 or legacy) on both sides.                    *)
RevalidationAgrees ==
    \A i \in SwapIntent : IsOpen(i) /\ intent[i].kind = "evm" => revalidate(intent[i])

(* Legs go out once, the approve first, and one EVM intent of the wallet at *)
(* a time.                                                                  *)
LegsInOrder == SwapSentOnce /\ ApproveConfirmedFirst /\ OneEvmInFlight

(* Final statuses and webhooks tell what happened on chain. *)
VerdictsTrue == SettledIsTrue /\ FailureIsTrue

(* No intent is where nothing has been broadcast, and none has a swap on    *)
(* record that a node took, unless the sweep has written over it.           *)
IntentsResolved ==
    \A i \in SwapIntent :
       /\ intent[i].status \notin {"PREPARED", "AUTHORIZING", "APPROVING", "SIGNING", "BROADCASTING"}
       /\ intent[i].status \in {"SUBMITTED", "BROADCAST_UNKNOWN"} =>
             ~intent[i].swapHash \/ leg[i].swap = "none" \/ i \in overtaken

=============================================================================
