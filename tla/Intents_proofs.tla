--------------------------- MODULE Intents_proofs ---------------------------
(***************************************************************************)
(* Proofs about the swap intents, for every number of intents, submits and *)
(* faults: legs are sent once and in order, final statuses tell what       *)
(* happened on chain.                                                      *)
(***************************************************************************)
EXTENDS Intents, FiniteSetTheorems, TLAPS

----------------------------------------------------------------------------
(* Types. *)

ApprovePcs == {"approve", "sendApprove", "saveApprove"}
SwapPcs == {"swap", "sendSwap", "saveSwap"}

(* The request s works on the intent i; past a claim on one of its legs.    *)
On(s, i) == sub[s].pc \notin {"idle", "done"} /\ sub[s].id = i
Holds(s, i) == sub[s].pc \in ApprovePcs \cup SwapPcs /\ sub[s].id = i

RowOK(r) ==
    \/ r = NoIntent
    \/ /\ DOMAIN r = {"status", "kind", "approve", "nonce", "envelope", "snap", "approveHash",
                      "swapHash"}
       /\ r.status # "none"
       /\ r.kind = "evm" => revalidate(r)

RowsOK ==
    /\ DOMAIN intent = SwapIntent /\ DOMAIN quoted = SwapIntent
    /\ \A i \in SwapIntent :
          /\ RowOK(intent[i]) /\ RowOK(quoted[i])
          /\ quoted[i] # NoIntent => quoted[i].status = "PREPARED" /\ intent[i] = NoIntent

SubOK(x) ==
    \/ x = IdleSubmit
    \/ x = [pc |-> "done", refused |-> TRUE] \/ x = [pc |-> "done", refused |-> FALSE]
    \/ /\ DOMAIN x = {"pc", "id", "row", "hash"}
       /\ x.pc \in {"loaded", "receipt"} \cup ApprovePcs \cup SwapPcs
       /\ x.id \in SwapIntent /\ intent[x.id] # NoIntent
       /\ "status" \in DOMAIN x.row
       /\ x.pc = "saveSwap" => x.row.status \in {"BROADCAST_UNKNOWN", "SUBMITTED"}

SubsOK == DOMAIN sub = Submitter /\ \A s \in Submitter : SubOK(sub[s])

ListedOK == \A x \in listed : x.id \in SwapIntent /\ intent[x.id] # NoIntent

LegStates == {"none", "pending", "done", "failed"}

ChainOK ==
    /\ DOMAIN leg = SwapIntent /\ DOMAIN sent = SwapIntent /\ DOMAIN verdicts = SwapIntent
    /\ \A i \in SwapIntent :
          /\ DOMAIN leg[i] = {"approve", "swap"} /\ DOMAIN sent[i] = {"approve", "swap"}
          /\ leg[i].approve \in LegStates /\ leg[i].swap \in LegStates
          /\ sent[i].approve \in Nat /\ sent[i].swap \in Nat
    /\ intentFaults \in Nat

----------------------------------------------------------------------------
(* What is true of one intent. *)

(* What has been sent, and what became of it. *)
LegsOK(i) ==
    /\ sent[i].approve <= 1 /\ sent[i].swap <= 1
    /\ sent[i].approve = 0 => leg[i].approve = "none"
    /\ sent[i].swap = 0 => leg[i].swap = "none"
    /\ sent[i].swap > 0 /\ sent[i].approve > 0 => leg[i].approve = "done"
    /\ intent[i].status \in {"none", "PREPARED"} => sent[i].approve = 0 /\ sent[i].swap = 0
    /\ intent[i].status = "APPROVING" => sent[i].swap = 0

(* One request at a time holds the claim, and what it has not sent yet      *)
(* nobody has.                                                              *)
HolderOK(i) ==
    \A s \in Submitter : Holds(s, i) =>
        /\ intent[i].status \notin {"none", "PREPARED", "APPROVING"}
        /\ \A t \in Submitter : Holds(t, i) => t = s
        /\ sub[s].pc \in {"approve", "sendApprove"} => sent[i].approve = 0
        /\ sub[s].pc # "saveSwap" => sent[i].swap = 0
        /\ sub[s].pc \in SwapPcs /\ sent[i].approve > 0 => leg[i].approve = "done"

(* The approve leg has been given up, or is where its receipt decides. *)
ApproveOver(i) ==
    /\ intent[i].status \notin {"none", "PREPARED"}
    /\ \A s \in Submitter : ~(sub[s].pc \in ApprovePcs /\ sub[s].id = i)

ReceiptOK(i) ==
    \A s \in Submitter :
        /\ sub[s].pc = "receipt" /\ sub[s].id = i => ApproveOver(i)
        /\ sub[s].pc = "loaded" /\ sub[s].id = i /\ sub[s].row.status = "APPROVING" => ApproveOver(i)

VerdictOK(i) ==
    /\ intent[i].status = "SETTLED" => leg[i].swap = "done"
    /\ "settled" \in verdicts[i] => leg[i].swap = "done"
    /\ "failed" \in verdicts[i] => leg[i].swap = "failed"
    /\ verdicts[i] \subseteq {"settled", "failed"}

(* As long as nobody wrote over its row, the row knows about the claim ...  *)
OpenOK(i) ==
    i \notin overtaken => \A s \in Submitter : Holds(s, i) => IsOpen(i)

(* ... and, as long as no statement was lost, about the swap. *)
StatusOK(i) ==
    i \notin overtaken /\ intentFaults = 0 =>
        /\ intent[i].status \in {"AUTHORIZING", "SIGNING"} => sent[i].swap = 0
        /\ \A s \in Submitter :
              sub[s].pc \in {"sendSwap", "saveSwap"} /\ sub[s].id = i => intent[i].status = "BROADCASTING"
        /\ intent[i].status \in {"FAILED", "EXPIRED"} => leg[i].swap \notin {"pending", "done"}

Good(i) ==
    /\ LegsOK(i) /\ HolderOK(i) /\ ReceiptOK(i) /\ VerdictOK(i) /\ OpenOK(i) /\ StatusOK(i)

TypesOK == RowsOK /\ SubsOK /\ ListedOK /\ ChainOK

IntentsOK == TypesOK /\ \A i \in SwapIntent : Good(i)

LEMMA IntentsInit == IntentInit => IntentsOK
  <1> SUFFICES ASSUME IntentInit PROVE IntentsOK
    OBVIOUS
  <1>1. TypesOK
    BY DEF IntentInit, TypesOK, RowsOK, RowOK, SubsOK, SubOK, ListedOK, ChainOK, LegStates
  <1>2. ASSUME NEW i \in SwapIntent PROVE Good(i)
    <2>1. \A s \in Submitter : sub[s].pc = "idle"
      BY DEF IntentInit, IdleSubmit
    <2>2. /\ intent[i].status = "none" /\ sent[i].approve = 0 /\ sent[i].swap = 0
          /\ leg[i].approve = "none" /\ leg[i].swap = "none" /\ verdicts[i] = {}
      BY DEF IntentInit, NoIntent
    <2> QED
      BY <2>1, <2>2 DEF Good, LegsOK, HolderOK, Holds, ApprovePcs, SwapPcs, ReceiptOK, VerdictOK,
                        OpenOK, StatusOK
  <1> QED
    BY <1>1, <1>2 DEF IntentsOK

(* A step that leaves an intent alone leaves what is true of it. *)
LEMMA IntentLeftAlone ==
    ASSUME NEW i \in SwapIntent, Good(i), intentFaults \in Nat,
           intent'[i] = intent[i], leg'[i] = leg[i], sent'[i] = sent[i], verdicts'[i] = verdicts[i],
           i \in overtaken => i \in overtaken',
           intentFaults' = intentFaults \/ intentFaults' = intentFaults + 1,
           \A s \in Submitter : sub'[s] = sub[s] \/ (~On(s, i) /\ ~On(s, i)')
    PROVE  Good(i)'
  <1>1. intentFaults' = 0 => intentFaults = 0
    OBVIOUS
  <1>2. \A s \in Submitter : (~Holds(s, i)' /\ ~Holds(s, i)) \/ sub'[s] = sub[s]
    BY DEF Holds, On, ApprovePcs, SwapPcs
  <1>3. LegsOK(i)' /\ VerdictOK(i)'
    BY DEF Good, LegsOK, VerdictOK
  <1>4. HolderOK(i)'
    BY <1>2 DEF Good, HolderOK, Holds
  <1>5. ApproveOver(i) => ApproveOver(i)'
    BY DEF ApproveOver, On, ApprovePcs
  <1>6. ReceiptOK(i)'
    BY <1>5 DEF Good, ReceiptOK, On
  <1>7. OpenOK(i)'
    BY <1>2 DEF Good, OpenOK, IsOpen, Holds
  <1>8. StatusOK(i)'
    BY <1>1 DEF Good, StatusOK, On
  <1> QED
    BY <1>3, <1>4, <1>6, <1>7, <1>8 DEF Good

(* A step on the intent i, by requests that work on it or start to, leaves  *)
(* the other intents alone.                                                 *)
StepOn(i) ==
    /\ \A j \in SwapIntent : j # i =>
          /\ intent'[j] = intent[j] /\ leg'[j] = leg[j]
          /\ sent'[j] = sent[j] /\ verdicts'[j] = verdicts[j]
    /\ overtaken' = overtaken \/ overtaken' = overtaken \cup {i}
    /\ intentFaults' = intentFaults \/ intentFaults' = intentFaults + 1
    /\ \A s \in Submitter :
          sub'[s] = sub[s] \/ ((On(s, i) \/ sub[s].pc = "idle") /\ (On(s, i)' \/ sub'[s].pc = "done"))

LEMMA OthersLeftAlone ==
    ASSUME IntentsOK, NEW i \in SwapIntent, StepOn(i), Good(i)'
    PROVE  \A j \in SwapIntent : Good(j)'
  <1> SUFFICES ASSUME NEW j \in SwapIntent, j # i PROVE Good(j)'
    OBVIOUS
  <1>1. \A s \in Submitter : sub'[s] = sub[s] \/ (~On(s, j) /\ ~On(s, j)')
    BY DEF StepOn, On
  <1>2. Good(j) /\ intentFaults \in Nat
    BY DEF IntentsOK, TypesOK, ChainOK
  <1> QED
    BY <1>1, <1>2, IntentLeftAlone DEF StepOn

----------------------------------------------------------------------------
(* One statement on a row. *)

Stores(i, st) ==
    /\ DOMAIN intent' = SwapIntent
    /\ \A j \in SwapIntent : j # i => intent'[j] = intent[j]
    /\ RowOK(intent'[i]) /\ intent'[i] # NoIntent /\ intent'[i].kind = intent[i].kind
    /\ \/ intent'[i].status = st /\ intentFaults' = intentFaults
       \/ intent'[i].status = intent[i].status /\ intentFaults' = intentFaults + 1

LEMMA RowStored ==
    ASSUME RowsOK, NEW i \in SwapIntent, intent[i] # NoIntent, NEW row, DOMAIN row = DOMAIN intent[i],
           row.status # "none", row.kind = intent[i].kind, row.snap = intent[i].snap,
           row.envelope = intent[i].envelope,
           \/ StoreRow(i, row)
           \/ intent' = [intent EXCEPT ![i] = row] /\ UNCHANGED intentFaults
    PROVE  Stores(i, row.status)
  <1>1. RowOK(intent[i]) /\ DOMAIN intent = SwapIntent
    BY DEF RowsOK
  <1>2. RowOK(row) /\ row # NoIntent
    BY <1>1 DEF RowOK, revalidate, NoIntent
  <1> QED
    BY <1>1, <1>2 DEF Stores, StoreRow

LEMMA Statements ==
    ASSUME RowsOK, NEW i \in SwapIntent, intent[i] # NoIntent, NEW st, st # "none"
    PROVE  /\ SetStatus(i, st) => Stores(i, st)
           /\ SetError(i) => Stores(i, "FAILED")
           /\ \A h : SaveERC20Approve(i, h) => Stores(i, "APPROVING")
           /\ \A h : SaveBroadcast(i, st, h) => Stores(i, st)
           /\ intent' = [intent EXCEPT ![i].status = st] /\ UNCHANGED intentFaults => Stores(i, st)
  <1>1. PICK r : r = intent[i]
    OBVIOUS
  <1>2. DOMAIN r = {"status", "kind", "approve", "nonce", "envelope", "snap", "approveHash", "swapHash"}
    BY <1>1 DEF RowsOK, RowOK
  <1>3. ASSUME NEW v, v # "none", NEW row, row = [r EXCEPT !.status = v],
               \/ StoreRow(i, row)
               \/ intent' = [intent EXCEPT ![i] = row] /\ UNCHANGED intentFaults
        PROVE  Stores(i, v)
    <2>1. /\ DOMAIN row = DOMAIN r /\ row.status = v /\ row.kind = r.kind /\ row.snap = r.snap
          /\ row.envelope = r.envelope
      BY <1>2, <1>3
    <2>2. Stores(i, row.status)
      BY <1>1, <1>3, <2>1, RowStored
    <2> QED
      BY <2>1, <2>2
  <1>4. ASSUME NEW h, SaveERC20Approve(i, h) PROVE Stores(i, "APPROVING")
    <2>1. PICK row : row = [r EXCEPT !.status = "APPROVING", !.approveHash = h]
      OBVIOUS
    <2>2. /\ DOMAIN row = DOMAIN r /\ row.status = "APPROVING" /\ row.kind = r.kind
          /\ row.snap = r.snap /\ row.envelope = r.envelope
      BY <1>2, <2>1
    <2>3. StoreRow(i, row)
      BY <1>1, <1>4, <2>1 DEF SaveERC20Approve
    <2> QED
      BY <1>1, <2>2, <2>3, RowStored
  <1>5. ASSUME NEW h, SaveBroadcast(i, st, h) PROVE Stores(i, st)
    <2>1. PICK row : row = [r EXCEPT !.status = st, !.swapHash = h]
      OBVIOUS
    <2>2. /\ DOMAIN row = DOMAIN r /\ row.status = st /\ row.kind = r.kind
          /\ row.snap = r.snap /\ row.envelope = r.envelope
      BY <1>2, <2>1
    <2>3. StoreRow(i, row)
      BY <1>1, <1>5, <2>1 DEF SaveBroadcast
    <2> QED
      BY <1>1, <2>2, <2>3, RowStored
  <1>6. SetStatus(i, st) => Stores(i, st)
    BY <1>1, <1>3 DEF SetStatus
  <1>7. SetError(i) => Stores(i, "FAILED")
    BY <1>1, <1>3 DEF SetError
  <1>8. intent' = [intent EXCEPT ![i].status = st] /\ UNCHANGED intentFaults => Stores(i, st)
    <2>1. PICK row : row = [r EXCEPT !.status = st]
      OBVIOUS
    <2>2. [intent EXCEPT ![i].status = st] = [intent EXCEPT ![i] = row]
      BY <1>1, <2>1
    <2> QED
      BY <1>3, <2>1, <2>2
  <1> QED
    BY <1>4, <1>5, <1>6, <1>7, <1>8

(* Rows are never removed, and steps keep their types. *)
LEMMA TypesKept ==
    ASSUME TypesOK, NEW i \in SwapIntent, intent[i] # NoIntent,
           intent' = intent \/ \E st : Stores(i, st), UNCHANGED quoted, listed' \subseteq listed,
           DOMAIN sub' = Submitter, \A t \in Submitter : sub'[t] = sub[t] \/ SubOK(sub[t])', ChainOK'
    PROVE  TypesOK'
  <1>1. /\ DOMAIN intent' = SwapIntent
        /\ \A j \in SwapIntent : /\ RowOK(intent'[j])
                                 /\ intent[j] # NoIntent => intent'[j] # NoIntent
                                 /\ j # i => intent'[j] = intent[j]
    BY DEF TypesOK, RowsOK, Stores
  <1>2. RowsOK'
    BY <1>1 DEF TypesOK, RowsOK
  <1>3. SubsOK'
    <2> SUFFICES ASSUME NEW t \in Submitter, sub'[t] = sub[t] PROVE SubOK(sub[t])'
      BY DEF SubsOK
    <2>1. PICK x : x = sub[t]
      OBVIOUS
    <2>2. SubOK(x) /\ sub'[t] = x
      BY <2>1 DEF TypesOK, SubsOK
    <2> QED
      BY <1>1, <2>2 DEF SubOK
  <1>4. ListedOK'
    BY <1>1 DEF TypesOK, ListedOK
  <1> QED
    BY <1>2, <1>3, <1>4 DEF TypesOK

LEMMA SubFields ==
    ASSUME TypesOK, NEW s \in Submitter, sub[s].pc \notin {"idle", "done"}
    PROVE  /\ DOMAIN sub[s] = {"pc", "id", "row", "hash"}
           /\ sub[s].pc \in {"loaded", "receipt"} \cup ApprovePcs \cup SwapPcs
           /\ sub[s].id \in SwapIntent /\ intent[sub[s].id] # NoIntent
           /\ "status" \in DOMAIN sub[s].row
           /\ sub[s].pc = "saveSwap" => sub[s].row.status \in {"BROADCAST_UNKNOWN", "SUBMITTED"}
           /\ On(s, sub[s].id)
  <1>1. PICK x : x = sub[s]
    OBVIOUS
  <1>2. SubOK(x) /\ x.pc \notin {"idle", "done"}
    BY <1>1 DEF TypesOK, SubsOK
  <1>3. x # IdleSubmit /\ x # [pc |-> "done", refused |-> TRUE] /\ x # [pc |-> "done", refused |-> FALSE]
    BY <1>2 DEF IdleSubmit
  <1> QED
    BY <1>1, <1>2, <1>3 DEF SubOK, On

(* A request moves on, or answers. *)
LEMMA SubMoves ==
    ASSUME TypesOK, NEW s \in Submitter, sub[s].pc \notin {"idle", "done"}, NEW i, i = sub[s].id,
           NEW pc, pc \in {"receipt"} \cup ApprovePcs \cup (SwapPcs \ {"saveSwap"}), Goto_(s, pc),
           intent'[i] # NoIntent
    PROVE  /\ DOMAIN sub' = Submitter /\ \A t \in Submitter : t # s => sub'[t] = sub[t]
           /\ SubOK(sub[s])' /\ sub'[s].pc = pc /\ sub'[s].id = i /\ On(s, i)'
  <1>1. PICK x, y : x = sub[s] /\ y = [x EXCEPT !.pc = pc]
    OBVIOUS
  <1>2. DOMAIN sub = Submitter
    BY DEF TypesOK, SubsOK
  <1>3. sub'[s] = y /\ DOMAIN sub' = Submitter /\ \A t \in Submitter : t # s => sub'[t] = sub[t]
    BY <1>1, <1>2 DEF Goto_
  <1>4. /\ DOMAIN x = {"pc", "id", "row", "hash"} /\ x.id = i /\ i \in SwapIntent
        /\ "status" \in DOMAIN x.row
    BY <1>1, SubFields
  <1>5. DOMAIN y = DOMAIN x /\ y.pc = pc /\ y.id = i /\ y.row = x.row
    BY <1>1, <1>4
  <1>6. pc # "saveSwap" /\ pc \notin {"idle", "done"}
        /\ pc \in {"loaded", "receipt"} \cup ApprovePcs \cup SwapPcs
    BY DEF ApprovePcs, SwapPcs
  <1> QED
    BY <1>3, <1>4, <1>5, <1>6 DEF SubOK, On

LEMMA SubAnswers ==
    ASSUME TypesOK, NEW s \in Submitter, Answered(s)
    PROVE  /\ DOMAIN sub' = Submitter /\ \A t \in Submitter : t # s => sub'[t] = sub[t]
           /\ SubOK(sub[s])' /\ sub'[s].pc = "done"
  BY DEF TypesOK, SubsOK, Answered, SubOK

----------------------------------------------------------------------------
(* One step on one intent. *)

(* One open EVM intent. *)
OneEvm ==
    overtaken = {} =>
        \A i, j \in SwapIntent :
            IsOpen(i) /\ intent[i].kind = "evm" /\ IsOpen(j) /\ intent[j].kind = "evm" => i = j

(* The step opens no intent, unless something is written over. *)
Reopens(i) ==
    /\ overtaken' = {} /\ IsOpen(i)' => IsOpen(i)
    /\ IsOpen(i)' => intent'[i].kind = intent[i].kind

Done(i) == StepOn(i) /\ TypesOK' /\ Good(i)' /\ Reopens(i)

LEMMA DoneKeeps ==
    ASSUME IntentsOK, OneEvm, NEW i \in SwapIntent, Done(i)
    PROVE  IntentsOK' /\ OneEvm'
  <1>1. \A j \in SwapIntent : Good(j)'
    BY OthersLeftAlone DEF Done
  <1>2. OneEvm'
    <2> SUFFICES ASSUME overtaken' = {} PROVE OneEvm'
      BY DEF OneEvm
    <2>1. overtaken = {}
      BY DEF Done, StepOn
    <2>2. \A j \in SwapIntent : IsOpen(j)' => IsOpen(j) /\ intent'[j].kind = intent[j].kind
      BY DEF Done, StepOn, Reopens, IsOpen
    <2> QED
      BY <2>1, <2>2 DEF OneEvm
  <1> QED
    BY <1>1, <1>2 DEF Done, IntentsOK

(* A write to the row by which no request gets a claim: of a request that   *)
(* answers, or of the sweep.                                                *)
LEMMA GoodAnswered ==
    ASSUME IntentsOK, NEW i \in SwapIntent, leg'[i] = leg[i], sent'[i] = sent[i], VerdictOK(i)',
           i \in overtaken => i \in overtaken',
           intentFaults' = intentFaults \/ intentFaults' = intentFaults + 1,
           \A t \in Submitter : sub'[t] = sub[t] \/ (On(t, i) /\ sub'[t].pc = "done"),
           \/ intent'[i].status = intent[i].status
           \/ /\ intent'[i].status \notin {"none", "PREPARED", "AUTHORIZING", "APPROVING", "SIGNING"}
              /\ i \notin overtaken' =>
                    /\ \A t \in Submitter : ~Holds(t, i)'
                    /\ intentFaults' = 0 /\ intent'[i].status \in {"FAILED", "EXPIRED"}
                          => leg[i].swap \notin {"pending", "done"}
    PROVE  Good(i)'
  <1>1. Good(i) /\ intentFaults \in Nat
    BY DEF IntentsOK, TypesOK, ChainOK
  <1>2. intentFaults' = 0 => intentFaults = 0
    BY <1>1
  <1>3. \A t \in Submitter : sub'[t].pc = "done" \/ sub'[t] = sub[t]
    OBVIOUS
  <1>4. \A t \in Submitter : Holds(t, i)' => Holds(t, i) /\ sub'[t] = sub[t]
    BY <1>3 DEF Holds, ApprovePcs, SwapPcs
  <1>5. LegsOK(i)'
    BY <1>1 DEF Good, LegsOK
  <1>6. HolderOK(i)'
    BY <1>1, <1>4 DEF Good, HolderOK
  <1>7. ApproveOver(i) => ApproveOver(i)'
    BY <1>3 DEF ApproveOver, ApprovePcs
  <1>8. ReceiptOK(i)'
    BY <1>1, <1>3, <1>7 DEF Good, ReceiptOK
  <1>9. OpenOK(i)'
    BY <1>1, <1>4 DEF Good, OpenOK, IsOpen
  <1>10. StatusOK(i)'
    <2>1. CASE intent'[i].status = intent[i].status
      BY <1>1, <1>2, <1>3, <2>1 DEF Good, StatusOK
    <2>2. CASE intent'[i].status # intent[i].status
      BY <1>1, <1>2, <2>2 DEF Good, StatusOK, Holds, SwapPcs
    <2> QED
      BY <2>1, <2>2
  <1> QED
    BY <1>5, <1>6, <1>8, <1>9, <1>10 DEF Good

----------------------------------------------------------------------------
(* Requests that answer. *)

LEMMA RequestAnswers ==
    ASSUME IntentsOK, NEW s \in Submitter, sub[s].pc \notin {"idle", "done"}, NEW i, i = sub[s].id,
           Answered(s), UNCHANGED <<quoted, listed, leg, sent, verdicts>>,
           overtaken' = overtaken \/ overtaken' = overtaken \cup {i},
           intentFaults' = intentFaults \/ intentFaults' = intentFaults + 1,
           intent' = intent \/ \E st : Stores(i, st),
           \/ intent'[i].status = intent[i].status
           \/ /\ intent'[i].status \notin
                    {"none", "PREPARED", "AUTHORIZING", "APPROVING", "SIGNING", "SETTLED"}
              /\ i \notin overtaken' =>
                    /\ \A t \in Submitter : t # s => ~Holds(t, i)
                    /\ intentFaults' = 0 /\ intent'[i].status \in {"FAILED", "EXPIRED"}
                          => leg[i].swap \notin {"pending", "done"}
              /\ intent'[i].status \in FinalStatuses \/ (overtaken = {} => IsOpen(i))
    PROVE  Done(i)
  <1>0. TypesOK /\ Good(i) /\ i \in SwapIntent /\ intent[i] # NoIntent /\ On(s, i)
    BY SubFields DEF IntentsOK
  <1>1. /\ DOMAIN sub' = Submitter /\ \A t \in Submitter : t # s => sub'[t] = sub[t]
        /\ SubOK(sub[s])' /\ sub'[s].pc = "done"
    BY <1>0, SubAnswers
  <1>2. StepOn(i)
    BY <1>0, <1>1 DEF StepOn, Stores
  <1>3. ChainOK'
    BY <1>0 DEF TypesOK, ChainOK
  <1>4. TypesOK'
    <2>1. \A t \in Submitter : sub'[t] = sub[t] \/ SubOK(sub[t])'
      BY <1>1
    <2> QED
      BY <1>0, <1>1, <1>3, <2>1, TypesKept
  <1>5. VerdictOK(i)'
    BY <1>0 DEF Good, VerdictOK
  <1>6. \A t \in Submitter : t # s /\ ~Holds(t, i) => ~Holds(t, i)'
    BY <1>1 DEF Holds
  <1>7. ~Holds(s, i)'
    BY <1>1 DEF Holds, ApprovePcs, SwapPcs
  <1>8. Good(i)'
    <2>1. \A t \in Submitter : sub'[t] = sub[t] \/ (On(t, i) /\ sub'[t].pc = "done")
      BY <1>0, <1>1
    <2>2. i \in overtaken => i \in overtaken'
      OBVIOUS
    <2>3. \/ intent'[i].status = intent[i].status
          \/ /\ intent'[i].status \notin {"none", "PREPARED", "AUTHORIZING", "APPROVING", "SIGNING"}
             /\ i \notin overtaken' =>
                    /\ \A t \in Submitter : ~Holds(t, i)'
                    /\ intentFaults' = 0 /\ intent'[i].status \in {"FAILED", "EXPIRED"}
                          => leg[i].swap \notin {"pending", "done"}
      BY <1>6, <1>7
    <2> QED
      BY <1>0, <1>5, <2>1, <2>2, <2>3, GoodAnswered
  <1>9. Reopens(i)
    <2>1. intent'[i].kind = intent[i].kind
      BY DEF Stores
    <2>2. overtaken' = {} => overtaken = {}
      OBVIOUS
    <2> QED
      BY <2>1, <2>2 DEF Reopens, IsOpen
  <1> QED
    BY <1>2, <1>4, <1>8, <1>9 DEF Done

(* The status that a statement leaves. *)
LEMMA StatusStored ==
    ASSUME NEW i, NEW st, Stores(i, st)
    PROVE  /\ intent'[i].status = st \/ (intent'[i].status = intent[i].status /\ intentFaults' = intentFaults + 1)
           /\ intentFaults' = intentFaults \/ intentFaults' = intentFaults + 1
           /\ \E v : Stores(i, v)
  BY DEF Stores

(* Nobody works on an intent that is not overtaken. *)
LEMMA NotOvertaken ==
    ASSUME NEW i, NEW seen, Overtake(i, seen)
    PROVE  /\ overtaken' = overtaken \/ overtaken' = overtaken \cup {i}
           /\ i \notin overtaken' =>
                 intent[i].status = seen /\ \A t \in Submitter : ~Holds(t, i)
           /\ overtaken' = {} => intent[i].status = seen
  BY DEF Overtake, Working, Holds, ApprovePcs, SwapPcs

LEMMA KeepsSubmitCrash ==
    ASSUME IntentsOK, NEW s \in Submitter, SubmitCrash(s) PROVE Done(sub[s].id)
  BY RequestAnswers DEF SubmitCrash

LEMMA KeepsRefused ==
    ASSUME IntentsOK, NEW s \in Submitter, AuthorizeRefused(s) PROVE Done(sub[s].id)
  <1>1. PICK i : i = sub[s].id
    OBVIOUS
  <1>2. sub[s].pc \in {"approve", "swap"} /\ SetError(i) /\ Answered(s) /\ Holds(s, i)
    BY <1>1 DEF AuthorizeRefused, Holds, ApprovePcs, SwapPcs
  <1>3. TypesOK /\ RowsOK /\ Good(i) /\ i \in SwapIntent /\ intent[i] # NoIntent
    BY <1>1, <1>2, SubFields DEF IntentsOK, TypesOK
  <1>4. Stores(i, "FAILED")
    BY <1>2, <1>3, Statements
  <1>5. (\A t \in Submitter : t # s => ~Holds(t, i)) /\ sent[i].swap = 0 /\ leg[i].swap = "none"
    BY <1>2, <1>3 DEF Good, HolderOK, LegsOK
  <1>6. UNCHANGED <<quoted, listed, leg, sent, verdicts, overtaken>>
    BY DEF AuthorizeRefused
  <1>7. \/ intent'[i].status = intent[i].status \/ intent'[i].status = "FAILED"
    BY <1>4, StatusStored
  <1>8. (\E st : Stores(i, st)) /\ (intentFaults' = intentFaults \/ intentFaults' = intentFaults + 1)
    BY <1>4, StatusStored
  <1> QED
    BY <1>1, <1>2, <1>5, <1>6, <1>7, <1>8, RequestAnswers DEF FinalStatuses

LEMMA KeepsSaveSwap ==
    ASSUME IntentsOK, NEW s \in Submitter, SaveSwap(s) PROVE Done(sub[s].id)
  <1>1. PICK i, st, h : i = sub[s].id /\ st = sub[s].row.status /\ h = sub[s].hash
    OBVIOUS
  <1>2. sub[s].pc = "saveSwap" /\ SaveBroadcast(i, st, h) /\ Answered(s) /\ Holds(s, i)
    BY <1>1 DEF SaveSwap, Holds, SwapPcs
  <1>3. /\ TypesOK /\ RowsOK /\ Good(i) /\ i \in SwapIntent /\ intent[i] # NoIntent
        /\ st \in {"BROADCAST_UNKNOWN", "SUBMITTED"}
    BY <1>1, <1>2, SubFields DEF IntentsOK, TypesOK
  <1>4. Stores(i, st)
    <2>1. st # "none"
      BY <1>3
    <2> QED
      BY <1>2, <1>3, <2>1, Statements
  <1>5. (\A t \in Submitter : t # s => ~Holds(t, i)) /\ (overtaken = {} => IsOpen(i))
    BY <1>2, <1>3 DEF Good, HolderOK, OpenOK
  <1>6. UNCHANGED <<quoted, listed, leg, sent, verdicts, overtaken>>
    BY DEF SaveSwap
  <1>7. \/ intent'[i].status = intent[i].status \/ intent'[i].status \in {"BROADCAST_UNKNOWN", "SUBMITTED"}
    BY <1>3, <1>4, StatusStored
  <1>8. (\E v : Stores(i, v)) /\ (intentFaults' = intentFaults \/ intentFaults' = intentFaults + 1)
    BY <1>4, StatusStored
  <1> QED
    BY <1>1, <1>2, <1>5, <1>6, <1>7, <1>8, RequestAnswers

----------------------------------------------------------------------------
(* Requests that move on. *)

LEMMA RequestMoves ==
    ASSUME IntentsOK, NEW s \in Submitter, sub[s].pc \notin {"idle", "done"}, NEW i, i = sub[s].id,
           NEW pc, pc \in {"receipt"} \cup ApprovePcs \cup (SwapPcs \ {"saveSwap"}), Goto_(s, pc),
           UNCHANGED <<quoted, listed, leg, sent, verdicts, overtaken>>,
           intentFaults' = intentFaults \/ intentFaults' = intentFaults + 1,
           intent' = intent \/ \E st : Stores(i, st)
    PROVE  /\ StepOn(i) /\ TypesOK' /\ i \in SwapIntent /\ Good(i)
           /\ \A t \in Submitter : t # s => sub'[t] = sub[t] /\ (Holds(t, i)' <=> Holds(t, i))
           /\ sub'[s].pc = pc /\ sub'[s].id = i /\ intent'[i].kind = intent[i].kind
           /\ intentFaults \in Nat
  <1>0. TypesOK /\ Good(i) /\ i \in SwapIntent /\ intent[i] # NoIntent /\ On(s, i)
    BY SubFields DEF IntentsOK
  <1>1. intent'[i] # NoIntent /\ intent'[i].kind = intent[i].kind
    BY <1>0 DEF Stores
  <1>2. /\ DOMAIN sub' = Submitter /\ \A t \in Submitter : t # s => sub'[t] = sub[t]
        /\ SubOK(sub[s])' /\ sub'[s].pc = pc /\ sub'[s].id = i /\ On(s, i)'
    BY <1>0, <1>1, SubMoves
  <1>3. ChainOK' /\ intentFaults \in Nat
    BY <1>0 DEF TypesOK, ChainOK
  <1>4. TypesOK'
    <2>1. \A t \in Submitter : sub'[t] = sub[t] \/ SubOK(sub[t])'
      BY <1>2
    <2> QED
      BY <1>0, <1>2, <1>3, <2>1, TypesKept
  <1>5. StepOn(i)
    BY <1>0, <1>2 DEF StepOn, Stores
  <1>6. \A t \in Submitter : t # s => (Holds(t, i)' <=> Holds(t, i))
    BY <1>2 DEF Holds
  <1> QED
    BY <1>0, <1>1, <1>2, <1>3, <1>4, <1>5, <1>6

(* The two claims: of the intent, and of its swap. *)
LEMMA RequestClaims ==
    ASSUME IntentsOK, NEW s \in Submitter, sub[s].pc \in {"loaded", "receipt"}, NEW i, i = sub[s].id,
           NEW pc, Goto_(s, pc), UNCHANGED <<quoted, listed, leg, sent, verdicts, overtaken, intentFaults>>,
           NEW st, intent' = [intent EXCEPT ![i].status = st],
           \/ /\ pc \in {"approve", "swap"} /\ intent[i].status = "PREPARED" /\ st = "AUTHORIZING"
           \/ /\ pc = "swap" /\ intent[i].status = "APPROVING" /\ st = "SIGNING"
              /\ leg[i].approve = "done"
    PROVE  Done(i)
  <1>0. /\ st # "none" /\ sub[s].pc \notin {"idle", "done"}
        /\ pc \in {"receipt"} \cup ApprovePcs \cup (SwapPcs \ {"saveSwap"}) /\ pc \in {"approve", "swap"}
    BY DEF ApprovePcs, SwapPcs
  <1>1. RowsOK /\ i \in SwapIntent /\ intent[i] # NoIntent
    BY <1>0, SubFields DEF IntentsOK, TypesOK
  <1>2. Stores(i, st)
    BY <1>0, <1>1, Statements
  <1>3. intent'[i].status = st
    BY <1>1 DEF RowsOK, RowOK
  <1>4. \E v : Stores(i, v)
    BY <1>2
  <1>5. /\ StepOn(i) /\ TypesOK' /\ Good(i)
        /\ \A t \in Submitter : t # s => sub'[t] = sub[t] /\ (Holds(t, i)' <=> Holds(t, i))
        /\ sub'[s].pc = pc /\ sub'[s].id = i /\ intent'[i].kind = intent[i].kind
    BY <1>0, <1>4, RequestMoves
  <1>6. \A t \in Submitter : ~Holds(t, i)
    BY <1>5 DEF Good, HolderOK
  <1>7. \A t \in Submitter : Holds(t, i)' => t = s
    BY <1>5, <1>6
  <1>8. sent[i].swap = 0 /\ leg[i].swap = "none" /\ (st = "AUTHORIZING" => sent[i].approve = 0)
    BY <1>5 DEF Good, LegsOK
  <1>9. LegsOK(i)' /\ VerdictOK(i)'
    BY <1>3, <1>5, <1>8 DEF Good, LegsOK, VerdictOK
  <1>10. HolderOK(i)'
    BY <1>0, <1>3, <1>5, <1>7, <1>8 DEF HolderOK
  <1>11. ReceiptOK(i)'
    <2>1. CASE st = "AUTHORIZING"
      <3>1. \A t \in Submitter : /\ ~(sub[t].pc = "receipt" /\ sub[t].id = i)
                                 /\ ~(sub[t].pc = "loaded" /\ sub[t].id = i /\ sub[t].row.status = "APPROVING")
        BY <1>5, <2>1 DEF Good, ReceiptOK, ApproveOver
      <3> QED
        BY <1>0, <1>5, <3>1 DEF ReceiptOK
    <2>2. CASE st = "SIGNING"
      <3>1. \A t \in Submitter : ~(sub'[t].pc \in ApprovePcs /\ sub'[t].id = i)
        BY <1>5, <1>6, <2>2 DEF Holds, ApprovePcs
      <3> QED
        BY <1>3, <2>2, <3>1 DEF ReceiptOK, ApproveOver
    <2> QED
      BY <2>1, <2>2
  <1>12. IsOpen(i)' /\ IsOpen(i)
    BY <1>3 DEF IsOpen, FinalStatuses
  <1>13. OpenOK(i)'
    BY <1>12 DEF OpenOK
  <1>14. StatusOK(i)'
    <2>1. \A t \in Submitter : ~(sub'[t].pc \in {"sendSwap", "saveSwap"} /\ sub'[t].id = i)
      BY <1>0, <1>5, <1>6 DEF Holds, SwapPcs
    <2> QED
      BY <1>3, <1>8, <2>1 DEF StatusOK
  <1> QED
    BY <1>5, <1>9, <1>10, <1>11, <1>12, <1>13, <1>14 DEF Done, Good, Reopens

LEMMA KeepsSubmitPrepared ==
    ASSUME IntentsOK, NEW s \in Submitter, SubmitPrepared(s) PROVE Done(sub[s].id)
  <1>1. PICK i : i = sub[s].id
    OBVIOUS
  <1>2. sub[s].pc = "loaded"
    BY DEF SubmitPrepared
  <1>3. /\ RowsOK /\ i \in SwapIntent /\ intent[i] # NoIntent /\ Good(i)
    BY <1>1, <1>2, SubFields DEF IntentsOK, TypesOK
  <1>4. UNCHANGED <<quoted, listed, leg, sent, verdicts>>
    BY DEF SubmitPrepared
  <1>5. CASE SetStatus(i, "EXPIRED") /\ Overtake(i, "PREPARED") /\ Answered(s)
    <2>1. Stores(i, "EXPIRED")
      BY <1>3, <1>5, Statements
    <2>2. /\ overtaken' = overtaken \/ overtaken' = overtaken \cup {i}
          /\ i \notin overtaken' =>
                intent[i].status = "PREPARED" /\ \A t \in Submitter : ~Holds(t, i)
      BY <1>5, NotOvertaken
    <2>3. intent[i].status = "PREPARED" => leg[i].swap = "none"
      BY <1>3 DEF Good, LegsOK
    <2>4. intent'[i].status = intent[i].status \/ intent'[i].status = "EXPIRED"
      BY <2>1, StatusStored
    <2>5. (\E v : Stores(i, v)) /\ (intentFaults' = intentFaults \/ intentFaults' = intentFaults + 1)
      BY <2>1, StatusStored
    <2> QED
      BY <1>1, <1>2, <1>4, <1>5, <2>2, <2>3, <2>4, <2>5, RequestAnswers DEF FinalStatuses
  <1>6. CASE /\ CASStatus(i, "PREPARED") /\ intent' = [intent EXCEPT ![i].status = "AUTHORIZING"]
             /\ Goto_(s, IF sub[s].row.approve THEN "approve" ELSE "swap")
             /\ UNCHANGED <<intentFaults, overtaken>>
    <2>1. PICK pc : pc = (IF sub[s].row.approve THEN "approve" ELSE "swap")
      OBVIOUS
    <2> QED
      BY <1>1, <1>2, <1>4, <1>6, <2>1, RequestClaims DEF CASStatus
  <1>7. CASE Answered(s) /\ UNCHANGED <<intent, aged, intentFaults, overtaken>>
    BY <1>1, <1>2, <1>4, <1>7, RequestAnswers
  <1> QED
    BY <1>1, <1>5, <1>6, <1>7 DEF SubmitPrepared

LEMMA KeepsContinue ==
    ASSUME IntentsOK, NEW s \in Submitter, continueAfterApprove(s) PROVE Done(sub[s].id)
  <1>1. PICK i : i = sub[s].id
    OBVIOUS
  <1>2. sub[s].pc = "receipt"
    BY DEF continueAfterApprove
  <1>3. /\ TypesOK /\ RowsOK /\ i \in SwapIntent /\ intent[i] # NoIntent /\ Good(i)
    BY <1>1, <1>2, SubFields DEF IntentsOK, TypesOK
  <1>4. UNCHANGED <<quoted, listed, leg, sent, verdicts, overtaken>>
    BY DEF continueAfterApprove
  <1>5. CASE Answered(s) /\ UNCHANGED <<intent, aged, intentFaults>>
    BY <1>1, <1>2, <1>4, <1>5, RequestAnswers
  <1>6. CASE leg[i].approve = "failed" /\ SetError(i) /\ Answered(s)
    <2>1. Stores(i, "FAILED")
      BY <1>3, <1>6, Statements
    <2>2. sent[i].approve > 0
      BY <1>3, <1>6 DEF Good, LegsOK, TypesOK, ChainOK
    <2>3. sent[i].swap = 0 /\ leg[i].swap = "none"
      BY <1>3, <1>6, <2>2 DEF Good, LegsOK, TypesOK, ChainOK
    <2>4. \A t \in Submitter : ~Holds(t, i)
      <3>1. \A t \in Submitter : ~(sub[t].pc \in ApprovePcs /\ sub[t].id = i)
        BY <1>1, <1>2, <1>3 DEF Good, ReceiptOK, ApproveOver
      <3>2. \A t \in Submitter : ~(sub[t].pc \in SwapPcs /\ sub[t].id = i)
        BY <1>3, <1>6, <2>2 DEF Good, HolderOK, Holds
      <3> QED
        BY <3>1, <3>2 DEF Holds
    <2>5. intent'[i].status = intent[i].status \/ intent'[i].status = "FAILED"
      BY <2>1, StatusStored
    <2>6. (\E v : Stores(i, v)) /\ (intentFaults' = intentFaults \/ intentFaults' = intentFaults + 1)
      BY <2>1, StatusStored
    <2> QED
      BY <1>1, <1>2, <1>4, <1>6, <2>3, <2>4, <2>5, <2>6, RequestAnswers DEF FinalStatuses
  <1>7. CASE /\ ReceiptSuccess(i) /\ CASStatus(i, "APPROVING") /\ Goto_(s, "swap")
             /\ intent' = [intent EXCEPT ![i].status = "SIGNING"] /\ UNCHANGED intentFaults
    BY <1>1, <1>2, <1>4, <1>7, RequestClaims DEF CASStatus, ReceiptSuccess
  <1> QED
    BY <1>1, <1>5, <1>6, <1>7 DEF continueAfterApprove

----------------------------------------------------------------------------
(* Requests before their claim. *)

Becomes(s, y) == sub' = [sub EXCEPT ![s] = y]

(* A request that works on the intent i. *)
SubLive(y, i) ==
    /\ DOMAIN y = {"pc", "id", "row", "hash"} /\ y.id = i /\ "status" \in DOMAIN y.row
    /\ y.pc \in {"loaded", "receipt"} \cup ApprovePcs \cup SwapPcs
    /\ y.pc = "saveSwap" => y.row.status \in {"BROADCAST_UNKNOWN", "SUBMITTED"}

LEMMA RequestBecomes ==
    ASSUME IntentsOK, NEW s \in Submitter, NEW i \in SwapIntent, intent[i] # NoIntent,
           On(s, i) \/ sub[s].pc = "idle", NEW y, Becomes(s, y), SubLive(y, i),
           UNCHANGED <<intent, quoted, listed, verdicts, overtaken, intentFaults>>, ChainOK',
           \A j \in SwapIntent : j # i => leg'[j] = leg[j] /\ sent'[j] = sent[j]
    PROVE  /\ StepOn(i) /\ TypesOK' /\ Reopens(i) /\ Good(i) /\ sub'[s] = y
           /\ \A t \in Submitter : t # s => sub'[t] = sub[t] /\ (Holds(t, i)' <=> Holds(t, i))
  <1>0. TypesOK /\ Good(i) /\ DOMAIN sub = Submitter
    BY DEF IntentsOK, TypesOK, SubsOK
  <1>1. sub'[s] = y /\ DOMAIN sub' = Submitter /\ \A t \in Submitter : t # s => sub'[t] = sub[t]
    BY <1>0 DEF Becomes
  <1>2. SubOK(sub[s])' /\ On(s, i)'
    BY <1>1 DEF SubLive, SubOK, On, ApprovePcs, SwapPcs
  <1>3. TypesOK'
    <2>1. \A t \in Submitter : sub'[t] = sub[t] \/ SubOK(sub[t])'
      BY <1>1, <1>2
    <2> QED
      BY <1>0, <1>1, <2>1, TypesKept
  <1>4. StepOn(i)
    BY <1>1, <1>2 DEF StepOn
  <1>5. Reopens(i)
    BY DEF Reopens, IsOpen
  <1>6. \A t \in Submitter : t # s => (Holds(t, i)' <=> Holds(t, i))
    BY <1>1 DEF Holds
  <1> QED
    BY <1>0, <1>1, <1>3, <1>4, <1>5, <1>6

(* Without a claim only the receipt matters. *)
LEMMA RequestLooks ==
    ASSUME IntentsOK, NEW s \in Submitter, NEW i \in SwapIntent, intent[i] # NoIntent,
           sub[s].pc \in {"idle", "loaded"}, On(s, i) \/ sub[s].pc = "idle",
           NEW y, Becomes(s, y),
           DOMAIN y = {"pc", "id", "row", "hash"}, y.id = i, "status" \in DOMAIN y.row,
           y.pc \in {"loaded", "receipt"}, y.pc = "receipt" \/ y.row.status = "APPROVING" => ApproveOver(i),
           UNCHANGED <<intent, quoted, listed, leg, sent, verdicts, overtaken, intentFaults>>
    PROVE  Done(i)
  <1>0. ChainOK'
    BY DEF IntentsOK, TypesOK, ChainOK
  <1>1. /\ StepOn(i) /\ TypesOK' /\ Reopens(i) /\ Good(i) /\ sub'[s] = y
        /\ \A t \in Submitter : t # s => sub'[t] = sub[t] /\ (Holds(t, i)' <=> Holds(t, i))
    <2>1. SubLive(y, i) /\ \A j \in SwapIntent : j # i => leg'[j] = leg[j] /\ sent'[j] = sent[j]
      BY DEF SubLive
    <2> QED
      BY <1>0, <2>1, RequestBecomes
  <1>2. ~Holds(s, i) /\ ~Holds(s, i)'
    BY <1>1 DEF Holds, ApprovePcs, SwapPcs
  <1>3. LegsOK(i)' /\ VerdictOK(i)'
    BY <1>1 DEF Good, LegsOK, VerdictOK
  <1>4. HolderOK(i)'
    BY <1>1, <1>2 DEF Good, HolderOK
  <1>5. ApproveOver(i) => ApproveOver(i)'
    BY <1>1 DEF ApproveOver, ApprovePcs
  <1>6. ReceiptOK(i)'
    BY <1>1, <1>5 DEF Good, ReceiptOK
  <1>7. OpenOK(i)'
    BY <1>1, <1>2 DEF Good, OpenOK, IsOpen
  <1>8. StatusOK(i)'
    BY <1>1 DEF Good, StatusOK
  <1> QED
    BY <1>1, <1>3, <1>4, <1>6, <1>7, <1>8 DEF Done, Good

LEMMA KeepsSubmitOther ==
    ASSUME IntentsOK, NEW s \in Submitter, SubmitOther(s) PROVE Done(sub[s].id)
  <1>1. PICK i, x : i = sub[s].id /\ x = sub[s]
    OBVIOUS
  <1>2. x.pc = "loaded" /\ sub[s].pc \notin {"idle", "done"}
    BY <1>1 DEF SubmitOther
  <1>3. /\ TypesOK /\ i \in SwapIntent /\ intent[i] # NoIntent /\ Good(i) /\ On(s, i)
        /\ DOMAIN x = {"pc", "id", "row", "hash"} /\ "status" \in DOMAIN x.row
    BY <1>1, <1>2, SubFields DEF IntentsOK
  <1>4. UNCHANGED <<intent, quoted, listed, leg, sent, verdicts, overtaken, intentFaults>>
    BY DEF SubmitOther
  <1>5. CASE x.row.status = "APPROVING"
    <2>1. PICK h : h = x.row.approveHash
      OBVIOUS
    <2>2. PICK y : y = [x EXCEPT !.pc = "receipt", !.hash = h]
      OBVIOUS
    <2>3. DOMAIN y = DOMAIN x /\ y.pc = "receipt" /\ y.id = x.id /\ y.row = x.row
      BY <1>3, <2>2
    <2>4. sub' = [sub EXCEPT ![s].pc = "receipt", ![s].hash = h]
      BY <1>1, <1>5, <2>1 DEF SubmitOther
    <2>5. Becomes(s, y)
      BY <1>1, <2>2, <2>4 DEF Becomes
    <2>6. ApproveOver(i)
      BY <1>1, <1>2, <1>3, <1>5 DEF Good, ReceiptOK
    <2> QED
      BY <1>1, <1>2, <1>3, <1>4, <2>3, <2>5, <2>6, RequestLooks
  <1>6. CASE x.row.status # "APPROVING"
    <2>1. Answered(s)
      BY <1>1, <1>6 DEF SubmitOther
    <2> QED
      BY <1>1, <1>2, <1>4, <2>1, RequestAnswers
  <1> QED
    BY <1>5, <1>6

LEMMA KeepsSubmit ==
    ASSUME IntentsOK, NEW s \in Submitter, NEW i \in SwapIntent, NEW kind, Submit(s, i, kind)
    PROVE  Done(i)
  <1>1. /\ sub[s] = IdleSubmit /\ sub[s].pc = "idle" /\ intent[i] # NoIntent
        /\ UNCHANGED <<intent, quoted, listed, leg, sent, verdicts, overtaken, intentFaults>>
    BY DEF Submit, IdleSubmit
  <1>2. TypesOK /\ Good(i) /\ DOMAIN sub = Submitter /\ RowOK(intent[i]) /\ intentFaults \in Nat
    BY DEF IntentsOK, TypesOK, SubsOK, RowsOK, ChainOK
  <1>3. CASE kind \in SignatureKinds /\ validateOwnerSignatures(intent[i], kind)
    <2>1. PICK y : y = [pc |-> "loaded", id |-> i, row |-> intent[i], hash |-> FALSE]
      OBVIOUS
    <2>2. Becomes(s, y)
      BY <1>3, <2>1 DEF Submit, Becomes
    <2>3. DOMAIN y = {"pc", "id", "row", "hash"} /\ y.id = i /\ y.pc = "loaded" /\ y.row = intent[i]
      BY <2>1
    <2>4. "status" \in DOMAIN y.row
      BY <1>1, <1>2, <2>3 DEF RowOK
    <2>5. y.row.status = "APPROVING" => ApproveOver(i)
      BY <1>2, <2>3 DEF Good, HolderOK, ApproveOver, Holds
    <2> QED
      BY <1>1, <2>2, <2>3, <2>4, <2>5, RequestLooks
  <1>4. CASE ~(kind \in SignatureKinds /\ validateOwnerSignatures(intent[i], kind))
    <2>1. PICK y : y = [pc |-> "done", refused |-> kind = Challenge(intent[i]).kind]
      OBVIOUS
    <2>2. sub' = [sub EXCEPT ![s] = y]
      BY <1>4, <2>1 DEF Submit
    <2>3. y = [pc |-> "done", refused |-> TRUE] \/ y = [pc |-> "done", refused |-> FALSE]
      <3>1. CASE kind = Challenge(intent[i]).kind
        BY <2>1, <3>1
      <3>2. CASE kind # Challenge(intent[i]).kind
        BY <2>1, <3>2
      <3> QED
        BY <3>1, <3>2
    <2>4. sub'[s] = y /\ y.pc = "done" /\ DOMAIN sub' = Submitter /\ \A t \in Submitter : t # s => sub'[t] = sub[t]
      BY <1>2, <2>2, <2>3
    <2>5. SubOK(sub[s])'
      BY <2>3, <2>4 DEF SubOK
    <2>6. \A t \in Submitter : sub'[t] = sub[t] \/ SubOK(sub[t])'
      BY <2>4, <2>5
    <2>7. ChainOK'
      BY <1>1, <1>2 DEF TypesOK, ChainOK
    <2>8. TypesOK'
      BY <1>1, <1>2, <2>4, <2>6, <2>7, TypesKept
    <2>9. StepOn(i) /\ Reopens(i)
      BY <1>1, <2>4 DEF StepOn, Reopens, IsOpen
    <2>10. Good(i)'
      <3>1. \A t \in Submitter : sub'[t] = sub[t] \/ (~On(t, i) /\ ~On(t, i)')
        BY <1>1, <2>4 DEF On
      <3> QED
        BY <1>1, <1>2, <3>1, IntentLeftAlone
    <2> QED
      BY <2>8, <2>9, <2>10 DEF Done
  <1> QED
    BY <1>3, <1>4

----------------------------------------------------------------------------
(* The request that holds the claim. *)

LEMMA KeepsRunApprove ==
    ASSUME IntentsOK, NEW s \in Submitter, runApprove(s) PROVE Done(sub[s].id)
  <1>1. PICK i : i = sub[s].id
    OBVIOUS
  <1>2. /\ sub[s].pc = "approve" /\ Goto_(s, "sendApprove") /\ Holds(s, i)
        /\ UNCHANGED <<intent, quoted, listed, leg, sent, verdicts, overtaken, intentFaults>>
    BY <1>1 DEF runApprove, Holds, ApprovePcs
  <1>3. "sendApprove" \in {"receipt"} \cup ApprovePcs \cup (SwapPcs \ {"saveSwap"})
    BY DEF ApprovePcs
  <1>4. /\ StepOn(i) /\ TypesOK' /\ i \in SwapIntent /\ Good(i)
        /\ \A t \in Submitter : t # s => sub'[t] = sub[t] /\ (Holds(t, i)' <=> Holds(t, i))
        /\ sub'[s].pc = "sendApprove" /\ sub'[s].id = i
    BY <1>1, <1>2, <1>3, RequestMoves
  <1>5. LegsOK(i)' /\ VerdictOK(i)'
    BY <1>2, <1>4 DEF Good, LegsOK, VerdictOK
  <1>6. \A t \in Submitter : Holds(t, i)' => t = s
    BY <1>2, <1>4 DEF Good, HolderOK
  <1>7. /\ intent[i].status \notin {"none", "PREPARED", "APPROVING"}
        /\ sent[i].approve = 0 /\ sent[i].swap = 0
    BY <1>2, <1>4 DEF Good, HolderOK
  <1>8. HolderOK(i)'
    BY <1>2, <1>4, <1>6, <1>7 DEF HolderOK, SwapPcs
  <1>9. ReceiptOK(i)'
    <2>1. ~ApproveOver(i)
      BY <1>1, <1>2 DEF ApproveOver, ApprovePcs
    <2> QED
      BY <1>4, <2>1 DEF Good, ReceiptOK
  <1>10. OpenOK(i)'
    BY <1>2, <1>4, <1>6 DEF Good, OpenOK, IsOpen
  <1>11. StatusOK(i)'
    BY <1>2, <1>4 DEF Good, StatusOK
  <1>12. Reopens(i)
    BY <1>2 DEF Reopens, IsOpen
  <1> QED
    BY <1>1, <1>4, <1>5, <1>8, <1>9, <1>10, <1>11, <1>12 DEF Done, Good

LEMMA KeepsRunSwap ==
    ASSUME IntentsOK, NEW s \in Submitter, runSwap(s) PROVE Done(sub[s].id)
  <1>1. PICK i : i = sub[s].id
    OBVIOUS
  <1>2. /\ sub[s].pc = "swap" /\ Goto_(s, "sendSwap") /\ Holds(s, i) /\ SetStatus(i, "BROADCASTING")
        /\ UNCHANGED <<quoted, listed, leg, sent, verdicts, overtaken>>
    BY <1>1 DEF runSwap, Holds, SwapPcs
  <1>3. "sendSwap" \in {"receipt"} \cup ApprovePcs \cup (SwapPcs \ {"saveSwap"})
    BY DEF SwapPcs
  <1>4. RowsOK /\ i \in SwapIntent /\ intent[i] # NoIntent
    BY <1>1, <1>2, SubFields DEF IntentsOK, TypesOK
  <1>5. Stores(i, "BROADCASTING")
    BY <1>2, <1>4, Statements
  <1>6. /\ \/ intent'[i].status = "BROADCASTING"
           \/ intent'[i].status = intent[i].status /\ intentFaults' = intentFaults + 1
        /\ intentFaults' = intentFaults \/ intentFaults' = intentFaults + 1
        /\ \E v : Stores(i, v)
    BY <1>5, StatusStored
  <1>7. /\ StepOn(i) /\ TypesOK' /\ Good(i) /\ intentFaults \in Nat
        /\ \A t \in Submitter : t # s => sub'[t] = sub[t] /\ (Holds(t, i)' <=> Holds(t, i))
        /\ sub'[s].pc = "sendSwap" /\ sub'[s].id = i /\ intent'[i].kind = intent[i].kind
    BY <1>1, <1>2, <1>3, <1>6, RequestMoves
  <1>8. /\ intent[i].status \notin {"none", "PREPARED", "APPROVING"} /\ sent[i].swap = 0
        /\ sent[i].approve > 0 => leg[i].approve = "done"
        /\ \A t \in Submitter : Holds(t, i) => t = s
        /\ i \notin overtaken => IsOpen(i)
        /\ leg[i].swap = "none"
    BY <1>2, <1>7 DEF Good, HolderOK, OpenOK, SwapPcs, LegsOK
  <1>9. LegsOK(i)' /\ VerdictOK(i)'
    BY <1>2, <1>6, <1>7, <1>8 DEF Good, LegsOK, VerdictOK
  <1>10. \A t \in Submitter : Holds(t, i)' => t = s
    BY <1>7, <1>8
  <1>11. HolderOK(i)'
    BY <1>2, <1>6, <1>7, <1>8, <1>10 DEF HolderOK
  <1>12. ReceiptOK(i)'
    <2>1. ApproveOver(i) => ApproveOver(i)'
      BY <1>6, <1>7 DEF ApproveOver, ApprovePcs
    <2> QED
      BY <1>7, <2>1 DEF Good, ReceiptOK
  <1>13. i \notin overtaken => IsOpen(i)'
    BY <1>6, <1>8 DEF IsOpen, FinalStatuses
  <1>14. OpenOK(i)'
    BY <1>2, <1>13 DEF OpenOK
  <1>15. StatusOK(i)'
    <2>1. intentFaults' = 0 => intent'[i].status = "BROADCASTING"
      BY <1>6, <1>7
    <2> QED
      BY <2>1 DEF StatusOK
  <1>16. Reopens(i)
    BY <1>2, <1>7, <1>8 DEF Reopens, IsOpen
  <1> QED
    BY <1>1, <1>7, <1>9, <1>11, <1>12, <1>14, <1>15, <1>16 DEF Done, Good

LEMMA KeepsSaveApprove ==
    ASSUME IntentsOK, NEW s \in Submitter, SaveApprove(s) PROVE Done(sub[s].id)
  <1>1. PICK i, h : i = sub[s].id /\ h = sub[s].hash
    OBVIOUS
  <1>2. /\ sub[s].pc = "saveApprove" /\ Goto_(s, "receipt") /\ Holds(s, i) /\ SaveERC20Approve(i, h)
        /\ UNCHANGED <<quoted, listed, leg, sent, verdicts, overtaken>>
    BY <1>1 DEF SaveApprove, Holds, ApprovePcs
  <1>3. "receipt" \in {"receipt"} \cup ApprovePcs \cup (SwapPcs \ {"saveSwap"})
    OBVIOUS
  <1>4. RowsOK /\ i \in SwapIntent /\ intent[i] # NoIntent
    BY <1>1, <1>2, SubFields DEF IntentsOK, TypesOK
  <1>5. Stores(i, "APPROVING")
    <2>1. PICK st : st = "APPROVING"
      OBVIOUS
    <2> QED
      BY <1>2, <1>4, <2>1, Statements
  <1>6. /\ intent'[i].status = "APPROVING" \/ intent'[i].status = intent[i].status
        /\ intentFaults' = intentFaults \/ intentFaults' = intentFaults + 1
        /\ \E v : Stores(i, v)
    BY <1>5, StatusStored
  <1>7. /\ StepOn(i) /\ TypesOK' /\ Good(i) /\ intentFaults \in Nat
        /\ \A t \in Submitter : t # s => sub'[t] = sub[t] /\ (Holds(t, i)' <=> Holds(t, i))
        /\ sub'[s].pc = "receipt" /\ sub'[s].id = i /\ intent'[i].kind = intent[i].kind
    BY <1>1, <1>2, <1>3, <1>6, RequestMoves
  <1>8. /\ intent[i].status \notin {"none", "PREPARED", "APPROVING"} /\ sent[i].swap = 0
        /\ \A t \in Submitter : Holds(t, i) => t = s
        /\ i \notin overtaken => IsOpen(i)
        /\ leg[i].swap = "none"
    BY <1>2, <1>7 DEF Good, HolderOK, OpenOK, LegsOK
  <1>9. \A t \in Submitter : ~Holds(t, i)'
    BY <1>7, <1>8 DEF Holds, ApprovePcs, SwapPcs
  <1>10. LegsOK(i)' /\ VerdictOK(i)'
    BY <1>2, <1>6, <1>7, <1>8 DEF Good, LegsOK, VerdictOK
  <1>11. ApproveOver(i)'
    BY <1>6, <1>8, <1>9 DEF ApproveOver, Holds
  <1>12. ReceiptOK(i)'
    BY <1>11 DEF ReceiptOK
  <1>13. HolderOK(i)' /\ OpenOK(i)'
    BY <1>9 DEF HolderOK, OpenOK
  <1>14. StatusOK(i)'
    <2>1. \A t \in Submitter : ~(sub'[t].pc \in {"sendSwap", "saveSwap"} /\ sub'[t].id = i)
      BY <1>9 DEF Holds, SwapPcs
    <2> QED
      BY <1>2, <1>8, <2>1 DEF StatusOK
  <1>15. Reopens(i)
    BY <1>2, <1>7, <1>8 DEF Reopens, IsOpen
  <1> QED
    BY <1>1, <1>7, <1>10, <1>12, <1>13, <1>14, <1>15 DEF Done, Good

(* A broadcast: the leg is sent once more, and pending if a node took it. *)
LEMMA Broadcasts ==
    ASSUME IntentsOK, NEW s \in Submitter, sub[s].pc \in ApprovePcs \cup SwapPcs, NEW i, i = sub[s].id,
           NEW which \in {"approve", "swap"}, NEW n, NEW next,
           next \in {"saveApprove", "saveSwap"}, broadcastTx(s, which, n, next)
    PROVE  /\ StepOn(i) /\ TypesOK' /\ Reopens(i) /\ Good(i) /\ i \in SwapIntent
           /\ \A t \in Submitter : t # s => sub'[t] = sub[t] /\ (Holds(t, i)' <=> Holds(t, i))
           /\ sub'[s].pc = next /\ sub'[s].id = i
           /\ UNCHANGED <<intent, verdicts, overtaken, intentFaults>>
           /\ leg'[i][which] = "pending" \/ leg'[i][which] = leg[i][which]
           /\ sent'[i][which] = sent[i][which] + 1
           /\ \A w \in {"approve", "swap"} : w # which => leg'[i][w] = leg[i][w] /\ sent'[i][w] = sent[i][w]
           /\ sent[i].approve \in Nat /\ sent[i].swap \in Nat
  <1>0. sub[s].pc \notin {"idle", "done"}
    BY DEF ApprovePcs, SwapPcs
  <1>1. PICK x : x = sub[s]
    OBVIOUS
  <1>2. /\ TypesOK /\ i \in SwapIntent /\ intent[i] # NoIntent /\ Good(i) /\ On(s, i)
        /\ DOMAIN x = {"pc", "id", "row", "hash"} /\ "status" \in DOMAIN x.row /\ x.id = i
    BY <1>0, <1>1, SubFields DEF IntentsOK
  <1>3a. PICK rs, out :
           /\ leg' = [leg EXCEPT ![sub[s].id][which] = IF Taken(rs) THEN "pending" ELSE @]
           /\ sent' = [sent EXCEPT ![sub[s].id][which] = @ + 1]
           /\ sub' = [sub EXCEPT ![s].pc = next, ![s].hash = out.hash,
                                 ![s].row.status = IF out.unknown THEN "BROADCAST_UNKNOWN" ELSE "SUBMITTED"]
           /\ UNCHANGED <<intent, quoted, aged, lapsed, listed, verdicts, overtaken, intentFaults>>
    <2>1. PICK rs \in NodeReplies(sub[s].row.kind = "evm" /\ n < nonceNext), answered \in BOOLEAN :
             LET out == IF answered THEN FinalizeSwap(sub[s].row.kind, rs)
                        ELSE [hash |-> FALSE, unknown |-> TRUE] IN
             /\ leg' = [leg EXCEPT ![sub[s].id][which] = IF Taken(rs) THEN "pending" ELSE @]
             /\ sent' = [sent EXCEPT ![sub[s].id][which] = @ + 1]
             /\ sub' = [sub EXCEPT ![s].pc = next, ![s].hash = out.hash,
                                   ![s].row.status = IF out.unknown THEN "BROADCAST_UNKNOWN" ELSE "SUBMITTED"]
             /\ UNCHANGED <<intent, quoted, aged, lapsed, listed, verdicts, overtaken, intentFaults>>
      BY DEF broadcastTx
    <2>2. PICK out : out = (IF answered THEN FinalizeSwap(sub[s].row.kind, rs)
                            ELSE [hash |-> FALSE, unknown |-> TRUE])
      OBVIOUS
    <2> QED
      BY <2>1, <2>2
  <1>3b. PICK h, u, p : h = out.hash /\ u = out.unknown
                        /\ p = (IF Taken(rs) THEN "pending" ELSE leg[i][which])
    OBVIOUS
  <1>3. /\ leg' = [leg EXCEPT ![i][which] = p] /\ (p = "pending" \/ p = leg[i][which])
        /\ sent' = [sent EXCEPT ![i][which] = sent[i][which] + 1]
        /\ sub' = [sub EXCEPT ![s].pc = next, ![s].hash = h,
                              ![s].row.status = IF u THEN "BROADCAST_UNKNOWN" ELSE "SUBMITTED"]
        /\ UNCHANGED <<intent, quoted, listed, verdicts, overtaken, intentFaults>>
    BY <1>3a, <1>3b
  <1>4. PICK v : v = (IF u THEN "BROADCAST_UNKNOWN" ELSE "SUBMITTED")
    OBVIOUS
  <1>5. PICK r : r = [x.row EXCEPT !.status = v]
    OBVIOUS
  <1>6. PICK y : y = [x EXCEPT !.pc = next, !.hash = h, !.row = r]
    OBVIOUS
  <1>7. DOMAIN r = DOMAIN x.row /\ r.status = v /\ v \in {"BROADCAST_UNKNOWN", "SUBMITTED"}
    BY <1>2, <1>4, <1>5
  <1>8. DOMAIN y = DOMAIN x /\ y.pc = next /\ y.row = r /\ y.id = i
    BY <1>2, <1>6
  <1>9. SubLive(y, i)
    BY <1>2, <1>7, <1>8 DEF SubLive, ApprovePcs, SwapPcs
  <1>10. Becomes(s, y)
    <2>1. DOMAIN sub = Submitter
      BY <1>2 DEF TypesOK, SubsOK
    <2>2. sub' = [sub EXCEPT ![s].pc = next, ![s].hash = h, ![s].row.status = v]
      BY <1>3, <1>4
    <2>3. sub'[s] = y
      BY <1>1, <1>2, <1>5, <1>6, <2>1, <2>2
    <2> QED
      BY <1>3, <2>1, <2>3 DEF Becomes
  <1>11a. /\ DOMAIN leg = SwapIntent /\ DOMAIN sent = SwapIntent
          /\ DOMAIN leg[i] = {"approve", "swap"} /\ DOMAIN sent[i] = {"approve", "swap"}
          /\ sent[i].approve \in Nat /\ sent[i].swap \in Nat
    BY <1>2 DEF TypesOK, ChainOK
  <1>11b. /\ leg'[i] = [leg[i] EXCEPT ![which] = p]
          /\ sent'[i] = [sent[i] EXCEPT ![which] = sent[i][which] + 1]
    BY <1>2, <1>3, <1>11a
  <1>11. /\ DOMAIN leg' = DOMAIN leg /\ DOMAIN sent' = DOMAIN sent
         /\ \A j \in SwapIntent : j # i => leg'[j] = leg[j] /\ sent'[j] = sent[j]
         /\ DOMAIN leg'[i] = DOMAIN leg[i] /\ DOMAIN sent'[i] = DOMAIN sent[i]
         /\ leg'[i][which] = "pending" \/ leg'[i][which] = leg[i][which]
         /\ sent'[i][which] = sent[i][which] + 1
         /\ \A w \in {"approve", "swap"} : w # which => leg'[i][w] = leg[i][w] /\ sent'[i][w] = sent[i][w]
         /\ sent[i].approve \in Nat /\ sent[i].swap \in Nat
    BY <1>3, <1>11a, <1>11b
  <1>12. ChainOK'
    <2>1. /\ DOMAIN leg = SwapIntent /\ DOMAIN sent = SwapIntent
          /\ DOMAIN verdicts' = SwapIntent /\ intentFaults' \in Nat
      BY <1>2, <1>3 DEF TypesOK, ChainOK
    <2>2. \A j \in SwapIntent :
             /\ DOMAIN leg[j] = {"approve", "swap"} /\ DOMAIN sent[j] = {"approve", "swap"}
             /\ leg[j].approve \in LegStates /\ leg[j].swap \in LegStates
             /\ sent[j].approve \in Nat /\ sent[j].swap \in Nat
      BY <1>2 DEF TypesOK, ChainOK
    <2>3. "pending" \in LegStates
      BY DEF LegStates
    <2>4. \A w \in {"approve", "swap"} : leg'[i][w] \in LegStates /\ sent'[i][w] \in Nat
      <3>1. \A w \in {"approve", "swap"} : leg[i][w] \in LegStates /\ sent[i][w] \in Nat
        BY <1>2, <2>2
      <3> HIDE DEF LegStates
      <3> QED
        BY <1>11, <2>3, <3>1
    <2>5. ASSUME NEW j \in SwapIntent
          PROVE  /\ DOMAIN leg'[j] = {"approve", "swap"} /\ DOMAIN sent'[j] = {"approve", "swap"}
                 /\ leg'[j].approve \in LegStates /\ leg'[j].swap \in LegStates
                 /\ sent'[j].approve \in Nat /\ sent'[j].swap \in Nat
      BY <1>11, <2>2, <2>4
    <2> QED
      BY <1>11, <2>1, <2>5 DEF ChainOK
  <1>13. /\ StepOn(i) /\ TypesOK' /\ Reopens(i) /\ sub'[s] = y
         /\ \A t \in Submitter : t # s => sub'[t] = sub[t] /\ (Holds(t, i)' <=> Holds(t, i))
    <2>1. /\ UNCHANGED <<intent, quoted, listed, verdicts, overtaken, intentFaults>>
          /\ \A j \in SwapIntent : j # i => leg'[j] = leg[j] /\ sent'[j] = sent[j]
      BY <1>3, <1>11
    <2> QED
      BY <1>2, <1>9, <1>10, <1>12, <2>1, RequestBecomes
  <1> QED
    BY <1>2, <1>3, <1>8, <1>11, <1>13

LEMMA KeepsSendApprove ==
    ASSUME IntentsOK, NEW s \in Submitter, SendApprove(s) PROVE Done(sub[s].id)
  <1>1. PICK i, n : i = sub[s].id /\ n = sub[s].row.nonce - 1
    OBVIOUS
  <1>2. sub[s].pc = "sendApprove" /\ Holds(s, i) /\ broadcastTx(s, "approve", n, "saveApprove")
    BY <1>1 DEF SendApprove, Holds, ApprovePcs
  <1>3. /\ StepOn(i) /\ TypesOK' /\ Reopens(i) /\ Good(i) /\ i \in SwapIntent
        /\ \A t \in Submitter : t # s => sub'[t] = sub[t] /\ (Holds(t, i)' <=> Holds(t, i))
        /\ sub'[s].pc = "saveApprove" /\ sub'[s].id = i
        /\ UNCHANGED <<intent, verdicts, overtaken, intentFaults>>
        /\ leg'[i].swap = leg[i].swap /\ sent'[i].swap = sent[i].swap
        /\ sent'[i].approve = sent[i].approve + 1
    BY <1>1, <1>2, Broadcasts DEF ApprovePcs
  <1>4. /\ intent[i].status \notin {"none", "PREPARED", "APPROVING"}
        /\ \A t \in Submitter : Holds(t, i) => t = s
        /\ sent[i].approve = 0 /\ sent[i].swap = 0
    BY <1>2, <1>3 DEF Good, HolderOK
  <1>5. \A t \in Submitter : Holds(t, i)' => t = s
    BY <1>3, <1>4
  <1>6. LegsOK(i)' /\ VerdictOK(i)'
    BY <1>3, <1>4 DEF Good, LegsOK, VerdictOK
  <1>7. HolderOK(i)'
    BY <1>3, <1>4, <1>5 DEF HolderOK, SwapPcs
  <1>8. ReceiptOK(i)'
    <2>1. ~ApproveOver(i)
      BY <1>1, <1>2 DEF ApproveOver, ApprovePcs
    <2> QED
      BY <1>3, <2>1 DEF Good, ReceiptOK
  <1>9. OpenOK(i)'
    BY <1>2, <1>3, <1>5 DEF Good, OpenOK, IsOpen
  <1>10. StatusOK(i)'
    BY <1>3 DEF Good, StatusOK
  <1> QED
    BY <1>1, <1>3, <1>6, <1>7, <1>8, <1>9, <1>10 DEF Done, Good

LEMMA KeepsSendSwap ==
    ASSUME IntentsOK, NEW s \in Submitter, SendSwap(s) PROVE Done(sub[s].id)
  <1>1. PICK i, n : i = sub[s].id /\ n = sub[s].row.nonce
    OBVIOUS
  <1>2. sub[s].pc = "sendSwap" /\ Holds(s, i) /\ broadcastTx(s, "swap", n, "saveSwap")
    BY <1>1 DEF SendSwap, Holds, SwapPcs
  <1>3. /\ StepOn(i) /\ TypesOK' /\ Reopens(i) /\ Good(i) /\ i \in SwapIntent
        /\ \A t \in Submitter : t # s => sub'[t] = sub[t] /\ (Holds(t, i)' <=> Holds(t, i))
        /\ sub'[s].pc = "saveSwap" /\ sub'[s].id = i
        /\ UNCHANGED <<intent, verdicts, overtaken, intentFaults>>
        /\ leg'[i].approve = leg[i].approve /\ sent'[i].approve = sent[i].approve
        /\ sent'[i].swap = sent[i].swap + 1
    BY <1>1, <1>2, Broadcasts DEF SwapPcs
  <1>4. /\ intent[i].status \notin {"none", "PREPARED", "APPROVING"}
        /\ \A t \in Submitter : Holds(t, i) => t = s
        /\ sent[i].swap = 0 /\ leg[i].swap = "none"
        /\ sent[i].approve > 0 => leg[i].approve = "done"
        /\ i \notin overtaken /\ intentFaults = 0 => intent[i].status = "BROADCASTING"
    BY <1>1, <1>2, <1>3 DEF Good, HolderOK, LegsOK, StatusOK, SwapPcs
  <1>5. \A t \in Submitter : Holds(t, i)' => t = s
    BY <1>3, <1>4
  <1>6. LegsOK(i)' /\ VerdictOK(i)'
    BY <1>3, <1>4 DEF Good, LegsOK, VerdictOK
  <1>7. HolderOK(i)'
    BY <1>3, <1>4, <1>5 DEF HolderOK
  <1>8. ReceiptOK(i)'
    <2>1. ApproveOver(i) => ApproveOver(i)'
      BY <1>3 DEF ApproveOver, ApprovePcs
    <2> QED
      BY <1>3, <2>1 DEF Good, ReceiptOK
  <1>9. OpenOK(i)'
    BY <1>2, <1>3, <1>5 DEF Good, OpenOK, IsOpen
  <1>10. StatusOK(i)'
    BY <1>3, <1>4 DEF StatusOK
  <1> QED
    BY <1>1, <1>3, <1>6, <1>7, <1>8, <1>9, <1>10 DEF Done, Good

----------------------------------------------------------------------------
(* The sweep. *)

LEMMA SweepWrites ==
    ASSUME IntentsOK, NEW i \in SwapIntent, intent[i] # NoIntent, UNCHANGED <<quoted, sub, leg, sent>>,
           listed' \subseteq listed, DOMAIN verdicts' = SwapIntent,
           \A j \in SwapIntent : j # i => verdicts'[j] = verdicts[j], VerdictOK(i)',
           overtaken' = overtaken \/ overtaken' = overtaken \cup {i},
           intentFaults' = intentFaults \/ intentFaults' = intentFaults + 1,
           intent' = intent \/ \E st : Stores(i, st),
           \/ intent'[i].status = intent[i].status
           \/ /\ intent'[i].status \notin {"none", "PREPARED", "AUTHORIZING", "APPROVING", "SIGNING"}
              /\ i \notin overtaken' =>
                    /\ \A t \in Submitter : ~Holds(t, i)
                    /\ intentFaults' = 0 /\ intent'[i].status \in {"FAILED", "EXPIRED"}
                          => leg[i].swap \notin {"pending", "done"}
              /\ intent'[i].status \in FinalStatuses \/ (overtaken' = {} => IsOpen(i))
    PROVE  Done(i)
  <1>0. TypesOK /\ DOMAIN sub = Submitter
    BY DEF IntentsOK, TypesOK, SubsOK
  <1>1. StepOn(i)
    BY DEF StepOn, Stores
  <1>2. ChainOK'
    BY <1>0 DEF TypesOK, ChainOK
  <1>3. TypesOK'
    <2>1. DOMAIN sub' = Submitter /\ \A t \in Submitter : sub'[t] = sub[t] \/ SubOK(sub[t])'
      BY <1>0
    <2> QED
      BY <1>0, <1>2, <2>1, TypesKept
  <1>4. \A t \in Submitter : ~Holds(t, i) => ~Holds(t, i)'
    BY DEF Holds
  <1>5. Good(i)'
    <2>1. \A t \in Submitter : sub'[t] = sub[t] \/ (On(t, i) /\ sub'[t].pc = "done")
      OBVIOUS
    <2>2. leg'[i] = leg[i] /\ sent'[i] = sent[i] /\ (i \in overtaken => i \in overtaken')
      OBVIOUS
    <2>3. \/ intent'[i].status = intent[i].status
          \/ /\ intent'[i].status \notin {"none", "PREPARED", "AUTHORIZING", "APPROVING", "SIGNING"}
             /\ i \notin overtaken' =>
                    /\ \A t \in Submitter : ~Holds(t, i)'
                    /\ intentFaults' = 0 /\ intent'[i].status \in {"FAILED", "EXPIRED"}
                          => leg[i].swap \notin {"pending", "done"}
      BY <1>4
    <2> QED
      BY <2>1, <2>2, <2>3, GoodAnswered
  <1>6. Reopens(i)
    <2>1. intent'[i].kind = intent[i].kind
      BY DEF Stores
    <2> QED
      BY <2>1 DEF Reopens, IsOpen
  <1> QED
    BY <1>1, <1>3, <1>5, <1>6 DEF Done

(* Resolving a row that was read with the status seen. *)
LEMMA SweepMarks ==
    ASSUME IntentsOK, NEW i \in SwapIntent, intent[i] # NoIntent, UNCHANGED <<quoted, sub, leg, sent>>,
           listed' \subseteq listed, NEW seen, Overtake(i, seen), NEW st, Stores(i, st),
           DOMAIN verdicts' = SwapIntent,
           \A j \in SwapIntent : j # i => verdicts'[j] = verdicts[j], VerdictOK(i)',
           \/ st = "SETTLED"
           \/ st = "BROADCAST_UNKNOWN" /\ seen = "BROADCASTING"
           \/ /\ st \in {"FAILED", "EXPIRED"}
              /\ intentFaults = 0 /\ i \notin overtaken /\ intent[i].status = seen
                    => leg[i].swap \notin {"pending", "done"}
    PROVE  Done(i)
  <1>1. /\ \/ intent'[i].status = st
           \/ intent'[i].status = intent[i].status /\ intentFaults' = intentFaults + 1
        /\ intentFaults' = intentFaults \/ intentFaults' = intentFaults + 1
        /\ \E v : Stores(i, v)
    BY StatusStored
  <1>2. /\ overtaken' = overtaken \/ overtaken' = overtaken \cup {i}
        /\ i \notin overtaken' => intent[i].status = seen /\ \A t \in Submitter : ~Holds(t, i)
        /\ overtaken' = {} => intent[i].status = seen
    BY NotOvertaken
  <1>3. intentFaults \in Nat
    BY DEF IntentsOK, TypesOK, ChainOK
  <1>4. i \notin overtaken' /\ intentFaults' = 0 /\ st \in {"FAILED", "EXPIRED"}
           => leg[i].swap \notin {"pending", "done"}
    BY <1>1, <1>2, <1>3
  <1>5. st \in FinalStatuses \/ (overtaken' = {} => IsOpen(i))
    BY <1>2 DEF FinalStatuses, IsOpen
  <1>6. st \notin {"none", "PREPARED", "AUTHORIZING", "APPROVING", "SIGNING"}
    OBVIOUS
  <1>7. \/ intent'[i].status = intent[i].status
        \/ /\ intent'[i].status \notin {"none", "PREPARED", "AUTHORIZING", "APPROVING", "SIGNING"}
           /\ i \notin overtaken' =>
                 /\ \A t \in Submitter : ~Holds(t, i)
                 /\ intentFaults' = 0 /\ intent'[i].status \in {"FAILED", "EXPIRED"}
                       => leg[i].swap \notin {"pending", "done"}
           /\ intent'[i].status \in FinalStatuses \/ (overtaken' = {} => IsOpen(i))
    BY <1>1, <1>2, <1>4, <1>5, <1>6
  <1> QED
    BY <1>1, <1>2, <1>7, SweepWrites

LEMMA KeepsResolve ==
    ASSUME IntentsOK, NEW x \in listed, resolve(x) PROVE x.id \in SwapIntent /\ Done(x.id)
  <1>1. PICK i, seen : i = x.id /\ seen = x.row.status
    OBVIOUS
  <1>2. /\ TypesOK /\ RowsOK /\ i \in SwapIntent /\ intent[i] # NoIntent /\ Good(i)
        /\ DOMAIN verdicts = SwapIntent
    BY <1>1 DEF IntentsOK, TypesOK, ListedOK, ChainOK
  <1>3. UNCHANGED <<quoted, sub, leg, sent>> /\ listed' \subseteq listed
    BY DEF resolve, Resolved
  <1>4. ASSUME UNCHANGED verdicts, NEW st, Stores(i, st), st # "SETTLED"
        PROVE  /\ DOMAIN verdicts' = SwapIntent /\ VerdictOK(i)'
               /\ \A j \in SwapIntent : j # i => verdicts'[j] = verdicts[j]
    BY <1>2, <1>3, <1>4, StatusStored DEF Good, VerdictOK
  <1>5. ASSUME UNCHANGED <<intent, aged, intentFaults, overtaken, verdicts>> PROVE Done(i)
    <2>1. /\ VerdictOK(i)' /\ DOMAIN verdicts' = SwapIntent
          /\ \A j \in SwapIntent : j # i => verdicts'[j] = verdicts[j]
      BY <1>2, <1>3, <1>5 DEF Good, VerdictOK
    <2> QED
      BY <1>2, <1>3, <1>5, <2>1, SweepWrites
  <1>6. ASSUME SetStatus(i, "EXPIRED"), Overtake(i, seen), UNCHANGED verdicts, seen = "PREPARED"
        PROVE  Done(i)
    <2>1. Stores(i, "EXPIRED")
      BY <1>2, <1>6, Statements
    <2>2. intent[i].status = seen => leg[i].swap = "none"
      BY <1>2, <1>6 DEF Good, LegsOK
    <2>3. /\ DOMAIN verdicts' = SwapIntent /\ VerdictOK(i)'
          /\ \A j \in SwapIntent : j # i => verdicts'[j] = verdicts[j]
      BY <1>4, <1>6, <2>1
    <2> QED
      BY <1>2, <1>3, <1>6, <2>1, <2>2, <2>3, SweepMarks
  <1>7. ASSUME SetError(i), Overtake(i, seen), UNCHANGED verdicts,
               seen \in {"AUTHORIZING", "SIGNING", "APPROVING"}
        PROVE  Done(i)
    <2>1. Stores(i, "FAILED")
      BY <1>2, <1>7, Statements
    <2>2. intentFaults = 0 /\ i \notin overtaken /\ intent[i].status = seen => leg[i].swap = "none"
      BY <1>2, <1>7 DEF Good, LegsOK, StatusOK
    <2>3. /\ DOMAIN verdicts' = SwapIntent /\ VerdictOK(i)'
          /\ \A j \in SwapIntent : j # i => verdicts'[j] = verdicts[j]
      BY <1>4, <1>7, <2>1
    <2> QED
      BY <1>2, <1>3, <1>7, <2>1, <2>2, <2>3, SweepMarks
  <1>8. ASSUME NEW h, SaveBroadcast(i, "BROADCAST_UNKNOWN", h), Overtake(i, seen), UNCHANGED verdicts,
               seen = "BROADCASTING"
        PROVE  Done(i)
    <2>1. Stores(i, "BROADCAST_UNKNOWN")
      BY <1>2, <1>8, Statements
    <2>2. /\ DOMAIN verdicts' = SwapIntent /\ VerdictOK(i)'
          /\ \A j \in SwapIntent : j # i => verdicts'[j] = verdicts[j]
      BY <1>4, <1>8, <2>1
    <2> QED
      BY <1>2, <1>3, <1>8, <2>1, <2>2, SweepMarks
  <1>9. ASSUME NEW v \in {"settled", "failed"}, publish(i, v),
               leg[i].swap = (IF v = "settled" THEN "done" ELSE "failed"),
               NEW st, Stores(i, st), st = "SETTLED" => v = "settled"
        PROVE  /\ DOMAIN verdicts' = SwapIntent /\ VerdictOK(i)'
               /\ \A j \in SwapIntent : j # i => verdicts'[j] = verdicts[j]
    <2>1. /\ DOMAIN verdicts' = SwapIntent
          /\ \A j \in SwapIntent : j # i => verdicts'[j] = verdicts[j]
          /\ verdicts'[i] = verdicts[i] \cup {v} \/ verdicts'[i] = verdicts[i]
      BY <1>2, <1>9 DEF publish
    <2>2. intent'[i].status = "SETTLED" => leg[i].swap = "done"
      BY <1>2, <1>9, StatusStored DEF Good, VerdictOK
    <2> QED
      BY <1>2, <1>3, <1>9, <2>1, <2>2 DEF Good, VerdictOK
  <1>10. ASSUME SwapConfirmed(i), SetStatus(i, "SETTLED"), Overtake(i, seen), publish(i, "settled")
         PROVE  Done(i)
    <2>1. Stores(i, "SETTLED")
      BY <1>2, <1>10, Statements
    <2>2. /\ DOMAIN verdicts' = SwapIntent /\ VerdictOK(i)'
          /\ \A j \in SwapIntent : j # i => verdicts'[j] = verdicts[j]
      BY <1>9, <1>10, <2>1 DEF SwapConfirmed
    <2> QED
      BY <1>2, <1>3, <1>10, <2>1, <2>2, SweepMarks
  <1>11. ASSUME leg[i].swap = "failed", SetError(i), Overtake(i, seen), publish(i, "failed")
         PROVE  Done(i)
    <2>1. Stores(i, "FAILED")
      BY <1>2, <1>11, Statements
    <2>2. /\ DOMAIN verdicts' = SwapIntent /\ VerdictOK(i)'
          /\ \A j \in SwapIntent : j # i => verdicts'[j] = verdicts[j]
      BY <1>9, <1>11, <2>1
    <2> QED
      BY <1>2, <1>3, <1>11, <2>1, <2>2, SweepMarks
  <1>12. CASE ResolvePrepared(x)
    BY <1>1, <1>2, <1>5, <1>6, <1>12 DEF ResolvePrepared
  <1>13. CASE ResolveStuck(x)
    BY <1>1, <1>2, <1>7, <1>13 DEF ResolveStuck, StuckBeforeBroadcast
  <1>14. CASE ResolveApproving(x)
    BY <1>1, <1>2, <1>5, <1>7, <1>14 DEF ResolveApproving
  <1>15. CASE ResolveBroadcasting(x)
    BY <1>1, <1>2, <1>8, <1>15 DEF ResolveBroadcasting
  <1>16. CASE poll(x)
    BY <1>1, <1>2, <1>5, <1>10, <1>11, <1>16 DEF poll
  <1> QED
    BY <1>1, <1>2, <1>12, <1>13, <1>14, <1>15, <1>16 DEF resolve

----------------------------------------------------------------------------
(* The chain, and steps that touch no intent. *)

LEMMA KeepsMine ==
    ASSUME IntentsOK, NEW i \in SwapIntent, NEW which \in {"approve", "swap"}, Mine(i, which)
    PROVE  Done(i)
  <1>1. TypesOK /\ Good(i)
    BY DEF IntentsOK
  <1>2. /\ leg[i][which] = "pending"
        /\ UNCHANGED <<intent, quoted, sub, listed, sent, verdicts, overtaken, intentFaults>>
    BY DEF Mine
  <1>3. PICK r \in {"done", "failed"} : leg' = [leg EXCEPT ![i][which] = r]
    BY DEF Mine
  <1>4. DOMAIN leg = SwapIntent /\ DOMAIN leg[i] = {"approve", "swap"} /\ sent[i].approve \in Nat /\ sent[i].swap \in Nat
    BY <1>1 DEF TypesOK, ChainOK
  <1>5. leg'[i] = [leg[i] EXCEPT ![which] = r] /\ DOMAIN leg' = SwapIntent
    BY <1>3, <1>4
  <1>6. /\ \A j \in SwapIntent : j # i => leg'[j] = leg[j]
        /\ DOMAIN leg'[i] = DOMAIN leg[i] /\ leg'[i][which] = r
        /\ \A w \in {"approve", "swap"} : w # which => leg'[i][w] = leg[i][w]
    BY <1>3, <1>4, <1>5
  <1>7. StepOn(i) /\ Reopens(i)
    BY <1>2, <1>6 DEF StepOn, Reopens, IsOpen
  <1>8. TypesOK'
    <2>1. ChainOK'
      BY <1>1, <1>2, <1>5, <1>6 DEF TypesOK, ChainOK, LegStates
    <2> QED
      BY <1>1, <1>2, <2>1 DEF TypesOK, RowsOK, SubsOK, SubOK, ListedOK
  <1>9. \A t \in Submitter : Holds(t, i)' <=> Holds(t, i)
    BY <1>2 DEF Holds
  <1>10. LegsOK(i)'
    BY <1>1, <1>2, <1>4, <1>6 DEF Good, LegsOK
  <1>11. HolderOK(i)'
    BY <1>1, <1>2, <1>4, <1>6, <1>9 DEF Good, HolderOK
  <1>12. ReceiptOK(i)'
    BY <1>1, <1>2 DEF Good, ReceiptOK, ApproveOver
  <1>13. VerdictOK(i)'
    BY <1>1, <1>2, <1>6 DEF Good, VerdictOK
  <1>14. OpenOK(i)'
    BY <1>1, <1>2, <1>9 DEF Good, OpenOK, IsOpen
  <1>15. StatusOK(i)'
    BY <1>1, <1>2, <1>6 DEF Good, StatusOK
  <1> QED
    BY <1>7, <1>8, <1>10, <1>11, <1>12, <1>13, <1>14, <1>15 DEF Done, Good

LEMMA QuietStep ==
    ASSUME IntentsOK, OneEvm, UNCHANGED <<intent, sub, leg, sent, verdicts, overtaken>>,
           intentFaults' = intentFaults \/ intentFaults' = intentFaults + 1, RowsOK', ListedOK'
    PROVE  IntentsOK' /\ OneEvm'
  <1>1. TypesOK'
    BY DEF IntentsOK, TypesOK, SubsOK, SubOK, ChainOK
  <1>2. ASSUME NEW i \in SwapIntent PROVE Good(i)'
    <2>1. Good(i) /\ intentFaults \in Nat
      BY DEF IntentsOK, TypesOK, ChainOK
    <2>2. \A s \in Submitter : sub'[s] = sub[s] \/ (~On(s, i) /\ ~On(s, i)')
      OBVIOUS
    <2> QED
      BY <2>1, <2>2, IntentLeftAlone
  <1>3. OneEvm'
    BY DEF OneEvm, IsOpen
  <1> QED
    BY <1>1, <1>2, <1>3 DEF IntentsOK

(* What prepare builds for an EVM route revalidates. *)
LEMMA PreparedRevalidates ==
    ASSUME NEW kind, NEW r, NEW row, row = buildSwap(kind, r)
    PROVE  RowOK(row) /\ row.status = "PREPARED"
  <1>1. /\ row.status = "PREPARED" /\ row.kind = kind
        /\ DOMAIN row = {"status", "kind", "approve", "nonce", "envelope", "snap", "approveHash", "swapHash"}
    BY DEF buildSwap
  <1>2. ASSUME kind = "evm" PROVE revalidate(row)
    <2>1. PICK p : p = pickAdapter(kind, r, nonceNext)
      OBVIOUS
    <2>2. p.type = (IF r.fees = "legacy" THEN 0 ELSE 2) /\ (p.gasPrice <=> r.fees = "legacy")
      BY <1>2, <2>1 DEF pickAdapter, EvmPrepare
    <2>3. row.snap = [type |-> p.type, gasPrice |-> p.gasPrice] /\ row.envelope = SignedEnvelope(r)
      BY <2>1 DEF buildSwap
    <2> QED
      BY <2>2, <2>3 DEF revalidate, DeriveMessage, SignedEnvelope
  <1> QED
    BY <1>1, <1>2 DEF RowOK

LEMMA KeepsQuoteStep ==
    ASSUME IntentsOK, OneEvm, NEW i \in SwapIntent, QuoteStep(i) PROVE IntentsOK' /\ OneEvm'
  <1>1. PICK r \in Routes, kind \in FamiliesOf[i] : Prepare(i, kind, r)
    BY DEF QuoteStep
  <1>2. PICK row : row = buildSwap(kind, r)
    OBVIOUS
  <1>3. RowOK(row) /\ row.status = "PREPARED"
    BY <1>2, PreparedRevalidates
  <1>4. /\ quoted' = [quoted EXCEPT ![i] = row] /\ intent[i] = NoIntent
        /\ UNCHANGED <<intent, sub, leg, sent, verdicts, overtaken, listed, intentFaults>>
    BY <1>1, <1>2 DEF Prepare, QuoteStep
  <1>5. RowsOK
    BY DEF IntentsOK, TypesOK
  <1>6. RowsOK'
    BY <1>3, <1>4, <1>5 DEF RowsOK, RowOK, revalidate
  <1>7. ListedOK'
    BY <1>4 DEF IntentsOK, TypesOK, ListedOK
  <1> QED
    BY <1>4, <1>6, <1>7, QuietStep

LEMMA KeepsSweep ==
    ASSUME IntentsOK, OneEvm,
           \/ \E i \in SwapIntent : Age(i) \/ Lapse(i)
           \/ Sweep \/ SweepCrash
    PROVE  IntentsOK' /\ OneEvm'
  <1>1. /\ UNCHANGED <<intent, sub, leg, sent, verdicts, overtaken, quoted>>
        /\ intentFaults' = intentFaults \/ intentFaults' = intentFaults + 1
    BY DEF Age, Lapse, Sweep, SweepCrash
  <1>2. RowsOK'
    BY <1>1 DEF IntentsOK, TypesOK, RowsOK
  <1>3. ListedOK'
    <2>1. CASE Sweep
      <3>1. \A i \in SwapIntent : IsOpen(i) => intent[i] # NoIntent
        BY DEF IsOpen, NoIntent
      <3>2. \A x \in listed' : x.id \in SwapIntent /\ IsOpen(x.id)
        BY <2>1 DEF Sweep, ListOpenOlderThan
      <3> QED
        BY <1>1, <3>1, <3>2 DEF ListedOK
    <2>2. CASE \E i \in SwapIntent : Age(i) \/ Lapse(i)
      BY <1>1, <2>2 DEF IntentsOK, TypesOK, ListedOK, Age, Lapse
    <2>3. CASE SweepCrash
      BY <2>3 DEF ListedOK, SweepCrash
    <2> QED
      BY <2>1, <2>2, <2>3
  <1> QED
    BY <1>1, <1>2, <1>3, QuietStep

LEMMA KeepsInsert ==
    ASSUME IntentsOK, OneEvm, NEW i \in SwapIntent, InsertPrepared(i) PROVE IntentsOK' /\ OneEvm'
  <1>1. /\ UNCHANGED <<sub, listed, leg, sent, verdicts, overtaken, intentFaults>>
        /\ quoted[i] # NoIntent /\ quoted' = [quoted EXCEPT ![i] = NoIntent]
    BY DEF InsertPrepared
  <1>2. PICK row : row = quoted[i]
    OBVIOUS
  <1>3. /\ RowsOK /\ TypesOK /\ RowOK(row) /\ row # NoIntent /\ row.status = "PREPARED"
        /\ intent[i] = NoIntent /\ DOMAIN intent = SwapIntent /\ DOMAIN quoted = SwapIntent
    BY <1>1, <1>2 DEF IntentsOK, TypesOK, RowsOK
  <1>4. CASE intent' = intent
    <2>1. RowsOK' /\ ListedOK'
      BY <1>1, <1>3, <1>4 DEF RowsOK, RowOK, TypesOK, ListedOK, revalidate
    <2> QED
      BY <1>1, <1>4, <2>1, QuietStep
  <1>5. CASE intent' = [intent EXCEPT ![i] = row] /\ ~EvmInFlight(row.kind)
    <2>1. intent'[i] = row /\ DOMAIN intent' = SwapIntent /\ \A j \in SwapIntent : j # i => intent'[j] = intent[j]
      BY <1>3, <1>5
    <2>2. quoted'[i] = NoIntent /\ DOMAIN quoted' = SwapIntent /\ \A j \in SwapIntent : j # i => quoted'[j] = quoted[j]
      BY <1>1, <1>3
    <2>3. RowsOK'
      BY <1>3, <2>1, <2>2 DEF RowsOK, RowOK, revalidate
    <2>4. \A s \in Submitter : ~On(s, i)
      BY <1>3, SubFields DEF On
    <2>5. \A j \in SwapIntent : intent[j] # NoIntent => intent'[j] # NoIntent
      BY <1>3, <2>1
    <2>6. SubsOK'
      <3> SUFFICES ASSUME NEW t \in Submitter PROVE SubOK(sub[t])'
        BY <1>1, <1>3 DEF TypesOK, SubsOK
      <3>1. PICK x : x = sub[t] /\ x = sub'[t]
        BY <1>1
      <3>2. SubOK(x)
        BY <1>3, <3>1 DEF TypesOK, SubsOK
      <3> QED
        BY <2>5, <3>1, <3>2 DEF SubOK
    <2>7. ListedOK' /\ ChainOK'
      BY <1>1, <1>3, <2>5 DEF TypesOK, ListedOK, ChainOK
    <2>8. TypesOK'
      BY <2>3, <2>6, <2>7 DEF TypesOK
    <2>9. ASSUME NEW j \in SwapIntent PROVE Good(j)'
      <3>1. CASE j = i
        <4>1. \A s \in Submitter : ~(sub'[s].pc \notin {"idle", "done"} /\ sub'[s].id = i)
          BY <1>1, <2>4 DEF On
        <4>2. \A s \in Submitter : ~Holds(s, i)'
          BY <4>1 DEF Holds, ApprovePcs, SwapPcs
        <4>3. Good(i) /\ intent[i].status = "none"
          BY <1>3 DEF IntentsOK, NoIntent
        <4>4. LegsOK(i)' /\ VerdictOK(i)'
          BY <1>1, <1>3, <2>1, <4>3 DEF Good, LegsOK, VerdictOK
        <4>5. HolderOK(i)' /\ OpenOK(i)'
          BY <4>2 DEF HolderOK, OpenOK
        <4>6. ReceiptOK(i)'
          BY <4>1 DEF ReceiptOK
        <4>7. StatusOK(i)'
          BY <1>3, <2>1, <4>1 DEF StatusOK
        <4> QED
          BY <3>1, <4>4, <4>5, <4>6, <4>7 DEF Good
      <3>2. CASE j # i
        <4>1. Good(j) /\ intentFaults \in Nat
          BY DEF IntentsOK, TypesOK, ChainOK
        <4>2. \A s \in Submitter : sub'[s] = sub[s] \/ (~On(s, j) /\ ~On(s, j)')
          BY <1>1
        <4> QED
          BY <1>1, <2>1, <3>2, <4>1, <4>2, IntentLeftAlone
      <3> QED
        BY <3>1, <3>2
    <2>10. OneEvm'
      <3>1. \A j \in SwapIntent : j # i => (IsOpen(j)' <=> IsOpen(j)) /\ intent'[j].kind = intent[j].kind
        BY <2>1 DEF IsOpen
      <3>2. row.kind = "evm" => \A j \in SwapIntent : ~(IsOpen(j) /\ intent[j].kind = "evm")
        BY <1>5 DEF EvmInFlight
      <3> QED
        BY <1>1, <2>1, <3>1, <3>2 DEF OneEvm
    <2> QED
      BY <2>8, <2>9, <2>10 DEF IntentsOK
  <1> QED
    BY <1>2, <1>4, <1>5 DEF InsertPrepared

----------------------------------------------------------------------------
(* The invariant, and what follows from it. *)

LEMMA IntentsStep == IntentsOK /\ OneEvm /\ [IntentNext]_intentVars => IntentsOK' /\ OneEvm'
  <1> SUFFICES ASSUME IntentsOK, OneEvm, [IntentNext]_intentVars PROVE IntentsOK' /\ OneEvm'
    OBVIOUS
  <1>0. ASSUME NEW s \in Submitter, sub[s].pc \notin {"idle", "done"} PROVE sub[s].id \in SwapIntent
    BY <1>0, SubFields DEF IntentsOK
  <1>1. ASSUME NEW s \in Submitter, SubmitStep(s) \/ SubmitCrash(s) PROVE IntentsOK' /\ OneEvm'
    <2>1. sub[s].pc \notin {"idle", "done"}
      BY <1>1 DEF SubmitStep, SubmitCrash, SubmitPrepared, SubmitOther, AuthorizeRefused, runApprove,
                  SendApprove, SaveApprove, continueAfterApprove, runSwap, SendSwap, SaveSwap
    <2>2. Done(sub[s].id)
      BY <1>1, KeepsSubmitPrepared, KeepsSubmitOther, KeepsRefused, KeepsRunApprove, KeepsSendApprove,
         KeepsSaveApprove, KeepsContinue, KeepsRunSwap, KeepsSendSwap, KeepsSaveSwap, KeepsSubmitCrash
         DEF SubmitStep
    <2>3. PICK i \in SwapIntent : i = sub[s].id
      BY <1>0, <2>1
    <2> QED
      BY <2>2, <2>3, DoneKeeps
  <1>2. ASSUME NEW i \in SwapIntent, NEW which \in {"approve", "swap"}, Mine(i, which)
        PROVE  IntentsOK' /\ OneEvm'
    BY <1>2, KeepsMine, DoneKeeps
  <1>3. ASSUME NEW s \in Submitter, NEW kind, NEW i \in SubmitsFor[s], Submit(s, i, kind)
        PROVE  IntentsOK' /\ OneEvm'
    <2>1. i \in SwapIntent
      BY SubmitsAssumption
    <2> QED
      BY <1>3, <2>1, KeepsSubmit, DoneKeeps
  <1>4. ASSUME Reconcile PROVE IntentsOK' /\ OneEvm'
    <2>1. PICK x \in listed : resolve(x)
      BY <1>4 DEF Reconcile
    <2>2. PICK i \in SwapIntent : i = x.id
      BY <2>1, KeepsResolve
    <2>3. Done(i)
      BY <2>1, <2>2, KeepsResolve
    <2> QED
      BY <2>3, DoneKeeps
  <1>5. ASSUME UNCHANGED intentVars PROVE IntentsOK' /\ OneEvm'
    <2>1. /\ UNCHANGED <<intent, sub, leg, sent, verdicts, overtaken>>
          /\ intentFaults' = intentFaults \/ intentFaults' = intentFaults + 1
      BY <1>5 DEF intentVars
    <2>2. RowsOK' /\ ListedOK'
      BY <1>5 DEF intentVars, IntentsOK, TypesOK, RowsOK, ListedOK
    <2> QED
      BY <2>1, <2>2, QuietStep
  <1> QED
    BY <1>1, <1>2, <1>3, <1>4, <1>5, KeepsQuoteStep, KeepsInsert, KeepsSweep DEF IntentNext, IntentStep

LEMMA IntentsHold == IntentSpec => [](IntentsOK /\ OneEvm)
  <1>1. IntentInit => IntentsOK /\ OneEvm
    <2>1. IntentInit => OneEvm
      BY DEF IntentInit, OneEvm, IsOpen, NoIntent
    <2> QED
      BY <2>1, IntentsInit
  <1> QED
    BY <1>1, IntentsStep, PTL DEF IntentSpec

(* Legs of an intent go out once, the approve before the swap, and one EVM  *)
(* intent of the wallet is open at a time: whatever submits, retries,       *)
(* sweeps, lost statements and stopped replicas interleave.                 *)
THEOREM LegsGoOutInOrder == IntentSpec => []LegsInOrder
  <1>1. IntentsOK /\ OneEvm => LegsInOrder
    <2> SUFFICES ASSUME IntentsOK, OneEvm PROVE LegsInOrder
      OBVIOUS
    <2>1. SwapSentOnce /\ ApproveConfirmedFirst
      BY DEF IntentsOK, Good, LegsOK, SwapSentOnce, ApproveConfirmedFirst
    <2>2. OneEvmInFlight
      <3> SUFFICES ASSUME overtaken = {}
                   PROVE  Cardinality({i \in SwapIntent : IsOpen(i) /\ intent[i].kind = "evm"}) <= 1
        BY DEF OneEvmInFlight
      <3>1. PICK S : S = {i \in SwapIntent : IsOpen(i) /\ intent[i].kind = "evm"}
        OBVIOUS
      <3>2. CASE S = {}
        BY <3>1, <3>2, FS_EmptySet
      <3>3. CASE S # {}
        <4>1. PICK i : i \in S
          BY <3>3
        <4>2. S = {i}
          BY <3>1, <4>1 DEF OneEvm
        <4>3. Cardinality(S) = 1
          BY <4>2, FS_Singleton, Zenon
        <4> QED
          BY <3>1, <4>3
      <3> QED
        BY <3>2, <3>3
    <2> QED
      BY <2>1, <2>2 DEF LegsInOrder
  <1> QED
    BY <1>1, IntentsHold, PTL

(* What the table and the webhooks say of an intent's end is what happened  *)
(* on chain.                                                                *)
THEOREM VerdictsAreTrue == IntentSpec => []VerdictsTrue
  <1>1. IntentsOK => VerdictsTrue
    <2> SUFFICES ASSUME IntentsOK PROVE VerdictsTrue
      OBVIOUS
    <2>1. FailureIsTrue
      BY DEF IntentsOK, Good, StatusOK, FailureIsTrue
    <2>2. ASSUME NEW i \in SwapIntent PROVE Cardinality(verdicts[i]) <= 1
      <3>1. PICK S : S = verdicts[i]
        OBVIOUS
      <3>2. S = {} \/ S = {"settled"} \/ S = {"failed"}
        BY <3>1 DEF IntentsOK, Good, VerdictOK
      <3>3. Cardinality(S) = 0 \/ Cardinality(S) = 1
        BY <3>2, FS_EmptySet, FS_Singleton, Zenon
      <3> QED
        BY <3>1, <3>3
    <2>3. SettledIsTrue
      BY <2>2 DEF IntentsOK, Good, VerdictOK, SettledIsTrue
    <2> QED
      BY <2>1, <2>3 DEF VerdictsTrue
  <1> QED
    BY <1>1, IntentsHold, PTL

(* Revalidation before each leg accepts every row that prepare stored: the  *)
(* type and the gas price of the snapshot give back the envelope signed.    *)
THEOREM RevalidationAccepts == IntentSpec => []RevalidationAgrees
  <1>1. IntentsOK => RevalidationAgrees
    BY DEF IntentsOK, TypesOK, RowsOK, RowOK, RevalidationAgrees, IsOpen, NoIntent
  <1> QED
    BY <1>1, IntentsHold, PTL

=============================================================================
