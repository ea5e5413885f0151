--------------------------- MODULE Backend_proofs ---------------------------
(***************************************************************************)
(* Proofs about the backend: money is taken once and overage reported is   *)
(* overage billed, whatever Stripe repeats and whichever requests fail or  *)
(* stop half way; notices and price changes keep what they promise; tokens *)
(* and codes are used up once and the lockout limits guessing.             *)
(***************************************************************************)
EXTENDS Billing, Accounts, Notices, FiniteSetTheorems, SequenceTheorems, TLAPS

----------------------------------------------------------------------------
(* Billing: types. *)

RowStatus == {"active", "trialing", "past_due", "cancelled"}
Plans == Plan \cup {0}

BillRow == [status : RowStatus, plan : Plans, limit : Nat, linked : Checkout \cup {None},
            on : BOOLEAN, item : BOOLEAN, overage : Nat, reported : Nat]

(* The rows, and what Stripe has billed of each. *)
RowsTyped == rows \in Seq(BillRow) /\ billed.total \in Seq(Nat) /\ Len(billed.total) = Len(rows)

Card == [paid : BOOLEAN, minted : Nat, plan : Plans, old : BOOLEAN, redeemed : Nat,
         refunded : BOOLEAN, returned : BOOLEAN]

BillTypes ==
    /\ RowsTyped /\ DOMAIN billed = {"total", "keys"}
    /\ remote \in [Checkout -> [status : {None, "open"} \cup {"active"} \cup StripeStatus, plan : Plans]]
    /\ cards \in [Gift -> Card]
    /\ assigned \in [Checkout -> Nat]
    /\ DOMAIN handler = Handler

(* A step that only adds rows, links none and reports nothing. *)
Grows ==
    /\ RowsTyped' /\ Len(rows) <= Len(rows')
    /\ \A i \in 1..Len(rows) : /\ rows'[i].linked = rows[i].linked
                               /\ rows'[i].reported = rows[i].reported
                               /\ billed'.total[i] >= billed.total[i]
    /\ \A i \in 1..Len(rows') :
          i > Len(rows) => rows'[i].linked = None /\ rows'[i].reported = 0

----------------------------------------------------------------------------
(* Billing: the tables. *)

LEMMA RowChanged ==
    ASSUME rows \in Seq(BillRow), NEW i, NEW r, i \in DOMAIN rows => r \in BillRow,
           rows' = [rows EXCEPT ![i] = r]
    PROVE  /\ rows' \in Seq(BillRow) /\ Len(rows') = Len(rows)
           /\ \A j \in 1..Len(rows) : rows'[j] = IF j = i THEN r ELSE rows[j]
           /\ i \in 1..Len(rows) <=> i \in DOMAIN rows
  <1>1. DOMAIN rows = 1..Len(rows)
    BY LenProperties
  <1>2. CASE i \in DOMAIN rows
    BY <1>1, <1>2, ExceptSeq
  <1>3. CASE i \notin DOMAIN rows
    <2>1. rows' = rows
      BY <1>3
    <2> QED
      BY <1>1, <1>3, <2>1
  <1> QED
    BY <1>2, <1>3

LEMMA RowsMapped ==
    ASSUME NEW r \in Seq(BillRow), NEW f \in [DOMAIN r -> BillRow]
    PROVE  f \in Seq(BillRow) /\ Len(f) = Len(r)
  <1>1. PICK n \in Nat : n = Len(r) /\ DOMAIN r = 1..n
    BY LenProperties
  <1>2. f \in [1..n -> BillRow]
    BY <1>1
  <1>3. \A S : \A m \in Nat : \A g \in [1..m -> S] : g \in Seq(S) /\ Len(g) = m
    OBVIOUS
  <1> QED
    BY <1>1, <1>2, <1>3, Zenon

LEMMA RowEdited ==
    ASSUME RowsTyped, NEW i, NEW r, rows' = [rows EXCEPT ![i] = r], UNCHANGED billed,
           i \in DOMAIN rows => r \in BillRow /\ r.linked = rows[i].linked /\ r.reported = rows[i].reported
    PROVE  Grows
  <1>1. rows \in Seq(BillRow) /\ DOMAIN rows = 1..Len(rows)
    BY LenProperties DEF RowsTyped
  <1>2. /\ rows' \in Seq(BillRow) /\ Len(rows') = Len(rows)
        /\ \A j \in 1..Len(rows) : rows'[j] = IF j = i THEN r ELSE rows[j]
    BY <1>1, RowChanged
  <1>3. Len(rows) \in Nat /\ \A j \in 1..Len(rows) : billed.total[j] \in Nat
    BY <1>1, LenProperties, ElementOfSeq DEF RowsTyped
  <1> QED
    BY <1>1, <1>2, <1>3 DEF Grows, RowsTyped

LEMMA NewRowTyped ==
    ASSUME NEW plan \in Plans PROVE NewRow(plan, plan) \in BillRow /\ plan \in Nat
  BY PlanAssumption DEF NewRow, BillRow, RowStatus, Plans

LEMMA RowAdded ==
    ASSUME RowsTyped, DOMAIN billed = {"total", "keys"}, NEW g \in [DOMAIN rows -> BillRow],
           \A i \in DOMAIN rows : g[i].linked = rows[i].linked /\ g[i].reported = rows[i].reported,
           NEW plan \in Plans, rows' = Append(g, NewRow(plan, plan)),
           billed' = [billed EXCEPT !.total = Append(@, 0)]
    PROVE  Grows /\ DOMAIN billed' = {"total", "keys"} /\ billed'.keys = billed.keys
  <1>1. PICK n \in Nat : n = Len(rows) /\ DOMAIN rows = 1..n
    BY LenProperties DEF RowsTyped
  <1>2. g \in Seq(BillRow) /\ Len(g) = n
    BY <1>1, RowsMapped DEF RowsTyped
  <1>3. PICK r : r = NewRow(plan, plan)
    OBVIOUS
  <1>4. r \in BillRow /\ r.linked = None /\ r.reported = 0
    BY <1>3, NewRowTyped DEF NewRow
  <1>5. /\ rows' \in Seq(BillRow) /\ Len(rows') = n + 1
        /\ \A i \in 1..n : rows'[i] = g[i]
        /\ rows'[n + 1] = r
    BY <1>2, <1>3, <1>4, AppendProperties
  <1>6. PICK t : t = billed.total
    OBVIOUS
  <1>7. t \in Seq(Nat) /\ Len(t) = n /\ \A i \in 1..n : t[i] \in Nat
    BY <1>1, <1>6, ElementOfSeq DEF RowsTyped
  <1>8. billed'.total = Append(t, 0) /\ DOMAIN billed' = {"total", "keys"} /\ billed'.keys = billed.keys
    BY <1>6
  <1>9. PICK u : u = Append(t, 0)
    OBVIOUS
  <1>10. u \in Seq(Nat) /\ Len(u) = n + 1 /\ \A i \in 1..n : u[i] = t[i]
    BY <1>7, <1>9, AppendProperties
  <1>11. RowsTyped'
    BY <1>5, <1>8, <1>9, <1>10 DEF RowsTyped
  <1>12. /\ Len(rows) <= Len(rows')
         /\ \A i \in 1..Len(rows) : /\ rows'[i].linked = rows[i].linked
                                    /\ rows'[i].reported = rows[i].reported
                                    /\ billed'.total[i] >= billed.total[i]
    BY <1>1, <1>5, <1>6, <1>7, <1>8, <1>9, <1>10
  <1>13. \A i \in 1..Len(rows') : i > Len(rows) => i = n + 1
    BY <1>1, <1>5
  <1> QED
    BY <1>4, <1>5, <1>8, <1>11, <1>12, <1>13 DEF Grows

LEMMA RowTyped ==
    ASSUME RowsTyped, NEW i \in DOMAIN rows
    PROVE  /\ rows[i] \in BillRow /\ i \in 1..Len(rows) /\ billed.total[i] \in Nat
           /\ DOMAIN rows = 1..Len(rows) /\ Len(rows) \in Nat
  BY LenProperties, ElementOfSeq DEF RowsTyped

(* Plans, gifts and overage at the rows. *)
LEMMA AssignGrows ==
    ASSUME BillTypes, NEW h \in Handler, onCheckoutCompleted(h), handler[h].e.of \in Checkout
    PROVE  Grows /\ DOMAIN billed' = {"total", "keys"} /\ billed'.keys = billed.keys
  <1>1. PICK plan : plan = remote[handler[h].e.of].plan
    OBVIOUS
  <1>2. plan \in Plans
    BY <1>1 DEF BillTypes
  <1>3. PICK g : g = [i \in DOMAIN rows |-> IF i \in Active(rows) THEN [rows[i] EXCEPT !.status = "cancelled"]
                                            ELSE rows[i]]
    OBVIOUS
  <1>4. ASSUME NEW i \in DOMAIN rows
        PROVE  g[i] \in BillRow /\ g[i].linked = rows[i].linked /\ g[i].reported = rows[i].reported
    <2>1. PICK r : r = rows[i]
      OBVIOUS
    <2>2. r \in BillRow
      BY <2>1, RowTyped DEF BillTypes
    <2>3. g[i] = r \/ g[i] = [r EXCEPT !.status = "cancelled"]
      BY <1>3, <2>1
    <2> QED
      BY <2>1, <2>2, <2>3 DEF BillRow, RowStatus
  <1>5. g \in [DOMAIN rows -> BillRow]
    BY <1>3, <1>4
  <1>6. rows' = Append(g, NewRow(plan, plan)) /\ billed' = [billed EXCEPT !.total = Append(@, 0)]
    BY <1>1, <1>3 DEF onCheckoutCompleted, AssignPlan
  <1> QED
    BY <1>2, <1>4, <1>5, <1>6, RowAdded DEF BillTypes

LEMMA RedeemGrows ==
    ASSUME BillTypes, NEW g \in Gift, handleGiftRedeem(g)
    PROVE  Grows /\ DOMAIN billed' = {"total", "keys"} /\ billed'.keys = billed.keys
  <1>1. PICK plan : plan = cards[g].plan
    OBVIOUS
  <1>2. plan \in Plans /\ plan \in Nat
    BY <1>1, PlanAssumption DEF BillTypes, Card, Plans
  <1>3. CASE Active(rows) = {}
    <2>1. \A i \in DOMAIN rows : rows[i] \in BillRow
      BY RowTyped DEF BillTypes
    <2>2. rows \in [DOMAIN rows -> BillRow]
      BY LenProperties DEF BillTypes, RowsTyped
    <2>3. rows' = Append(rows, NewRow(plan, plan)) /\ billed' = [billed EXCEPT !.total = Append(@, 0)]
      BY <1>1, <1>3 DEF handleGiftRedeem, ApplyGiftCard
    <2> QED
      BY <1>2, <2>2, <2>3, RowAdded DEF BillTypes
  <1>4. CASE Active(rows) # {}
    <2>1. UNCHANGED billed
      BY <1>4 DEF handleGiftRedeem
    <2>2. rows' = [i \in DOMAIN rows |->
                     IF i \notin Active(rows) THEN rows[i]
                     ELSE [rows[i] EXCEPT !.limit = @ + plan, !.plan = IF plan > @ THEN plan ELSE @]]
      BY <1>1, <1>4 DEF handleGiftRedeem, ApplyGiftCard
    <2>3. ASSUME NEW i \in DOMAIN rows
          PROVE  /\ rows'[i] \in BillRow /\ rows'[i].linked = rows[i].linked
                 /\ rows'[i].reported = rows[i].reported
      <3>1. PICK r, p, l : r = rows[i] /\ p = (IF plan > rows[i].plan THEN plan ELSE rows[i].plan)
                           /\ l = rows[i].limit + plan
        OBVIOUS
      <3>2. r \in BillRow
        BY <3>1, RowTyped DEF BillTypes
      <3>3. rows'[i] = r \/ rows'[i] = [r EXCEPT !.limit = l, !.plan = p]
        BY <2>2, <3>1
      <3>4. p \in Plans /\ l \in Nat
        BY <1>2, <3>1, <3>2 DEF BillRow
      <3> QED
        BY <3>1, <3>2, <3>3, <3>4 DEF BillRow
    <2>4. rows' \in [DOMAIN rows -> BillRow]
      BY <2>2, <2>3
    <2>5. rows' \in Seq(BillRow) /\ Len(rows') = Len(rows)
      BY <2>4, RowsMapped DEF BillTypes, RowsTyped
    <2>6. PICK n \in Nat : n = Len(rows) /\ DOMAIN rows = 1..n /\ \A j \in 1..n : billed.total[j] \in Nat
      BY LenProperties, ElementOfSeq DEF BillTypes, RowsTyped
    <2>7. RowsTyped'
      BY <2>1, <2>5 DEF RowsTyped, BillTypes
    <2>8. \A i \in 1..n : /\ rows'[i].linked = rows[i].linked /\ rows'[i].reported = rows[i].reported
                          /\ billed'.total[i] >= billed.total[i]
      BY <2>1, <2>3, <2>6
    <2>9. Len(rows') = n /\ Len(rows) = n /\ \A i \in 1..n : ~(i > n)
      BY <2>5, <2>6
    <2> QED
      BY <2>1, <2>7, <2>8, <2>9 DEF Grows, BillTypes
  <1> QED
    BY <1>3, <1>4

----------------------------------------------------------------------------
(* Billing: the invariant. *)

(* A paid checkout is one event. *)
EventsOK ==
    /\ \A e \in events : e.type = "checkout" =>
          e.of \in Checkout /\ remote[e.of].status \notin {None, "open"}
    /\ \A e, f \in events : e.type = "checkout" /\ f.type = "checkout" /\ e.of = f.of => e = f

(* What a request that is not idle is about. *)
HandlerOK(x) ==
    \/ x = Idle
    \/ /\ DOMAIN x = {"pc", "e", "row", "status"}
       /\ x.pc \in {"handle", "link", "set", "unmark"}
       /\ x.e \in marked /\ x.e \in events
       /\ x.pc = "set" => x.status \in RowStatus /\ x.e.type # "checkout"
       /\ x.pc = "link" => x.e.type = "checkout" /\ assigned[x.e.of] = 1

(* A marked event is in the hands of one request at most. *)
HandlersOK ==
    /\ \A h \in Handler : HandlerOK(handler[h])
    /\ \A h, g \in Handler :
          h # g /\ handler[h].pc # "idle" /\ handler[g].pc # "idle" => handler[h].e # handler[g].e

(* Once a checkout has been applied its event stays marked: no request that *)
(* still holds it removes the mark.                                         *)
AppliedOK ==
    \A k \in Checkout :
        /\ assigned[k] <= 1
        /\ assigned[k] = 1 =>
              /\ remote[k].status \notin {None, "open"}
              /\ \A e \in events : e.type = "checkout" /\ e.of = k =>
                    /\ e \in marked
                    /\ \A h \in Handler :
                          handler[h].pc \in {"handle", "set", "unmark"} => handler[h].e # e

(* A row is linked by the request that applied the checkout. *)
LinksOK ==
    /\ \A i \in DOMAIN rows : rows[i].linked # None =>
          /\ assigned[rows[i].linked] = 1
          /\ \A h \in Handler : handler[h].pc = "link" => handler[h].e.of # rows[i].linked
    /\ \A i, j \in DOMAIN rows : rows[i].linked # None /\ rows[i].linked = rows[j].linked => i = j

RefunderOK ==
    refunder.pc = "idle" \/ (refunder.pc = "stripe" /\ refunder.g \in Gift /\ cards[refunder.g].refunded)

GiftsOK == RefunderOK /\ GiftSpentOnce

(* What the worker is about to report, and what a key that Stripe has seen  *)
(* stands for.                                                              *)
WorkerOK ==
    \/ worker = Idle
    \/ /\ DOMAIN worker = {"pc", "row", "base", "delta"} /\ worker.pc \in {"report", "advance"}
       /\ worker.row \in DOMAIN rows /\ worker.base \in Nat /\ worker.delta \in Nat
       /\ rows[worker.row].reported = worker.base
       /\ worker.pc = "advance" => billed.total[worker.row] >= worker.base + worker.delta

KeysOK ==
    \A q \in billed.keys : /\ q[1] \in DOMAIN rows /\ q[2] \in Nat /\ q[3] \in Nat
                           /\ billed.total[q[1]] >= q[2] + q[3]

ReportsOK == WorkerOK /\ KeysOK /\ ReportedWasBilled

EventsDone == EventsOK /\ HandlersOK /\ AppliedOK

BillOK == BillTypes /\ EventsDone /\ LinksOK /\ GiftsOK /\ ReportsOK

LEMMA BillStarts == BillInit => BillOK
  <1> SUFFICES ASSUME BillInit PROVE BillOK
    OBVIOUS
  <1>1. rows = << >> /\ billed = [total |-> << >>, keys |-> {}] /\ DOMAIN rows = {}
    BY DEF BillInit
  <1>2. RowsTyped
    BY <1>1, EmptySeq DEF RowsTyped
  <1>3. BillTypes
    BY <1>1, <1>2 DEF BillInit, BillTypes, Card, Plans
  <1>4. \A h \in Handler : handler[h] = Idle /\ handler[h].pc = "idle"
    BY DEF BillInit, Idle
  <1>5. EventsDone
    BY <1>4 DEF BillInit, EventsDone, EventsOK, HandlersOK, HandlerOK, AppliedOK
  <1>6. LinksOK /\ ReportsOK
    BY <1>1 DEF BillInit, LinksOK, ReportsOK, WorkerOK, KeysOK, ReportedWasBilled
  <1>7. GiftsOK
    BY DEF BillInit, GiftsOK, RefunderOK, GiftSpentOnce, Idle
  <1> QED
    BY <1>3, <1>5, <1>6, <1>7 DEF BillOK

----------------------------------------------------------------------------
(* Billing: what steps keep. *)

NoNewLink == \A h \in Handler : handler'[h].pc = "link" => handler'[h] = handler[h]

LEMMA LinksKept ==
    ASSUME RowsTyped, LinksOK, Grows, UNCHANGED assigned, NoNewLink
    PROVE  LinksOK'
  <1>1. PICK n \in Nat, m \in Nat : n = Len(rows) /\ DOMAIN rows = 1..n /\ m = Len(rows') /\ DOMAIN rows' = 1..m
    BY LenProperties DEF RowsTyped, Grows
  <1>2. ASSUME NEW i \in 1..m, rows'[i].linked # None
        PROVE  i \in 1..n /\ rows'[i].linked = rows[i].linked
    BY <1>1, <1>2 DEF Grows
  <1> QED
    BY <1>1, <1>2 DEF LinksOK, NoNewLink

LEMMA ReportsKept ==
    ASSUME BillTypes, ReportsOK, Grows, billed'.keys = billed.keys, UNCHANGED worker
    PROVE  ReportsOK'
  <1>1. PICK n \in Nat, m \in Nat : n = Len(rows) /\ DOMAIN rows = 1..n /\ m = Len(rows') /\ DOMAIN rows' = 1..m
    BY LenProperties DEF RowsTyped, Grows, BillTypes
  <1>2. PICK t, u : t = billed.total /\ u = billed'.total
    OBVIOUS
  <1>3. (\A i \in 1..m : u[i] \in Nat) /\ \A i \in 1..n : t[i] \in Nat
    BY <1>1, <1>2, ElementOfSeq DEF RowsTyped, Grows, BillTypes
  <1>4. /\ n <= m /\ (\A i \in 1..n : rows'[i].reported = rows[i].reported /\ u[i] >= t[i])
        /\ \A i \in 1..m : i > n => rows'[i].reported = 0
    BY <1>1, <1>2 DEF Grows
  <1>5. \A i \in 1..n : i \in 1..m
    BY <1>4
  <1>6. \A i \in 1..n : rows[i].reported \in Nat /\ rows[i].reported <= t[i]
    <2>1. \A i \in 1..n : rows[i] \in BillRow
      BY <1>1, RowTyped DEF BillTypes
    <2>2. \A i \in 1..n : rows[i].reported <= t[i]
      BY <1>1, <1>2 DEF ReportsOK, ReportedWasBilled
    <2> QED
      BY <2>1, <2>2 DEF BillRow
  <1>7. WorkerOK'
    <2>1. PICK w : w = worker /\ w = worker'
      OBVIOUS
    <2>2. CASE w = Idle
      BY <2>1, <2>2 DEF WorkerOK
    <2>3. CASE w # Idle
      <3>1. /\ DOMAIN w = {"pc", "row", "base", "delta"} /\ w.pc \in {"report", "advance"}
            /\ w.row \in 1..n /\ w.base \in Nat /\ w.delta \in Nat /\ rows[w.row].reported = w.base
            /\ w.pc = "advance" => t[w.row] >= w.base + w.delta
        BY <1>1, <1>2, <2>1, <2>3 DEF ReportsOK, WorkerOK
      <3>2. w.pc = "advance" => u[w.row] >= w.base + w.delta
        BY <1>3, <1>4, <1>5, <3>1
      <3> QED
        BY <1>1, <1>2, <1>4, <1>5, <2>1, <3>1, <3>2 DEF WorkerOK
    <2> QED
      BY <2>2, <2>3
  <1>8. KeysOK'
    <2> SUFFICES ASSUME NEW q \in billed.keys
                 PROVE  q[1] \in 1..m /\ q[2] \in Nat /\ q[3] \in Nat /\ u[q[1]] >= q[2] + q[3]
      BY <1>1, <1>2 DEF KeysOK
    <2>1. q[1] \in 1..n /\ q[2] \in Nat /\ q[3] \in Nat /\ t[q[1]] >= q[2] + q[3]
      BY <1>1, <1>2 DEF ReportsOK, KeysOK
    <2> QED
      BY <1>3, <1>4, <1>5, <2>1
  <1>9. ReportedWasBilled'
    <2> SUFFICES ASSUME NEW i \in 1..m PROVE rows'[i].reported <= u[i]
      BY <1>1, <1>2 DEF ReportedWasBilled
    <2>1. CASE i > n
      BY <1>3, <1>4, <2>1
    <2>2. CASE ~(i > n)
      <3>1. i \in 1..n
        BY <2>2
      <3>2. PICK a \in Nat : a = rows'[i].reported /\ a <= t[i]
        BY <1>4, <1>6, <3>1
      <3> QED
        BY <1>3, <1>4, <3>1, <3>2
    <2> QED
      BY <2>1, <2>2
  <1> QED
    BY <1>7, <1>8, <1>9 DEF ReportsOK

LEMMA RowsUnchanged ==
    ASSUME RowsTyped, UNCHANGED <<rows, billed>> PROVE Grows
  <1>1. Len(rows) \in Nat /\ \A i \in 1..Len(rows) : billed.total[i] \in Nat
    BY LenProperties, ElementOfSeq DEF RowsTyped
  <1> QED
    BY <1>1 DEF Grows, RowsTyped

(* The request h is done with its event, or takes the mark away. *)
LEMMA EventReleased ==
    ASSUME EventsDone, DOMAIN handler = Handler, NEW h \in Handler, handler[h].pc # "idle",
           handler' = [handler EXCEPT ![h] = Idle], UNCHANGED <<events, remote, assigned>>,
           marked' = marked \/ (handler[h].pc = "unmark" /\ marked' = marked \ {handler[h].e})
    PROVE  EventsDone' /\ NoNewLink
  <1>1. handler'[h] = Idle /\ \A g \in Handler : g # h => handler'[g] = handler[g]
    OBVIOUS
  <1>2. EventsOK'
    BY DEF EventsDone, EventsOK
  <1>3. HandlersOK'
    <2>1. ASSUME NEW g \in Handler PROVE HandlerOK(handler[g])'
      <3>1. CASE g = h
        BY <1>1, <3>1 DEF HandlerOK, Idle
      <3>2. CASE g # h
        <4>1. PICK x : x = handler[g] /\ x = handler'[g]
          BY <1>1, <3>2
        <4>2. HandlerOK(x) /\ (x = Idle \/ x.e # handler[h].e)
          BY <3>2, <4>1 DEF EventsDone, HandlersOK, HandlerOK
        <4>3. HandlerOK(x)'
          BY <4>2 DEF HandlerOK
        <4> QED
          BY <4>1, <4>3
      <3> QED
        BY <3>1, <3>2
    <2>2. handler'[h].pc = "idle"
      BY <1>1 DEF Idle
    <2> QED
      BY <1>1, <2>1, <2>2 DEF EventsDone, HandlersOK
  <1>4. AppliedOK'
    <2>1. \A g \in Handler : handler'[g].pc \in {"handle", "set", "unmark"} => handler'[g] = handler[g]
      BY <1>1 DEF Idle
    <2> QED
      BY <2>1 DEF EventsDone, AppliedOK
  <1>5. NoNewLink
    BY <1>1 DEF NoNewLink, Idle
  <1> QED
    BY <1>2, <1>3, <1>4, <1>5 DEF EventsDone

LEMMA EventMoves ==
    ASSUME EventsDone, DOMAIN handler = Handler, NEW h \in Handler, handler[h].pc \in {"handle", "set"},
           NEW p \in {"set", "unmark"}, NEW row, NEW status, Goto(h, p, row, status),
           p = "set" => status \in RowStatus /\ handler[h].e.type # "checkout",
           UNCHANGED <<events, remote, assigned, marked>>
    PROVE  EventsDone' /\ NoNewLink
  <1>1. PICK y : y = [pc |-> p, e |-> handler[h].e, row |-> row, status |-> status]
    OBVIOUS
  <1>2. handler'[h] = y /\ \A g \in Handler : g # h => handler'[g] = handler[g]
    BY <1>1 DEF Goto
  <1>3. DOMAIN y = {"pc", "e", "row", "status"} /\ y.pc = p /\ y.e = handler[h].e /\ y.status = status
    BY <1>1
  <1>4. EventsOK'
    BY DEF EventsDone, EventsOK
  <1>5. HandlersOK'
    <2>1. handler[h].e \in marked /\ handler[h].e \in events
      BY DEF EventsDone, HandlersOK, HandlerOK, Idle
    <2>2. HandlerOK(y)'
      BY <1>3, <2>1 DEF HandlerOK
    <2>3. ASSUME NEW g \in Handler, g # h PROVE HandlerOK(handler[g])'
      <3>1. HandlerOK(handler[g])
        BY DEF EventsDone, HandlersOK
      <3> QED
        BY <1>2, <2>3, <3>1 DEF HandlerOK
    <2>4. \A g \in Handler : HandlerOK(handler[g])'
      BY <1>2, <2>2, <2>3
    <2> QED
      BY <1>2, <1>3, <2>4 DEF EventsDone, HandlersOK
  <1>6. AppliedOK'
    <2>1. \A g \in Handler : handler'[g].pc \in {"handle", "set", "unmark"} =>
             handler[g].pc \in {"handle", "set", "unmark"} /\ handler'[g].e = handler[g].e
      BY <1>2, <1>3
    <2> QED
      BY <2>1 DEF EventsDone, AppliedOK
  <1>7. NoNewLink
    BY <1>2, <1>3 DEF NoNewLink
  <1> QED
    BY <1>4, <1>5, <1>6, <1>7 DEF EventsDone

RemoteTyped == remote \in [Checkout -> [status : {None, "open"} \cup {"active"} \cup StripeStatus, plan : Plans]]

LEMMA BillKept ==
    ASSUME BillOK, Grows, DOMAIN billed' = {"total", "keys"}, billed'.keys = billed.keys,
           UNCHANGED <<assigned, worker>>, EventsDone', NoNewLink, GiftsOK', RemoteTyped',
           cards' \in [Gift -> Card], DOMAIN handler' = Handler
    PROVE  BillOK'
  <1>1. BillTypes'
    BY DEF BillOK, BillTypes, Grows, RemoteTyped
  <1>2. LinksOK' /\ ReportsOK'
    BY LinksKept, ReportsKept DEF BillOK, BillTypes
  <1> QED
    BY <1>1, <1>2 DEF BillOK

LEMMA EventsSame ==
    ASSUME EventsDone, UNCHANGED <<events, remote, marked, handler, assigned>>
    PROVE  EventsDone' /\ NoNewLink
  BY DEF EventsDone, EventsOK, HandlersOK, HandlerOK, AppliedOK, NoNewLink

LEMMA GiftsSame == ASSUME GiftsOK, UNCHANGED <<cards, refunder>> PROVE GiftsOK'
  BY DEF GiftsOK, RefunderOK, GiftSpentOnce

(* Steps of the handler that change no row. *)
LEMMA BillHandled ==
    ASSUME BillOK, UNCHANGED <<rows, billed, remote, cards, refunder, assigned, worker>>,
           EventsDone', NoNewLink, DOMAIN handler' = Handler
    PROVE  BillOK'
  <1>1. Grows
    BY RowsUnchanged DEF BillOK, BillTypes
  <1>2. GiftsOK'
    BY GiftsSame DEF BillOK
  <1>3. RemoteTyped' /\ cards' \in [Gift -> Card] /\ DOMAIN billed' = {"total", "keys"}
    BY DEF BillOK, BillTypes, RemoteTyped
  <1> QED
    BY <1>1, <1>2, <1>3, BillKept

----------------------------------------------------------------------------
(* Billing: Stripe. *)

LEMMA NewEvents ==
    ASSUME BillOK, UNCHANGED <<rows, billed, refunder, assigned, worker, handler, marked>>,
           RemoteTyped', cards' \in [Gift -> Card], GiftsOK',
           \A k \in Checkout : remote[k].status \notin {None, "open"} => remote'[k].status \notin {None, "open"},
           events \subseteq events',
           \A e \in events' : e.type = "checkout" /\ e \notin events =>
              /\ e.of \in Checkout /\ remote[e.of].status \in {None, "open"}
              /\ remote'[e.of].status \notin {None, "open"}
              /\ \A f \in events' : f.type = "checkout" /\ f.of = e.of => f \in events \/ f = e
    PROVE  BillOK'
  <1>1. Grows
    BY RowsUnchanged DEF BillOK, BillTypes
  <1>2. NoNewLink
    BY DEF NoNewLink
  <1>3. EventsOK'
    BY DEF BillOK, EventsDone, EventsOK
  <1>4. HandlersOK'
    BY DEF BillOK, EventsDone, HandlersOK, HandlerOK
  <1>5. AppliedOK'
    BY DEF BillOK, EventsDone, AppliedOK
  <1>6. DOMAIN billed' = {"total", "keys"} /\ DOMAIN handler' = Handler
    BY DEF BillOK, BillTypes
  <1>7. EventsDone'
    BY <1>3, <1>4, <1>5 DEF EventsDone
  <1> QED
    BY <1>1, <1>2, <1>6, <1>7, BillKept

LEMMA StatusOnly ==
    ASSUME BillTypes, NEW k \in Checkout, NEW s
    PROVE  [remote EXCEPT ![k].status = s] = [remote EXCEPT ![k] = [status |-> s, plan |-> remote[k].plan]]
  <1>1. PICK r : r = remote[k]
    OBVIOUS
  <1>2. DOMAIN r = {"status", "plan"} /\ r = [status |-> r.status, plan |-> r.plan]
    BY <1>1 DEF BillTypes
  <1>3. [r EXCEPT !.status = s] = [status |-> s, plan |-> r.plan]
    BY <1>2
  <1> QED
    BY <1>1, <1>3

LEMMA RemoteSet ==
    ASSUME BillTypes, NEW k \in Checkout, NEW s \in {"open", "active"} \cup StripeStatus, NEW p \in Plans,
           remote' = [remote EXCEPT ![k] = [status |-> s, plan |-> p]]
    PROVE  /\ RemoteTyped' /\ remote'[k].status = s
           /\ \A j \in Checkout : j # k => remote'[j] = remote[j]
  BY DEF BillTypes, RemoteTyped

LEMMA KeepsCreateCheckout ==
    ASSUME BillOK, NEW k \in Checkout, NEW p \in Plan, CreateCheckoutSession(k, p) PROVE BillOK'
  <1>1. /\ remote[k].status = None /\ remote' = [remote EXCEPT ![k] = [status |-> "open", plan |-> p]]
        /\ UNCHANGED <<rows, events, cards, billed, refunder, assigned, worker, handler, marked>>
    BY DEF CreateCheckoutSession, Others
  <1>2. p \in Plans /\ BillTypes
    BY DEF Plans, BillOK
  <1>3. /\ RemoteTyped' /\ remote'[k].status = "open"
        /\ \A j \in Checkout : j # k => remote'[j] = remote[j]
    BY <1>1, <1>2, RemoteSet
  <1>4. cards' \in [Gift -> Card] /\ GiftsOK'
    BY <1>1, GiftsSame DEF BillOK, BillTypes
  <1> QED
    BY <1>1, <1>3, <1>4, NewEvents

LEMMA KeepsPayCheckout ==
    ASSUME BillOK, NEW k \in Checkout, PayCheckout(k) PROVE BillOK'
  <1>1. /\ remote[k].status = "open" /\ remote' = [remote EXCEPT ![k].status = "active"]
        /\ UNCHANGED <<rows, cards, billed, refunder, assigned, worker, handler, marked>>
    BY DEF PayCheckout, Others
  <1>2. PICK p : p = remote[k].plan
    OBVIOUS
  <1>3. p \in Plans /\ BillTypes /\ remote' = [remote EXCEPT ![k] = [status |-> "active", plan |-> p]]
    <2>1. BillTypes /\ p \in Plans
      BY <1>2 DEF BillOK, BillTypes
    <2> QED
      BY <1>1, <1>2, <2>1, StatusOnly
  <1>4. /\ RemoteTyped' /\ remote'[k].status = "active"
        /\ \A j \in Checkout : j # k => remote'[j] = remote[j]
    BY <1>3, RemoteSet
  <1>5. cards' \in [Gift -> Card] /\ GiftsOK'
    BY <1>1, GiftsSame DEF BillOK, BillTypes
  <1>6. PICK e, f : e = Event("checkout", k, "active") /\ f = Event("updated", k, "active")
    OBVIOUS
  <1>7. events' = events \cup {e, f} /\ e.type = "checkout" /\ e.of = k /\ f.type = "updated"
    BY <1>6 DEF PayCheckout, Event
  <1>8. \A j \in Checkout : remote[j].status \notin {None, "open"} => remote'[j].status \notin {None, "open"}
    BY <1>4 DEF None
  <1>9. \A g \in events' : g.type = "checkout" /\ g \notin events =>
           /\ g.of \in Checkout /\ remote[g.of].status \in {None, "open"}
           /\ remote'[g.of].status \notin {None, "open"}
           /\ \A d \in events' : d.type = "checkout" /\ d.of = g.of => d \in events \/ d = g
    BY <1>1, <1>4, <1>7 DEF None
  <1> QED
    BY <1>1, <1>4, <1>5, <1>7, <1>8, <1>9, NewEvents

LEMMA KeepsChangeStatus ==
    ASSUME BillOK, NEW k \in Checkout, NEW s \in StripeStatus, ChangeStatus(k, s) PROVE BillOK'
  <1>1. /\ remote' = [remote EXCEPT ![k].status = s]
        /\ UNCHANGED <<rows, cards, billed, refunder, assigned, worker, handler, marked>>
    BY DEF ChangeStatus, Others
  <1>2. PICK p : p = remote[k].plan
    OBVIOUS
  <1>3. p \in Plans /\ BillTypes /\ remote' = [remote EXCEPT ![k] = [status |-> s, plan |-> p]]
    <2>1. BillTypes /\ p \in Plans
      BY <1>2 DEF BillOK, BillTypes
    <2> QED
      BY <1>1, <1>2, <2>1, StatusOnly
  <1>4. /\ RemoteTyped' /\ remote'[k].status = s
        /\ \A j \in Checkout : j # k => remote'[j] = remote[j]
    BY <1>3, RemoteSet
  <1>5. cards' \in [Gift -> Card] /\ GiftsOK'
    BY <1>1, GiftsSame DEF BillOK, BillTypes
  <1>6. PICK e, f : /\ e = Event("updated", k, s)
                    /\ f = (CASE s = "canceled" -> Event("deleted", k, s)
                              [] s \in {"past_due", "unpaid"} -> Event("invoice_failed", k, s)
                              [] OTHER -> Event("invoice_paid", k, s))
    OBVIOUS
  <1>7. events' = events \cup {e, f} /\ e.type # "checkout" /\ f.type # "checkout"
    BY <1>6 DEF ChangeStatus, Event
  <1>8. \A j \in Checkout : remote[j].status \notin {None, "open"} => remote'[j].status \notin {None, "open"}
    BY <1>4, StripeStatusAssumption
  <1> QED
    BY <1>1, <1>4, <1>5, <1>7, <1>8, NewEvents

LEMMA KeepsGiftCheckout ==
    ASSUME BillOK, NEW g \in Gift, NEW p \in Plan, CreateGiftCheckoutSession(g, p) PROVE BillOK'
  <1>1. /\ cards' = [cards EXCEPT ![g].paid = TRUE, ![g].plan = p]
        /\ UNCHANGED <<rows, remote, billed, refunder, assigned, worker, handler, marked>>
    BY DEF CreateGiftCheckoutSession, Others
  <1>2. p \in Plans /\ BillTypes
    BY DEF Plans, BillOK
  <1>3. /\ cards' \in [Gift -> Card]
        /\ \A d \in Gift : /\ cards'[d].redeemed = cards[d].redeemed /\ cards'[d].refunded = cards[d].refunded
                           /\ cards'[d].returned = cards[d].returned
    BY ZenonT(60), <1>1, <1>2 DEF BillTypes, Card
  <1>4. GiftsOK'
    BY <1>1, <1>3 DEF BillOK, GiftsOK, RefunderOK, GiftSpentOnce
  <1>5. PICK e : e = Event("gift", g, None)
    OBVIOUS
  <1>6. events' = events \cup {e} /\ e.type # "checkout"
    BY <1>5 DEF CreateGiftCheckoutSession, Event
  <1>7. RemoteTyped' /\ remote' = remote
    BY <1>1, <1>2 DEF BillTypes, RemoteTyped
  <1> QED
    BY <1>1, <1>3, <1>4, <1>6, <1>7, NewEvents

----------------------------------------------------------------------------
(* Billing: the webhook. *)

LEMMA Unpack == BillOK => BillTypes /\ RowsTyped /\ EventsDone /\ LinksOK /\ GiftsOK /\ ReportsOK /\ DOMAIN handler = Handler
  BY DEF BillOK, BillTypes

LEMMA KeepsWebhook ==
    ASSUME BillOK, NEW h \in Handler, NEW e \in events, handleStripeWebhook(h, e) PROVE BillOK'
  <1>1. /\ UNCHANGED <<rows, billed, remote, events, cards, refunder, assigned, worker>>
        /\ handler[h].pc = "idle"
    BY DEF handleStripeWebhook, Handling
  <1>2. EventsDone /\ DOMAIN handler = Handler
    BY Unpack
  <1>3. CASE e \notin marked
    <2>1. PICK y : y = [pc |-> "handle", e |-> e, row |-> 0, status |-> None]
      OBVIOUS
    <2>2. marked' = marked \cup {e} /\ handler' = [handler EXCEPT ![h] = y]
      BY <1>3, <2>1 DEF handleStripeWebhook, MarkStripeEventProcessed
    <2>3. /\ handler'[h] = y /\ DOMAIN handler' = Handler
          /\ \A g \in Handler : g # h => handler'[g] = handler[g]
      BY <1>2, <2>2
    <2>4. DOMAIN y = {"pc", "e", "row", "status"} /\ y.pc = "handle" /\ y.e = e
      BY <2>1
    <2>5. EventsOK'
      BY <1>1, <1>2 DEF EventsDone, EventsOK
    <2>6. \A g \in Handler : HandlerOK(handler[g])'
      <3>1. HandlerOK(y)'
        BY <1>1, <2>2, <2>4 DEF HandlerOK
      <3>2. ASSUME NEW g \in Handler, g # h PROVE HandlerOK(handler[g])'
        <4>1. HandlerOK(handler[g])
          BY <1>2 DEF EventsDone, HandlersOK
        <4> QED
          BY <1>1, <2>2, <2>3, <3>2, <4>1 DEF HandlerOK
      <3> QED
        BY <2>3, <3>1, <3>2
    <2>7. HandlersOK'
      <3>1. \A g \in Handler : g # h /\ handler[g].pc # "idle" => handler[g].e # e
        BY <1>2, <1>3 DEF EventsDone, HandlersOK, HandlerOK, Idle
      <3> QED
        BY <1>2, <2>3, <2>4, <2>6, <3>1 DEF EventsDone, HandlersOK
    <2>8. AppliedOK'
      <3> SUFFICES ASSUME NEW k \in Checkout, assigned[k] = 1, NEW f \in events, f.type = "checkout", f.of = k,
                          NEW g \in Handler, handler'[g].pc \in {"handle", "set", "unmark"}
                   PROVE  handler'[g].e # f
        BY <1>1, <1>2, <2>2 DEF EventsDone, AppliedOK
      <3>1. f \in marked /\ (handler[g].pc \in {"handle", "set", "unmark"} => handler[g].e # f)
        BY <1>2 DEF EventsDone, AppliedOK
      <3> QED
        BY <1>3, <2>3, <2>4, <3>1
    <2>9. NoNewLink
      BY <2>3, <2>4 DEF NoNewLink
    <2>10. EventsDone'
      BY <2>5, <2>7, <2>8 DEF EventsDone
    <2> QED
      BY <1>1, <2>3, <2>9, <2>10, BillHandled
  <1>4. CASE e \in marked
    <2>1. UNCHANGED <<marked, handler>>
      BY <1>4 DEF handleStripeWebhook, MarkStripeEventProcessed
    <2>2. EventsDone' /\ NoNewLink
      BY <1>1, <1>2, <2>1, EventsSame
    <2> QED
      BY <1>1, <1>2, <2>1, <2>2, BillHandled
  <1> QED
    BY <1>3, <1>4

LEMMA KeepsReleased ==
    ASSUME BillOK, NEW h \in Handler, handler[h].pc # "idle", handler' = [handler EXCEPT ![h] = Idle],
           UNCHANGED <<rows, billed, remote, events, cards, refunder, assigned, worker>>,
           marked' = marked \/ (handler[h].pc = "unmark" /\ marked' = marked \ {handler[h].e})
    PROVE  BillOK'
  <1>1. EventsDone /\ DOMAIN handler = Handler
    BY Unpack
  <1>2. EventsDone' /\ NoNewLink
    BY <1>1, EventReleased
  <1>3. DOMAIN handler' = Handler
    BY <1>1
  <1> QED
    BY <1>2, <1>3, BillHandled

LEMMA KeepsMoves ==
    ASSUME BillOK, NEW h \in Handler, handler[h].pc \in {"handle", "set"},
           NEW p \in {"set", "unmark"}, NEW row, NEW status, Goto(h, p, row, status),
           p = "set" => status \in RowStatus /\ handler[h].e.type # "checkout",
           UNCHANGED <<rows, billed, remote, events, cards, refunder, assigned, worker, marked>>
    PROVE  BillOK'
  <1>1. EventsDone /\ DOMAIN handler = Handler
    BY Unpack
  <1>2. EventsDone' /\ NoNewLink
    BY <1>1, EventMoves
  <1>3. DOMAIN handler' = Handler
    BY <1>1 DEF Goto
  <1> QED
    BY <1>2, <1>3, BillHandled

LEMMA StatusesMapped ==
    ASSUME NEW e, NEW row, StatusFor(e, row) # None PROVE StatusFor(e, row) \in RowStatus
  BY DEF StatusFor, onSubscriptionUpdated, onSubscriptionDeleted, onInvoiceFailed, onInvoicePaid,
         mapStripeStatus, RowStatus

LEMMA KeepsHandle == ASSUME BillOK, NEW h \in Handler, Handle(h) PROVE BillOK'
  <1>1. /\ handler[h].pc = "handle" /\ handler[h].e.type # "checkout"
        /\ UNCHANGED <<rows, billed, remote, events, cards, refunder, assigned, worker, marked>>
    BY DEF Handle, Handling
  <1>2. CASE Done(h)
    BY <1>1, <1>2, KeepsReleased DEF Done
  <1>3. CASE \E i \in DOMAIN rows : StatusFor(handler[h].e, rows[i]) # None
                                    /\ Goto(h, "set", i, StatusFor(handler[h].e, rows[i]))
    <2>1. PICK i \in DOMAIN rows : StatusFor(handler[h].e, rows[i]) # None
                                   /\ Goto(h, "set", i, StatusFor(handler[h].e, rows[i]))
      BY <1>3
    <2>2. PICK st : st = StatusFor(handler[h].e, rows[i])
      OBVIOUS
    <2>3. st \in RowStatus /\ Goto(h, "set", i, st)
      BY <2>1, <2>2, StatusesMapped
    <2> QED
      BY <1>1, <2>3, KeepsMoves
  <1> QED
    BY <1>2, <1>3 DEF Handle, GetSubscriptionByStripeID

LEMMA KeepsSetStatus == ASSUME BillOK, NEW h \in Handler, SetSubscriptionStatus(h) PROVE BillOK'
  <1>1. handler[h].pc = "set" /\ UNCHANGED <<billed, remote, events, cards, refunder, assigned, worker, marked>>
    BY DEF SetSubscriptionStatus, Handling
  <1>2. CASE Goto(h, "unmark", 0, None) /\ UNCHANGED <<rows, acked>>
    BY <1>1, <1>2, KeepsMoves
  <1>3. CASE rows' = [rows EXCEPT ![handler[h].row].status = handler[h].status] /\ Done(h)
    <2>1. PICK i, st, r : i = handler[h].row /\ st = handler[h].status /\ r = [rows[i] EXCEPT !.status = st]
      OBVIOUS
    <2>2. st \in RowStatus
      BY <1>1, <2>1, Unpack DEF EventsDone, HandlersOK, HandlerOK, Idle
    <2>3. rows' = [rows EXCEPT ![i] = r]
      BY <1>3, <2>1
    <2>4. i \in DOMAIN rows => r \in BillRow /\ r.linked = rows[i].linked /\ r.reported = rows[i].reported
      <3> SUFFICES ASSUME i \in DOMAIN rows PROVE r \in BillRow /\ r.linked = rows[i].linked /\ r.reported = rows[i].reported
        OBVIOUS
      <3>1. PICK q : q = rows[i]
        OBVIOUS
      <3>2. q \in BillRow
        BY <3>1, RowTyped, Unpack
      <3> QED
        BY <2>1, <2>2, <3>1, <3>2 DEF BillRow
    <2>5. Grows
      BY <1>1, <2>3, <2>4, RowEdited, Unpack
    <2>6. handler' = [handler EXCEPT ![h] = Idle] /\ EventsDone /\ DOMAIN handler = Handler
      BY <1>3, Unpack DEF Done
    <2>7. EventsDone' /\ NoNewLink
      BY <1>1, <2>6, EventReleased
    <2>8. GiftsOK' /\ RemoteTyped' /\ cards' \in [Gift -> Card] /\ DOMAIN handler' = Handler
          /\ DOMAIN billed' = {"total", "keys"}
      BY <1>1, <2>6, Unpack, GiftsSame DEF BillTypes, RemoteTyped
    <2> QED
      BY <1>1, <2>5, <2>7, <2>8, BillKept
  <1> QED
    BY <1>2, <1>3 DEF SetSubscriptionStatus

LEMMA KeepsHandlerEnds ==
    ASSUME BillOK, NEW h \in Handler, HandleFails(h) \/ UnmarkStripeEventProcessed(h) \/ HandlerStops(h)
    PROVE  BillOK'
  <1>1. CASE HandleFails(h)
    BY <1>1, KeepsMoves DEF HandleFails, Handling
  <1>2. CASE UnmarkStripeEventProcessed(h)
    BY <1>2, KeepsReleased DEF UnmarkStripeEventProcessed, Handling
  <1>3. CASE HandlerStops(h)
    BY <1>3, KeepsReleased DEF HandlerStops, Handling
  <1> QED
    BY <1>1, <1>2, <1>3

LEMMA KeepsGiftMinted == ASSUME BillOK, NEW h \in Handler, onGiftCheckoutCompleted(h) PROVE BillOK'
  <1>1. /\ handler[h].pc = "handle" /\ handler' = [handler EXCEPT ![h] = Idle]
        /\ UNCHANGED <<rows, billed, remote, events, refunder, assigned, worker, marked>>
    BY DEF onGiftCheckoutCompleted, Handling, Done
  <1>2. EventsDone /\ DOMAIN handler = Handler /\ BillTypes /\ GiftsOK
    BY Unpack
  <1>3. EventsDone' /\ NoNewLink
    BY <1>1, <1>2, EventReleased
  <1>4. PICK g : g = handler[h].e.of
    OBVIOUS
  <1>5. cards' = [cards EXCEPT ![g].minted = IF @ = 0 THEN 1 ELSE @]
    BY <1>4 DEF onGiftCheckoutCompleted
  <1>6. /\ cards' \in [Gift -> Card]
        /\ \A d \in Gift : /\ cards'[d].redeemed = cards[d].redeemed /\ cards'[d].refunded = cards[d].refunded
                           /\ cards'[d].returned = cards[d].returned
    BY ZenonT(60), <1>2, <1>5 DEF BillTypes, Card
  <1>7. GiftsOK'
    BY <1>1, <1>2, <1>6 DEF GiftsOK, RefunderOK, GiftSpentOnce
  <1>8. Grows /\ RemoteTyped' /\ DOMAIN billed' = {"total", "keys"} /\ DOMAIN handler' = Handler
    BY <1>1, <1>2, RowsUnchanged DEF BillTypes, RemoteTyped
  <1> QED
    BY <1>1, <1>3, <1>6, <1>7, <1>8, BillKept

(* A paid checkout is applied: it was not before, and nobody else holds its *)
(* event.                                                                  *)
LEMMA CheckoutIsFresh ==
    ASSUME BillOK, NEW h \in Handler, handler[h].pc = "handle", handler[h].e.type = "checkout"
    PROVE  /\ handler[h].e \in marked /\ handler[h].e \in events /\ handler[h].e.of \in Checkout
           /\ assigned[handler[h].e.of] = 0
  <1>1. handler[h].e \in marked /\ handler[h].e \in events
    BY DEF BillOK, EventsDone, HandlersOK, HandlerOK, Idle
  <1>2. handler[h].e.of \in Checkout
    BY <1>1 DEF BillOK, EventsDone, EventsOK
  <1>3. assigned[handler[h].e.of] # 1 /\ assigned[handler[h].e.of] <= 1
    BY <1>1, <1>2 DEF BillOK, EventsDone, AppliedOK
  <1>4. assigned[handler[h].e.of] \in Nat
    BY <1>2 DEF BillOK, BillTypes
  <1> QED
    BY <1>1, <1>2, <1>3, <1>4

LEMMA KeepsCheckoutCompleted == ASSUME BillOK, NEW h \in Handler, onCheckoutCompleted(h) PROVE BillOK'
  <1>1. PICK e, k : e = handler[h].e /\ k = e.of
    OBVIOUS
  <1>2. PICK y : y = [pc |-> "link", e |-> e, row |-> Len(rows) + 1, status |-> None]
    OBVIOUS
  <1>3. /\ handler[h].pc = "handle" /\ e.type = "checkout" /\ handler' = [handler EXCEPT ![h] = y]
        /\ assigned' = [assigned EXCEPT ![k] = @ + 1]
        /\ UNCHANGED <<marked, remote, events, cards, refunder, worker>>
    BY <1>1, <1>2 DEF onCheckoutCompleted, Goto, Handling
  <1>4. e \in marked /\ e \in events /\ k \in Checkout /\ assigned[k] = 0
    BY <1>1, <1>3, CheckoutIsFresh
  <1>5. /\ assigned' \in [Checkout -> Nat] /\ assigned'[k] = 1
        /\ \A j \in Checkout : j # k => assigned'[j] = assigned[j]
    BY <1>3, <1>4 DEF BillOK, BillTypes
  <1>6. /\ DOMAIN y = {"pc", "e", "row", "status"} /\ y.pc = "link" /\ y.e = e
        /\ handler'[h] = y /\ DOMAIN handler' = Handler
        /\ \A g \in Handler : g # h => handler'[g] = handler[g]
    BY <1>2, <1>3, Unpack
  <1>7. EventsDone /\ LinksOK /\ RowsTyped /\ BillTypes /\ GiftsOK /\ ReportsOK
    BY Unpack
  <1>8. Grows /\ DOMAIN billed' = {"total", "keys"} /\ billed'.keys = billed.keys
    BY <1>1, <1>4, <1>7, AssignGrows
  <1>9. EventsOK'
    BY <1>3, <1>7 DEF EventsDone, EventsOK
  <1>10. \A g \in Handler : HandlerOK(handler[g])'
    <2>1. HandlerOK(y)'
      BY <1>1, <1>3, <1>4, <1>5, <1>6 DEF HandlerOK
    <2>2. ASSUME NEW g \in Handler, g # h PROVE HandlerOK(handler[g])'
      <3>1. PICK x : x = handler[g] /\ x = handler'[g]
        BY <1>6, <2>2
      <3>2. HandlerOK(x)
        BY <1>7, <3>1 DEF EventsDone, HandlersOK
      <3>3. x # Idle /\ x.pc = "link" => x.e.of \in Checkout
        BY <1>7, <3>2 DEF EventsDone, EventsOK, HandlerOK
      <3>4. HandlerOK(x)'
        BY <1>3, <1>4, <1>5, <3>2, <3>3 DEF HandlerOK
      <3> QED
        BY <3>1, <3>4
    <2> QED
      BY <1>6, <2>1, <2>2
  <1>11. HandlersOK'
    BY <1>1, <1>3, <1>6, <1>7, <1>10 DEF EventsDone, HandlersOK
  <1>12. AppliedOK'
    <2> SUFFICES ASSUME NEW j \in Checkout
                 PROVE  /\ assigned'[j] <= 1
                        /\ assigned'[j] = 1 =>
                              /\ remote[j].status \notin {None, "open"}
                              /\ \A f \in events : f.type = "checkout" /\ f.of = j =>
                                    /\ f \in marked
                                    /\ \A g \in Handler :
                                          handler'[g].pc \in {"handle", "set", "unmark"} => handler'[g].e # f
      BY <1>3 DEF AppliedOK
    <2>1. CASE j = k
      <3>1. \A f \in events : f.type = "checkout" /\ f.of = k => f = e
        BY <1>1, <1>3, <1>4, <1>7 DEF EventsDone, EventsOK
      <3>2. remote[k].status \notin {None, "open"}
        BY <1>1, <1>3, <1>4, <1>7 DEF EventsDone, EventsOK
      <3>3. \A g \in Handler : handler'[g].pc \in {"handle", "set", "unmark"} => handler'[g].e # e
        BY <1>1, <1>3, <1>6, <1>7 DEF EventsDone, HandlersOK
      <3> QED
        BY <1>4, <1>5, <2>1, <3>1, <3>2, <3>3
    <2>2. CASE j # k
      BY <1>5, <1>6, <1>7, <2>2 DEF EventsDone, AppliedOK
    <2> QED
      BY <2>1, <2>2
  <1>13. LinksOK'
    <2>1. PICK n \in Nat, m \in Nat : n = Len(rows) /\ DOMAIN rows = 1..n /\ m = Len(rows') /\ DOMAIN rows' = 1..m
      BY <1>7, <1>8, LenProperties DEF RowsTyped, Grows
    <2>2. ASSUME NEW i \in 1..m, rows'[i].linked # None
          PROVE  i \in 1..n /\ rows'[i].linked = rows[i].linked
      BY <1>8, <2>1, <2>2 DEF Grows
    <2>3. ASSUME NEW i \in 1..n, rows[i].linked # None
          PROVE  rows[i].linked \in Checkout /\ rows[i].linked # k /\ assigned'[rows[i].linked] = 1
      <3>1. rows[i].linked \in Checkout
        BY <1>7, <2>1, <2>3, RowTyped DEF BillRow
      <3>2. assigned[rows[i].linked] = 1
        BY <1>7, <2>1, <2>3 DEF LinksOK
      <3> QED
        BY <1>4, <1>5, <3>1, <3>2
    <2>4. \A i \in 1..n, g \in Handler : rows[i].linked # None /\ handler'[g].pc = "link" =>
             handler'[g].e.of # rows[i].linked
      BY <1>1, <1>6, <1>7, <2>1, <2>3 DEF LinksOK
    <2> QED
      BY <1>7, <2>1, <2>2, <2>3, <2>4 DEF LinksOK
  <1>14. ReportsOK'
    BY <1>3, <1>7, <1>8, ReportsKept
  <1>15. GiftsOK' /\ BillTypes'
    BY <1>3, <1>5, <1>6, <1>7, <1>8, GiftsSame DEF BillTypes, Grows
  <1> QED
    BY <1>9, <1>11, <1>12, <1>13, <1>14, <1>15 DEF BillOK, EventsDone

(* The link is stamped: by the only request that has the checkout's event.  *)
LEMMA KeepsLink == ASSUME BillOK, NEW h \in Handler, SetSubscriptionStripeIDs(h) PROVE BillOK'
  <1>1. /\ handler[h].pc = "link" /\ handler' = [handler EXCEPT ![h] = Idle]
        /\ UNCHANGED <<billed, remote, events, cards, refunder, assigned, worker, marked>>
    BY DEF SetSubscriptionStripeIDs, Handling, Done
  <1>2. CASE UNCHANGED rows
    BY <1>1, <1>2, KeepsReleased
  <1>3. CASE rows' = [rows EXCEPT ![handler[h].row].linked = handler[h].e.of]
    <2>1. PICK e, k, i, r : /\ e = handler[h].e /\ k = e.of /\ i = handler[h].row
                            /\ r = [rows[i] EXCEPT !.linked = k]
      OBVIOUS
    <2>2. EventsDone /\ LinksOK /\ RowsTyped /\ BillTypes /\ GiftsOK /\ ReportsOK /\ DOMAIN handler = Handler
      BY Unpack
    <2>3. e \in events /\ e.type = "checkout" /\ assigned[k] = 1 /\ k \in Checkout
      BY <1>1, <2>1, <2>2 DEF EventsDone, EventsOK, HandlersOK, HandlerOK, Idle
    <2>4. rows' = [rows EXCEPT ![i] = r]
      BY <1>3, <2>1
    <2>5. i \in DOMAIN rows => r \in BillRow /\ r.linked = k /\ r.reported = rows[i].reported
      <3> SUFFICES ASSUME i \in DOMAIN rows PROVE r \in BillRow /\ r.linked = k /\ r.reported = rows[i].reported
        OBVIOUS
      <3>1. PICK q : q = rows[i]
        OBVIOUS
      <3>2. q \in BillRow
        BY <2>2, <3>1, RowTyped
      <3> QED
        BY <2>1, <2>3, <3>1, <3>2 DEF BillRow
    <2>6. /\ rows' \in Seq(BillRow) /\ Len(rows') = Len(rows)
          /\ \A j \in 1..Len(rows) : rows'[j] = IF j = i THEN r ELSE rows[j]
          /\ i \in 1..Len(rows) <=> i \in DOMAIN rows
      BY <2>2, <2>4, <2>5, RowChanged DEF RowsTyped
    <2>7. PICK n \in Nat : n = Len(rows) /\ DOMAIN rows = 1..n /\ DOMAIN rows' = 1..n
      BY <2>2, <2>6, LenProperties DEF RowsTyped
    <2>8. \A j \in 1..n : /\ rows'[j].linked = IF j = i THEN k ELSE rows[j].linked
                          /\ rows'[j].reported = rows[j].reported
      BY <2>5, <2>6, <2>7
    <2>9. RowsTyped' /\ BillTypes'
      BY <1>1, <2>2, <2>6 DEF RowsTyped, BillTypes
    <2>10. EventsDone' /\ GiftsOK'
      BY <1>1, <2>2, EventReleased, GiftsSame
    <2>11. ReportsOK'
      BY <1>1, <2>2, <2>7, <2>8 DEF ReportsOK, WorkerOK, KeysOK, ReportedWasBilled
    <2>12. \A j \in 1..n : rows[j].linked # None => rows[j].linked # k
      BY <1>1, <2>1, <2>2, <2>7 DEF LinksOK
    <2>13. \A g \in Handler : handler'[g].pc = "link" =>
              g # h /\ handler'[g] = handler[g] /\ handler'[g].e.of # k
      <3> SUFFICES ASSUME NEW g \in Handler, handler'[g].pc = "link"
                   PROVE  g # h /\ handler'[g] = handler[g] /\ handler'[g].e.of # k
        OBVIOUS
      <3>1. g # h /\ handler'[g] = handler[g]
        BY <1>1, <2>2 DEF Idle
      <3>2. handler[g].e # e /\ handler[g].e \in events /\ handler[g].e.type = "checkout"
        BY <1>1, <2>1, <2>2, <3>1 DEF EventsDone, HandlersOK, HandlerOK, Idle
      <3> QED
        BY <2>1, <2>2, <2>3, <3>1, <3>2 DEF EventsDone, EventsOK
    <2>14. LinksOK'
      BY <1>1, <2>2, <2>3, <2>7, <2>8, <2>12, <2>13 DEF LinksOK
    <2> QED
      BY <2>9, <2>10, <2>11, <2>14 DEF BillOK
  <1> QED
    BY <1>2, <1>3 DEF SetSubscriptionStripeIDs

----------------------------------------------------------------------------
(* Billing: gift cards. *)

(* Steps of a card or a refund that leave the rows as they are. *)
LEMMA KeepsCards ==
    ASSUME BillOK, cards' \in [Gift -> Card], GiftsOK',
           UNCHANGED <<rows, billed, remote, events, marked, handler, assigned, worker>>
    PROVE  BillOK'
  <1>1. Grows /\ EventsDone' /\ NoNewLink
    BY RowsUnchanged, EventsSame, Unpack
  <1>2. RemoteTyped' /\ DOMAIN billed' = {"total", "keys"} /\ DOMAIN handler' = Handler
    BY Unpack DEF BillTypes, RemoteTyped
  <1> QED
    BY <1>1, <1>2, BillKept

LEMMA KeepsRedeem == ASSUME BillOK, NEW g \in Gift, handleGiftRedeem(g) PROVE BillOK'
  <1>1. /\ cards[g].redeemed = 0 /\ ~cards[g].refunded
        /\ cards' = [cards EXCEPT ![g].redeemed = @ + 1]
        /\ UNCHANGED <<remote, events, marked, handler, refunder, assigned, worker>>
    BY DEF handleGiftRedeem, Others
  <1>2. BillTypes /\ GiftsOK /\ EventsDone
    BY Unpack
  <1>3. Grows /\ DOMAIN billed' = {"total", "keys"} /\ billed'.keys = billed.keys
    BY <1>2, RedeemGrows
  <1>4. PICK c : c = cards[g]
    OBVIOUS
  <1>5. c \in Card /\ cards' = [cards EXCEPT ![g] = [c EXCEPT !.redeemed = 1]]
    BY <1>1, <1>2, <1>4 DEF BillTypes
  <1>6. /\ cards' \in [Gift -> Card] /\ cards'[g].redeemed = 1
        /\ \A d \in Gift : cards'[d].refunded = cards[d].refunded /\ cards'[d].returned = cards[d].returned
        /\ \A d \in Gift : d # g => cards'[d].redeemed = cards[d].redeemed
    BY <1>2, <1>4, <1>5 DEF BillTypes, Card
  <1>7. GiftsOK'
    BY <1>1, <1>2, <1>6 DEF GiftsOK, RefunderOK, GiftSpentOnce
  <1>8. EventsDone' /\ NoNewLink
    BY <1>1, <1>2, EventsSame
  <1>9. RemoteTyped' /\ DOMAIN handler' = Handler
    BY <1>1, <1>2 DEF BillTypes, RemoteTyped
  <1> QED
    BY <1>1, <1>3, <1>6, <1>7, <1>8, <1>9, BillKept

LEMMA KeepsRefund ==
    ASSUME BillOK, \/ \E g \in Gift : handleAdminRefundCoupon(g) \/ giftRefundWindow(g)
                   \/ RefundCheckoutPayment
    PROVE  BillOK'
  <1>1. BillTypes /\ GiftsOK
    BY Unpack
  <1>2. ASSUME NEW g \in Gift, handleAdminRefundCoupon(g) PROVE BillOK'
    <2>1. /\ cards[g].redeemed = 0 /\ cards' = [cards EXCEPT ![g].refunded = TRUE]
          /\ refunder' = [pc |-> "stripe", g |-> g]
          /\ UNCHANGED <<rows, billed, remote, events, marked, handler, assigned, worker>>
      BY <1>2 DEF handleAdminRefundCoupon, RefundGiftCard
    <2>2. /\ cards' \in [Gift -> Card] /\ cards'[g].refunded
          /\ \A d \in Gift : cards'[d].redeemed = cards[d].redeemed /\ cards'[d].returned = cards[d].returned
          /\ \A d \in Gift : d # g => cards'[d].refunded = cards[d].refunded
      BY ZenonT(60), <1>1, <2>1 DEF BillTypes, Card
    <2>3. GiftsOK'
      BY <1>1, <2>1, <2>2 DEF GiftsOK, RefunderOK, GiftSpentOnce
    <2> QED
      BY <2>1, <2>2, <2>3, KeepsCards
  <1>3. ASSUME NEW g \in Gift, giftRefundWindow(g) PROVE BillOK'
    <2>1. /\ cards' = [cards EXCEPT ![g].old = TRUE]
          /\ UNCHANGED <<rows, billed, remote, events, marked, handler, assigned, worker, refunder>>
      BY <1>3 DEF giftRefundWindow, Others
    <2>2. /\ cards' \in [Gift -> Card]
          /\ \A d \in Gift : /\ cards'[d].redeemed = cards[d].redeemed /\ cards'[d].refunded = cards[d].refunded
                             /\ cards'[d].returned = cards[d].returned
      BY ZenonT(60), <1>1, <2>1 DEF BillTypes, Card
    <2>3. GiftsOK'
      BY <1>1, <2>1, <2>2 DEF GiftsOK, RefunderOK, GiftSpentOnce
    <2> QED
      BY <2>1, <2>2, <2>3, KeepsCards
  <1>4. CASE RefundCheckoutPayment
    <2>1. /\ refunder.pc = "stripe" /\ refunder' = Idle
          /\ cards' = [cards EXCEPT ![refunder.g].returned = TRUE] \/ UNCHANGED cards
          /\ UNCHANGED <<rows, billed, remote, events, marked, handler, assigned, worker>>
      BY <1>4 DEF RefundCheckoutPayment
    <2>2. PICK g : g = refunder.g
      OBVIOUS
    <2>3. g \in Gift /\ cards[g].refunded
      BY <1>1, <2>1, <2>2 DEF GiftsOK, RefunderOK
    <2>4. /\ cards' \in [Gift -> Card]
          /\ \A d \in Gift : /\ cards'[d].redeemed = cards[d].redeemed /\ cards'[d].refunded = cards[d].refunded
                             /\ d # g => cards'[d].returned = cards[d].returned
      <3>1. CASE UNCHANGED cards
        BY <1>1, <3>1 DEF BillTypes
      <3>2. CASE cards' = [cards EXCEPT ![g].returned = TRUE]
        BY ZenonT(60), <1>1, <3>2 DEF BillTypes, Card
      <3> QED
        BY <2>1, <2>2, <3>1, <3>2
    <2>5. GiftSpentOnce'
      <3> SUFFICES ASSUME NEW d \in Gift
                   PROVE  /\ cards'[d].redeemed <= 1 /\ (cards'[d].returned => cards'[d].refunded)
                          /\ cards'[d].refunded => cards'[d].redeemed = 0
        BY DEF GiftSpentOnce
      <3>1. cards[d].redeemed <= 1 /\ (cards[d].returned => cards[d].refunded) /\ (cards[d].refunded => cards[d].redeemed = 0)
        BY <1>1 DEF GiftsOK, GiftSpentOnce
      <3>2. cards'[d].redeemed = cards[d].redeemed /\ cards'[d].refunded = cards[d].refunded
        BY <2>4
      <3>3. CASE d = g
        BY <2>3, <3>1, <3>2, <3>3
      <3>4. CASE d # g
        BY <2>4, <3>1, <3>2, <3>4
      <3> QED
        BY <3>3, <3>4
    <2>6. RefunderOK'
      BY <2>1 DEF RefunderOK, Idle
    <2> QED
      BY <2>1, <2>4, <2>5, <2>6, KeepsCards DEF GiftsOK
  <1> QED
    BY <1>2, <1>3, <1>4

----------------------------------------------------------------------------
(* Billing: overage. *)

LEMMA KeepsEdited ==
    ASSUME BillOK, NEW i, NEW r, rows' = [rows EXCEPT ![i] = r],
           i \in DOMAIN rows => r \in BillRow /\ r.linked = rows[i].linked /\ r.reported = rows[i].reported,
           UNCHANGED <<billed, remote, events, marked, handler, cards, refunder, assigned, worker>>
    PROVE  BillOK'
  <1>1. Grows
    BY RowEdited, Unpack
  <1>2. EventsDone' /\ NoNewLink
    BY EventsSame, Unpack
  <1>3. GiftsOK' /\ RemoteTyped' /\ cards' \in [Gift -> Card] /\ DOMAIN billed' = {"total", "keys"}
        /\ DOMAIN handler' = Handler
    BY Unpack, GiftsSame DEF BillTypes, RemoteTyped
  <1> QED
    BY <1>1, <1>2, <1>3, BillKept

(* The rows the customer and the gateway change: neither the link nor what  *)
(* was reported.                                                           *)
LEMMA SwitchKept ==
    ASSUME BillOK, NEW i, NEW on, NEW item,
           i \in DOMAIN rows => on \in BOOLEAN /\ item \in BOOLEAN,
           rows' = [rows EXCEPT ![i].item = item, ![i].on = on],
           UNCHANGED <<billed, remote, events, marked, handler, cards, refunder, assigned, worker>>
    PROVE  BillOK'
  <1>1. PICK q, r : q = rows[i] /\ r = [q EXCEPT !.item = item, !.on = on]
    OBVIOUS
  <1>2. rows' = [rows EXCEPT ![i] = r]
    BY <1>1
  <1>3. i \in DOMAIN rows => r \in BillRow /\ r.linked = q.linked /\ r.reported = q.reported
    <2> SUFFICES ASSUME i \in DOMAIN rows PROVE r \in BillRow /\ r.linked = q.linked /\ r.reported = q.reported
      OBVIOUS
    <2>1. q \in BillRow
      BY <1>1, RowTyped, Unpack
    <2> QED
      BY <1>1, <2>1 DEF BillRow
  <1> QED
    BY ZenonT(60), <1>1, <1>2, <1>3, KeepsEdited

LEMMA KeepsSwitch ==
    ASSUME BillOK, \/ \E i \in DOMAIN rows : handleBillingOverageEnable(i) \/ handleBillingOverageDisable(i)
                   \/ OverageOn
    PROVE  BillOK'
  <1>1. ASSUME NEW i \in DOMAIN rows, handleBillingOverageEnable(i) PROVE BillOK'
    <2>1. UNCHANGED <<rows, billed, remote, events, marked, handler, cards, refunder, assigned, worker>>
      BY <1>1 DEF handleBillingOverageEnable, Overage
    <2>2. cards' \in [Gift -> Card] /\ GiftsOK'
      BY <2>1, Unpack, GiftsSame DEF BillTypes
    <2> QED
      BY <2>1, <2>2, KeepsCards
  <1>2. ASSUME NEW i \in DOMAIN rows, handleBillingOverageDisable(i) PROVE BillOK'
    <2>1. /\ rows' = [rows EXCEPT ![i].item = FALSE, ![i].on = FALSE]
          /\ UNCHANGED <<billed, remote, events, marked, handler, cards, refunder, assigned, worker>>
      BY <1>2 DEF handleBillingOverageDisable, Overage
    <2> QED
      BY <2>1, SwitchKept
  <1>3. CASE OverageOn
    <2>1. PICK i, q : i = customer.row /\ q = rows[i]
      OBVIOUS
    <2>2. UNCHANGED <<billed, remote, events, marked, handler, cards, refunder, assigned, worker>>
      BY <1>3 DEF OverageOn, Overage
    <2>3. i \in DOMAIN rows => q \in BillRow
      BY <2>1, RowTyped, Unpack
    <2>4. CASE rows' = [rows EXCEPT ![i].item = TRUE, ![i].on = TRUE]
      BY <2>2, <2>4, SwitchKept
    <2>5. ASSUME NEW r, r = [q EXCEPT !.on = TRUE] \/ r = [q EXCEPT !.item = TRUE],
                 rows' = [rows EXCEPT ![i] = r]
          PROVE  BillOK'
      <3>1. i \in DOMAIN rows => r \in BillRow /\ r.linked = q.linked /\ r.reported = q.reported
        <4>1. CASE r = [q EXCEPT !.on = TRUE]
          BY <2>3, <4>1 DEF BillRow
        <4>2. CASE r = [q EXCEPT !.item = TRUE]
          BY <2>3, <4>2 DEF BillRow
        <4> QED
          BY <2>5, <4>1, <4>2
      <3> QED
        BY <2>1, <2>2, <2>5, <3>1, KeepsEdited
    <2>6. CASE rows' = [rows EXCEPT ![i].on = TRUE]
      BY <2>1, <2>5, <2>6
    <2>7. CASE rows' = [rows EXCEPT ![i].item = TRUE]
      BY <2>1, <2>5, <2>7
    <2>8. CASE rows' = rows
      <3>1. cards' \in [Gift -> Card] /\ GiftsOK'
        BY <2>2, Unpack, GiftsSame DEF BillTypes
      <3> QED
        BY <2>2, <2>8, <3>1, KeepsCards
    <2> QED
      BY <1>3, <2>1, <2>4, <2>6, <2>7, <2>8 DEF OverageOn
  <1> QED
    BY <1>1, <1>2, <1>3

LEMMA KeepsMetered ==
    ASSUME BillOK, NEW i \in DOMAIN rows, UseOverage(i) \/ RollOverage(i) PROVE BillOK'
  <1>1. UNCHANGED <<billed, remote, events, marked, handler, cards, refunder, assigned, worker>>
    BY DEF UseOverage, RollOverage, Overage
  <1>2. PICK q : q = rows[i]
    OBVIOUS
  <1>3. q \in BillRow
    BY <1>2, RowTyped, Unpack
  <1>4. PICK v \in Nat : rows' = [rows EXCEPT ![i].overage = v]
    <2>1. CASE UseOverage(i)
      <3>1. rows' = [rows EXCEPT ![i].overage = q.overage + 1] /\ q.overage + 1 \in Nat
        BY <1>2, <1>3, <2>1 DEF UseOverage, BillRow
      <3> QED
        BY <3>1
    <2>2. CASE RollOverage(i)
      <3>1. q.overage > 0 /\ \E left \in {0, q.overage - 1} : rows' = [rows EXCEPT ![i].overage = left]
        BY <1>2, <2>2 DEF RollOverage
      <3>2. q.overage - 1 \in Nat
        BY <1>3, <3>1 DEF BillRow
      <3> QED
        BY <3>1, <3>2
    <2> QED
      BY <2>1, <2>2
  <1>5. PICK r : r = [q EXCEPT !.overage = v]
    OBVIOUS
  <1>6. rows' = [rows EXCEPT ![i] = r]
    BY <1>2, <1>4, <1>5
  <1>7. r \in BillRow /\ r.linked = q.linked /\ r.reported = q.reported
    BY <1>3, <1>5 DEF BillRow
  <1> QED
    BY <1>1, <1>2, <1>6, <1>7, KeepsEdited

(* Steps of the worker that edit no row. *)
LEMMA KeepsReporting ==
    ASSUME BillOK, UNCHANGED <<rows, remote, events, marked, handler, cards, refunder, assigned>>,
           billed'.total \in Seq(Nat), Len(billed'.total) = Len(rows), DOMAIN billed' = {"total", "keys"},
           ReportsOK'
    PROVE  BillOK'
  <1>1. EventsDone'
    BY EventsSame, Unpack
  <1>2. LinksOK' /\ GiftsOK'
    BY Unpack, GiftsSame DEF LinksOK
  <1>3. BillTypes'
    BY Unpack DEF BillTypes, RowsTyped
  <1> QED
    BY <1>1, <1>2, <1>3 DEF BillOK

(* The worker reads what is to be reported. *)
LEMMA KeepsTick == ASSUME BillOK, NEW i \in DOMAIN rows, tick(i) PROVE BillOK'
  <1>1. PICK q, w : q = rows[i] /\ w = [pc |-> "report", row |-> i, base |-> q.reported,
                                        delta |-> q.overage - q.reported]
    OBVIOUS
  <1>2. /\ worker' = w /\ q.overage > q.reported
        /\ UNCHANGED <<rows, billed, remote, events, marked, handler, cards, refunder, assigned>>
    BY <1>1 DEF tick, ListSubscriptionsForOverageReport, Overage
  <1>3. q \in BillRow /\ BillTypes /\ ReportsOK
    BY <1>1, RowTyped, Unpack
  <1>4. q.reported \in Nat /\ q.overage - q.reported \in Nat
    BY <1>2, <1>3 DEF BillRow
  <1>5. /\ DOMAIN w = {"pc", "row", "base", "delta"} /\ w.pc = "report" /\ w.row = i
        /\ w.base = q.reported /\ w.delta \in Nat
    BY <1>1, <1>4
  <1>6. WorkerOK'
    BY <1>1, <1>2, <1>4, <1>5 DEF WorkerOK
  <1>7. KeysOK' /\ ReportedWasBilled'
    BY <1>2, <1>3 DEF ReportsOK, KeysOK, ReportedWasBilled
  <1>8. billed'.total \in Seq(Nat) /\ Len(billed'.total) = Len(rows) /\ DOMAIN billed' = {"total", "keys"}
    BY <1>2, <1>3 DEF BillTypes, RowsTyped
  <1> QED
    BY <1>2, <1>6, <1>7, <1>8, KeepsReporting DEF ReportsOK

(* Stripe bills at least what the worker sends, whether it has seen the key *)
(* or not.                                                                  *)
LEMMA KeepsReport == ASSUME BillOK, ReportOverage PROVE BillOK'
  <1>1. BillTypes /\ RowsTyped /\ ReportsOK
    BY Unpack
  <1>2. PICK w, t, q : w = worker /\ t = billed.total /\ q = <<w.row, w.base, w.delta>>
    OBVIOUS
  <1>3. PICK sent : sent = [total |-> IF q \in billed.keys THEN t ELSE [t EXCEPT ![w.row] = @ + w.delta],
                            keys |-> billed.keys \cup {q}]
    OBVIOUS
  <1>4. /\ w.pc = "report"
        /\ UNCHANGED <<rows, remote, events, marked, handler, cards, refunder, assigned>>
        /\ \/ billed' = sent /\ worker' = [w EXCEPT !.pc = "advance"]
           \/ billed' \in {sent, billed} /\ worker' = Idle
    BY <1>2, <1>3 DEF ReportOverage, idempotencyKey, Overage
  <1>5. PICK n \in Nat : n = Len(rows) /\ DOMAIN rows = 1..n
    BY <1>1, LenProperties DEF RowsTyped
  <1>6. /\ DOMAIN w = {"pc", "row", "base", "delta"}
        /\ w.row \in 1..n /\ w.base \in Nat /\ w.delta \in Nat /\ rows[w.row].reported = w.base
    BY <1>1, <1>2, <1>4, <1>5 DEF ReportsOK, WorkerOK, Idle
  <1>7. t \in Seq(Nat) /\ Len(t) = n /\ \A i \in 1..n : t[i] \in Nat
    BY <1>1, <1>2, <1>5, ElementOfSeq DEF RowsTyped
  <1>8. w.base <= t[w.row]
    BY <1>1, <1>2, <1>5, <1>6 DEF ReportsOK, ReportedWasBilled
  <1>9. PICK u : u = sent.total
    OBVIOUS
  <1>10. sent.total = u /\ sent.keys = billed.keys \cup {q} /\ DOMAIN sent = {"total", "keys"}
    BY <1>3, <1>9
  <1>11. /\ u \in Seq(Nat) /\ Len(u) = n /\ u[w.row] >= w.base + w.delta
         /\ \A i \in 1..n : u[i] \in Nat /\ u[i] >= t[i]
    <2>1. CASE q \in billed.keys
      <3>1. u = t
        BY <1>3, <1>9, <2>1
      <3>2. t[w.row] >= w.base + w.delta
        BY <1>1, <1>2, <2>1 DEF ReportsOK, KeysOK
      <3> QED
        BY <1>7, <3>1, <3>2
    <2>2. CASE q \notin billed.keys
      <3>1. PICK v : v = t[w.row] + w.delta
        OBVIOUS
      <3>2. u = [t EXCEPT ![w.row] = v]
        BY <1>3, <1>9, <2>2, <3>1
      <3>3. v \in Nat /\ v >= t[w.row] /\ v >= w.base + w.delta
        BY <1>6, <1>7, <1>8, <3>1
      <3>4. u \in Seq(Nat) /\ Len(u) = n /\ \A i \in 1..n : u[i] = IF i = w.row THEN v ELSE t[i]
        BY <1>6, <1>7, <3>2, <3>3, ExceptSeq
      <3>5. u[w.row] = v
        BY <1>6, <3>4
      <3>6. ASSUME NEW i \in 1..n PROVE u[i] \in Nat /\ u[i] >= t[i]
        <4>1. PICK a \in Nat : a = t[i]
          BY <1>7
        <4>2. CASE i = w.row
          BY <3>3, <3>5, <4>2
        <4>3. CASE i # w.row
          BY <3>4, <4>1, <4>3
        <4> QED
          BY <4>2, <4>3
      <3> QED
        BY <3>3, <3>4, <3>5, <3>6
    <2> QED
      BY <2>1, <2>2
  <1>12. CASE billed' = billed
    <2>1. worker' = Idle \/ (billed' = sent /\ worker' = [w EXCEPT !.pc = "advance"])
      BY <1>4
    <2>2. ReportedWasBilled' /\ KeysOK'
      BY <1>1, <1>4, <1>12 DEF ReportsOK, ReportedWasBilled, KeysOK
    <2>3. WorkerOK'
      <3>1. CASE worker' = Idle
        BY <3>1 DEF WorkerOK
      <3>2. CASE billed' = sent /\ worker' = [w EXCEPT !.pc = "advance"]
        <4>1. PICK x : x = [w EXCEPT !.pc = "advance"]
          OBVIOUS
        <4>2. /\ DOMAIN x = {"pc", "row", "base", "delta"} /\ x.pc = "advance" /\ x.row = w.row
              /\ x.base = w.base /\ x.delta = w.delta
          BY <1>6, <4>1
        <4> QED
          BY <1>4, <1>5, <1>6, <1>10, <1>11, <3>2, <4>1, <4>2 DEF WorkerOK
      <3> QED
        BY <2>1, <3>1, <3>2
    <2> QED
      BY <1>1, <1>4, <1>12, <2>2, <2>3, KeepsReporting DEF BillTypes, RowsTyped, ReportsOK
  <1>13. CASE billed' = sent
    <2>1. KeysOK'
      <3> SUFFICES ASSUME NEW k \in billed.keys \cup {q}
                   PROVE  k[1] \in 1..n /\ k[2] \in Nat /\ k[3] \in Nat /\ u[k[1]] >= k[2] + k[3]
        BY <1>4, <1>5, <1>10, <1>13 DEF KeysOK
      <3>1. CASE k \in billed.keys
        <4>1. k[1] \in 1..n /\ k[2] \in Nat /\ k[3] \in Nat /\ t[k[1]] >= k[2] + k[3]
          BY <1>1, <1>2, <1>5, <3>1 DEF ReportsOK, KeysOK
        <4> QED
          BY SMTT(40), <1>7, <1>11, <4>1
      <3>2. CASE k = q
        BY <1>2, <1>6, <1>11, <3>2
      <3> QED
        BY <3>1, <3>2
    <2>2. ReportedWasBilled'
      <3> SUFFICES ASSUME NEW i \in 1..n PROVE rows[i].reported <= u[i]
        BY <1>4, <1>5, <1>10, <1>13 DEF ReportedWasBilled
      <3>1. rows[i] \in BillRow /\ rows[i].reported <= t[i]
        BY <1>1, <1>2, <1>5, RowTyped DEF ReportsOK, ReportedWasBilled
      <3>2. PICK a \in Nat : a = rows[i].reported
        BY <3>1 DEF BillRow
      <3> QED
        BY <1>7, <1>11, <3>1, <3>2
    <2>3. WorkerOK'
      <3>1. CASE worker' = Idle
        BY <3>1 DEF WorkerOK
      <3>2. CASE worker' = [w EXCEPT !.pc = "advance"]
        <4>1. PICK x : x = [w EXCEPT !.pc = "advance"]
          OBVIOUS
        <4>2. /\ DOMAIN x = {"pc", "row", "base", "delta"} /\ x.pc = "advance" /\ x.row = w.row
              /\ x.base = w.base /\ x.delta = w.delta
          BY <1>6, <4>1
        <4> QED
          BY <1>4, <1>5, <1>6, <1>10, <1>11, <1>13, <3>2, <4>1, <4>2 DEF WorkerOK
      <3> QED
        BY <1>4, <3>1, <3>2
    <2> QED
      BY <1>4, <1>5, <1>10, <1>11, <1>13, <2>1, <2>2, <2>3, KeepsReporting DEF ReportsOK
  <1> QED
    BY <1>4, <1>12, <1>13

(* What is added to the row's report was billed. *)
LEMMA KeepsAdvance == ASSUME BillOK, AdvanceOverageReported PROVE BillOK'
  <1>1. BillTypes /\ RowsTyped /\ ReportsOK /\ EventsDone /\ LinksOK /\ GiftsOK
    BY Unpack
  <1>2. PICK w, t : w = worker /\ t = billed.total
    OBVIOUS
  <1>3. /\ w.pc = "advance" /\ worker' = Idle
        /\ UNCHANGED <<billed, remote, events, marked, handler, cards, refunder, assigned>>
        /\ rows' = [rows EXCEPT ![w.row].reported = @ + w.delta] \/ UNCHANGED rows
    BY <1>2 DEF AdvanceOverageReported, Overage
  <1>4. WorkerOK'
    BY <1>3 DEF WorkerOK
  <1>5. CASE UNCHANGED rows
    <2>1. ReportsOK'
      BY <1>1, <1>3, <1>4, <1>5 DEF ReportsOK, KeysOK, ReportedWasBilled
    <2> QED
      BY <1>1, <1>3, <1>5, <2>1, KeepsReporting DEF BillTypes, RowsTyped
  <1>6. CASE rows' = [rows EXCEPT ![w.row].reported = @ + w.delta]
    <2>1. PICK n \in Nat : n = Len(rows) /\ DOMAIN rows = 1..n
      BY <1>1, LenProperties DEF RowsTyped
    <2>2. PICK i, q, r : i = w.row /\ q = rows[i] /\ r = [q EXCEPT !.reported = q.reported + w.delta]
      OBVIOUS
    <2>3. /\ i \in 1..n /\ w.base \in Nat /\ w.delta \in Nat /\ q.reported = w.base
          /\ t[i] >= w.base + w.delta
      BY <1>1, <1>2, <1>3, <2>1, <2>2 DEF ReportsOK, WorkerOK, Idle
    <2>4. q \in BillRow
      BY <1>1, <2>1, <2>2, <2>3, RowTyped
    <2>5. rows' = [rows EXCEPT ![i] = r]
      BY <1>6, <2>2
    <2>6. r \in BillRow /\ r.linked = q.linked /\ r.reported = w.base + w.delta
      BY <2>2, <2>3, <2>4 DEF BillRow
    <2>7. /\ rows' \in Seq(BillRow) /\ Len(rows') = Len(rows)
          /\ \A j \in 1..Len(rows) : rows'[j] = IF j = i THEN r ELSE rows[j]
      BY <1>1, <2>5, <2>6, RowChanged DEF RowsTyped
    <2>8. DOMAIN rows' = 1..n
      BY <2>1, <2>7, LenProperties
    <2>9. ReportedWasBilled'
      <3> SUFFICES ASSUME NEW j \in 1..n PROVE rows'[j].reported <= t[j]
        BY <1>2, <1>3, <2>8 DEF ReportedWasBilled
      <3>1. t[j] \in Nat
        BY <1>1, <1>2, <2>1, ElementOfSeq DEF RowsTyped
      <3>2. rows[j].reported <= t[j]
        BY <1>1, <1>2, <2>1 DEF ReportsOK, ReportedWasBilled
      <3>3. CASE j = i
        BY <2>1, <2>3, <2>6, <2>7, <3>1, <3>3
      <3>4. CASE j # i
        BY <2>1, <2>7, <3>2, <3>4
      <3> QED
        BY <3>3, <3>4
    <2>10. KeysOK'
      BY <1>1, <1>3, <2>1, <2>8 DEF ReportsOK, KeysOK
    <2>11. \A j \in 1..n : rows'[j].linked = rows[j].linked
      BY <2>1, <2>2, <2>6, <2>7
    <2>12. LinksOK'
      BY <1>1, <1>3, <2>1, <2>8, <2>11 DEF LinksOK
    <2>13. EventsDone' /\ GiftsOK'
      BY <1>1, <1>3, EventsSame, GiftsSame
    <2>14. BillTypes'
      BY <1>1, <1>3, <2>7 DEF BillTypes, RowsTyped
    <2> QED
      BY <1>4, <2>9, <2>10, <2>12, <2>13, <2>14 DEF BillOK, ReportsOK
  <1> QED
    BY <1>3, <1>5, <1>6

----------------------------------------------------------------------------
(* Billing: what follows. *)

LEMMA BillStep == BillOK /\ [BillNext]_billVars => BillOK'
  <1> SUFFICES ASSUME BillOK, [BillNext]_billVars PROVE BillOK'
    OBVIOUS
  <1>1. CASE PlanNext(Checkout)
    BY <1>1, KeepsCreateCheckout, KeepsPayCheckout, KeepsChangeStatus, KeepsWebhook, KeepsCheckoutCompleted,
       KeepsLink, KeepsGiftMinted, KeepsHandle, KeepsSetStatus, KeepsHandlerEnds DEF PlanNext
  <1>2. CASE GiftNext
    BY <1>2, KeepsGiftCheckout, KeepsRedeem, KeepsRefund DEF GiftNext
  <1>3. CASE OverageNext
    BY <1>3, KeepsSwitch, KeepsMetered, KeepsTick, KeepsReport, KeepsAdvance DEF OverageNext
  <1>4. CASE UNCHANGED billVars
    <2>1. UNCHANGED <<rows, billed, remote, events, marked, handler, assigned, worker, cards, refunder>>
      BY <1>4 DEF billVars
    <2>2. cards' \in [Gift -> Card] /\ GiftsOK'
      BY <2>1, Unpack, GiftsSame DEF BillTypes
    <2> QED
      BY <2>1, <2>2, KeepsCards
  <1> QED
    BY <1>1, <1>2, <1>3, <1>4 DEF BillNext

LEMMA BillInvariant == BillSpec => []BillOK
  BY BillStarts, BillStep, PTL DEF BillSpec

LEMMA OneLinkedRow ==
    ASSUME BillOK, NEW k \in Checkout PROVE Cardinality(GetSubscriptionByStripeID(k)) <= 1
  <1>1. PICK S : S = GetSubscriptionByStripeID(k)
    OBVIOUS
  <1>2. k # None
    BY CheckoutAssumption
  <1>3. \A i, j \in S : i = j
    BY <1>1, <1>2 DEF BillOK, LinksOK, GetSubscriptionByStripeID
  <1>4. CASE S = {}
    <2>1. Cardinality(S) = 0
      BY <1>4, FS_EmptySet, Zenon
    <2> QED
      BY <1>1, <2>1
  <1>5. CASE S # {}
    <2>1. PICK i : S = {i}
      BY <1>3, <1>5
    <2>2. Cardinality(S) = 1
      BY <2>1, FS_Singleton, Zenon
    <2> QED
      BY <1>1, <2>2
  <1> QED
    BY <1>4, <1>5

(* A checkout is applied once and linked to one row, and the money of a gift *)
(* card goes one way, though Stripe repeats and reorders its events and      *)
(* requests fail or stop half way (backend/internal/billing).                *)
THEOREM PaymentsAreTakenOnce == BillSpec => []PaymentsOnce
  <1>1. BillOK => PaymentsOnce
    BY OneLinkedRow DEF BillOK, EventsDone, AppliedOK, GiftsOK, PaymentsOnce, CheckoutAppliedOnce
  <1> QED
    BY <1>1, BillInvariant, PTL

(* What a row says was reported to Stripe was billed by Stripe, though the    *)
(* worker may fail or stop between the two (backend's overage worker).        *)
THEOREM ReportsWereBilled == BillSpec => []ReportedWasBilled
  <1>1. BillOK => ReportedWasBilled
    BY DEF BillOK, ReportsOK
  <1> QED
    BY <1>1, BillInvariant, PTL

----------------------------------------------------------------------------
(* Notices: the invariant. *)

Change == [new : Value, old : Value, effective : Nat, status : {"pending", "cancelled", "applied"},
           notified : BOOLEAN]

ChangesTyped ==
    /\ changes \in Seq(Change) /\ writes \in Seq(Nat)
    /\ mailed \in Seq([User -> Nat]) /\ owed \in Seq(SUBSET User)
    /\ Len(writes) = Len(changes) /\ Len(mailed) = Len(changes) /\ Len(owed) = Len(changes)
    /\ price \in Value /\ onPlan \subseteq User
    /\ applier \in Seq(DOMAIN changes)

(* A change is written when it stops being pending to be applied, and only  *)
(* then.                                                                    *)
WritesOK == \A id \in DOMAIN changes : writes[id] = IF changes[id].status = "applied" THEN 1 ELSE 0

(* The customers of the notice being sent are mailed or left to be mailed.  *)
NotifierOK ==
    /\ DOMAIN notifier = {"id", "left"}
    /\ notifier.id = 0 => notifier.left = {}
    /\ notifier.id # 0 =>
          /\ notifier.id \in DOMAIN changes
          /\ \A u \in owed[notifier.id] : u \in notifier.left \/ mailed[notifier.id][u] > 0

(* The alert that the worker owes is on record and has not gone out. *)
WatcherOK ==
    \/ watcher = [pc |-> "idle"]
    \/ /\ DOMAIN watcher = {"pc", "seen", "at"} /\ watcher.pc \in {"mark", "alert"}
       /\ watcher.pc = "alert" =>
             /\ <<watcher.seen.period, watcher.at>> \in fired
             /\ <<watcher.seen.period, watcher.at>> \in DOMAIN alerts =>
                   alerts[<<watcher.seen.period, watcher.at>>] = 0

AlertsOK == alerts \in [(0..1) \X Level -> Nat] /\ AlertedOnce /\ WatcherOK

NoticesOK == ChangesTyped /\ WritesOK /\ NotifierOK /\ NoticeReachedEveryone /\ AlertsOK

LEMMA NoticesStart == NoticeInit => NoticesOK
  <1> SUFFICES ASSUME NoticeInit PROVE NoticesOK
    OBVIOUS
  <1>1. changes = << >> /\ writes = << >> /\ mailed = << >> /\ owed = << >> /\ DOMAIN changes = {}
    BY DEF NoticeInit
  <1>2. ChangesTyped
    <2>1. \A S : << >> \in Seq(S)
      BY EmptySeq
    <2> QED
      BY <1>1, <2>1 DEF NoticeInit, ChangesTyped
  <1>3. WritesOK /\ NoticeReachedEveryone
    BY <1>1 DEF WritesOK, NoticeReachedEveryone
  <1>4. NotifierOK
    BY DEF NoticeInit, NotifierOK
  <1>5. AlertsOK
    BY DEF NoticeInit, AlertsOK, AlertedOnce, WatcherOK
  <1> QED
    BY <1>2, <1>3, <1>4, <1>5 DEF NoticesOK

LEMMA ChangeRows ==
    ASSUME ChangesTyped
    PROVE  \E n \in Nat :
              /\ n = Len(changes) /\ DOMAIN changes = 1..n /\ DOMAIN writes = 1..n
              /\ DOMAIN mailed = 1..n /\ DOMAIN owed = 1..n
              /\ \A i \in 1..n : /\ changes[i] \in Change /\ writes[i] \in Nat
                                 /\ mailed[i] \in [User -> Nat] /\ owed[i] \subseteq User
  <1>1. PICK n \in Nat : n = Len(changes) /\ DOMAIN changes = 1..n /\ DOMAIN writes = 1..n
                         /\ DOMAIN mailed = 1..n /\ DOMAIN owed = 1..n
    BY LenProperties DEF ChangesTyped
  <1>2. \A i \in 1..n : changes[i] \in Change /\ writes[i] \in Nat
    BY <1>1, ElementOfSeq DEF ChangesTyped
  <1>3. \A i \in 1..n : mailed[i] \in [User -> Nat]
    BY <1>1, ElementOfSeq DEF ChangesTyped
  <1>4. \A i \in 1..n : owed[i] \in SUBSET User
    BY <1>1, ElementOfSeq DEF ChangesTyped
  <1> QED
    BY <1>1, <1>2, <1>3, <1>4

(* Steps that concern alerts only. *)
LEMMA PricesSame ==
    ASSUME NoticesOK, UNCHANGED <<price, changes, writes, applier, onPlan, notifier, mailed, owed>>, AlertsOK'
    PROVE  NoticesOK'
  BY DEF NoticesOK, ChangesTyped, WritesOK, NotifierOK, NoticeReachedEveryone

LEMMA AlertsSame == ASSUME NoticesOK, UNCHANGED <<quota, fired, watcher, alerts>> PROVE AlertsOK'
  BY DEF NoticesOK, AlertsOK, AlertedOnce, WatcherOK

----------------------------------------------------------------------------
(* Notices: alerts. *)

LEMMA NextIsNotAlert ==
    ASSUME WatcherOK, watcher.pc # "idle", watcher' = NextThreshold
    PROVE  watcher' = [pc |-> "idle"] \/ (DOMAIN watcher' = {"pc", "seen", "at"} /\ watcher'.pc = "mark")
  <1>1. PICK w : w = watcher
    OBVIOUS
  <1>2. DOMAIN w = {"pc", "seen", "at"}
    BY <1>1 DEF WatcherOK
  <1>3. PICK x : x = watcher'
    OBVIOUS
  <1>4. x = [pc |-> "idle"] \/ x = [w EXCEPT !.pc = "mark", !.at = @ + 1]
    BY <1>1, <1>3 DEF NextThreshold
  <1>5. CASE x = [w EXCEPT !.pc = "mark", !.at = @ + 1]
    <2>1. DOMAIN x = {"pc", "seen", "at"} /\ x.pc = "mark"
      BY <1>2, <1>5
    <2> QED
      BY <1>3, <2>1
  <1> QED
    BY <1>3, <1>4, <1>5

LEMMA AlertsKept == ASSUME NoticesOK, AlertNext PROVE NoticesOK'
  <1>1. UNCHANGED <<price, changes, writes, applier, onPlan, notifier, mailed, owed>>
    BY DEF AlertNext, Spend, NextPeriod, ListActiveSubscriptionsForNotifications, processSubscription,
           dispatch, WatcherStops, Prices, Mails
  <1>2. AlertsOK
    BY DEF NoticesOK
  <1>3. CASE UNCHANGED <<fired, watcher, alerts>>
    <2>1. AlertsOK'
      BY <1>2, <1>3 DEF AlertsOK, AlertedOnce, WatcherOK
    <2> QED
      BY <1>1, <2>1, PricesSame
  <1>4. ASSUME UNCHANGED <<fired, alerts>>,
               \/ watcher' = [pc |-> "idle"]
               \/ DOMAIN watcher' = {"pc", "seen", "at"} /\ watcher'.pc = "mark"
        PROVE  NoticesOK'
    <2>1. AlertsOK'
      BY <1>2, <1>4 DEF AlertsOK, AlertedOnce, WatcherOK
    <2> QED
      BY <1>1, <2>1, PricesSame
  <1>5. CASE ListActiveSubscriptionsForNotifications
    <2>1. PICK w : w = [pc |-> "mark", seen |-> quota, at |-> 1]
      OBVIOUS
    <2>2. watcher' = w /\ UNCHANGED <<fired, alerts>> /\ DOMAIN w = {"pc", "seen", "at"} /\ w.pc = "mark"
      BY <1>5, <2>1 DEF ListActiveSubscriptionsForNotifications
    <2> QED
      BY <1>4, <2>2
  <1>6. CASE WatcherStops
    BY <1>4, <1>6 DEF WatcherStops
  <1>7. CASE processSubscription
    <2>1. CASE watcher' = NextThreshold /\ UNCHANGED <<fired, alerts>>
      BY <1>2, <1>4, <1>7, <2>1, NextIsNotAlert DEF processSubscription, AlertsOK
    <2>2. CASE /\ <<watcher.seen.period, watcher.at>> \notin fired
               /\ fired' = fired \cup {<<watcher.seen.period, watcher.at>>}
               /\ watcher' = [watcher EXCEPT !.pc = "alert"]
      <3>1. PICK w, x, a : w = watcher /\ x = [w EXCEPT !.pc = "alert"] /\ a = <<w.seen.period, w.at>>
        OBVIOUS
      <3>2. w.pc = "mark" /\ DOMAIN w = {"pc", "seen", "at"} /\ UNCHANGED alerts
        BY <1>2, <1>7, <3>1 DEF processSubscription, AlertsOK, WatcherOK
      <3>3. /\ DOMAIN x = {"pc", "seen", "at"} /\ x.pc = "alert" /\ <<x.seen.period, x.at>> = a
            /\ watcher' = x /\ a \notin fired /\ fired' = fired \cup {a}
        BY <2>2, <3>1, <3>2
      <3>4. a \in DOMAIN alerts => alerts[a] = 0
        BY <1>2, <3>3 DEF AlertsOK, AlertedOnce
      <3>5. WatcherOK'
        BY <3>2, <3>3, <3>4 DEF WatcherOK
      <3>6. AlertedOnce' /\ alerts' \in [(0..1) \X Level -> Nat]
        BY <1>2, <3>2, <3>3 DEF AlertsOK, AlertedOnce
      <3> QED
        BY <1>1, <3>5, <3>6, PricesSame DEF AlertsOK
    <2> QED
      BY <1>7, <2>1, <2>2 DEF processSubscription, MarkThresholdNotified
  <1>8. CASE dispatch
    <2>1. PICK a : a = <<watcher.seen.period, watcher.at>>
      OBVIOUS
    <2>2. /\ watcher.pc = "alert" /\ alerts' = [alerts EXCEPT ![a] = @ + 1] /\ watcher' = NextThreshold
          /\ UNCHANGED fired
      BY <1>8, <2>1 DEF dispatch
    <2>3. watcher' = [pc |-> "idle"] \/ (DOMAIN watcher' = {"pc", "seen", "at"} /\ watcher'.pc = "mark")
      BY <1>2, <2>2, NextIsNotAlert DEF AlertsOK
    <2>4. a \in fired /\ (a \in DOMAIN alerts => alerts[a] = 0)
      BY <1>2, <2>1, <2>2 DEF AlertsOK, WatcherOK
    <2>5. WatcherOK'
      BY <2>3 DEF WatcherOK
    <2>6. AlertedOnce' /\ alerts' \in [(0..1) \X Level -> Nat]
      <3>1. CASE a \in DOMAIN alerts
        <4>1. /\ alerts' \in [(0..1) \X Level -> Nat] /\ alerts'[a] = 1
              /\ \A b \in DOMAIN alerts : b # a => alerts'[b] = alerts[b]
          BY <1>2, <2>2, <2>4, <3>1 DEF AlertsOK
        <4> QED
          BY <1>2, <2>2, <2>4, <3>1, <4>1 DEF AlertsOK, AlertedOnce
      <3>2. CASE a \notin DOMAIN alerts
        <4>1. alerts' = alerts
          BY <1>2, <2>2, <3>2 DEF AlertsOK
        <4> QED
          BY <1>2, <2>2, <4>1 DEF AlertsOK, AlertedOnce
      <3> QED
        BY <3>1, <3>2
    <2> QED
      BY <1>1, <2>5, <2>6, PricesSame DEF AlertsOK
  <1> QED
    BY <1>3, <1>5, <1>6, <1>7, <1>8 DEF AlertNext, Spend, NextPeriod

----------------------------------------------------------------------------
(* Notices: prices. *)

LEMMA ExceptTyped ==
    ASSUME NEW S, NEW s \in Seq(S), NEW i, NEW v, i \in DOMAIN s => v \in S
    PROVE  /\ [s EXCEPT ![i] = v] \in Seq(S) /\ Len([s EXCEPT ![i] = v]) = Len(s)
           /\ DOMAIN [s EXCEPT ![i] = v] = DOMAIN s
           /\ \A j \in DOMAIN s : [s EXCEPT ![i] = v][j] = IF j = i THEN v ELSE s[j]
  <1>1. DOMAIN s = 1..Len(s)
    BY LenProperties
  <1>2. CASE i \in DOMAIN s
    <2>1. [s EXCEPT ![i] = v] \in Seq(S) /\ Len([s EXCEPT ![i] = v]) = Len(s)
      BY <1>1, <1>2, ExceptSeq
    <2> QED
      BY <1>2, <2>1
  <1>3. CASE i \notin DOMAIN s
    <2>1. PICK t : t = [s EXCEPT ![i] = v]
      OBVIOUS
    <2>2. t = s
      BY <1>3, <2>1
    <2> QED
      BY <1>3, <2>1, <2>2
  <1> QED
    BY <1>2, <1>3

LEMMA SeqGrows == ASSUME NEW S, NEW T, S \subseteq T, NEW s \in Seq(S) PROVE s \in Seq(T)
  <1>1. PICK n \in Nat : s \in [1..n -> S]
    BY LenProperties
  <1>2. s \in [1..n -> T]
    BY <1>1
  <1>3. \A m \in Nat : \A g \in [1..m -> T] : g \in Seq(T)
    OBVIOUS
  <1> QED
    BY <1>2, <1>3, Zenon

LEMMA IsSeq == ASSUME NEW n \in Nat, NEW S, NEW s \in [1..n -> S] PROVE s \in Seq(S)
  OBVIOUS

(* A change is added, with nobody told and nothing written. *)
LEMMA NoticesCreate ==
    ASSUME NoticesOK, NEW v \in Value, NEW effective \in 0..MaxDay, CreatePricingChange(v, effective)
    PROVE  NoticesOK'
  <1>1. PICK c, z : /\ c = [new |-> v, old |-> price, effective |-> effective, status |-> "pending",
                            notified |-> FALSE]
                    /\ z = [u \in User |-> 0]
    OBVIOUS
  <1>2. /\ changes' = Append(changes, c) /\ writes' = Append(writes, 0)
        /\ mailed' = Append(mailed, z) /\ owed' = Append(owed, {})
        /\ UNCHANGED <<price, applier, onPlan, notifier, quota, fired, watcher, alerts>>
    BY <1>1 DEF CreatePricingChange, Alerts
  <1>3. ChangesTyped
    BY DEF NoticesOK
  <1>4. c \in Change /\ c.status = "pending" /\ ~c.notified /\ z \in [User -> Nat]
    BY <1>1, <1>3 DEF Change, ChangesTyped
  <1>5. PICK n \in Nat :
              /\ n = Len(changes) /\ DOMAIN changes = 1..n /\ DOMAIN writes = 1..n
              /\ DOMAIN mailed = 1..n /\ DOMAIN owed = 1..n
    BY <1>3, ChangeRows
  <1>6. Len(writes) = n /\ Len(mailed) = n /\ Len(owed) = n
    BY <1>3, <1>5 DEF ChangesTyped
  <1>7. changes' \in Seq(Change) /\ Len(changes') = n + 1 /\ changes'[n + 1] = c
        /\ \A i \in 1..n : changes'[i] = changes[i]
    BY <1>2, <1>3, <1>4, <1>5, AppendProperties DEF ChangesTyped
  <1>8. writes' \in Seq(Nat) /\ Len(writes') = n + 1 /\ writes'[n + 1] = 0
        /\ \A i \in 1..n : writes'[i] = writes[i]
    BY <1>2, <1>3, <1>6, AppendProperties DEF ChangesTyped
  <1>9. mailed' \in Seq([User -> Nat]) /\ Len(mailed') = n + 1
        /\ \A i \in 1..n : mailed'[i] = mailed[i]
    BY <1>2, <1>3, <1>4, <1>6, AppendProperties DEF ChangesTyped
  <1>10. owed' \in Seq(SUBSET User) /\ Len(owed') = n + 1
        /\ \A i \in 1..n : owed'[i] = owed[i]
    <2>1. {} \in SUBSET User
      OBVIOUS
    <2> QED
      BY SMTT(40), <1>2, <1>3, <1>6, <2>1, AppendProperties DEF ChangesTyped
  <1>11. DOMAIN changes' = 1..(n + 1) /\ \A i \in 1..(n + 1) : i \in 1..n \/ i = n + 1
    BY <1>5, <1>7, LenProperties
  <1>12. ChangesTyped'
    <2>1. 1..n \subseteq 1..(n + 1)
      BY <1>5
    <2>2. applier \in Seq(1..n)
      BY <1>3, <1>5 DEF ChangesTyped
    <2>3. applier' \in Seq(DOMAIN changes')
      BY <1>2, <1>11, <2>1, <2>2, SeqGrows
    <2> QED
      BY <1>2, <1>3, <1>7, <1>8, <1>9, <1>10, <2>3 DEF ChangesTyped
  <1>13. WritesOK'
    <2> SUFFICES ASSUME NEW i \in 1..(n + 1)
                 PROVE  writes'[i] = IF changes'[i].status = "applied" THEN 1 ELSE 0
      BY <1>11 DEF WritesOK
    <2>1. CASE i \in 1..n
      BY <1>5, <1>7, <1>8, <2>1 DEF NoticesOK, WritesOK
    <2>2. CASE i = n + 1
      BY <1>4, <1>7, <1>8, <2>2
    <2> QED
      BY <1>11, <2>1, <2>2
  <1>14. NoticeReachedEveryone'
    BY <1>4, <1>5, <1>7, <1>9, <1>10, <1>11 DEF NoticesOK, NoticeReachedEveryone
  <1>15. 1..n \subseteq 1..(n + 1)
    BY <1>5
  <1>16. NotifierOK'
    BY <1>2, <1>5, <1>9, <1>10, <1>11, <1>15 DEF NoticesOK, NotifierOK
  <1> QED
    BY <1>2, <1>12, <1>13, <1>14, <1>16, AlertsSame DEF NoticesOK

(* A change is edited: only its mark says whom it reached. *)
LEMMA NoticesEdited ==
    ASSUME NoticesOK, NEW id, NEW c, NEW k,
           id \in DOMAIN changes => /\ c \in Change /\ k = IF c.status = "applied" THEN 1 ELSE 0
                                    /\ c.notified => \A u \in owed[id] : mailed[id][u] > 0,
           changes' = [changes EXCEPT ![id] = c], writes' = [writes EXCEPT ![id] = k],
           price' \in Value, applier' \in Seq(DOMAIN changes),
           UNCHANGED <<onPlan, mailed, owed, quota, fired, watcher, alerts>>,
           notifier' = notifier \/ notifier' = [id |-> 0, left |-> {}]
    PROVE  NoticesOK'
  <1>1. ChangesTyped
    BY DEF NoticesOK
  <1>2. PICK n \in Nat :
              /\ n = Len(changes) /\ DOMAIN changes = 1..n /\ DOMAIN writes = 1..n
              /\ DOMAIN mailed = 1..n /\ DOMAIN owed = 1..n
    BY <1>1, ChangeRows
  <1>3. changes' \in Seq(Change) /\ Len(changes') = Len(changes) /\ DOMAIN changes' = 1..n
        /\ \A j \in 1..n : changes'[j] = IF j = id THEN c ELSE changes[j]
    BY <1>1, <1>2, ExceptTyped DEF ChangesTyped
  <1>4. id \in DOMAIN writes => k \in Nat
    BY <1>2
  <1>5. writes' \in Seq(Nat) /\ Len(writes') = Len(writes)
        /\ \A j \in 1..n : writes'[j] = IF j = id THEN k ELSE writes[j]
    <2>1. PICK s \in Seq(Nat) : s = writes /\ DOMAIN s = 1..n
      BY <1>1, <1>2 DEF ChangesTyped
    <2>2. id \in DOMAIN s => k \in Nat
      BY <1>4, <2>1
    <2>3. PICK u : u = [s EXCEPT ![id] = k]
      OBVIOUS
    <2>4. u \in Seq(Nat) /\ Len(u) = Len(s) /\ \A j \in 1..n : u[j] = IF j = id THEN k ELSE s[j]
      <3>1. Len(s) = n
        BY <1>1, <1>2, <2>1 DEF ChangesTyped
      <3>2. CASE id \in 1..n
        BY <2>1, <2>2, <2>3, <3>1, <3>2, ExceptSeq
      <3>3. CASE id \notin 1..n
        <4>1. u = s
          BY <2>1, <2>3, <3>3
        <4> QED
          BY <2>1, <3>3, <4>1
      <3> QED
        BY <3>2, <3>3
    <2> QED
      BY <2>1, <2>3, <2>4
  <1>6. ChangesTyped'
    BY <1>1, <1>2, <1>3, <1>5 DEF ChangesTyped
  <1>7. WritesOK'
    BY <1>2, <1>3, <1>5 DEF NoticesOK, WritesOK
  <1>8. NoticeReachedEveryone'
    BY <1>2, <1>3 DEF NoticesOK, NoticeReachedEveryone
  <1>9. NotifierOK'
    <2>1. CASE notifier' = [id |-> 0, left |-> {}]
      BY <2>1 DEF NotifierOK
    <2>2. CASE notifier' = notifier
      BY <1>2, <1>3, <2>2 DEF NoticesOK, NotifierOK
    <2> QED
      BY <2>1, <2>2
  <1> QED
    BY <1>6, <1>7, <1>8, <1>9, AlertsSame DEF NoticesOK

LEMMA NoticesPriceSet ==
    ASSUME NoticesOK, UNCHANGED <<changes, writes, onPlan, notifier, mailed, owed, quota, fired, watcher, alerts>>,
           price' \in Value, applier' \in Seq(DOMAIN changes)
    PROVE  NoticesOK'
  BY AlertsSame DEF NoticesOK, ChangesTyped, WritesOK, NotifierOK, NoticeReachedEveryone

(* What the applier writes is still pending when it writes it. *)
LEMMA NoticesApplied == ASSUME NoticesOK, applyOnePricingChange PROVE NoticesOK'
  <1>1. PICK id : id = Head(applier)
    OBVIOUS
  <1>2. applier # << >> /\ UNCHANGED <<onPlan, notifier, mailed, owed, quota, fired, watcher, alerts>>
    BY DEF applyOnePricingChange, Mails, Alerts
  <1>3. ChangesTyped
    BY DEF NoticesOK
  <1>4. id \in DOMAIN changes /\ applier' \in Seq(DOMAIN changes)
    BY <1>1, <1>2, <1>3, HeadTailProperties DEF applyOnePricingChange, ChangesTyped
  <1>5. CASE UNCHANGED <<price, changes, writes>>
    BY <1>2, <1>3, <1>4, <1>5, NoticesPriceSet DEF ChangesTyped
  <1>6. CASE /\ StillPending(id) /\ price' = changes[id].new
             /\ changes' = [changes EXCEPT ![id].status = IF @ = "pending" THEN "applied" ELSE @]
             /\ writes' = [writes EXCEPT ![id] = @ + 1]
    <2>1. PICK q, c, k : q = changes[id] /\ c = [q EXCEPT !.status = "applied"] /\ k = writes[id] + 1
      OBVIOUS
    <2>2. changes' = [changes EXCEPT ![id] = c] /\ writes' = [writes EXCEPT ![id] = k] /\ q.status = "pending"
      BY <1>6, <2>1 DEF StillPending, Pending
    <2>3. q \in Change
      BY <1>3, <1>4, <2>1, ChangeRows
    <2>4. c \in Change /\ c.status = "applied" /\ c.notified = q.notified
      BY <2>1, <2>3 DEF Change
    <2>5. writes[id] = 0
      BY <1>4, <2>1, <2>2 DEF NoticesOK, WritesOK
    <2>6. c.notified => \A u \in owed[id] : mailed[id][u] > 0
      BY <1>4, <2>1, <2>4 DEF NoticesOK, NoticeReachedEveryone
    <2>7. price' \in Value /\ k = 1
      BY <1>6, <2>1, <2>3, <2>5 DEF Change
    <2> QED
      BY <1>2, <1>4, <2>2, <2>4, <2>6, <2>7, NoticesEdited
  <1> QED
    BY <1>1, <1>5, <1>6 DEF applyOnePricingChange

(* The rows that are due are listed. *)
LEMMA NoticesListed == ASSUME NoticesOK, ApplyPendingPricingChanges PROVE NoticesOK'
  <1>1. ChangesTyped
    BY DEF NoticesOK
  <1>2. UNCHANGED <<price, changes, writes, onPlan, notifier, mailed, owed, quota, fired, watcher, alerts>>
    BY DEF ApplyPendingPricingChanges, Mails, Alerts
  <1>3. PICK n \in Nat : DOMAIN changes = 1..n
    BY <1>1, ChangeRows
  <1>4. Cardinality(Due) \in Nat
    <2>1. IsFiniteSet(1..n)
      BY <1>3, FS_Interval
    <2>2. Due \subseteq 1..n
      BY <1>3 DEF Due
    <2> QED
      BY <2>1, <2>2, FS_Subset, FS_CardinalityType
  <1>5. applier' \in Seq(Due)
    BY <1>4, IsSeq DEF ApplyPendingPricingChanges
  <1>6. applier' \in Seq(DOMAIN changes)
    BY <1>5, SeqGrows DEF Due
  <1> QED
    BY <1>1, <1>2, <1>6, NoticesPriceSet DEF ChangesTyped

LEMMA NoticesCancelled == ASSUME NoticesOK, NEW id \in DOMAIN changes, CancelPricingChange(id) PROVE NoticesOK'
  <1>1. /\ Pending(id) /\ changes' = [changes EXCEPT ![id].status = "cancelled"]
        /\ UNCHANGED <<price, writes, applier, onPlan, notifier, mailed, owed, quota, fired, watcher, alerts>>
    BY DEF CancelPricingChange, Mails, Alerts
  <1>2. PICK q, c : q = changes[id] /\ c = [q EXCEPT !.status = "cancelled"]
    OBVIOUS
  <1>3. ChangesTyped
    BY DEF NoticesOK
  <1>4. q \in Change
    BY <1>2, <1>3, ChangeRows
  <1>5. c \in Change /\ c.status = "cancelled" /\ c.notified = q.notified /\ changes' = [changes EXCEPT ![id] = c]
    BY <1>1, <1>2, <1>4 DEF Change
  <1>6. writes[id] = 0
    BY <1>1 DEF NoticesOK, WritesOK, Pending
  <1>7. writes' = [writes EXCEPT ![id] = 0]
    <2>1. [writes EXCEPT ![id] = 0] = writes
      <3>1. PICK n \in Nat : writes \in [1..n -> Nat]
        BY <1>3, LenProperties DEF ChangesTyped
      <3> QED
        BY <1>6, <3>1
    <2> QED
      BY <1>1, <2>1
  <1>8. c.notified => \A u \in owed[id] : mailed[id][u] > 0
    BY <1>2, <1>5 DEF NoticesOK, NoticeReachedEveryone
  <1> QED
    BY <1>1, <1>3, <1>5, <1>7, <1>8, NoticesEdited DEF ChangesTyped

----------------------------------------------------------------------------
(* Notices: mails. *)

LEMMA NoticesDispatched == ASSUME NoticesOK, NEW id \in DOMAIN changes, dispatchPlanChange(id) PROVE NoticesOK'
  <1>1. /\ ~changes[id].notified /\ notifier' = [id |-> id, left |-> onPlan]
        /\ owed' = [owed EXCEPT ![id] = onPlan]
        /\ UNCHANGED <<price, changes, writes, applier, onPlan, mailed, quota, fired, watcher, alerts>>
    BY DEF dispatchPlanChange, ListUsersOnPlan, Prices, Alerts
  <1>2. ChangesTyped
    BY DEF NoticesOK
  <1>3. PICK n \in Nat : /\ n = Len(changes) /\ DOMAIN changes = 1..n
                         /\ DOMAIN mailed = 1..n /\ DOMAIN owed = 1..n /\ Len(owed) = n
    BY <1>2, ChangeRows DEF ChangesTyped
  <1>4. onPlan \in SUBSET User
    BY <1>2 DEF ChangesTyped
  <1>5. owed' \in Seq(SUBSET User) /\ Len(owed') = n /\ owed'[id] = onPlan
        /\ \A j \in 1..n : j # id => owed'[j] = owed[j]
    BY <1>1, <1>2, <1>3, <1>4, ExceptSeq DEF ChangesTyped
  <1>6. ChangesTyped'
    BY <1>1, <1>2, <1>3, <1>5 DEF ChangesTyped
  <1>7. WritesOK'
    BY <1>1 DEF NoticesOK, WritesOK
  <1>8. NoticeReachedEveryone'
    BY <1>1, <1>3, <1>5 DEF NoticesOK, NoticeReachedEveryone
  <1>9. NotifierOK'
    <2>1. DOMAIN notifier' = {"id", "left"} /\ notifier'.id = id /\ notifier'.left = onPlan
      BY <1>1
    <2>2. id # 0
      BY <1>3
    <2> QED
      BY <1>1, <1>5, <2>1, <2>2 DEF NotifierOK
  <1> QED
    BY <1>1, <1>6, <1>7, <1>8, <1>9, AlertsSame DEF NoticesOK

LEMMA NoticesSent == ASSUME NoticesOK, NEW u \in User, Send(u) PROVE NoticesOK'
  <1>1. PICK id : id = notifier.id
    OBVIOUS
  <1>2. /\ u \in notifier.left /\ mailed' = [mailed EXCEPT ![id][u] = @ + 1]
        /\ notifier' = [notifier EXCEPT !.left = @ \ {u}]
        /\ UNCHANGED <<price, changes, writes, applier, onPlan, owed, quota, fired, watcher, alerts>>
    BY <1>1 DEF Send, Prices, Alerts
  <1>3. ChangesTyped
    BY DEF NoticesOK
  <1>4. PICK n \in Nat : /\ n = Len(changes) /\ DOMAIN changes = 1..n /\ DOMAIN owed = 1..n
                         /\ DOMAIN mailed = 1..n /\ Len(mailed) = n
                         /\ \A i \in 1..n : mailed[i] \in [User -> Nat] /\ owed[i] \subseteq User
    BY <1>3, ChangeRows DEF ChangesTyped
  <1>5. id \in 1..n /\ \A v \in owed[id] : v \in notifier.left \/ mailed[id][v] > 0
    BY <1>1, <1>2, <1>4 DEF NoticesOK, NotifierOK
  <1>6. PICK m, x : m = mailed[id] /\ x = [m EXCEPT ![u] = m[u] + 1]
    OBVIOUS
  <1>7. m \in [User -> Nat] /\ x \in [User -> Nat] /\ x[u] > 0 /\ \A v \in User : v # u => x[v] = m[v]
    BY <1>4, <1>5, <1>6
  <1>8. mailed' = [mailed EXCEPT ![id] = x]
    BY <1>2, <1>6
  <1>9. mailed' \in Seq([User -> Nat]) /\ Len(mailed') = n /\ mailed'[id] = x
        /\ \A j \in 1..n : j # id => mailed'[j] = mailed[j]
    BY <1>3, <1>4, <1>5, <1>7, <1>8, ExceptSeq DEF ChangesTyped
  <1>10. ChangesTyped'
    BY <1>2, <1>3, <1>4, <1>9 DEF ChangesTyped
  <1>11. WritesOK'
    BY <1>2 DEF NoticesOK, WritesOK
  <1>12. \A j \in 1..n, v \in User : mailed[j][v] > 0 => mailed'[j][v] > 0
    <2> SUFFICES ASSUME NEW j \in 1..n, NEW v \in User, mailed[j][v] > 0 PROVE mailed'[j][v] > 0
      OBVIOUS
    <2>1. CASE j = id /\ v = u
      BY <1>7, <1>9, <2>1
    <2>2. CASE j = id /\ v # u
      BY <1>6, <1>7, <1>9, <2>2
    <2>3. CASE j # id
      BY <1>9, <2>3
    <2> QED
      BY <2>1, <2>2, <2>3
  <1>13. NoticeReachedEveryone'
    BY <1>2, <1>4, <1>12 DEF NoticesOK, NoticeReachedEveryone
  <1>14. NotifierOK'
    <2>1. PICK y : y = [notifier EXCEPT !.left = @ \ {u}]
      OBVIOUS
    <2>2. DOMAIN y = {"id", "left"} /\ y.id = id /\ y.left = notifier.left \ {u}
      BY <1>1, <2>1 DEF NoticesOK, NotifierOK
    <2>3. id # 0
      BY <1>4, <1>5
    <2>4. \A v \in owed[id] : v \in y.left \/ mailed'[id][v] > 0
      <3> SUFFICES ASSUME NEW v \in owed[id], v \notin y.left PROVE mailed'[id][v] > 0
        OBVIOUS
      <3>1. CASE v = u
        BY <1>7, <1>9, <3>1
      <3>2. CASE v # u
        BY <1>4, <1>5, <1>12, <2>2, <3>2
      <3> QED
        BY <3>1, <3>2
    <2> QED
      BY <1>2, <1>4, <1>5, <2>1, <2>2, <2>3, <2>4 DEF NotifierOK
  <1> QED
    BY <1>2, <1>10, <1>11, <1>13, <1>14, AlertsSame DEF NoticesOK

(* The mark is written when nobody is left. *)
LEMMA NoticesMarked == ASSUME NoticesOK, MarkPricingChangeNotified PROVE NoticesOK'
  <1>1. PICK id, q, c, k : id = notifier.id /\ q = changes[id] /\ c = [q EXCEPT !.notified = TRUE] /\ k = writes[id]
    OBVIOUS
  <1>2. /\ id # 0 /\ notifier.left = {} /\ notifier' = [id |-> 0, left |-> {}]
        /\ changes' = [changes EXCEPT ![id].notified = TRUE] \/ UNCHANGED changes
        /\ UNCHANGED <<price, writes, applier, onPlan, mailed, owed, quota, fired, watcher, alerts>>
    BY <1>1 DEF MarkPricingChangeNotified, MarkWhenSent, Alerts
  <1>3. ChangesTyped
    BY DEF NoticesOK
  <1>4. id \in DOMAIN changes /\ \A u \in owed[id] : mailed[id][u] > 0
    BY <1>1, <1>2 DEF NoticesOK, NotifierOK
  <1>5. CASE UNCHANGED changes
    <2>1. NotifierOK'
      BY <1>2 DEF NotifierOK
    <2> QED
      BY <1>2, <1>5, <2>1, AlertsSame DEF NoticesOK, ChangesTyped, WritesOK, NoticeReachedEveryone
  <1>6. CASE changes' = [changes EXCEPT ![id].notified = TRUE]
    <2>1. q \in Change
      BY <1>1, <1>3, <1>4, ChangeRows
    <2>2. c \in Change /\ c.status = q.status /\ changes' = [changes EXCEPT ![id] = c]
      BY <1>1, <1>6, <2>1 DEF Change
    <2>3. writes' = [writes EXCEPT ![id] = k]
      <3>1. PICK n \in Nat : writes \in [1..n -> Nat]
        BY <1>3, LenProperties DEF ChangesTyped
      <3> QED
        BY <1>1, <1>2, <3>1
    <2>4. k = IF c.status = "applied" THEN 1 ELSE 0
      BY <1>1, <1>4, <2>2 DEF NoticesOK, WritesOK
    <2> QED
      BY <1>2, <1>3, <1>4, <2>2, <2>3, <2>4, NoticesEdited DEF ChangesTyped
  <1> QED
    BY <1>2, <1>5, <1>6

LEMMA NoticesStopped == ASSUME NoticesOK, NotifierStops \/ \E u \in User : LeavePlan(u) PROVE NoticesOK'
  <1>1. UNCHANGED <<price, changes, writes, applier, mailed, owed, quota, fired, watcher, alerts>>
    BY DEF NotifierStops, LeavePlan, Prices, Alerts
  <1>2. onPlan' \subseteq User
    BY DEF NotifierStops, LeavePlan, NoticesOK, ChangesTyped
  <1>3. NotifierOK'
    BY <1>1 DEF NotifierStops, LeavePlan, NoticesOK, NotifierOK
  <1> QED
    BY <1>1, <1>2, <1>3, AlertsSame DEF NoticesOK, ChangesTyped, WritesOK, NoticeReachedEveryone

----------------------------------------------------------------------------
(* Notices: what follows. *)

LEMMA NoticeStep == NoticesOK /\ [NoticeNext]_noticeVars => NoticesOK'
  <1> SUFFICES ASSUME NoticesOK, [NoticeNext]_noticeVars PROVE NoticesOK'
    OBVIOUS
  <1>1. CASE PriceNext
    <2>1. ASSUME NextDay \/ (\E v \in Value : UpdatePlan(v)) \/ ApplierStops PROVE NoticesOK'
      <3>1. UNCHANGED <<changes, writes, onPlan, notifier, mailed, owed, quota, fired, watcher, alerts>>
        BY <2>1 DEF NextDay, UpdatePlan, ApplierStops, Prices, Mails, Alerts
      <3>2. price' \in Value
        BY <2>1 DEF NextDay, UpdatePlan, ApplierStops, Prices, NoticesOK, ChangesTyped
      <3>3. applier' = applier \/ applier' = << >>
        BY <2>1 DEF NextDay, UpdatePlan, ApplierStops, Prices
      <3>4. \A S : << >> \in Seq(S)
        BY EmptySeq
      <3>5. applier' \in Seq(DOMAIN changes)
        BY <3>3, <3>4 DEF NoticesOK, ChangesTyped
      <3> QED
        BY <3>1, <3>2, <3>5, NoticesPriceSet
    <2> QED
      BY <1>1, <2>1, NoticesCreate, NoticesCancelled, NoticesListed, NoticesApplied DEF PriceNext, Create, Cancel
  <1>2. CASE MailNext
    BY <1>2, NoticesDispatched, NoticesSent, NoticesMarked, NoticesStopped DEF MailNext
  <1>3. CASE AlertNext
    BY <1>3, AlertsKept
  <1>4. CASE UNCHANGED noticeVars
    BY <1>4, AlertsSame, PricesSame DEF noticeVars
  <1> QED
    BY <1>1, <1>2, <1>3, <1>4 DEF NoticeNext

(* A change that was called off is not made and none is made twice, a change *)
(* marked as notified was mailed to all who were on the plan, and an alert   *)
(* goes out once (backend/internal/pricing, backend/internal/notifications). *)
THEOREM PromisesAreKept == NoticeSpec => []NoticesKept
  <1>1. NoticesOK => NoticesKept
    <2> SUFFICES ASSUME NoticesOK PROVE NoticesKept
      OBVIOUS
    <2>1. CancelledNeverApplied
      <3> SUFFICES ASSUME NEW id \in DOMAIN changes
                   PROVE  writes[id] <= 1 /\ (writes[id] = 1) = (changes[id].status = "applied")
        BY DEF CancelledNeverApplied
      <3>1. writes[id] = IF changes[id].status = "applied" THEN 1 ELSE 0
        BY DEF NoticesOK, WritesOK
      <3> QED
        BY <3>1
    <2> QED
      BY <2>1 DEF NoticesOK, AlertsOK, NoticesKept
  <1>2. NoticeInit => NoticesOK
    BY NoticesStart
  <1> QED
    BY <1>1, <1>2, NoticeStep, PTL DEF NoticeSpec

----------------------------------------------------------------------------
(* Accounts: the lock, in numbers.  With u requests that hold on to an old  *)
(* lock, Twice(u) is twice the guesses they can still make room for.        *)

RequestCount == Cardinality(Request)

Twice(u) == u * (2 * LockoutThreshold + 2 * RequestCount - 1 - u)

(* Twice the wrong guesses that may still be answered without a fault: u    *)
(* requests hold on to an old lock, v are about to be answered.             *)
Left(u, v, failed, locked, n) ==
    IF locked > n THEN 2 * v + Twice(u)
    ELSE IF locked # 0 THEN Twice(RequestCount)
    ELSE 2 * (LockoutThreshold - failed) + 2 * (RequestCount - 1 - u) + Twice(u)

Guessed(u, v, failed, locked, wrong, n, f) ==
    /\ locked = 0 => failed < LockoutThreshold /\ u + 1 <= RequestCount
    /\ locked # 0 => failed >= LockoutThreshold
    /\ 2 * wrong + Left(u, v, failed, locked, n) <= Twice(RequestCount) + 2 * f

LEMMA LockConstants ==
    /\ LockoutThreshold \in Nat /\ LockoutThreshold >= 1
    /\ LockoutDuration \in Nat /\ LockoutDuration >= 1 /\ RequestCount \in Nat
  BY LockoutAssumption, FS_CardinalityType DEF RequestCount

LEMMA TwiceStep ==
    ASSUME NEW u \in Nat
    PROVE  /\ Twice(u) \in Int /\ Twice(0) = 0
           /\ Twice(u + 1) = Twice(u) + 2 * (LockoutThreshold + RequestCount - 1 - u)
  <1>1. PICK t \in Nat, r \in Nat : t = LockoutThreshold /\ r = RequestCount
    BY LockConstants
  <1>2. PICK a \in Int : a = 2 * t + 2 * r - 1
    BY <1>1
  <1>3. Twice(u) = u * (a - u) /\ Twice(u + 1) = (u + 1) * (a - (u + 1)) /\ Twice(0) = 0 * (a - 0)
    BY <1>1, <1>2 DEF Twice
  <1>4. (u + 1) * (a - (u + 1)) = u * (a - u) + a - 2 * u - 1
    BY <1>2
  <1>5. Twice(u + 1) = Twice(u) + 2 * (t + r - 1 - u)
    BY <1>2, <1>3, <1>4
  <1> QED
    BY <1>1, <1>2, <1>3, <1>5

LEMMA TwiceGrows ==
    ASSUME NEW u \in Nat, u <= RequestCount
    PROVE  Twice(u) + 2 * (RequestCount - u) <= Twice(RequestCount)
  <1>1. PICK t \in Nat, r \in Nat, d \in Nat : t = LockoutThreshold /\ t >= 1 /\ r = RequestCount /\ d = r - u
    BY LockConstants
  <1>2. Twice(u) = u * (2 * t + 2 * r - 1 - u) /\ Twice(r) = r * (2 * t + r - 1)
    BY <1>1 DEF Twice
  <1>3. Twice(r) - Twice(u) = d * (2 * t + d - 1)
    <2>1. r = u + d
      BY <1>1
    <2>2. (u + d) * (2 * t + (u + d) - 1) - u * (2 * t + 2 * (u + d) - 1 - u) = d * (2 * t + d - 1)
      BY <1>1
    <2> QED
      BY <1>2, <2>1, <2>2
  <1>4. d * (2 * t + d - 1) >= 2 * d
    <2>1. CASE d = 0
      BY <1>1, <2>1
    <2>2. CASE d # 0
      <3>1. PICK k \in Nat : k = 2 * t + d - 3
        BY <1>1, <2>2
      <3>2. d * (2 * t + d - 1) = d * k + 2 * d /\ d * k >= 0
        BY <1>1, <3>1
      <3> QED
        BY <1>1, <3>2
    <2> QED
      BY <2>1, <2>2
  <1>5. Twice(u) \in Int /\ Twice(r) \in Int
    BY <1>1, TwiceStep
  <1> QED
    BY <1>1, <1>3, <1>4, <1>5

(* What the account's row, with u and v other requests at it, allows. *)
LEMMA GuessBounds ==
    ASSUME NEW u \in Nat, NEW v \in Nat, u + v <= RequestCount
    PROVE  /\ Twice(u) \in Int /\ 2 * v + Twice(u) <= Twice(RequestCount) /\ 0 <= Twice(u)
           /\ u + 1 <= RequestCount =>
                 2 * LockoutThreshold + 2 * (RequestCount - 1 - u) + Twice(u) <= Twice(RequestCount)
  <1>1. PICK t \in Nat, r \in Nat : t = LockoutThreshold /\ t >= 1 /\ r = RequestCount
    BY LockConstants
  <1>2. Twice(u) \in Int /\ Twice(r) \in Int /\ Twice(u) + 2 * (r - u) <= Twice(r)
    BY <1>1, TwiceStep, TwiceGrows
  <1>3. u + 1 <= r => Twice(u) + 2 * (t + r - 1 - u) <= Twice(r)
    <2> SUFFICES ASSUME u + 1 <= r PROVE Twice(u) + 2 * (t + r - 1 - u) <= Twice(r)
      OBVIOUS
    <2>1. PICK w \in Nat : w = u + 1
      OBVIOUS
    <2>2. Twice(w) \in Int /\ Twice(w) = Twice(u) + 2 * (t + r - 1 - u) /\ Twice(w) + 2 * (r - w) <= Twice(r)
      BY <1>1, <2>1, TwiceStep, TwiceGrows
    <2> QED
      BY <1>1, <1>2, <2>1, <2>2
  <1>4. 0 <= Twice(u)
    <2>1. PICK k \in Nat : k = 2 * t + 2 * r - 1 - u
      BY <1>1
    <2>2. Twice(u) = u * k /\ u * k >= 0
      BY <1>1, <2>1 DEF Twice
    <2> QED
      BY <2>2
  <1> QED
    BY <1>1, <1>2, <1>3, <1>4

LEMMA GuessFewer ==
    ASSUME NEW u \in Nat, NEW v \in Nat, NEW k \in {0, 1}, NEW l \in {0, 1}, u + k + v + l <= RequestCount,
           NEW f \in Nat, NEW lk \in Nat, NEW w \in Nat, NEW n \in Nat, NEW m \in Nat, NEW c \in Nat, c >= m,
           Guessed(u + k, v + l, f, lk, w, n, m)
    PROVE  Guessed(u, v, f, lk, w, n, c)
  <1>1. PICK t \in Nat, r \in Nat : t = LockoutThreshold /\ t >= 1 /\ r = RequestCount
    BY LockConstants
  <1>2. Twice(u) \in Int /\ Twice(u + 1) = Twice(u) + 2 * (t + r - 1 - u) /\ Twice(r) \in Int
    BY <1>1, TwiceStep
  <1>3. CASE k = 0
    BY <1>1, <1>2, <1>3 DEF Guessed, Left
  <1>4. CASE k = 1
    BY <1>1, <1>2, <1>4 DEF Guessed, Left
  <1> QED
    BY <1>3, <1>4

(* A request finds an old lock over ... *)
LEMMA GuessFound ==
    ASSUME NEW u \in Nat, NEW v \in Nat, NEW f \in Nat, NEW lk \in Nat, NEW w \in Nat, NEW n \in Nat,
           NEW m \in Nat, lk # 0, ~(lk > n), Guessed(u, v, f, lk, w, n, m)
    PROVE  Guessed(u + 1, v, f, lk, w, n, m)
  BY DEF Guessed, Left

(* ... or goes on to the password: without a lock, or past one that could   *)
(* not be read.                                                             *)
LEMMA GuessBegun ==
    ASSUME NEW u \in Nat, NEW v \in Nat, NEW f \in Nat, NEW lk \in Nat, NEW w \in Nat, NEW n \in Nat,
           NEW m \in Nat, NEW c \in Nat, (c = m /\ ~(lk > n)) \/ c = m + 1, Guessed(u, v, f, lk, w, n, m)
    PROVE  Guessed(u, v + 1, f, lk, w, n, c)
  <1>1. PICK t \in Nat, r \in Nat : t = LockoutThreshold /\ t >= 1 /\ r = RequestCount
    BY LockConstants
  <1>2. Twice(u) \in Int /\ Twice(r) \in Int
    BY <1>1, TwiceStep
  <1> QED
    BY <1>1, <1>2 DEF Guessed, Left

(* An old lock is taken away, or a newer one with it, or none. *)
LEMMA GuessUnlocked ==
    ASSUME NEW u \in Nat, NEW v \in Nat, u + v + 1 <= RequestCount, NEW f \in Nat, NEW lk \in Nat, NEW w \in Nat,
           NEW n \in Nat, NEW m \in Nat, NEW c \in Nat, c >= m, Guessed(u + 1, v, f, lk, w, n, m)
    PROVE  Guessed(u, v + 1, 0, 0, w, n, c) /\ Guessed(u, v + 1, f, lk, w, n, c)
  <1>1. PICK t \in Nat, r \in Nat : t = LockoutThreshold /\ t >= 1 /\ r = RequestCount
    BY LockConstants
  <1>2. Twice(u) \in Int /\ Twice(u + 1) = Twice(u) + 2 * (t + r - 1 - u) /\ Twice(r) \in Int
    BY <1>1, TwiceStep
  <1>3. Twice(u + 1) <= Twice(r)
    <2>1. PICK x \in Nat : x = u + 1
      OBVIOUS
    <2>2. Twice(x) + 2 * (r - x) <= Twice(r) /\ Twice(x) \in Int
      BY <1>1, <2>1, TwiceGrows, TwiceStep
    <2>3. x <= r
      BY <1>1, <2>1
    <2> QED
      BY <1>1, <1>2, <2>1, <2>2, <2>3
  <1>4. Guessed(u, v + 1, f, lk, w, n, c)
    BY <1>1, <1>2 DEF Guessed, Left
  <1>5. 2 * w + Twice(u + 1) <= Twice(r) + 2 * c
    <2>1. CASE lk > n
      BY <1>1, <1>2, <2>1 DEF Guessed, Left
    <2>2. CASE ~(lk > n) /\ lk # 0
      BY <1>1, <1>2, <1>3, <2>2 DEF Guessed, Left
    <2>3. CASE lk = 0
      BY <1>1, <1>2, <2>3 DEF Guessed, Left
    <2> QED
      BY <2>1, <2>2, <2>3
  <1>6. Left(u, v + 1, 0, 0, n) = 2 * t + 2 * (r - 1 - u) + Twice(u)
    BY <1>1, <1>2 DEF Left
  <1>7. Guessed(u, v + 1, 0, 0, w, n, c)
    BY <1>1, <1>2, <1>5, <1>6 DEF Guessed
  <1> QED
    BY <1>4, <1>7

(* A wrong guess is recorded, and may set the lock, or is not. *)
LEMMA GuessFailed ==
    ASSUME NEW u \in Nat, NEW v \in Nat, u + v + 1 <= RequestCount, NEW f \in Nat, NEW lk \in Nat, NEW w \in Nat,
           NEW n \in Nat, NEW m \in Nat, Guessed(u, v + 1, f, lk, w, n, m)
    PROVE  /\ Guessed(u, v, f + 1, IF f + 1 >= LockoutThreshold THEN n + LockoutDuration ELSE lk, w + 1, n, m)
           /\ Guessed(u, v, f, lk, w + 1, n, m + 1)
  <1>1. PICK t \in Nat, r \in Nat, d \in Nat :
              t = LockoutThreshold /\ t >= 1 /\ r = RequestCount /\ d = LockoutDuration /\ d >= 1
    BY LockConstants
  <1>2. Twice(u) \in Int /\ Twice(r) \in Int /\ 2 * (v + 1) + Twice(u) <= Twice(r)
    <2>1. PICK x \in Nat : x = v + 1 /\ u + x <= r
      BY <1>1
    <2> QED
      BY <1>1, <2>1, GuessBounds, TwiceStep
  <1>3. Guessed(u, v, f, lk, w + 1, n, m + 1)
    BY <1>1, <1>2 DEF Guessed, Left
  <1>4. CASE f + 1 >= t
    <2>1. 2 * (w + 1) + 2 * v + Twice(u) <= Twice(r) + 2 * m
      <3>1. CASE lk > n
        BY <1>1, <1>2, <3>1 DEF Guessed, Left
      <3>2. CASE ~(lk > n) /\ lk # 0
        BY <1>1, <1>2, <3>2 DEF Guessed, Left
      <3>3. CASE lk = 0
        BY <1>1, <1>2, <1>4, <3>3 DEF Guessed, Left
      <3> QED
        BY <3>1, <3>2, <3>3
    <2>2. PICK x \in Nat : x = n + d /\ x > n /\ x # 0
      BY <1>1
    <2>3. Guessed(u, v, f + 1, x, w + 1, n, m)
      BY <1>1, <1>2, <1>4, <2>1, <2>2 DEF Guessed, Left
    <2> QED
      BY <1>1, <1>3, <1>4, <2>2, <2>3
  <1>5. CASE ~(f + 1 >= t)
    <2>1. lk = 0
      BY <1>1, <1>5 DEF Guessed
    <2>2. Guessed(u, v, f + 1, lk, w + 1, n, m)
      BY <1>1, <1>2, <1>5, <2>1 DEF Guessed, Left
    <2> QED
      BY <1>1, <1>3, <1>5, <2>2
  <1> QED
    BY <1>4, <1>5

(* A right guess, a new password and a new account clear the row. *)
LEMMA GuessAnew ==
    ASSUME NEW u \in Nat, NEW v \in Nat, u + v <= RequestCount, u + 1 <= RequestCount, NEW n \in Nat, NEW m \in Nat
    PROVE  Guessed(u, v, 0, 0, 0, n, m)
  <1>1. PICK t \in Nat, r \in Nat : t = LockoutThreshold /\ t >= 1 /\ r = RequestCount
    BY LockConstants
  <1>2. /\ Twice(u) \in Int /\ Twice(r) \in Int
        /\ 2 * t + 2 * (r - 1 - u) + Twice(u) <= Twice(r)
    BY <1>1, GuessBounds, TwiceStep
  <1> QED
    BY <1>1, <1>2 DEF Guessed, Left

(* The wrong guesses are counted anew: as time passes, or because the right *)
(* one could not be recorded.                                               *)
LEMMA GuessForgotten ==
    ASSUME NEW u \in Nat, NEW v \in Nat, u + v <= RequestCount, NEW f \in Nat, NEW lk \in Nat, NEW w \in Nat,
           NEW n \in Nat, NEW m \in Nat, Guessed(u, v, f, lk, w, n, m), NEW x \in Nat, NEW c \in Nat
    PROVE  Guessed(u, v, f, lk, 0, x, c)
  <1>1. PICK t \in Nat, r \in Nat : t = LockoutThreshold /\ t >= 1 /\ r = RequestCount
    BY LockConstants
  <1>2. /\ Twice(u) \in Int /\ 2 * v + Twice(u) <= Twice(r) /\ Twice(r) \in Int
        /\ u + 1 <= r => 2 * t + 2 * (r - 1 - u) + Twice(u) <= Twice(r)
    BY <1>1, GuessBounds, TwiceStep
  <1> QED
    BY <1>1, <1>2 DEF Guessed, Left

----------------------------------------------------------------------------
(* Accounts: the invariant. *)

Account == [live : BOOLEAN, password : Nat, failed : Nat, locked : Nat, wrong : Nat]

(* What a request under way carries. *)
Shape(x) ==
    /\ x.pc \in {"lock", "unlock", "verify"} => DOMAIN x = {"pc", "a", "ok"}
    /\ x.pc \in {"lock", "unlock", "verify", "issue", "password", "link", "revoke", "reset"} => x.a \in Nat
    /\ x.pc = "issue" => x.parent \in Nat
    /\ x.pc = "revoke" => x.then \in {"idle", "reset"}
    /\ x.pc = "window" => x.w \in Nat

ShapesOK == DOMAIN req = Request /\ \A h \in Request : Shape(req[h])

At01(x, p, a) == IF x.pc = p /\ x.a = a THEN 1 ELSE 0

Unlocking(a) == {h \in Request : req[h].pc = "unlock" /\ req[h].a = a}
Verifying(a) == {h \in Request : req[h].pc = "verify" /\ req[h].a = a}

LockedOK(a) ==
    Guessed(Cardinality(Unlocking(a)), Cardinality(Verifying(a)), accounts[a].failed, accounts[a].locked,
            accounts[a].wrong, now, faults)

LockOK ==
    /\ accounts \in Seq(Account) /\ now \in Nat /\ faults \in Nat
    /\ \A a \in DOMAIN accounts : LockedOK(a)

LEMMA CountWithout ==
    ASSUME NEW S \in SUBSET Request, NEW h \in Request
    PROVE  /\ Cardinality(S \ {h}) \in Nat /\ IsFiniteSet(S \ {h})
           /\ Cardinality(S) = Cardinality(S \ {h}) + IF h \in S THEN 1 ELSE 0
  <1>1. IsFiniteSet(Request)
    BY LockoutAssumption
  <1>2. IsFiniteSet(S) /\ IsFiniteSet(S \ {h})
    BY <1>1, FS_Subset
  <1>3. Cardinality(S \ {h}) \in Nat /\ Cardinality(S) \in Nat
    BY <1>2, FS_CardinalityType
  <1>4. CASE h \in S
    BY <1>2, <1>3, <1>4, FS_RemoveElement
  <1>5. CASE h \notin S
    <2>1. S \ {h} = S
      BY <1>5
    <2>2. Cardinality(S \ {h}) = Cardinality(S) /\ (IF h \in S THEN 1 ELSE 0) = 0
      BY <1>5, <2>1, Zenon
    <2> QED
      BY <1>2, <1>3, <2>2
  <1> QED
    BY <1>4, <1>5

(* A step of one request leaves the others where they are. *)
LEMMA RequestCounts ==
    ASSUME DOMAIN req = Request, NEW h \in Request, NEW x, Go(h, x), NEW a
    PROVE  \E u \in Nat, v \in Nat :
              /\ u + v + 1 <= RequestCount
              /\ Cardinality(Unlocking(a)) = u + At01(req[h], "unlock", a)
              /\ Cardinality(Verifying(a)) = v + At01(req[h], "verify", a)
              /\ Cardinality(Unlocking(a)') = u + At01(x, "unlock", a)
              /\ Cardinality(Verifying(a)') = v + At01(x, "verify", a)
  <1>1. PICK U, V, W, X : /\ U = Unlocking(a) /\ V = Verifying(a) /\ W = Unlocking(a)' /\ X = Verifying(a)'
    OBVIOUS
  <1>2. U \in SUBSET Request /\ V \in SUBSET Request /\ W \in SUBSET Request /\ X \in SUBSET Request
    BY <1>1 DEF Unlocking, Verifying
  <1>3. req'[h] = x /\ \A g \in Request : g # h => req'[g] = req[g]
    BY DEF Go
  <1>4. U \ {h} = W \ {h} /\ V \ {h} = X \ {h}
    BY <1>1, <1>3 DEF Unlocking, Verifying
  <1>5. /\ h \in U <=> req[h].pc = "unlock" /\ req[h].a = a
        /\ h \in V <=> req[h].pc = "verify" /\ req[h].a = a
        /\ h \in W <=> x.pc = "unlock" /\ x.a = a
        /\ h \in X <=> x.pc = "verify" /\ x.a = a
    BY <1>1, <1>3 DEF Unlocking, Verifying
  <1>6. PICK u, v : u = Cardinality(U \ {h}) /\ v = Cardinality(V \ {h})
    OBVIOUS
  <1>7. /\ u \in Nat /\ v \in Nat /\ IsFiniteSet(U \ {h}) /\ IsFiniteSet(V \ {h})
        /\ Cardinality(U) = u + (IF h \in U THEN 1 ELSE 0) /\ Cardinality(V) = v + (IF h \in V THEN 1 ELSE 0)
        /\ Cardinality(W) = u + (IF h \in W THEN 1 ELSE 0) /\ Cardinality(X) = v + (IF h \in X THEN 1 ELSE 0)
    BY <1>2, <1>4, <1>6, CountWithout
  <1>8. u + v + 1 <= RequestCount
    <2>1. PICK A, B, C : A = U \ {h} /\ B = V \ {h} /\ C = Request \ {h}
      OBVIOUS
    <2>2. IsFiniteSet(Request) /\ IsFiniteSet(C) /\ Cardinality(C) \in Nat /\ Cardinality(C) + 1 = RequestCount
      <3>1. /\ Cardinality(C) \in Nat /\ IsFiniteSet(C)
            /\ Cardinality(Request) = Cardinality(C) + IF h \in Request THEN 1 ELSE 0
        BY <2>1, CountWithout
      <3> QED
        BY <3>1, LockoutAssumption DEF RequestCount
    <2>3. A \cap B = {} /\ (A \cup B) \subseteq C
      BY <1>1, <1>2, <2>1 DEF Unlocking, Verifying
    <2>4. Cardinality(A \cup B) = Cardinality(A) + Cardinality(B) - Cardinality(A \cap B)
      BY <1>7, <2>1, FS_Union
    <2>5. Cardinality(A \cap B) = 0
      BY <2>3, FS_EmptySet
    <2>6. Cardinality(A \cup B) <= Cardinality(C)
      BY <2>2, <2>3, FS_Subset
    <2> QED
      BY <1>6, <1>7, <2>1, <2>2, <2>4, <2>5, <2>6
  <1> QED
    BY <1>1, <1>5, <1>7, <1>8 DEF At01

----------------------------------------------------------------------------
(* Accounts: what steps do to the lock. *)

LEMMA LockEdited ==
    ASSUME LockOK, DOMAIN req = Request, NEW h \in Request, NEW x, NEW i, NEW r, Go(h, x), UNCHANGED now,
           faults' \in Nat, faults' >= faults,
           accounts' = [accounts EXCEPT ![i] = r], i \in DOMAIN accounts => r \in Account,
           x.pc \in {"unlock", "verify"} => x.a = i,
           i \in DOMAIN accounts =>
              \A u \in Nat, v \in Nat :
                 /\ u + v + 1 <= RequestCount
                 /\ Guessed(u + At01(req[h], "unlock", i), v + At01(req[h], "verify", i), accounts[i].failed,
                            accounts[i].locked, accounts[i].wrong, now, faults)
                 => Guessed(u + At01(x, "unlock", i), v + At01(x, "verify", i), r.failed, r.locked, r.wrong,
                            now, faults')
    PROVE  LockOK'
  <1>1. accounts \in Seq(Account) /\ now \in Nat /\ faults \in Nat /\ req' = [req EXCEPT ![h] = x]
    BY DEF LockOK, Go
  <1>2. accounts' \in Seq(Account) /\ DOMAIN accounts' = DOMAIN accounts
        /\ \A a \in DOMAIN accounts : accounts'[a] = IF a = i THEN r ELSE accounts[a]
    BY <1>1, ExceptTyped
  <1>3. ASSUME NEW a \in DOMAIN accounts PROVE LockedOK(a)'
    <2>1. PICK u \in Nat, v \in Nat :
              /\ u + v + 1 <= RequestCount
              /\ Cardinality(Unlocking(a)) = u + At01(req[h], "unlock", a)
              /\ Cardinality(Verifying(a)) = v + At01(req[h], "verify", a)
              /\ Cardinality(Unlocking(a)') = u + At01(x, "unlock", a)
              /\ Cardinality(Verifying(a)') = v + At01(x, "verify", a)
      BY RequestCounts
    <2>2. Guessed(u + At01(req[h], "unlock", a), v + At01(req[h], "verify", a), accounts[a].failed,
                  accounts[a].locked, accounts[a].wrong, now, faults)
      BY <2>1 DEF LockOK, LockedOK
    <2>3. CASE a = i
      <3>1. Guessed(u + At01(x, "unlock", a), v + At01(x, "verify", a), r.failed, r.locked, r.wrong, now, faults')
        BY <2>1, <2>2, <2>3
      <3> QED
        BY <1>2, <2>1, <2>3, <3>1 DEF LockedOK
    <2>4. CASE a # i
      <3>1. PICK k \in {0, 1}, l \in {0, 1} :
                k = At01(req[h], "unlock", a) /\ l = At01(req[h], "verify", a) /\ k + l <= 1
        BY DEF At01
      <3>2. At01(x, "unlock", a) = 0 /\ At01(x, "verify", a) = 0
        BY <2>4 DEF At01
      <3>3. accounts[a] \in Account
        BY <1>1, ElementOfSeq, LenProperties
      <3>4. PICK f \in Nat, lk \in Nat, w \in Nat :
                f = accounts[a].failed /\ lk = accounts[a].locked /\ w = accounts[a].wrong
        BY <3>3 DEF Account
      <3>5. Guessed(u + k, v + l, f, lk, w, now, faults)
        BY <2>2, <3>1, <3>4
      <3>6. u + k + v + l <= RequestCount
        BY <2>1, <3>1, LockConstants
      <3>7. Guessed(u, v, f, lk, w, now, faults')
        BY <1>1, <3>5, <3>6, GuessFewer
      <3> QED
        BY <1>2, <2>1, <2>4, <3>2, <3>4, <3>7 DEF LockedOK
    <2> QED
      BY <2>3, <2>4
  <1> QED
    BY <1>1, <1>2, <1>3 DEF LockOK

(* The row as it stands, with numbers for its fields. *)
LEMMA AccountTyped ==
    ASSUME LockOK, NEW a \in DOMAIN accounts
    PROVE  /\ accounts[a] \in Account /\ a \in Nat
           /\ accounts[a].failed \in Nat /\ accounts[a].locked \in Nat /\ accounts[a].wrong \in Nat
  <1>1. accounts[a] \in Account /\ a \in Nat
    BY ElementOfSeq, LenProperties DEF LockOK
  <1> QED
    BY <1>1 DEF Account

(* A request goes elsewhere; the rows are as they were. *)
LEMMA LockSame ==
    ASSUME LockOK, DOMAIN req = Request, NEW h \in Request, NEW x, Go(h, x), UNCHANGED <<now, accounts>>,
           faults' \in Nat, faults' >= faults, x.pc \notin {"unlock", "verify"}
    PROVE  LockOK'
  <1>1. accounts \in Seq(Account) /\ now \in Nat /\ faults \in Nat /\ req' = [req EXCEPT ![h] = x]
    BY DEF LockOK, Go
  <1>2. ASSUME NEW a \in DOMAIN accounts PROVE LockedOK(a)'
    <2>1. PICK u \in Nat, v \in Nat :
              /\ u + v + 1 <= RequestCount
              /\ Cardinality(Unlocking(a)) = u + At01(req[h], "unlock", a)
              /\ Cardinality(Verifying(a)) = v + At01(req[h], "verify", a)
              /\ Cardinality(Unlocking(a)') = u + At01(x, "unlock", a)
              /\ Cardinality(Verifying(a)') = v + At01(x, "verify", a)
      BY RequestCounts
    <2>2. PICK k \in {0, 1}, l \in {0, 1} :
              k = At01(req[h], "unlock", a) /\ l = At01(req[h], "verify", a) /\ k + l <= 1
      BY DEF At01
    <2>3. At01(x, "unlock", a) = 0 /\ At01(x, "verify", a) = 0
      BY DEF At01
    <2>4. PICK f \in Nat, lk \in Nat, w \in Nat :
              f = accounts[a].failed /\ lk = accounts[a].locked /\ w = accounts[a].wrong
      BY AccountTyped
    <2>5. Guessed(u + k, v + l, f, lk, w, now, faults)
      BY <2>1, <2>2, <2>4 DEF LockOK, LockedOK
    <2>6. u + k + v + l <= RequestCount
      BY <2>1, <2>2, LockConstants
    <2>7. Guessed(u, v, f, lk, w, now, faults')
      BY <1>1, <2>5, <2>6, GuessFewer
    <2> QED
      BY <2>1, <2>3, <2>4, <2>7 DEF LockedOK
  <1> QED
    BY <1>1, <1>2 DEF LockOK

(* A new account, for a request that was idle. *)
LEMMA LockAppended ==
    ASSUME LockOK, DOMAIN req = Request, NEW h \in Request, NEW x, Go(h, x), UNCHANGED <<now, faults>>,
           req[h].pc = "idle", x.pc \notin {"unlock", "verify"}, NEW p \in Nat, accounts' = CreateUser(p)
    PROVE  LockOK'
  <1>1. accounts \in Seq(Account) /\ now \in Nat /\ faults \in Nat /\ req' = [req EXCEPT ![h] = x]
    BY DEF LockOK, Go
  <1>2. PICK r : r = [live |-> TRUE, password |-> p, failed |-> 0, locked |-> 0, wrong |-> 0]
    OBVIOUS
  <1>3. PICK n \in Nat : n = Len(accounts) /\ DOMAIN accounts = 1..n
    BY <1>1, LenProperties
  <1>4. r \in Account /\ r.failed = 0 /\ r.locked = 0 /\ r.wrong = 0
    BY <1>2 DEF Account
  <1>5. accounts' \in Seq(Account) /\ Len(accounts') = n + 1 /\ accounts'[n + 1] = r
        /\ \A i \in 1..n : accounts'[i] = accounts[i]
    BY <1>1, <1>2, <1>3, <1>4, AppendProperties DEF CreateUser
  <1>6. DOMAIN accounts' = 1..(n + 1) /\ \A i \in 1..(n + 1) : i \in 1..n \/ i = n + 1
    BY <1>3, <1>5, LenProperties
  <1>7. ASSUME NEW a \in 1..(n + 1) PROVE LockedOK(a)'
    <2>1. PICK u \in Nat, v \in Nat :
              /\ u + v + 1 <= RequestCount
              /\ Cardinality(Unlocking(a)) = u + At01(req[h], "unlock", a)
              /\ Cardinality(Verifying(a)) = v + At01(req[h], "verify", a)
              /\ Cardinality(Unlocking(a)') = u + At01(x, "unlock", a)
              /\ Cardinality(Verifying(a)') = v + At01(x, "verify", a)
      BY RequestCounts
    <2>2. /\ At01(req[h], "unlock", a) = 0 /\ At01(req[h], "verify", a) = 0
          /\ At01(x, "unlock", a) = 0 /\ At01(x, "verify", a) = 0
      BY DEF At01
    <2>3. CASE a \in 1..n
      BY <1>1, <1>3, <1>5, <2>1, <2>2, <2>3 DEF LockOK, LockedOK
    <2>4. CASE a = n + 1
      <3>1. u + 1 <= RequestCount /\ u + v <= RequestCount
        BY <2>1, LockConstants
      <3>2. Guessed(u, v, 0, 0, 0, now, faults)
        BY <1>1, <3>1, GuessAnew
      <3> QED
        BY <1>4, <1>5, <2>1, <2>2, <2>4, <3>2 DEF LockedOK
    <2> QED
      BY <1>6, <2>3, <2>4
  <1> QED
    BY <1>1, <1>5, <1>6, <1>7 DEF LockOK

----------------------------------------------------------------------------
(* Accounts: tokens and windows. *)

Token == [of : Nat, login : Nat, heir : Nat, revoked : BOOLEAN, expires : Nat]
Reset == [of : Nat, used : BOOLEAN, set : Nat, expires : Nat]

TokensOK ==
    /\ tokens \in Seq(Token)
    /\ \A i \in DOMAIN tokens : tokens[i].login <= i /\ tokens[i].heir <= Len(tokens)
    /\ OneTokenPerLogin
    /\ \A h \in Request : req[h].pc = "issue" => req[h].parent <= Len(tokens)

(* A request that has a reset token has consumed it, and has it to itself. *)
ResetsOK ==
    /\ resets \in Seq(Reset)
    /\ \A r \in DOMAIN resets : resets[r].set <= 1 /\ (~resets[r].used => resets[r].set = 0)
    /\ \A h \in Request :
          req[h].pc = "password" =>
             \/ req[h].r = 0
             \/ req[h].r \in DOMAIN resets /\ resets[req[h].r].used /\ resets[req[h].r].set = 0
    /\ \A h, g \in Request :
          h # g /\ req[h].pc = "password" /\ req[g].pc = "password" /\ req[h].r # 0 => req[h].r # req[g].r

(* No window after the row's last one has served a login. *)
WindowOK ==
    /\ DOMAIN admin = {"failed", "locked", "window", "mfa"} /\ admin.window \in Nat
    /\ accepted \in [1..MaxTime -> Nat]
    /\ \A w \in DOMAIN accepted : accepted[w] <= 1 /\ (w > admin.window => accepted[w] = 0)

AccountsOK == ShapesOK /\ LockOK /\ TokensOK /\ ResetsOK /\ WindowOK

LEMMA ShapesGo ==
    ASSUME ShapesOK, NEW h \in Request, NEW x, Go(h, x), Shape(x)
    PROVE  ShapesOK'
  <1>1. DOMAIN req' = Request /\ req'[h] = x /\ \A g \in Request : g # h => req'[g] = req[g]
    BY DEF Go, ShapesOK
  <1>2. ASSUME NEW g \in Request PROVE Shape(req'[g])
    BY <1>1 DEF ShapesOK
  <1> QED
    BY <1>1, <1>2 DEF ShapesOK

LEMMA TokensGo ==
    ASSUME ShapesOK, TokensOK, NEW h \in Request, NEW x, Go(h, x), UNCHANGED tokens,
           x.pc = "issue" => x.parent <= Len(tokens)
    PROVE  TokensOK'
  <1>1. req'[h] = x /\ \A g \in Request : g # h => req'[g] = req[g]
    BY DEF Go, ShapesOK
  <1> QED
    BY <1>1 DEF TokensOK, OneTokenPerLogin, Alive

LEMMA ResetsGo ==
    ASSUME ShapesOK, ResetsOK, NEW h \in Request, NEW x, Go(h, x), UNCHANGED resets,
           x.pc = "password" => x.r = 0
    PROVE  ResetsOK'
  <1>1. req'[h] = x /\ \A g \in Request : g # h => req'[g] = req[g]
    BY DEF Go, ShapesOK
  <1>2. \A g \in Request :
           req'[g].pc = "password" =>
              \/ req'[g].r = 0
              \/ req'[g].r \in DOMAIN resets /\ resets[req'[g].r].used /\ resets[req'[g].r].set = 0
    BY <1>1 DEF ResetsOK
  <1>3. \A f, g \in Request :
           f # g /\ req'[f].pc = "password" /\ req'[g].pc = "password" /\ req'[f].r # 0 => req'[f].r # req'[g].r
    BY <1>1 DEF ResetsOK
  <1> QED
    BY <1>2, <1>3 DEF ResetsOK

(* What a step of a request does not touch stays as it should be. *)
LEMMA OthersKept ==
    ASSUME AccountsOK, NEW h \in Request, NEW x, Go(h, x), Shape(x), UNCHANGED <<tokens, resets, Admins>>,
           x.pc = "issue" => x.parent <= Len(tokens), x.pc = "password" => x.r = 0
    PROVE  ShapesOK' /\ TokensOK' /\ ResetsOK' /\ WindowOK'
  <1>1. ShapesOK'
    BY ShapesGo DEF AccountsOK
  <1>2. TokensOK' /\ ResetsOK'
    BY TokensGo, ResetsGo DEF AccountsOK
  <1>3. WindowOK'
    BY DEF AccountsOK, WindowOK, Admins
  <1> QED
    BY <1>1, <1>2, <1>3

(* A request goes on to a place where it does not touch a lock. *)
LEMMA Elsewhere ==
    ASSUME AccountsOK, NEW h \in Request, NEW x, Go(h, x), Shape(x),
           UNCHANGED <<now, accounts, tokens, resets, Admins>>, faults' \in Nat, faults' >= faults,
           x.pc \notin {"unlock", "verify"},
           x.pc = "issue" => x.parent <= Len(tokens), x.pc = "password" => x.r = 0
    PROVE  AccountsOK'
  <1>1. ShapesOK' /\ TokensOK' /\ ResetsOK' /\ WindowOK'
    BY OthersKept
  <1>2. LockOK'
    BY LockSame DEF AccountsOK, ShapesOK
  <1> QED
    BY <1>1, <1>2 DEF AccountsOK

LEMMA AccountsStart == AccountInit => AccountsOK
  <1> SUFFICES ASSUME AccountInit PROVE AccountsOK
    OBVIOUS
  <1>1. \A h \in Request : req[h].pc = "idle"
    BY DEF AccountInit, IdleRequest
  <1>2. ShapesOK
    BY <1>1 DEF AccountInit, ShapesOK, Shape
  <1>3. LockOK
    <2>1. accounts \in Seq(Account) /\ DOMAIN accounts = {}
      BY DEF AccountInit
    <2> QED
      BY <2>1 DEF AccountInit, LockOK
  <1>4. TokensOK
    <2>1. tokens \in Seq(Token) /\ DOMAIN tokens = {}
      BY DEF AccountInit
    <2> QED
      BY <1>1, <2>1 DEF TokensOK, OneTokenPerLogin
  <1>5. ResetsOK
    <2>1. resets \in Seq(Reset) /\ DOMAIN resets = {}
      BY DEF AccountInit
    <2> QED
      BY <1>1, <2>1 DEF ResetsOK
  <1>6. WindowOK
    <2>1. DOMAIN admin = {"failed", "locked", "window", "mfa"} /\ admin.window = 0
      BY DEF AccountInit
    <2>2. accepted \in [1..MaxTime -> Nat] /\ \A w \in 1..MaxTime : accepted[w] = 0
      BY DEF AccountInit
    <2> QED
      BY <2>1, <2>2 DEF WindowOK
  <1> QED
    BY <1>2, <1>3, <1>4, <1>5, <1>6 DEF AccountsOK

----------------------------------------------------------------------------
(* Accounts: one lemma for each step. *)

LEMMA AccountsTyped ==
    ASSUME AccountsOK
    PROVE  /\ DOMAIN req = Request /\ now \in Nat /\ faults \in Nat
           /\ accounts \in Seq(Account) /\ Len(accounts) \in Nat /\ DOMAIN accounts = 1..Len(accounts)
           /\ tokens \in Seq(Token) /\ Len(tokens) \in Nat /\ DOMAIN tokens = 1..Len(tokens)
           /\ resets \in Seq(Reset) /\ Len(resets) \in Nat /\ DOMAIN resets = 1..Len(resets)
           /\ AccountFault => faults' \in Nat /\ faults' = faults + 1 /\ faults' >= faults
  <1>1. /\ DOMAIN req = Request /\ now \in Nat /\ faults \in Nat
        /\ accounts \in Seq(Account) /\ tokens \in Seq(Token) /\ resets \in Seq(Reset)
    BY DEF AccountsOK, ShapesOK, LockOK, TokensOK, ResetsOK
  <1> QED
    BY <1>1, LenProperties DEF AccountFault

LEMMA AccountsIdle == Shape(IdleRequest) /\ IdleRequest.pc = "idle"
  BY DEF IdleRequest, Shape

LEMMA AccountsIssue ==
    ASSUME NEW a \in Nat, NEW p \in Nat
    PROVE  Shape(Issue(a, p)) /\ Issue(a, p).pc = "issue" /\ Issue(a, p).parent = p /\ Issue(a, p).a = a
  BY DEF Issue, Shape

(* A request gives up, or is answered without more. *)
LEMMA AccountsAnswer ==
    ASSUME AccountsOK, NEW h \in Request, Answer(h), UNCHANGED <<now, Customers, Admins>>,
           AccountFault \/ UNCHANGED faults
    PROVE  AccountsOK'
  <1>1. UNCHANGED <<now, accounts, tokens, resets, Admins>>
    BY DEF Customers
  <1>2. faults' \in Nat /\ faults' >= faults
    BY AccountsTyped
  <1>3. Go(h, IdleRequest)
    BY DEF Answer
  <1> QED
    BY <1>1, <1>2, <1>3, AccountsIdle, Elsewhere

LEMMA AccountsSignup == ASSUME AccountsOK, NEW h \in Request, handleSignup(h) PROVE AccountsOK'
  <1>1. PICK n \in Nat : n = Len(accounts) + 1
    BY AccountsTyped
  <1>2. PICK x : x = Issue(n, 0)
    OBVIOUS
  <1>3. Go(h, x) /\ Shape(x) /\ x.pc = "issue" /\ x.parent = 0
    BY <1>1, <1>2, AccountsIssue DEF handleSignup
  <1>4. req[h].pc = "idle" /\ accounts' = CreateUser(1) /\ UNCHANGED <<now, faults, tokens, resets, Admins>>
    BY DEF handleSignup, At
  <1>5. LockOK'
    BY <1>3, <1>4, AccountsTyped, LockAppended DEF AccountsOK
  <1>6. ShapesOK' /\ TokensOK' /\ ResetsOK' /\ WindowOK'
    BY <1>3, <1>4, AccountsTyped, OthersKept
  <1> QED
    BY <1>5, <1>6 DEF AccountsOK

LEMMA AccountsLogin == ASSUME AccountsOK, NEW h \in Request, NEW guess, handleLogin(h, guess) PROVE AccountsOK'
  <1>1. PICK a \in Live : Go(h, [pc |-> "lock", a |-> a, ok |-> accounts[a].password # 0 /\ guess = accounts[a].password])
    BY DEF handleLogin
  <1>2. PICK x : x = [pc |-> "lock", a |-> a, ok |-> accounts[a].password # 0 /\ guess = accounts[a].password]
    OBVIOUS
  <1>3. a \in Nat
    BY AccountsTyped DEF Live
  <1>4. x.pc = "lock" /\ Shape(x) /\ Go(h, x)
    BY <1>1, <1>2, <1>3 DEF Shape
  <1>5. UNCHANGED <<now, faults, accounts, tokens, resets, Admins>>
    BY DEF handleLogin, Customers
  <1> QED
    BY <1>4, <1>5, AccountsTyped, Elsewhere

(* The request that is at the lock, to the statement it is at next. *)
LEMMA AccountsMove ==
    ASSUME ShapesOK, NEW h \in Request, req[h].pc \in {"lock", "unlock", "verify"},
           NEW p \in {"unlock", "verify"}, NEW x, x = [req[h] EXCEPT !.pc = p]
    PROVE  Shape(x) /\ x.pc = p /\ x.a = req[h].a
  <1>1. DOMAIN req[h] = {"pc", "a", "ok"} /\ req[h].a \in Nat
    BY DEF ShapesOK, Shape
  <1>2. DOMAIN x = {"pc", "a", "ok"} /\ x.pc = p /\ x.a = req[h].a
    BY <1>1
  <1> QED
    BY <1>1, <1>2 DEF Shape

LEMMA AccountsLock == ASSUME AccountsOK, NEW h \in Request, checkLockout(h) PROVE AccountsOK'
  <1>1. PICK i : i = req[h].a
    OBVIOUS
  <1>2. /\ req[h].pc = "lock" /\ UNCHANGED <<now, Customers, Admins>>
        /\ UNCHANGED <<now, accounts, tokens, resets, Admins>>
    BY DEF checkLockout, At, Customers
  <1>3. CASE Answer(h) /\ UNCHANGED faults
    BY <1>2, <1>3, AccountsAnswer
  <1>4. CASE ~Answer(h) \/ ~UNCHANGED faults
    <2>1. PICK p \in {"unlock", "verify"} :
              /\ Go(h, [req[h] EXCEPT !.pc = p])
              /\ \/ /\ ~(accounts[i].locked > now) /\ UNCHANGED faults
                    /\ p = IF accounts[i].locked # 0 THEN "unlock" ELSE "verify"
                 \/ AccountFault /\ p = "verify"
      BY <1>1, <1>4 DEF checkLockout, IsUserLocked
    <2>2. PICK x : x = [req[h] EXCEPT !.pc = p]
      OBVIOUS
    <2>3. Go(h, x) /\ Shape(x) /\ x.pc = p /\ x.a = i
      BY <1>1, <1>2, <2>1, <2>2, AccountsMove DEF AccountsOK
    <2>4. faults' \in Nat /\ faults' >= faults
      BY <2>1, AccountsTyped
    <2>5. ShapesOK' /\ TokensOK' /\ ResetsOK' /\ WindowOK'
      BY <1>2, <2>3, OthersKept
    <2>6. accounts' = [accounts EXCEPT ![i] = accounts[i]]
      BY <1>2, AccountsTyped
    <2>7. ASSUME i \in DOMAIN accounts, NEW u \in Nat, NEW v \in Nat, u + v + 1 <= RequestCount,
                 Guessed(u + At01(req[h], "unlock", i), v + At01(req[h], "verify", i), accounts[i].failed,
                         accounts[i].locked, accounts[i].wrong, now, faults)
          PROVE  Guessed(u + At01(x, "unlock", i), v + At01(x, "verify", i), accounts[i].failed,
                         accounts[i].locked, accounts[i].wrong, now, faults')
      <3>1. PICK f \in Nat, lk \in Nat, w \in Nat :
                f = accounts[i].failed /\ lk = accounts[i].locked /\ w = accounts[i].wrong
        BY <2>7, AccountTyped DEF AccountsOK
      <3>2. At01(req[h], "unlock", i) = 0 /\ At01(req[h], "verify", i) = 0
        BY <1>2 DEF At01
      <3>3. Guessed(u, v, f, lk, w, now, faults)
        BY <2>7, <3>1, <3>2
      <3>4. CASE p = "unlock"
        <4>1. At01(x, "unlock", i) = 1 /\ At01(x, "verify", i) = 0
          BY <2>3, <3>4 DEF At01
        <4>2. lk # 0 /\ ~(lk > now) /\ faults' = faults
          BY <2>1, <3>1, <3>4
        <4>3. Guessed(u + 1, v, f, lk, w, now, faults)
          BY <3>3, <4>2, AccountsTyped, GuessFound
        <4> QED
          BY <3>1, <4>1, <4>2, <4>3
      <3>5. CASE p = "verify"
        <4>1. At01(x, "unlock", i) = 0 /\ At01(x, "verify", i) = 1
          BY <2>3, <3>5 DEF At01
        <4>2. (faults' = faults /\ ~(lk > now)) \/ faults' = faults + 1
          BY <2>1, <3>1, AccountsTyped
        <4>3. Guessed(u, v + 1, f, lk, w, now, faults')
          BY <2>4, <3>3, <4>2, AccountsTyped, GuessBegun
        <4> QED
          BY <3>1, <4>1, <4>3
      <3> QED
        BY <3>4, <3>5
    <2>8. i \in DOMAIN accounts => accounts[i] \in Account
      BY AccountTyped DEF AccountsOK
    <2>9. LockOK'
      <3>1. LockOK /\ DOMAIN req = Request /\ UNCHANGED now
        BY <1>2, AccountsTyped DEF AccountsOK
      <3> QED
        BY <2>3, <2>4, <2>6, <2>7, <2>8, <3>1, LockEdited
    <2> QED
      BY <2>5, <2>9 DEF AccountsOK
  <1> QED
    BY <1>3, <1>4

(* Another row in the place of one. *)
LEMMA AccountEdited ==
    ASSUME AccountsOK, NEW h \in Request, NEW x, NEW i, NEW r, Go(h, x), Shape(x),
           UNCHANGED <<now, tokens, resets, Admins>>,
           faults' \in Nat, faults' >= faults,
           accounts' = [accounts EXCEPT ![i] = r], i \in DOMAIN accounts => r \in Account,
           x.pc # "unlock", x.pc = "verify" => x.a = i,
           x.pc = "issue" => x.parent <= Len(tokens), x.pc = "password" => x.r = 0,
           i \in DOMAIN accounts =>
              \A u \in Nat, v \in Nat :
                 /\ u + v + 1 <= RequestCount
                 /\ Guessed(u + At01(req[h], "unlock", i), v + At01(req[h], "verify", i), accounts[i].failed,
                            accounts[i].locked, accounts[i].wrong, now, faults)
                 => Guessed(u, v + At01(x, "verify", i), r.failed, r.locked, r.wrong, now, faults')
    PROVE  AccountsOK'
  <1>1. ShapesOK' /\ TokensOK' /\ ResetsOK' /\ WindowOK'
    BY OthersKept
  <1>2. LockOK /\ DOMAIN req = Request /\ UNCHANGED now
    BY AccountsTyped DEF AccountsOK
  <1>3. At01(x, "unlock", i) = 0
    BY DEF At01
  <1>4. ASSUME i \in DOMAIN accounts, NEW u \in Nat, NEW v \in Nat, u + v + 1 <= RequestCount,
               Guessed(u + At01(req[h], "unlock", i), v + At01(req[h], "verify", i), accounts[i].failed,
                       accounts[i].locked, accounts[i].wrong, now, faults)
        PROVE  Guessed(u + At01(x, "unlock", i), v + At01(x, "verify", i), r.failed, r.locked, r.wrong,
                       now, faults')
    <2>1. Guessed(u, v + At01(x, "verify", i), r.failed, r.locked, r.wrong, now, faults')
      BY <1>4
    <2>2. u + At01(x, "unlock", i) = u
      BY <1>3
    <2> QED
      BY <2>1, <2>2
  <1>5. LockOK'
    BY <1>2, <1>4, LockEdited
  <1> QED
    BY <1>1, <1>5 DEF AccountsOK

LEMMA AccountsUnlock == ASSUME AccountsOK, NEW h \in Request, Unlock(h) PROVE AccountsOK'
  <1>1. PICK i : i = req[h].a
    OBVIOUS
  <1>2. req[h].pc = "unlock" /\ UNCHANGED <<now, tokens, resets, Admins>>
    BY DEF Unlock, At
  <1>3. PICK x : x = [req[h] EXCEPT !.pc = "verify"]
    OBVIOUS
  <1>4. Go(h, x) /\ Shape(x) /\ x.pc = "verify" /\ x.a = i
    BY <1>1, <1>2, <1>3, AccountsMove DEF AccountsOK, Unlock
  <1>5. PICK r : /\ accounts' = [accounts EXCEPT ![i] = r]
                 /\ i \in DOMAIN accounts =>
                       /\ r \in Account /\ r.wrong = accounts[i].wrong
                       /\ \/ r.failed = 0 /\ r.locked = 0
                          \/ r.failed = accounts[i].failed /\ r.locked = accounts[i].locked
                 /\ faults' \in Nat /\ faults' >= faults
    <2>1. CASE accounts' = [accounts EXCEPT ![i].failed = 0, ![i].locked = 0] /\ UNCHANGED faults
      <3>1. PICK r : r = [accounts[i] EXCEPT !.failed = 0, !.locked = 0]
        OBVIOUS
      <3>2. accounts' = [accounts EXCEPT ![i] = r]
        BY <2>1, <3>1
      <3>3. i \in DOMAIN accounts =>
               r \in Account /\ r.wrong = accounts[i].wrong /\ r.failed = 0 /\ r.locked = 0
        BY <3>1, AccountTyped DEF AccountsOK, Account
      <3>4. faults' \in Nat /\ faults' >= faults
        BY <2>1, AccountsTyped
      <3> QED
        BY <3>2, <3>3, <3>4
    <2>2. CASE AccountFault /\ UNCHANGED accounts
      <3>1. accounts' = [accounts EXCEPT ![i] = accounts[i]]
        BY <2>2, AccountsTyped
      <3> QED
        BY <2>2, <3>1, AccountTyped, AccountsTyped DEF AccountsOK
    <2> QED
      BY <1>1, <2>1, <2>2 DEF Unlock
  <1>6. ASSUME i \in DOMAIN accounts, NEW u \in Nat, NEW v \in Nat, u + v + 1 <= RequestCount,
               Guessed(u + At01(req[h], "unlock", i), v + At01(req[h], "verify", i), accounts[i].failed,
                       accounts[i].locked, accounts[i].wrong, now, faults)
        PROVE  Guessed(u, v + At01(x, "verify", i), r.failed, r.locked, r.wrong, now, faults')
    <2>1. PICK f \in Nat, lk \in Nat, w \in Nat :
              f = accounts[i].failed /\ lk = accounts[i].locked /\ w = accounts[i].wrong
      BY <1>6, AccountTyped DEF AccountsOK
    <2>2. At01(req[h], "unlock", i) = 1 /\ At01(req[h], "verify", i) = 0 /\ At01(x, "verify", i) = 1
      BY <1>1, <1>2, <1>4 DEF At01
    <2>3. Guessed(u + 1, v, f, lk, w, now, faults)
      BY <1>6, <2>1, <2>2
    <2>4. Guessed(u, v + 1, 0, 0, w, now, faults') /\ Guessed(u, v + 1, f, lk, w, now, faults')
      BY <1>5, <1>6, <2>3, AccountsTyped, GuessUnlocked
    <2> QED
      BY <1>5, <1>6, <2>1, <2>2, <2>4
  <1> QED
    BY <1>2, <1>4, <1>5, <1>6, AccountEdited

LEMMA AccountsFailed == ASSUME AccountsOK, NEW h \in Request, recordFailedLogin(h) PROVE AccountsOK'
  <1>1. PICK i : i = req[h].a
    OBVIOUS
  <1>2. req[h].pc = "verify" /\ UNCHANGED <<now, tokens, resets, Admins>>
    BY DEF recordFailedLogin, At
  <1>3. PICK x : x = IdleRequest
    OBVIOUS
  <1>4. Go(h, x) /\ Shape(x) /\ x.pc = "idle"
    BY <1>3, AccountsIdle DEF recordFailedLogin, Answer
  <1>5. PICK r : /\ accounts' = [accounts EXCEPT ![i] = r]
                 /\ i \in DOMAIN accounts =>
                       /\ r \in Account /\ r.wrong = accounts[i].wrong + 1
                       /\ \/ /\ r.failed = accounts[i].failed + 1 /\ UNCHANGED faults
                             /\ r.locked = IF accounts[i].failed + 1 >= LockoutThreshold
                                           THEN now + LockoutDuration ELSE accounts[i].locked
                          \/ /\ r.failed = accounts[i].failed /\ r.locked = accounts[i].locked
                             /\ faults' = faults + 1
                 /\ faults' \in Nat /\ faults' >= faults
    <2>1. CASE /\ accounts' = [accounts EXCEPT ![i] = [Failed(accounts[i], LockoutThreshold) EXCEPT !.wrong = @ + 1]]
               /\ UNCHANGED faults
      <3>1. PICK r : r = [Failed(accounts[i], LockoutThreshold) EXCEPT !.wrong = @ + 1]
        OBVIOUS
      <3>2. accounts' = [accounts EXCEPT ![i] = r]
        BY <2>1, <3>1
      <3>3. ASSUME i \in DOMAIN accounts
            PROVE  /\ r \in Account /\ r.wrong = accounts[i].wrong + 1 /\ r.failed = accounts[i].failed + 1
                   /\ r.locked = IF accounts[i].failed + 1 >= LockoutThreshold
                                 THEN now + LockoutDuration ELSE accounts[i].locked
        <4>1. PICK row \in Account : row = accounts[i]
          BY <3>3, AccountTyped DEF AccountsOK
        <4>2. PICK lk \in Nat : lk = IF row.failed + 1 >= LockoutThreshold THEN now + LockoutDuration ELSE row.locked
          BY AccountsTyped, LockConstants DEF Account
        <4>3. PICK mid : mid = Failed(row, LockoutThreshold)
          OBVIOUS
        <4>4. /\ mid \in Account /\ mid.failed = row.failed + 1 /\ mid.locked = lk /\ mid.wrong = row.wrong
          <5>1. mid = [row EXCEPT !.failed = row.failed + 1, !.locked = lk]
            BY <4>2, <4>3 DEF Failed
          <5>2. PICK n \in Nat : n = row.failed + 1
            BY DEF Account
          <5>3. mid = [row EXCEPT !.failed = n, !.locked = lk]
            BY <5>1, <5>2
          <5>4. mid \in Account
            BY <5>3 DEF Account
          <5>5. mid.failed = n /\ mid.locked = lk /\ mid.wrong = row.wrong
            BY <5>3 DEF Account
          <5> QED
            BY <5>2, <5>4, <5>5
        <4>5. r = [mid EXCEPT !.wrong = mid.wrong + 1]
          BY <3>1, <4>1, <4>3
        <4> QED
          BY <4>1, <4>2, <4>4, <4>5 DEF Account
      <3>4. faults' \in Nat /\ faults' >= faults /\ UNCHANGED faults
        BY <2>1, AccountsTyped
      <3> QED
        BY <3>2, <3>3, <3>4
    <2>2. CASE AccountFault /\ accounts' = [accounts EXCEPT ![i].wrong = @ + 1]
      <3>1. PICK r : r = [accounts[i] EXCEPT !.wrong = @ + 1]
        OBVIOUS
      <3>2. accounts' = [accounts EXCEPT ![i] = r]
        BY <2>2, <3>1
      <3>3. i \in DOMAIN accounts =>
               /\ r \in Account /\ r.wrong = accounts[i].wrong + 1
               /\ r.failed = accounts[i].failed /\ r.locked = accounts[i].locked
        BY <3>1, AccountTyped DEF AccountsOK, Account
      <3> QED
        BY <2>2, <3>2, <3>3, AccountsTyped
    <2> QED
      BY <1>1, <2>1, <2>2 DEF recordFailedLogin
  <1>6. ASSUME i \in DOMAIN accounts, NEW u \in Nat, NEW v \in Nat, u + v + 1 <= RequestCount,
               Guessed(u + At01(req[h], "unlock", i), v + At01(req[h], "verify", i), accounts[i].failed,
                       accounts[i].locked, accounts[i].wrong, now, faults)
        PROVE  Guessed(u, v + At01(x, "verify", i), r.failed, r.locked, r.wrong, now, faults')
    <2>1. PICK f \in Nat, lk \in Nat, w \in Nat :
              f = accounts[i].failed /\ lk = accounts[i].locked /\ w = accounts[i].wrong
      BY <1>6, AccountTyped DEF AccountsOK
    <2>2. At01(req[h], "unlock", i) = 0 /\ At01(req[h], "verify", i) = 1 /\ At01(x, "verify", i) = 0
      BY <1>1, <1>2, <1>4 DEF At01
    <2>3. Guessed(u, v + 1, f, lk, w, now, faults)
      BY <1>6, <2>1, <2>2
    <2>4. /\ Guessed(u, v, f + 1, IF f + 1 >= LockoutThreshold THEN now + LockoutDuration ELSE lk, w + 1, now, faults)
          /\ Guessed(u, v, f, lk, w + 1, now, faults + 1)
      BY <1>6, <2>3, AccountsTyped, GuessFailed
    <2>5. v + At01(x, "verify", i) = v
      BY <2>2
    <2>6. CASE /\ r.failed = accounts[i].failed + 1 /\ UNCHANGED faults
               /\ r.locked = IF accounts[i].failed + 1 >= LockoutThreshold
                             THEN now + LockoutDuration ELSE accounts[i].locked
      BY <1>5, <1>6, <2>1, <2>4, <2>5, <2>6
    <2>7. CASE r.failed = accounts[i].failed /\ r.locked = accounts[i].locked /\ faults' = faults + 1
      BY <1>5, <1>6, <2>1, <2>4, <2>5, <2>7
    <2> QED
      BY <1>5, <1>6, <2>6, <2>7
  <1> QED
    BY <1>2, <1>4, <1>5, <1>6, AccountEdited

(* A row that is cleared, whatever the request was doing. *)
LEMMA AccountCleared ==
    ASSUME AccountsOK, NEW h \in Request, NEW x, NEW i, NEW r, Go(h, x), Shape(x),
           UNCHANGED <<now, faults, tokens, resets, Admins>>,
           accounts' = [accounts EXCEPT ![i] = r],
           i \in DOMAIN accounts => r \in Account /\ r.failed = 0 /\ r.locked = 0 /\ r.wrong = 0,
           x.pc \notin {"unlock", "verify", "password"}, x.pc = "issue" => x.parent <= Len(tokens)
    PROVE  AccountsOK'
  <1>1. faults' \in Nat /\ faults' >= faults /\ now \in Nat /\ faults \in Nat
    BY AccountsTyped
  <1>2. ASSUME i \in DOMAIN accounts, NEW u \in Nat, NEW v \in Nat, u + v + 1 <= RequestCount,
               Guessed(u + At01(req[h], "unlock", i), v + At01(req[h], "verify", i), accounts[i].failed,
                       accounts[i].locked, accounts[i].wrong, now, faults)
        PROVE  Guessed(u, v + At01(x, "verify", i), r.failed, r.locked, r.wrong, now, faults')
    <2>1. At01(x, "verify", i) = 0
      BY DEF At01
    <2>2. u + v <= RequestCount /\ u + 1 <= RequestCount
      BY <1>2, LockConstants
    <2>3. Guessed(u, v, 0, 0, 0, now, faults)
      BY <1>1, <2>2, GuessAnew
    <2>4. v + At01(x, "verify", i) = v
      BY <2>1
    <2> QED
      BY <1>2, <2>3, <2>4
  <1> QED
    BY <1>1, <1>2, AccountEdited

LEMMA AccountsSucceeded == ASSUME AccountsOK, NEW h \in Request, recordSuccessfulLogin(h) PROVE AccountsOK'
  <1>1. PICK i : i = req[h].a
    OBVIOUS
  <1>2. req[h].pc = "verify" /\ UNCHANGED <<now, tokens, resets, Admins>>
    BY DEF recordSuccessfulLogin, At
  <1>3. PICK x : x = Issue(i, 0)
    OBVIOUS
  <1>4. i \in Nat
    BY <1>1, <1>2 DEF AccountsOK, ShapesOK, Shape
  <1>5. Go(h, x) /\ Shape(x) /\ x.pc = "issue" /\ x.parent = 0
    BY <1>1, <1>3, <1>4, AccountsIssue DEF recordSuccessfulLogin
  <1>6. 0 <= Len(tokens)
    BY AccountsTyped
  <1>7. CASE /\ accounts' = [accounts EXCEPT ![i].failed = 0, ![i].locked = 0, ![i].wrong = 0]
             /\ UNCHANGED faults
    <2>1. PICK r : r = [accounts[i] EXCEPT !.failed = 0, !.locked = 0, !.wrong = 0]
      OBVIOUS
    <2>2. accounts' = [accounts EXCEPT ![i] = r]
      BY <1>7, <2>1
    <2>3. i \in DOMAIN accounts => r \in Account /\ r.failed = 0 /\ r.locked = 0 /\ r.wrong = 0
      BY <2>1, AccountTyped DEF AccountsOK, Account
    <2> QED
      BY ZenonT(60), <1>2, <1>5, <1>6, <1>7, <2>2, <2>3, AccountCleared
  <1>8. CASE AccountFault /\ accounts' = [accounts EXCEPT ![i].wrong = 0]
    <2>1. PICK r : r = [accounts[i] EXCEPT !.wrong = 0]
      OBVIOUS
    <2>2. accounts' = [accounts EXCEPT ![i] = r]
      BY <1>8, <2>1
    <2>3. i \in DOMAIN accounts =>
             r \in Account /\ r.failed = accounts[i].failed /\ r.locked = accounts[i].locked /\ r.wrong = 0
      BY <2>1, AccountTyped DEF AccountsOK, Account
    <2>4. faults' \in Nat /\ faults' >= faults
      BY <1>8, AccountsTyped
    <2>5. ASSUME i \in DOMAIN accounts, NEW u \in Nat, NEW v \in Nat, u + v + 1 <= RequestCount,
                 Guessed(u + At01(req[h], "unlock", i), v + At01(req[h], "verify", i), accounts[i].failed,
                         accounts[i].locked, accounts[i].wrong, now, faults)
          PROVE  Guessed(u, v + At01(x, "verify", i), r.failed, r.locked, r.wrong, now, faults')
      <3>1. PICK f \in Nat, lk \in Nat, w \in Nat :
                f = accounts[i].failed /\ lk = accounts[i].locked /\ w = accounts[i].wrong
        BY <2>5, AccountTyped DEF AccountsOK
      <3>2. At01(req[h], "unlock", i) = 0 /\ At01(req[h], "verify", i) = 1 /\ At01(x, "verify", i) = 0
        BY <1>1, <1>2, <1>5 DEF At01
      <3>3. Guessed(u + 0, v + 1, f, lk, w, now, faults)
        BY <2>5, <3>1, <3>2
      <3>4. u + 0 + v + 1 <= RequestCount /\ 0 \in {0, 1} /\ 1 \in {0, 1}
        BY <2>5
      <3>5. Guessed(u, v, f, lk, w, now, faults')
        BY <2>4, <3>3, <3>4, AccountsTyped, GuessFewer
      <3>6. u + v <= RequestCount
        BY <2>5, LockConstants
      <3>7. Guessed(u, v, f, lk, 0, now, faults')
        BY <2>4, <3>5, <3>6, AccountsTyped, GuessForgotten
      <3>8. v + At01(x, "verify", i) = v
        BY <3>2
      <3> QED
        BY <2>3, <2>5, <3>1, <3>7, <3>8
    <2>6. x.pc # "unlock" /\ x.pc # "verify" /\ x.pc # "password"
      BY <1>5
    <2> QED
      BY <1>2, <1>5, <1>6, <2>2, <2>3, <2>4, <2>5, <2>6, AccountEdited
  <1> QED
    BY <1>1, <1>7, <1>8 DEF recordSuccessfulLogin

LEMMA AccountsReset == ASSUME AccountsOK, NEW h \in Request, ResetUserFailedLogin(h) PROVE AccountsOK'
  <1>1. PICK i : i = req[h].a
    OBVIOUS
  <1>2. UNCHANGED <<now, faults, tokens, resets, Admins>>
    BY DEF ResetUserFailedLogin
  <1>3. PICK x : x = IdleRequest
    OBVIOUS
  <1>4. Go(h, x) /\ Shape(x) /\ x.pc = "idle"
    BY <1>3, AccountsIdle DEF ResetUserFailedLogin, Answer
  <1>5. PICK r : r = [accounts[i] EXCEPT !.failed = 0, !.locked = 0, !.wrong = 0]
    OBVIOUS
  <1>6. accounts' = [accounts EXCEPT ![i] = r]
    BY <1>1, <1>5 DEF ResetUserFailedLogin
  <1>7. i \in DOMAIN accounts => r \in Account /\ r.failed = 0 /\ r.locked = 0 /\ r.wrong = 0
    BY <1>5, AccountTyped DEF AccountsOK, Account
  <1> QED
    BY <1>2, <1>4, <1>6, <1>7, AccountCleared

(* Rows whose lock is as it was; no request moves. *)
LEMMA LockRowsKept ==
    ASSUME LockOK, UNCHANGED <<now, req, faults>>, accounts' \in Seq(Account), DOMAIN accounts' = DOMAIN accounts,
           \A a \in DOMAIN accounts : /\ accounts'[a].failed = accounts[a].failed
                                      /\ accounts'[a].locked = accounts[a].locked
                                      /\ accounts'[a].wrong = accounts[a].wrong
    PROVE  LockOK'
  <1>1. \A a : Unlocking(a)' = Unlocking(a) /\ Verifying(a)' = Verifying(a)
    BY DEF Unlocking, Verifying
  <1>2. ASSUME NEW a \in DOMAIN accounts PROVE LockedOK(a)'
    <2>1. /\ Cardinality(Unlocking(a)') = Cardinality(Unlocking(a))
          /\ Cardinality(Verifying(a)') = Cardinality(Verifying(a))
      BY <1>1
    <2>2. LockedOK(a)
      BY DEF LockOK
    <2> QED
      BY <2>1, <2>2 DEF LockedOK
  <1> QED
    BY <1>2 DEF LockOK

(* Time passes: the guesses are counted anew. *)
LEMMA RequestsAt ==
    ASSUME NEW a
    PROVE  \E u \in Nat, v \in Nat :
              u = Cardinality(Unlocking(a)) /\ v = Cardinality(Verifying(a)) /\ u + v <= RequestCount
  <1>1. PICK U, V : U = Unlocking(a) /\ V = Verifying(a)
    OBVIOUS
  <1>2. U \in SUBSET Request /\ V \in SUBSET Request /\ U \cap V = {} /\ (U \cup V) \subseteq Request
    BY <1>1 DEF Unlocking, Verifying
  <1>3. IsFiniteSet(Request) /\ IsFiniteSet(U) /\ IsFiniteSet(V)
    BY <1>2, LockoutAssumption, FS_Subset
  <1>4. Cardinality(U) \in Nat /\ Cardinality(V) \in Nat
    BY <1>3, FS_CardinalityType
  <1>5. Cardinality(U \cup V) = Cardinality(U) + Cardinality(V) - Cardinality(U \cap V)
    BY <1>3, FS_Union
  <1>6. Cardinality(U \cap V) = 0
    BY <1>2, FS_EmptySet
  <1>7. Cardinality(U \cup V) <= Cardinality(Request)
    BY <1>2, <1>3, FS_Subset
  <1> QED
    BY <1>1, <1>4, <1>5, <1>6, <1>7 DEF RequestCount

LEMMA AccountsTick == ASSUME AccountsOK, AccountTick PROVE AccountsOK'
  <1>1. /\ now' = now + 1 /\ UNCHANGED <<req, faults, tokens, resets, Admins>>
        /\ accounts' = [a \in DOMAIN accounts |-> [accounts[a] EXCEPT !.wrong = 0]]
    BY DEF AccountTick
  <1>2. PICK n \in Nat : n = Len(accounts) /\ DOMAIN accounts = 1..n
    BY AccountsTyped
  <1>3. now \in Nat /\ now' \in Nat /\ faults \in Nat /\ faults' \in Nat
    BY <1>1, AccountsTyped
  <1>4. ASSUME NEW a \in 1..n
        PROVE  /\ accounts'[a] \in Account /\ accounts'[a].failed = accounts[a].failed
               /\ accounts'[a].locked = accounts[a].locked /\ accounts'[a].wrong = 0
    <2>1. PICK row \in Account : row = accounts[a]
      BY <1>2, AccountTyped DEF AccountsOK
    <2>2. PICK r : r = [row EXCEPT !.wrong = 0]
      OBVIOUS
    <2>3. accounts'[a] = r
      BY <1>1, <1>2, <2>1, <2>2
    <2>4. r \in Account /\ r.failed = row.failed /\ r.locked = row.locked /\ r.wrong = 0
      BY <2>2 DEF Account
    <2> QED
      BY <2>1, <2>3, <2>4
  <1>5. accounts' \in Seq(Account)
    <2>1. accounts' \in [1..n -> Account]
      BY <1>1, <1>2, <1>4
    <2> QED
      BY <2>1, IsSeq
  <1>6. ASSUME NEW a \in 1..n PROVE LockedOK(a)'
    <2>1. PICK u \in Nat, v \in Nat :
              u = Cardinality(Unlocking(a)) /\ v = Cardinality(Verifying(a)) /\ u + v <= RequestCount
      BY RequestsAt
    <2>2. Cardinality(Unlocking(a)') = u /\ Cardinality(Verifying(a)') = v
      <3>1. Unlocking(a)' = Unlocking(a) /\ Verifying(a)' = Verifying(a)
        BY <1>1 DEF Unlocking, Verifying
      <3> QED
        BY <2>1, <3>1
    <2>3. PICK f \in Nat, lk \in Nat, w \in Nat :
              f = accounts[a].failed /\ lk = accounts[a].locked /\ w = accounts[a].wrong
      BY <1>2, AccountTyped DEF AccountsOK
    <2>4. Guessed(u, v, f, lk, w, now, faults)
      BY <1>2, <2>1, <2>3 DEF AccountsOK, LockOK, LockedOK
    <2>5. Guessed(u, v, f, lk, 0, now', faults')
      BY <1>3, <2>1, <2>4, GuessForgotten
    <2> QED
      BY <1>4, <2>2, <2>3, <2>5 DEF LockedOK
  <1>7. LockOK'
    <2>1. DOMAIN accounts' = 1..n
      BY <1>1, <1>2
    <2> QED
      BY <1>3, <1>5, <1>6, <2>1 DEF LockOK
  <1>8. ShapesOK' /\ TokensOK' /\ ResetsOK' /\ WindowOK'
    BY <1>1 DEF AccountsOK, ShapesOK, TokensOK, OneTokenPerLogin, Alive, ResetsOK, WindowOK, Admins
  <1> QED
    BY <1>7, <1>8 DEF AccountsOK

(* The rows of an account that is deleted. *)
LEMMA AccountsDeleted == ASSUME AccountsOK, NEW a, SoftDeleteUser(a) PROVE AccountsOK'
  <1>1. /\ UNCHANGED <<now, req, faults, Admins>>
        /\ accounts' = [accounts EXCEPT ![a].live = FALSE, ![a].password = 0]
        /\ tokens' = [t \in DOMAIN tokens |->
                        IF tokens[t].of = a THEN [tokens[t] EXCEPT !.revoked = TRUE] ELSE tokens[t]]
        /\ resets' = [r \in DOMAIN resets |->
                        IF resets[r].of = a THEN [resets[r] EXCEPT !.used = TRUE] ELSE resets[r]]
    BY DEF SoftDeleteUser
  <1>2. LockOK'
    <2>1. PICK r : r = [accounts[a] EXCEPT !.live = FALSE, !.password = 0]
      OBVIOUS
    <2>2. accounts' = [accounts EXCEPT ![a] = r] /\ a \in DOMAIN accounts
      BY <1>1, <2>1 DEF SoftDeleteUser, Live
    <2>3. /\ r \in Account /\ r.failed = accounts[a].failed /\ r.locked = accounts[a].locked
          /\ r.wrong = accounts[a].wrong
      BY <2>1, <2>2, AccountTyped DEF AccountsOK, Account
    <2>4. /\ accounts' \in Seq(Account) /\ DOMAIN accounts' = DOMAIN accounts
          /\ \A i \in DOMAIN accounts : accounts'[i] = IF i = a THEN r ELSE accounts[i]
      BY <2>2, <2>3, AccountsTyped, ExceptTyped
    <2> QED
      BY <1>1, <2>3, <2>4, LockRowsKept DEF AccountsOK
  <1>3. TokensOK'
    <2>1. PICK n \in Nat : n = Len(tokens) /\ DOMAIN tokens = 1..n /\ tokens \in Seq(Token)
      BY AccountsTyped
    <2>2. ASSUME NEW t \in 1..n
          PROVE  /\ tokens'[t] \in Token /\ tokens'[t].login = tokens[t].login /\ tokens'[t].heir = tokens[t].heir
                 /\ tokens[t].revoked => tokens'[t].revoked
      <3>1. PICK row \in Token : row = tokens[t]
        BY <2>1, ElementOfSeq
      <3>2. PICK r : r = [row EXCEPT !.revoked = TRUE]
        OBVIOUS
      <3>3. tokens'[t] = r \/ tokens'[t] = row
        BY <1>1, <2>1, <3>1, <3>2
      <3>4. r \in Token /\ r.login = row.login /\ r.heir = row.heir /\ r.revoked
        BY <3>2 DEF Token
      <3> QED
        BY <3>1, <3>3, <3>4
    <2>3. DOMAIN tokens' = 1..n /\ tokens' \in [1..n -> Token]
      BY <1>1, <2>1, <2>2
    <2>4. tokens' \in Seq(Token) /\ Len(tokens') = n
      BY <2>3, IsSeq, LenProperties
    <2> QED
      BY <1>1, <2>1, <2>2, <2>3, <2>4 DEF AccountsOK, TokensOK, OneTokenPerLogin, Alive
  <1>4. ResetsOK'
    <2>1. PICK n \in Nat : n = Len(resets) /\ DOMAIN resets = 1..n /\ resets \in Seq(Reset)
      BY AccountsTyped
    <2>2. ASSUME NEW t \in 1..n
          PROVE  /\ resets'[t] \in Reset /\ resets'[t].set = resets[t].set
                 /\ resets[t].used => resets'[t].used
      <3>1. PICK row \in Reset : row = resets[t]
        BY <2>1, ElementOfSeq
      <3>2. PICK r : r = [row EXCEPT !.used = TRUE]
        OBVIOUS
      <3>3. resets'[t] = r \/ resets'[t] = row
        BY <1>1, <2>1, <3>1, <3>2
      <3>4. r \in Reset /\ r.set = row.set /\ r.used
        BY <3>2 DEF Reset
      <3> QED
        BY <3>1, <3>3, <3>4
    <2>3. DOMAIN resets' = 1..n /\ resets' \in [1..n -> Reset]
      BY <1>1, <2>1, <2>2
    <2>4. resets' \in Seq(Reset)
      BY <2>3, IsSeq
    <2> QED
      BY <1>1, <2>1, <2>2, <2>3, <2>4 DEF AccountsOK, ResetsOK
  <1>5. ShapesOK' /\ WindowOK'
    BY <1>1 DEF AccountsOK, ShapesOK, WindowOK, Admins
  <1> QED
    BY <1>2, <1>3, <1>4, <1>5 DEF AccountsOK

(* A new password, which the reset token of the request sets once. *)
LEMMA AccountsPassword == ASSUME AccountsOK, NEW h \in Request, UpdateUserPassword(h) PROVE AccountsOK'
  <1>1. PICK i, q : i = req[h].a /\ q = req[h].r
    OBVIOUS
  <1>2. req[h].pc = "password" /\ UNCHANGED <<now, link, tokens, Admins>>
    BY DEF UpdateUserPassword, At
  <1>3. CASE Answer(h) /\ UNCHANGED <<accounts, resets>> /\ (AccountFault \/ UNCHANGED faults)
    <2>1. UNCHANGED <<now, Customers, Admins>>
      BY <1>2, <1>3 DEF Customers
    <2> QED
      BY <1>3, <2>1, AccountsAnswer
  <1>4. CASE /\ accounts' = [accounts EXCEPT ![i].password = @ + 1]
             /\ resets' = IF q = 0 THEN resets ELSE [resets EXCEPT ![q].set = @ + 1]
             /\ Go(h, RevokeRefreshTokensByUser(i, IF q = 0 THEN "idle" ELSE "reset"))
             /\ UNCHANGED faults
    <2>1. PICK x : x = RevokeRefreshTokensByUser(i, IF q = 0 THEN "idle" ELSE "reset")
      OBVIOUS
    <2>2. i \in Nat
      BY <1>1, <1>2 DEF AccountsOK, ShapesOK, Shape
    <2>3. Go(h, x) /\ Shape(x) /\ x.pc = "revoke"
      BY <1>4, <2>1, <2>2 DEF RevokeRefreshTokensByUser, Shape
    <2>4. LockOK'
      <3>1. PICK r : r = [accounts[i] EXCEPT !.password = accounts[i].password + 1]
        OBVIOUS
      <3>2. accounts' = [accounts EXCEPT ![i] = r]
        BY <1>4, <3>1
      <3>3. i \in DOMAIN accounts =>
               /\ r \in Account /\ r.failed = accounts[i].failed /\ r.locked = accounts[i].locked
               /\ r.wrong = accounts[i].wrong
        BY <3>1, AccountTyped DEF AccountsOK, Account
      <3>4. faults' \in Nat /\ faults' >= faults /\ DOMAIN req = Request /\ UNCHANGED now
        BY <1>2, <1>4, AccountsTyped
      <3>5. ASSUME i \in DOMAIN accounts, NEW u \in Nat, NEW v \in Nat, u + v + 1 <= RequestCount,
                   Guessed(u + At01(req[h], "unlock", i), v + At01(req[h], "verify", i), accounts[i].failed,
                           accounts[i].locked, accounts[i].wrong, now, faults)
            PROVE  Guessed(u + At01(x, "unlock", i), v + At01(x, "verify", i), r.failed, r.locked, r.wrong,
                           now, faults')
        <4>1. /\ At01(req[h], "unlock", i) = 0 /\ At01(req[h], "verify", i) = 0
              /\ At01(x, "unlock", i) = 0 /\ At01(x, "verify", i) = 0
          BY <1>2, <2>3 DEF At01
        <4> QED
          BY <1>4, <3>3, <3>5, <4>1
      <3>6. x.pc \notin {"unlock", "verify"}
        BY <2>3
      <3> QED
        BY <2>3, <3>2, <3>3, <3>4, <3>5, <3>6, LockEdited DEF AccountsOK
    <2>5. ShapesOK'
      BY <2>3, ShapesGo DEF AccountsOK
    <2>6. TokensOK'
      BY <1>2, <2>3, TokensGo DEF AccountsOK
    <2>7. WindowOK'
      BY <1>2 DEF AccountsOK, WindowOK, Admins
    <2>8. CASE q = 0
      <3>1. ResetsOK'
        BY <1>4, <2>3, <2>8, ResetsGo DEF AccountsOK
      <3> QED
        BY <2>4, <2>5, <2>6, <2>7, <3>1 DEF AccountsOK
    <2>9. CASE q # 0
      <3>1. q \in DOMAIN resets /\ resets[q].used /\ resets[q].set = 0
        BY <1>1, <1>2, <2>9 DEF AccountsOK, ResetsOK
      <3>2. PICK row \in Reset : row = resets[q]
        BY <3>1, AccountsTyped, ElementOfSeq
      <3>3. PICK r : r = [row EXCEPT !.set = 1]
        OBVIOUS
      <3>4. r \in Reset /\ r.set = 1 /\ r.used
        BY <3>1, <3>2, <3>3 DEF Reset
      <3>5. resets' = [resets EXCEPT ![q] = r]
        <4>1. resets[q].set + 1 = 1
          BY <3>1
        <4> QED
          BY <1>4, <2>9, <3>2, <3>3, <4>1
      <3>6. /\ resets' \in Seq(Reset) /\ DOMAIN resets' = DOMAIN resets
            /\ \A t \in DOMAIN resets : resets'[t] = IF t = q THEN r ELSE resets[t]
        BY <3>4, <3>5, AccountsTyped, ExceptTyped
      <3>7. req'[h] = x /\ \A g \in Request : g # h => req'[g] = req[g]
        BY <2>3, AccountsTyped DEF Go
      <3>8. \A t \in DOMAIN resets' : resets'[t].set <= 1 /\ (~resets'[t].used => resets'[t].set = 0)
        <4> SUFFICES ASSUME NEW t \in DOMAIN resets
                     PROVE  resets'[t].set <= 1 /\ (~resets'[t].used => resets'[t].set = 0)
          BY <3>6
        <4>1. resets[t].set <= 1 /\ (~resets[t].used => resets[t].set = 0)
          BY DEF AccountsOK, ResetsOK
        <4>2. CASE t = q
          BY <3>4, <3>6, <4>2
        <4>3. CASE t # q
          BY <3>6, <4>1, <4>3
        <4> QED
          BY <4>2, <4>3
      <3>9. ASSUME NEW g \in Request, req'[g].pc = "password"
            PROVE  \/ req'[g].r = 0
                   \/ req'[g].r \in DOMAIN resets' /\ resets'[req'[g].r].used /\ resets'[req'[g].r].set = 0
        <4>1. g # h /\ req'[g] = req[g]
          BY <2>3, <3>7, <3>9
        <4>2. req[g].r # q
          BY <1>1, <1>2, <2>9, <3>9, <4>1 DEF AccountsOK, ResetsOK
        <4>3. \/ req[g].r = 0
              \/ req[g].r \in DOMAIN resets /\ resets[req[g].r].used /\ resets[req[g].r].set = 0
          BY <3>9, <4>1 DEF AccountsOK, ResetsOK
        <4> QED
          BY <3>6, <4>1, <4>2, <4>3
      <3>10. \A f, g \in Request :
               f # g /\ req'[f].pc = "password" /\ req'[g].pc = "password" /\ req'[f].r # 0 => req'[f].r # req'[g].r
        BY <2>3, <3>7 DEF AccountsOK, ResetsOK
      <3>11. ResetsOK'
        BY <3>6, <3>8, <3>9, <3>10 DEF ResetsOK
      <3> QED
        BY <2>4, <2>5, <2>6, <2>7, <3>11 DEF AccountsOK
    <2> QED
      BY <2>8, <2>9
  <1> QED
    BY <1>1, <1>3, <1>4 DEF UpdateUserPassword

LEMMA AccountsDispatch == ASSUME AccountsOK, dispatchPasswordReset PROVE AccountsOK'
  <1>1. PICK a \in Live : resets' = Append(resets, [of |-> a, used |-> FALSE, set |-> 0,
                                                    expires |-> now + PasswordResetTTL])
    BY DEF dispatchPasswordReset
  <1>2. PICK row : row = [of |-> a, used |-> FALSE, set |-> 0, expires |-> now + PasswordResetTTL]
    OBVIOUS
  <1>3. row \in Reset /\ row.set = 0
    <2>1. a \in Nat /\ now + PasswordResetTTL \in Nat
      BY AccountsTyped, TokenAssumption DEF Live
    <2> QED
      BY <1>2, <2>1 DEF Reset
  <1>4. PICK n \in Nat : n = Len(resets) /\ DOMAIN resets = 1..n /\ resets \in Seq(Reset)
    BY AccountsTyped
  <1>5. /\ resets' \in Seq(Reset) /\ Len(resets') = n + 1 /\ resets'[n + 1] = row
        /\ \A i \in 1..n : resets'[i] = resets[i]
    BY <1>1, <1>2, <1>3, <1>4, AppendProperties
  <1>6. DOMAIN resets' = 1..(n + 1) /\ (\A i \in 1..(n + 1) : i \in 1..n \/ i = n + 1) /\ 1..n \subseteq 1..(n + 1)
    BY <1>5, LenProperties
  <1>7. UNCHANGED <<now, accounts, tokens, req, faults, Admins>>
    BY DEF dispatchPasswordReset
  <1>8. ResetsOK'
    BY <1>3, <1>4, <1>5, <1>6, <1>7 DEF AccountsOK, ResetsOK
  <1>9. LockOK'
    BY <1>7, AccountsTyped, LockRowsKept DEF AccountsOK
  <1>10. ShapesOK' /\ TokensOK' /\ WindowOK'
    BY <1>7 DEF AccountsOK, ShapesOK, TokensOK, OneTokenPerLogin, Alive, WindowOK, Admins
  <1> QED
    BY <1>8, <1>9, <1>10 DEF AccountsOK

LEMMA AccountsConsume ==
    ASSUME AccountsOK, NEW h \in Request, NEW q \in DOMAIN resets, handleResetPassword(h, q)
    PROVE  AccountsOK'
  <1>1. /\ ~resets[q].used /\ resets' = [resets EXCEPT ![q].used = TRUE]
        /\ Go(h, [pc |-> "password", a |-> resets[q].of, r |-> q])
        /\ UNCHANGED <<now, accounts, tokens, faults, Admins>>
    BY DEF handleResetPassword, ConsumePasswordResetToken
  <1>2. PICK x : x = [pc |-> "password", a |-> resets[q].of, r |-> q]
    OBVIOUS
  <1>3. PICK row \in Reset : row = resets[q]
    BY AccountsTyped, ElementOfSeq
  <1>4. Go(h, x) /\ Shape(x) /\ x.pc = "password" /\ x.r = q
    <2>1. row.of \in Nat
      BY DEF Reset
    <2> QED
      BY <1>1, <1>2, <1>3, <2>1 DEF Shape
  <1>5. PICK r : r = [row EXCEPT !.used = TRUE]
    OBVIOUS
  <1>6. r \in Reset /\ r.set = row.set /\ r.used
    BY <1>5 DEF Reset
  <1>7. resets' = [resets EXCEPT ![q] = r]
    BY <1>1, <1>3, <1>5
  <1>8. /\ resets' \in Seq(Reset) /\ DOMAIN resets' = DOMAIN resets
        /\ \A t \in DOMAIN resets : resets'[t] = IF t = q THEN r ELSE resets[t]
    BY <1>6, <1>7, AccountsTyped, ExceptTyped
  <1>9. req'[h] = x /\ \A g \in Request : g # h => req'[g] = req[g]
    BY <1>4, AccountsTyped DEF Go
  <1>10. row.set = 0
    BY <1>1, <1>3 DEF AccountsOK, ResetsOK
  <1>11. \A g \in Request : req[g].pc = "password" => req[g].r # q
    <2> SUFFICES ASSUME NEW g \in Request, req[g].pc = "password", req[g].r = q PROVE FALSE
      OBVIOUS
    <2>1. q # 0
      BY AccountsTyped
    <2> QED
      BY <1>1, <2>1 DEF AccountsOK, ResetsOK
  <1>12. \A t \in DOMAIN resets' : resets'[t].set <= 1 /\ (~resets'[t].used => resets'[t].set = 0)
    <2> SUFFICES ASSUME NEW t \in DOMAIN resets
                 PROVE  resets'[t].set <= 1 /\ (~resets'[t].used => resets'[t].set = 0)
      BY <1>8
    <2>1. resets[t].set <= 1 /\ (~resets[t].used => resets[t].set = 0)
      BY DEF AccountsOK, ResetsOK
    <2>2. CASE t = q
      BY <1>6, <1>8, <1>10, <2>2
    <2>3. CASE t # q
      BY <1>8, <2>1, <2>3
    <2> QED
      BY <2>2, <2>3
  <1>13. ASSUME NEW g \in Request, req'[g].pc = "password"
         PROVE  \/ req'[g].r = 0
                \/ req'[g].r \in DOMAIN resets' /\ resets'[req'[g].r].used /\ resets'[req'[g].r].set = 0
    <2>1. CASE g = h
      BY <1>4, <1>6, <1>8, <1>9, <1>10, <2>1
    <2>2. CASE g # h
      <3>1. req'[g] = req[g] /\ req[g].r # q
        BY <1>9, <1>11, <1>13, <2>2
      <3>2. \/ req[g].r = 0
            \/ req[g].r \in DOMAIN resets /\ resets[req[g].r].used /\ resets[req[g].r].set = 0
        BY <1>13, <3>1 DEF AccountsOK, ResetsOK
      <3> QED
        BY <1>8, <3>1, <3>2
    <2> QED
      BY <2>1, <2>2
  <1>14. ASSUME NEW f \in Request, NEW g \in Request, f # g, req'[f].pc = "password", req'[g].pc = "password",
                req'[f].r # 0
         PROVE  req'[f].r # req'[g].r
    <2>1. CASE f = h
      BY <1>4, <1>9, <1>11, <1>14, <2>1
    <2>2. CASE g = h
      BY <1>4, <1>9, <1>11, <1>14, <2>2
    <2>3. CASE f # h /\ g # h
      BY <1>9, <1>14, <2>3 DEF AccountsOK, ResetsOK
    <2> QED
      BY <2>1, <2>2, <2>3
  <1>15. ResetsOK'
    BY <1>8, <1>12, <1>13, <1>14 DEF ResetsOK
  <1>16. ShapesOK'
    BY <1>4, ShapesGo DEF AccountsOK
  <1>17. TokensOK'
    BY <1>1, <1>4, TokensGo DEF AccountsOK
  <1>18. WindowOK'
    BY <1>1 DEF AccountsOK, WindowOK, Admins
  <1>19. LockOK'
    <2>1. faults' \in Nat /\ faults' >= faults
      BY <1>1, AccountsTyped
    <2> QED
      BY <1>1, <1>4, <2>1, AccountsTyped, LockSame DEF AccountsOK
  <1> QED
    BY <1>15, <1>16, <1>17, <1>18, <1>19 DEF AccountsOK

(* A session begins, or goes on with the token that was presented, unless   *)
(* another request has used that up.                                        *)
LEMMA AccountsSession == ASSUME AccountsOK, NEW h \in Request, issueSession(h) PROVE AccountsOK'
  <1>1. PICK a, p : a = req[h].a /\ p = req[h].parent
    OBVIOUS
  <1>2. req[h].pc = "issue" /\ Answer(h) /\ UNCHANGED <<now, accounts, link, resets, faults, Admins>>
    BY DEF issueSession, At
  <1>3. PICK n \in Nat : n = Len(tokens) /\ DOMAIN tokens = 1..n /\ tokens \in Seq(Token)
    BY AccountsTyped
  <1>4. a \in Nat /\ p \in Nat /\ p <= n
    BY <1>1, <1>2, <1>3 DEF AccountsOK, ShapesOK, Shape, TokensOK
  <1>5. PICK x : x = IdleRequest
    OBVIOUS
  <1>6. Go(h, x) /\ Shape(x) /\ x.pc = "idle"
    BY <1>2, <1>5, AccountsIdle DEF Answer
  <1>7. ShapesOK' /\ ResetsOK' /\ WindowOK'
    BY <1>2, <1>6, ShapesGo, ResetsGo DEF AccountsOK, WindowOK, Admins
  <1>8. LockOK'
    <2>1. faults' \in Nat /\ faults' >= faults
      BY <1>2, AccountsTyped
    <2> QED
      BY <1>2, <1>6, <2>1, AccountsTyped, LockSame DEF AccountsOK
  <1>9. ASSUME UNCHANGED tokens PROVE TokensOK'
    BY <1>6, <1>9, TokensGo DEF AccountsOK
  <1>10. req'[h] = x /\ \A g \in Request : g # h => req'[g] = req[g]
    BY <1>6, AccountsTyped DEF Go
  <1>11. \A g \in Request : req'[g].pc = "issue" => req'[g].parent \in Nat /\ req'[g].parent <= n
    BY <1>3, <1>6, <1>10 DEF AccountsOK, TokensOK, ShapesOK, Shape
  <1>12. ASSUME NEW login \in Nat, login <= n + 1
         PROVE  \E row \in Token :
                   /\ row.login = login /\ row.heir = 0 /\ ~row.revoked
                   /\ CreateRefreshToken(a, login) = Append(tokens, row)
    <2>1. PICK row : row = [of |-> a, login |-> login, heir |-> 0, revoked |-> FALSE,
                            expires |-> now + RefreshTokenTTL]
      OBVIOUS
    <2>2. now + RefreshTokenTTL \in Nat
      BY AccountsTyped, TokenAssumption
    <2>3. row \in Token /\ row.login = login /\ row.heir = 0 /\ ~row.revoked
      BY <1>4, <2>1, <2>2 DEF Token
    <2> QED
      BY <2>1, <2>3 DEF CreateRefreshToken
  <1>13. \A i \in 1..n : tokens[i] \in Token /\ tokens[i].login \in Nat /\ tokens[i].heir \in Nat
                         /\ tokens[i].login <= n /\ tokens[i].login <= i /\ tokens[i].heir <= n
    <2> TAKE i \in 1..n
    <2>1. tokens[i] \in Token
      BY <1>3, ElementOfSeq
    <2>2. tokens[i].login <= i /\ tokens[i].heir <= n
      BY <1>3 DEF AccountsOK, TokensOK
    <2> QED
      BY <2>1, <2>2 DEF Token
  <1>14. CASE p = 0
    <2>1. PICK row \in Token : /\ row.login = n + 1 /\ row.heir = 0 /\ ~row.revoked
                               /\ CreateRefreshToken(a, n + 1) = Append(tokens, row)
      BY <1>12
    <2>2. tokens' = Append(tokens, row)
      BY <1>1, <1>3, <1>14, <2>1 DEF issueSession
    <2>3. /\ tokens' \in Seq(Token) /\ Len(tokens') = n + 1 /\ tokens'[n + 1] = row
          /\ \A i \in 1..n : tokens'[i] = tokens[i]
      BY <1>3, <2>1, <2>2, AppendProperties
    <2>4. DOMAIN tokens' = 1..(n + 1) /\ (\A i \in 1..(n + 1) : i \in 1..n \/ i = n + 1)
      BY <2>3, LenProperties
    <2>5. \A i \in 1..(n + 1) : tokens'[i].login <= i /\ tokens'[i].heir <= n + 1
      BY SMTT(40), <1>13, <2>1, <2>3, <2>4
    <2>6. ASSUME NEW i \in 1..(n + 1), NEW j \in 1..(n + 1), i # j
          PROVE  /\ tokens'[i].login = tokens'[j].login => ~(~tokens'[i].revoked /\ ~tokens'[j].revoked)
                 /\ tokens'[i].heir # 0 => tokens'[i].heir # tokens'[j].heir
      <3>1. CASE i \in 1..n /\ j \in 1..n
        BY <1>3, <2>3, <2>6, <3>1 DEF AccountsOK, TokensOK, OneTokenPerLogin, Alive
      <3>2. CASE i = n + 1 /\ j \in 1..n
        <4>1. tokens'[i] = row /\ tokens'[j] = tokens[j]
          BY <2>3, <3>2
        <4>2. tokens[j].login \in Nat /\ tokens[j].login <= n
          BY <1>13, <3>2
        <4> QED
          BY <2>1, <4>1, <4>2
      <3>3. CASE i \in 1..n /\ j = n + 1
        BY <1>13, <2>1, <2>3, <3>3
      <3> QED
        BY <2>4, <2>6, <3>1, <3>2, <3>3
    <2>7. TokensOK'
      BY <1>11, <2>3, <2>4, <2>5, <2>6 DEF TokensOK, OneTokenPerLogin, Alive
    <2> QED
      BY <1>7, <1>8, <2>7 DEF AccountsOK
  <1>15. CASE p # 0 /\ Alive(p)
    <2>1. p \in 1..n /\ ~tokens[p].revoked
      BY <1>4, <1>15 DEF Alive
    <2>2. PICK old \in Token : old = tokens[p] /\ old.login \in Nat /\ old.login <= n
      BY <1>13, <2>1
    <2>3. PICK row \in Token : /\ row.login = old.login /\ row.heir = 0 /\ ~row.revoked
                               /\ CreateRefreshToken(a, old.login) = Append(tokens, row)
      BY <1>12, <2>2
    <2>4. PICK s : s = Append(tokens, row)
      OBVIOUS
    <2>5. /\ s \in Seq(Token) /\ Len(s) = n + 1 /\ s[n + 1] = row
          /\ \A i \in 1..n : s[i] = tokens[i]
      BY <1>3, <2>3, <2>4, AppendProperties
    <2>6. DOMAIN s = 1..(n + 1) /\ (\A i \in 1..(n + 1) : i \in 1..n \/ i = n + 1)
      BY <2>5, LenProperties
    <2>7. PICK new : new = [old EXCEPT !.revoked = TRUE, !.heir = n + 1]
      OBVIOUS
    <2>8. new \in Token /\ new.login = old.login /\ new.revoked /\ new.heir = n + 1
      <3>1. PICK m \in Nat : m = n + 1
        OBVIOUS
      <3>2. new = [old EXCEPT !.revoked = TRUE, !.heir = m]
        BY <2>7, <3>1
      <3>3. new \in Token
        BY <3>2 DEF Token
      <3>4. new.login = old.login /\ new.revoked /\ new.heir = m
        BY <3>2 DEF Token
      <3> QED
        BY <3>1, <3>3, <3>4
    <2>9. tokens' = [s EXCEPT ![p] = new]
      <3>1. tokens' = [s EXCEPT ![p].revoked = TRUE, ![p].heir = n + 1]
        BY <1>1, <1>3, <1>15, <2>2, <2>3, <2>4 DEF issueSession, RotateRefreshToken, ConsumeRefreshToken
      <3>2. s[p] = old
        BY <2>1, <2>2, <2>5
      <3> QED
        BY <2>7, <3>1, <3>2
    <2>10. /\ tokens' \in Seq(Token) /\ DOMAIN tokens' = 1..(n + 1)
           /\ \A i \in 1..(n + 1) : tokens'[i] = IF i = p THEN new ELSE s[i]
      BY <2>5, <2>6, <2>8, <2>9, ExceptTyped
    <2>11. Len(tokens') = n + 1
      BY <2>10, LenProperties
    <2>12. tokens'[p] = new /\ tokens'[n + 1] = row /\ \A i \in 1..n : i # p => tokens'[i] = tokens[i]
      BY <2>1, <2>5, <2>6, <2>10
    <2>13. \A i \in 1..(n + 1) : tokens'[i].login <= i /\ tokens'[i].heir <= n + 1
      <3> SUFFICES ASSUME NEW i \in 1..(n + 1) PROVE tokens'[i].login <= i /\ tokens'[i].heir <= n + 1
        OBVIOUS
      <3>1. CASE i = p
        BY <1>13, <2>1, <2>2, <2>8, <2>12, <3>1
      <3>2. CASE i = n + 1
        BY <2>2, <2>3, <2>12, <3>2
      <3>3. CASE i \in 1..n /\ i # p
        BY <1>13, <2>12, <3>3
      <3> QED
        BY <2>6, <3>1, <3>2, <3>3
    <2>14. \A j \in 1..n : j # p /\ tokens[j].login = old.login => tokens[j].revoked
      BY <1>3, <2>1, <2>2 DEF AccountsOK, TokensOK, OneTokenPerLogin, Alive
    <2>15. ASSUME NEW i \in 1..(n + 1), NEW j \in 1..(n + 1), i # j
           PROVE  /\ tokens'[i].login = tokens'[j].login => ~(~tokens'[i].revoked /\ ~tokens'[j].revoked)
                  /\ tokens'[i].heir # 0 => tokens'[i].heir # tokens'[j].heir
      <3>1. CASE i \in 1..n /\ j \in 1..n /\ i # p /\ j # p
        BY <1>3, <2>12, <2>15, <3>1 DEF AccountsOK, TokensOK, OneTokenPerLogin, Alive
      <3>2. CASE i = p /\ j \in 1..n
        BY <1>13, <2>8, <2>12, <2>15, <3>2
      <3>3. CASE j = p /\ i \in 1..n
        BY <1>13, <2>8, <2>12, <2>15, <3>3
      <3>4. CASE i = n + 1 /\ j \in 1..n
        BY <2>3, <2>8, <2>12, <2>14, <3>4
      <3>5. CASE i \in 1..n /\ j = n + 1
        BY <2>3, <2>8, <2>12, <2>14, <3>5
      <3> QED
        BY <2>6, <2>15, <3>1, <3>2, <3>3, <3>4, <3>5
    <2>16. TokensOK'
      BY <1>11, <2>10, <2>11, <2>13, <2>15 DEF TokensOK, OneTokenPerLogin, Alive
    <2> QED
      BY <1>7, <1>8, <2>16 DEF AccountsOK
  <1>16. CASE p # 0 /\ ~Alive(p)
    <2>1. UNCHANGED tokens
      BY <1>1, <1>16 DEF issueSession, RotateRefreshToken, ConsumeRefreshToken
    <2> QED
      BY <1>7, <1>8, <1>9, <2>1 DEF AccountsOK
  <1> QED
    BY <1>14, <1>15, <1>16

LEMMA AccountsRevoke == ASSUME AccountsOK, NEW h \in Request, Revoke(h) PROVE AccountsOK'
  <1>1. req[h].pc = "revoke" /\ UNCHANGED <<now, accounts, link, resets, Admins>>
    BY DEF Revoke, At
  <1>2. CASE AccountFault /\ Answer(h) /\ UNCHANGED tokens
    <2>1. UNCHANGED <<now, Customers, Admins>>
      BY <1>1, <1>2 DEF Customers
    <2> QED
      BY <1>2, <2>1, AccountsAnswer
  <1>3. CASE /\ tokens' = [t \in DOMAIN tokens |->
                            IF t \in req[h].rows THEN [tokens[t] EXCEPT !.revoked = TRUE] ELSE tokens[t]]
             /\ Go(h, IF req[h].then = "idle" THEN IdleRequest ELSE [pc |-> req[h].then, a |-> req[h].a])
             /\ UNCHANGED faults
    <2>1. PICK x : x = IF req[h].then = "idle" THEN IdleRequest ELSE [pc |-> req[h].then, a |-> req[h].a]
      OBVIOUS
    <2>2. req[h].then \in {"idle", "reset"} /\ req[h].a \in Nat
      BY <1>1 DEF AccountsOK, ShapesOK, Shape
    <2>3. Go(h, x) /\ Shape(x) /\ x.pc \in {"idle", "reset"}
      BY <1>3, <2>1, <2>2 DEF Shape, IdleRequest
    <2>4. ShapesOK' /\ ResetsOK' /\ WindowOK'
      BY <1>1, <2>3, ShapesGo, ResetsGo DEF AccountsOK, WindowOK, Admins
    <2>5. LockOK'
      <3>1. faults' \in Nat /\ faults' >= faults
        BY <1>3, AccountsTyped
      <3>2. x.pc \notin {"unlock", "verify"}
        BY <2>3
      <3> QED
        BY <1>1, <2>3, <3>1, <3>2, AccountsTyped, LockSame DEF AccountsOK
    <2>6. PICK n \in Nat : n = Len(tokens) /\ DOMAIN tokens = 1..n /\ tokens \in Seq(Token)
      BY AccountsTyped
    <2>7. ASSUME NEW t \in 1..n
          PROVE  /\ tokens'[t] \in Token /\ tokens'[t].login = tokens[t].login /\ tokens'[t].heir = tokens[t].heir
                 /\ tokens[t].revoked => tokens'[t].revoked
      <3>1. PICK row \in Token : row = tokens[t]
        BY <2>6, ElementOfSeq
      <3>2. PICK r : r = [row EXCEPT !.revoked = TRUE]
        OBVIOUS
      <3>3. tokens'[t] = r \/ tokens'[t] = row
        BY <1>3, <2>6, <3>1, <3>2
      <3>4. r \in Token /\ r.login = row.login /\ r.heir = row.heir /\ r.revoked
        BY <3>2 DEF Token
      <3> QED
        BY <3>1, <3>3, <3>4
    <2>8. DOMAIN tokens' = 1..n /\ tokens' \in [1..n -> Token]
      BY <1>3, <2>6, <2>7
    <2>9. tokens' \in Seq(Token) /\ Len(tokens') = n
      BY <2>8, IsSeq, LenProperties
    <2>10. req'[h] = x /\ \A g \in Request : g # h => req'[g] = req[g]
      BY <2>3, AccountsTyped DEF Go
    <2>11. TokensOK'
      BY <2>3, <2>6, <2>7, <2>8, <2>9, <2>10 DEF AccountsOK, TokensOK, OneTokenPerLogin, Alive
    <2> QED
      BY <2>4, <2>5, <2>11 DEF AccountsOK
  <1> QED
    BY <1>2, <1>3 DEF Revoke

LEMMA AccountsRefresh ==
    ASSUME AccountsOK, NEW h \in Request, NEW t \in DOMAIN tokens, handleRefresh(h, t) \/ handleLogout(h, t)
    PROVE  AccountsOK'
  <1>1. UNCHANGED <<now, faults, Customers, Admins>>
    BY DEF handleRefresh, handleLogout
  <1>2. UNCHANGED <<accounts, tokens, resets>> /\ faults' \in Nat /\ faults' >= faults
    BY <1>1, AccountsTyped DEF Customers
  <1>3. PICK row \in Token : row = tokens[t]
    BY AccountsTyped, ElementOfSeq
  <1>4. row.of \in Nat
    BY DEF Token
  <1>5. CASE Answer(h)
    BY <1>1, <1>5, AccountsAnswer
  <1>6. ASSUME NEW x, Go(h, x), x = RevokeRefreshTokenFamily(t) \/ x = RevokeRefreshTokensByUser(row.of, "idle")
        PROVE  AccountsOK'
    <2>1. x.pc = "revoke" /\ x.then = "idle" /\ x.a = row.of
      BY <1>3, <1>6 DEF RevokeRefreshTokenFamily, RevokeRefreshTokensByUser
    <2>2. Shape(x)
      BY <1>4, <2>1 DEF Shape
    <2> QED
      BY <1>1, <1>2, <1>6, <2>1, <2>2, Elsewhere
  <1>7. CASE Go(h, Issue(row.of, t))
    <2>1. PICK x : x = Issue(row.of, t)
      OBVIOUS
    <2>2. t \in Nat /\ t <= Len(tokens)
      BY AccountsTyped
    <2>3. Go(h, x) /\ Shape(x) /\ x.pc = "issue" /\ x.parent = t
      BY <1>4, <1>7, <2>1, <2>2, AccountsIssue
    <2> QED
      BY <1>1, <1>2, <2>2, <2>3, Elsewhere
  <1>8. \/ Answer(h) \/ Go(h, Issue(row.of, t))
        \/ Go(h, RevokeRefreshTokenFamily(t)) \/ Go(h, RevokeRefreshTokensByUser(row.of, "idle"))
    BY <1>3 DEF handleRefresh, handleLogout
  <1> QED
    BY <1>5, <1>6, <1>7, <1>8

LEMMA AccountsChange == ASSUME AccountsOK, NEW h \in Request, NEW guess, handleChangePassword(h, guess) PROVE AccountsOK'
  <1>1. PICK a \in Live : Go(h, [pc |-> "password", a |-> a, r |-> 0])
    BY DEF handleChangePassword
  <1>2. PICK x : x = [pc |-> "password", a |-> a, r |-> 0]
    OBVIOUS
  <1>3. a \in Nat
    BY AccountsTyped DEF Live
  <1>4. x.pc = "password" /\ x.r = 0 /\ Shape(x) /\ Go(h, x)
    BY <1>1, <1>2, <1>3 DEF Shape
  <1>5. UNCHANGED <<now, faults, accounts, tokens, resets, Admins>> /\ faults' \in Nat /\ faults' >= faults
    BY AccountsTyped DEF handleChangePassword, Customers
  <1> QED
    BY <1>4, <1>5, Elsewhere

LEMMA AccountsIdentity ==
    ASSUME AccountsOK, NEW h \in Request, findOrCreateOAuthUser(h) \/ LinkProvider(h)
    PROVE  AccountsOK'
  <1>1. UNCHANGED <<now, faults, tokens, resets, Admins>> /\ faults' \in Nat /\ faults' >= faults
    BY AccountsTyped DEF findOrCreateOAuthUser, LinkProvider
  <1>2. ASSUME NEW a \in Nat, Go(h, Issue(a, 0)), UNCHANGED accounts PROVE AccountsOK'
    <2>1. PICK x : x = Issue(a, 0)
      OBVIOUS
    <2>2. Go(h, x) /\ Shape(x) /\ x.pc = "issue" /\ x.parent = 0 /\ 0 <= Len(tokens)
      BY <1>2, <2>1, AccountsIssue, AccountsTyped
    <2> QED
      BY <1>1, <1>2, <2>2, Elsewhere
  <1>3. ASSUME NEW a \in Nat, NEW x, x = [pc |-> "link", a |-> a] PROVE Shape(x) /\ x.pc = "link"
    BY <1>3 DEF Shape
  <1>4. CASE findOrCreateOAuthUser(h)
    <2>1. CASE Go(h, Issue(link, 0)) /\ link \in Live /\ UNCHANGED accounts
      <3>1. link \in Nat
        BY <2>1, AccountsTyped DEF Live
      <3> QED
        BY <1>2, <2>1, <3>1
    <2>2. ASSUME NEW a \in Live, Go(h, [pc |-> "link", a |-> a]), UNCHANGED accounts PROVE AccountsOK'
      <3>1. PICK x : x = [pc |-> "link", a |-> a]
        OBVIOUS
      <3>2. a \in Nat
        BY AccountsTyped DEF Live
      <3>3. Go(h, x) /\ Shape(x) /\ x.pc = "link"
        BY <1>3, <2>2, <3>1, <3>2
      <3> QED
        BY <1>1, <2>2, <3>3, Elsewhere
    <2>3. CASE accounts' = CreateUser(0) /\ Go(h, [pc |-> "link", a |-> Len(accounts) + 1])
      <3>1. PICK n \in Nat : n = Len(accounts) + 1
        BY AccountsTyped
      <3>2. PICK x : x = [pc |-> "link", a |-> n]
        OBVIOUS
      <3>3. Go(h, x) /\ Shape(x) /\ x.pc = "link"
        BY <1>3, <2>3, <3>1, <3>2
      <3>4. req[h].pc = "idle"
        BY <1>4 DEF findOrCreateOAuthUser, At
      <3>5. LockOK'
        BY <1>1, <2>3, <3>3, <3>4, AccountsTyped, LockAppended DEF AccountsOK
      <3>6. ShapesOK' /\ TokensOK' /\ ResetsOK' /\ WindowOK'
        BY <1>1, <3>3, OthersKept
      <3> QED
        BY <3>5, <3>6 DEF AccountsOK
    <2> QED
      BY <1>4, <2>1, <2>2, <2>3 DEF findOrCreateOAuthUser
  <1>5. CASE LinkProvider(h)
    <2>1. UNCHANGED accounts /\ req[h].pc = "link" /\ req[h].a \in Nat
      BY <1>5 DEF LinkProvider, At, AccountsOK, ShapesOK, Shape
    <2>2. CASE Go(h, Issue(req[h].a, 0))
      BY <1>2, <2>1, <2>2
    <2>3. CASE Answer(h) /\ UNCHANGED link
      <3>1. UNCHANGED <<now, Customers, Admins>> /\ UNCHANGED faults
        BY <1>1, <2>1, <2>3 DEF Customers
      <3> QED
        BY <2>3, <3>1, AccountsAnswer
    <2> QED
      BY <1>5, <2>2, <2>3 DEF LinkProvider
  <1> QED
    BY <1>4, <1>5

(* The administrator's row may change, the windows do not. *)
LEMMA AccountsAdmin ==
    ASSUME AccountsOK, NEW h \in Request,
           \/ \E ok : handleAdminLogin(h, ok)
           \/ IncrementAdminFailedLogin(h) \/ TOTPReplayed(h) \/ VerifyTOTP(h) \/ AdminEntersWithoutCode(h)
    PROVE  AccountsOK'
  <1>1. UNCHANGED <<now, accepted, Customers>> /\ UNCHANGED <<accounts, tokens, resets>>
    BY DEF handleAdminLogin, IncrementAdminFailedLogin, TOTPReplayed, VerifyTOTP, AdminEntersWithoutCode,
           Customers, Admins
  <1>2. AccountFault \/ UNCHANGED faults
    BY DEF handleAdminLogin, IncrementAdminFailedLogin, TOTPReplayed, VerifyTOTP, AdminEntersWithoutCode
  <1>3. faults' \in Nat /\ faults' >= faults /\ now \in Nat
    BY <1>2, AccountsTyped
  <1>4. PICK x : /\ Go(h, x) /\ Shape(x) /\ x.pc \in {"idle", "admin", "window"}
    <2>1. ASSUME NEW ok PROVE Shape([pc |-> "admin", ok |-> ok]) /\ [pc |-> "admin", ok |-> ok].pc = "admin"
      BY DEF Shape
    <2>2. Shape([pc |-> "window", w |-> now]) /\ [pc |-> "window", w |-> now].pc = "window"
      BY <1>3 DEF Shape
    <2>3. ASSUME NEW ok, handleAdminLogin(h, ok)
          PROVE  \E x : Go(h, x) /\ Shape(x) /\ x.pc \in {"idle", "admin", "window"}
      <3>1. Go(h, IdleRequest) \/ Go(h, [pc |-> "admin", ok |-> ok])
        BY <2>3 DEF handleAdminLogin, Answer
      <3> QED
        BY <2>1, <3>1, AccountsIdle
    <2>4. CASE IncrementAdminFailedLogin(h) \/ TOTPReplayed(h) \/ AdminEntersWithoutCode(h)
      <3>1. Go(h, IdleRequest)
        BY <2>4 DEF IncrementAdminFailedLogin, TOTPReplayed, AdminEntersWithoutCode, Answer
      <3> QED
        BY <3>1, AccountsIdle
    <2>5. CASE VerifyTOTP(h)
      <3>1. Go(h, [pc |-> "window", w |-> now])
        BY <2>5 DEF VerifyTOTP
      <3> QED
        BY <2>2, <3>1
    <2> QED
      BY <2>3, <2>4, <2>5
  <1>5. DOMAIN admin' = DOMAIN admin /\ admin'.window = admin.window
    <2>1. DOMAIN admin = {"failed", "locked", "window", "mfa"}
      BY DEF AccountsOK, WindowOK
    <2>2. ASSUME NEW ok, handleAdminLogin(h, ok) PROVE DOMAIN admin' = DOMAIN admin /\ admin'.window = admin.window
      BY <2>1, <2>2 DEF handleAdminLogin
    <2>3. ASSUME admin' = Failed(admin, AdminLockoutThreshold)
          PROVE  DOMAIN admin' = DOMAIN admin /\ admin'.window = admin.window
      BY <2>1, <2>3 DEF Failed
    <2>4. CASE IncrementAdminFailedLogin(h) \/ TOTPReplayed(h)
      BY <2>3, <2>4 DEF IncrementAdminFailedLogin, TOTPReplayed
    <2>5. CASE AdminEntersWithoutCode(h)
      BY <2>1, <2>5 DEF AdminEntersWithoutCode
    <2>6. CASE VerifyTOTP(h)
      BY <2>6 DEF VerifyTOTP, Admins
    <2> QED
      BY <2>2, <2>4, <2>5, <2>6
  <1>6. WindowOK'
    BY <1>1, <1>5 DEF AccountsOK, WindowOK
  <1>7. x.pc \notin {"unlock", "verify", "issue", "password"}
    BY <1>4
  <1>8. ShapesOK' /\ TokensOK' /\ ResetsOK'
    BY <1>1, <1>4, <1>7, ShapesGo, TokensGo, ResetsGo DEF AccountsOK
  <1>9. LockOK'
    BY <1>1, <1>3, <1>4, <1>7, AccountsTyped, LockSame DEF AccountsOK
  <1> QED
    BY <1>6, <1>8, <1>9 DEF AccountsOK

(* The window that serves a login is later than all those that did. *)
LEMMA AccountsEnter == ASSUME AccountsOK, NEW h \in Request, AdminEnters(h) PROVE AccountsOK'
  <1>1. PICK w : w = req[h].w
    OBVIOUS
  <1>2. req[h].pc = "window" /\ Answer(h) /\ UNCHANGED <<now, faults, Customers>>
    BY DEF AdminEnters, At
  <1>3. w \in Nat
    BY <1>1, <1>2 DEF AccountsOK, ShapesOK, Shape
  <1>4. CASE UNCHANGED Admins
    BY <1>2, <1>4, AccountsAnswer
  <1>5. CASE /\ admin.window < w
             /\ admin' = [admin EXCEPT !.window = w, !.failed = 0, !.locked = 0]
             /\ accepted' = [accepted EXCEPT ![w] = @ + 1]
    <2>1. /\ DOMAIN admin = {"failed", "locked", "window", "mfa"} /\ admin.window \in Nat
          /\ accepted \in [1..MaxTime -> Nat] /\ DOMAIN accepted = 1..MaxTime
          /\ \A v \in 1..MaxTime : accepted[v] <= 1 /\ (v > admin.window => accepted[v] = 0)
      BY DEF AccountsOK, WindowOK
    <2>2. DOMAIN admin' = {"failed", "locked", "window", "mfa"} /\ admin'.window = w
      BY <1>5, <2>1
    <2>3. ASSUME NEW v \in 1..MaxTime
          PROVE  accepted'[v] \in Nat /\ accepted'[v] <= 1 /\ (v > w => accepted'[v] = 0)
      <3>1. CASE v = w
        <4>1. accepted[v] = 0
          BY <1>5, <2>1, <3>1
        <4>2. accepted'[v] = 1
          BY <1>5, <2>1, <3>1, <4>1
        <4> QED
          BY <1>3, <3>1, <4>2
      <3>2. CASE v # w
        <4>1. accepted'[v] = accepted[v]
          BY <1>5, <2>1, <3>2
        <4>2. v > w => v > admin.window
          BY <1>3, <1>5, <2>1
        <4> QED
          BY <2>1, <4>1, <4>2
      <3> QED
        BY <3>1, <3>2
    <2>4. accepted' \in [1..MaxTime -> Nat] /\ DOMAIN accepted' = 1..MaxTime
      BY <1>5, <2>1, <2>3
    <2>5. WindowOK'
      BY <1>3, <2>2, <2>3, <2>4 DEF WindowOK
    <2>6. PICK x : x = IdleRequest
      OBVIOUS
    <2>7. Go(h, x) /\ Shape(x) /\ x.pc = "idle"
      BY <1>2, <2>6, AccountsIdle DEF Answer
    <2>8. ShapesOK' /\ TokensOK' /\ ResetsOK'
      BY <1>2, <2>7, ShapesGo, TokensGo, ResetsGo DEF AccountsOK, Customers
    <2>9. LockOK'
      <3>1. faults' \in Nat /\ faults' >= faults /\ UNCHANGED <<now, accounts>>
        BY <1>2, AccountsTyped DEF Customers
      <3> QED
        BY <2>7, <3>1, AccountsTyped, LockSame DEF AccountsOK
    <2> QED
      BY <2>5, <2>8, <2>9 DEF AccountsOK
  <1> QED
    BY <1>1, <1>4, <1>5 DEF AdminEnters, SetAdminTOTPLastWindow

LEMMA AccountsSecret == ASSUME AccountsOK, NEW on, SetAdminMFASecret(on) PROVE AccountsOK'
  <1>1. /\ admin' = [admin EXCEPT !.mfa = on]
        /\ UNCHANGED <<now, faults, req, accepted, accounts, tokens, resets>>
    BY DEF SetAdminMFASecret, Customers
  <1>2. DOMAIN admin' = {"failed", "locked", "window", "mfa"} /\ admin'.window = admin.window
    BY <1>1 DEF AccountsOK, WindowOK
  <1>3. WindowOK'
    BY <1>1, <1>2 DEF AccountsOK, WindowOK
  <1>4. ShapesOK' /\ TokensOK' /\ ResetsOK'
    BY <1>1 DEF AccountsOK, ShapesOK, TokensOK, OneTokenPerLogin, Alive, ResetsOK
  <1>5. LockOK'
    BY <1>1, AccountsTyped, LockRowsKept DEF AccountsOK
  <1> QED
    BY <1>3, <1>4, <1>5 DEF AccountsOK

LEMMA AccountsStop == ASSUME AccountsOK, NEW h \in Request, RequestStops(h) PROVE AccountsOK'
  BY AccountsAnswer DEF RequestStops

LEMMA AccountsStep == AccountsOK /\ [AccountNext]_accountVars => AccountsOK'
  <1> SUFFICES ASSUME AccountsOK, [AccountNext]_accountVars PROVE AccountsOK'
    OBVIOUS
  <1>1. CASE UNCHANGED accountVars
    <2>1. UNCHANGED <<now, accounts, tokens, resets, req, admin, accepted, faults>>
      BY <1>1 DEF accountVars
    <2>2. LockOK'
      BY <2>1, AccountsTyped, LockRowsKept DEF AccountsOK
    <2> QED
      BY <2>1, <2>2 DEF AccountsOK, ShapesOK, TokensOK, OneTokenPerLogin, Alive, ResetsOK, WindowOK
  <1>2. CASE CommonNext
    BY <1>2, AccountsTick, AccountsStop DEF CommonNext
  <1>3. CASE SessionNext
    BY <1>3, AccountsSignup, AccountsSession, AccountsRevoke, AccountsRefresh DEF SessionNext
  <1>4. CASE PasswordNext
    BY <1>4, AccountsLogin, AccountsChange, AccountsLock, AccountsUnlock, AccountsFailed, AccountsSucceeded,
       AccountsConsume, AccountsPassword, AccountsReset, AccountsDispatch DEF PasswordNext
  <1>5. CASE IdentityNext
    BY <1>5, AccountsIdentity, AccountsDeleted DEF IdentityNext
  <1>6. CASE AdminNext
    BY <1>6, AccountsAdmin, AccountsEnter, AccountsSecret DEF AdminNext
  <1> QED
    BY <1>1, <1>2, <1>3, <1>4, <1>5, <1>6 DEF AccountNext

LEMMA AccountsInvariant == AccountSpec => []AccountsOK
  BY AccountsStart, AccountsStep, PTL DEF AccountSpec

(* What is left is never less than none, so twice the guesses stay below    *)
(* twice the limit.                                                         *)
LEMMA GuessesLimited ==
    ASSUME AccountsOK, NEW a \in DOMAIN accounts
    PROVE  accounts[a].wrong <= GuessLimit + faults
  <1>1. PICK u \in Nat, v \in Nat :
            u = Cardinality(Unlocking(a)) /\ v = Cardinality(Verifying(a)) /\ u + v <= RequestCount
    BY RequestsAt
  <1>2. PICK f \in Nat, lk \in Nat, w \in Nat :
            f = accounts[a].failed /\ lk = accounts[a].locked /\ w = accounts[a].wrong
    BY AccountTyped DEF AccountsOK
  <1>3. Guessed(u, v, f, lk, w, now, faults)
    BY <1>1, <1>2 DEF AccountsOK, LockOK, LockedOK
  <1>4. PICK t \in Nat, r \in Nat : t = LockoutThreshold /\ t >= 1 /\ r = RequestCount
    BY LockConstants
  <1>5. PICK c \in Nat, n \in Nat : c = faults /\ n = now
    BY AccountsTyped
  <1>6. Twice(u) \in Int /\ 0 <= Twice(u) /\ Twice(r) \in Int /\ 0 <= Twice(r)
    <2>1. r + 0 <= RequestCount /\ 0 \in Nat
      BY <1>4
    <2> QED
      BY <1>1, <1>4, <2>1, GuessBounds
  <1>7. Left(u, v, f, lk, n) >= 0
    BY <1>3, <1>4, <1>5, <1>6 DEF Left, Guessed
  <1>8. 2 * w <= Twice(r) + 2 * c
    <2>1. Left(u, v, f, lk, n) \in Int
      BY <1>4, <1>5, <1>6 DEF Left
    <2> QED
      BY <1>3, <1>4, <1>5, <1>6, <1>7, <2>1 DEF Guessed
  <1>9. Twice(r) = 2 * (r * t) + r * (r - 1)
    <2>1. Twice(r) = r * (2 * t + r - 1)
      BY <1>4 DEF Twice
    <2>2. r * (2 * t + r - 1) = 2 * (r * t) + r * (r - 1)
      BY <1>4
    <2> QED
      BY <2>1, <2>2
  <1>10. w <= r * t + (r * (r - 1)) \div 2 + c
    <2>1. PICK p \in Int, q \in Int : p = r * t /\ q = r * (r - 1)
      BY <1>4
    <2>2. 2 * w <= 2 * p + q + 2 * c
      BY <1>8, <1>9, <2>1
    <2>3. w <= p + (q \div 2) + c
      BY <2>2
    <2> QED
      BY <2>1, <2>3
  <1> QED
    BY <1>2, <1>4, <1>5, <1>10 DEF GuessLimit, RequestCount

(* Refresh tokens, reset tokens and the codes of the administrator's        *)
(* authenticator are used up once, and the lock limits guessing, whatever   *)
(* requests run between each other's statements (auth_session.go,           *)
(* admin_auth.go, auth_pg.go of backend/internal).                          *)
THEOREM CredentialsAreUsedOnce == AccountSpec => []AccountsKept
  <1>1. AccountsOK => AccountsKept
    <2> SUFFICES ASSUME AccountsOK PROVE AccountsKept
      OBVIOUS
    <2>1. LockoutHolds
      BY GuessesLimited DEF LockoutHolds
    <2> QED
      BY <2>1 DEF AccountsOK, TokensOK, ResetsOK, ResetSpentOnce, WindowOK, WindowUsedOnce, AccountsKept
  <1> QED
    BY <1>1, AccountsInvariant, PTL

=============================================================================
