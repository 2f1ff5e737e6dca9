------------------------- MODULE OrderManagerProofs -------------------------
(***************************************************************************)
(* Proofs about OrderManager, for any quantities and prices.               *)
(***************************************************************************)
EXTENDS OrderManager, TLAPS

(* Every mark keeps the type of the order it is given. *)
LEMMA TransitionType ==
    ASSUME NEW o \in OrderRecord, NEW status \in Statuses,
           NEW qty \in Optional(Nat), NEW price \in Optional(Nat)
    PROVE  LET r == Transition(o, status, qty, price)
           IN  /\ r.order \in OrderRecord
               /\ r.success \in BOOLEAN
               /\ r.safe_stop_required \in BOOLEAN
BY DEF Transition, Refused, Accepted, OrderRecord, Optional

(* A mark accepted is a transition of the table, and a mark refused changes
   nothing and asks for a safe stop. *)
LEMMA TransitionOutcome ==
    ASSUME NEW o \in OrderRecord, NEW status \in Statuses,
           NEW qty \in Optional(Nat), NEW price \in Optional(Nat)
    PROVE  LET r == Transition(o, status, qty, price)
           IN  \/ /\ Allowed(o.status, status)
                  /\ r.order.status = status
                  /\ r.order.normalized_qty = o.normalized_qty
                  /\ r.order.filled_qty = IF qty # None THEN qty ELSE o.filled_qty
                  /\ r.order.avg_fill_price = IF price # None THEN price ELSE o.avg_fill_price
               \/ r.order = o /\ r.safe_stop_required
BY DEF Transition, Refused, Accepted, OrderRecord, Optional

(* A mark that the table allows is accepted. *)
LEMMA TransitionAccepted ==
    ASSUME NEW o \in OrderRecord, NEW status \in Statuses,
           NEW qty \in Optional(Nat), NEW price \in Optional(Nat),
           Allowed(o.status, status)
    PROVE  LET r == Transition(o, status, qty, price)
           IN  /\ r.success
               /\ r.order.status = status
               /\ r.order.filled_qty = IF qty # None THEN qty ELSE o.filled_qty
               /\ r.order.avg_fill_price = IF price # None THEN price ELSE o.avg_fill_price
BY DEF Transition, Accepted, OrderRecord, Optional

(* The order of the dry-run executor, taken from NEW to FILLED within one call,
   meets no refusal on the way (DryRunExecutor.execute_intent), and ends with
   the whole quantity filled at the close. *)
THEOREM DryRunOrderIsFilled ==
    ASSUME NEW requested \in Nat, NEW qty \in Nat \ {0}, NEW price \in Nat
    PROVE  LET sent == mark_sent(create_order_record(requested, qty))
               acked == mark_acked(sent.order)
               filled == mark_filled(acked.order, price, qty)
           IN  /\ sent.success /\ acked.success /\ filled.success
               /\ filled.order.status = "FILLED"
               /\ filled.order.filled_qty = qty
               /\ filled.order.avg_fill_price = price
<1> DEFINE new == create_order_record(requested, qty)
           sent == mark_sent(new)
           acked == mark_acked(sent.order)
           filled == mark_filled(acked.order, price, qty)
<1>1. new \in OrderRecord /\ new.status = "NEW"
  BY DEF create_order_record, OrderRecord, Statuses, Optional
<1>2. sent.success /\ sent.order \in OrderRecord /\ sent.order.status = "SENT"
  <2>1. Allowed(new.status, "SENT") /\ "SENT" \in Statuses /\ None \in Optional(Nat)
    BY <1>1 DEF Allowed, Statuses, Optional
  <2>2. sent = Transition(new, "SENT", None, None)
    BY DEF mark_sent
  <2> HIDE DEF new, sent
  <2>3. sent.success /\ sent.order.status = "SENT"
    BY <1>1, <2>1, <2>2, TransitionAccepted
  <2>4. sent.order \in OrderRecord
    BY <1>1, <2>1, <2>2, TransitionType
  <2> QED
    BY <2>3, <2>4
<1>3. acked.success /\ acked.order \in OrderRecord /\ acked.order.status = "ACKED"
  <2>1. Allowed(sent.order.status, "ACKED") /\ "ACKED" \in Statuses /\ None \in Optional(Nat)
    BY <1>2 DEF Allowed, Statuses, Optional
  <2>2. acked = Transition(sent.order, "ACKED", None, None)
    BY DEF mark_acked
  <2> HIDE DEF sent, acked
  <2>3. acked.success /\ acked.order.status = "ACKED"
    BY <1>2, <2>1, <2>2, TransitionAccepted
  <2>4. acked.order \in OrderRecord
    BY <1>2, <2>1, <2>2, TransitionType
  <2> QED
    BY <2>3, <2>4
<1>4. qty # None /\ price # None /\ qty > 0
  BY NoneAssumption
<1>5. filled = Transition(acked.order, "FILLED", qty, price)
  BY <1>4 DEF mark_filled, FinalQty
<1>6. Allowed(acked.order.status, "FILLED")
  BY <1>3 DEF Allowed
<1>7. filled.success /\ filled.order.status = "FILLED" /\ filled.order.filled_qty = qty
      /\ filled.order.avg_fill_price = price
  <2> HIDE DEF acked, filled
  <2> QED
    BY <1>3, <1>4, <1>5, <1>6, TransitionAccepted DEF Statuses, Optional
<1> QED
  BY <1>2, <1>3, <1>7

-----------------------------------------------------------------------------
(* What a step can come to: a refusal that leaves the order as it was, or an
   allowed mark, with the quantity and price of a fill or with none. *)
Refusal == order' = order /\ result'.safe_stop_required

Mark ==
    /\ order' \in OrderRecord
    /\ Allowed(order.status, order'.status)
    /\ order'.normalized_qty = order.normalized_qty

NoFill ==
    /\ order'.status \notin {"PARTIALLY_FILLED", "FILLED"}
    /\ order'.filled_qty = order.filled_qty
    /\ order'.avg_fill_price = order.avg_fill_price

PartialFill ==
    /\ order'.status = "PARTIALLY_FILLED"
    /\ order'.filled_qty > order.filled_qty
    /\ order'.filled_qty <= order.normalized_qty
    /\ order'.avg_fill_price # None

FinalFill ==
    /\ order'.status = "FILLED"
    /\ order'.filled_qty > 0
    /\ order'.avg_fill_price # None

Outcome ==
    /\ result' \in [success : BOOLEAN, safe_stop_required : BOOLEAN]
    /\ \/ Refusal
       \/ Mark /\ (NoFill \/ PartialFill \/ FinalFill)

(* A refused mark. *)
LEMMA RefusedOutcome == Apply(Refused(order)) => Outcome
BY DEF Refused, Apply, Outcome, Refusal

LEMMA StepOutcome ==
    ASSUME TypeOK, Next
    PROVE  Outcome
<1>0. order \in OrderRecord
  BY DEF TypeOK
<1>1. ASSUME NEW status \in Statuses \ {"PARTIALLY_FILLED", "FILLED"},
             Apply(Transition(order, status, None, None))
      PROVE  Outcome
  <2> DEFINE r == Transition(order, status, None, None)
  <2>1. /\ status \in Statuses /\ status \notin {"PARTIALLY_FILLED", "FILLED"}
        /\ None \in Optional(Nat)
    BY DEF Optional
  <2>2. /\ r.order \in OrderRecord
        /\ r.success \in BOOLEAN
        /\ r.safe_stop_required \in BOOLEAN
    BY <1>0, <2>1, TransitionType
  <2>3. \/ /\ Allowed(order.status, status)
           /\ r.order.status = status
           /\ r.order.normalized_qty = order.normalized_qty
           /\ r.order.filled_qty = order.filled_qty
           /\ r.order.avg_fill_price = order.avg_fill_price
        \/ r.order = order /\ r.safe_stop_required
    BY <1>0, <2>1, TransitionOutcome
  <2>4. Apply(r)
    BY <1>1
  <2> HIDE DEF r
  <2> QED
    BY <2>1, <2>2, <2>3, <2>4 DEF Apply, Outcome, Refusal, Mark, NoFill
<1>2. CASE MarkPartialFill
  <2>1. PICK q \in Qtys, p \in Prices : Apply(mark_partial_fill(order, q, p))
    BY <1>2 DEF MarkPartialFill
  <2>2. q \in Nat /\ p \in Nat /\ q # None /\ p # None
    BY QtysAssumption, PricesAssumption, NoneAssumption
  <2>3. CASE q <= 0 \/ Exceeds(order, q)
    BY <2>1, <2>3, RefusedOutcome DEF mark_partial_fill
  <2>4. CASE ~(q <= 0 \/ Exceeds(order, q))
    <3> DEFINE total == order.filled_qty + q
    <3>1. total \in Nat /\ total > order.filled_qty /\ total <= order.normalized_qty
      BY <1>0, <2>2, <2>4 DEF Exceeds, OrderRecord
    <3>2. total # None
      BY <3>1, NoneAssumption
    <3>3. Apply(Transition(order, "PARTIALLY_FILLED", total, p))
      BY <2>1, <2>4 DEF mark_partial_fill, TotalFilled
    <3>4. "PARTIALLY_FILLED" \in Statuses /\ total \in Optional(Nat) /\ p \in Optional(Nat)
      BY <2>2, <3>1 DEF Statuses, Optional
    <3> DEFINE r == Transition(order, "PARTIALLY_FILLED", total, p)
    <3> HIDE DEF total
    <3>5. /\ r.order \in OrderRecord
          /\ r.success \in BOOLEAN
          /\ r.safe_stop_required \in BOOLEAN
      BY <1>0, <3>4, TransitionType
    <3>6. \/ /\ Allowed(order.status, "PARTIALLY_FILLED")
             /\ r.order.status = "PARTIALLY_FILLED"
             /\ r.order.normalized_qty = order.normalized_qty
             /\ r.order.filled_qty = total
             /\ r.order.avg_fill_price = p
          \/ r.order = order /\ r.safe_stop_required
      BY <1>0, <2>2, <3>2, <3>4, TransitionOutcome
    <3>7. Apply(r)
      BY <3>3
    <3> HIDE DEF r
    <3> QED
      BY <2>2, <3>1, <3>5, <3>6, <3>7 DEF Apply, Outcome, Refusal, Mark, PartialFill
  <2> QED
    BY <2>3, <2>4
<1>3. CASE MarkFilled
  <2>1. PICK q \in Optional(Qtys), p \in Prices : Apply(mark_filled(order, p, q))
    BY <1>3 DEF MarkFilled
  <2>2. p \in Nat /\ p # None
    BY PricesAssumption, NoneAssumption
  <2> DEFINE final == FinalQty(order, q)
  <2>3. final \in Nat /\ final # None
    BY <1>0, QtysAssumption, NoneAssumption DEF FinalQty, Optional, OrderRecord
  <2>4. CASE final <= 0
    BY <2>1, <2>4, RefusedOutcome DEF mark_filled
  <2>5. CASE ~(final <= 0)
    <3>1. Apply(Transition(order, "FILLED", final, p))
      BY <2>1, <2>5 DEF mark_filled
    <3>2. final > 0
      BY <2>3, <2>5
    <3> HIDE DEF final
    <3> QED
      BY <1>0, <2>2, <2>3, <3>1, <3>2, TransitionType, TransitionOutcome
      DEF Apply, Optional, Statuses, Outcome, Refusal, Mark, FinalFill
  <2> QED
    BY <2>4, <2>5
<1>4. CASE MarkSent \/ MarkAcked \/ MarkRejected \/ MarkCanceled \/ MarkUnknown
  <2>1. {"SENT", "ACKED", "REJECTED", "CANCELED", "UNKNOWN"}
            \subseteq Statuses \ {"PARTIALLY_FILLED", "FILLED"}
    BY DEF Statuses
  <2>2. PICK status \in {"SENT", "ACKED", "REJECTED", "CANCELED", "UNKNOWN"} :
            Apply(Transition(order, status, None, None))
    BY <1>4 DEF MarkSent, MarkAcked, MarkRejected, MarkCanceled, MarkUnknown,
       mark_sent, mark_acked, mark_rejected, mark_canceled, mark_unknown
  <2> QED
    BY <1>1, <2>1, <2>2
<1> QED
  BY <1>2, <1>3, <1>4 DEF Next

(* Whatever is reported of an order, its quantities stay natural and its status
   one of the eight. *)
THEOREM TypeCorrect == Spec => []TypeOK
<1>1. Init => TypeOK
  BY QtysAssumption DEF Init, TypeOK, create_order_record, OrderRecord, Statuses, Optional
<1>2. TypeOK /\ [Next]_vars => TypeOK'
  BY StepOutcome DEF TypeOK, vars, Outcome, Refusal, Mark
<1> QED
  BY <1>1, <1>2, PTL DEF Spec

(* Partial fills never add up to more than the normalized quantity, and a fill
   is known exactly when its price is.  Inductive with TypeOK: an order that is
   sent has no fill yet because a new one has none. *)
THEOREM FillsStayWithinOrder == Spec => []FillsWithinOrder
<1>1. Init => FillsWithinOrder
  <2> SUFFICES ASSUME Init PROVE FillsWithinOrder
    OBVIOUS
  <2>1. PICK r \in Qtys, n \in Qtys : order = create_order_record(r, n)
    BY DEF Init
  <2>2. n \in Nat
    BY QtysAssumption
  <2> QED
    BY <2>1, <2>2 DEF create_order_record, FillsWithinOrder
<1>2. TypeOK /\ FillsWithinOrder /\ [Next]_vars => FillsWithinOrder'
  <2> SUFFICES ASSUME TypeOK, FillsWithinOrder, Next PROVE FillsWithinOrder'
    BY DEF vars, FillsWithinOrder
  <2>1. order \in OrderRecord
    BY DEF TypeOK
  <2> QED
    BY <2>1, StepOutcome
    DEF FillsWithinOrder, OrderRecord, Allowed, Outcome, Refusal, Mark,
        NoFill, PartialFill, FinalFill
<1> QED
  BY <1>1, <1>2, TypeCorrect, PTL DEF Spec

(* An order that is over never changes again, and a late report of it asks for
   a safe stop. *)
THEOREM TerminalStaysFinal == Spec => TerminalIsFinal
<1>1. TypeOK /\ [Next]_vars =>
          [order.status \in Terminal => order' = order /\ result'.safe_stop_required]_vars
  <2> SUFFICES ASSUME TypeOK, Next, order.status \in Terminal
               PROVE  order' = order /\ result'.safe_stop_required
    OBVIOUS
  <2>1. ~Allowed(order.status, order'.status)
    BY DEF Allowed, Terminal
  <2> QED
    BY <2>1, StepOutcome DEF Outcome, Refusal, Mark
<1> QED
  BY <1>1, TypeCorrect, PTL DEF Spec, TerminalIsFinal

(* Partial fills stay on the record until the final report. *)
THEOREM FillsStayOnRecord == Spec => FillsAreKept
<1>1. TypeOK /\ [Next]_vars =>
          [order'.status # "FILLED" => order'.filled_qty >= order.filled_qty]_vars
  BY StepOutcome DEF TypeOK, OrderRecord,
     Outcome, Refusal, Mark, NoFill, PartialFill, FinalFill
<1> QED
  BY <1>1, TypeCorrect, PTL DEF Spec, FillsAreKept
=============================================================================
