---------------------------- MODULE OrderManager ----------------------------
(***************************************************************************)
(* bot/execution/order_manager.py: the life of an order record.  The       *)
(* marks are what an executor, or the reconciliation of a live mode to     *)
(* come, reports of the order, in whatever order the exchange's answers    *)
(* arrive.  A mark that the table of transitions does not allow, or whose  *)
(* quantity is wrong, is refused: the order stays as it was, and a safe    *)
(* stop is asked for.                                                      *)
(*                                                                         *)
(* The marks are pure.  The state machine below applies them, in any       *)
(* order, to one order.  last_error and the timestamps are left out.       *)
(***************************************************************************)
EXTENDS Common

CONSTANTS Qtys, Prices      \* the quantities and prices that may be reported

ASSUME QtysAssumption == Qtys \subseteq Nat
ASSUME PricesAssumption == Prices \subseteq Nat

Statuses ==
    {"NEW", "SENT", "ACKED", "PARTIALLY_FILLED", "FILLED", "CANCELED", "REJECTED", "UNKNOWN"}

Terminal == {"FILLED", "CANCELED", "REJECTED"}

Bug_CanceledMayFill(from, to) ==
    \/ from = "NEW" /\ to \in {"SENT", "CANCELED", "REJECTED"}
    \/ from \in Statuses \ {"NEW", "FILLED", "REJECTED"} /\ to \in Statuses \ {"NEW", "SENT"}
\* ALLOWED_ORDER_TRANSITIONS
Allowed(from, to) ==
    \/ from = "NEW" /\ to \in {"SENT", "CANCELED", "REJECTED"}
    \/ /\ from = "SENT"
       /\ to \in {"ACKED", "PARTIALLY_FILLED", "FILLED", "CANCELED", "REJECTED", "UNKNOWN"}
    \/ from = "ACKED" /\ to \in {"PARTIALLY_FILLED", "FILLED", "CANCELED", "REJECTED", "UNKNOWN"}
    \/ from = "PARTIALLY_FILLED" /\ to \in {"PARTIALLY_FILLED", "FILLED", "CANCELED", "UNKNOWN"}
    \/ from = "UNKNOWN" /\ to \in {"ACKED", "PARTIALLY_FILLED", "FILLED", "CANCELED", "REJECTED"}

OrderRecord ==
    [status : Statuses, requested_qty : Nat, normalized_qty : Nat, filled_qty : Nat,
     avg_fill_price : Optional(Nat)]

create_order_record(requested, normalized) ==
    [status |-> "NEW", requested_qty |-> requested, normalized_qty |-> normalized,
     filled_qty |-> 0, avg_fill_price |-> None]

-----------------------------------------------------------------------------
(* TransitionResult *)

Accepted(o) == [success |-> TRUE, order |-> o, safe_stop_required |-> FALSE]
Refused(o) == [success |-> FALSE, order |-> o, safe_stop_required |-> TRUE]

Bug_OverwritesFill(o, status, qty, price) ==
    IF ~Allowed(o.status, status) THEN Refused(o)
    ELSE Accepted([o EXCEPT !.status = status, !.filled_qty = qty, !.avg_fill_price = price])
\* _transition; qty and price are None when the mark reports no fill
Transition(o, status, qty, price) ==
    IF ~Allowed(o.status, status) THEN Refused(o)
    ELSE Accepted([o EXCEPT !.status = status,
                            !.filled_qty = IF qty # None THEN qty ELSE @,
                            !.avg_fill_price = IF price # None THEN price ELSE @])

mark_sent(o) == Transition(o, "SENT", None, None)
mark_acked(o) == Transition(o, "ACKED", None, None)
mark_rejected(o) == Transition(o, "REJECTED", None, None)
mark_canceled(o) == Transition(o, "CANCELED", None, None)
mark_unknown(o) == Transition(o, "UNKNOWN", None, None)

Bug_ExceedsByOneFill(o, fill_qty) == fill_qty > o.normalized_qty
Exceeds(o, fill_qty) == o.filled_qty + fill_qty > o.normalized_qty

Bug_NotCumulative(o, fill_qty) == fill_qty
TotalFilled(o, fill_qty) == o.filled_qty + fill_qty

mark_partial_fill(o, fill_qty, fill_price) ==
    IF fill_qty <= 0 \/ Exceeds(o, fill_qty) THEN Refused(o)
    ELSE Transition(o, "PARTIALLY_FILLED", TotalFilled(o, fill_qty), fill_price)

FinalQty(o, filled_qty) ==
    IF filled_qty # None THEN filled_qty
    ELSE IF o.normalized_qty # 0 THEN o.normalized_qty ELSE o.requested_qty

mark_filled(o, fill_price, filled_qty) ==
    IF FinalQty(o, filled_qty) <= 0 THEN Refused(o)
    ELSE Transition(o, "FILLED", FinalQty(o, filled_qty), fill_price)

-----------------------------------------------------------------------------
VARIABLES order,
          result    \* of the last mark: success and safe_stop_required

vars == <<order, result>>

Init ==
    /\ order \in {create_order_record(r, n) : r \in Qtys, n \in Qtys}
    /\ order.normalized_qty <= order.requested_qty
    /\ result = [success |-> TRUE, safe_stop_required |-> FALSE]

Apply(r) ==
    /\ order' = r.order
    /\ result' = [success |-> r.success, safe_stop_required |-> r.safe_stop_required]

MarkSent == Apply(mark_sent(order))
MarkAcked == Apply(mark_acked(order))
MarkRejected == Apply(mark_rejected(order))
MarkCanceled == Apply(mark_canceled(order))
MarkUnknown == Apply(mark_unknown(order))
MarkPartialFill == \E q \in Qtys, p \in Prices : Apply(mark_partial_fill(order, q, p))
MarkFilled == \E q \in Optional(Qtys), p \in Prices : Apply(mark_filled(order, p, q))

Next ==
    \/ MarkSent \/ MarkAcked \/ MarkRejected \/ MarkCanceled \/ MarkUnknown
    \/ MarkPartialFill \/ MarkFilled

Spec == Init /\ [][Next]_vars
-----------------------------------------------------------------------------
\* Types: the quantities stay natural through any sequence of marks.
TypeOK ==
    /\ order \in OrderRecord
    /\ result \in [success : BOOLEAN, safe_stop_required : BOOLEAN]

\* Late, repeated and reordered reports never change an order that is over, and
\* ask for a safe stop (ALLOWED_ORDER_TRANSITIONS).
TerminalIsFinal ==
    [][ order.status \in Terminal => order' = order /\ result'.safe_stop_required ]_vars

\* Partial fills never add up to more than the normalized quantity, by whatever
\* way through UNKNOWN and ACKED; a fill has its price and a price its fill; and
\* nothing is filled of an order that was not sent.
FillsWithinOrder ==
    /\ order.status # "FILLED" => order.filled_qty <= order.normalized_qty
    /\ order.filled_qty > 0 <=> order.avg_fill_price # None
    /\ order.filled_qty > 0 => order.status \notin {"NEW", "SENT"}

\* What was filled stays on the record until the final report: cancellation, loss
\* of the order's status and its reconciliation keep the partial fills.
FillsAreKept ==
    [][ order'.status # "FILLED" => order'.filled_qty >= order.filled_qty ]_vars
=============================================================================
