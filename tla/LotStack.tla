------------------------------ MODULE LotStack ------------------------------
(***************************************************************************)
(* What the lot book promises, whoever keeps it: a stack.  A fill opens a  *)
(* lot on top, a partial cover takes the top lot or a part of it, a full   *)
(* cover takes them all, and nothing else ever touches a lot.              *)
(***************************************************************************)
EXTENDS Integers, Sequences

VARIABLE stack      \* of [qty, entry_price]

Init == stack = <<>>

Open ==
    /\ Len(stack') = Len(stack) + 1
    /\ SubSeq(stack', 1, Len(stack)) = stack
    /\ stack'[Len(stack')] \in [qty : Nat \ {0}, entry_price : Nat]

Below == SubSeq(stack, 1, Len(stack) - 1)

CloseTop == stack # <<>> /\ stack' = Below

ReduceTop ==
    /\ stack # <<>>
    /\ LET top == stack[Len(stack)] IN
       \E q \in 1 .. top.qty - 1 : stack' = Append(Below, [top EXCEPT !.qty = q])

CloseAll == stack' = <<>>

Next == Open \/ CloseTop \/ ReduceTop \/ CloseAll

Spec == Init /\ [][Next]_stack
=============================================================================
