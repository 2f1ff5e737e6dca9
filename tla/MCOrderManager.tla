--------------------------- MODULE MCOrderManager ---------------------------
(* Quantities that partial fills reach, meet and exceed; zero is refused. *)
EXTENDS OrderManager, TLC
=============================================================================
