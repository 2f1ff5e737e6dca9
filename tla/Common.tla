------------------------------- MODULE Common -------------------------------
(***************************************************************************)
(* What every module of the bot shares: Python's None, and the bar times.  *)
(*                                                                         *)
(* A bar is named by its close_time, counted in bars from a UTC midnight,  *)
(* so bar t of a 1m stream closes t minutes after it.                      *)
(***************************************************************************)
EXTENDS Integers

CONSTANT None       \* Python's None

ASSUME NoneAssumption == None \notin Int

\* Optional[T] and `a is not None and a >= b`
Optional(T) == T \cup {None}
AtLeast(a, b) == a # None /\ a >= b
=============================================================================
