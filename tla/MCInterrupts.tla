---------------------------- MODULE MCInterrupts ----------------------------
(* The instance that TLC checks: one bit per port; a program that uses most   *)
(* of port A and the interrupt of port B.                                     *)
EXTENDS Interrupts

Icw(x, e, f, l, m) ==
  [port |-> x, kind |-> "icw", ena |-> e, fnc |-> f, lvl |-> l, mask |-> m]
Mode(x, m) == [port |-> x, kind |-> "mode", mode |-> m]
Ena(x, e) == [port |-> x, kind |-> "ena", ena |-> e]

MCWord ==
  {Icw("A", TRUE, "or", "high", TRUE), Ena("A", FALSE), Ena("A", TRUE),
   Mode("B", "user"), Mode("B", "output"), Ena("B", TRUE)}
MCData == {[port |-> "B", value |-> v] : v \in SUBSET Pin}
=============================================================================
