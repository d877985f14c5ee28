--------------------------- MODULE MCToolTimeout ---------------------------
(***************************************************************************)
(* Integers of five bits, units of two, three and five, and amounts on     *)
(* both sides of every limit.                                              *)
(***************************************************************************)
EXTENDS ToolTimeout

MCUnits == [u \in {"s", "m", "h"} |-> CASE u = "s" -> 2 [] u = "m" -> 3 [] u = "h" -> 5]
==============================================================================
