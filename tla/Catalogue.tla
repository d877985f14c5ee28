------------------------------ MODULE Catalogue ------------------------------
(***************************************************************************)
(* What the tool registry promises to whoever lists or calls tools, with   *)
(* no lock, diff or loop in it: the served catalogue moves from one        *)
(* complete set of registrations to the next, and on the way every name    *)
(* goes from its old registration to its new one in a single step.  A name *)
(* that keeps its registration is never touched, and the next move does    *)
(* not begin before the last one is complete.                              *)
(***************************************************************************)
CONSTANTS Names,       \* every tool name
          Catalogues,  \* the complete catalogues that may be asked for
          Empty        \* the catalogue of a server that serves no tool

VARIABLES served,  \* name -> registration, or the mark for "no such tool"
          target   \* the catalogue being moved to

vars == <<served, target>>

Init == served = Empty /\ target = Empty

\* A new catalogue is asked for.
Begin == /\ served = target
         /\ target' \in Catalogues
         /\ UNCHANGED served

\* Some names take their new registration together.
Switch == /\ \E S \in SUBSET {n \in Names : served[n] # target[n]} :
               served' = [n \in Names |-> IF n \in S THEN target[n]
                                                     ELSE served[n]]
          /\ UNCHANGED target

Next == Begin \/ Switch

Spec == Init /\ [][Next]_vars
==============================================================================
