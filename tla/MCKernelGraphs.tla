--------------------------- MODULE MCKernelGraphs ---------------------------
(***************************************************************************)
(* The kernel over two graphs.  A behaviour has either three tasks in a    *)
(* diamond of requirements that answer nothing at once, with every settle  *)
(* cut after one turn (the values of the configuration), or the first two  *)
(* of them, which answer whatever they are sent at once in any way the     *)
(* property harness of the code knows, with the code's budget.             *)
(***************************************************************************)
EXTENDS MCKernel

VARIABLE answering

TwoDeps == [t \in Tasks |-> CASE t = a -> {{}} [] t = b -> {{a}} [] OTHER -> {}]
BHears == [t \in Tasks |-> IF t = a THEN {b} ELSE {}]
A == INSTANCE Kernel WITH
  DepChoices <- TwoDeps, Selections <- Each2, Listeners <- BHears, Replies <- Reactions,
  SettlePerTask <- 16, SettleBase <- 64

GraphsInit == Init /\ answering \in BOOLEAN
GraphsNext == (IF answering THEN A!Next ELSE Next) /\ UNCHANGED answering
GraphsSpec == GraphsInit /\ [][GraphsNext]_<<vars, answering>>

(* With its budget a settle always ends with nothing left to do            *)
(* (kernel.rs:551).                                                        *)
BudgetSuffices == answering => SettleCompletes

GraphsView == <<answering, View>>
=============================================================================
