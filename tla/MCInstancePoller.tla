--------------------------- MODULE MCInstancePoller ---------------------------
(***************************************************************************)
(* Goroutines are numbers in the order they are started, so that one       *)
(* stands for all the equivalent choices of a new one.                     *)
(***************************************************************************)
EXTENDS InstancePoller, TLC

FourConsumers == 1 .. 4
ThreeConsumers == 1 .. 3
=============================================================================
