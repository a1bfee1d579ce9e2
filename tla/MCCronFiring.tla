----------------------------- MODULE MCCronFiring -----------------------------
(***************************************************************************)
(* Two nodes whose clocks differ by one boundary, and two versions of the  *)
(* definition: the second appends a trigger.                               *)
(***************************************************************************)
EXTENDS CronFiring, TLC

CONSTANTS hourly, weekly

OneTrigger == <<hourly>>
TwoTriggers == <<hourly, weekly>>
BothLists == {OneTrigger, TwoTriggers}

NodeSymmetry == Permutations(Nodes)

=============================================================================
