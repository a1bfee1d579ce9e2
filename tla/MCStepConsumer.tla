---------------------------- MODULE MCStepConsumer ----------------------------
(***************************************************************************)
(* Steps of two instances that share a consumer group, as the steps of one *)
(* definition with a queueti_group do.                                     *)
(***************************************************************************)
EXTENDS StepConsumer, TLC

CONSTANTS s1, s2

Shared == [s \in {s1, s2} |-> "shared"]

=============================================================================
