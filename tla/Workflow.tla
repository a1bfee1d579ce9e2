------------------------------- MODULE Workflow -------------------------------
(***************************************************************************)
(* What the engine promises of one workflow instance, with no callers, no  *)
(* snapshots and no statements: a step leaves "pending" once, when all it  *)
(* depends on has completed, to the status its trigger type asks for; it   *)
(* then completes, or fails if it is an http step; and the instance ends   *)
(* once, truthfully.  Engine.tla implements it.                            *)
(*                                                                         *)
(* It does NOT promise that activation stops at the first failed step: a   *)
(* call of the engine that listed the rows before goes on activating.      *)
(***************************************************************************)
EXTENDS StepGraph

VARIABLES
    def,        \* the definition the instance was started from
    inst,       \* status of the instance
    status      \* status of each step

vars == <<def, inst, status>>

Init ==
    /\ def \in Definitions
    /\ inst = "absent"
    /\ status = [s \in Steps |-> "pending"]

Create ==
    /\ inst = "absent"
    /\ inst' = "running"
    /\ UNCHANGED <<def, status>>

Activate(s) ==
    /\ inst \notin {"absent", "completed"}
    /\ status[s] = "pending"
    /\ \A t \in def.dependsOn[s] : status[t] = "completed"
    /\ status' = [status EXCEPT ![s] = ClaimedStatus(def.trigger[s])]
    /\ UNCHANGED <<def, inst>>

Complete(s) ==
    /\ status[s] \in WaitingStatuses \union {"running"}
    /\ status' = [status EXCEPT ![s] = "completed"]
    /\ UNCHANGED <<def, inst>>

Fail(s) ==
    /\ def.trigger[s] = "http"
    /\ status[s] = "running"
    /\ status' = [status EXCEPT ![s] = "failed"]
    /\ UNCHANGED <<def, inst>>

Finish ==
    /\ inst = "running"
    /\ \/ /\ \A s \in Steps : status[s] = "completed"
          /\ inst' = "completed"
       \/ /\ \E s \in Steps : status[s] = "failed"
          /\ inst' = "failed"
    /\ UNCHANGED <<def, status>>

Next ==
    \/ Create
    \/ Finish
    \/ \E s \in Steps : Activate(s) \/ Complete(s) \/ Fail(s)

Spec == Init /\ [][Next]_vars

=============================================================================
