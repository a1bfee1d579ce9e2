------------------------------ MODULE StepGraph ------------------------------
(***************************************************************************)
(* The step graph of a workflow definition, and the values that flow along *)
(* its edges (internal/workflow/definition.go, StepDef; engine.go,         *)
(* depsCompleted, mergeOutputs, workflowState).                            *)
(*                                                                         *)
(* A step is identified by its step_order, counted from 1: Validate makes  *)
(* step names unique, so order and name identify the same row.  JSON       *)
(* documents are opaque values; an absent or empty one is NoOutput.        *)
(***************************************************************************)
EXTENDS Naturals

CONSTANTS
    NumSteps,       \* how many steps the definitions have
    Definitions,    \* the workflow definitions under study
    NoOutput,       \* json.RawMessage of length 0
    StaticInput     \* the document configured as a step's "input:"

ASSUME NumStepsAssumption == NumSteps \in Nat

Steps == 1 .. NumSteps

TriggerTypes == {"manual", "auto", "queueti", "http"}

\* What the engine reads of a definition: how each step is triggered, what it
\* depends on, and which steps carry a static input or a publish topic.
DefinitionType ==
    [trigger : [Steps -> TriggerTypes],
     dependsOn : [Steps -> SUBSET Steps],
     static : SUBSET Steps,
     publish : SUBSET Steps]

ASSUME DefinitionsAssumption == Definitions \subseteq DefinitionType

\* Steps each of which waits for another of them: a cycle and what may hang on
\* it.  Validate accepts them (validateStepDependencies only looks the names
\* up), and the properties about progress are stated for the graphs without.
Knot(d, C) == C # {} /\ \A s \in C : d.dependsOn[s] \intersect C # {}

Acyclic(d) == \A C \in SUBSET Steps : ~Knot(d, C)

-----------------------------------------------------------------------------
\* Statuses of a row of step_executions; "absent" is a row not inserted yet.

WaitingStatuses == {"waiting_manual", "waiting_queueti"}
StepStatuses == {"pending", "running", "completed", "failed"} \union WaitingStatuses
RowStatuses == StepStatuses \union {"absent"}

EndStatuses == {"completed", "failed"}
InstanceStatuses == {"absent", "running"} \union EndStatuses

\* The status in which a claim puts a step, by trigger type.
ClaimedStatus(trigger) ==
    CASE trigger = "manual"  -> "waiting_manual"
      [] trigger = "queueti" -> "waiting_queueti"
      [] OTHER               -> "running"

-----------------------------------------------------------------------------
\* A snapshot is what one SELECT over the step rows returned:
\* [status |-> ..., output |-> ...], both functions on Steps.

\* Slip (no part of the specification): a claimed step counts as completed.
CompletedSetOrRunning(snapshot) ==
    {s \in Steps : snapshot.status[s] \in {"running", "completed"}}

CompletedSet(snapshot) == {s \in Steps : snapshot.status[s] = "completed"}

\* Slip: one completed dependency is enough.
AnyDepCompleted(d, s, completed) ==
    d.dependsOn[s] = {} \/ d.dependsOn[s] \intersect completed # {}

DepsCompleted(d, s, completed) == d.dependsOn[s] \subseteq completed

AnyFailed(snapshot) == \E s \in Steps : snapshot.status[s] = "failed"

\* Slip: steps that were not activated yet are forgotten.
NoneActive(snapshot) ==
    \A s \in Steps : snapshot.status[s] \notin {"running"} \union WaitingStatuses

\* Rows the SELECT did not return are not looked at.
AllDone(snapshot) ==
    \A s \in Steps : snapshot.status[s] \in {"completed", "failed", "absent"}

\* The document built from the non-empty outputs of the dependencies: one
\* field per such dependency, and nothing at all when there is none.
MergeOutputs(deps, output) ==
    LET filled == {t \in deps : output[t] # NoOutput}
    IN  IF filled = {} THEN NoOutput ELSE [t \in filled |-> output[t]]

\* A static input replaces the merged one, it is not merged into it.
StepInput(d, s, output) ==
    IF s \in d.static THEN StaticInput ELSE MergeOutputs(d.dependsOn[s], output)

=============================================================================
