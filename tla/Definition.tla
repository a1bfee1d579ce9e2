----------------------------- MODULE Definition -----------------------------
(***************************************************************************)
(* A workflow file as it is written, Definition.Validate, and what the     *)
(* engine makes of a file that passed (internal/workflow/definition.go;    *)
(* engine.go, StartInstance; repository.go, CreateSteps).                  *)
(*                                                                         *)
(* A file names steps; the engine looks dependencies up by name.  The      *)
(* other modules identify a step with its step_order instead, which is     *)
(* right only for files that Validate accepts: NamesAreOrders.             *)
(***************************************************************************)
EXTENDS StepGraph

CONSTANTS
    WorkflowNames,      \* non-empty names of workflows
    StepNames,          \* non-empty names of steps
    UnsafeNames,        \* those with a character of urlUnsafeChars
    EmailAddresses,
    PhoneNumbers,
    Missing             \* a field that is empty or not in the file

ASSUME NamesAssumption ==
    /\ UnsafeNames \subseteq StepNames
    /\ Missing \notin WorkflowNames \union StepNames
    /\ EmailAddresses \intersect PhoneNumbers = {}

EventTypes == {"step.waiting_manual", "instance.completed", "instance.failed"}

\* "broken" stands for every value that is present and not recognized: another
\* trigger type, a schedule that does not parse, a URL without http(s) or host,
\* a method that is none.
Field(recognized) == recognized \union {"broken"}

RawStepType ==
    [name : StepNames \union {Missing},
     trigger : Field(TriggerTypes) \union {Missing},
     dependsOn : SUBSET (StepNames \union {Missing}),
     input : BOOLEAN,               \* "input:" is given
     publish : BOOLEAN,             \* publish_to_topic is not empty
     topic : BOOLEAN,               \* queueti_topic is not empty
     url : Field({"ok"}) \union {Missing},      \* Missing: also if there is no "http:"
     method : Field({"ok"}) \union {Missing}]

RawTriggerType ==
    [type : Field({"cron", "webhook", "queueti"}) \union {Missing},
     schedule : Field({"ok"}) \union {Missing},
     topic : BOOLEAN]

\* WorkflowNotification; an absent "email:" or "sms:" reaches nobody.
NotificationType ==
    [on : SUBSET (EventTypes \union {"*"}),
     email : SUBSET EmailAddresses,
     sms : SUBSET PhoneNumbers]

RawType ==
    [name : WorkflowNames \union {Missing},
     triggers : SUBSET RawTriggerType,
     steps : [Steps -> RawStepType],
     notifications : NotificationType \union {Missing}]

-----------------------------------------------------------------------------
\* Validate

TriggerValid(t) ==
    \/ t.type = "cron" /\ t.schedule = "ok"
    \/ t.type = "webhook"
    \/ t.type = "queueti" /\ t.topic

HTTPValid(step) == step.url = "ok" /\ step.method # "broken"

StepValid(step) ==
    /\ step.name \in StepNames \ UnsafeNames
    /\ step.trigger # "broken"
    /\ step.trigger = "queueti" => step.topic
    /\ step.trigger = "http" => HTTPValid(step)

NamesUnique(raw) ==
    \A s, t \in Steps : raw.steps[s].name = raw.steps[t].name => s = t

NamesOf(raw, steps) == {raw.steps[s].name : s \in steps}

\* Slip: a dependency is not looked up.
DependenciesUnchecked(raw) == TRUE

\* The set of names is complete before any dependency is looked up; that the
\* names form no cycle is not checked.
DependenciesKnown(raw) ==
    \A s \in Steps : raw.steps[s].dependsOn \subseteq NamesOf(raw, Steps)

Validate(raw) ==
    /\ raw.name # Missing
    /\ \A t \in raw.triggers : TriggerValid(t)
    /\ \A s \in Steps : StepValid(raw.steps[s])
    /\ NamesUnique(raw)
    /\ DependenciesKnown(raw)

\* validateSteps writes the default of the trigger into the step it checked.
Normalised(raw) ==
    [raw EXCEPT !.steps =
        [s \in Steps |-> IF raw.steps[s].trigger = Missing
                           THEN [raw.steps[s] EXCEPT !.trigger = "manual"]
                           ELSE raw.steps[s]]]

HasTriggerType(def, type) == \E t \in def.triggers : t.type = type

-----------------------------------------------------------------------------
\* What the engine makes of a definition.

\* The rows of its instances, with step_order for step_name.
AsGraph(def) ==
    [trigger |-> [s \in Steps |-> def.steps[s].trigger],
     dependsOn |-> [s \in Steps |->
                      {t \in Steps : def.steps[t].name \in def.steps[s].dependsOn}],
     static |-> {s \in Steps : def.steps[s].input},
     publish |-> {s \in Steps : def.steps[s].publish}]

\* depsCompleted as it is coded: completed maps the names of completed steps.
DepsCompletedByName(def, s, completed) ==
    def.steps[s].dependsOn \subseteq NamesOf(def, completed)

\* Whatever is completed, looking dependencies up by name and by order finds
\* the same steps ready.
NamesAreOrders(def) ==
    \A s \in Steps, completed \in SUBSET Steps :
        DepsCompletedByName(def, s, completed) <=> DepsCompleted(AsGraph(def), s, completed)

\* An http step has somewhere to send its request, a queueti step a topic.
CanExecute(def) ==
    \A s \in Steps :
        /\ def.steps[s].trigger = "http" => def.steps[s].url = "ok"
        /\ def.steps[s].trigger = "queueti" => def.steps[s].topic

FitsEngine(def) == AsGraph(def) \in DefinitionType /\ NamesAreOrders(def) /\ CanExecute(def)

=============================================================================
