----------------------------- MODULE ServerProofs -----------------------------
(***************************************************************************)
(* What a file that Validate accepts is for the engine, and the safety     *)
(* properties of Server, for all files, settings, requests and events.     *)
(***************************************************************************)
EXTENDS Server, TLAPS

-----------------------------------------------------------------------------
\* Definitions

\* Writing the default trigger leaves names and dependencies alone.
LEMMA NormalisedSteps ==
    ASSUME NEW raw \in RawType, Validate(raw), NEW s \in Steps
    PROVE  /\ Normalised(raw).steps[s].name = raw.steps[s].name
           /\ Normalised(raw).steps[s].dependsOn = raw.steps[s].dependsOn
           /\ Normalised(raw).steps[s].trigger \in TriggerTypes
           /\ Normalised(raw).steps[s].input \in BOOLEAN
           /\ Normalised(raw).steps[s].publish \in BOOLEAN
           /\ Normalised(raw).steps[s].trigger = "http" => raw.steps[s].trigger = "http"
           /\ Normalised(raw).steps[s].trigger = "queueti" => raw.steps[s].trigger = "queueti"
           /\ Normalised(raw).steps[s].url = raw.steps[s].url
           /\ Normalised(raw).steps[s].topic = raw.steps[s].topic
<1>1. raw.steps[s] \in RawStepType /\ StepValid(raw.steps[s])
  BY DEF RawType, Validate
<1>2. Normalised(raw).steps[s] = IF raw.steps[s].trigger = Missing
                                   THEN [raw.steps[s] EXCEPT !.trigger = "manual"]
                                   ELSE raw.steps[s]
  BY DEF RawType, Normalised
<1> QED
  BY <1>1, <1>2 DEF RawStepType, StepValid, Field, TriggerTypes

\* The notifications of a definition are those of its file.
LEMMA NormalisedNotifications ==
    ASSUME NEW raw \in RawType
    PROVE  Normalised(raw).notifications \in NotificationType \union {Missing}
  BY DEF RawType, Normalised

\* In a file that validates, a step's name and its step_order find the same
\* step: names are unique and every dependency is one of them.
LEMMA NamesFind ==
    ASSUME NEW def, NEW s \in Steps, NEW completed \in SUBSET Steps,
           NamesUnique(def), DependenciesKnown(def)
    PROVE  DepsCompletedByName(def, s, completed)
             <=> DepsCompleted(AsGraph(def), s, completed)
<1>1. AsGraph(def).dependsOn[s] = {t \in Steps : def.steps[t].name \in def.steps[s].dependsOn}
  BY DEF AsGraph
<1>2. ASSUME DepsCompletedByName(def, s, completed), NEW t \in AsGraph(def).dependsOn[s]
      PROVE  t \in completed
  <2>1. PICK u \in completed : def.steps[u].name = def.steps[t].name
    BY <1>1, <1>2 DEF DepsCompletedByName, NamesOf
  <2> QED
    BY <1>1, <1>2, <2>1 DEF NamesUnique
<1>3. ASSUME DepsCompleted(AsGraph(def), s, completed), NEW n \in def.steps[s].dependsOn
      PROVE  n \in NamesOf(def, completed)
  <2>1. PICK t \in Steps : n = def.steps[t].name
    BY <1>3 DEF DependenciesKnown, NamesOf
  <2>2. t \in completed
    BY <1>1, <1>3, <2>1 DEF DepsCompleted
  <2> QED
    BY <2>1, <2>2 DEF NamesOf
<1> QED
  BY <1>2, <1>3 DEF DepsCompletedByName, DepsCompleted

\* Validate is what the engine and the other modules rely on: an accepted file
\* has the shape DefinitionsAssumption takes for granted, and looking its
\* dependencies up by name is the same as by step_order.
THEOREM AcceptedFitsEngine ==
    \A raw \in RawType : Validate(raw) => FitsEngine(Normalised(raw))
<1> SUFFICES ASSUME NEW raw \in RawType, Validate(raw)
             PROVE  FitsEngine(Normalised(raw))
  OBVIOUS
<1> DEFINE def == Normalised(raw)
<1>1. AsGraph(def) \in DefinitionType
  BY NormalisedSteps DEF AsGraph, DefinitionType
<1>2. NamesUnique(def) /\ DependenciesKnown(def)
  <2>1. NamesUnique(def)
    BY NormalisedSteps DEF Validate, NamesUnique
  <2>2. NamesOf(def, Steps) = NamesOf(raw, Steps)
    BY NormalisedSteps DEF NamesOf
  <2> QED
    BY <2>1, <2>2, NormalisedSteps DEF Validate, DependenciesKnown
<1>3. NamesAreOrders(def)
  BY <1>2, NamesFind DEF NamesAreOrders
<1>4. CanExecute(def)
  BY NormalisedSteps DEF Validate, StepValid, HTTPValid, CanExecute
<1> QED
  BY <1>1, <1>3, <1>4 DEF FitsEngine

-----------------------------------------------------------------------------
\* The inductive invariant

Early == {"config", "database", "migrate", "workflows"}

\* The registry holds accepted files.
RegistrySound ==
    \A def \in registry : \E f \in UNION Directories :
        Validate(f.text) /\ def = Normalised(f.text)

\* Nothing happens before the definitions are loaded.
QuietStart ==
    /\ phase \in {"config", "database"} => deferred = << >>
    /\ phase \in {"migrate", "workflows"} => deferred = << "database" >>
    /\ phase \in Early =>
         /\ instances = {}
         /\ \A d \in Dispatches : at[d] = "none"

\* What main has opened by the time it comes to a phase.
OpenedInOrder ==
    /\ phase \in {"client", "producer", "listener", "cron", "consumers", "serve",
                  "serving", "closing"} => IsOpen("database")
    /\ phase \in {"cron", "consumers", "serve", "serving", "closing"} => IsOpen("listener")
    /\ phase \in {"consumers", "serve", "serving", "closing"} => IsOpen("cron")
    /\ QueueEnabled =>
         /\ phase \in {"producer", "listener", "cron", "consumers", "serve",
                       "serving", "closing"} => IsOpen("client")
         /\ phase \in {"listener", "cron", "consumers", "serve", "serving", "closing"} =>
              IsOpen("producer")
         /\ phase \in {"serve", "serving", "closing"} => IsOpen("consumers")

\* Requests come in after app.Listen, and main goes on when none is left.
HandledInTime ==
    /\ accepting => phase = "serving"
    /\ \A r \in Requests : IsHandled(r) => phase \in {"serving", "closing", "exited"}

\* A dispatch that has found a config keeps to it.
KeepsTo(d) ==
    /\ to[d] \in versions[d] \intersect NotificationType
    /\ Subscribes(to[d], event[d].type)

DispatchSound(d) ==
    /\ at[d] # "none" => NotificationsIn(registry, event[d].workflow) \in versions[d]
    /\ at[d] \in {"none", "instance", "definition", "email"} => Attempted(d) = {}
    /\ at[d] \in {"email", "sms", "wait"} => KeepsTo(d)
    /\ at[d] = "sms" => Attempted(d) = {r \in to[d].email : Reached(r)}
    /\ at[d] = "wait" => Attempted(d) = Targets(to[d])
    /\ at[d] = "done" => Attempted(d) = {} \/ (KeepsTo(d) /\ Attempted(d) = Targets(to[d]))

DispatchesSound == \A d \in Dispatches : DispatchSound(d)

SInv ==
    /\ TypeOK
    /\ RegistrySound
    /\ QuietStart
    /\ OpenedInOrder
    /\ HandledInTime
    /\ DispatchesSound

-----------------------------------------------------------------------------
\* Facts about the operators

\* What is looked up in the registry is what some file says, or nothing.
LEMMA FoundNotifications ==
    ASSUME NEW defs \in SUBSET RawType, NEW name
    PROVE  NotificationsIn(defs, name) \in NotificationType \union {Missing}
  BY DEF NotificationsIn, RawType

\* A directory that loads gives accepted definitions.
LEMMA ParsedSound ==
    ASSUME NEW dir \in Directories, Loads(dir), NEW def \in Parsed(dir)
    PROVE  /\ def \in RawType
           /\ \E f \in UNION Directories : Validate(f.text) /\ def = Normalised(f.text)
<1>1. PICK f \in dir : def = Normalised(f.text)
  BY DEF Parsed
<1>2. Validate(f.text) /\ f.text \in RawType
  BY <1>1, DirectoriesAssumption DEF Loads
<1>3. ASSUME NEW s \in Steps
      PROVE  (IF f.text.steps[s].trigger = Missing
                THEN [f.text.steps[s] EXCEPT !.trigger = "manual"]
                ELSE f.text.steps[s]) \in RawStepType
  BY <1>2 DEF RawType, RawStepType, Field, TriggerTypes
<1>4. Normalised(f.text) \in RawType
  BY <1>2, <1>3 DEF RawType, Normalised
<1> QED
  BY <1>1, <1>2, <1>4

\* Pushing a resource opens it and leaves the others open.
LEMMA DeferOpens ==
    ASSUME deferred \in Seq(Resources), NEW resource \in Resources, Defer(resource)
    PROVE  /\ deferred' \in Seq(Resources)
           /\ IsOpen(resource)'
           /\ \A x : IsOpen(x) => IsOpen(x)'
           /\ deferred = << >> => deferred' = << resource >>
<1>1. deferred' = << resource >> \o deferred
  BY DEF Defer
<1>2. /\ Len(deferred') = Len(deferred) + 1
      /\ deferred'[1] = resource
      /\ \A i \in 1 .. Len(deferred) : deferred'[i + 1] = deferred[i]
      /\ deferred' \in Seq(Resources)
  BY <1>1
<1>3. 1 \in DOMAIN deferred'
  BY <1>2
<1>4. ASSUME NEW x, IsOpen(x)
      PROVE  IsOpen(x)'
  <2>1. PICK i \in DOMAIN deferred : deferred[i] = x
    BY <1>4 DEF IsOpen
  <2>2. i + 1 \in DOMAIN deferred' /\ deferred'[i + 1] = x
    BY <2>1, <1>2
  <2> QED
    BY <2>2 DEF IsOpen
<1>5. IsOpen(resource)'
  BY <1>2, <1>3 DEF IsOpen
<1>6. ASSUME deferred = << >>
      PROVE  deferred' = << resource >>
  BY <1>1, <1>6
<1> QED
  BY <1>2, <1>4, <1>5, <1>6

-----------------------------------------------------------------------------
\* Which steps change what

\* Only loading changes the registry.
LEMMA RegistryFrame ==
    Next => \/ registry' = registry
            \/ StartStep /\ LoadWorkflows
            \/ \E r \in Requests : ReloadWorkflows(r)
BY DEF Next, StartStep, LoadConfig, OpenDatabase, Migrate, DialClient, NewProducer,
       ListenDatabase, StartCron, StartConsumers, Serve, Die, Edit, StartByTrigger,
       ReceiveAny, Receive, HandlerStep, ReloadWorkflows, WebhookStart, StartInstance,
       StartFails, StartHangs, Connect, TestDelivery, TestNotification, TestHangs,
       ClientLeaves, Raise, DispatchStep, GetInstance, GetInstanceFails, GetDefinition,
       NotifyEmail, NotifySMS, NotifyReturns, Deliver, DeliveryHangs, Signal, MainStep,
       Shutdown, Close, Exit, config, dispatches, requests

\* Only main goes on.
LEMMA MainFrame ==
    Next => \/ UNCHANGED <<config, phase, deferred, accepting>>
            \/ StartStep
            \/ \E ok \in BOOLEAN : Serve(ok)
            \/ Die
            \/ Signal
            \/ MainStep
BY DEF Next, StartStep, LoadConfig, OpenDatabase, Migrate, DialClient, NewProducer,
       ListenDatabase, StartCron, StartConsumers, Serve, Die, Edit, StartByTrigger,
       ReceiveAny, Receive, HandlerStep, ReloadWorkflows, WebhookStart, StartInstance,
       StartFails, StartHangs, Connect, TestDelivery, TestNotification, TestHangs,
       ClientLeaves, Raise, DispatchStep, GetInstance, GetInstanceFails, GetDefinition,
       NotifyEmail, NotifySMS, NotifyReturns, Deliver, DeliveryHangs, Signal, MainStep,
       Shutdown, Close, Exit, config, dispatches, requests

\* Instances come from triggers and webhooks.
LEMMA InstancesFrame ==
    Next => \/ instances' = instances
            \/ \E def \in registry : StartByTrigger(def)
            \/ \E r \in Requests : StartInstance(r) \/ StartHangs(r)
BY DEF Next, StartStep, LoadConfig, OpenDatabase, Migrate, DialClient, NewProducer,
       ListenDatabase, StartCron, StartConsumers, Serve, Die, Edit, StartByTrigger,
       ReceiveAny, Receive, HandlerStep, ReloadWorkflows, WebhookStart, StartInstance,
       StartFails, StartHangs, Connect, TestDelivery, TestNotification, TestHangs,
       ClientLeaves, Raise, DispatchStep, GetInstance, GetInstanceFails, GetDefinition,
       NotifyEmail, NotifySMS, NotifyReturns, Deliver, DeliveryHangs, Signal, MainStep,
       Shutdown, Close, Exit, config, dispatches, requests

\* A dispatch goes on when it is raised, and by its own steps.
LEMMA DispatchFrame ==
    Next => \/ at' = at
            \/ \E d \in Dispatches, type \in EventTypes, name \in WorkflowNames : Raise(d, type, name)
            \/ \E d \in Dispatches : DispatchStep(d)
BY DEF Next, StartStep, LoadConfig, OpenDatabase, Migrate, DialClient, NewProducer,
       ListenDatabase, StartCron, StartConsumers, Serve, Die, Edit, StartByTrigger,
       ReceiveAny, Receive, HandlerStep, ReloadWorkflows, WebhookStart, StartInstance,
       StartFails, StartHangs, Connect, TestDelivery, TestNotification, TestHangs,
       ClientLeaves, Raise, DispatchStep, GetInstance, GetInstanceFails, GetDefinition,
       NotifyEmail, NotifySMS, NotifyReturns, Deliver, DeliveryHangs, Signal, MainStep,
       Shutdown, Close, Exit, config, dispatches, requests

\* A request is taken when it is received, and by the steps of its handler.
LEMMA RequestFrame ==
    Next => \/ stage' = stage
            \/ \E r \in Requests :
                \/ Connect(r)
                \/ ReceiveAny(r)
                \/ HandlerStep(r)
                \/ StartHangs(r)
                \/ \E rcp \in Recipients : TestHangs(r, rcp)
                \/ ClientLeaves(r)
BY DEF Next, StartStep, LoadConfig, OpenDatabase, Migrate, DialClient, NewProducer,
       ListenDatabase, StartCron, StartConsumers, Serve, Die, Edit, StartByTrigger,
       ReceiveAny, Receive, HandlerStep, ReloadWorkflows, WebhookStart, StartInstance,
       StartFails, StartHangs, Connect, TestDelivery, TestNotification, TestHangs,
       ClientLeaves, Raise, DispatchStep, GetInstance, GetInstanceFails, GetDefinition,
       NotifyEmail, NotifySMS, NotifyReturns, Deliver, DeliveryHangs, Signal, MainStep,
       Shutdown, Close, Exit, config, dispatches, requests

-----------------------------------------------------------------------------
\* Type correctness

\* A definition that is served is one of RawType, and its name is not empty.
LEMMA ServedTyped ==
    ASSUME TypeOK, RegistrySound, NEW def \in registry
    PROVE  def \in RawType /\ def.name \in WorkflowNames
<1>1. PICK f \in UNION Directories : Validate(f.text) /\ def = Normalised(f.text)
  BY DEF RegistrySound
<1>2. f.text \in RawType
  BY DirectoriesAssumption
<1>3. def.name = f.text.name
  BY <1>1, <1>2 DEF Normalised, RawType
<1> QED
  BY <1>1, <1>2, <1>3 DEF TypeOK, RawType, Validate

\* Every step of main, of a handler and of a notification keeps the types.
LEMMA TypesKept ==
    TypeOK /\ RegistrySound /\ [Next]_vars => TypeOK'
<1> SUFFICES ASSUME TypeOK, RegistrySound, [Next]_vars
             PROVE  TypeOK'
  OBVIOUS
<1> USE DEF requests, dispatches, config
<1>1. ASSUME LoadConfig \/ Migrate, UNCHANGED <<accepting, disk, instances, requests, dispatches, edits>>
      PROVE  TypeOK'
  BY <1>1 DEF TypeOK, Phases, StartPhases, LoadConfig, Migrate
<1>2. ASSUME LoadWorkflows, UNCHANGED <<accepting, disk, instances, requests, dispatches, edits>>
      PROVE  TypeOK'
  <2>1. registry' \subseteq RawType
    BY <1>2, ParsedSound DEF LoadWorkflows, TypeOK
  <2> QED
    BY <1>2, <2>1 DEF TypeOK, Phases, StartPhases, LoadWorkflows
<1>3. ASSUME OpenDatabase, UNCHANGED <<accepting, disk, instances, requests, dispatches, edits>>
      PROVE  TypeOK'
  <2>1. deferred' \in Seq(Resources)
    BY <1>3, DeferOpens DEF OpenDatabase, TypeOK, Resources
  <2> QED
    BY <1>3, <2>1 DEF TypeOK, Phases, StartPhases, OpenDatabase
<1>4. ASSUME DialClient, UNCHANGED <<accepting, disk, instances, requests, dispatches, edits>>
      PROVE  TypeOK'
  <2>1. deferred' \in Seq(Resources)
    BY <1>4, DeferOpens DEF DialClient, TypeOK, Resources
  <2> QED
    BY <1>4, <2>1 DEF TypeOK, Phases, StartPhases, DialClient
<1>5. ASSUME NewProducer, UNCHANGED <<accepting, disk, instances, requests, dispatches, edits>>
      PROVE  TypeOK'
  <2>1. deferred' \in Seq(Resources)
    BY <1>5, DeferOpens DEF NewProducer, TypeOK, Resources
  <2> QED
    BY <1>5, <2>1 DEF TypeOK, Phases, StartPhases, NewProducer
<1>6. ASSUME ListenDatabase, UNCHANGED <<accepting, disk, instances, requests, dispatches, edits>>
      PROVE  TypeOK'
  <2>1. deferred' \in Seq(Resources)
    BY <1>6, DeferOpens DEF ListenDatabase, TypeOK, Resources
  <2> QED
    BY <1>6, <2>1 DEF TypeOK, Phases, StartPhases, ListenDatabase
<1>7. ASSUME StartCron, UNCHANGED <<accepting, disk, instances, requests, dispatches, edits>>
      PROVE  TypeOK'
  <2>1. deferred' \in Seq(Resources)
    BY <1>7, DeferOpens DEF StartCron, TypeOK, Resources
  <2> QED
    BY <1>7, <2>1 DEF TypeOK, Phases, StartPhases, StartCron
<1>8. ASSUME StartConsumers, UNCHANGED <<accepting, disk, instances, requests, dispatches, edits>>
      PROVE  TypeOK'
  <2>1. deferred' \in Seq(Resources)
    BY <1>8, DeferOpens DEF StartConsumers, TypeOK, Resources
  <2> QED
    BY <1>8, <2>1 DEF TypeOK, Phases, StartPhases, StartConsumers
<1>9. ASSUME NEW ok \in BOOLEAN, Serve(ok)
      PROVE  TypeOK'
  BY <1>9 DEF TypeOK, Phases, StartPhases, Serve
<1>10. ASSUME Die
      PROVE  TypeOK'
  <2>1. deferred' \in Seq(Resources)
    BY <1>10 DEF Die
  <2> QED
    BY <1>10, <2>1 DEF TypeOK, Phases, Die
<1>11. ASSUME NEW dir \in Directories, Edit(dir)
      PROVE  TypeOK'
  BY <1>11, BoundsAssumption DEF TypeOK, Edit
<1>12. ASSUME NEW def \in registry, StartByTrigger(def)
      PROVE  TypeOK'
  BY <1>12, ServedTyped DEF TypeOK, StartByTrigger
<1>13. ASSUME NEW r \in Requests, ReceiveAny(r)
      PROVE  TypeOK'
  <2>1. ASSUME NEW k \in {"reload", "stream", "start", "test"}, NEW s \in {"open", "checked"},
               NEW w \in SUBSET (WorkflowNames \union Recipients), Receive(r, k, s, w),
               k = "start" => w \subseteq WorkflowNames
        PROVE  TypeOK'
    BY <2>1 DEF TypeOK, Receive
  <2>2. CASE Receive(r, "reload", "open", {}) \/ Receive(r, "stream", "open", {})
    BY <2>1, <2>2
  <2>3. ASSUME NEW name \in WorkflowNames, NEW s \in {"open", "checked"},
               Receive(r, "start", s, {name})
        PROVE  TypeOK'
    BY <2>1, <2>3
  <2>4. ASSUME NEW recipients \in TestLists, Receive(r, "test", "open", recipients)
        PROVE  TypeOK'
    BY <2>1, <2>4, BoundsAssumption
  <2> QED
    BY <1>13, <2>2, <2>3, <2>4 DEF ReceiveAny
<1>14. ASSUME NEW r \in Requests, ReloadWorkflows(r)
      PROVE  TypeOK'
  <2>1. registry' \subseteq RawType
    BY <1>14, ParsedSound DEF ReloadWorkflows, TypeOK
  <2>2. versions' \in [Dispatches -> SUBSET (NotificationType \union {Missing})]
    <3>1. CASE Loads(disk)
      <4>1. Parsed(disk) \subseteq RawType
        BY <3>1, ParsedSound DEF TypeOK
      <4> QED
        BY <1>14, <3>1, <4>1, FoundNotifications DEF ReloadWorkflows, TypeOK
    <3> QED
      BY <1>14, <3>1 DEF ReloadWorkflows, TypeOK
  <2> QED
    BY <1>14, <2>1, <2>2 DEF TypeOK, ReloadWorkflows
<1>15. ASSUME NEW r \in Requests, WebhookStart(r)
      PROVE  TypeOK'
  BY <1>15 DEF TypeOK, WebhookStart
<1>16. ASSUME NEW r \in Requests, StartInstance(r) \/ StartHangs(r)
      PROVE  TypeOK'
  BY <1>16 DEF TypeOK, StartInstance, StartHangs, Handles
<1>17. ASSUME NEW r \in Requests,
             Connect(r) \/ StartFails(r) \/ TestNotification(r) \/ ClientLeaves(r)
      PROVE  TypeOK'
  BY <1>17 DEF TypeOK, Connect, StartFails, TestNotification, ClientLeaves
<1>18. ASSUME NEW r \in Requests, NEW rcp \in Recipients, TestDelivery(r, rcp) \/ TestHangs(r, rcp)
      PROVE  TypeOK'
  BY <1>18 DEF TypeOK, TestDelivery, TestHangs, NextTested, Handles
<1>19. ASSUME NEW d \in Dispatches, NEW type \in EventTypes, NEW name \in WorkflowNames,
             Raise(d, type, name)
      PROVE  TypeOK'
  BY <1>19, FoundNotifications DEF TypeOK, Raise
<1>20. ASSUME NEW d \in Dispatches, GetInstance(d) \/ GetInstanceFails(d) \/ NotifyReturns(d)
      PROVE  TypeOK'
  BY <1>20 DEF TypeOK, GetInstance, GetInstanceFails, NotifyReturns
<1>21. ASSUME NEW d \in Dispatches, GetDefinition(d)
      PROVE  TypeOK'
  <2>1. NotificationsIn(registry, event[d].workflow) \in NotificationType \union {Missing}
    BY FoundNotifications DEF TypeOK
  <2>2. /\ to' \in [Dispatches -> NotificationType \union {Missing}]
        /\ at' \in [Dispatches -> {"none", "instance", "definition", "email", "sms",
                                    "wait", "done"}]
    BY <1>21, <2>1, Zenon DEF TypeOK, GetDefinition
  <2> QED
    BY <1>21, <2>2 DEF TypeOK, GetDefinition
<1>22. ASSUME NEW d \in Dispatches, NotifyEmail(d) \/ NotifySMS(d)
      PROVE  TypeOK'
  <2>1. PICK recipients : Spawned(d, recipients)
    BY <1>22 DEF NotifyEmail, NotifySMS
  <2>2. [r \in Recipients |-> IF r \in recipients /\ Reached(r) THEN "sending" ELSE sent[d][r]]
          \in [Recipients -> {"none", "sending", "over", "hung"}]
    BY DEF TypeOK
  <2>3. sent' \in [Dispatches -> [Recipients -> {"none", "sending", "over", "hung"}]]
    BY <2>1, <2>2 DEF TypeOK, Spawned
  <2> QED
    BY <1>22, <2>3 DEF TypeOK, NotifyEmail, NotifySMS
<1>23. ASSUME NEW d \in Dispatches, NEW r \in Recipients, Deliver(d, r) \/ DeliveryHangs(d, r)
      PROVE  TypeOK'
  <2>1. PICK o \in {"over", "hung"} : sent' = [sent EXCEPT ![d][r] = o]
    BY <1>23 DEF Deliver, DeliveryHangs
  <2>2. sent' \in [Dispatches -> [Recipients -> {"none", "sending", "over", "hung"}]]
    BY <2>1 DEF TypeOK
  <2> QED
    BY <1>23, <2>2 DEF TypeOK, Deliver, DeliveryHangs
<1>24. ASSUME Signal \/ Shutdown \/ Exit
      PROVE  TypeOK'
  BY <1>24 DEF TypeOK, Phases, StartPhases, Signal, Shutdown, Exit
<1>25. ASSUME Close
      PROVE  TypeOK'
  BY <1>25 DEF TypeOK, Close
<1>26. ASSUME UNCHANGED vars
      PROVE  TypeOK'
  BY <1>26 DEF TypeOK, vars
<1> QED
  BY <1>1, <1>2, <1>3, <1>4, <1>5, <1>6, <1>7, <1>8, <1>9, <1>10, <1>11, <1>12, <1>13, <1>14, <1>15, <1>16, <1>17, <1>18, <1>19, <1>20, <1>21, <1>22, <1>23, <1>24, <1>25, <1>26
  DEF Next, StartStep, HandlerStep, DispatchStep, MainStep

-----------------------------------------------------------------------------
\* What is served was accepted

\* Definitions come into the registry by LoadWorkflows and ReloadWorkflows only,
\* and both load all or nothing.
LEMMA RegistryKept ==
    TypeOK /\ RegistrySound /\ [Next]_vars => RegistrySound'
<1> SUFFICES ASSUME TypeOK, RegistrySound, [Next]_vars
             PROVE  RegistrySound'
  OBVIOUS
<1>1. CASE registry' = registry
  BY <1>1 DEF RegistrySound
<1>2. CASE registry' = Parsed(disk) /\ Loads(disk)
  BY <1>2, ParsedSound DEF RegistrySound, TypeOK
<1>3. \/ registry' = registry
      \/ registry' = Parsed(disk) /\ Loads(disk)
  BY RegistryFrame DEF LoadWorkflows, ReloadWorkflows, vars
<1> QED
  BY <1>1, <1>2, <1>3

-----------------------------------------------------------------------------
\* What is open when

\* Before the definitions are loaded nothing can start an instance.
LEMMA QuietKept ==
    SInv /\ [Next]_vars => QuietStart'
<1> SUFFICES ASSUME SInv, [Next]_vars
             PROVE  QuietStart'
  OBVIOUS
<1>1. CASE UNCHANGED vars
  BY <1>1 DEF SInv, QuietStart, vars, dispatches
<1>2. CASE Next
  <2>1. phase' \in Early => phase \in Early
    BY <1>2, MainFrame DEF Early, StartStep, LoadConfig, OpenDatabase, Migrate, LoadWorkflows,
         DialClient, NewProducer, ListenDatabase, StartCron, StartConsumers, Serve, Die,
         Signal, MainStep, Shutdown, Close, Exit
  <2>2. /\ phase' \in {"config", "database"} => deferred' = << >>
        /\ phase' \in {"migrate", "workflows"} => deferred' = << "database" >>
    <3>1. CASE OpenDatabase
      BY <3>1, DeferOpens DEF SInv, QuietStart, OpenDatabase, TypeOK, Resources
    <3>2. CASE ~OpenDatabase
      BY <1>2, <3>2, MainFrame DEF SInv, QuietStart, config, StartStep, LoadConfig, Migrate,
           LoadWorkflows, DialClient, NewProducer, ListenDatabase, StartCron,
           StartConsumers, Serve, Die, Signal, MainStep, Shutdown, Close, Exit
    <3> QED
      BY <3>1, <3>2
  <2>3. ASSUME phase \in Early
        PROVE  instances' = {} /\ at' = at
    <3>1. ~Synced
      BY <2>3 DEF Early, Synced
    <3>2. \A r \in Requests : ~IsHandled(r)
      BY <2>3 DEF SInv, HandledInTime, Early
    <3>3. instances' = instances
      BY <1>2, <3>1, <3>2, InstancesFrame DEF StartByTrigger, StartInstance, StartHangs,
           Handles, IsHandled
    <3>4. at' = at
      BY <1>2, <2>3, DispatchFrame DEF SInv, QuietStart, Raise, DispatchStep, Runs, GetInstance,
           GetInstanceFails, GetDefinition, NotifyEmail, NotifySMS, NotifyReturns
    <3> QED
      BY <2>3, <3>3, <3>4 DEF SInv, QuietStart
  <2> QED
    BY <2>1, <2>2, <2>3 DEF SInv, QuietStart
<1> QED
  BY <1>1, <1>2

\* main opens its resources in order and closes none before it returns.
LEMMA OpeningKept ==
    SInv /\ [Next]_vars => OpenedInOrder'
<1> SUFFICES ASSUME SInv, [Next]_vars
             PROVE  OpenedInOrder'
  OBVIOUS
<1> USE DEF SInv, OpenedInOrder
<1>1. CASE UNCHANGED <<config, phase, deferred, accepting>>
  BY <1>1 DEF config, QueueEnabled, IsOpen
<1>2. CASE LoadConfig
  BY <1>2 DEF LoadConfig
<1>3. CASE Migrate \/ LoadWorkflows
  <2>1. IsOpen("database")' 
    BY <1>3 DEF QuietStart, Migrate, LoadWorkflows, IsOpen
  <2> QED
    BY <1>3, <2>1 DEF Migrate, LoadWorkflows, QueueEnabled, config
<1>4. CASE OpenDatabase
  BY <1>4, DeferOpens DEF OpenDatabase, TypeOK, Resources, QueueEnabled, config
<1>5. CASE DialClient
  BY <1>5, DeferOpens DEF DialClient, TypeOK, Resources, QueueEnabled, config
<1>6. CASE NewProducer
  BY <1>6, DeferOpens DEF NewProducer, TypeOK, Resources, QueueEnabled, config
<1>7. CASE ListenDatabase
  BY <1>7, DeferOpens DEF ListenDatabase, TypeOK, Resources, QueueEnabled, config
<1>8. CASE StartCron
  BY <1>8, DeferOpens DEF StartCron, TypeOK, Resources, QueueEnabled, config
<1>9. CASE StartConsumers
  BY <1>9, DeferOpens DEF StartConsumers, TypeOK, Resources, QueueEnabled, config
<1>10. CASE \E ok \in BOOLEAN : Serve(ok)
  BY <1>10 DEF Serve, QueueEnabled, config, IsOpen
<1>11. CASE Signal
  BY <1>11 DEF Signal, QueueEnabled, config, IsOpen
<1>12. CASE Die \/ MainStep
  BY <1>12 DEF Die, MainStep, Shutdown, Close, Exit
<1> QED
  BY <1>1, <1>2, <1>3, <1>4, <1>5, <1>6, <1>7, <1>8, <1>9, <1>10, <1>11, <1>12, MainFrame
  DEF StartStep, vars

\* Requests are taken while app.Listen runs, and main waits for their handlers.
LEMMA HandlingKept ==
    SInv /\ [Next]_vars => HandledInTime'
<1> SUFFICES ASSUME SInv, [Next]_vars
             PROVE  HandledInTime'
  OBVIOUS
<1> USE DEF SInv, HandledInTime, IsHandled
<1>1. \/ UNCHANGED <<phase, accepting>>
      \/ UNCHANGED stage /\ ~accepting' /\
           (phase \in {"serving", "closing", "exited"} =>
              phase' \in {"serving", "closing", "exited"} \/ \A r \in Requests : ~IsHandled(r))
      \/ UNCHANGED stage /\ phase' = "serving"
  BY MainFrame DEF vars, requests, StartStep, LoadConfig, OpenDatabase, Migrate, LoadWorkflows,
       DialClient, NewProducer, ListenDatabase, StartCron, StartConsumers, Serve, Die, Signal,
       MainStep, Shutdown, Close, Exit, Drained
<1>2. ASSUME UNCHANGED <<phase, accepting>>, NEW r \in Requests, IsHandled(r)'
      PROVE  IsHandled(r) \/ accepting
  BY <1>2, RequestFrame DEF TypeOK, vars, requests, ReceiveAny, Receive, HandlerStep,
       ReloadWorkflows, WebhookStart, StartInstance, StartFails, StartHangs, Connect,
       TestDelivery, TestNotification, TestHangs, NextTested, ClientLeaves, Handles
<1> QED
  BY <1>1, <1>2

-----------------------------------------------------------------------------
\* One version of a definition per event

\* Only loading and the dispatches themselves matter to a dispatch.
LEMMA SourcesFrame ==
    Next => \/ UNCHANGED <<cfg, registry, dispatches>>
            \/ LoadConfig /\ UNCHANGED dispatches
            \/ LoadWorkflows /\ UNCHANGED <<cfg, dispatches>>
            \/ \E r \in Requests : ReloadWorkflows(r)
            \/ \E d \in Dispatches, type \in EventTypes, name \in WorkflowNames : Raise(d, type, name)
            \/ \E d \in Dispatches : DispatchStep(d)
            \/ \E d \in Dispatches, r \in Recipients : Deliver(d, r) \/ DeliveryHangs(d, r)
BY DEF Next, StartStep, LoadConfig, OpenDatabase, Migrate, LoadWorkflows, DialClient,
       NewProducer, ListenDatabase, StartCron, StartConsumers, Serve, Die, Edit,
       StartByTrigger, ReceiveAny, Receive, HandlerStep, WebhookStart, StartInstance,
       StartFails, StartHangs, Connect, TestDelivery, TestNotification, TestHangs,
       ClientLeaves, Signal, MainStep, Shutdown, Close, Exit, config, dispatches

\* A dispatch is as sound as it was when nothing of it changed.
LEMMA SameDispatch ==
    ASSUME NEW d \in Dispatches, DispatchSound(d), UNCHANGED <<cfg, registry>>,
           at'[d] = at[d], event'[d] = event[d], to'[d] = to[d], versions'[d] = versions[d],
           Attempted(d)' = Attempted(d)
    PROVE  DispatchSound(d)'
  BY DEF DispatchSound, KeepsTo, Targets, Reached, HasEmail, HasSMS, NotificationsIn, Subscribes

\* Starting goroutines for some of the recipients adds those who have a sender.
LEMMA SpawnedAttempts ==
    ASSUME TypeOK, NEW d \in Dispatches, NEW recipients \in SUBSET Recipients,
           Spawned(d, recipients)
    PROVE  /\ Attempted(d)' = Attempted(d) \union {r \in recipients : Reached(r)}
           /\ \A e \in Dispatches \ {d} : Attempted(e)' = Attempted(e)
<1>1. sent'[d] = [r \in Recipients |-> IF r \in recipients /\ Reached(r) THEN "sending" ELSE sent[d][r]]
  BY DEF Spawned, TypeOK
<1>2. \A e \in Dispatches \ {d} : sent'[e] = sent[e]
  BY DEF Spawned, TypeOK
<1> QED
  BY <1>1, <1>2 DEF Attempted

\* Each step of a dispatch keeps what is known of it, and a reload adds the
\* version it serves to those the event may be told by.
LEMMA DispatchesKept ==
    SInv /\ [Next]_vars => DispatchesSound'
<1> SUFFICES ASSUME SInv, [Next]_vars, NEW d \in Dispatches
             PROVE  DispatchSound(d)'
  BY DEF DispatchesSound
<1> USE DEF dispatches
<1>1. DispatchSound(d) /\ TypeOK
  BY DEF SInv, DispatchesSound
<1>2. CASE UNCHANGED <<cfg, registry, dispatches>>
  BY <1>1, <1>2, SameDispatch DEF Attempted
<1>3. CASE (LoadConfig \/ LoadWorkflows) /\ UNCHANGED dispatches
  <2>1. at[d] = "none"
    BY <1>3 DEF SInv, QuietStart, Early, LoadConfig, LoadWorkflows
  <2> QED
    BY <1>1, <1>3, <2>1 DEF DispatchSound, Attempted
<1>4. ASSUME NEW r \in Requests, ReloadWorkflows(r)
      PROVE  DispatchSound(d)'
  <2>1. CASE Loads(disk)
    <3>1. /\ versions[d] \subseteq versions'[d] \/ at[d] = "none"
          /\ at[d] # "none" => NotificationsIn(registry', event[d].workflow) \in versions'[d]
          /\ UNCHANGED <<cfg, at, to, event, sent>>
      BY <1>4, <2>1 DEF ReloadWorkflows, config
    <3> QED
      BY <1>1, <3>1 DEF DispatchSound, KeepsTo, Attempted, Targets, Reached, HasEmail, HasSMS,
           Subscribes
  <2>2. CASE ~Loads(disk)
    BY <1>1, <1>4, <2>2, SameDispatch DEF ReloadWorkflows, config, Attempted
  <2> QED
    BY <2>1, <2>2
<1>5. ASSUME NEW e \in Dispatches, NEW type \in EventTypes, NEW name \in WorkflowNames,
             Raise(e, type, name)
      PROVE  DispatchSound(d)'
  <2>1. UNCHANGED <<cfg, registry, to, sent>>
    BY <1>5 DEF Raise, config
  <2>2. CASE e = d
    <3>1. /\ at[d] = "none" /\ at'[d] = "instance"
          /\ event'[d].workflow = name
          /\ versions'[d] = {NotificationsIn(registry, name)}
      BY <1>1, <1>5, <2>2 DEF Raise, TypeOK
    <3> QED
      BY <1>1, <2>1, <3>1 DEF DispatchSound, Attempted
  <2>3. CASE e # d
    BY <1>1, <1>5, <2>1, <2>3, SameDispatch DEF Raise, Attempted, TypeOK
  <2> QED
    BY <2>2, <2>3
<1>6. ASSUME NEW e \in Dispatches, DispatchStep(e), e # d
      PROVE  DispatchSound(d)'
  <2>1. UNCHANGED <<cfg, registry, event, versions>> /\ at'[d] = at[d] /\ to'[d] = to[d]
    BY <1>1, <1>6 DEF DispatchStep, GetInstance, GetInstanceFails, GetDefinition, NotifyEmail,
         NotifySMS, NotifyReturns, TypeOK, config
  <2>2. sent'[d] = sent[d]
    BY <1>1, <1>6 DEF DispatchStep, GetInstance, GetInstanceFails, GetDefinition, NotifyEmail,
         NotifySMS, NotifyReturns, TypeOK, Spawned
  <2> QED
    BY <1>1, <2>1, <2>2, SameDispatch DEF Attempted
<1>7. CASE GetInstance(d) \/ GetInstanceFails(d)
  <2>1. UNCHANGED <<cfg, registry, event, versions, to, sent>>
    BY <1>7 DEF GetInstance, GetInstanceFails, config
  <2>2. at[d] = "instance" /\ at'[d] \in {"definition", "done"}
    BY <1>1, <1>7 DEF GetInstance, GetInstanceFails, Runs, TypeOK
  <2> QED
    BY <1>1, <2>1, <2>2 DEF DispatchSound, Attempted
<1>8. CASE GetDefinition(d)
  <2> DEFINE found == NotificationsIn(registry, event[d].workflow)
  <2>1. /\ UNCHANGED <<cfg, registry, event, versions, sent>>
        /\ at[d] = "definition"
    BY <1>8 DEF GetDefinition, Runs, config
  <2>2. found \in versions[d] /\ Attempted(d) = {}
    BY <1>1, <2>1 DEF DispatchSound
  <2>3. CASE Subscribes(found, event[d].type)
    <3>1. at'[d] = "email" /\ to'[d] = found
      BY <1>1, <1>8, <2>3, Zenon DEF GetDefinition, TypeOK
    <3>2. found \in NotificationType
      BY <1>1, <2>3, FoundNotifications DEF Subscribes, TypeOK
    <3>3. KeepsTo(d)'
      BY <2>1, <2>2, <2>3, <3>1, <3>2 DEF KeepsTo, Subscribes
    <3> QED
      BY <2>1, <2>2, <3>1, <3>3 DEF DispatchSound, Attempted
  <2>4. CASE ~Subscribes(found, event[d].type)
    <3>1. at'[d] = "done"
      BY <1>1, <1>8, <2>4, Zenon DEF GetDefinition, TypeOK
    <3> QED
      BY <2>1, <2>2, <3>1 DEF DispatchSound, Attempted
  <2> QED
    BY <2>3, <2>4
<1>9. CASE NotifyEmail(d)
  <2>1. /\ UNCHANGED <<cfg, registry, event, versions, to>>
        /\ at[d] = "email" /\ at'[d] = "sms"
        /\ Spawned(d, to[d].email)
    BY <1>1, <1>9 DEF NotifyEmail, Runs, ConfigOf, config, TypeOK
  <2>2. Attempted(d) = {} /\ KeepsTo(d)
    BY <1>1, <2>1 DEF DispatchSound
  <2>3. to[d].email \subseteq Recipients
    BY <2>2 DEF KeepsTo, NotificationType, Recipients
  <2>4. Attempted(d)' = {r \in to[d].email : Reached(r)}
    BY <1>1, <2>1, <2>2, <2>3, SpawnedAttempts
  <2>5. KeepsTo(d)'
    BY <2>1, <2>2 DEF KeepsTo, Subscribes
  <2> QED
    BY <1>1, <2>1, <2>4, <2>5 DEF DispatchSound, NotificationsIn, Reached, HasEmail, HasSMS
<1>10. CASE NotifySMS(d)
  <2>1. /\ UNCHANGED <<cfg, registry, event, versions, to>>
        /\ at[d] = "sms" /\ at'[d] = "wait"
        /\ Spawned(d, to[d].sms)
    BY <1>1, <1>10 DEF NotifySMS, Runs, ConfigOf, config, TypeOK
  <2>2. Attempted(d) = {r \in to[d].email : Reached(r)} /\ KeepsTo(d)
    BY <1>1, <2>1 DEF DispatchSound
  <2>3. to[d].sms \subseteq Recipients
    BY <2>2 DEF KeepsTo, NotificationType, Recipients
  <2>4. Attempted(d)' = Targets(to[d])
    BY <1>1, <2>1, <2>2, <2>3, SpawnedAttempts DEF Targets
  <2>5. KeepsTo(d)'
    BY <2>1, <2>2 DEF KeepsTo, Subscribes
  <2> QED
    BY <1>1, <2>1, <2>4, <2>5 DEF DispatchSound, NotificationsIn, Targets, Reached, HasEmail, HasSMS
<1>11. CASE NotifyReturns(d)
  <2>1. UNCHANGED <<cfg, registry, event, versions, to, sent>>
    BY <1>11 DEF NotifyReturns, config
  <2>2. at[d] = "wait" /\ at'[d] = "done"
    BY <1>1, <1>11 DEF NotifyReturns, Runs, TypeOK
  <2> QED
    BY <1>1, <2>1, <2>2 DEF DispatchSound, KeepsTo, Attempted, Targets, Reached, HasEmail, HasSMS,
         Subscribes
<1>12. ASSUME NEW e \in Dispatches, NEW r \in Recipients, Deliver(e, r) \/ DeliveryHangs(e, r)
       PROVE  DispatchSound(d)'
  <2>1. UNCHANGED <<cfg, registry, event, at, to, versions>>
    BY <1>12 DEF Deliver, DeliveryHangs, config
  <2>2. PICK o \in {"over", "hung"} : sent[e][r] = "sending" /\ sent' = [sent EXCEPT ![e][r] = o]
    BY <1>12 DEF Deliver, DeliveryHangs
  <2>3. Attempted(d)' = Attempted(d)
    BY <1>1, <2>2 DEF Attempted, TypeOK
  <2> QED
    BY <1>1, <2>1, <2>3, SameDispatch
<1>13. CASE \E e \in Dispatches : DispatchStep(e)
  BY <1>6, <1>7, <1>8, <1>9, <1>10, <1>11, <1>13 DEF DispatchStep
<1>14. CASE UNCHANGED vars
  BY <1>2, <1>14 DEF vars, config
<1> QED
  BY <1>2, <1>3, <1>4, <1>5, <1>12, <1>13, <1>14, SourcesFrame

-----------------------------------------------------------------------------
\* Theorems

\* The inductive invariant holds in every state.
THEOREM ServerInvariant == Spec => []SInv
<1>1. Init => SInv
  <2> SUFFICES ASSUME Init
               PROVE  SInv
    OBVIOUS
  <2>1. TypeOK
    <3>1. deferred \in Seq(Resources) /\ edits \in 0 .. MaxEdits
      BY BoundsAssumption DEF Init
    <3>2. /\ kind \in [Requests -> {"none", "reload", "start", "test", "stream"}]
          /\ stage \in [Requests -> {"none", "sending", "open", "checked", "hung", "done"}]
          /\ wants \in [Requests -> SUBSET (WorkflowNames \union Recipients)]
          /\ \A r \in Requests : wants[r] = {}
      BY DEF Init
    <3>3. sent \in [Dispatches -> [Recipients -> {"none", "sending", "over", "hung"}]]
      BY DEF Init
    <3> QED
      BY <3>1, <3>2, <3>3 DEF Init, TypeOK, Phases, StartPhases
  <2>2. RegistrySound /\ QuietStart /\ OpenedInOrder /\ HandledInTime
    BY DEF Init, RegistrySound, QuietStart, OpenedInOrder, HandledInTime, Early, IsHandled
  <2>3. DispatchesSound
    BY DEF Init, DispatchesSound, DispatchSound, Attempted
  <2> QED
    BY <2>1, <2>2, <2>3 DEF SInv
<1>2. SInv /\ [Next]_vars => SInv'
  BY TypesKept, RegistryKept, QuietKept, OpeningKept, HandlingKept, DispatchesKept DEF SInv
<1> QED
  BY <1>1, <1>2, PTL DEF Spec

\* Types: the phases, registries, stages and lists of recipients the process can
\* come to, whatever the files and the settings.
THEOREM ServerTypes == Spec => []TypeOK
<1>1. SInv => TypeOK
  BY DEF SInv
<1> QED
  BY <1>1, ServerInvariant, PTL

\* Whatever is served fits the engine: main and reload only install what
\* Validate accepted, and AcceptedFitsEngine says what that is worth.
THEOREM ServedFits == Spec => []ServedFitsEngine
<1>1. SInv => ServedFitsEngine
  <2> SUFFICES ASSUME SInv, NEW def \in registry
               PROVE  FitsEngine(def)
    BY DEF ServedFitsEngine
  <2>1. PICK f \in UNION Directories : Validate(f.text) /\ def = Normalised(f.text)
    BY DEF SInv, RegistrySound
  <2>2. PICK dir \in Directories : f \in dir
    OBVIOUS
  <2>3. f.text \in RawType
    BY <2>2, DirectoriesAssumption
  <2> QED
    BY <2>1, <2>3, AcceptedFitsEngine
<1> QED
  BY <1>1, ServerInvariant, PTL

\* Reloads come in anywhere between an event and its last message, and still all
\* recipients are those of one version that was served since.
THEOREM OneVersion == Spec => []OneVersionTold
<1>1. SInv => OneVersionTold
  <2> SUFFICES ASSUME SInv, NEW d \in Dispatches, Attempted(d) # {}
               PROVE  \E v \in versions[d] :
                         /\ Subscribes(v, event[d].type)
                         /\ Attempted(d) \subseteq Targets(v)
                         /\ at[d] \in {"wait", "done"} => Attempted(d) = Targets(v)
    BY DEF OneVersionTold
  <2>1. DispatchSound(d) /\ TypeOK
    BY DEF SInv, DispatchesSound
  <2>2. at[d] \in {"sms", "wait", "done"}
    BY <2>1 DEF DispatchSound, TypeOK
  <2>3. KeepsTo(d) /\ Attempted(d) \subseteq Targets(to[d])
    BY <2>1, <2>2 DEF DispatchSound, Targets
  <2>4. at[d] \in {"wait", "done"} => Attempted(d) = Targets(to[d])
    BY <2>1 DEF DispatchSound
  <2> QED
    BY <2>3, <2>4 DEF KeepsTo
<1> QED
  BY <1>1, ServerInvariant, PTL

\* No defer of main runs while a handler does.
THEOREM NothingClosedEarly == Spec => []HandlersKeepResources
<1>1. SInv => HandlersKeepResources
  BY DEF SInv, HandledInTime, OpenedInOrder, HandlersKeepResources, Running
<1> QED
  BY <1>1, ServerInvariant, PTL

=============================================================================
