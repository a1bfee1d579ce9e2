-------------------------------- MODULE Server --------------------------------
(***************************************************************************)
(* One life of the server process (cmd/server/main.go): it reads its       *)
(* configuration, opens what it needs in order, serves requests, loads     *)
(* definitions again, tells recipients of events, and shuts down.          *)
(*                                                                         *)
(* Every resource is closed by a "defer" of main: in the reverse of the    *)
(* order in which they were opened, after app.Shutdown has returned, and   *)
(* not at all if the start fails (os.Exit).                                *)
(*                                                                         *)
(* Nothing waits for the goroutines of dispatchNotification: they read the *)
(* instance and the registry when they run, and end with the process.      *)
(*                                                                         *)
(* Registry.Load is one step here; Reload.tla has its parts.               *)
(***************************************************************************)
EXTENDS Definition, Sequences

CONSTANTS
    Directories,    \* what the workflow directory may hold: sets of [file, text]
    Environments,   \* environment variables and config file: [env, file]
    Requests,       \* requests from outside
    TestLists,      \* recipients that a test request may name together
    Dispatches,     \* goroutines of dispatchNotification
    MaxEdits,       \* bound: changes of the workflow directory
    Unset,          \* a key that an environment or a file does not set
    Malformed       \* a config file that does not parse

Keys == {"queueti.enabled", "notifications.email.provider", "notifications.sms.provider"}
Recipients == EmailAddresses \union PhoneNumbers

ASSUME DirectoriesAssumption ==
    \A dir \in Directories : \A f \in dir : f.text \in RawType

ASSUME BoundsAssumption == TestLists \subseteq SUBSET Recipients /\ MaxEdits \in Nat

VARIABLES
    environment,    \* member of Environments the process was started in
    cfg,            \* what config.Load returned
    phase,          \* what main does next
    deferred,       \* resources main has opened, last first
    accepting,      \* app.Listen has its port
    disk,           \* member of Directories: the workflow directory
    registry,       \* Registry.definitions
    instances,      \* names of the workflows that have instances
    kind,           \* what each request asks for
    stage,          \* where its handler is
    wants,          \* the workflow it is to start, or the recipients it has still to test
    event,          \* what each dispatch tells: [type, workflow]
    at,             \* where it is
    to,             \* the notification config it found
    sent,           \* how the delivery to each recipient went
    versions,       \* the notification configs its workflow had since the event
    edits

config == <<environment, cfg>>
requests == <<kind, stage, wants>>
dispatches == <<event, at, to, sent, versions>>
vars == <<config, phase, deferred, accepting, disk, registry, instances,
          requests, dispatches, edits>>

-----------------------------------------------------------------------------
\* config.Load

Default(key) == IF key = "queueti.enabled" THEN "false" ELSE ""

\* An environment variable overrides the file, the file the default; no config
\* file is one that sets nothing.
Setting(e, key) ==
    CASE e.env[key] # Unset  -> e.env[key]
      [] e.file[key] # Unset -> e.file[key]
      [] OTHER               -> Default(key)

QueueEnabled == cfg["queueti.enabled"] = "true"

\* notify.Build: a sender for a provider it knows, or none; Noop when no
\* provider is named at all.
HasEmail == cfg["notifications.email.provider"] \in {"smtp", "sendgrid", "mailgun"}
HasSMS == cfg["notifications.sms.provider"] \in {"twilio", "vonage"}

Reached(r) == IF r \in EmailAddresses THEN HasEmail ELSE HasSMS

\* Every request to a provider ends by its context, or after the 15 s of the HTTP
\* client; smtp.SendMail knows neither.
MayHang(r) == r \in EmailAddresses /\ cfg["notifications.email.provider"] = "smtp"

-----------------------------------------------------------------------------
\* main, up to app.Listen

\* Registry.Load succeeds: every file validates, and no two have one name.
Loads(dir) ==
    /\ \A f \in dir : Validate(f.text)
    /\ \A f, g \in dir : f.text.name = g.text.name => f = g

Parsed(dir) == {Normalised(f.text) : f \in dir}

Init ==
    /\ environment \in Environments
    /\ cfg = [key \in Keys |-> Default(key)]
    /\ phase = "config"
    /\ deferred = << >>
    /\ accepting = FALSE
    /\ disk \in Directories
    /\ registry = {}
    /\ instances = {}
    /\ kind = [r \in Requests |-> "none"]
    /\ stage = [r \in Requests |-> "none"]
    /\ wants = [r \in Requests |-> {}]
    /\ event = [d \in Dispatches |-> Missing]
    /\ at = [d \in Dispatches |-> "none"]
    /\ to = [d \in Dispatches |-> Missing]
    /\ sent = [d \in Dispatches |-> [r \in Recipients |-> "none"]]
    /\ versions = [d \in Dispatches |-> {}]
    /\ edits = 0

\* defer: the resource is closed when main returns.
Defer(resource) == deferred' = << resource >> \o deferred

LoadConfig ==
    /\ phase = "config"
    /\ environment.file # Malformed
    /\ cfg' = [key \in Keys |-> Setting(environment, key)]
    /\ phase' = "database"
    /\ UNCHANGED <<environment, deferred, registry>>

OpenDatabase ==
    /\ phase = "database"
    /\ Defer("database")
    /\ phase' = "migrate"
    /\ UNCHANGED <<config, registry>>

Migrate ==
    /\ phase = "migrate"
    /\ phase' = "workflows"
    /\ UNCHANGED <<config, deferred, registry>>

LoadWorkflows ==
    /\ phase = "workflows"
    /\ Loads(disk)
    /\ registry' = Parsed(disk)
    /\ phase' = IF QueueEnabled THEN "client" ELSE "listener"
    /\ UNCHANGED <<config, deferred>>

DialClient ==
    /\ phase = "client"
    /\ Defer("client")
    /\ phase' = "producer"
    /\ UNCHANGED <<config, registry>>

NewProducer ==
    /\ phase = "producer"
    /\ Defer("producer")
    /\ phase' = "listener"
    /\ UNCHANGED <<config, registry>>

ListenDatabase ==
    /\ phase = "listener"
    /\ Defer("listener")
    /\ phase' = "cron"
    /\ UNCHANGED <<config, registry>>

\* The scheduler runs, without jobs so far.
StartCron ==
    /\ phase = "cron"
    /\ Defer("cron")
    /\ phase' = IF QueueEnabled THEN "consumers" ELSE "serve"
    /\ UNCHANGED <<config, registry>>

StartConsumers ==
    /\ phase = "consumers"
    /\ Defer("consumers")
    /\ phase' = "serve"
    /\ UNCHANGED <<config, registry>>

StartStep ==
    /\ \/ LoadConfig \/ OpenDatabase \/ Migrate \/ LoadWorkflows \/ DialClient
       \/ NewProducer \/ ListenDatabase \/ StartCron \/ StartConsumers
    /\ UNCHANGED <<accepting, disk, instances, requests, dispatches, edits>>

\* An app.Listen that fails is logged; the process stays without a port.
Serve(ok) ==
    /\ phase = "serve"
    /\ phase' = "serving"
    /\ accepting' = ok
    /\ UNCHANGED <<config, deferred, disk, registry, instances, requests, dispatches, edits>>

\* os.Exit after a start that failed, a signal before signal.Notify, a crash.
Die ==
    /\ phase # "exited"
    /\ phase' = "exited"
    /\ deferred' = << >>
    /\ accepting' = FALSE
    /\ UNCHANGED <<config, disk, registry, instances, requests, dispatches, edits>>

IsOpen(resource) == \E i \in DOMAIN deferred : deferred[i] = resource

\* Goroutines run as long as the process does, before app.Listen and while
\* main closes things too.
Running == phase # "exited"

-----------------------------------------------------------------------------
\* Requests, jobs and messages

Edit(dir) ==
    /\ edits < MaxEdits
    /\ phase # "exited"
    /\ dir # disk
    /\ disk' = dir
    /\ edits' = edits + 1
    /\ UNCHANGED <<config, phase, deferred, accepting, registry, instances, requests, dispatches>>

\* A client connects, and sends part of a request.
Connect(r) ==
    /\ accepting
    /\ stage[r] = "none"
    /\ stage' = [stage EXCEPT ![r] = "sending"]
    /\ UNCHANGED <<config, phase, deferred, accepting, disk, registry, instances, kind,
                   wants, dispatches, edits>>

\* It sends the rest, also while app.Shutdown waits for it. A request to start an
\* instance is "open" when it comes by a webhook.
Receive(r, k, s, w) ==
    /\ Running
    /\ stage[r] = "sending"
    /\ kind' = [kind EXCEPT ![r] = k]
    /\ stage' = [stage EXCEPT ![r] = s]
    /\ wants' = [wants EXCEPT ![r] = w]
    /\ UNCHANGED <<config, phase, deferred, accepting, disk, registry, instances, dispatches, edits>>

Handles(r, k, s) == Running /\ kind[r] = k /\ stage[r] = s

\* What a workflow's file says of notifications, or Missing.
NotificationsIn(defs, name) ==
    IF \E def \in defs : def.name = name
      THEN (CHOOSE def \in defs : def.name = name).notifications
      ELSE Missing

ReloadWorkflows(r) ==
    /\ Handles(r, "reload", "open")
    /\ IF Loads(disk)
         THEN /\ registry' = Parsed(disk)
              /\ versions' = [d \in Dispatches |->
                    IF at[d] = "none" THEN {}
                    ELSE versions[d] \union {NotificationsIn(Parsed(disk), event[d].workflow)}]
         ELSE UNCHANGED <<registry, versions>>
    /\ stage' = [stage EXCEPT ![r] = "done"]
    /\ UNCHANGED <<config, phase, deferred, accepting, disk, instances, kind, wants,
                   event, at, to, sent, edits>>

\* WebhookStart looks the workflow up for its triggers, StartInstance again.
WebhookStart(r) ==
    /\ Handles(r, "start", "open")
    /\ stage' = [stage EXCEPT ![r] =
          IF \E def \in registry : def.name \in wants[r] /\ HasTriggerType(def, "webhook")
            THEN "checked" ELSE "done"]
    /\ UNCHANGED <<config, phase, deferred, accepting, disk, registry, instances, kind,
                   wants, dispatches, edits>>

\* The common part of POST .../webhook and POST .../instances.
StartInstance(r) ==
    /\ Handles(r, "start", "checked")
    /\ IF \E def \in registry : def.name \in wants[r]
         THEN instances' = instances \union wants[r]
         ELSE UNCHANGED instances
    /\ stage' = [stage EXCEPT ![r] = "done"]
    /\ UNCHANGED <<config, phase, deferred, accepting, disk, registry, kind, wants,
                   dispatches, edits>>

\* The first step runs as part of StartInstance, and publishes what it has.
PublishesAtOnce(def) ==
    \E s \in Steps :
        /\ def.steps[s].publish
        /\ def.steps[s].dependsOn = {}
        /\ \/ def.steps[s].trigger = "auto" /\ def.steps[s].input
           \/ def.steps[s].trigger = "http"

\* The producer's Publish has context.Background(): no time ends it.
StartHangs(r) ==
    /\ Handles(r, "start", "checked")
    /\ QueueEnabled
    /\ \E def \in registry : def.name \in wants[r] /\ PublishesAtOnce(def)
    /\ instances' = instances \union wants[r]
    /\ stage' = [stage EXCEPT ![r] = "hung"]
    /\ UNCHANGED <<config, phase, deferred, accepting, disk, registry, kind, wants,
                   dispatches, edits>>

\* main has synced the schedulers; their Stop does not wait for jobs and
\* callbacks that are under way.
Synced == phase \in {"serve", "serving", "closing", "returning"}

\* A cron job or a message starts an instance, without a request.
StartByTrigger(def) ==
    /\ Synced
    /\ \/ HasTriggerType(def, "cron")
       \/ QueueEnabled /\ HasTriggerType(def, "queueti")
    /\ IsOpen("database")
    /\ instances' = instances \union {def.name}
    /\ UNCHANGED <<config, phase, deferred, accepting, disk, registry, requests,
                   dispatches, edits>>

\* A statement fails before the instance is inserted, for instance because
\* app.Shutdown has cancelled the context of the request.
StartFails(r) ==
    /\ Handles(r, "start", "checked")
    /\ stage' = [stage EXCEPT ![r] = "done"]
    /\ UNCHANGED <<config, phase, deferred, accepting, disk, registry, instances, kind,
                   wants, dispatches, edits>>

\* TestNotification: one recipient after the other, mail first, whether or not
\* the one before was reached.
Untested(r) == {rcp \in wants[r] : Reached(rcp)}

NextTested(r, rcp) ==
    /\ Handles(r, "test", "open")
    /\ rcp \in Untested(r)
    /\ rcp \in PhoneNumbers => Untested(r) \subseteq PhoneNumbers

TestDelivery(r, rcp) ==
    /\ NextTested(r, rcp)
    /\ wants' = [wants EXCEPT ![r] = @ \ {rcp}]
    /\ UNCHANGED <<config, phase, deferred, accepting, disk, registry, instances, kind,
                   stage, dispatches, edits>>

TestHangs(r, rcp) ==
    /\ NextTested(r, rcp)
    /\ MayHang(rcp)
    /\ stage' = [stage EXCEPT ![r] = "hung"]
    /\ UNCHANGED <<config, phase, deferred, accepting, disk, registry, instances, kind,
                   wants, dispatches, edits>>

TestNotification(r) ==
    /\ Handles(r, "test", "open")
    /\ Untested(r) = {}
    /\ stage' = [stage EXCEPT ![r] = "done"]
    /\ UNCHANGED <<config, phase, deferred, accepting, disk, registry, instances, kind,
                   wants, dispatches, edits>>

\* Events ends when it writes to a client that has gone; a request that is not
\* sent to its end, with its connection, for which the server sets no timeout.
ClientLeaves(r) ==
    /\ Running
    /\ \/ kind[r] = "stream" /\ stage[r] = "open"
       \/ stage[r] = "sending"
    /\ stage' = [stage EXCEPT ![r] = "done"]
    /\ UNCHANGED <<config, phase, deferred, accepting, disk, registry, instances, kind,
                   wants, dispatches, edits>>

-----------------------------------------------------------------------------
\* dispatchNotification

Raise(d, type, name) ==
    /\ Running
    /\ at[d] = "none"
    /\ name \in instances
    /\ IsOpen("database")
    /\ event' = [event EXCEPT ![d] = [type |-> type, workflow |-> name]]
    /\ at' = [at EXCEPT ![d] = "instance"]
    /\ versions' = [versions EXCEPT ![d] = {NotificationsIn(registry, name)}]
    /\ UNCHANGED <<config, phase, deferred, accepting, disk, registry, instances,
                   requests, to, sent, edits>>

\* A goroutine runs until main returns.
Runs(d, s) == Running /\ at[d] = s

GetInstance(d) ==
    /\ Runs(d, "instance")
    /\ IsOpen("database")
    /\ at' = [at EXCEPT ![d] = "definition"]
    /\ UNCHANGED <<config, phase, deferred, accepting, disk, registry, instances,
                   requests, event, to, sent, versions, edits>>

GetInstanceFails(d) ==
    /\ Runs(d, "instance")
    /\ at' = [at EXCEPT ![d] = "done"]
    /\ UNCHANGED <<config, phase, deferred, accepting, disk, registry, instances,
                   requests, event, to, sent, versions, edits>>

Subscribes(notifications, type) ==
    notifications # Missing /\ notifications.on \intersect {"*", type} # {}

\* The definition is what the registry holds by now.
GetDefinition(d) ==
    /\ Runs(d, "definition")
    /\ LET found == NotificationsIn(registry, event[d].workflow) IN
        IF Subscribes(found, event[d].type)
          THEN /\ to' = [to EXCEPT ![d] = found]
               /\ at' = [at EXCEPT ![d] = "email"]
          ELSE /\ at' = [at EXCEPT ![d] = "done"]
               /\ UNCHANGED to
    /\ UNCHANGED <<config, phase, deferred, accepting, disk, registry, instances,
                   requests, event, sent, versions, edits>>

\* Slip: the lists are looked up where they are needed.
ConfigNow(d) ==
    LET found == NotificationsIn(registry, event[d].workflow)
    IN  IF found = Missing THEN to[d] ELSE found

ConfigOf(d) == to[d]

\* Notify starts one goroutine per recipient, if the channel has a sender.
Spawned(d, recipients) ==
    sent' = [sent EXCEPT ![d] =
        [r \in Recipients |-> IF r \in recipients /\ Reached(r) THEN "sending" ELSE @[r]]]

NotifyEmail(d) ==
    /\ Runs(d, "email")
    /\ Spawned(d, ConfigOf(d).email)
    /\ at' = [at EXCEPT ![d] = "sms"]
    /\ UNCHANGED <<config, phase, deferred, accepting, disk, registry, instances,
                   requests, event, to, versions, edits>>

NotifySMS(d) ==
    /\ Runs(d, "sms")
    /\ Spawned(d, ConfigOf(d).sms)
    /\ at' = [at EXCEPT ![d] = "wait"]
    /\ UNCHANGED <<config, phase, deferred, accepting, disk, registry, instances,
                   requests, event, to, versions, edits>>

\* Slip: recipients are served one after the other.
NobodyHangs(d) == \A r \in Recipients : sent[d][r] # "hung"

\* What a delivery waits for: nothing, each has a goroutine of its own.
MayDeliver(d) == TRUE

\* A delivery ends well or badly, which is logged and concerns no other.
Deliver(d, r) ==
    /\ Running
    /\ sent[d][r] = "sending"
    /\ MayDeliver(d)
    /\ sent' = [sent EXCEPT ![d][r] = "over"]
    /\ UNCHANGED <<config, phase, deferred, accepting, disk, registry, instances,
                   requests, event, at, to, versions, edits>>

DeliveryHangs(d, r) ==
    /\ Running
    /\ sent[d][r] = "sending"
    /\ MayHang(r)
    /\ sent' = [sent EXCEPT ![d][r] = "hung"]
    /\ UNCHANGED <<config, phase, deferred, accepting, disk, registry, instances,
                   requests, event, at, to, versions, edits>>

\* wg.Wait
NotifyReturns(d) ==
    /\ Runs(d, "wait")
    /\ \A r \in Recipients : sent[d][r] \in {"none", "over"}
    /\ at' = [at EXCEPT ![d] = "done"]
    /\ UNCHANGED <<config, phase, deferred, accepting, disk, registry, instances,
                   requests, event, to, sent, versions, edits>>

-----------------------------------------------------------------------------
\* main, from the signal on

Signal ==
    /\ phase = "serving"
    /\ phase' = "closing"
    /\ accepting' = FALSE
    /\ UNCHANGED <<config, deferred, disk, registry, instances, requests, dispatches, edits>>

\* Its connection is in use.
IsHandled(r) == stage[r] \notin {"none", "done"}

\* Slip: Shutdown returns when the listener is closed.
DrainedAtOnce == TRUE

\* Slip: Shutdown waits for notifications too.
DrainedAndTold ==
    /\ \A r \in Requests : ~IsHandled(r)
    /\ \A d \in Dispatches : at[d] \in {"none", "done"}

\* app.Shutdown returns when no connection is in use, however long that takes.
Drained == \A r \in Requests : ~IsHandled(r)

Shutdown ==
    /\ phase = "closing"
    /\ Drained
    /\ phase' = "returning"
    /\ UNCHANGED <<config, deferred, accepting, disk, registry, instances, requests,
                   dispatches, edits>>

Close ==
    /\ phase = "returning"
    /\ deferred # << >>
    /\ deferred' = Tail(deferred)
    /\ UNCHANGED <<config, phase, accepting, disk, registry, instances, requests,
                   dispatches, edits>>

Exit ==
    /\ phase = "returning"
    /\ deferred = << >>
    /\ phase' = "exited"
    /\ UNCHANGED <<config, deferred, accepting, disk, registry, instances, requests,
                   dispatches, edits>>

-----------------------------------------------------------------------------
ReceiveAny(r) ==
    \/ Receive(r, "reload", "open", {})
    \/ Receive(r, "stream", "open", {})
    \/ \E name \in WorkflowNames, s \in {"open", "checked"} : Receive(r, "start", s, {name})
    \/ \E recipients \in TestLists : Receive(r, "test", "open", recipients)

HandlerStep(r) ==
    \/ ReloadWorkflows(r)
    \/ WebhookStart(r)
    \/ StartInstance(r)
    \/ StartFails(r)
    \/ \E rcp \in Recipients : TestDelivery(r, rcp)
    \/ TestNotification(r)

DispatchStep(d) ==
    \/ GetInstance(d)
    \/ GetInstanceFails(d)
    \/ GetDefinition(d)
    \/ NotifyEmail(d)
    \/ NotifySMS(d)
    \/ NotifyReturns(d)

MainStep == Shutdown \/ Close \/ Exit

Next ==
    \/ StartStep
    \/ \E ok \in BOOLEAN : Serve(ok)
    \/ Die
    \/ \E dir \in Directories : Edit(dir)
    \/ \E def \in registry : StartByTrigger(def)
    \/ \E r \in Requests :
        \/ Connect(r)
        \/ ReceiveAny(r)
        \/ HandlerStep(r)
        \/ StartHangs(r)
        \/ \E rcp \in Recipients : TestHangs(r, rcp)
        \/ ClientLeaves(r)
    \/ \E d \in Dispatches :
        \/ \E type \in EventTypes, name \in WorkflowNames : Raise(d, type, name)
        \/ DispatchStep(d)
        \/ \E r \in Recipients : Deliver(d, r) \/ DeliveryHangs(d, r)
    \/ Signal
    \/ MainStep

Spec == Init /\ [][Next]_vars

\* Goroutines run and their calls return, except for mail and Publish when they
\* hang; clients of event streams need not leave, nor need a client send a request
\* to its end, nor anybody a signal.
FairSpec ==
    /\ Spec
    /\ \A r \in Requests : WF_vars(HandlerStep(r))
    /\ \A d \in Dispatches :
        /\ WF_vars(DispatchStep(d))
        /\ \A r \in Recipients : WF_vars(Deliver(d, r))
    /\ WF_vars(MainStep)

-----------------------------------------------------------------------------
StartPhases == {"config", "database", "migrate", "workflows", "client", "producer",
                "listener", "cron", "consumers", "serve"}
Phases == StartPhases \union {"serving", "closing", "returning", "exited"}
Resources == {"database", "client", "producer", "listener", "cron", "consumers"}

TypeOK ==
    /\ environment \in Environments
    /\ phase \in Phases
    /\ deferred \in Seq(Resources)
    /\ accepting \in BOOLEAN
    /\ disk \in Directories
    /\ registry \subseteq RawType
    /\ instances \subseteq WorkflowNames
    /\ kind \in [Requests -> {"none", "reload", "start", "test", "stream"}]
    /\ stage \in [Requests -> {"none", "sending", "open", "checked", "hung", "done"}]
    /\ wants \in [Requests -> SUBSET (WorkflowNames \union Recipients)]
    /\ \A r \in Requests : kind[r] = "start" => wants[r] \subseteq WorkflowNames
    /\ event \in [Dispatches -> [type : EventTypes, workflow : WorkflowNames] \union {Missing}]
    /\ at \in [Dispatches -> {"none", "instance", "definition", "email", "sms", "wait", "done"}]
    /\ to \in [Dispatches -> NotificationType \union {Missing}]
    /\ sent \in [Dispatches -> [Recipients -> {"none", "sending", "over", "hung"}]]
    /\ versions \in [Dispatches -> SUBSET (NotificationType \union {Missing})]
    /\ edits \in 0 .. MaxEdits

\* What every definition that is served gives to the engine, whatever files it
\* came from and however often they were loaded: rows of known shape, in which a
\* dependency's name and its step_order find the same step (Validate).
ServedFitsEngine == \A def \in registry : FitsEngine(def)

\* Those to whom a version of the workflow's file lets an event be told.
Targets(notifications) ==
    {r \in notifications.email \union notifications.sms : Reached(r)}

Attempted(d) == {r \in Recipients : sent[d][r] # "none"}

\* All who are told of an event are told by one version of the workflow, one
\* that was served at some time since the event and subscribes to it, also if
\* reloads come in between (dispatchNotification takes the definition once), and
\* at the end that version's recipients have all been tried.
OneVersionTold ==
    \A d \in Dispatches : Attempted(d) # {} =>
        \E v \in versions[d] :
            /\ Subscribes(v, event[d].type)
            /\ Attempted(d) \subseteq Targets(v)
            /\ at[d] \in {"wait", "done"} => Attempted(d) = Targets(v)

\* A handler that has begun has the database, the publisher and the listener to
\* its end: nothing is closed under it (the defers run after app.Shutdown).
HandlersKeepResources ==
    \A r \in Requests : (Running /\ IsHandled(r)) =>
        /\ \A resource \in {"database", "listener", "cron"} : IsOpen(resource)
        /\ QueueEnabled => \A resource \in {"client", "producer", "consumers"} : IsOpen(resource)

\* Every event is told to all its recipients but those whose mail hangs, and
\* mail that hangs does not keep the others waiting (Notify's goroutines); only a
\* GetInstance that fails, which ends the dispatch before it has recipients
\* (engine.go:143), and the end of the process cut that short.
EventsAreTold ==
    \A d \in Dispatches :
        (at[d] = "instance") ~>
            \/ at[d] \in {"wait", "done"} /\ \A r \in Recipients : sent[d][r] # "sending"
            \/ phase = "exited"

\* A shutdown ends, whatever goroutines of notifications hang, unless an event
\* stream stays, a client does not send its request to the end, or the mail of a
\* test or a Publish hangs in a handler.
ShutdownEnds ==
    (/\ phase = "closing"
     /\ \A r \in Requests : IsHandled(r) =>
            kind[r] # "stream" /\ stage[r] \notin {"sending", "hung"}) ~>
        (phase = "exited" \/ \E r \in Requests : stage[r] = "hung")

=============================================================================
