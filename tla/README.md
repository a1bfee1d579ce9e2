# queuetask: specifications, model checking and proofs

queuetask runs workflows: a YAML definition is a graph of steps; an instance of
it is a set of rows in PostgreSQL that HTTP handlers, cron jobs and queue-ti
consumers move forward, on one node or on several that share nothing but the
database. This directory holds TLA+ models of the parts where concurrency,
failure and ordering decide whether that works, the TLC runs that check them on
small instances, and proofs (TLAPS) of every safety and refinement property they
check, for all instances.

`PROJECT.json` is the index: components, runs, the source lines each definition
stands for (`map`), the hazards of the code and the properties that look at them.

    tlc -config engine_core.cfg MCEngine        # one run
    tlapm EngineProofs.tla                      # the proofs of one module

## 1. Inventory

| Component | State | Operations | Interacts with |
|---|---|---|---|
| **Engine** `internal/workflow/engine.go` | none of its own; rows of `workflow_instances` and `step_executions` | `StartInstance`, `TriggerStep`, and inside both `advance`: list the rows, end the instance or activate every ready step | called by API, webhooks, cron, instance poller, step poller, http steps (recursively); calls repository, publisher, poller, notifier |
| **Repository** `repository.go` | the database | one SQL statement per method; conditional updates (`ClaimStep`, `ClaimInstanceTerminal`, `TryAcquireCronLock`) are the only synchronization between nodes | engine, cron, pages |
| **Definitions** `definition.go` | none | parse, validate | registry, engine |
| **Registry** `registry.go` | map of definitions under a lock | `Load`, `Get`, `All`, reload hook | API reload, builder save, engine, schedulers |
| **Builder save** `internal/ui/ui.go` | `saveMu`, the files | write a draft, load, put the old file back on failure | registry |
| **Cron scheduler** `cron.go` | entry ids, jobs | `Sync`, the job of a firing | registry hook, repository (`cron_locks`), engine |
| **Instance poller** `instance_poller.go` | `active`: cancel functions by `workflow:topic` | `Sync`, `run`, the callback | registry hook, queue-ti, engine |
| **Step poller** `poller.go` | `active`: cancel functions by instance and step | `Watch`, the callback | engine, queue-ti |
| **Live refresh** `PGNotify`, `cmd/server/main.go`, `internal/ui/broadcaster.go`, `Events` | listener, set of client channels | notify, broadcast, event stream | engine, browsers |
| **Lists** `buildRunsGrid`, `Instances`, `ListInstances` | cursor in the page | read a page | repository |
| **Notifier, senders** `internal/notify` | none; a goroutine per event and one per recipient | `dispatchNotification`, `Notify`, `Test` | engine, registry, configuration |
| **Server process** `cmd/server/main.go`, `internal/config`, `internal/db` | configuration, what is open, the deferred closes | start, serve, signal, shutdown | all of the above |
| **API** `internal/api` | none | requests in | registry, engine, notifier |
| **Pages, auth, publisher client** | none that lives | rendering, a token check, one publish | engine, repository |

What is hard here, by component:

* **Engine.** Every call works on a snapshot (`ListSteps`) that other calls
  outrun; check and write of `TriggerStep` are two statements; several calls
  find the same step ready; calls are cut short by errors and crashes between
  any two statements, and nothing resumes them. Correct means: a step is
  activated once and only after its dependencies; the instance ends once, with
  the verdict its steps deserve, and tells it once; nothing that could go on is
  left behind; data flows along the edges unchanged.
* **Registry and save.** Files are read one by one outside the lock while saves
  rename and restore them; hooks run after the lock is released; the process may
  die with a draft in place, or a restore fail. Correct means: the registry is
  valid and free of duplicates at every moment, a rejected draft leaves the disk,
  the schedulers follow, the server can start again.
* **Definitions.** The engine looks steps up by name and takes for granted that
  every name is found and found once. Correct means: whatever file was written,
  what the registry serves is such that it may.
* **Server process.** Resources are opened in one order and closed in the
  reverse while handlers, jobs, consumers and notifications run; nothing waits
  for notifications, and `app.Shutdown` waits without a deadline. Correct means:
  no handler finds a resource closed, and the process ends.
* **Notifier.** A goroutine reads the instance and the registry some time after
  the event, with reloads in between, and mail by SMTP may hang. Correct means:
  one version of the workflow decides who is told, and nobody waits for another
  recipient.
* **Cron.** All nodes fire every boundary; clocks differ, jobs are late, entries
  vanish under a job, locks are pruned. Correct means: one instance per firing.
* **Pollers.** Goroutines outlive what they were started for, messages are
  delivered again, and consumers live in memory only. Correct means: a message
  is acknowledged only when it was used, and used once if nothing fails.
* **Live refresh.** Signals are dropped, merged and lost at four places. Correct
  means: a page that is out of date always has a signal on its way.
* **Lists.** Rows appear and leave between two pages. Correct means: no row is
  shown twice, none that stays is skipped.

The full list, each at its line, is under "hazards" in `PROJECT.json`.

## 2. Modules

| Module | Models | Run by |
|---|---|---|
| `StepGraph` | what the engine reads of a definition and computes from a snapshot: triggers, dependencies, merge of outputs, verdicts | all engine runs |
| `Workflow` | abstract: one instance as an atomic lifecycle, no calls, no snapshots | refined by `Engine` |
| `Engine` | `StartInstance`, `TriggerStep`, `advance`; one action per SQL statement, HTTP request and publish; any number of concurrent calls | `MCEngine` |
| `EngineProperties` | type invariant, safety, action and liveness properties, inductive invariant, refinement mapping | `MCEngine` |
| `EngineProofs` | theorems about `Engine`: types, safety and refinement, what is never left behind, data from outputs to inputs | tlapm |
| `Definition` | a file as it is written, `Validate` with its defaults, what the engine makes of an accepted one | `MCServer` |
| `Server` | the process from `config.Load` to the last `defer`; requests; `dispatchNotification` and `Notify` | `MCServer` |
| `ServerProofs` | theorems about `Definition` and `Server` | tlapm |
| `Reload` | `Registry.Load`, reload handler, `BuilderSave` with its error paths, the hook, death and restart | `MCReload` |
| `ReloadProofs` | theorems about `Reload` | tlapm |
| `AtLeastOnce` | abstract: what a consumer promises of the messages it takes | refined by `InstancePoller` and `StepConsumer` |
| `InstancePoller` | `Sync`, `run` with its deferred delete, the callback | `MCInstancePoller` |
| `InstancePollerProofs` | theorems about `InstancePoller` | tlapm |
| `CronFiring` | `Sync`, the job, `TryAcquireCronLock`, several nodes and clocks | `MCCronFiring` |
| `CronFiringProofs` | theorems about `CronFiring` | tlapm |
| `StepConsumer` | `Watch`, the consumer of a waiting step, restarts | `MCStepConsumer` |
| `StepConsumerProofs` | theorems about `StepConsumer` | tlapm |
| `LiveRefresh` | from `PGNotify` to the browser's fetch | `MCLiveRefresh` |
| `LiveRefreshProofs` | theorems about `LiveRefresh` | tlapm |
| `RunPages` | keyset pagination of `ListInstances` by its two callers | `MCRunPages` |
| `RunPagesProofs` | theorems about `RunPages` | tlapm |

Composition: `Engine` uses `StepGraph`, and `EngineProperties` instantiates
`Workflow` with a refinement mapping. `Server` contains `Definition`, which maps
what passed `Validate` to the `StepGraph` of the engine (`AsGraph`). `InstancePoller`
and `StepConsumer` instantiate `AtLeastOnce` with a refinement mapping each. The other modules meet the engine at one
call each and contain that call as far as it matters to them: `StepConsumer` has
the check and the write of `TriggerStep` as two steps, `InstancePoller` and
`CronFiring` have `StartInstance` as one that may fail after it inserted the
instance, `Server` has `Registry.Load` as one step, whose parts are `Reload`,
and `LiveRefresh` has "a row changed, its NOTIFY follows". That these are
right is what `Engine` shows (`ChangesSignalled` for the last one).

**Definitions marked "Slip:"** are no part of any specification. Each is what the
definition below it would be after a plausible mistake in the code (a dropped
guard, a forgotten cleanup, another key); `PROJECT.json` lists under "mutants"
which property such a mistake breaks. They show that the properties can fail.

### Engine: how state and actions correspond

The variables are the columns the engine reads and writes (`inst`, `status`,
`input`, `output`), what has left it (`requests`, `published`, `watching`,
`stepNotices`, `endNotices`, `unsignalled`) and, for every call ("worker"), where
it is (`pc`), the step and document it carries and the snapshot it holds.
`def` is the definition; CreateSteps copies it into the rows, so a reload does
not reach a running instance and `def` never changes.

| Code | Actions |
|---|---|
| `StartInstance`, `CreateInstance`, `CreateSteps` | `StartInstance`, `CreateStep` per row |
| `TriggerStep`: read and check, then `completeStep` | `TriggerStep`, `CompleteStep`, `Publish` |
| `advance`: `ListSteps` | `ListSteps` |
| `tryTerminateInstance`, `ClaimInstanceTerminal`, dispatch | `ClaimInstanceTerminal`, `DispatchEnd` |
| the loop over the rows | `AtStep`, `Claim`, `ClaimLost`, `ScanDone` |
| `claimAndDo` by trigger type | `ClaimManual`, `ClaimQueueTi`, `ClaimAuto`, `ClaimHTTP`, `DispatchWaiting`, `Watch` |
| http step: request, failure | `HTTPCall`, `FailStep` |
| `notifyStateChange` at the end of a call | `NotifyStateChange` |
| an error return, a crash, a lost answer | `Crash`, `AdvanceError` |

`advance` calls itself after an auto or http step; the model returns to
`ListSteps` instead and drops the older snapshot, because a claim that was won
makes the outer loop return after the recursive call (`ClaimAuto`). One instance is enough, since instances do not
read each other's rows. The poller is taken to be configured (without queue-ti
`Watch` is not called and a queueti step is only answered through the API).

### Server: how state and actions correspond

`phase` is the statement main is at, `deferred` its stack of defers, `registry`
the map of definitions, `disk` the workflow directory; `stage` is where the
handler of a request is, `at` where a goroutine of `dispatchNotification` is and
`sent` how each delivery went. `versions` is recorded for the properties only:
what the workflow's file said of notifications since the event.

| Code | Actions |
|---|---|
| `config.Load`, `db.Open`, `db.Migrate`, `registry.Load` | `LoadConfig`, `OpenDatabase`, `Migrate`, `LoadWorkflows`; what fails ends in `Die` (`os.Exit`) |
| `DialClient`, `NewQueueTiProducer`, `pq.NewListener`, `cronScheduler.Start`, `syncSchedulers` | `DialClient`, `NewProducer`, `ListenDatabase`, `StartCron`, `StartConsumers`, each with its `defer` |
| `app.Listen` in its goroutine | `Serve` |
| routes | `Connect`, `Receive`, `ReloadWorkflows`, `WebhookStart` then `StartInstance` (two lookups), `StartFails`, `StartHangs`, `TestNotification` with a `TestDelivery` per recipient, `ClientLeaves` for an event stream or a half-sent request |
| cron jobs and consumers | `StartByTrigger` |
| `dispatchNotification` | `Raise`, `GetInstance`, `GetInstanceFails`, `GetDefinition` |
| `Notify` | `NotifyEmail`, `NotifySMS`, `Deliver` or `DeliveryHangs` per recipient, `NotifyReturns` (`wg.Wait`) |
| the signal and after | `Signal`, `Shutdown`, `Close` per defer, `Exit` |

## 3. Runs

| Run | What it asks | States |
|---|---|---|
| `engine_core` | two concurrent calls, four-step graphs, overlapping answers, no call cut short: `InputIsMergedOutputs`, `PublishedIsOutput`, `CompletedStepsFrozen`, and under fairness `Terminates`, `FailureReported` | 271 000 |
| `engine_faults` | three calls, three-step graphs (one with a cycle), overlapping answers, two calls cut short anywhere: `TerminalTruthful`, `DepsBeforeStep`, `ExecutedOnce`, `EndNoticeOnce`, `CyclesNeverRun`, `NothingStranded`, `RunningMeansWaiting`, `ChangesSignalled`, `NothingPassedOver`, `FailureHalts`, refinement of `Workflow` (`Implements`) | 540 000 |
| `engine_overlap` | *violated*: `OnlyWaitingStepsTriggered` | |
| `reload` | one reload, two saves, an edit, two faults (a read, a write, the process), interleaved at every file: `RegistryWellFormed`, `RejectedNeverPersists`, `SchedulersFollow`, `StartsAgain` | 2 486 000 |
| `server` | one life of the process under three configurations, two requests, one event, one edit: `ServedFitsEngine`, `OneVersionTold`, `HandlersKeepResources`, `EventsAreTold`, `ShutdownEnds` | 527 000 |
| `instances` | two triggers, two groups, four reloads at any time, one fault: `NoOrphans`, `StartedOnce`, refinement of `AtLeastOnce` (`DeliversAtLeastOnce`), `MessagesUsed` | 237 000 |
| `instances_reload` | *violated*: `Reconciled` | |
| `cron` | two nodes, clocks one boundary apart, lists of one and of two triggers, one Sync, one fault: `OncePerFiring`, `FiringsUsed` | 3 803 000 |
| `consumer` | two steps in one group, two messages, two nodes, two faults: `AckedMeansAnswered`, `OneStepPerMessage`, `AnsweredOnce`, refinement of `AtLeastOnce` (`DeliversAtLeastOnce`), `MessagesReachWaiters` | 38 000 |
| `consumer_restart` | *violated*: `CompletesOnMessage` | |
| `refresh` | three pages, two nodes, two changes, two losses: `StaleIsSignalled`, `PagesCatchUp` | 907 000 |
| `runs_pages` | eight rows with equal times, pages of two: `PagesInOrder`, `NothingSkipped` | 10 000 |

Every module but the abstract ones has a type invariant `TypeOK`, with what its variables have to do
with each other.

### Bounds, and why they are enough

The theorems of section 5 hold without these bounds, for every safety, action and
refinement property below; for those the runs are what finds a wrong formula, or a
wrong model, before anybody tries to prove it. For the liveness properties, and for the
disagreements of section 4, the bounds are what the result rests on.

* *Engine.* Races of `advance` are between the call that completes a dependency
  and others that complete another one, fail a step, or scan with an older
  snapshot: three calls and a join, a fork, a diamond, two rungs of a ladder, a
  chain of calls out and failing steps beside others put all of them within
  reach (see the comments on the graphs in `MCEngine`). Calls may follow one
  another without limit. `MaxFaults = 2` lets a second call be cut short after
  the first.
* *Reload.* Two files suffice for a mix of versions and for a duplicate name;
  two saves of the same file and an edit for a restore of the wrong content. An
  edit breaks a file or mends it, and a read that fails breaks it for one load. Two
  faults let a save that could not read its file be cut short as well, or a
  process die over what a failed restore left.
* *Server.* Two versions of a workflow with recipients of their own, one edit
  and one reload are a version that changes under an event; two requests are a
  reload or a start beside a stream or a test that hangs. The configurations
  make queue-ti, mail that hangs and a provider nobody knows happen, a file that
  overrides a default and a variable that overrides a file. Rejected files are
  one of each kind that the engine could not run.
* *InstancePoller.* A trigger removed and added again takes two reloads, a
  second consumer of the same trigger, beside the one out of reach, a fourth; three
  goroutines are what that takes.
* *CronFiring.* A lock of the first boundary is pruned at the third
  (`Day = 1`), with a node one boundary behind. `Day` is at least `Spread`: in
  the code a day against the lateness of a goroutine. `MaxJobs = 3` is the two
  jobs of one node with one of the other, whichever order they take.
* *StepConsumer.* One consumer whose step is over and one whose step waits, in
  one group, are what starvation and double use need.
* *LiveRefresh.* A channel takes one signal, so a second change is a burst; two
  losses are a listener and a stream, or one of them twice.
* *RunPages.* Five rows are there from the start, on three pages, with equal
  times across a page boundary; three are inserted (newest, between, in the
  past), three end. `MaxPages` exceeds the pages there can be.

### Fairness, and why the code justifies it

* Engine: weak fairness of every call's next step (goroutines run, statements
  return, the HTTP client has a timeout). `Terminates` also assumes that somebody
  starts the instance and keeps answering each waiting step: that is the
  environment, and said in `Started` and `Answered`.
* InstancePoller: weak fairness of each consumer's callback and exit, and of
  delivery to it.
* StepConsumer: weak fairness of callbacks, and *strong* fairness of delivery to
  each stream. Consumers of completed steps stay connected (nothing stops them)
  and take messages only to reject them; with weak fairness they could win every
  time. So that a waiting step gets its message rests on queue-ti offering
  rejected messages to all streams of a group again and again.
* Server: weak fairness of handlers, of dispatches, of each delivery and of main
  after the signal. It is not assumed that mail by SMTP returns (`MayHang`), nor a
  publish inside a handler (`StartHangs`: the producer has no deadline), that a
  client closes its event stream or sends its request to the end (`Connect`: the
  server has no timeouts), or that anybody sends a signal.
* LiveRefresh: weak fairness of listeners, streams and browsers (lib/pq and
  EventSource connect again).

### Properties that speak of undisturbed runs

Some properties are qualified by what the code cannot promise otherwise. The
qualification is a recorded fact of the behaviour, not a guard, so that nothing is
left out of the run, and the property still speaks of everything else in it (the
exception is `Steady` in CronFiring, a condition on the lists that may be loaded).
History variables, read by properties only:

| Variable | Module | What it records | Properties that except it |
|---|---|---|---|
| `overlapped` | Engine | steps that two calls were answering at once | `InputIsMergedOutputs` (of their dependents), `PublishedIsOutput`, the output in `CompletedStepsFrozen` |
| `overlapped` | StepConsumer | the same | `AnsweredOnce` |
| `overlapped` | Reload | that requests ran at the same time | `SchedulersFollow` |
| `torn` | Reload | files of which a save was cut short, or not restored | `RejectedNeverPersists`, `StartsAgain`, the second part of `SchedulersFollow` |
| `unread`, `lost` | Reload | saves that could not read the file they replace, and files they were rejected for | `RejectedNeverPersists`, `StartsAgain` |
| `unlisted` | Reload | saves whose load did not see every file | `StartsAgain` |
| `raced` | InstancePoller | keys started again before their cancelled consumer had exited | `NoOrphans` |
| `misread` | CronFiring | firings for which a job read a wrong key | `OncePerFiring`, `FiringsUsed` |

What happens to the excepted is in section 4. `NothingStranded`, `RunningMeansWaiting`,
`ChangesSignalled`, `StartedOnce`, `OneStepPerMessage`, `FiringsUsed` and
`MessagesUsed` are stated up to the first fault (`faults = 0`), since nothing in the
code resumes what a fault interrupts; the hazards in `PROJECT.json` say for each
what that leaves out.

## 4. Disagreements between documents and code

Shown by a run:

* **Two triggers of one step** (`engine_overlap`). The check of `TriggerStep` and
  the update of `completeStep` are two statements. The second of two
  simultaneous triggers completes a completed step and replaces its output,
  which successors may have read. engine.go:199-201 and docs/reference/api.md:221
  say it returns an error.
* **Reloads of a trigger** (`instances_reload`). A trigger removed and added again
  before its old consumer has exited: the old one's deferred delete removes the
  new one's entry, and the next Sync starts a second consumer, or cannot cancel
  the first. instance_poller.go:29 says Sync reconciles them.
* **Restart** (`consumer_restart`). Only the call that claimed a step calls
  `Watch`. After a restart no node consumes for steps that wait already;
  docs/guide/how-it-works.md:24 says they complete when a message arrives.

Met while modelling, visible in the models, without a run of their own:

* A statement of `advance` that fails after a completion leaves ready steps
  pending for good (docs/guide/how-it-works.md:9). `AdvanceError` is the action.
* A call with a snapshot older than a failure goes on activating steps
  (docs/reference/notifications.md:16, "halting the instance"). `Workflow` does
  not promise otherwise.
* A definition with a dependency cycle validates and its instances never end
  (README.md:39 and docs/guide/how-it-works.md:5 speak of an acyclic graph);
  `Terminates` says `Acyclic(def)`, and
  `CyclesNeverRun` that such steps never run.
* One invalid file ends a reload (docs/reference/api.md:66 says such workflows are
  skipped); `LoadFails`.
* BuilderSave ignores the error of `os.ReadFile` (ui.go:930): a file that cannot be
  opened counts as absent. When the save is rejected, the restore removes the file
  (ui.go:955), or empties it if only the read failed, although ui.go:951 says "put back
  the original file or remove if it was new". `KeepPrior` has it; without `lost`,
  `RejectedNeverPersists` is violated in the run `reload`.
* `filepath.Glob` ignores the errors of reading the directory (registry.go:33): a load
  that sees some of the files, or none, installs those and answers ok. `Glob` and
  `unlisted` have it; no document says what such a load should do.
* Overlapping loads may call the hook in the other order than they installed
  (cmd/server/main.go:136, "stay in sync"); `SchedulersFollow` says `~overlapped`.
* A reload that changes only a trigger's consumer group keeps the old consumer
  (instance_poller.go:29); `Missing` looks at the key only.
* A reload that begins after a save has renamed its draft, and ends after the
  save was answered with an error because of another file, installs the draft
  that the save took back (ui.go:951, "Restore the previous state"). `Reload` has
  the behaviour; `RejectedNeverPersists` speaks of the disk only.
* smtp.go:36-38 says callers should rely on the engine's 30-second timeout, since
  smtp.SendMail takes no context; but that timeout ends nothing while `wg.Wait`
  waits for the mail, nor does a test request have one. `MayHang`, `TestHangs`.
  Likewise a publish has no deadline (publisher/queueti.go:55): `StartHangs`.
* A test for a channel without a sender is answered 204 like a delivery
  (docs/reference/notifications.md:157 says so of a server without notifications);
  `Untested` leaves such recipients out.
* While two nodes have lists with the same triggers in another order (an edit of
  the file, before the second node reloads), the key of one trigger is that of
  another: a firing is started twice, another one not at all (cron.go:63-65, "all
  nodes derive an identical dedup key"). `Steady` takes such `Lists` out.
* A cron job whose entry a Sync has removed takes the zero time as its key
  (cron.go:63-65 says all nodes derive the same key); `EntryPrev` and `misread`.

## 5. Proofs

Every theorem holds for all values of the constants that satisfy the named
assumptions, beyond the bounds of any run.

| Module | Theorem | States |
|---|---|---|
| `EngineProofs` | `TypeCorrect`, `Invariance` | `[]TypeOK`, `[]IInv` |
| | `EndsTruthfully` | `[]TerminalTruthful`: completed only if all steps are, failed only if one is |
| | `DependenciesFirst` | `[]DepsBeforeStep` |
| | `ExecutesOnce` | `[]ExecutedOnce`: one request per http step, one notice per manual step |
| | `EndAnnouncedOnce` | `[]EndNoticeOnce` |
| | `Refinement` | `Implements`: the concurrent statements implement `Workflow` |
| | `NothingIsStranded` | `[]NothingStranded`: without faults a step whose dependencies are completed has a call that will look at it |
| | `RunningIsWaiting` | `[]RunningMeansWaiting`: an unfinished instance without calls waits for answers |
| | `ChangesAreSignalled` | `[]ChangesSignalled` |
| | `NothingIsPassedOver` | `NothingPassedOver` (action property) |
| | `FailuresHalt` | `FailureHalts` (action property) |
| | `KnotsNeverRun` | `[]CyclesNeverRun` |
| | `InputsAreMerged` | `[]InputIsMergedOutputs` |
| | `OutputsArePublished` | `[]PublishedIsOutput` |
| | `CompletedIsFrozen` | `CompletedStepsFrozen` (action property) |
| `ServerProofs` | `AcceptedFitsEngine` | whatever file `Validate` accepts has the shape the engine relies on (no run needed: it is about all texts) |
| | `ServerTypes`, `ServerInvariant` | `[]TypeOK`, `[]SInv` |
| | `ServedFits` | `[]ServedFitsEngine` |
| | `OneVersion` | `[]OneVersionTold` |
| | `NothingClosedEarly` | `[]HandlersKeepResources` |
| `ReloadProofs` | `TypeCorrect`, `Invariance` | `[]TypeOK`, `[]LInv` |
| | `RegistryIsWellFormed` | `[]RegistryWellFormed` |
| | `RejectedDraftsGo` | `[]RejectedNeverPersists` |
| | `SchedulersAreInStep` | `[]SchedulersFollow` |
| | `ServerStartsAgain` | `[]StartsAgain` |
| `CronFiringProofs` | `TypeCorrect`, `Invariance` | `[]TypeOK`, `[]FInv` |
| | `FiresOnce` | `[]OncePerFiring` |
| | `FiringsAreUsed` | `[]FiringsUsed` |
| `InstancePollerProofs` | `TypeCorrect`, `Invariance` | `[]TypeOK`, `[]QInv` |
| | `NothingIsOrphaned`, `ConsumersAreAlone` | `[]NoOrphans`, `[]OneConsumerPerTrigger` |
| | `AcksAreStarts`, `StartsOnce` | `[]AckedMeansStarted`, `[]StartedOnce` |
| | `Refinement` | `DeliversAtLeastOnce`: the consumers implement `AtLeastOnce` |
| `StepConsumerProofs` | `TypeCorrect`, `Invariance` | `[]TypeOK`, `[]CInv` |
| | `AcksAreAnswers`, `AnswersOnce`, `MessagesAnswerOneStep` | `[]AckedMeansAnswered`, `[]AnsweredOnce`, `[]OneStepPerMessage` |
| | `Refinement` | `DeliversAtLeastOnce`: the consumers implement `AtLeastOnce` |
| `LiveRefreshProofs` | `TypeCorrect`, `NoSignalIsLost` | `[]TypeOK`, `[]StaleIsSignalled` |
| `RunPagesProofs` | `TypeCorrect`, `Invariance` | `[]TypeOK`, `[]RInv` |
| | `PagesAreInOrder`, `NoRowIsSkipped` | `[]PagesInOrder`, `[]NothingSkipped` |

Assumptions: those on the constants in `StepGraph` and `Engine` (`NumSteps` is a
number; definitions have the shape Validate enforces, which `AcceptedFitsEngine`
proves of `Definition`; `NoStep` is no step), and in the other modules the kinds
of the constants (which are sets, numbers, finite, which value stands for none).
Nothing is assumed about acyclicity, and the number of faults, reloads, saves, edits,
losses and pages may be any. Conditions that the code does not guarantee are
in the properties, where a reader of the property sees them, as recorded facts of
the behaviour (the table under "Properties that speak of undisturbed runs"). The one
exception is `Steady` (CronFiring), a condition on the lists that are loaded.

### Safety of the engine

None of the first four safety properties is inductive: each speaks of the rows,
and a call writes them according to a snapshot that may be old. `IInv`
says what a call may rely on at each of its labels while all others write:

* `SnapshotsSound`: what a snapshot shows as completed or failed still is. This
  carries everything else: dependencies found completed in it stay completed
  (`DepsBeforeStep`), a verdict taken from it stays right (`VerdictsSound`, hence
  `TerminalTruthful`). It holds because no statement leaves an end status, for
  which a late `CompleteStep` must not hit a failed step: `StatusFitsTrigger`
  (only http steps fail) and `ExecutorsOwn` (an http or auto step in execution
  belongs to one call; a call that answers a waiting step finds it waiting or
  completed).
* `RowsFirst`: no call lists rows before all are inserted; otherwise "all rows
  completed" would be said of some of them.
* `EffectsDue`: the request or notice of a step is due exactly while the one call
  that claimed it has not sent it (hence `ExecutedOnce`); `VerdictsSound` says the
  same of the call that ended the instance (hence `EndNoticeOnce`).

The proofs first classify who writes what (`StatusMoves`, `SnapshotMoves`,
`InstanceMoves`: one case per action, once), then keep each part of `IInv` by a
lemma over those few kinds of moves. `Refinement` maps absent rows to pending
ones and reuses the same classification.

### Progress of the engine

That nothing is left behind is, as an invariant, "somebody acts": `SomebodyActs`
names for everything that is still to be done a call that will do it (insert the
rows, execute a claimed step, activate a ready one, end the instance, announce
the end, signal the change), by the label at which that call is. `PInv` says it
while `faults = 0`, since a call that is cut short leaves its work for good. The
difficult part is `ActivatingKept`: the call that completes the last dependency
has yet to list the rows, and any call whose snapshot already shows the step ready
either claims it, loses it to another one, or is a call that ends the instance.
`NothingIsPassedOver` adds that what a loop has gone past is taken
(`PassedIsTaken`), and `KnotsNeverRun` that in a set of steps each of which waits
for another one of the set, the first to leave `pending` would have to come
after one that did.

### Data of the engine

`OInv` speaks of each step that no two calls were answering at once (`overlapped`,
which `TriggerStep` records): the call which completes it has it to itself until it
is published (`AnsweredAlone`, `PublishedAlone`), and every snapshot shows the output
it holds now (`SnapshotsCurrent`). Steps whose answers did overlap may stand anywhere
else in the same graph: the parts are stated per step, and the input of a step needs
them of its dependencies only. That a completed step stays completed and keeps its
input needs no condition (`IInv` has it). `engine_overlap` is why the rest does.

### Server

`AcceptedFitsEngine` is about `Validate` alone: names that are unique, and
dependencies that are names, make a search by name the same as one by
step_order. `SInv` carries it to every registry there ever is (`RegistrySound`),
says which resources each phase has opened (`OpenedInOrder`) and that no handler runs
outside the phases before the first close (`HandledInTime`; a connection counts from
its first byte, as `app.Shutdown` waits for it from then on), and ties a dispatch to
the version it read (`DispatchSound`).

### Registry and save

`LInv` follows a text from the disk through a load to the registry and from there
to the schedulers.

* `LoadsWellFormed`: what a load has parsed so far is valid and free of duplicates,
  so it does not matter that the files change under it (`RegistryWellFormed`).
* `FilesAccepted`, `PriorAccepted`, `DraftOrAccepted`: a file holds what was accepted
  for it unless a save is at work on it, and then what that save would put back was
  accepted. `saveMu` is what makes this inductive (`SaverIsAlone`): with two
  savers of one file, `prior` of the second would be the draft of the first. A save
  that could not read its file (`unread`) has nothing or an empty text instead
  (`Blank`), which reaches the disk only in files of `lost`.
* `UntilLoaded`, while nobody has edited and no save's load missed a file: the directory
  as the save found it loads.
  So does the one it leaves, either because it was put back or because the load read
  all of it (hence `StartsAgain`).
* `OneAtATime`, `InStep`, `ReadsAccepted`, while no two requests overlapped: the
  schedulers differ from the registry only inside the hook, by what the load
  under way has installed (hence `SchedulersFollow`).

The first attempt failed for a good reason: a restore that fails can leave a file
empty, and the next save then takes the empty text as what it has to put back. The
type of `prior` had not allowed for it; now it does.

### Cron

A firing is the pair of a schedule and a boundary; its lock is the pair of an index
and a boundary. Under `Steady` the two are the same (`IndexIsSchedule`: if the lists
name a trigger by the same index, an index and a schedule determine each other),
unless a job misread its entry. `FInv` then says that a firing somebody took
has its lock or is more than `Day` old (`TakenIsLocked`), that a job asks
for a lock at most `Spread` after its boundary (`InTime`), and so, as `Spread` is
at most `Day`, that whoever finds no lock finds a firing nobody took
(`LockFreeIsUntaken`). `LockedIsTaken` is the converse without faults: a job that
gives way to a lock gives way to one that starts the instance (`FiringsUsed`).

### Pollers

Both `CInv` and `QInv` say where each message is (`HeldByOne`: in the queue, in one
callback, or acknowledged) and that a message used without faults is acknowledged or
about to be (`WrittenIsUsed`, `StartedIsAcked`). What differs is what else
may happen meanwhile:

* *Steps.* The check and the write of `TriggerStep` are apart. `WritesAlone` says that a
  call which is between them, alone, finds the step still waiting; together with
  `AnswersComplete` (an answer and the status are one statement) its answer is the
  first (`AnsweredOnce`).
* *Triggers.* `CancelledIsDeregistered`: the deferred delete of a cancelled consumer
  finds nothing to delete, unless a Sync has started its key again by then (`raced`,
  which `Sync` records). For such keys it is false, and `instances_reload` shows what
  follows; for all others it makes `NoOrphans` inductive, however Syncs and exits
  interleave. `SyncMoves` says once what a Sync does to whom, and everything else
  rests on it.

Both then implement `AtLeastOnce`, each step by step. The abstract queue adds what
neither set of invariants says: that no message gets lost between the places it can
be in, and that only the callback which used a message acknowledges it. The
proof needs that no message is the value that stands for none (`None`), now an
assumption of `InstancePoller` as it was one of `StepConsumer`.
`OneConsumerPerTrigger` and `AckedMeansStarted` are theorems only: the first follows
from `NoOrphans`, the second from the refinement, which the run checks.

### Live refresh

`TypeOK /\ StaleIsSignalled` is inductive as it stands: each step that takes a
signal away passes it on, or leaves the client to fetch when it connects again.

### Lists

`RInv`: the cursor is the last row shown (`CursorBehind`), pages that are not the
last are full (`FullSoFar`), and what is left comes behind the cursor
(`LeftToShow`). The work is in the lemmas about the query: `Before` is a strict total
order (`BeforeIsOrder`), a finite set of rows has a first and a last one
(`HasFirst`, `HasLast`, by well-foundedness of strict inclusion), the rows with
fewer than `n` before them are `n` rows or all (`TopIsFirst`), and so a page of
`LIMIT n + 1` cut to `n` is the first `n` candidates and says rightly whether there are
more (`PageIsFirst`).

### Only model-checked

Liveness under fairness, which is outside what the prover handles: `Terminates`,
`FailureReported`, `MessagesUsed`, `MessagesReachWaiters`, `PagesCatchUp`,
`EventsAreTold`, `ShutdownEnds`. Every other property of a passing run is a
theorem.

## 6. Not modelled, and why

* *Senders, publisher client, queue-ti client*: how a mail, a message or a request
  is put together. `Server` has their outcomes: delivered, failed, hanging.
* *Authentication*: a comparison of a token per request; it keeps no state.
* *Templates, Mermaid text, form parsing, YAML*: rendering and recognition. A form
  or a file is its text in `Reload` and a record of what Validate looks at in
  `Definition`.
* *Migrations, database connection*: `Server` has that they succeed or end the
  process; the statements inside are a library's.
* *`UpdateInstanceStatus`, `Poller.Stop`*: no callers. *`InstancePoller.Stop`,
  `CronScheduler.Stop`*: one close each in `Server`.
* *A failing NOTIFY* (no page would be sure to catch up, and nothing says it
  should), *malformed cursors* (the list starts again), *a failing `app.Listen`*
  (logged; the process stays without a port until the signal).
* *Without queue-ti* the engine has no poller (engine.go:313): in `Server` as a
  configuration, while `Engine` has the poller.
* *A start that does not see every workflow file* (`Restart` in `Reload`,
  `LoadWorkflows` in `Server`): it would serve fewer definitions until the next load,
  as a load of `Reload` does.
* *A second server process on the same workflow directory*: nothing in the code
  coordinates them, `saveMu` least of all. Nodes of `CronFiring`, `StepConsumer` and
  `LiveRefresh` share the database only.
* *External systems* are modelled from how the code uses them: robfig/cron
  (`Boundary`, `EntryPrev`), queue-ti (at-least-once delivery to one consumer of a
  group at a time), PostgreSQL (a statement is atomic; READ COMMITTED), lib/pq
  and EventSource (connect again), fiber's shutdown (waits for
  connections in use).

## 7. Plan

Done: the engine with its proofs first, since every other part exists to call
it; then the parts that lose or duplicate work (pollers, cron), the registry,
the pages; then validation and the server process around them, with proofs.

Then proofs for every component, and `AtLeastOnce`, which both pollers implement.

Next:

1. *The modules seen together.* `StepConsumer` has `TriggerStep` as a check and a
   write, `Server` has `Registry.Load` as one step, `InstancePoller` and `CronFiring`
   have `StartInstance` as one. That `Engine` and `Reload` implement exactly these is
   said in the text only; an abstract specification of each, implemented by one side
   and used by the other, would make it a theorem.
2. *An abstract registry* (a set of definitions that changes as a whole), which
   `Reload` implements as long as requests do not overlap.
