--------------------------- MODULE EngineProperties ---------------------------
(***************************************************************************)
(* What Engine.tla must satisfy: the type invariant, the safety, action    *)
(* and liveness properties of one instance under concurrent calls, and the *)
(* refinement of Workflow.tla.                                             *)
(***************************************************************************)
EXTENDS Engine

\* f is a function with domain S; what it returns stays unsaid.
IsFunctionOn(f, S) == f = [x \in S |-> f[x]]

\* Labels at which a call works on the step cur, and at which it holds a snapshot.
AtWork == {"complete", "publish", "http", "fail", "notify", "watch"}
Holding == {"terminate", "ended", "scan", "notify", "watch"}

SnapshotOK(snapshot) ==
    /\ snapshot.status \in [Steps -> RowStatuses]
    /\ IsFunctionOn(snapshot.output, Steps)

TypeOfDatabase ==
    /\ def \in Definitions
    /\ inst \in InstanceStatuses
    /\ status \in [Steps -> RowStatuses]
    /\ IsFunctionOn(input, Steps)
    /\ IsFunctionOn(output, Steps)

TypeOfWorld ==
    /\ requests \in [Steps -> Nat]
    /\ IsFunctionOn(published, Steps)
    /\ watching \subseteq Steps
    /\ stepNotices \in [Steps -> Nat]
    /\ endNotices \in [EndStatuses -> Nat]
    /\ unsignalled \in BOOLEAN
    /\ faults \in 0 .. MaxFaults
    /\ overlapped \subseteq Steps

\* ... and the local state that goes with each label of a call: a step at the
\* labels that work on one, a snapshot of the rows at those that read one.
TypeOfCalls ==
    /\ pc \in [Workers -> PCs]
    /\ call \in [Workers -> {"none", "start", "trigger"}]
    /\ cur \in [Workers -> Steps \union {NoStep}]
    /\ IsFunctionOn(out, Workers)
    /\ IsFunctionOn(snap, Workers)
    /\ pos \in [Workers -> Nat]
    /\ \A w \in Workers :
        /\ pc[w] \in AtWork => cur[w] \in Steps
        /\ pc[w] \in Holding => SnapshotOK(snap[w])

\* The values each variable takes, and what a call holds at each of its labels.
TypeOK == TypeOfDatabase /\ TypeOfWorld /\ TypeOfCalls

-----------------------------------------------------------------------------
\* Safety

Activated(s) == status[s] \notin {"absent", "pending"}
Quiescent == \A w \in Workers : pc[w] = "idle"

\* An instance is marked completed only when every step is, and failed only
\* when some step is, although the verdict comes from a stale snapshot
\* (advance, tryTerminateInstance).
TerminalTruthful ==
    /\ inst = "completed" => \A s \in Steps : status[s] = "completed"
    /\ inst = "failed" => \E s \in Steps : status[s] = "failed"

\* No step is activated before all the steps it depends on have completed,
\* whichever call activates it and however old its snapshot is.
DepsBeforeStep ==
    \A s \in Steps : Activated(s) =>
        \A t \in def.dependsOn[s] : status[t] = "completed"

\* One request at most is sent for an http step, one notification at most is
\* dispatched for a manual one, however many calls find the step ready at
\* once (ClaimStep, claimAndDo).
ExecutedOnce ==
    \A s \in Steps : requests[s] <= 1 /\ stepNotices[s] <= 1

\* At most one notification tells how the instance ended, and it tells the
\* truth: the two kinds exclude each other (ClaimInstanceTerminal).
EndNoticeOnce ==
    /\ endNotices["completed"] + endNotices["failed"] <= 1
    /\ \A e \in EndStatuses : endNotices[e] > 0 => inst = e

\* What a step was activated with is what its dependencies have put out, not
\* what some snapshot of them held (mergeOutputs, static_input): unless two
\* calls were answering one of them at once, which TriggerStep does not exclude.
InputIsMergedOutputs ==
    \A s \in Steps :
        (Activated(s) /\ def.dependsOn[s] \intersect overlapped = {}) =>
            input[s] = StepInput(def, s, output)

\* ... and what was published for a step, once at most, is its stored output
\* (completeStep), unless two calls were answering it at once.
PublishedIsOutput ==
    \A s \in Steps \ overlapped :
        \/ published[s] = << >>
        \/ status[s] = "completed" /\ published[s] = << output[s] >>

\* No call is under way and none was cut short: then no step that could run
\* is left behind. Several calls may have completed the dependencies of a step,
\* each with a snapshot that misses the others; one of them must see them all.
NothingStranded ==
    (Quiescent /\ faults = 0 /\ inst # "absent") =>
        \A s \in Steps :
            /\ status[s] \notin {"absent", "running"}
            /\ status[s] = "pending" /\ inst = "running" =>
                 ~DepsCompleted(def, s, CompletedSet([status |-> status]))
            /\ status[s] = "waiting_queueti" => s \in watching
            /\ status[s] = "waiting_manual" => stepNotices[s] = 1

\* ... and an instance that is still running waits for an answer: the last
\* completion and the first failure both reached the instance.
RunningMeansWaiting ==
    (Quiescent /\ faults = 0 /\ inst = "running" /\ Acyclic(def)) =>
        \E s \in Steps : status[s] \in WaitingStatuses

\* ... and every change of a row was followed by a notifyStateChange, so the
\* pages that show the instance were told to reload after the last one.
ChangesSignalled == (Quiescent /\ faults = 0) => ~unsignalled

\* Steps that wait for each other, which Validate does not look for, are never
\* activated and keep their instance from being completed: no race lets one of
\* them in, and no verdict passes over them (advance, allDone).
CyclesNeverRun ==
    \A C \in SUBSET Steps : Knot(def, C) =>
        /\ inst # "completed"
        /\ \A s \in C : ~Activated(s)

-----------------------------------------------------------------------------
\* Action properties

\* A call whose loop is over has left no step behind that it had found ready,
\* whichever of them other calls took: so it also takes up what a call that
\* was cut short had left (the loop of advance).
Looping == {"scan", "notify", "watch"}

NothingPassedOver ==
    [][\A w \in Workers :
          (pc[w] \in Looping /\ pc'[w] = "signal" /\ faults' = faults) =>
              \A s \in Steps : Ready(w, s) => status'[s] # "pending"]_vars

\* A failed step stops the instance: only the loops that began before it may
\* still activate steps, and once they are over nothing does (the check for a
\* failed step in front of the loop of advance).
Halted ==
    /\ \E s \in Steps : status[s] = "failed"
    /\ \A w \in Workers : pc[w] \notin Looping

FailureHalts ==
    [][Halted =>
          /\ Halted'
          /\ \A s \in Steps : status[s] = "pending" => status'[s] = "pending"]_vars

\* A completed step stays completed and keeps its input, also when a second
\* call that passed the check of TriggerStep completes it again; its output, which
\* its successors may have read, changes in that case only.
CompletedStepsFrozen ==
    [][\A s \in Steps : status[s] = "completed" =>
          /\ status'[s] = "completed"
          /\ input'[s] = input[s]
          /\ s \notin overlapped => output'[s] = output[s]]_vars

\* The instance seen as an atomic lifecycle (Workflow.tla): rows that are not
\* inserted yet count as pending, everything local to calls is hidden.
W == INSTANCE Workflow WITH
        status <- [s \in Steps |-> IF status[s] = "absent" THEN "pending" ELSE status[s]]

\* Every statement of every call maps to a step of that lifecycle or to none,
\* with overlapping answers and with calls cut short as well.
Implements == W!Spec

-----------------------------------------------------------------------------
\* Liveness

\* If every waiting step keeps being answered, an instance of a definition
\* without a cycle ends (advance runs again after every completion).
Terminates ==
    (Acyclic(def) /\ inst = "running") ~> (inst \in EndStatuses)

\* A failed step fails its instance and the failure is told, whether or not
\* anybody answers the steps that still wait.
FailureReported ==
    \A s \in Steps : status[s] = "failed" ~> endNotices["failed"] = 1

-----------------------------------------------------------------------------
\* The inductive invariants behind the safety properties.  IInv: what a call may
\* rely on at each label although everything but its locals changes under it.

ByEngine == {"auto", "http"}
ByOthers == {"manual", "queueti"}

\* All rows are inserted before any is activated and any call lists them; the
\* instance row comes before everything.
RowsFirst ==
    /\ inst = "absent" =>
         /\ \A w \in Workers : pc[w] = "idle"
         /\ \A s \in Steps : status[s] = "absent"
    /\ (\E s \in Steps : status[s] = "absent") =>
         /\ \A w \in Workers : pc[w] \in {"idle", "create"}
         /\ \A s \in Steps : status[s] \in {"absent", "pending"}

\* A snapshot may be old, but what it shows as over is over.
SnapshotsSound ==
    \A w \in Workers : pc[w] \in Holding =>
        \A s \in Steps :
            /\ snap[w].status[s] # "absent"
            /\ snap[w].status[s] \in EndStatuses => status[s] = snap[w].status[s]

\* A step is only ever in the statuses of its trigger type.
StatusFitsTrigger ==
    \A s \in Steps :
        /\ status[s] \in WaitingStatuses => def.trigger[s] \in ByOthers
        /\ status[s] = "running" => def.trigger[s] \in ByEngine
        /\ status[s] = "failed" => def.trigger[s] = "http"

\* A call that executes an auto or http step has it to itself; a call that
\* answers a waiting step may find it answered already.
ExecutorsOwn ==
    \A w \in Workers :
        /\ pc[w] \in {"http", "fail"} => def.trigger[cur[w]] = "http"
        /\ (pc[w] \in {"complete", "http", "fail"} /\ def.trigger[cur[w]] \in ByEngine) =>
             /\ status[cur[w]] = "running"
             /\ \A v \in Workers :
                  (pc[v] \in {"complete", "http", "fail"} /\ cur[v] = cur[w]) => v = w
        /\ (pc[w] = "complete" /\ def.trigger[cur[w]] \in ByOthers) =>
             status[cur[w]] \in WaitingStatuses \union {"completed"}

\* The verdict a call carries to the instance was right when it was taken; the
\* one call that ended the instance still owes the notification.
VerdictsSound ==
    /\ \A w \in Workers :
        /\ pc[w] \in {"terminate", "ended"} => AnyFailed(snap[w]) \/ AllDone(snap[w])
        /\ pc[w] = "ended" =>
             /\ inst = EndStatus(snap[w])
             /\ \A e \in EndStatuses : endNotices[e] = 0
             /\ \A v \in Workers : pc[v] = "ended" => v = w
    /\ inst \notin EndStatuses => \A e \in EndStatuses : endNotices[e] = 0

\* Effects that happen once are still due while the call is about to cause
\* them, and not before the step was claimed.
EffectsDue ==
    /\ \A s \in Steps : ~Activated(s) => requests[s] = 0 /\ stepNotices[s] = 0
    /\ \A w \in Workers :
        /\ pc[w] = "http" => requests[cur[w]] = 0
        /\ pc[w] = "notify" =>
             /\ stepNotices[cur[w]] = 0
             /\ Activated(cur[w])
             /\ \A v \in Workers : (pc[v] = "notify" /\ cur[v] = cur[w]) => v = w

IInv ==
    /\ TypeOK
    /\ RowsFirst
    /\ SnapshotsSound
    /\ StatusFitsTrigger
    /\ ExecutorsOwn
    /\ VerdictsSound
    /\ EffectsDue
    /\ DepsBeforeStep
    /\ TerminalTruthful
    /\ ExecutedOnce
    /\ EndNoticeOnce

\* What holds as long as no call was cut short: whatever has to be done next,
\* some call is about to do it.
WillList == {"create", "complete", "publish", "list", "http", "fail"}

Inserting ==
    (inst # "absent" /\ \E s \in Steps : status[s] = "absent") =>
        \E w \in Workers : pc[w] = "create"

Executing ==
    \A s \in Steps : status[s] = "running" =>
        \E w \in Workers : pc[w] \in {"complete", "http", "fail"} /\ cur[w] = s

Announcing ==
    \A s \in Steps :
        /\ status[s] = "waiting_queueti" =>
             s \in watching \/ \E w \in Workers : pc[w] = "watch" /\ cur[w] = s
        /\ status[s] = "waiting_manual" =>
             stepNotices[s] = 1 \/ \E w \in Workers : pc[w] = "notify" /\ cur[w] = s

Due(s) ==
    /\ inst = "running"
    /\ status[s] = "pending"
    /\ \A t \in def.dependsOn[s] : status[t] = "completed"

\* The call w will come to the step s, which is due.
Reaches(w, s) ==
    \/ pc[w] \in WillList \union {"terminate"}
    \/ pc[w] \in Looping /\ pos[w] <= s /\ Ready(w, s)

Activating == \A s \in Steps : Due(s) => \E w \in Workers : Reaches(w, s)

Ending ==
    (/\ inst = "running"
     /\ \/ \E s \in Steps : status[s] = "failed"
        \/ \A s \in Steps : status[s] = "completed") =>
        \E w \in Workers : pc[w] \in WillList \union {"terminate"}

Signalling == unsignalled => \E w \in Workers : pc[w] # "idle"

SomebodyActs == Inserting /\ Executing /\ Announcing /\ Activating /\ Ending /\ Signalling

\* A row that a loop has passed although it was ready is taken.
PassedIsTaken ==
    \A w \in Workers : pc[w] \in Looping =>
        \A s \in Steps : (s < pos[w] /\ Ready(w, s)) => status[s] # "pending"

PInv == faults = 0 => SomebodyActs

\* What holds of a step that one call at a time answers: the call that completes
\* it has it to itself until it is published, and what a snapshot shows of it once
\* it is completed is what it holds.
AnsweredAlone ==
    \A w \in Workers : (pc[w] = "complete" /\ cur[w] \notin overlapped) =>
        /\ status[cur[w]] # "completed"
        /\ \A v \in Workers : (pc[v] = "complete" /\ cur[v] = cur[w]) => v = w

PublishedAlone ==
    /\ \A w \in Workers : (pc[w] = "publish" /\ cur[w] \notin overlapped) =>
        /\ status[cur[w]] = "completed"
        /\ published[cur[w]] = << >>
        /\ out[w] = output[cur[w]]
        /\ \A v \in Workers : (pc[v] = "publish" /\ cur[v] = cur[w]) => v = w
    /\ \A s \in Steps \ overlapped : status[s] # "completed" => published[s] = << >>

SnapshotsCurrent ==
    \A w \in Workers : pc[w] \in Holding =>
        \A s \in Steps \ overlapped :
            snap[w].status[s] = "completed" => snap[w].output[s] = output[s]

OInv ==
    /\ AnsweredAlone /\ PublishedAlone /\ SnapshotsCurrent
    /\ InputIsMergedOutputs /\ PublishedIsOutput

-----------------------------------------------------------------------------
\* What documents and comments say, and the code does not do

\* engine.go:199-201 and docs/reference/api.md:221: TriggerStep returns an error if
\* the step is not in a waiting state; so it completes a waiting step only.
OnlyWaitingStepsTriggered ==
    [][\A w \in Workers :
          (pc[w] = "complete" /\ call[w] = "trigger" /\ output' # output)
            => status[cur[w]] \notin {"completed", "failed"}]_vars

=============================================================================
