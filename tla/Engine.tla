-------------------------------- MODULE Engine --------------------------------
(***************************************************************************)
(* internal/workflow/engine.go over internal/workflow/repository.go: one   *)
(* workflow instance in PostgreSQL, and any number of concurrent calls of  *)
(* Engine.StartInstance and Engine.TriggerStep that run against it (HTTP   *)
(* handlers, webhook and cron starts, queue-ti consumers, on one node or   *)
(* on several: the nodes share nothing but the database).                  *)
(*                                                                         *)
(* A "worker" is one such call.  Every SQL statement, HTTP request and     *)
(* publish is one action; what a call computes between two of them is      *)
(* local to it and belongs to one of the two.  The snapshot a call took    *)
(* with ListSteps is kept and goes stale while other calls write.          *)
(*                                                                         *)
(* Instances do not read each other's rows, so one instance is enough.     *)
(*                                                                         *)
(* A definition under "Slip:" is no part of the specification: it is what  *)
(* the next definition would be after a plausible mistake in the code, and *)
(* the properties are tried against it.                                    *)
(***************************************************************************)
EXTENDS StepGraph, Sequences

CONSTANTS
    Workers,          \* concurrent calls into the engine
    Outputs,          \* documents a trigger request or a message may carry
    Responses,        \* bodies a 2xx answer to an http step may carry
    MaxFaults,        \* bound: calls cut short by an error or a crash
    NoStep,           \* "this call is not working on a step"
    EmptySnap         \* "this call holds no snapshot"

ASSUME MaxFaultsAssumption == MaxFaults \in Nat
ASSUME NoStepAssumption == NoStep \notin Steps

VARIABLES
    \* the database
    def,            \* the definition CreateSteps copied into the step rows
    inst,           \* workflow_instances.status
    status,         \* step_executions.status
    input,          \* step_executions.input
    output,         \* step_executions.output
    \* what left the engine
    requests,       \* HTTP requests sent for each step
    published,      \* documents published for each step, in order
    watching,       \* steps handed to Poller.Watch
    stepNotices,    \* step.waiting_manual notifications dispatched, per step
    endNotices,     \* instance.completed / instance.failed notifications
    unsignalled,    \* a row changed since the last notifyStateChange
    \* the calls
    pc, call,       \* where each call is, and which entry point it came from
    cur, out,       \* the step it works on, the document it carries
    snap, pos,      \* its snapshot, and the next row of its loop
    faults,         \* calls cut short so far
    overlapped      \* history: steps that two calls were answering at once

db    == <<inst, status, input, output>>
world == <<requests, published, watching, stepNotices, endNotices>>
local == <<call, cur, out, snap, pos>>
vars  == <<def, overlapped, db, world, unsignalled, pc, local, faults>>

PCs == {"idle", "create", "list", "terminate", "ended", "scan", "notify",
        "watch", "http", "complete", "publish", "fail", "signal"}

-----------------------------------------------------------------------------
Init ==
    /\ def \in Definitions
    /\ inst = "absent"
    /\ status = [s \in Steps |-> "absent"]
    /\ input = [s \in Steps |-> NoOutput]
    /\ output = [s \in Steps |-> NoOutput]
    /\ requests = [s \in Steps |-> 0]
    /\ published = [s \in Steps |-> << >>]
    /\ watching = {}
    /\ stepNotices = [s \in Steps |-> 0]
    /\ endNotices = [e \in EndStatuses |-> 0]
    /\ unsignalled = FALSE
    /\ pc = [w \in Workers |-> "idle"]
    /\ call = [w \in Workers |-> "none"]
    /\ cur = [w \in Workers |-> NoStep]
    /\ out = [w \in Workers |-> NoOutput]
    /\ snap = [w \in Workers |-> EmptySnap]
    /\ pos = [w \in Workers |-> 0]
    /\ faults = 0
    /\ overlapped = {}

Goto(w, label) == pc' = [pc EXCEPT ![w] = label]

\* The step, the document, the snapshot and the row a call goes on with.
Carry(w, s, doc) ==
    /\ cur' = [cur EXCEPT ![w] = s]
    /\ out' = [out EXCEPT ![w] = doc]

Hold(w, snapshot, row) ==
    /\ snap' = [snap EXCEPT ![w] = snapshot]
    /\ pos' = [pos EXCEPT ![w] = row]

\* A call returns, and everything it held with it.
Forget(w) ==
    /\ call' = [call EXCEPT ![w] = "none"]
    /\ Carry(w, NoStep, NoOutput)
    /\ Hold(w, EmptySnap, 0)

-----------------------------------------------------------------------------
\* StartInstance: Repository.CreateInstance, then one INSERT per step.

AfterInsert(s) == IF s = NumSteps THEN "list" ELSE "create"

StartInstance(w) ==
    /\ pc[w] = "idle"
    /\ inst = "absent"
    /\ inst' = "running"
    /\ unsignalled' = TRUE
    /\ call' = [call EXCEPT ![w] = "start"]
    /\ Goto(w, AfterInsert(0))
    /\ UNCHANGED <<def, overlapped, status, input, output, world, cur, out, snap, pos, faults>>

CreateStep(w, s) ==
    /\ pc[w] = "create"
    /\ status[s] = "absent"
    /\ \A t \in 1 .. s - 1 : status[t] # "absent"
    /\ status' = [status EXCEPT ![s] = "pending"]
    /\ unsignalled' = TRUE
    /\ Goto(w, AfterInsert(s))
    /\ UNCHANGED <<def, overlapped, inst, input, output, world, local, faults>>

-----------------------------------------------------------------------------
\* TriggerStep: GetStep and its check, in a statement of its own; the UPDATE
\* of completeStep comes later and does not repeat the check.

Triggerable(s) == status[s] \in {"waiting_manual", "waiting_queueti"}

BeingAnswered(s) == \E v \in Workers : pc[v] = "complete" /\ cur[v] = s

TriggerStep(w, s, doc) ==
    /\ pc[w] = "idle"
    /\ Triggerable(s)
    /\ overlapped' = IF BeingAnswered(s) THEN overlapped \union {s} ELSE overlapped
    /\ call' = [call EXCEPT ![w] = "trigger"]
    /\ Carry(w, s, doc)
    /\ Goto(w, "complete")
    /\ UNCHANGED <<def, db, world, unsignalled, snap, pos, faults>>

\* completeStep: the UPDATE, unconditional ...
Publishes(s, doc) == s \in def.publish /\ doc # NoOutput

CompleteStep(w) ==
    /\ pc[w] = "complete"
    /\ LET s == cur[w] IN
        /\ status' = [status EXCEPT ![s] = "completed"]
        /\ output' = [output EXCEPT ![s] = out[w]]
        /\ IF Publishes(s, out[w])
             THEN Goto(w, "publish") /\ UNCHANGED <<cur, out>>
             ELSE Goto(w, "list") /\ Carry(w, NoStep, NoOutput)
    /\ unsignalled' = TRUE
    /\ UNCHANGED <<def, overlapped, inst, input, world, call, snap, pos, faults>>

\* ... then the publish, whose failure is logged and otherwise ignored.
Publish(w) ==
    /\ pc[w] = "publish"
    /\ \/ published' = [published EXCEPT ![cur[w]] = Append(@, out[w])]
       \/ published' = published
    /\ Goto(w, "list")
    /\ Carry(w, NoStep, NoOutput)
    /\ UNCHANGED <<def, overlapped, db, requests, watching, stepNotices, endNotices,
                   unsignalled, call, snap, pos, faults>>

-----------------------------------------------------------------------------
\* advance: ListSteps and the verdict on the rows it returned.

\* Slip: a failed step is not looked for.
AfterListFailuresUnseen(snapshot) ==
    IF AllDone(snapshot) THEN "terminate" ELSE "scan"

AfterList(snapshot) ==
    IF AnyFailed(snapshot) \/ AllDone(snapshot) THEN "terminate" ELSE "scan"

ListSteps(w) ==
    /\ pc[w] = "list"
    /\ LET rows == [status |-> status, output |-> output] IN
        /\ Hold(w, rows, 1)
        /\ Goto(w, AfterList(rows))
    /\ UNCHANGED <<def, overlapped, db, world, unsignalled, call, cur, out, faults>>

\* tryTerminateInstance: a failed step is looked for first.
EndStatus(snapshot) == IF AnyFailed(snapshot) THEN "failed" ELSE "completed"

\* Slip: no "AND status = 'running'".
ClaimInstanceTerminalAlways(w) ==
    /\ pc[w] = "terminate"
    /\ inst' = EndStatus(snap[w])
    /\ unsignalled' = TRUE
    /\ Goto(w, "ended")
    /\ UNCHANGED <<def, overlapped, status, input, output, world, local, faults>>

ClaimInstanceTerminal(w) ==
    /\ pc[w] = "terminate"
    /\ IF inst = "running"
         THEN /\ inst' = EndStatus(snap[w])
              /\ unsignalled' = TRUE
              /\ Goto(w, "ended")
              /\ UNCHANGED <<snap, pos>>
         ELSE /\ Goto(w, "signal")
              /\ Hold(w, EmptySnap, 0)
              /\ UNCHANGED <<inst, unsignalled>>
    /\ UNCHANGED <<def, overlapped, status, input, output, world, call, cur, out, faults>>

DispatchEnd(w) ==
    /\ pc[w] = "ended"
    /\ endNotices' = [endNotices EXCEPT ![EndStatus(snap[w])] = @ + 1]
    /\ Goto(w, "signal")
    /\ Hold(w, EmptySnap, 0)
    /\ UNCHANGED <<def, overlapped, db, requests, published, watching, stepNotices,
                   unsignalled, call, cur, out, faults>>

-----------------------------------------------------------------------------
\* advance: the loop over the rows of the snapshot.

\* The loop passes over rows that were not pending, or not ready, when listed.
Ready(w, s) ==
    /\ snap[w].status[s] = "pending"
    /\ DepsCompleted(def, s, CompletedSet(snap[w]))

\* The next row the loop stops at.
AtStep(w, s) ==
    /\ pc[w] = "scan"
    /\ s >= pos[w]
    /\ Ready(w, s)
    /\ \A t \in pos[w] .. s - 1 : ~Ready(w, t)

\* Slip: the call returns without notifyStateChange.
ScanDoneSilently(w) ==
    /\ pc[w] = "scan"
    /\ \A s \in Steps : s >= pos[w] => ~Ready(w, s)
    /\ Goto(w, "idle")
    /\ Forget(w)
    /\ UNCHANGED <<def, overlapped, db, world, unsignalled, faults>>

ScanDone(w) ==
    /\ pc[w] = "scan"
    /\ \A s \in Steps : s >= pos[w] => ~Ready(w, s)
    /\ Goto(w, "signal")
    /\ Hold(w, EmptySnap, 0)
    /\ UNCHANGED <<def, overlapped, db, world, unsignalled, call, cur, out, faults>>

\* Repository.ClaimStep: UPDATE ... WHERE status = 'pending'.
\* Slip: no "AND status = 'pending'".
ClaimableAlways(s) == status[s] # "absent"

Claimable(s) == status[s] = "pending"

Claim(w, s) ==
    /\ AtStep(w, s)
    /\ Claimable(s)
    /\ status' = [status EXCEPT ![s] = ClaimedStatus(def.trigger[s])]
    /\ input' = [input EXCEPT ![s] = StepInput(def, s, snap[w].output)]
    /\ unsignalled' = TRUE
    /\ UNCHANGED <<def, overlapped, inst, output, world, call, faults>>

\* Zero rows updated: somebody else claimed it; go on with the stale snapshot.
ClaimLost(w, s) ==
    /\ AtStep(w, s)
    /\ ~Claimable(s)
    /\ Hold(w, snap[w], s + 1)
    /\ UNCHANGED <<def, overlapped, db, world, unsignalled, pc, call, cur, out, faults>>

\* After a manual or queueti claim the loop goes on with the next row.
ClaimManual(w, s) ==
    /\ def.trigger[s] = "manual"
    /\ Claim(w, s)
    /\ Carry(w, s, NoOutput)
    /\ Hold(w, snap[w], s + 1)
    /\ Goto(w, "notify")

ClaimQueueTi(w, s) ==
    /\ def.trigger[s] = "queueti"
    /\ Claim(w, s)
    /\ Carry(w, s, NoOutput)
    /\ Hold(w, snap[w], s + 1)
    /\ Goto(w, "watch")

\* After an auto or http claim the recursive advance replaces the loop: won
\* makes the outer one return, so its snapshot is dropped here.
ClaimAuto(w, s) ==
    /\ def.trigger[s] = "auto"
    /\ Claim(w, s)
    /\ Carry(w, s, StepInput(def, s, snap[w].output))
    /\ Hold(w, EmptySnap, 0)
    /\ Goto(w, "complete")

ClaimHTTP(w, s) ==
    /\ def.trigger[s] = "http"
    /\ Claim(w, s)
    /\ Carry(w, s, StepInput(def, s, snap[w].output))
    /\ Hold(w, EmptySnap, 0)
    /\ Goto(w, "http")

\* Slip: the loop returns after a manual claim, as it does after an auto one.
DispatchWaitingReturns(w) ==
    /\ pc[w] = "notify"
    /\ stepNotices' = [stepNotices EXCEPT ![cur[w]] = @ + 1]
    /\ Goto(w, "signal")
    /\ Carry(w, NoStep, NoOutput)
    /\ Hold(w, EmptySnap, 0)
    /\ UNCHANGED <<def, overlapped, db, requests, published, watching, endNotices,
                   unsignalled, call, faults>>

DispatchWaiting(w) ==
    /\ pc[w] = "notify"
    /\ stepNotices' = [stepNotices EXCEPT ![cur[w]] = @ + 1]
    /\ Goto(w, "scan")
    /\ Carry(w, NoStep, NoOutput)
    /\ UNCHANGED <<def, overlapped, db, requests, published, watching, endNotices,
                   unsignalled, call, snap, pos, faults>>

Watch(w) ==
    /\ pc[w] = "watch"
    /\ watching' = watching \union {cur[w]}
    /\ Goto(w, "scan")
    /\ Carry(w, NoStep, NoOutput)
    /\ UNCHANGED <<def, overlapped, db, requests, published, stepNotices, endNotices,
                   unsignalled, call, snap, pos, faults>>

\* executeHTTPStep: a 2xx answer, or any error (refused, timed out, non-2xx,
\* too large, blocked before it was sent).
HTTPCall(w) ==
    /\ pc[w] = "http"
    /\ requests' = [requests EXCEPT ![cur[w]] = @ + 1]
    /\ \/ \E body \in Responses : Carry(w, cur[w], body) /\ Goto(w, "complete")
       \/ Carry(w, cur[w], NoOutput) /\ Goto(w, "fail")
    /\ UNCHANGED <<def, overlapped, db, published, watching, stepNotices, endNotices,
                   unsignalled, call, snap, pos, faults>>

\* Slip: the step goes back to pending, to be tried again.
FailStepForRetry(w) ==
    /\ pc[w] = "fail"
    /\ status' = [status EXCEPT ![cur[w]] = "pending"]
    /\ unsignalled' = TRUE
    /\ Goto(w, "list")
    /\ Carry(w, NoStep, NoOutput)
    /\ UNCHANGED <<def, overlapped, inst, input, output, world, call, snap, pos, faults>>

\* Slip: the error is returned without another advance.
FailStepReturns(w) ==
    /\ pc[w] = "fail"
    /\ status' = [status EXCEPT ![cur[w]] = "failed"]
    /\ output' = [output EXCEPT ![cur[w]] = NoOutput]
    /\ unsignalled' = TRUE
    /\ Goto(w, "signal")
    /\ Carry(w, NoStep, NoOutput)
    /\ UNCHANGED <<def, overlapped, inst, input, world, call, snap, pos, faults>>

FailStep(w) ==
    /\ pc[w] = "fail"
    /\ status' = [status EXCEPT ![cur[w]] = "failed"]
    /\ output' = [output EXCEPT ![cur[w]] = NoOutput]
    /\ unsignalled' = TRUE
    /\ Goto(w, "list")
    /\ Carry(w, NoStep, NoOutput)
    /\ UNCHANGED <<def, overlapped, inst, input, world, call, snap, pos, faults>>

\* notifyStateChange, then the call returns.
NotifyStateChange(w) ==
    /\ pc[w] = "signal"
    /\ unsignalled' = FALSE
    /\ Goto(w, "idle")
    /\ Forget(w)
    /\ UNCHANGED <<def, overlapped, db, world, faults>>

-----------------------------------------------------------------------------
\* A statement fails, the context of the request is cancelled, or the process
\* dies: the call ends where it is and nothing takes its work up again.

\* Where an error of a statement makes advance return an error to TriggerStep.
\* The answer to an http step is not one of them: it fails the step instead.
AdvanceStatement(w) ==
    \/ pc[w] \in {"list", "terminate", "scan", "fail"}
    \/ pc[w] = "complete" /\ def.trigger[cur[w]] \in {"auto", "http"}

Cut(w) ==
    /\ pc[w] # "idle"
    /\ faults < MaxFaults
    /\ faults' = faults + 1

Crash(w) ==
    /\ Cut(w)
    /\ Goto(w, "idle")
    /\ Forget(w)
    /\ UNCHANGED <<def, overlapped, db, world, unsignalled>>

\* TriggerStep calls notifyStateChange even when its advance returned an
\* error; StartInstance does not, and is a Crash as far as its rows go.
AdvanceError(w) ==
    /\ Cut(w)
    /\ call[w] = "trigger"
    /\ AdvanceStatement(w)
    /\ Goto(w, "signal")
    /\ Carry(w, NoStep, NoOutput)
    /\ Hold(w, EmptySnap, 0)
    /\ UNCHANGED <<def, overlapped, db, world, unsignalled, call>>

-----------------------------------------------------------------------------
Scan(w) ==
    \/ ScanDone(w)
    \/ \E s \in Steps :
        \/ ClaimManual(w, s)
        \/ ClaimAuto(w, s)
        \/ ClaimQueueTi(w, s)
        \/ ClaimHTTP(w, s)
        \/ ClaimLost(w, s)

\* What a call does by itself once it was made.
Step(w) ==
    \/ \E s \in Steps : CreateStep(w, s)
    \/ CompleteStep(w)
    \/ Publish(w)
    \/ ListSteps(w)
    \/ ClaimInstanceTerminal(w)
    \/ DispatchEnd(w)
    \/ Scan(w)
    \/ DispatchWaiting(w)
    \/ Watch(w)
    \/ HTTPCall(w)
    \/ FailStep(w)
    \/ NotifyStateChange(w)

Next ==
    \E w \in Workers :
        \/ StartInstance(w)
        \/ \E s \in Steps, doc \in Outputs : TriggerStep(w, s, doc)
        \/ Step(w)
        \/ Crash(w)
        \/ AdvanceError(w)

Spec == Init /\ [][Next]_vars

\* Goroutines are scheduled, statements return, the HTTP client times out:
\* a call that was made goes on.  Making calls is up to the environment.
Fairness == \A w \in Workers : WF_vars(Step(w))

\* Operators and producers answer every step that waits for them.
Answered ==
    \A s \in Steps : WF_vars(\E w \in Workers, doc \in Outputs : TriggerStep(w, s, doc))

Started == WF_vars(\E w \in Workers : StartInstance(w))

FairSpec == Spec /\ Fairness
LiveSpec == FairSpec /\ Started /\ Answered

=============================================================================
