----------------------------- MODULE EngineProofs -----------------------------
(***************************************************************************)
(* Theorems about Engine.tla for any definitions, any number of steps and  *)
(* calls, and any bound on faults, proved with TLAPS.                      *)
(***************************************************************************)
EXTENDS EngineProperties, TLAPS

\* Steps are numbers; little else of them is needed.
LEMMA StepsNat == \A s \in Steps : s \in Nat
  BY NumStepsAssumption DEF Steps

\* The type invariant holds initially: no call is under way.
LEMMA TypeInit == Init => TypeOK
<1> SUFFICES ASSUME Init PROVE TypeOK
  OBVIOUS
<1> USE DEF Init, IsFunctionOn
<1>1. TypeOfDatabase
  BY DefinitionsAssumption DEF TypeOfDatabase, InstanceStatuses, RowStatuses
<1>2. TypeOfWorld
  <2>1. published = [s \in Steps |-> published[s]]
    OBVIOUS
  <2>2. faults \in 0 .. MaxFaults
    BY MaxFaultsAssumption
  <2> QED
    BY <2>1, <2>2 DEF TypeOfWorld
<1>3. TypeOfCalls
  BY DEF TypeOfCalls, PCs, AtWork, Holding
<1> QED
  BY <1>1, <1>2, <1>3 DEF TypeOK

\* The type invariant is inductive by itself: one step per action.
LEMMA TypeStep == TypeOK /\ [Next]_vars => TypeOK'
<1> SUFFICES ASSUME TypeOK, [Next]_vars PROVE TypeOK'
  OBVIOUS
<1> USE StepsNat DEF TypeOK, IsFunctionOn, db, world, local
<1>1. ASSUME NEW w \in Workers, StartInstance(w) PROVE TypeOK'
  <2>1. TypeOfDatabase'
    BY <1>1 DEF TypeOfDatabase, TypeOfCalls, InstanceStatuses, RowStatuses, StepStatuses,
       WaitingStatuses, EndStatuses, AtWork, StartInstance, Goto, AfterInsert
  <2>2. TypeOfWorld'
    BY <1>1, MaxFaultsAssumption DEF TypeOfWorld, TypeOfCalls, AtWork, EndStatuses,
       StartInstance, Goto, AfterInsert
  <2>3. TypeOfCalls'
    BY <1>1 DEF TypeOfCalls, TypeOfDatabase, PCs, AtWork, Holding, StartInstance, Goto,
       AfterInsert
  <2> QED
    BY <2>1, <2>2, <2>3
<1>2. ASSUME NEW w \in Workers, NEW s \in Steps, NEW doc \in Outputs, TriggerStep(w, s, doc)
      PROVE  TypeOK'
  <2>1. TypeOfDatabase'
    BY <1>2 DEF TypeOfDatabase, TypeOfCalls, InstanceStatuses, RowStatuses, StepStatuses,
       WaitingStatuses, EndStatuses, AtWork, TriggerStep, Goto, Carry
  <2>2. TypeOfWorld'
    BY <1>2, MaxFaultsAssumption DEF TypeOfWorld, TypeOfCalls, AtWork, EndStatuses,
       TriggerStep, Goto, Carry
  <2>3. TypeOfCalls'
    BY <1>2 DEF TypeOfCalls, TypeOfDatabase, PCs, AtWork, Holding, TriggerStep, Goto, Carry
  <2> QED
    BY <2>1, <2>2, <2>3
<1>3. ASSUME NEW w \in Workers, NEW s \in Steps, CreateStep(w, s) PROVE TypeOK'
  <2>1. TypeOfDatabase'
    BY <1>3 DEF TypeOfDatabase, TypeOfCalls, InstanceStatuses, RowStatuses, StepStatuses,
       WaitingStatuses, EndStatuses, AtWork, CreateStep, Goto, AfterInsert
  <2>2. TypeOfWorld'
    BY <1>3, MaxFaultsAssumption DEF TypeOfWorld, TypeOfCalls, AtWork, EndStatuses,
       CreateStep, Goto, AfterInsert
  <2>3. TypeOfCalls'
    BY <1>3 DEF TypeOfCalls, TypeOfDatabase, PCs, AtWork, Holding, CreateStep, Goto,
       AfterInsert
  <2> QED
    BY <2>1, <2>2, <2>3
<1>4. ASSUME NEW w \in Workers, CompleteStep(w) PROVE TypeOK'
  <2>1. TypeOfDatabase'
    BY <1>4 DEF TypeOfDatabase, TypeOfCalls, InstanceStatuses, RowStatuses, StepStatuses,
       WaitingStatuses, EndStatuses, AtWork, CompleteStep, Goto, Carry
  <2>2. TypeOfWorld'
    BY <1>4, MaxFaultsAssumption DEF TypeOfWorld, TypeOfCalls, AtWork, EndStatuses,
       CompleteStep, Goto, Carry
  <2>3. TypeOfCalls'
    BY <1>4 DEF TypeOfCalls, TypeOfDatabase, PCs, AtWork, Holding, CompleteStep, Goto, Carry
  <2> QED
    BY <2>1, <2>2, <2>3
<1>5. ASSUME NEW w \in Workers, Publish(w) PROVE TypeOK'
  <2>1. TypeOfDatabase'
    BY <1>5 DEF TypeOfDatabase, TypeOfCalls, InstanceStatuses, RowStatuses, StepStatuses,
       WaitingStatuses, EndStatuses, AtWork, Publish, Goto, Carry
  <2>2. TypeOfWorld'
    BY <1>5, MaxFaultsAssumption DEF TypeOfWorld, TypeOfCalls, AtWork, EndStatuses,
       Publish, Goto, Carry
  <2>3. TypeOfCalls'
    BY <1>5 DEF TypeOfCalls, TypeOfDatabase, PCs, AtWork, Holding, Publish, Goto, Carry
  <2> QED
    BY <2>1, <2>2, <2>3
<1>6. ASSUME NEW w \in Workers, ListSteps(w) PROVE TypeOK'
  <2>1. TypeOfDatabase'
    BY <1>6 DEF TypeOfDatabase, TypeOfCalls, InstanceStatuses, RowStatuses, StepStatuses,
       WaitingStatuses, EndStatuses, AtWork, ListSteps, Goto, Hold, AfterList
  <2>2. TypeOfWorld'
    BY <1>6, MaxFaultsAssumption DEF TypeOfWorld, TypeOfCalls, AtWork, EndStatuses,
       ListSteps, Goto, Hold, AfterList
  <2>3. TypeOfCalls'
    BY <1>6 DEF TypeOfCalls, TypeOfDatabase, PCs, AtWork, Holding, SnapshotOK, ListSteps,
       Goto, Hold, AfterList
  <2> QED
    BY <2>1, <2>2, <2>3
<1>7. ASSUME NEW w \in Workers, ClaimInstanceTerminal(w) PROVE TypeOK'
  <2>1. TypeOfDatabase'
    BY <1>7 DEF TypeOfDatabase, TypeOfCalls, InstanceStatuses, RowStatuses, StepStatuses,
       WaitingStatuses, EndStatuses, AtWork, ClaimInstanceTerminal, Goto, Hold, EndStatus
  <2>2. TypeOfWorld'
    BY <1>7, MaxFaultsAssumption DEF TypeOfWorld, TypeOfCalls, AtWork, EndStatuses,
       ClaimInstanceTerminal, Goto, Hold, EndStatus
  <2>3. TypeOfCalls'
    BY <1>7 DEF TypeOfCalls, TypeOfDatabase, PCs, AtWork, Holding, ClaimInstanceTerminal,
       Goto, Hold, EndStatus
  <2> QED
    BY <2>1, <2>2, <2>3
<1>8. ASSUME NEW w \in Workers, DispatchEnd(w) PROVE TypeOK'
  <2>1. TypeOfDatabase'
    BY <1>8 DEF TypeOfDatabase, TypeOfCalls, InstanceStatuses, RowStatuses, StepStatuses,
       WaitingStatuses, EndStatuses, AtWork, DispatchEnd, Goto, Hold, EndStatus
  <2>2. TypeOfWorld'
    BY <1>8, MaxFaultsAssumption DEF TypeOfWorld, TypeOfCalls, AtWork, EndStatuses,
       DispatchEnd, Goto, Hold, EndStatus
  <2>3. TypeOfCalls'
    BY <1>8 DEF TypeOfCalls, TypeOfDatabase, PCs, AtWork, Holding, DispatchEnd, Goto,
       Hold, EndStatus
  <2> QED
    BY <2>1, <2>2, <2>3
<1>9. ASSUME NEW w \in Workers, ScanDone(w) PROVE TypeOK'
  <2>1. TypeOfDatabase'
    BY <1>9 DEF TypeOfDatabase, TypeOfCalls, InstanceStatuses, RowStatuses, StepStatuses,
       WaitingStatuses, EndStatuses, AtWork, ScanDone, Goto, Hold
  <2>2. TypeOfWorld'
    BY <1>9, MaxFaultsAssumption DEF TypeOfWorld, TypeOfCalls, AtWork, EndStatuses,
       ScanDone, Goto, Hold
  <2>3. TypeOfCalls'
    BY <1>9 DEF TypeOfCalls, TypeOfDatabase, PCs, AtWork, Holding, ScanDone, Goto, Hold
  <2> QED
    BY <2>1, <2>2, <2>3
<1>10. ASSUME NEW w \in Workers, NEW s \in Steps, ClaimManual(w, s) PROVE TypeOK'
  <2>1. TypeOfDatabase'
    BY <1>10 DEF TypeOfDatabase, TypeOfCalls, InstanceStatuses, RowStatuses,
       StepStatuses, WaitingStatuses, EndStatuses, AtWork, ClaimManual, Claim, AtStep,
       ClaimedStatus, Goto, Hold, Carry
  <2>2. TypeOfWorld'
    BY <1>10, MaxFaultsAssumption DEF TypeOfWorld, TypeOfCalls, AtWork, EndStatuses,
       ClaimManual, Claim, AtStep, ClaimedStatus, Goto, Hold, Carry
  <2>3. TypeOfCalls'
    <3>1. pc[w] = "scan" /\ snap' = snap /\ UNCHANGED call
      BY <1>10 DEF TypeOfCalls, ClaimManual, Claim, AtStep, Hold
    <3>2. pos' \in [Workers -> Nat]
      BY <1>10 DEF TypeOfCalls, ClaimManual, Hold
    <3>3. /\ pc' = [pc EXCEPT ![w] = "notify"]
          /\ cur' = [cur EXCEPT ![w] = s]
          /\ out' = [out EXCEPT ![w] = NoOutput]
      BY <1>10 DEF ClaimManual, Goto, Carry
    <3> QED
      BY <3>1, <3>2, <3>3 DEF TypeOfCalls, PCs, AtWork, Holding
  <2> QED
    BY <2>1, <2>2, <2>3
<1>11. ASSUME NEW w \in Workers, NEW s \in Steps, ClaimAuto(w, s) PROVE TypeOK'
  <2>1. TypeOfDatabase'
    BY <1>11 DEF TypeOfDatabase, TypeOfCalls, InstanceStatuses, RowStatuses,
       StepStatuses, WaitingStatuses, EndStatuses, AtWork, ClaimAuto, Claim, AtStep,
       ClaimedStatus, Goto, Hold, Carry
  <2>2. TypeOfWorld'
    BY <1>11, MaxFaultsAssumption DEF TypeOfWorld, TypeOfCalls, AtWork, EndStatuses,
       ClaimAuto, Claim, AtStep, ClaimedStatus, Goto, Hold, Carry
  <2>3. TypeOfCalls'
    BY <1>11 DEF TypeOfCalls, TypeOfDatabase, PCs, AtWork, Holding, ClaimAuto, Claim,
       AtStep, ClaimedStatus, Goto, Hold, Carry
  <2> QED
    BY <2>1, <2>2, <2>3
<1>12. ASSUME NEW w \in Workers, NEW s \in Steps, ClaimQueueTi(w, s) PROVE TypeOK'
  <2>1. TypeOfDatabase'
    BY <1>12 DEF TypeOfDatabase, TypeOfCalls, InstanceStatuses, RowStatuses,
       StepStatuses, WaitingStatuses, EndStatuses, AtWork, ClaimQueueTi, Claim, AtStep,
       ClaimedStatus, Goto, Hold, Carry
  <2>2. TypeOfWorld'
    BY <1>12, MaxFaultsAssumption DEF TypeOfWorld, TypeOfCalls, AtWork, EndStatuses,
       ClaimQueueTi, Claim, AtStep, ClaimedStatus, Goto, Hold, Carry
  <2>3. TypeOfCalls'
    <3>1. pc[w] = "scan" /\ snap' = snap /\ UNCHANGED call
      BY <1>12 DEF TypeOfCalls, ClaimQueueTi, Claim, AtStep, Hold
    <3>2. pos' \in [Workers -> Nat]
      BY <1>12 DEF TypeOfCalls, ClaimQueueTi, Hold
    <3>3. /\ pc' = [pc EXCEPT ![w] = "watch"]
          /\ cur' = [cur EXCEPT ![w] = s]
          /\ out' = [out EXCEPT ![w] = NoOutput]
      BY <1>12 DEF ClaimQueueTi, Goto, Carry
    <3> QED
      BY <3>1, <3>2, <3>3 DEF TypeOfCalls, PCs, AtWork, Holding
  <2> QED
    BY <2>1, <2>2, <2>3
<1>13. ASSUME NEW w \in Workers, NEW s \in Steps, ClaimHTTP(w, s) PROVE TypeOK'
  <2>1. TypeOfDatabase'
    BY <1>13 DEF TypeOfDatabase, TypeOfCalls, InstanceStatuses, RowStatuses,
       StepStatuses, WaitingStatuses, EndStatuses, AtWork, ClaimHTTP, Claim, AtStep,
       ClaimedStatus, Goto, Hold, Carry
  <2>2. TypeOfWorld'
    BY <1>13, MaxFaultsAssumption DEF TypeOfWorld, TypeOfCalls, AtWork, EndStatuses,
       ClaimHTTP, Claim, AtStep, ClaimedStatus, Goto, Hold, Carry
  <2>3. TypeOfCalls'
    BY <1>13 DEF TypeOfCalls, TypeOfDatabase, PCs, AtWork, Holding, ClaimHTTP, Claim,
       AtStep, ClaimedStatus, Goto, Hold, Carry
  <2> QED
    BY <2>1, <2>2, <2>3
<1>14. ASSUME NEW w \in Workers, NEW s \in Steps, ClaimLost(w, s) PROVE TypeOK'
  <2>1. TypeOfDatabase'
    BY <1>14 DEF TypeOfDatabase, TypeOfCalls, InstanceStatuses, RowStatuses,
       StepStatuses, WaitingStatuses, EndStatuses, AtWork, ClaimLost, AtStep, Hold
  <2>2. TypeOfWorld'
    BY <1>14, MaxFaultsAssumption DEF TypeOfWorld, TypeOfCalls, AtWork, EndStatuses,
       ClaimLost, AtStep, Hold
  <2>3. TypeOfCalls'
    BY <1>14 DEF TypeOfCalls, TypeOfDatabase, PCs, AtWork, Holding, ClaimLost, AtStep, Hold
  <2> QED
    BY <2>1, <2>2, <2>3
<1>15. ASSUME NEW w \in Workers, DispatchWaiting(w) PROVE TypeOK'
  <2>1. TypeOfDatabase'
    BY <1>15 DEF TypeOfDatabase, TypeOfCalls, InstanceStatuses, RowStatuses,
       StepStatuses, WaitingStatuses, EndStatuses, AtWork, DispatchWaiting, Goto, Carry
  <2>2. TypeOfWorld'
    BY <1>15, MaxFaultsAssumption DEF TypeOfWorld, TypeOfCalls, AtWork, EndStatuses,
       DispatchWaiting, Goto, Carry
  <2>3. TypeOfCalls'
    BY <1>15 DEF TypeOfCalls, TypeOfDatabase, PCs, AtWork, Holding, DispatchWaiting,
       Goto, Carry
  <2> QED
    BY <2>1, <2>2, <2>3
<1>16. ASSUME NEW w \in Workers, Watch(w) PROVE TypeOK'
  <2>1. TypeOfDatabase'
    BY <1>16 DEF TypeOfDatabase, TypeOfCalls, InstanceStatuses, RowStatuses,
       StepStatuses, WaitingStatuses, EndStatuses, AtWork, Watch, Goto, Carry
  <2>2. TypeOfWorld'
    BY <1>16, MaxFaultsAssumption DEF TypeOfWorld, TypeOfCalls, AtWork, EndStatuses,
       Watch, Goto, Carry
  <2>3. TypeOfCalls'
    BY <1>16 DEF TypeOfCalls, TypeOfDatabase, PCs, AtWork, Holding, Watch, Goto, Carry
  <2> QED
    BY <2>1, <2>2, <2>3
<1>17. ASSUME NEW w \in Workers, HTTPCall(w) PROVE TypeOK'
  <2>1. TypeOfDatabase'
    BY <1>17 DEF TypeOfDatabase, TypeOfCalls, InstanceStatuses, RowStatuses,
       StepStatuses, WaitingStatuses, EndStatuses, AtWork, HTTPCall, Goto, Carry
  <2>2. TypeOfWorld'
    BY <1>17, MaxFaultsAssumption DEF TypeOfWorld, TypeOfCalls, AtWork, EndStatuses,
       HTTPCall, Goto, Carry
  <2>3. TypeOfCalls'
    BY <1>17 DEF TypeOfCalls, TypeOfDatabase, PCs, AtWork, Holding, HTTPCall, Goto, Carry
  <2> QED
    BY <2>1, <2>2, <2>3
<1>18. ASSUME NEW w \in Workers, FailStep(w) PROVE TypeOK'
  <2>1. TypeOfDatabase'
    BY <1>18 DEF TypeOfDatabase, TypeOfCalls, InstanceStatuses, RowStatuses,
       StepStatuses, WaitingStatuses, EndStatuses, AtWork, FailStep, Goto, Carry
  <2>2. TypeOfWorld'
    BY <1>18, MaxFaultsAssumption DEF TypeOfWorld, TypeOfCalls, AtWork, EndStatuses,
       FailStep, Goto, Carry
  <2>3. TypeOfCalls'
    BY <1>18 DEF TypeOfCalls, TypeOfDatabase, PCs, AtWork, Holding, FailStep, Goto, Carry
  <2> QED
    BY <2>1, <2>2, <2>3
<1>19. ASSUME NEW w \in Workers, NotifyStateChange(w) PROVE TypeOK'
  <2>1. TypeOfDatabase'
    BY <1>19 DEF TypeOfDatabase, TypeOfCalls, InstanceStatuses, RowStatuses,
       StepStatuses, WaitingStatuses, EndStatuses, AtWork, NotifyStateChange, Goto,
       Forget, Carry, Hold
  <2>2. TypeOfWorld'
    BY <1>19, MaxFaultsAssumption DEF TypeOfWorld, TypeOfCalls, AtWork, EndStatuses,
       NotifyStateChange, Goto, Forget, Carry, Hold
  <2>3. TypeOfCalls'
    BY <1>19 DEF TypeOfCalls, TypeOfDatabase, PCs, AtWork, Holding, NotifyStateChange,
       Goto, Forget, Carry, Hold
  <2> QED
    BY <2>1, <2>2, <2>3
<1>20. ASSUME NEW w \in Workers, Crash(w) PROVE TypeOK'
  <2>1. TypeOfDatabase'
    BY <1>20 DEF TypeOfDatabase, TypeOfCalls, InstanceStatuses, RowStatuses,
       StepStatuses, WaitingStatuses, EndStatuses, AtWork, Crash, Cut, Goto, Forget,
       Carry, Hold
  <2>2. TypeOfWorld'
    BY <1>20, MaxFaultsAssumption DEF TypeOfWorld, TypeOfCalls, AtWork, EndStatuses,
       Crash, Cut, Goto, Forget, Carry, Hold
  <2>3. TypeOfCalls'
    BY <1>20 DEF TypeOfCalls, TypeOfDatabase, PCs, AtWork, Holding, Crash, Cut, Goto,
       Forget, Carry, Hold
  <2> QED
    BY <2>1, <2>2, <2>3
<1>21. ASSUME NEW w \in Workers, AdvanceError(w) PROVE TypeOK'
  <2>1. TypeOfDatabase'
    BY <1>21 DEF TypeOfDatabase, TypeOfCalls, InstanceStatuses, RowStatuses,
       StepStatuses, WaitingStatuses, EndStatuses, AtWork, AdvanceError, Cut, Goto,
       Carry, Hold
  <2>2. TypeOfWorld'
    BY <1>21, MaxFaultsAssumption DEF TypeOfWorld, TypeOfCalls, AtWork, EndStatuses,
       AdvanceError, Cut, Goto, Carry, Hold
  <2>3. TypeOfCalls'
    BY <1>21 DEF TypeOfCalls, TypeOfDatabase, PCs, AtWork, Holding, AdvanceError, Cut,
       Goto, Carry, Hold
  <2> QED
    BY <2>1, <2>2, <2>3
<1>22. CASE UNCHANGED vars
  BY <1>22 DEF vars, TypeOfDatabase, TypeOfWorld, TypeOfCalls
<1> QED
  BY <1>1, <1>2, <1>3, <1>4, <1>5, <1>6, <1>7, <1>8, <1>9, <1>10, <1>11, <1>12, <1>13,
     <1>14, <1>15, <1>16, <1>17, <1>18, <1>19, <1>20, <1>21, <1>22
  DEF Next, Step, Scan

\* Every state of the engine has the declared types.
THEOREM TypeCorrect == Spec => []TypeOK
<1>1. Init => TypeOK
  BY TypeInit
<1>2. TypeOK /\ [Next]_vars => TypeOK'
  BY TypeStep
<1> QED
  BY <1>1, <1>2, PTL DEF Spec

-----------------------------------------------------------------------------
\* Who writes what

\* Four statements write a step's status.
LEMMA StatusWriters ==
  ASSUME [Next]_vars
  PROVE  \/ UNCHANGED status
         \/ \E w \in Workers : CompleteStep(w) \/ FailStep(w)
         \/ \E w \in Workers, s \in Steps : CreateStep(w, s) \/ Claim(w, s)
<1> USE DEF db, local, world
<1>1. ASSUME NEW w \in Workers, StartInstance(w) PROVE UNCHANGED status
  BY <1>1 DEF StartInstance
<1>2. ASSUME NEW w \in Workers, NEW s \in Steps, NEW doc \in Outputs, TriggerStep(w, s, doc)
      PROVE  UNCHANGED status
  BY <1>2 DEF TriggerStep
<1>3. ASSUME NEW w \in Workers, Step(w)
      PROVE  \/ UNCHANGED status
             \/ CompleteStep(w) \/ FailStep(w)
             \/ \E s \in Steps : CreateStep(w, s) \/ Claim(w, s)
  BY <1>3 DEF Step, Scan, Publish, ListSteps, ClaimInstanceTerminal, DispatchEnd, ScanDone,
     ClaimManual, ClaimAuto, ClaimQueueTi, ClaimHTTP, ClaimLost, DispatchWaiting, Watch,
     HTTPCall, NotifyStateChange
<1>4. ASSUME NEW w \in Workers, Crash(w) \/ AdvanceError(w) PROVE UNCHANGED status
  BY <1>4 DEF Crash, AdvanceError
<1>5. CASE UNCHANGED vars
  BY <1>5 DEF vars
<1> QED
  BY <1>1, <1>2, <1>3, <1>4, <1>5 DEF Next

\* A claim finds the dependencies completed, although its snapshot is old.
LEMMA ClaimIsJustified ==
  ASSUME TypeOK, SnapshotsSound, NEW w \in Workers, NEW s \in Steps, Claim(w, s)
  PROVE  /\ status[s] = "pending"
         /\ \A t \in def.dependsOn[s] : status[t] = "completed"
<1>1. def.dependsOn[s] \subseteq Steps
  BY DefinitionsAssumption DEF TypeOK, TypeOfDatabase, DefinitionType
<1>2. pc[w] \in Holding /\ DepsCompleted(def, s, CompletedSet(snap[w]))
  BY DEF Claim, AtStep, Ready, Holding
<1>3. \A t \in def.dependsOn[s] : t \in Steps /\ snap[w].status[t] = "completed"
  BY <1>1, <1>2 DEF DepsCompleted, CompletedSet
<1> QED
  BY <1>2, <1>3 DEF SnapshotsSound, EndStatuses, Claim, Claimable

\* What a step of the system can do to the status of a step of the workflow.
StatusMove(s) ==
    \/ status'[s] = status[s]
    \/ status[s] = "absent" /\ status'[s] = "pending"
    \/ /\ status[s] = "pending"
       /\ status'[s] = ClaimedStatus(def.trigger[s])
       /\ \A t \in def.dependsOn[s] : status[t] = "completed"
    \/ status[s] \in WaitingStatuses \union {"running"} /\ status'[s] = "completed"
    \/ /\ status[s] = "running"
       /\ def.trigger[s] = "http"
       /\ status'[s] = "failed"

\* Every step of the system moves the status of a step in one of those ways.
LEMMA StatusMoves ==
  ASSUME TypeOK, SnapshotsSound, ExecutorsOwn, [Next]_vars
  PROVE  \A s \in Steps : StatusMove(s)
<1> USE DEF TypeOK, TypeOfDatabase, TypeOfCalls, AtWork
<1>1. CASE UNCHANGED status
  BY <1>1 DEF StatusMove
<1>2. ASSUME NEW w \in Workers, CompleteStep(w) PROVE \A s \in Steps : StatusMove(s)
  <2>1. def.trigger[cur[w]] \in ByEngine \union ByOthers
    BY <1>2, DefinitionsAssumption DEF CompleteStep, DefinitionType, TriggerTypes,
       ByEngine, ByOthers
  <2>2. status[cur[w]] \in WaitingStatuses \union {"running", "completed"}
    BY <1>2, <2>1 DEF CompleteStep, ExecutorsOwn
  <2> QED
    BY <1>2, <2>2 DEF CompleteStep, StatusMove
<1>3. ASSUME NEW w \in Workers, FailStep(w) PROVE \A s \in Steps : StatusMove(s)
  BY <1>3 DEF FailStep, ExecutorsOwn, ByEngine, StatusMove
<1>4. ASSUME NEW w \in Workers, NEW s \in Steps, CreateStep(w, s)
      PROVE  \A t \in Steps : StatusMove(t)
  BY <1>4 DEF CreateStep, StatusMove
<1>5. ASSUME NEW w \in Workers, NEW s \in Steps, Claim(w, s)
      PROVE  \A t \in Steps : StatusMove(t)
  BY <1>5, ClaimIsJustified DEF Claim, StatusMove
<1> QED
  BY <1>1, <1>2, <1>3, <1>4, <1>5, StatusWriters

\* What is over stays over, what is activated stays activated, rows stay.
LEMMA StatusLasts ==
  ASSUME TypeOK, SnapshotsSound, ExecutorsOwn, [Next]_vars, NEW s \in Steps
  PROVE  /\ status[s] \in EndStatuses => status'[s] = status[s]
         /\ Activated(s) => Activated(s)'
         /\ status[s] # "absent" => status'[s] # "absent"
<1>1. StatusMove(s)
  BY StatusMoves
<1> QED
  BY <1>1 DEF StatusMove, ClaimedStatus, EndStatuses, WaitingStatuses, Activated

\* Where a call gets its snapshot from: it keeps it, or it has just listed.
SnapshotMove(w) ==
    pc'[w] \in Holding =>
        \/ pc[w] \in Holding /\ snap'[w] = snap[w]
        \/ /\ pc[w] = "list"
           /\ snap'[w] = [status |-> status, output |-> output]
           /\ pc'[w] = AfterList(snap'[w])
           /\ UNCHANGED <<status, inst, endNotices>>

\* ... and every step of the system moves the snapshots so.
LEMMA SnapshotMoves ==
  ASSUME TypeOK, [Next]_vars
  PROVE  \A v \in Workers : SnapshotMove(v)
<1> USE DEF TypeOK, TypeOfCalls, PCs, Holding, IsFunctionOn, SnapshotMove, db, local, world
<1>1. ASSUME NEW w \in Workers, StartInstance(w) PROVE \A v \in Workers : SnapshotMove(v)
  BY <1>1 DEF StartInstance, Goto, AfterInsert
<1>2. ASSUME NEW w \in Workers, NEW s \in Steps, NEW doc \in Outputs, TriggerStep(w, s, doc)
      PROVE  \A v \in Workers : SnapshotMove(v)
  BY <1>2 DEF TriggerStep, Goto, Carry
<1>3. ASSUME NEW w \in Workers, NEW s \in Steps, CreateStep(w, s)
      PROVE  \A v \in Workers : SnapshotMove(v)
  BY <1>3 DEF CreateStep, Goto, AfterInsert
<1>4. ASSUME NEW w \in Workers, CompleteStep(w) PROVE \A v \in Workers : SnapshotMove(v)
  BY <1>4 DEF CompleteStep, Goto, Carry
<1>5. ASSUME NEW w \in Workers, Publish(w) PROVE \A v \in Workers : SnapshotMove(v)
  BY <1>5 DEF Publish, Goto, Carry
<1>6. ASSUME NEW w \in Workers, ListSteps(w) PROVE \A v \in Workers : SnapshotMove(v)
  BY <1>6 DEF ListSteps, Goto, Hold, AfterList
<1>7. ASSUME NEW w \in Workers, ClaimInstanceTerminal(w)
      PROVE  \A v \in Workers : SnapshotMove(v)
  BY <1>7 DEF ClaimInstanceTerminal, Goto, Hold, EndStatus
<1>8. ASSUME NEW w \in Workers, DispatchEnd(w) PROVE \A v \in Workers : SnapshotMove(v)
  BY <1>8 DEF DispatchEnd, Goto, Hold, EndStatus
<1>9. ASSUME NEW w \in Workers, ScanDone(w) PROVE \A v \in Workers : SnapshotMove(v)
  BY <1>9 DEF ScanDone, Goto, Hold
<1>10. ASSUME NEW w \in Workers, NEW s \in Steps, ClaimManual(w, s)
       PROVE  \A v \in Workers : SnapshotMove(v)
  BY <1>10 DEF ClaimManual, Claim, AtStep, ClaimedStatus, Goto, Hold, Carry
<1>11. ASSUME NEW w \in Workers, NEW s \in Steps, ClaimAuto(w, s)
       PROVE  \A v \in Workers : SnapshotMove(v)
  BY <1>11 DEF ClaimAuto, Claim, AtStep, ClaimedStatus, Goto, Hold, Carry
<1>12. ASSUME NEW w \in Workers, NEW s \in Steps, ClaimQueueTi(w, s)
       PROVE  \A v \in Workers : SnapshotMove(v)
  BY <1>12 DEF ClaimQueueTi, Claim, AtStep, ClaimedStatus, Goto, Hold, Carry
<1>13. ASSUME NEW w \in Workers, NEW s \in Steps, ClaimHTTP(w, s)
       PROVE  \A v \in Workers : SnapshotMove(v)
  BY <1>13 DEF ClaimHTTP, Claim, AtStep, ClaimedStatus, Goto, Hold, Carry
<1>14. ASSUME NEW w \in Workers, NEW s \in Steps, ClaimLost(w, s)
       PROVE  \A v \in Workers : SnapshotMove(v)
  BY <1>14 DEF ClaimLost, AtStep, Hold
<1>15. ASSUME NEW w \in Workers, DispatchWaiting(w) PROVE \A v \in Workers : SnapshotMove(v)
  BY <1>15 DEF DispatchWaiting, Goto, Carry
<1>16. ASSUME NEW w \in Workers, Watch(w) PROVE \A v \in Workers : SnapshotMove(v)
  BY <1>16 DEF Watch, Goto, Carry
<1>17. ASSUME NEW w \in Workers, HTTPCall(w) PROVE \A v \in Workers : SnapshotMove(v)
  BY <1>17 DEF HTTPCall, Goto, Carry
<1>18. ASSUME NEW w \in Workers, FailStep(w) PROVE \A v \in Workers : SnapshotMove(v)
  BY <1>18 DEF FailStep, Goto, Carry
<1>19. ASSUME NEW w \in Workers, NotifyStateChange(w)
       PROVE  \A v \in Workers : SnapshotMove(v)
  BY <1>19 DEF NotifyStateChange, Goto, Forget, Carry, Hold
<1>20. ASSUME NEW w \in Workers, Crash(w) PROVE \A v \in Workers : SnapshotMove(v)
  BY <1>20 DEF Crash, Cut, Goto, Forget, Carry, Hold
<1>21. ASSUME NEW w \in Workers, AdvanceError(w) PROVE \A v \in Workers : SnapshotMove(v)
  BY <1>21 DEF AdvanceError, Cut, Goto, Carry, Hold
<1>22. CASE UNCHANGED vars
  BY <1>22 DEF vars
<1> QED
  BY <1>1, <1>2, <1>3, <1>4, <1>5, <1>6, <1>7, <1>8, <1>9, <1>10, <1>11, <1>12, <1>13,
     <1>14, <1>15, <1>16, <1>17, <1>18, <1>19, <1>20, <1>21, <1>22
  DEF Next, Step, Scan

\* Nothing changes the definition; two statements write the instance's status.
LEMMA DefinitionLasts == [Next]_vars => def' = def
  BY DEF Next, vars, Step, Scan, StartInstance, TriggerStep, CreateStep, CompleteStep,
     Publish,
     ListSteps, ClaimInstanceTerminal, DispatchEnd, ScanDone, ClaimManual, ClaimAuto,
     ClaimQueueTi, ClaimHTTP, Claim, ClaimLost, DispatchWaiting, Watch, HTTPCall, FailStep,
     NotifyStateChange, Crash, AdvanceError

\* The two statements that write the instance's status.
LEMMA InstanceWriters ==
  ASSUME [Next]_vars
  PROVE  \/ UNCHANGED inst
         \/ \E w \in Workers : StartInstance(w) \/ ClaimInstanceTerminal(w)
  BY DEF Next, vars, db, Step, Scan, TriggerStep, CreateStep, CompleteStep, Publish,
     ListSteps, DispatchEnd, ScanDone, ClaimManual, ClaimAuto,
     ClaimQueueTi, ClaimHTTP, Claim, ClaimLost, DispatchWaiting, Watch, HTTPCall, FailStep,
     NotifyStateChange, Crash, AdvanceError

\* What a step of the system can do to the instance.
InstanceMove ==
    \/ inst' = inst
    \/ inst = "absent" /\ inst' = "running" /\ UNCHANGED status
    \/ /\ inst = "running"
       /\ UNCHANGED status
       /\ \E w \in Workers : pc[w] = "terminate" /\ inst' = EndStatus(snap[w])

\* ... and every step of the system moves the instance's status so.
LEMMA InstanceMoves ==
  ASSUME [Next]_vars
  PROVE  InstanceMove
<1>1. ASSUME NEW w \in Workers, StartInstance(w) PROVE InstanceMove
  BY <1>1 DEF StartInstance, InstanceMove
<1>2. ASSUME NEW w \in Workers, ClaimInstanceTerminal(w) PROVE InstanceMove
  BY <1>2 DEF ClaimInstanceTerminal, InstanceMove
<1> QED
  BY <1>1, <1>2, InstanceWriters DEF InstanceMove

-----------------------------------------------------------------------------
\* One lemma for each part of the inductive invariant

\* A claim is justified, and the dependencies it relied on stay completed.
LEMMA DepsBeforeStepKept ==
  ASSUME IInv, [Next]_vars
  PROVE  DepsBeforeStep'
<1> SUFFICES ASSUME NEW s \in Steps, Activated(s)', NEW t \in def.dependsOn[s]
             PROVE  status'[t] = "completed"
  BY DefinitionLasts DEF DepsBeforeStep
<1>1. t \in Steps
  BY DefinitionsAssumption DEF IInv, TypeOK, TypeOfDatabase, DefinitionType
<1>2. status[t] = "completed"
  <2>1. StatusMove(s)
    BY StatusMoves DEF IInv
  <2> QED
    BY <2>1 DEF StatusMove, Activated, IInv, DepsBeforeStep, WaitingStatuses
<1> QED
  BY <1>1, <1>2, StatusLasts DEF IInv, EndStatuses

\* A claim picks the status by trigger type; only http steps fail.
LEMMA StatusFitsTriggerKept ==
  ASSUME IInv, [Next]_vars
  PROVE  StatusFitsTrigger'
<1> SUFFICES ASSUME NEW s \in Steps
             PROVE  /\ status'[s] \in WaitingStatuses => def.trigger[s] \in ByOthers
                    /\ status'[s] = "running" => def.trigger[s] \in ByEngine
                    /\ status'[s] = "failed" => def.trigger[s] = "http"
  BY DefinitionLasts DEF StatusFitsTrigger
<1>1. def.trigger[s] \in TriggerTypes
  BY DefinitionsAssumption DEF IInv, TypeOK, TypeOfDatabase, DefinitionType
<1>2. StatusMove(s)
  BY StatusMoves DEF IInv
<1> QED
  BY <1>1, <1>2
  DEF IInv, StatusFitsTrigger, StatusMove, ClaimedStatus, TriggerTypes, ByEngine, ByOthers,
      WaitingStatuses

\* A snapshot is true when it is taken; what is over stays over afterwards.
LEMMA SnapshotsSoundKept ==
  ASSUME IInv, [Next]_vars
  PROVE  SnapshotsSound'
<1> SUFFICES ASSUME NEW w \in Workers, pc'[w] \in Holding, NEW s \in Steps
             PROVE  /\ snap'[w].status[s] # "absent"
                    /\ snap'[w].status[s] \in EndStatuses => status'[s] = snap'[w].status[s]
  BY DEF SnapshotsSound
<1>1. SnapshotMove(w)
  BY SnapshotMoves DEF IInv
<1>2. status[s] \in EndStatuses => status'[s] = status[s]
  BY StatusLasts DEF IInv
<1>3. CASE pc[w] \in Holding /\ snap'[w] = snap[w]
  BY <1>2, <1>3 DEF IInv, SnapshotsSound
<1>4. CASE pc[w] = "list" /\ snap'[w] = [status |-> status, output |-> output]
  BY <1>2, <1>4 DEF IInv, RowsFirst
<1> QED
  BY <1>1, <1>3, <1>4 DEF SnapshotMove

\* The verdict of a snapshot without missing rows is the verdict on the rows.
LEMMA VerdictIsTrue ==
  ASSUME TypeOK, SnapshotsSound, VerdictsSound, NEW w \in Workers, pc[w] \in {"terminate", "ended"}
  PROVE  /\ EndStatus(snap[w]) = "completed" => \A s \in Steps : status[s] = "completed"
         /\ EndStatus(snap[w]) = "failed" => \E s \in Steps : status[s] = "failed"
<1>1. pc[w] \in Holding /\ (AnyFailed(snap[w]) \/ AllDone(snap[w]))
  BY DEF Holding, VerdictsSound
<1>2. CASE AnyFailed(snap[w])
  BY <1>1, <1>2 DEF AnyFailed, EndStatus, SnapshotsSound, EndStatuses
<1>3. CASE ~AnyFailed(snap[w])
  BY <1>1, <1>3 DEF AnyFailed, AllDone, EndStatus, SnapshotsSound, EndStatuses
<1> QED
  BY <1>2, <1>3

\* Whoever ends the instance carries a sound verdict, which stays true.
LEMMA TerminalTruthfulKept ==
  ASSUME IInv, [Next]_vars
  PROVE  TerminalTruthful'
<1>1. ASSUME NEW s \in Steps, status[s] \in EndStatuses PROVE status'[s] = status[s]
  BY <1>1, StatusLasts DEF IInv
<1>2. CASE inst' = inst
  BY <1>1, <1>2 DEF IInv, TerminalTruthful, EndStatuses
<1>3. CASE inst' = "running"
  BY <1>3 DEF TerminalTruthful
<1>4. ASSUME NEW w \in Workers, pc[w] = "terminate", inst' = EndStatus(snap[w]), UNCHANGED status
      PROVE  TerminalTruthful'
  BY <1>4, VerdictIsTrue DEF IInv, TerminalTruthful, EndStatus
<1> QED
  BY <1>2, <1>3, <1>4, InstanceMoves DEF InstanceMove

\* No call lists or claims before the last row is inserted.
LEMMA RowsFirstKept ==
  ASSUME IInv, [Next]_vars
  PROVE  RowsFirst'
<1> USE DEF IInv, TypeOK, TypeOfDatabase, TypeOfCalls, PCs
<1>1. ASSUME NEW s \in Steps, status[s] # "absent" PROVE status'[s] # "absent"
  BY <1>1, StatusLasts
<1>2. ASSUME inst # "absent" PROVE inst' # "absent"
  BY <1>2, InstanceMoves DEF InstanceMove, EndStatus
<1>3. ASSUME NEW w \in Workers, pc[w] \notin {"idle", "create"} PROVE RowsFirst'
  BY <1>1, <1>2, <1>3 DEF RowsFirst
<1>4. ASSUME NEW w \in Workers, StartInstance(w) PROVE RowsFirst'
  BY <1>4 DEF StartInstance, Goto, AfterInsert, RowsFirst, Steps
<1>5. ASSUME NEW w \in Workers, NEW s \in Steps, NEW doc \in Outputs, TriggerStep(w, s, doc)
      PROVE  RowsFirst'
  BY <1>1, <1>2, <1>5 DEF TriggerStep, Triggerable, RowsFirst
<1>6. ASSUME NEW w \in Workers, NEW s \in Steps, CreateStep(w, s) PROVE RowsFirst'
  <2>1. inst' # "absent"
    BY <1>2, <1>6 DEF CreateStep, RowsFirst
  <2>2. CASE s = NumSteps
    <3>1. \A t \in Steps : status'[t] # "absent"
      BY <1>6, <2>2, NumStepsAssumption DEF CreateStep, Steps
    <3> QED
      BY <2>1, <3>1 DEF RowsFirst
  <2>3. CASE s # NumSteps
    BY <1>6, <2>1, <2>3 DEF CreateStep, Goto, AfterInsert, RowsFirst
  <2> QED
    BY <2>2, <2>3
<1>7. ASSUME NEW w \in Workers, Crash(w) PROVE RowsFirst'
  BY <1>7 DEF Crash, Cut, Goto, RowsFirst, db
<1>8. CASE UNCHANGED vars
  BY <1>8 DEF vars, db, RowsFirst
<1>9. ASSUME NEW w \in Workers, Step(w) \/ AdvanceError(w), ~\E s \in Steps : CreateStep(w, s)
      PROVE  pc[w] \notin {"idle", "create"}
  BY <1>9 DEF Step, Scan, CompleteStep, Publish, ListSteps, ClaimInstanceTerminal,
     DispatchEnd, ScanDone, ClaimManual, ClaimAuto, ClaimQueueTi, ClaimHTTP, Claim, ClaimLost,
     AtStep, DispatchWaiting, Watch, HTTPCall, FailStep, NotifyStateChange, AdvanceError,
     AdvanceStatement
<1> QED
  BY <1>3, <1>4, <1>5, <1>6, <1>7, <1>8, <1>9 DEF Next

\* A won claim makes its call the only one that executes the step.
LEMMA ExecutorsOwnKept ==
  ASSUME IInv, [Next]_vars
  PROVE  ExecutorsOwn'
<1>0. def.trigger \in [Steps -> TriggerTypes]
  BY DefinitionsAssumption DEF IInv, TypeOK, TypeOfDatabase, DefinitionType
<1> USE <1>0, DefinitionLasts
    DEF IInv, TypeOK, TypeOfDatabase, TypeOfCalls, IsFunctionOn, PCs, AtWork, ExecutorsOwn,
        ByEngine, ByOthers, WaitingStatuses, TriggerTypes, db, local, world
<1>1. ASSUME NEW w \in Workers, StartInstance(w) PROVE ExecutorsOwn'
  BY <1>1 DEF StartInstance, Goto, AfterInsert
<1>2. ASSUME NEW w \in Workers, NEW s \in Steps, NEW doc \in Outputs, TriggerStep(w, s, doc)
      PROVE  ExecutorsOwn'
  BY <1>2 DEF StatusFitsTrigger, Triggerable, TriggerStep, Goto, Carry
<1>3. ASSUME NEW w \in Workers, NEW s \in Steps, CreateStep(w, s) PROVE ExecutorsOwn'
  BY <1>3 DEF CreateStep, Goto, AfterInsert
<1>4. ASSUME NEW w \in Workers, CompleteStep(w) PROVE ExecutorsOwn'
  BY <1>4 DEF CompleteStep, Goto, Carry
<1>5. ASSUME NEW w \in Workers, Publish(w) PROVE ExecutorsOwn'
  BY <1>5 DEF Publish, Goto, Carry
<1>6. ASSUME NEW w \in Workers, ListSteps(w) PROVE ExecutorsOwn'
  BY <1>6 DEF ListSteps, Goto, Hold, AfterList
<1>7. ASSUME NEW w \in Workers, ClaimInstanceTerminal(w) PROVE ExecutorsOwn'
  BY <1>7 DEF ClaimInstanceTerminal, Goto, Hold, EndStatus
<1>8. ASSUME NEW w \in Workers, DispatchEnd(w) PROVE ExecutorsOwn'
  BY <1>8 DEF DispatchEnd, Goto, Hold, EndStatus
<1>9. ASSUME NEW w \in Workers, ScanDone(w) PROVE ExecutorsOwn'
  BY <1>9 DEF ScanDone, Goto, Hold
<1>10. ASSUME NEW w \in Workers, NEW s \in Steps, ClaimManual(w, s) PROVE ExecutorsOwn'
  BY <1>10 DEF ClaimManual, Claim, AtStep, ClaimedStatus, Goto, Hold, Carry
<1>11. ASSUME NEW w \in Workers, NEW s \in Steps, ClaimAuto(w, s) PROVE ExecutorsOwn'
  BY <1>11 DEF ClaimAuto, Claimable, Claim, AtStep, ClaimedStatus, Goto, Hold, Carry
<1>12. ASSUME NEW w \in Workers, NEW s \in Steps, ClaimQueueTi(w, s) PROVE ExecutorsOwn'
  BY <1>12 DEF ClaimQueueTi, Claim, AtStep, ClaimedStatus, Goto, Hold, Carry
<1>13. ASSUME NEW w \in Workers, NEW s \in Steps, ClaimHTTP(w, s) PROVE ExecutorsOwn'
  BY <1>13 DEF ClaimHTTP, Claimable, Claim, AtStep, ClaimedStatus, Goto, Hold, Carry
<1>14. ASSUME NEW w \in Workers, NEW s \in Steps, ClaimLost(w, s) PROVE ExecutorsOwn'
  BY <1>14 DEF ClaimLost, AtStep, Hold
<1>15. ASSUME NEW w \in Workers, DispatchWaiting(w) PROVE ExecutorsOwn'
  BY <1>15 DEF DispatchWaiting, Goto, Carry
<1>16. ASSUME NEW w \in Workers, Watch(w) PROVE ExecutorsOwn'
  BY <1>16 DEF Watch, Goto, Carry
<1>17. ASSUME NEW w \in Workers, HTTPCall(w) PROVE ExecutorsOwn'
  BY <1>17 DEF HTTPCall, Goto, Carry
<1>18. ASSUME NEW w \in Workers, FailStep(w) PROVE ExecutorsOwn'
  BY <1>18 DEF FailStep, Goto, Carry
<1>19. ASSUME NEW w \in Workers, NotifyStateChange(w) PROVE ExecutorsOwn'
  BY <1>19 DEF NotifyStateChange, Goto, Forget, Carry, Hold
<1>20. ASSUME NEW w \in Workers, Crash(w) PROVE ExecutorsOwn'
  BY <1>20 DEF Crash, Cut, Goto, Forget, Carry, Hold
<1>21. ASSUME NEW w \in Workers, AdvanceError(w) PROVE ExecutorsOwn'
  BY <1>21 DEF AdvanceError, Cut, Goto, Carry, Hold
<1>22. CASE UNCHANGED vars
  BY <1>22 DEF vars
<1> QED
  BY <1>1, <1>2, <1>3, <1>4, <1>5, <1>6, <1>7, <1>8, <1>9, <1>10, <1>11, <1>12, <1>13,
     <1>14, <1>15, <1>16, <1>17, <1>18, <1>19, <1>20, <1>21, <1>22
  DEF Next, Step, Scan

\* One call wins the instance and owes, alone, the one notification of the end.
LEMMA VerdictsSoundKept ==
  ASSUME IInv, [Next]_vars
  PROVE  VerdictsSound' /\ EndNoticeOnce'
<1> USE DEF IInv, TypeOK, TypeOfDatabase, TypeOfWorld, TypeOfCalls, IsFunctionOn, PCs, Holding,
        VerdictsSound, EndNoticeOnce, EndStatuses, db, local, world
<1>1. ASSUME NEW w \in Workers, StartInstance(w) PROVE VerdictsSound' /\ EndNoticeOnce'
  BY <1>1 DEF RowsFirst, StartInstance, Goto, AfterInsert
<1>2. ASSUME NEW w \in Workers, NEW s \in Steps, NEW doc \in Outputs, TriggerStep(w, s, doc)
      PROVE  VerdictsSound' /\ EndNoticeOnce'
  BY <1>2 DEF TriggerStep, Goto, Carry
<1>3. ASSUME NEW w \in Workers, NEW s \in Steps, CreateStep(w, s)
      PROVE  VerdictsSound' /\ EndNoticeOnce'
  BY <1>3 DEF CreateStep, Goto, AfterInsert
<1>4. ASSUME NEW w \in Workers, CompleteStep(w) PROVE VerdictsSound' /\ EndNoticeOnce'
  BY <1>4 DEF CompleteStep, Goto, Carry
<1>5. ASSUME NEW w \in Workers, Publish(w) PROVE VerdictsSound' /\ EndNoticeOnce'
  BY <1>5 DEF Publish, Goto, Carry
<1>6. ASSUME NEW w \in Workers, ListSteps(w) PROVE VerdictsSound' /\ EndNoticeOnce'
  BY <1>6 DEF ListSteps, Goto, Hold, AfterList
<1>7. ASSUME NEW w \in Workers, ClaimInstanceTerminal(w)
      PROVE  VerdictsSound' /\ EndNoticeOnce'
  BY <1>7 DEF ClaimInstanceTerminal, Goto, Hold, EndStatus
<1>8. ASSUME NEW w \in Workers, DispatchEnd(w) PROVE VerdictsSound' /\ EndNoticeOnce'
  BY <1>8 DEF DispatchEnd, Goto, Hold, EndStatus
<1>9. ASSUME NEW w \in Workers, ScanDone(w) PROVE VerdictsSound' /\ EndNoticeOnce'
  BY <1>9 DEF ScanDone, Goto, Hold
<1>10. ASSUME NEW w \in Workers, NEW s \in Steps, ClaimManual(w, s)
       PROVE  VerdictsSound' /\ EndNoticeOnce'
  BY <1>10 DEF ClaimManual, Claim, AtStep, ClaimedStatus, Goto, Hold, Carry
<1>11. ASSUME NEW w \in Workers, NEW s \in Steps, ClaimAuto(w, s)
       PROVE  VerdictsSound' /\ EndNoticeOnce'
  BY <1>11 DEF ClaimAuto, Claim, AtStep, ClaimedStatus, Goto, Hold, Carry
<1>12. ASSUME NEW w \in Workers, NEW s \in Steps, ClaimQueueTi(w, s)
       PROVE  VerdictsSound' /\ EndNoticeOnce'
  BY <1>12 DEF ClaimQueueTi, Claim, AtStep, ClaimedStatus, Goto, Hold, Carry
<1>13. ASSUME NEW w \in Workers, NEW s \in Steps, ClaimHTTP(w, s)
       PROVE  VerdictsSound' /\ EndNoticeOnce'
  BY <1>13 DEF ClaimHTTP, Claim, AtStep, ClaimedStatus, Goto, Hold, Carry
<1>14. ASSUME NEW w \in Workers, NEW s \in Steps, ClaimLost(w, s)
       PROVE  VerdictsSound' /\ EndNoticeOnce'
  BY <1>14 DEF ClaimLost, AtStep, Hold
<1>15. ASSUME NEW w \in Workers, DispatchWaiting(w) PROVE VerdictsSound' /\ EndNoticeOnce'
  BY <1>15 DEF DispatchWaiting, Goto, Carry
<1>16. ASSUME NEW w \in Workers, Watch(w) PROVE VerdictsSound' /\ EndNoticeOnce'
  BY <1>16 DEF Watch, Goto, Carry
<1>17. ASSUME NEW w \in Workers, HTTPCall(w) PROVE VerdictsSound' /\ EndNoticeOnce'
  BY <1>17 DEF HTTPCall, Goto, Carry
<1>18. ASSUME NEW w \in Workers, FailStep(w) PROVE VerdictsSound' /\ EndNoticeOnce'
  BY <1>18 DEF FailStep, Goto, Carry
<1>19. ASSUME NEW w \in Workers, NotifyStateChange(w) PROVE VerdictsSound' /\ EndNoticeOnce'
  BY <1>19 DEF NotifyStateChange, Goto, Forget, Carry, Hold
<1>20. ASSUME NEW w \in Workers, Crash(w) PROVE VerdictsSound' /\ EndNoticeOnce'
  BY <1>20 DEF Crash, Cut, Goto, Forget, Carry, Hold
<1>21. ASSUME NEW w \in Workers, AdvanceError(w) PROVE VerdictsSound' /\ EndNoticeOnce'
  BY <1>21 DEF AdvanceError, Cut, Goto, Carry, Hold
<1>22. CASE UNCHANGED vars
  BY <1>22 DEF vars
<1> QED
  BY <1>1, <1>2, <1>3, <1>4, <1>5, <1>6, <1>7, <1>8, <1>9, <1>10, <1>11, <1>12, <1>13,
     <1>14, <1>15, <1>16, <1>17, <1>18, <1>19, <1>20, <1>21, <1>22
  DEF Next, Step, Scan

\* A request or an announcement is due once, after the claim that asks for it.
LEMMA EffectsDueKept ==
  ASSUME IInv, [Next]_vars
  PROVE  EffectsDue' /\ ExecutedOnce'
<1> USE DEF IInv, TypeOK, TypeOfDatabase, TypeOfWorld, TypeOfCalls, IsFunctionOn, PCs, AtWork,
        EffectsDue, ExecutedOnce, ExecutorsOwn, Activated, db, local, world
<1>1. ASSUME NEW w \in Workers, StartInstance(w) PROVE EffectsDue' /\ ExecutedOnce'
  BY <1>1 DEF StartInstance, Goto, AfterInsert
<1>2. ASSUME NEW w \in Workers, NEW s \in Steps, NEW doc \in Outputs, TriggerStep(w, s, doc)
      PROVE  EffectsDue' /\ ExecutedOnce'
  BY <1>2 DEF TriggerStep, Goto, Carry
<1>3. ASSUME NEW w \in Workers, NEW s \in Steps, CreateStep(w, s)
      PROVE  EffectsDue' /\ ExecutedOnce'
  BY <1>3 DEF CreateStep, Goto, AfterInsert
<1>4. ASSUME NEW w \in Workers, CompleteStep(w) PROVE EffectsDue' /\ ExecutedOnce'
  BY <1>4 DEF CompleteStep, Goto, Carry
<1>5. ASSUME NEW w \in Workers, Publish(w) PROVE EffectsDue' /\ ExecutedOnce'
  BY <1>5 DEF Publish, Goto, Carry
<1>6. ASSUME NEW w \in Workers, ListSteps(w) PROVE EffectsDue' /\ ExecutedOnce'
  BY <1>6 DEF ListSteps, Goto, Hold, AfterList
<1>7. ASSUME NEW w \in Workers, ClaimInstanceTerminal(w) PROVE EffectsDue' /\ ExecutedOnce'
  BY <1>7 DEF ClaimInstanceTerminal, Goto, Hold, EndStatus
<1>8. ASSUME NEW w \in Workers, DispatchEnd(w) PROVE EffectsDue' /\ ExecutedOnce'
  BY <1>8 DEF DispatchEnd, Goto, Hold, EndStatus
<1>9. ASSUME NEW w \in Workers, ScanDone(w) PROVE EffectsDue' /\ ExecutedOnce'
  BY <1>9 DEF ScanDone, Goto, Hold
<1>10. ASSUME NEW w \in Workers, NEW s \in Steps, ClaimManual(w, s)
       PROVE  EffectsDue' /\ ExecutedOnce'
  BY <1>10 DEF ClaimManual, Claimable, Claim, AtStep, ClaimedStatus, Goto, Hold, Carry
<1>11. ASSUME NEW w \in Workers, NEW s \in Steps, ClaimAuto(w, s)
       PROVE  EffectsDue' /\ ExecutedOnce'
  BY <1>11 DEF ClaimAuto, Claim, AtStep, ClaimedStatus, Goto, Hold, Carry
<1>12. ASSUME NEW w \in Workers, NEW s \in Steps, ClaimQueueTi(w, s)
       PROVE  EffectsDue' /\ ExecutedOnce'
  BY <1>12 DEF ClaimQueueTi, Claim, AtStep, ClaimedStatus, Goto, Hold, Carry
<1>13. ASSUME NEW w \in Workers, NEW s \in Steps, ClaimHTTP(w, s)
       PROVE  EffectsDue' /\ ExecutedOnce'
  BY <1>13 DEF ClaimHTTP, Claimable, Claim, AtStep, ClaimedStatus, Goto, Hold, Carry
<1>14. ASSUME NEW w \in Workers, NEW s \in Steps, ClaimLost(w, s)
       PROVE  EffectsDue' /\ ExecutedOnce'
  BY <1>14 DEF ClaimLost, AtStep, Hold
<1>15. ASSUME NEW w \in Workers, DispatchWaiting(w) PROVE EffectsDue' /\ ExecutedOnce'
  BY <1>15 DEF DispatchWaiting, Goto, Carry
<1>16. ASSUME NEW w \in Workers, Watch(w) PROVE EffectsDue' /\ ExecutedOnce'
  BY <1>16 DEF Watch, Goto, Carry
<1>17. ASSUME NEW w \in Workers, HTTPCall(w) PROVE EffectsDue' /\ ExecutedOnce'
  BY <1>17 DEF ByEngine, HTTPCall, Goto, Carry
<1>18. ASSUME NEW w \in Workers, FailStep(w) PROVE EffectsDue' /\ ExecutedOnce'
  BY <1>18 DEF FailStep, Goto, Carry
<1>19. ASSUME NEW w \in Workers, NotifyStateChange(w) PROVE EffectsDue' /\ ExecutedOnce'
  BY <1>19 DEF NotifyStateChange, Goto, Forget, Carry, Hold
<1>20. ASSUME NEW w \in Workers, Crash(w) PROVE EffectsDue' /\ ExecutedOnce'
  BY <1>20 DEF Crash, Cut, Goto, Forget, Carry, Hold
<1>21. ASSUME NEW w \in Workers, AdvanceError(w) PROVE EffectsDue' /\ ExecutedOnce'
  BY <1>21 DEF AdvanceError, Cut, Goto, Carry, Hold
<1>22. CASE UNCHANGED vars
  BY <1>22 DEF vars
<1> QED
  BY <1>1, <1>2, <1>3, <1>4, <1>5, <1>6, <1>7, <1>8, <1>9, <1>10, <1>11, <1>12, <1>13,
     <1>14, <1>15, <1>16, <1>17, <1>18, <1>19, <1>20, <1>21, <1>22
  DEF Next, Step, Scan

-----------------------------------------------------------------------------
\* The inductive invariant

\* The inductive invariant holds initially: there is no call and no row.
LEMMA IInvInit == Init => IInv
<1> SUFFICES ASSUME Init PROVE IInv
  OBVIOUS
<1>1. TypeOK
  BY TypeInit
<1>2. RowsFirst /\ SnapshotsSound /\ ExecutorsOwn
  BY DEF Init, RowsFirst, SnapshotsSound, ExecutorsOwn, Holding
<1>3. VerdictsSound /\ EffectsDue /\ EndNoticeOnce /\ ExecutedOnce
  BY DEF Init, VerdictsSound, EffectsDue, EndNoticeOnce, ExecutedOnce, EndStatuses,
     Activated
<1>4. StatusFitsTrigger /\ DepsBeforeStep /\ TerminalTruthful
  BY DEF Init, StatusFitsTrigger, DepsBeforeStep, TerminalTruthful, Activated,
     WaitingStatuses
<1> QED
  BY <1>1, <1>2, <1>3, <1>4 DEF IInv

\* ... and every step of the system keeps all its parts.
LEMMA IInvStep == IInv /\ [Next]_vars => IInv'
  BY TypeStep, RowsFirstKept, SnapshotsSoundKept, StatusFitsTriggerKept, ExecutorsOwnKept,
     VerdictsSoundKept, EffectsDueKept, DepsBeforeStepKept, TerminalTruthfulKept
  DEF IInv

\* What a call relies on at each label holds whatever the others do.
THEOREM Invariance == Spec => []IInv
  BY IInvInit, IInvStep, PTL DEF Spec

-----------------------------------------------------------------------------
\* The safety properties

\* An instance is ended with the verdict its steps deserve.
THEOREM EndsTruthfully == Spec => []TerminalTruthful
<1>1. IInv => TerminalTruthful
  BY DEF IInv
<1> QED
  BY <1>1, Invariance, PTL

\* No step is activated before all it depends on has completed.
THEOREM DependenciesFirst == Spec => []DepsBeforeStep
<1>1. IInv => DepsBeforeStep
  BY DEF IInv
<1> QED
  BY <1>1, Invariance, PTL

\* Each http step is requested, and each manual step announced, at most once.
THEOREM ExecutesOnce == Spec => []ExecutedOnce
<1>1. IInv => ExecutedOnce
  BY DEF IInv
<1> QED
  BY <1>1, Invariance, PTL

\* The end of an instance is announced at most once, and as what it was.
THEOREM EndAnnouncedOnce == Spec => []EndNoticeOnce
<1>1. IInv => EndNoticeOnce
  BY DEF IInv
<1> QED
  BY <1>1, Invariance, PTL

-----------------------------------------------------------------------------
\* Engine implements Workflow

\* No row inserted yet is all rows pending.
LEMMA ImplementsInit == Init => W!Init
  BY DEF Init, W!Init, W!Steps, Steps

\* Every statement of a call is a step of the lifecycle or leaves it alone.
LEMMA ImplementsStep ==
  ASSUME IInv, [Next]_vars
  PROVE  [W!Next]_W!vars
<1> USE DEF IInv, TypeOK, TypeOfDatabase, W!Steps, Steps
<1>0. def' = def
  BY DefinitionLasts
<1>1. CASE UNCHANGED status
  <2>1. CASE inst' = inst
    BY <1>0, <1>1, <2>1 DEF W!vars
  <2>2. CASE inst = "absent" /\ inst' = "running"
    BY <1>0, <1>1, <2>2 DEF W!Next, W!Create
  <2>3. ASSUME NEW w \in Workers, inst = "running", pc[w] = "terminate", inst' = EndStatus(snap[w])
        PROVE  W!Finish
    BY <1>0, <1>1, <2>3, VerdictIsTrue DEF W!Finish, EndStatus
  <2> QED
    BY <2>1, <2>2, <2>3, InstanceMoves DEF InstanceMove, W!Next
<1>2. ASSUME NEW w \in Workers, CompleteStep(w) PROVE [W!Next]_W!vars
  <2>1. PICK s \in Steps : s = cur[w]
    BY <1>2 DEF CompleteStep, TypeOfCalls, AtWork
  <2>2. inst' = inst /\ status' = [status EXCEPT ![s] = "completed"]
    BY <1>2, <2>1 DEF CompleteStep
  <2>3. CASE status[s] = "completed"
    BY <1>0, <2>2, <2>3 DEF W!vars
  <2>4. CASE status[s] \in WaitingStatuses \union {"running"}
    <3>1. W!Complete(s)
      BY <1>0, <2>2, <2>4 DEF W!Complete, W!WaitingStatuses, WaitingStatuses
    <3> QED
      BY <3>1 DEF W!Next
  <2>5. StatusMove(s)
    BY StatusMoves
  <2> QED
    BY <2>2, <2>3, <2>4, <2>5 DEF StatusMove, ClaimedStatus
<1>3. ASSUME NEW w \in Workers, FailStep(w) PROVE [W!Next]_W!vars
  <2>1. PICK s \in Steps : s = cur[w]
    BY <1>3 DEF FailStep, TypeOfCalls, AtWork
  <2>2. inst' = inst /\ status' = [status EXCEPT ![s] = "failed"]
    BY <1>3, <2>1 DEF FailStep
  <2>3. status[s] = "running" /\ def.trigger[s] = "http"
    BY <1>3, <2>1 DEF FailStep, ExecutorsOwn, ByEngine
  <2>4. W!Fail(s)
    BY <1>0, <2>2, <2>3 DEF W!Fail
  <2> QED
    BY <2>4 DEF W!Next
<1>4. ASSUME NEW w \in Workers, NEW s \in Steps, CreateStep(w, s) PROVE [W!Next]_W!vars
  BY <1>0, <1>4 DEF CreateStep, W!vars
<1>5. ASSUME NEW w \in Workers, NEW s \in Steps, Claim(w, s) PROVE [W!Next]_W!vars
  <2>1. status[s] = "pending" /\ \A t \in def.dependsOn[s] : status[t] = "completed"
    BY <1>5, ClaimIsJustified
  <2>2. inst' = inst /\ status' = [status EXCEPT ![s] = ClaimedStatus(def.trigger[s])]
    BY <1>5 DEF Claim
  <2>3. inst \notin {"absent", "completed"}
    BY <2>1 DEF RowsFirst, TerminalTruthful
  <2>4. def.dependsOn[s] \subseteq Steps
    BY DefinitionsAssumption DEF DefinitionType
  <2>5. W!Activate(s)
    BY <1>0, <2>1, <2>2, <2>3, <2>4 DEF W!Activate, W!ClaimedStatus, ClaimedStatus
  <2> QED
    BY <2>5 DEF W!Next
<1> QED
  BY <1>1, <1>2, <1>3, <1>4, <1>5, StatusWriters

\* Every behaviour of the calls is one of the atomic lifecycle.
THEOREM Refinement == Spec => Implements
<1>1. IInv /\ [Next]_vars => [W!Next]_W!vars
  BY ImplementsStep
<1> QED
  BY <1>1, ImplementsInit, Invariance, PTL DEF Spec, Implements, W!Spec

-----------------------------------------------------------------------------
(***************************************************************************)
(* What no race loses: as long as no call is cut short, some call is about *)
(* to do whatever has to be done.                                          *)
(***************************************************************************)

\* Rows are missing only while StartInstance is at its inserts.
LEMMA InsertingKept ==
  ASSUME IInv, SomebodyActs, faults = 0, faults' = 0, [Next]_vars
  PROVE  Inserting'
<1> USE DefinitionLasts, StepsNat
    DEF IInv, TypeOK, TypeOfDatabase, TypeOfWorld, TypeOfCalls, IsFunctionOn, PCs,
        AtWork, SomebodyActs, Inserting, RowsFirst, db, local, world
<1>1. ASSUME NEW w \in Workers, StartInstance(w) PROVE Inserting'
  <2>1. CASE NumSteps = 0
    BY <1>1, <2>1 DEF StartInstance, Steps
  <2>2. CASE NumSteps # 0
    BY <1>1, <2>2 DEF StartInstance, Goto, AfterInsert
  <2> QED
    BY <2>1, <2>2
<1>2. ASSUME NEW w \in Workers, NEW s \in Steps, NEW doc \in Outputs, TriggerStep(w, s, doc)
      PROVE  Inserting'
  BY <1>2 DEF TriggerStep, Goto, Carry
<1>3. ASSUME NEW w \in Workers, NEW s \in Steps, CreateStep(w, s) PROVE Inserting'
  <2>1. CASE s = NumSteps
    <3>1. \A t \in Steps : status'[t] # "absent"
      BY <1>3, <2>1, NumStepsAssumption DEF CreateStep, Steps
    <3> QED
      BY <3>1
  <2>2. CASE s # NumSteps
    BY <1>3, <2>2 DEF CreateStep, Goto, AfterInsert
  <2> QED
    BY <2>1, <2>2
<1>4. ASSUME NEW w \in Workers, CompleteStep(w) PROVE Inserting'
  BY <1>4 DEF CompleteStep, Goto, Carry
<1>5. ASSUME NEW w \in Workers, Publish(w) PROVE Inserting'
  BY <1>5 DEF Publish, Goto, Carry
<1>6. ASSUME NEW w \in Workers, ListSteps(w) PROVE Inserting'
  BY <1>6 DEF ListSteps, Goto, Hold, AfterList
<1>7. ASSUME NEW w \in Workers, ClaimInstanceTerminal(w) PROVE Inserting'
  BY <1>7 DEF ClaimInstanceTerminal, Goto, Hold, EndStatus
<1>8. ASSUME NEW w \in Workers, DispatchEnd(w) PROVE Inserting'
  BY <1>8 DEF DispatchEnd, Goto, Hold, EndStatus
<1>9. ASSUME NEW w \in Workers, ScanDone(w) PROVE Inserting'
  BY <1>9 DEF ScanDone, Goto, Hold
<1>10. ASSUME NEW w \in Workers, NEW s \in Steps, ClaimManual(w, s) PROVE Inserting'
  BY <1>10 DEF ClaimManual, Claim, AtStep, ClaimedStatus, Goto, Hold, Carry
<1>11. ASSUME NEW w \in Workers, NEW s \in Steps, ClaimAuto(w, s) PROVE Inserting'
  BY <1>11 DEF ClaimAuto, Claim, AtStep, ClaimedStatus, Goto, Hold, Carry
<1>12. ASSUME NEW w \in Workers, NEW s \in Steps, ClaimQueueTi(w, s) PROVE Inserting'
  BY <1>12 DEF ClaimQueueTi, Claim, AtStep, ClaimedStatus, Goto, Hold, Carry
<1>13. ASSUME NEW w \in Workers, NEW s \in Steps, ClaimHTTP(w, s) PROVE Inserting'
  BY <1>13 DEF ClaimHTTP, Claim, AtStep, ClaimedStatus, Goto, Hold, Carry
<1>14. ASSUME NEW w \in Workers, NEW s \in Steps, ClaimLost(w, s) PROVE Inserting'
  BY <1>14 DEF ClaimLost, AtStep, Hold
<1>15. ASSUME NEW w \in Workers, DispatchWaiting(w) PROVE Inserting'
  BY <1>15 DEF DispatchWaiting, Goto, Carry
<1>16. ASSUME NEW w \in Workers, Watch(w) PROVE Inserting'
  BY <1>16 DEF Watch, Goto, Carry
<1>17. ASSUME NEW w \in Workers, HTTPCall(w) PROVE Inserting'
  BY <1>17 DEF HTTPCall, Goto, Carry
<1>18. ASSUME NEW w \in Workers, FailStep(w) PROVE Inserting'
  BY <1>18 DEF FailStep, Goto, Carry
<1>19. ASSUME NEW w \in Workers, NotifyStateChange(w) PROVE Inserting'
  BY <1>19 DEF NotifyStateChange, Goto, Forget, Carry, Hold
<1>20. ASSUME NEW w \in Workers, Crash(w) PROVE Inserting'
  BY <1>20 DEF Crash, Cut, Goto, Forget, Carry, Hold
<1>21. ASSUME NEW w \in Workers, AdvanceError(w) PROVE Inserting'
  BY <1>21 DEF AdvanceError, Cut, Goto, Carry, Hold
<1>22. CASE UNCHANGED vars
  BY <1>22 DEF vars
<1> QED
  BY <1>1, <1>2, <1>3, <1>4, <1>5, <1>6, <1>7, <1>8, <1>9, <1>10, <1>11, <1>12, <1>13,
     <1>14, <1>15, <1>16, <1>17, <1>18, <1>19, <1>20, <1>21, <1>22
  DEF Next, Step, Scan

\* A running step has the call that claimed it.
LEMMA ExecutingKept ==
  ASSUME IInv, SomebodyActs, faults = 0, faults' = 0, [Next]_vars
  PROVE  Executing'
<1> USE DefinitionLasts, StepsNat
    DEF IInv, TypeOK, TypeOfDatabase, TypeOfWorld, TypeOfCalls, IsFunctionOn, PCs,
        AtWork, WaitingStatuses, SomebodyActs, Executing, db, local, world
<1>1. ASSUME NEW w \in Workers, StartInstance(w) PROVE Executing'
  BY <1>1 DEF StartInstance, Goto, AfterInsert
<1>2. ASSUME NEW w \in Workers, NEW s \in Steps, NEW doc \in Outputs, TriggerStep(w, s, doc)
      PROVE  Executing'
  BY <1>2 DEF TriggerStep, Goto, Carry
<1>3. ASSUME NEW w \in Workers, NEW s \in Steps, CreateStep(w, s) PROVE Executing'
  BY <1>3 DEF CreateStep, Goto, AfterInsert
<1>4. ASSUME NEW w \in Workers, CompleteStep(w) PROVE Executing'
  BY <1>4 DEF CompleteStep, Goto, Carry
<1>5. ASSUME NEW w \in Workers, Publish(w) PROVE Executing'
  BY <1>5 DEF Publish, Goto, Carry
<1>6. ASSUME NEW w \in Workers, ListSteps(w) PROVE Executing'
  BY <1>6 DEF ListSteps, Goto, Hold, AfterList
<1>7. ASSUME NEW w \in Workers, ClaimInstanceTerminal(w) PROVE Executing'
  BY <1>7 DEF ClaimInstanceTerminal, Goto, Hold, EndStatus
<1>8. ASSUME NEW w \in Workers, DispatchEnd(w) PROVE Executing'
  BY <1>8 DEF DispatchEnd, Goto, Hold, EndStatus
<1>9. ASSUME NEW w \in Workers, ScanDone(w) PROVE Executing'
  BY <1>9 DEF ScanDone, Goto, Hold
<1>10. ASSUME NEW w \in Workers, NEW s \in Steps, ClaimManual(w, s) PROVE Executing'
  BY <1>10 DEF ClaimManual, Claim, AtStep, ClaimedStatus, Goto, Hold, Carry
<1>11. ASSUME NEW w \in Workers, NEW s \in Steps, ClaimAuto(w, s) PROVE Executing'
  BY <1>11 DEF ClaimAuto, Claim, AtStep, ClaimedStatus, Goto, Hold, Carry
<1>12. ASSUME NEW w \in Workers, NEW s \in Steps, ClaimQueueTi(w, s) PROVE Executing'
  BY <1>12 DEF ClaimQueueTi, Claim, AtStep, ClaimedStatus, Goto, Hold, Carry
<1>13. ASSUME NEW w \in Workers, NEW s \in Steps, ClaimHTTP(w, s) PROVE Executing'
  BY <1>13 DEF ClaimHTTP, Claim, AtStep, ClaimedStatus, Goto, Hold, Carry
<1>14. ASSUME NEW w \in Workers, NEW s \in Steps, ClaimLost(w, s) PROVE Executing'
  BY <1>14 DEF ClaimLost, AtStep, Hold
<1>15. ASSUME NEW w \in Workers, DispatchWaiting(w) PROVE Executing'
  BY <1>15 DEF DispatchWaiting, Goto, Carry
<1>16. ASSUME NEW w \in Workers, Watch(w) PROVE Executing'
  BY <1>16 DEF Watch, Goto, Carry
<1>17. ASSUME NEW w \in Workers, HTTPCall(w) PROVE Executing'
  BY <1>17 DEF HTTPCall, Goto, Carry
<1>18. ASSUME NEW w \in Workers, FailStep(w) PROVE Executing'
  BY <1>18 DEF FailStep, Goto, Carry
<1>19. ASSUME NEW w \in Workers, NotifyStateChange(w) PROVE Executing'
  BY <1>19 DEF NotifyStateChange, Goto, Forget, Carry, Hold
<1>20. ASSUME NEW w \in Workers, Crash(w) PROVE Executing'
  BY <1>20 DEF Crash, Cut, Goto, Forget, Carry, Hold
<1>21. ASSUME NEW w \in Workers, AdvanceError(w) PROVE Executing'
  BY <1>21 DEF AdvanceError, Cut, Goto, Carry, Hold
<1>22. CASE UNCHANGED vars
  BY <1>22 DEF vars
<1> QED
  BY <1>1, <1>2, <1>3, <1>4, <1>5, <1>6, <1>7, <1>8, <1>9, <1>10, <1>11, <1>12, <1>13,
     <1>14, <1>15, <1>16, <1>17, <1>18, <1>19, <1>20, <1>21, <1>22
  DEF Next, Step, Scan

\* A waiting step was announced, or its call is about to.
LEMMA AnnouncingKept ==
  ASSUME IInv, SomebodyActs, faults = 0, faults' = 0, [Next]_vars
  PROVE  Announcing'
<1> USE DefinitionLasts, StepsNat
    DEF IInv, TypeOK, TypeOfDatabase, TypeOfWorld, TypeOfCalls, IsFunctionOn, PCs,
        AtWork, WaitingStatuses, EffectsDue, SomebodyActs, Announcing, db, local, world
<1>1. ASSUME NEW w \in Workers, StartInstance(w) PROVE Announcing'
  BY <1>1 DEF StartInstance, Goto, AfterInsert
<1>2. ASSUME NEW w \in Workers, NEW s \in Steps, NEW doc \in Outputs, TriggerStep(w, s, doc)
      PROVE  Announcing'
  BY <1>2 DEF TriggerStep, Goto, Carry
<1>3. ASSUME NEW w \in Workers, NEW s \in Steps, CreateStep(w, s) PROVE Announcing'
  BY <1>3 DEF CreateStep, Goto, AfterInsert
<1>4. ASSUME NEW w \in Workers, CompleteStep(w) PROVE Announcing'
  BY <1>4 DEF CompleteStep, Goto, Carry
<1>5. ASSUME NEW w \in Workers, Publish(w) PROVE Announcing'
  BY <1>5 DEF Publish, Goto, Carry
<1>6. ASSUME NEW w \in Workers, ListSteps(w) PROVE Announcing'
  BY <1>6 DEF ListSteps, Goto, Hold, AfterList
<1>7. ASSUME NEW w \in Workers, ClaimInstanceTerminal(w) PROVE Announcing'
  BY <1>7 DEF ClaimInstanceTerminal, Goto, Hold, EndStatus
<1>8. ASSUME NEW w \in Workers, DispatchEnd(w) PROVE Announcing'
  BY <1>8 DEF DispatchEnd, Goto, Hold, EndStatus
<1>9. ASSUME NEW w \in Workers, ScanDone(w) PROVE Announcing'
  BY <1>9 DEF ScanDone, Goto, Hold
<1>10. ASSUME NEW w \in Workers, NEW s \in Steps, ClaimManual(w, s) PROVE Announcing'
  BY <1>10 DEF ClaimManual, Claim, AtStep, ClaimedStatus, Goto, Hold, Carry
<1>11. ASSUME NEW w \in Workers, NEW s \in Steps, ClaimAuto(w, s) PROVE Announcing'
  BY <1>11 DEF ClaimAuto, Claim, AtStep, ClaimedStatus, Goto, Hold, Carry
<1>12. ASSUME NEW w \in Workers, NEW s \in Steps, ClaimQueueTi(w, s) PROVE Announcing'
  BY <1>12 DEF ClaimQueueTi, Claim, AtStep, ClaimedStatus, Goto, Hold, Carry
<1>13. ASSUME NEW w \in Workers, NEW s \in Steps, ClaimHTTP(w, s) PROVE Announcing'
  BY <1>13 DEF ClaimHTTP, Claim, AtStep, ClaimedStatus, Goto, Hold, Carry
<1>14. ASSUME NEW w \in Workers, NEW s \in Steps, ClaimLost(w, s) PROVE Announcing'
  BY <1>14 DEF ClaimLost, AtStep, Hold
<1>15. ASSUME NEW w \in Workers, DispatchWaiting(w) PROVE Announcing'
  BY <1>15 DEF DispatchWaiting, Goto, Carry
<1>16. ASSUME NEW w \in Workers, Watch(w) PROVE Announcing'
  BY <1>16 DEF Watch, Goto, Carry
<1>17. ASSUME NEW w \in Workers, HTTPCall(w) PROVE Announcing'
  BY <1>17 DEF HTTPCall, Goto, Carry
<1>18. ASSUME NEW w \in Workers, FailStep(w) PROVE Announcing'
  BY <1>18 DEF FailStep, Goto, Carry
<1>19. ASSUME NEW w \in Workers, NotifyStateChange(w) PROVE Announcing'
  BY <1>19 DEF NotifyStateChange, Goto, Forget, Carry, Hold
<1>20. ASSUME NEW w \in Workers, Crash(w) PROVE Announcing'
  BY <1>20 DEF Crash, Cut, Goto, Forget, Carry, Hold
<1>21. ASSUME NEW w \in Workers, AdvanceError(w) PROVE Announcing'
  BY <1>21 DEF AdvanceError, Cut, Goto, Carry, Hold
<1>22. CASE UNCHANGED vars
  BY <1>22 DEF vars
<1> QED
  BY <1>1, <1>2, <1>3, <1>4, <1>5, <1>6, <1>7, <1>8, <1>9, <1>10, <1>11, <1>12, <1>13,
     <1>14, <1>15, <1>16, <1>17, <1>18, <1>19, <1>20, <1>21, <1>22
  DEF Next, Step, Scan

\* The loop stops at the first row it has found ready.
LEMMA StopsAtFirst ==
  ASSUME TypeOK, NEW w \in Workers, NEW s \in Steps, NEW t \in Steps,
         AtStep(w, s), pos[w] <= t, Ready(w, t), t # s
  PROVE  t > s
<1>1. pos[w] \in Nat /\ s \in Nat /\ t \in Nat
  BY StepsNat DEF TypeOK, TypeOfCalls
<1>2. t \notin pos[w] .. s - 1
  BY DEF AtStep
<1> QED
  BY <1>1, <1>2

\* A step that is due will be reached: by the call that made it due, which lists
\* the rows after it, or by one whose snapshot showed it so.
LEMMA ActivatingKept ==
  ASSUME IInv, SomebodyActs, faults = 0, faults' = 0, [Next]_vars
  PROVE  Activating'
<1>0. /\ def' = def
      /\ def.dependsOn \in [Steps -> SUBSET Steps]
      /\ \A s \in Steps : ClaimedStatus(def.trigger[s]) \notin {"pending", "completed"}
  BY DefinitionLasts, DefinitionsAssumption
  DEF IInv, TypeOK, TypeOfDatabase, DefinitionType, ClaimedStatus
<1> USE <1>0, StepsNat
    DEF IInv, TypeOK, TypeOfDatabase, TypeOfWorld, TypeOfCalls, IsFunctionOn, PCs,
        AtWork, SomebodyActs, WillList, Looping, Reaches, Due, Activating, db, local, world
<1>1. ASSUME NEW w \in Workers, StartInstance(w) PROVE Activating'
  BY <1>1 DEF RowsFirst, StartInstance, Goto, AfterInsert
<1>2. ASSUME NEW w \in Workers, NEW s \in Steps, NEW doc \in Outputs, TriggerStep(w, s, doc)
      PROVE  Activating'
  BY <1>2 DEF Ready, TriggerStep, Goto, Carry
<1>3. ASSUME NEW w \in Workers, NEW s \in Steps, CreateStep(w, s) PROVE Activating'
  BY <1>3 DEF Ready, CreateStep, Goto, AfterInsert
<1>4. ASSUME NEW w \in Workers, CompleteStep(w) PROVE Activating'
  BY <1>4 DEF Ready, CompleteStep, Goto, Carry
<1>5. ASSUME NEW w \in Workers, Publish(w) PROVE Activating'
  BY <1>5 DEF Ready, Publish, Goto, Carry
<1>6. ASSUME NEW w \in Workers, ListSteps(w) PROVE Activating'
  <2> SUFFICES ASSUME NEW t \in Steps, Due(t)' PROVE Reaches(w, t)'
    BY DEF Activating
  <2>1. t >= 1 /\ pos'[w] = 1 /\ snap'[w] = [status |-> status, output |-> output]
    BY <1>6 DEF ListSteps, Hold, Steps
  <2>2. pc'[w] \in {"terminate", "scan"}
    BY <1>6 DEF ListSteps, Goto, AfterList
  <2>3. Ready(w, t)'
    BY <1>6, <2>1 DEF ListSteps, Ready, DepsCompleted, CompletedSet
  <2> QED
    BY <2>1, <2>2, <2>3
<1>7. ASSUME NEW w \in Workers, ClaimInstanceTerminal(w) PROVE Activating'
  BY <1>7 DEF ClaimInstanceTerminal, Goto, Hold, EndStatus
<1>8. ASSUME NEW w \in Workers, DispatchEnd(w) PROVE Activating'
  <2> SUFFICES ASSUME NEW t \in Steps, Due(t)' PROVE \E v \in Workers : Reaches(v, t)'
    BY DEF Activating
  <2>1. Due(t)
    BY <1>8 DEF DispatchEnd, Goto, Hold
  <2>2. PICK v \in Workers : Reaches(v, t)
    BY <2>1 DEF Activating
  <2>3. CASE v # w
    BY <1>8, <2>2, <2>3 DEF Ready, DispatchEnd, Goto, Hold
  <2>4. CASE v = w
    BY <1>8, <2>2, <2>4 DEF DispatchEnd
  <2> QED
    BY <2>3, <2>4
<1>9. ASSUME NEW w \in Workers, ScanDone(w) PROVE Activating'
  <2> SUFFICES ASSUME NEW t \in Steps, Due(t)' PROVE \E v \in Workers : Reaches(v, t)'
    BY DEF Activating
  <2>1. Due(t)
    BY <1>9 DEF ScanDone, Goto, Hold
  <2>2. PICK v \in Workers : Reaches(v, t)
    BY <2>1 DEF Activating
  <2>3. CASE v # w
    BY <1>9, <2>2, <2>3 DEF Ready, ScanDone, Goto, Hold
  <2>4. CASE v = w
    BY <1>9, <2>2, <2>4 DEF ScanDone
  <2> QED
    BY <2>3, <2>4
<1>10. ASSUME NEW w \in Workers, NEW s \in Steps, ClaimManual(w, s) PROVE Activating'
  <2> SUFFICES ASSUME NEW t \in Steps, Due(t)' PROVE \E v \in Workers : Reaches(v, t)'
    BY DEF Activating
  <2>1. Due(t)
    BY <1>10 DEF ClaimManual, Claim, Claimable, AtStep, Goto, Hold, Carry
  <2>2. PICK v \in Workers : Reaches(v, t)
    BY <2>1 DEF Activating
  <2>3. CASE v # w
    BY <1>10, <2>2, <2>3 DEF Ready, ClaimManual, Claim, Claimable, AtStep, Goto, Hold, Carry
  <2>4. CASE v = w
    <3>1. pos'[w] = s + 1 /\ pc'[w] = "notify" /\ snap'[w] = snap[w]
      BY <1>10 DEF ClaimManual, Goto, Hold
    <3>2. pos[w] <= t /\ Ready(w, t) /\ t # s
      BY <1>10, <2>1, <2>2, <2>4 DEF ClaimManual, Claim, Claimable, AtStep
    <3>3. AtStep(w, s)
      BY <1>10 DEF ClaimManual, Claim
    <3>4. t > s
      BY <3>2, <3>3, StopsAtFirst
    <3> QED
      BY <2>4, <3>1, <3>2, <3>4 DEF Ready
  <2> QED
    BY <2>3, <2>4
<1>11. ASSUME NEW w \in Workers, NEW s \in Steps, ClaimAuto(w, s) PROVE Activating'
  BY <1>11 DEF Ready, Claimable, ClaimAuto, Claim, AtStep, Goto, Hold, Carry
<1>12. ASSUME NEW w \in Workers, NEW s \in Steps, ClaimQueueTi(w, s) PROVE Activating'
  <2> SUFFICES ASSUME NEW t \in Steps, Due(t)' PROVE \E v \in Workers : Reaches(v, t)'
    BY DEF Activating
  <2>1. Due(t)
    BY <1>12 DEF ClaimQueueTi, Claim, Claimable, AtStep, Goto, Hold, Carry
  <2>2. PICK v \in Workers : Reaches(v, t)
    BY <2>1 DEF Activating
  <2>3. CASE v # w
    BY <1>12, <2>2, <2>3 DEF Ready, ClaimQueueTi, Claim, Claimable, AtStep, Goto, Hold,
       Carry
  <2>4. CASE v = w
    <3>1. pos'[w] = s + 1 /\ pc'[w] = "watch" /\ snap'[w] = snap[w]
      BY <1>12 DEF ClaimQueueTi, Goto, Hold
    <3>2. pos[w] <= t /\ Ready(w, t) /\ t # s
      BY <1>12, <2>1, <2>2, <2>4 DEF ClaimQueueTi, Claim, Claimable, AtStep
    <3>3. AtStep(w, s)
      BY <1>12 DEF ClaimQueueTi, Claim
    <3>4. t > s
      BY <3>2, <3>3, StopsAtFirst
    <3> QED
      BY <2>4, <3>1, <3>2, <3>4 DEF Ready
  <2> QED
    BY <2>3, <2>4
<1>13. ASSUME NEW w \in Workers, NEW s \in Steps, ClaimHTTP(w, s) PROVE Activating'
  BY <1>13 DEF Ready, Claimable, ClaimHTTP, Claim, AtStep, Goto, Hold, Carry
<1>14. ASSUME NEW w \in Workers, NEW s \in Steps, ClaimLost(w, s) PROVE Activating'
  <2> SUFFICES ASSUME NEW t \in Steps, Due(t)' PROVE \E v \in Workers : Reaches(v, t)'
    BY DEF Activating
  <2>1. Due(t)
    BY <1>14 DEF ClaimLost, Claimable, AtStep, Hold
  <2>2. PICK v \in Workers : Reaches(v, t)
    BY <2>1 DEF Activating
  <2>3. CASE v # w
    BY <1>14, <2>2, <2>3 DEF Ready, ClaimLost, Claimable, AtStep, Hold
  <2>4. CASE v = w
    <3>1. pos'[w] = s + 1 /\ pc'[w] = "scan" /\ snap'[w] = snap[w]
      BY <1>14 DEF ClaimLost, AtStep, Goto, Hold
    <3>2. pos[w] <= t /\ Ready(w, t) /\ t # s
      BY <1>14, <2>1, <2>2, <2>4 DEF ClaimLost, Claimable, AtStep, Hold
    <3>3. AtStep(w, s)
      BY <1>14 DEF ClaimLost, AtStep, Claim
    <3>4. t > s
      BY <3>2, <3>3, StopsAtFirst
    <3> QED
      BY <2>4, <3>1, <3>2, <3>4 DEF Ready
  <2> QED
    BY <2>3, <2>4
<1>15. ASSUME NEW w \in Workers, DispatchWaiting(w) PROVE Activating'
  BY <1>15 DEF Ready, DispatchWaiting, Goto, Carry
<1>16. ASSUME NEW w \in Workers, Watch(w) PROVE Activating'
  BY <1>16 DEF Ready, Watch, Goto, Carry
<1>17. ASSUME NEW w \in Workers, HTTPCall(w) PROVE Activating'
  BY <1>17 DEF Ready, HTTPCall, Goto, Carry
<1>18. ASSUME NEW w \in Workers, FailStep(w) PROVE Activating'
  BY <1>18 DEF Ready, FailStep, Goto, Carry
<1>19. ASSUME NEW w \in Workers, NotifyStateChange(w) PROVE Activating'
  <2> SUFFICES ASSUME NEW t \in Steps, Due(t)' PROVE \E v \in Workers : Reaches(v, t)'
    BY DEF Activating
  <2>1. Due(t)
    BY <1>19 DEF NotifyStateChange, Goto, Forget, Carry, Hold
  <2>2. PICK v \in Workers : Reaches(v, t)
    BY <2>1 DEF Activating
  <2>3. CASE v # w
    BY <1>19, <2>2, <2>3 DEF Ready, NotifyStateChange, Goto, Forget, Carry, Hold
  <2>4. CASE v = w
    BY <1>19, <2>2, <2>4 DEF NotifyStateChange
  <2> QED
    BY <2>3, <2>4
<1>20. ASSUME NEW w \in Workers, Crash(w) PROVE Activating'
  BY <1>20 DEF Crash, Cut, Goto, Forget, Carry, Hold
<1>21. ASSUME NEW w \in Workers, AdvanceError(w) PROVE Activating'
  BY <1>21 DEF AdvanceError, Cut, Goto, Carry, Hold
<1>22. CASE UNCHANGED vars
  BY <1>22 DEF vars, Ready
<1> QED
  BY <1>1, <1>2, <1>3, <1>4, <1>5, <1>6, <1>7, <1>8, <1>9, <1>10, <1>11, <1>12, <1>13,
     <1>14, <1>15, <1>16, <1>17, <1>18, <1>19, <1>20, <1>21, <1>22
  DEF Next, Step, Scan

\* The last completion, or a failure, lists the rows and sees the verdict.
LEMMA EndingKept ==
  ASSUME IInv, SomebodyActs, faults = 0, faults' = 0, [Next]_vars
  PROVE  Ending'
<1> USE DefinitionLasts, StepsNat
    DEF IInv, TypeOK, TypeOfDatabase, TypeOfWorld, TypeOfCalls, IsFunctionOn, PCs,
        AtWork, SomebodyActs, WillList, Ending, db, local, world
<1>1. ASSUME NEW w \in Workers, StartInstance(w) PROVE Ending'
  BY <1>1 DEF RowsFirst, StartInstance, Goto, AfterInsert
<1>2. ASSUME NEW w \in Workers, NEW s \in Steps, NEW doc \in Outputs, TriggerStep(w, s, doc)
      PROVE  Ending'
  BY <1>2 DEF TriggerStep, Goto, Carry
<1>3. ASSUME NEW w \in Workers, NEW s \in Steps, CreateStep(w, s) PROVE Ending'
  BY <1>3 DEF CreateStep, Goto, AfterInsert
<1>4. ASSUME NEW w \in Workers, CompleteStep(w) PROVE Ending'
  BY <1>4 DEF CompleteStep, Goto, Carry
<1>5. ASSUME NEW w \in Workers, Publish(w) PROVE Ending'
  BY <1>5 DEF Publish, Goto, Carry
<1>6. ASSUME NEW w \in Workers, ListSteps(w) PROVE Ending'
  <2> DEFINE rows == [status |-> status, output |-> output]
  <2>1. CASE AnyFailed(rows) \/ AllDone(rows)
    BY <1>6, <2>1 DEF ListSteps, Goto, AfterList
  <2>2. CASE ~AnyFailed(rows) /\ ~AllDone(rows)
    BY <1>6, <2>2 DEF ListSteps, AnyFailed, AllDone
  <2> QED
    BY <2>1, <2>2
<1>7. ASSUME NEW w \in Workers, ClaimInstanceTerminal(w) PROVE Ending'
  BY <1>7 DEF ClaimInstanceTerminal, Goto, Hold, EndStatus
<1>8. ASSUME NEW w \in Workers, DispatchEnd(w) PROVE Ending'
  BY <1>8 DEF DispatchEnd, Goto, Hold, EndStatus
<1>9. ASSUME NEW w \in Workers, ScanDone(w) PROVE Ending'
  BY <1>9 DEF ScanDone, Goto, Hold
<1>10. ASSUME NEW w \in Workers, NEW s \in Steps, ClaimManual(w, s) PROVE Ending'
  BY <1>10 DEF ClaimManual, Claim, AtStep, ClaimedStatus, Goto, Hold, Carry
<1>11. ASSUME NEW w \in Workers, NEW s \in Steps, ClaimAuto(w, s) PROVE Ending'
  BY <1>11 DEF ClaimAuto, Claim, AtStep, ClaimedStatus, Goto, Hold, Carry
<1>12. ASSUME NEW w \in Workers, NEW s \in Steps, ClaimQueueTi(w, s) PROVE Ending'
  BY <1>12 DEF ClaimQueueTi, Claim, AtStep, ClaimedStatus, Goto, Hold, Carry
<1>13. ASSUME NEW w \in Workers, NEW s \in Steps, ClaimHTTP(w, s) PROVE Ending'
  BY <1>13 DEF ClaimHTTP, Claim, AtStep, ClaimedStatus, Goto, Hold, Carry
<1>14. ASSUME NEW w \in Workers, NEW s \in Steps, ClaimLost(w, s) PROVE Ending'
  BY <1>14 DEF ClaimLost, AtStep, Hold
<1>15. ASSUME NEW w \in Workers, DispatchWaiting(w) PROVE Ending'
  BY <1>15 DEF DispatchWaiting, Goto, Carry
<1>16. ASSUME NEW w \in Workers, Watch(w) PROVE Ending'
  BY <1>16 DEF Watch, Goto, Carry
<1>17. ASSUME NEW w \in Workers, HTTPCall(w) PROVE Ending'
  BY <1>17 DEF HTTPCall, Goto, Carry
<1>18. ASSUME NEW w \in Workers, FailStep(w) PROVE Ending'
  BY <1>18 DEF FailStep, Goto, Carry
<1>19. ASSUME NEW w \in Workers, NotifyStateChange(w) PROVE Ending'
  BY <1>19 DEF NotifyStateChange, Goto, Forget, Carry, Hold
<1>20. ASSUME NEW w \in Workers, Crash(w) PROVE Ending'
  BY <1>20 DEF Crash, Cut, Goto, Forget, Carry, Hold
<1>21. ASSUME NEW w \in Workers, AdvanceError(w) PROVE Ending'
  BY <1>21 DEF AdvanceError, Cut, Goto, Carry, Hold
<1>22. CASE UNCHANGED vars
  BY <1>22 DEF vars
<1> QED
  BY <1>1, <1>2, <1>3, <1>4, <1>5, <1>6, <1>7, <1>8, <1>9, <1>10, <1>11, <1>12, <1>13,
     <1>14, <1>15, <1>16, <1>17, <1>18, <1>19, <1>20, <1>21, <1>22
  DEF Next, Step, Scan

\* Every way back from a call leads past notifyStateChange.
LEMMA SignallingKept ==
  ASSUME IInv, SomebodyActs, faults = 0, faults' = 0, [Next]_vars
  PROVE  Signalling'
<1> USE DefinitionLasts, StepsNat
    DEF IInv, TypeOK, TypeOfDatabase, TypeOfWorld, TypeOfCalls, IsFunctionOn, PCs,
        AtWork, SomebodyActs, Signalling, db, local, world
<1>1. ASSUME NEW w \in Workers, StartInstance(w) PROVE Signalling'
  BY <1>1 DEF StartInstance, Goto, AfterInsert
<1>2. ASSUME NEW w \in Workers, NEW s \in Steps, NEW doc \in Outputs, TriggerStep(w, s, doc)
      PROVE  Signalling'
  BY <1>2 DEF TriggerStep, Goto, Carry
<1>3. ASSUME NEW w \in Workers, NEW s \in Steps, CreateStep(w, s) PROVE Signalling'
  BY <1>3 DEF CreateStep, Goto, AfterInsert
<1>4. ASSUME NEW w \in Workers, CompleteStep(w) PROVE Signalling'
  BY <1>4 DEF CompleteStep, Goto, Carry
<1>5. ASSUME NEW w \in Workers, Publish(w) PROVE Signalling'
  BY <1>5 DEF Publish, Goto, Carry
<1>6. ASSUME NEW w \in Workers, ListSteps(w) PROVE Signalling'
  BY <1>6 DEF ListSteps, Goto, Hold, AfterList
<1>7. ASSUME NEW w \in Workers, ClaimInstanceTerminal(w) PROVE Signalling'
  BY <1>7 DEF ClaimInstanceTerminal, Goto, Hold, EndStatus
<1>8. ASSUME NEW w \in Workers, DispatchEnd(w) PROVE Signalling'
  BY <1>8 DEF DispatchEnd, Goto, Hold, EndStatus
<1>9. ASSUME NEW w \in Workers, ScanDone(w) PROVE Signalling'
  BY <1>9 DEF ScanDone, Goto, Hold
<1>10. ASSUME NEW w \in Workers, NEW s \in Steps, ClaimManual(w, s) PROVE Signalling'
  BY <1>10 DEF ClaimManual, Claim, AtStep, ClaimedStatus, Goto, Hold, Carry
<1>11. ASSUME NEW w \in Workers, NEW s \in Steps, ClaimAuto(w, s) PROVE Signalling'
  BY <1>11 DEF ClaimAuto, Claim, AtStep, ClaimedStatus, Goto, Hold, Carry
<1>12. ASSUME NEW w \in Workers, NEW s \in Steps, ClaimQueueTi(w, s) PROVE Signalling'
  BY <1>12 DEF ClaimQueueTi, Claim, AtStep, ClaimedStatus, Goto, Hold, Carry
<1>13. ASSUME NEW w \in Workers, NEW s \in Steps, ClaimHTTP(w, s) PROVE Signalling'
  BY <1>13 DEF ClaimHTTP, Claim, AtStep, ClaimedStatus, Goto, Hold, Carry
<1>14. ASSUME NEW w \in Workers, NEW s \in Steps, ClaimLost(w, s) PROVE Signalling'
  BY <1>14 DEF ClaimLost, AtStep, Hold
<1>15. ASSUME NEW w \in Workers, DispatchWaiting(w) PROVE Signalling'
  BY <1>15 DEF DispatchWaiting, Goto, Carry
<1>16. ASSUME NEW w \in Workers, Watch(w) PROVE Signalling'
  BY <1>16 DEF Watch, Goto, Carry
<1>17. ASSUME NEW w \in Workers, HTTPCall(w) PROVE Signalling'
  BY <1>17 DEF HTTPCall, Goto, Carry
<1>18. ASSUME NEW w \in Workers, FailStep(w) PROVE Signalling'
  BY <1>18 DEF FailStep, Goto, Carry
<1>19. ASSUME NEW w \in Workers, NotifyStateChange(w) PROVE Signalling'
  BY <1>19 DEF NotifyStateChange, Goto, Forget, Carry, Hold
<1>20. ASSUME NEW w \in Workers, Crash(w) PROVE Signalling'
  BY <1>20 DEF Crash, Cut, Goto, Forget, Carry, Hold
<1>21. ASSUME NEW w \in Workers, AdvanceError(w) PROVE Signalling'
  BY <1>21 DEF AdvanceError, Cut, Goto, Carry, Hold
<1>22. CASE UNCHANGED vars
  BY <1>22 DEF vars
<1> QED
  BY <1>1, <1>2, <1>3, <1>4, <1>5, <1>6, <1>7, <1>8, <1>9, <1>10, <1>11, <1>12, <1>13,
     <1>14, <1>15, <1>16, <1>17, <1>18, <1>19, <1>20, <1>21, <1>22
  DEF Next, Step, Scan

-----------------------------------------------------------------------------
\* Nothing is under way before the first call.
LEMMA PInvInit == Init => PInv
  BY DEF Init, PInv, SomebodyActs, Inserting, Executing, Announcing, Activating, Due, Ending,
     Signalling

\* Calls are only ever cut short, never mended.
LEMMA FaultsLast == TypeOK /\ [Next]_vars /\ faults' = 0 => faults = 0
<1> SUFFICES ASSUME TypeOK, [Next]_vars PROVE faults' = faults \/ faults' = faults + 1
  BY MaxFaultsAssumption DEF TypeOK, TypeOfWorld
<1> QED
  BY DEF Next, vars, Step, Scan, StartInstance, TriggerStep, CreateStep, CompleteStep, Publish,
     ListSteps, ClaimInstanceTerminal, DispatchEnd, ScanDone, ClaimManual, ClaimAuto,
     ClaimQueueTi, ClaimHTTP, Claim, ClaimLost, DispatchWaiting, Watch, HTTPCall, FailStep,
     NotifyStateChange, Crash, AdvanceError, Cut

\* As long as no call is cut short every step of the system keeps all parts.
LEMMA PInvStep == IInv /\ PInv /\ [Next]_vars => PInv'
<1> SUFFICES ASSUME IInv, PInv, [Next]_vars, faults' = 0 PROVE SomebodyActs'
  BY DEF PInv
<1>1. faults = 0 /\ SomebodyActs
  BY FaultsLast DEF IInv, PInv
<1> QED
  BY <1>1, InsertingKept, ExecutingKept, AnnouncingKept, ActivatingKept, EndingKept,
     SignallingKept
  DEF SomebodyActs

\* Whatever has to be done, some call is about to do it.
THEOREM Progress == Spec => []PInv
  BY Invariance, PInvInit, PInvStep, PTL DEF Spec

\* When all calls are back, no step that could run is left behind.
THEOREM NothingIsStranded == Spec => []NothingStranded
<1>1. IInv /\ PInv => NothingStranded
  <2> SUFFICES ASSUME IInv, SomebodyActs, Quiescent, inst # "absent", NEW s \in Steps
               PROVE  /\ status[s] \notin {"absent", "running"}
                      /\ status[s] = "pending" /\ inst = "running" =>
                           ~DepsCompleted(def, s, CompletedSet([status |-> status]))
                      /\ status[s] = "waiting_queueti" => s \in watching
                      /\ status[s] = "waiting_manual" => stepNotices[s] = 1
    BY DEF NothingStranded, PInv
  <2>1. status[s] \notin {"absent", "running"}
    BY DEF SomebodyActs, Inserting, Executing, Quiescent
  <2>2. ~Due(s)
    BY DEF SomebodyActs, Activating, Reaches, Looping, WillList, Quiescent
  <2>3. DepsCompleted(def, s, CompletedSet([status |-> status])) =>
           \A t \in def.dependsOn[s] : status[t] = "completed"
    BY DEF DepsCompleted, CompletedSet
  <2>4. /\ status[s] = "waiting_queueti" => s \in watching
        /\ status[s] = "waiting_manual" => stepNotices[s] = 1
    BY DEF SomebodyActs, Announcing, Quiescent
  <2> QED
    BY <2>1, <2>2, <2>3, <2>4 DEF Due
<1> QED
  BY <1>1, Invariance, Progress, PTL

\* ... and an instance that still runs waits for an answer: its pending steps
\* wait for others, and without a knot not all of them for each other.
THEOREM RunningIsWaiting == Spec => []RunningMeansWaiting
<1>1. IInv /\ PInv => RunningMeansWaiting
  <2> SUFFICES ASSUME IInv, SomebodyActs, Quiescent, inst = "running", Acyclic(def),
                      \A s \in Steps : status[s] \notin WaitingStatuses
               PROVE  FALSE
    BY DEF RunningMeansWaiting, PInv
  <2> DEFINE C == {s \in Steps : status[s] = "pending"}
  <2>1. \A s \in Steps : status[s] \notin {"absent", "running"} /\ ~Due(s)
    BY DEF SomebodyActs, Inserting, Executing, Activating, Reaches, Looping, WillList, Quiescent
  <2>2. /\ \A s \in Steps : status[s] # "failed"
        /\ ~\A s \in Steps : status[s] = "completed"
    BY DEF SomebodyActs, Ending, WillList, Quiescent
  <2>3. \A s \in Steps : status[s] \in {"pending", "completed"}
    BY <2>1, <2>2 DEF IInv, TypeOK, TypeOfDatabase, RowStatuses, StepStatuses
  <2>4. C # {}
    BY <2>2, <2>3
  <2>5. ASSUME NEW s \in C PROVE def.dependsOn[s] \intersect C # {}
    <3>1. def.dependsOn[s] \subseteq Steps
      BY DefinitionsAssumption DEF IInv, TypeOK, TypeOfDatabase, DefinitionType
    <3> QED
      BY <2>1, <2>3, <3>1 DEF Due
  <2> QED
    BY <2>4, <2>5 DEF Acyclic, Knot
<1> QED
  BY <1>1, Invariance, Progress, PTL

\* ... and the pages were told of every change.
THEOREM ChangesAreSignalled == Spec => []ChangesSignalled
<1>1. PInv => ChangesSignalled
  BY DEF PInv, SomebodyActs, Signalling, ChangesSignalled, Quiescent
<1> QED
  BY <1>1, Progress, PTL
-----------------------------------------------------------------------------
\* Nothing that is not pending becomes pending once the rows are there.
LEMMA StaysTaken ==
  ASSUME IInv, [Next]_vars, NEW w \in Workers, pc[w] \in Looping,
         NEW s \in Steps, status[s] # "pending"
  PROVE  status'[s] # "pending"
<1>1. status[s] # "absent"
  BY DEF IInv, RowsFirst, Looping
<1>2. StatusMove(s)
  BY StatusMoves DEF IInv
<1> QED
  BY <1>1, <1>2 DEF StatusMove, WaitingStatuses

\* How a call gets into the loop of advance, on and out of it.
LoopMove(w) ==
    /\ pc'[w] \in Looping =>
        \/ pc[w] \in Looping /\ snap'[w] = snap[w] /\ pos'[w] = pos[w]
        \/ /\ pc[w] = "list"
           /\ AfterList([status |-> status, output |-> output]) = "scan"
           /\ pos'[w] = 1
        \/ \E s \in Steps :
            /\ AtStep(w, s)
            /\ snap'[w] = snap[w]
            /\ pos'[w] = s + 1
            /\ status'[s] # "pending"
    /\ (pc[w] \in Looping /\ pc'[w] = "signal" /\ faults' = faults) =>
        \A s \in Steps : s >= pos[w] => ~Ready(w, s)

\* ... and every step of the system moves the calls so.
LEMMA LoopMoves ==
  ASSUME TypeOK, [Next]_vars
  PROVE  \A v \in Workers : LoopMove(v)
<1> USE StepsNat
    DEF TypeOK, TypeOfDatabase, TypeOfWorld, TypeOfCalls, PCs, Looping, IsFunctionOn, LoopMove,
        db, local, world
<1>1. ASSUME NEW w \in Workers, StartInstance(w) PROVE \A v \in Workers : LoopMove(v)
  BY <1>1 DEF StartInstance, Goto, AfterInsert
<1>2. ASSUME NEW w \in Workers, NEW s \in Steps, NEW doc \in Outputs, TriggerStep(w, s, doc)
      PROVE  \A v \in Workers : LoopMove(v)
  BY <1>2 DEF TriggerStep, Goto, Carry
<1>3. ASSUME NEW w \in Workers, NEW s \in Steps, CreateStep(w, s)
      PROVE  \A v \in Workers : LoopMove(v)
  BY <1>3 DEF CreateStep, Goto, AfterInsert
<1>4. ASSUME NEW w \in Workers, CompleteStep(w) PROVE \A v \in Workers : LoopMove(v)
  BY <1>4 DEF CompleteStep, Goto, Carry
<1>5. ASSUME NEW w \in Workers, Publish(w) PROVE \A v \in Workers : LoopMove(v)
  BY <1>5 DEF Publish, Goto, Carry
<1>6. ASSUME NEW w \in Workers, ListSteps(w) PROVE \A v \in Workers : LoopMove(v)
  BY <1>6 DEF ListSteps, Goto, Hold, AfterList
<1>7. ASSUME NEW w \in Workers, ClaimInstanceTerminal(w)
      PROVE  \A v \in Workers : LoopMove(v)
  BY <1>7 DEF ClaimInstanceTerminal, Goto, Hold, EndStatus
<1>8. ASSUME NEW w \in Workers, DispatchEnd(w) PROVE \A v \in Workers : LoopMove(v)
  BY <1>8 DEF DispatchEnd, Goto, Hold, EndStatus
<1>9. ASSUME NEW w \in Workers, ScanDone(w) PROVE \A v \in Workers : LoopMove(v)
  BY <1>9 DEF ScanDone, Goto, Hold
<1>10. ASSUME NEW w \in Workers, NEW s \in Steps, ClaimManual(w, s)
       PROVE  \A v \in Workers : LoopMove(v)
  BY <1>10 DEF Claimable, ClaimManual, Claim, AtStep, ClaimedStatus, Goto, Hold, Carry
<1>11. ASSUME NEW w \in Workers, NEW s \in Steps, ClaimAuto(w, s)
       PROVE  \A v \in Workers : LoopMove(v)
  BY <1>11 DEF ClaimAuto, Claim, AtStep, ClaimedStatus, Goto, Hold, Carry
<1>12. ASSUME NEW w \in Workers, NEW s \in Steps, ClaimQueueTi(w, s)
       PROVE  \A v \in Workers : LoopMove(v)
  BY <1>12 DEF Claimable, ClaimQueueTi, Claim, AtStep, ClaimedStatus, Goto, Hold, Carry
<1>13. ASSUME NEW w \in Workers, NEW s \in Steps, ClaimHTTP(w, s)
       PROVE  \A v \in Workers : LoopMove(v)
  BY <1>13 DEF ClaimHTTP, Claim, AtStep, ClaimedStatus, Goto, Hold, Carry
<1>14. ASSUME NEW w \in Workers, NEW s \in Steps, ClaimLost(w, s)
       PROVE  \A v \in Workers : LoopMove(v)
  BY <1>14 DEF Claimable, ClaimLost, AtStep, Hold
<1>15. ASSUME NEW w \in Workers, DispatchWaiting(w) PROVE \A v \in Workers : LoopMove(v)
  BY <1>15 DEF DispatchWaiting, Goto, Carry
<1>16. ASSUME NEW w \in Workers, Watch(w) PROVE \A v \in Workers : LoopMove(v)
  BY <1>16 DEF Watch, Goto, Carry
<1>17. ASSUME NEW w \in Workers, HTTPCall(w) PROVE \A v \in Workers : LoopMove(v)
  BY <1>17 DEF HTTPCall, Goto, Carry
<1>18. ASSUME NEW w \in Workers, FailStep(w) PROVE \A v \in Workers : LoopMove(v)
  BY <1>18 DEF FailStep, Goto, Carry
<1>19. ASSUME NEW w \in Workers, NotifyStateChange(w) PROVE \A v \in Workers : LoopMove(v)
  BY <1>19 DEF NotifyStateChange, Goto, Forget, Carry, Hold
<1>20. ASSUME NEW w \in Workers, Crash(w) PROVE \A v \in Workers : LoopMove(v)
  BY <1>20 DEF Crash, Cut, Goto, Forget, Carry, Hold
<1>21. ASSUME NEW w \in Workers, AdvanceError(w) PROVE \A v \in Workers : LoopMove(v)
  BY <1>21 DEF AdvanceError, Cut, Goto, Carry, Hold
<1>22. CASE UNCHANGED vars
  BY <1>22 DEF vars
<1> QED
  BY <1>1, <1>2, <1>3, <1>4, <1>5, <1>6, <1>7, <1>8, <1>9, <1>10, <1>11, <1>12, <1>13,
     <1>14, <1>15, <1>16, <1>17, <1>18, <1>19, <1>20, <1>21, <1>22
  DEF Next, Step, Scan

\* What a loop has passed is taken: nothing becomes pending again.
LEMMA PassedIsTakenKept ==
  ASSUME IInv, PassedIsTaken, [Next]_vars
  PROVE  PassedIsTaken'
<1> SUFFICES ASSUME NEW w \in Workers, pc'[w] \in Looping,
                    NEW s \in Steps, s < pos'[w], Ready(w, s)'
             PROVE  status'[s] # "pending"
  BY DEF PassedIsTaken
<1>0. def' = def /\ s \in Nat /\ pos[w] \in Nat
  BY DefinitionLasts, StepsNat DEF IInv, TypeOK, TypeOfCalls
<1>1. LoopMove(w)
  BY LoopMoves DEF IInv
<1>2. CASE pc[w] \in Looping /\ snap'[w] = snap[w] /\ pos'[w] = pos[w]
  <2>1. status[s] # "pending"
    BY <1>0, <1>2 DEF PassedIsTaken, Ready
  <2> QED
    BY <1>2, <2>1, StaysTaken DEF Looping
<1>3. CASE pos'[w] = 1
  BY <1>0, <1>3 DEF Steps
<1>4. ASSUME NEW t \in Steps, AtStep(w, t), snap'[w] = snap[w], pos'[w] = t + 1,
             status'[t] # "pending"
      PROVE  status'[s] # "pending"
  <2>1. Ready(w, s) /\ pc[w] = "scan"
    BY <1>0, <1>4 DEF Ready, AtStep
  <2>2. CASE s = t
    BY <1>4, <2>2
  <2>3. CASE s # t
    <3>0. t \in Nat /\ ~(s > t)
      BY <1>0, <1>4, <2>3, StepsNat
    <3>1. ~(pos[w] <= s)
      BY <1>4, <2>1, <2>3, <3>0, StopsAtFirst DEF IInv
    <3>2. status[s] # "pending"
      BY <1>0, <2>1, <3>1 DEF PassedIsTaken, Looping
    <3> QED
      BY <2>1, <3>2, StaysTaken DEF Looping
  <2> QED
    BY <2>2, <2>3
<1> QED
  BY <1>1, <1>2, <1>3, <1>4 DEF LoopMove

\* A call that is over with its loop has left no step it found ready.
THEOREM NothingIsPassedOver == Spec => NothingPassedOver
<1>1. Init => PassedIsTaken
  BY DEF Init, PassedIsTaken, Looping
<1>2. IInv /\ PassedIsTaken /\ [Next]_vars => PassedIsTaken'
  BY PassedIsTakenKept
<1>3. ASSUME IInv, PassedIsTaken, [Next]_vars, NEW w \in Workers, pc[w] \in Looping,
             pc'[w] = "signal", faults' = faults, NEW s \in Steps, Ready(w, s)
      PROVE  status'[s] # "pending"
  <2>1. ~(s >= pos[w])
    BY <1>3, LoopMoves DEF IInv, LoopMove
  <2>2. s < pos[w]
    <3>1. s \in Nat /\ pos[w] \in Nat
      BY <1>3, StepsNat DEF IInv, TypeOK, TypeOfCalls
    <3> QED
      BY <2>1, <3>1
  <2> QED
    BY <1>3, <2>2, StaysTaken DEF PassedIsTaken
<1>4. IInv /\ PassedIsTaken /\ [Next]_vars =>
        [\A w \in Workers :
          (pc[w] \in Looping /\ pc'[w] = "signal" /\ faults' = faults) =>
              \A s \in Steps : Ready(w, s) => status'[s] # "pending"]_vars
  BY <1>3
<1> QED
  BY <1>1, <1>2, <1>4, Invariance, PTL DEF Spec, NothingPassedOver

-----------------------------------------------------------------------------
\* Once a step has failed and the loops that began before are over, nothing
\* is activated any more.
THEOREM FailuresHalt == Spec => FailureHalts
<1>1. ASSUME IInv, Halted, [Next]_vars
      PROVE  Halted' /\ \A s \in Steps : status[s] = "pending" => status'[s] = "pending"
  <2>1. \E s \in Steps : status'[s] = "failed"
    BY <1>1, StatusLasts DEF IInv, Halted, EndStatuses
  <2>2. AfterList([status |-> status, output |-> output]) # "scan"
    BY <1>1 DEF Halted, AfterList, AnyFailed
  <2>3. \A w \in Workers : pc'[w] \notin Looping
    BY <1>1, <2>2, LoopMoves DEF IInv, Halted, LoopMove, AtStep, Looping
  <2>4. ASSUME NEW s \in Steps, status[s] = "pending" PROVE status'[s] = "pending"
    <3>1. CASE UNCHANGED status
      BY <2>4, <3>1
    <3>2. ASSUME NEW w \in Workers, CompleteStep(w) \/ FailStep(w) PROVE status'[s] = "pending"
      <4>1. StatusMove(s)
        BY <1>1, StatusMoves DEF IInv
      <4>2. PICK x : x \in {"completed", "failed"} /\ status' = [status EXCEPT ![cur[w]] = x]
        BY <3>2 DEF CompleteStep, FailStep
      <4>3. status'[s] \in {status[s], x}
        BY <1>1, <4>2 DEF IInv, TypeOK, TypeOfDatabase
      <4> QED
        BY <2>4, <4>1, <4>2, <4>3 DEF StatusMove, ClaimedStatus, WaitingStatuses
    <3>3. ASSUME NEW w \in Workers, NEW t \in Steps, CreateStep(w, t) \/ Claim(w, t)
          PROVE  status'[s] = "pending"
      BY <1>1, <2>4, <3>3 DEF CreateStep, Claim, AtStep, Halted, Looping, IInv, TypeOK,
         TypeOfDatabase
    <3> QED
      BY <1>1, <3>1, <3>2, <3>3, StatusWriters
  <2> QED
    BY <2>1, <2>3, <2>4 DEF Halted
<1> QED
  BY <1>1, Invariance, PTL DEF Spec, FailureHalts

\* Steps that wait for each other never run, and their instance never
\* completes: the first of them to be activated would have had to come second.
THEOREM KnotsNeverRun == Spec => []CyclesNeverRun
<1>1. Init => CyclesNeverRun
  BY DEF Init, CyclesNeverRun, Activated
<1>2. ASSUME IInv, CyclesNeverRun, [Next]_vars PROVE CyclesNeverRun'
  <2> SUFFICES ASSUME NEW C \in SUBSET Steps, Knot(def, C)
               PROVE  inst' # "completed" /\ \A s \in C : ~Activated(s)'
    BY <1>2, DefinitionLasts DEF CyclesNeverRun
  <2>1. ASSUME NEW s \in C, Activated(s)' PROVE FALSE
    <3>1. ~Activated(s) /\ StatusMove(s)
      BY <1>2, StatusMoves DEF CyclesNeverRun, IInv
    <3>2. \A t \in def.dependsOn[s] : status[t] = "completed"
      BY <2>1, <3>1 DEF StatusMove, Activated, WaitingStatuses
    <3>3. PICK t \in C : t \in def.dependsOn[s]
      BY DEF Knot
    <3> QED
      BY <1>2, <3>2, <3>3 DEF CyclesNeverRun, Activated
  <2>2. inst' # "completed"
    <3>1. PICK s \in C : TRUE
      BY DEF Knot
    <3>2. status'[s] # "completed"
      BY <2>1 DEF Activated
    <3> QED
      BY <1>2, <3>2, TerminalTruthfulKept DEF TerminalTruthful
  <2> QED
    BY <2>1, <2>2
<1> QED
  BY <1>1, <1>2, Invariance, PTL DEF Spec

-----------------------------------------------------------------------------
(***************************************************************************)
(* What steps hand on that one call at a time answers.                     *)
(***************************************************************************)

\* Two calls answer a step at once, or have done so before, only if it is overlapped.
LEMMA AnsweredAloneKept ==
  ASSUME IInv, AnsweredAlone, [Next]_vars
  PROVE  AnsweredAlone'
<1>0. /\ def' = def
      /\ def.trigger \in [Steps -> TriggerTypes]
  BY DefinitionLasts, DefinitionsAssumption DEF IInv, TypeOK, TypeOfDatabase, DefinitionType
<1> USE <1>0
    DEF IInv, TypeOK, TypeOfDatabase, TypeOfWorld, TypeOfCalls, IsFunctionOn, PCs,
        AtWork, AnsweredAlone, ExecutorsOwn, ByEngine, ByOthers, TriggerTypes, db, local,
        world
<1>1. ASSUME NEW w \in Workers, StartInstance(w) PROVE AnsweredAlone'
  BY <1>1 DEF StartInstance, Goto, AfterInsert
<1>2. ASSUME NEW w \in Workers, NEW s \in Steps, NEW doc \in Outputs, TriggerStep(w, s, doc)
      PROVE  AnsweredAlone'
  BY <1>2 DEF Triggerable, BeingAnswered, StatusFitsTrigger, WaitingStatuses,
     TriggerStep, Goto, Carry
<1>3. ASSUME NEW w \in Workers, NEW s \in Steps, CreateStep(w, s) PROVE AnsweredAlone'
  BY <1>3 DEF CreateStep, Goto, AfterInsert
<1>4. ASSUME NEW w \in Workers, CompleteStep(w) PROVE AnsweredAlone'
  BY <1>4 DEF CompleteStep, Goto, Carry
<1>5. ASSUME NEW w \in Workers, Publish(w) PROVE AnsweredAlone'
  BY <1>5 DEF Publish, Goto, Carry
<1>6. ASSUME NEW w \in Workers, ListSteps(w) PROVE AnsweredAlone'
  BY <1>6 DEF ListSteps, Goto, Hold, AfterList
<1>7. ASSUME NEW w \in Workers, ClaimInstanceTerminal(w) PROVE AnsweredAlone'
  BY <1>7 DEF ClaimInstanceTerminal, Goto, Hold, EndStatus
<1>8. ASSUME NEW w \in Workers, DispatchEnd(w) PROVE AnsweredAlone'
  BY <1>8 DEF DispatchEnd, Goto, Hold, EndStatus
<1>9. ASSUME NEW w \in Workers, ScanDone(w) PROVE AnsweredAlone'
  BY <1>9 DEF ScanDone, Goto, Hold
<1>10. ASSUME NEW w \in Workers, NEW s \in Steps, ClaimManual(w, s) PROVE AnsweredAlone'
  BY <1>10 DEF ClaimManual, Claim, AtStep, ClaimedStatus, Goto, Hold, Carry
<1>11. ASSUME NEW w \in Workers, NEW s \in Steps, ClaimAuto(w, s) PROVE AnsweredAlone'
  BY <1>11 DEF Claimable, ClaimAuto, Claim, AtStep, ClaimedStatus, Goto, Hold, Carry
<1>12. ASSUME NEW w \in Workers, NEW s \in Steps, ClaimQueueTi(w, s) PROVE AnsweredAlone'
  BY <1>12 DEF ClaimQueueTi, Claim, AtStep, ClaimedStatus, Goto, Hold, Carry
<1>13. ASSUME NEW w \in Workers, NEW s \in Steps, ClaimHTTP(w, s) PROVE AnsweredAlone'
  BY <1>13 DEF ClaimHTTP, Claim, AtStep, ClaimedStatus, Goto, Hold, Carry
<1>14. ASSUME NEW w \in Workers, NEW s \in Steps, ClaimLost(w, s) PROVE AnsweredAlone'
  BY <1>14 DEF ClaimLost, AtStep, Hold
<1>15. ASSUME NEW w \in Workers, DispatchWaiting(w) PROVE AnsweredAlone'
  BY <1>15 DEF DispatchWaiting, Goto, Carry
<1>16. ASSUME NEW w \in Workers, Watch(w) PROVE AnsweredAlone'
  BY <1>16 DEF Watch, Goto, Carry
<1>17. ASSUME NEW w \in Workers, HTTPCall(w) PROVE AnsweredAlone'
  BY <1>17 DEF HTTPCall, Goto, Carry
<1>18. ASSUME NEW w \in Workers, FailStep(w) PROVE AnsweredAlone'
  BY <1>18 DEF FailStep, Goto, Carry
<1>19. ASSUME NEW w \in Workers, NotifyStateChange(w) PROVE AnsweredAlone'
  BY <1>19 DEF NotifyStateChange, Goto, Forget, Carry, Hold
<1>20. ASSUME NEW w \in Workers, Crash(w) PROVE AnsweredAlone'
  BY <1>20 DEF Crash, Cut, Goto, Forget, Carry, Hold
<1>21. ASSUME NEW w \in Workers, AdvanceError(w) PROVE AnsweredAlone'
  BY <1>21 DEF AdvanceError, Cut, Goto, Carry, Hold
<1>22. CASE UNCHANGED vars
  BY <1>22 DEF vars
<1> QED
  BY <1>1, <1>2, <1>3, <1>4, <1>5, <1>6, <1>7, <1>8, <1>9, <1>10, <1>11, <1>12, <1>13,
     <1>14, <1>15, <1>16, <1>17, <1>18, <1>19, <1>20, <1>21, <1>22
  DEF Next, Step, Scan

\* Three statements write what a step holds.
LEMMA ValueWriters ==
  ASSUME [Next]_vars
  PROVE  \/ UNCHANGED <<input, output>>
         \/ \E w \in Workers : CompleteStep(w) \/ FailStep(w) \/ \E t \in Steps : Claim(w, t)
  BY DEF Next, vars, db, Step, Scan, StartInstance, TriggerStep, CreateStep, Publish,
     ListSteps, ClaimInstanceTerminal, DispatchEnd, ScanDone, ClaimManual, ClaimAuto,
     ClaimQueueTi, ClaimHTTP, ClaimLost, DispatchWaiting, Watch, HTTPCall,
     NotifyStateChange, Crash, AdvanceError

\* That two calls were answering a step at once is not forgotten.
LEMMA OverlapsLast == [Next]_vars => overlapped \subseteq overlapped'
  BY DEF Next, vars, Step, Scan, StartInstance, TriggerStep, CreateStep, CompleteStep,
     Publish, ListSteps, ClaimInstanceTerminal, DispatchEnd, ScanDone, Claim, ClaimManual,
     ClaimAuto, ClaimQueueTi, ClaimHTTP, ClaimLost, DispatchWaiting, Watch, HTTPCall,
     FailStep, NotifyStateChange, Crash, AdvanceError

\* What a completed step holds is not written again, except for the output by
\* another call that was answering it.
LEMMA CompletedKept ==
  ASSUME IInv, AnsweredAlone, [Next]_vars, NEW s \in Steps, status[s] = "completed"
  PROVE  /\ status'[s] = "completed" /\ input'[s] = input[s]
         /\ s \notin overlapped => output'[s] = output[s]
<1> USE DEF IInv, TypeOK, TypeOfDatabase, IsFunctionOn, db
<1>1. status'[s] = "completed"
  BY StatusLasts DEF EndStatuses
<1>2. ASSUME NEW w \in Workers, CompleteStep(w)
      PROVE  input'[s] = input[s] /\ (s \notin overlapped => output'[s] = output[s])
  BY <1>2 DEF CompleteStep, AnsweredAlone
<1>3. ASSUME NEW w \in Workers, FailStep(w)
      PROVE  input'[s] = input[s] /\ (s \notin overlapped => output'[s] = output[s])
  BY <1>3 DEF FailStep, ExecutorsOwn, ByEngine
<1>4. ASSUME NEW w \in Workers, NEW t \in Steps, Claim(w, t)
      PROVE  input'[s] = input[s] /\ (s \notin overlapped => output'[s] = output[s])
  BY <1>4 DEF Claim, Claimable
<1>5. CASE UNCHANGED <<input, output>>
  BY <1>1, <1>5
<1>6. \/ UNCHANGED <<input, output>>
      \/ \E w \in Workers : CompleteStep(w) \/ FailStep(w) \/ \E t \in Steps : Claim(w, t)
  BY ValueWriters
<1> QED
  BY <1>1, <1>2, <1>3, <1>4, <1>5, <1>6

\* How a call gets to its publish: it comes from completeStep with what it
\* carries, and only Publish writes what was published.
PublishMove ==
    /\ \A v \in Workers : pc'[v] = "publish" =>
        /\ pc[v] = "publish" \/ CompleteStep(v)
        /\ cur'[v] = cur[v] /\ out'[v] = out[v]
    /\ published' = published \/ \E w \in Workers : Publish(w)

\* ... and every step of the system moves the calls so.
LEMMA PublishMoves ==
  ASSUME TypeOK, [Next]_vars
  PROVE  PublishMove
<1> USE DEF TypeOK, TypeOfCalls, PCs, IsFunctionOn, PublishMove, db, local, world
<1>1. ASSUME NEW w \in Workers, StartInstance(w) PROVE PublishMove
  BY <1>1 DEF StartInstance, Goto, AfterInsert
<1>2. ASSUME NEW w \in Workers, NEW s \in Steps, NEW doc \in Outputs, TriggerStep(w, s, doc)
      PROVE  PublishMove
  BY <1>2 DEF TriggerStep, Goto, Carry
<1>3. ASSUME NEW w \in Workers, NEW s \in Steps, CreateStep(w, s) PROVE PublishMove
  BY <1>3 DEF CreateStep, Goto, AfterInsert
<1>4. ASSUME NEW w \in Workers, CompleteStep(w) PROVE PublishMove
  BY <1>4 DEF CompleteStep, Goto, Carry
<1>5. ASSUME NEW w \in Workers, Publish(w) PROVE PublishMove
  BY <1>5 DEF Publish, Goto, Carry
<1>6. ASSUME NEW w \in Workers, ListSteps(w) PROVE PublishMove
  BY <1>6 DEF ListSteps, Goto, Hold, AfterList
<1>7. ASSUME NEW w \in Workers, ClaimInstanceTerminal(w) PROVE PublishMove
  BY <1>7 DEF ClaimInstanceTerminal, Goto, Hold, EndStatus
<1>8. ASSUME NEW w \in Workers, DispatchEnd(w) PROVE PublishMove
  BY <1>8 DEF DispatchEnd, Goto, Hold, EndStatus
<1>9. ASSUME NEW w \in Workers, ScanDone(w) PROVE PublishMove
  BY <1>9 DEF ScanDone, Goto, Hold
<1>10. ASSUME NEW w \in Workers, NEW s \in Steps, ClaimManual(w, s) PROVE PublishMove
  BY <1>10 DEF ClaimManual, Claim, AtStep, ClaimedStatus, Goto, Hold, Carry
<1>11. ASSUME NEW w \in Workers, NEW s \in Steps, ClaimAuto(w, s) PROVE PublishMove
  BY <1>11 DEF ClaimAuto, Claim, AtStep, ClaimedStatus, Goto, Hold, Carry
<1>12. ASSUME NEW w \in Workers, NEW s \in Steps, ClaimQueueTi(w, s) PROVE PublishMove
  BY <1>12 DEF ClaimQueueTi, Claim, AtStep, ClaimedStatus, Goto, Hold, Carry
<1>13. ASSUME NEW w \in Workers, NEW s \in Steps, ClaimHTTP(w, s) PROVE PublishMove
  BY <1>13 DEF ClaimHTTP, Claim, AtStep, ClaimedStatus, Goto, Hold, Carry
<1>14. ASSUME NEW w \in Workers, NEW s \in Steps, ClaimLost(w, s) PROVE PublishMove
  BY <1>14 DEF ClaimLost, AtStep, Hold
<1>15. ASSUME NEW w \in Workers, DispatchWaiting(w) PROVE PublishMove
  BY <1>15 DEF DispatchWaiting, Goto, Carry
<1>16. ASSUME NEW w \in Workers, Watch(w) PROVE PublishMove
  BY <1>16 DEF Watch, Goto, Carry
<1>17. ASSUME NEW w \in Workers, HTTPCall(w) PROVE PublishMove
  BY <1>17 DEF HTTPCall, Goto, Carry
<1>18. ASSUME NEW w \in Workers, FailStep(w) PROVE PublishMove
  BY <1>18 DEF FailStep, Goto, Carry
<1>19. ASSUME NEW w \in Workers, NotifyStateChange(w) PROVE PublishMove
  BY <1>19 DEF NotifyStateChange, Goto, Forget, Carry, Hold
<1>20. ASSUME NEW w \in Workers, Crash(w) PROVE PublishMove
  BY <1>20 DEF Crash, Cut, Goto, Forget, Carry, Hold
<1>21. ASSUME NEW w \in Workers, AdvanceError(w) PROVE PublishMove
  BY <1>21 DEF AdvanceError, Cut, Goto, Carry, Hold
<1>22. CASE UNCHANGED vars
  BY <1>22 DEF vars
<1> QED
  BY <1>1, <1>2, <1>3, <1>4, <1>5, <1>6, <1>7, <1>8, <1>9, <1>10, <1>11, <1>12, <1>13,
     <1>14, <1>15, <1>16, <1>17, <1>18, <1>19, <1>20, <1>21, <1>22
  DEF Next, Step, Scan

\* What a publish does to what was published.
LEMMA PublishOnce ==
  ASSUME TypeOK, PublishedAlone, NEW w \in Workers, Publish(w),
         NEW s \in Steps \ overlapped
  PROVE  /\ UNCHANGED <<status, output>>
         /\ s # cur[w] => published'[s] = published[s]
         /\ s = cur[w] => published'[s] \in {<< >>, << output[s] >>}
<1>1. Append(<< >>, out[w]) = << out[w] >>
  OBVIOUS
<1>2. s = cur[w] => published[cur[w]] = << >> /\ out[w] = output[cur[w]]
  BY DEF Publish, PublishedAlone
<1> QED
  BY <1>1, <1>2 DEF Publish, TypeOK, TypeOfWorld, IsFunctionOn, db

\* One call at most is left to publish a step, with the output the step holds.
LEMMA PublishedAloneKept ==
  ASSUME IInv, AnsweredAlone, PublishedAlone, [Next]_vars
  PROVE  PublishedAlone'
<1>0. /\ \A w \in Workers : pc[w] \in {"complete", "publish"} => cur[w] \in Steps
      /\ TypeOK /\ PublishMove /\ overlapped \subseteq overlapped'
  BY PublishMoves, OverlapsLast DEF IInv, TypeOK, TypeOfCalls, AtWork
<1>1. ASSUME NEW s \in Steps \ overlapped', status'[s] # "completed" PROVE published'[s] = << >>
  <2>1. status[s] # "completed" /\ published[s] = << >> /\ s \notin overlapped
    BY <1>0, <1>1, CompletedKept DEF PublishedAlone
  <2>2. ASSUME NEW w \in Workers, Publish(w) PROVE s # cur[w]
    BY <2>1, <2>2 DEF Publish, PublishedAlone
  <2> QED
    BY <1>0, <2>1, <2>2, PublishOnce DEF PublishMove
<1>2. ASSUME NEW v \in Workers, CompleteStep(v), cur[v] \notin overlapped
      PROVE  /\ status[cur[v]] # "completed" /\ published' = published
             /\ status'[cur[v]] = "completed" /\ output'[cur[v]] = out[v]
  BY <1>0, <1>2 DEF CompleteStep, AnsweredAlone, TypeOK, TypeOfDatabase, IsFunctionOn, world
<1>3. ASSUME NEW v \in Workers, pc'[v] = "publish", cur'[v] \notin overlapped'
      PROVE  /\ status'[cur'[v]] = "completed"
             /\ published'[cur'[v]] = << >>
             /\ out'[v] = output'[cur'[v]]
             /\ \A u \in Workers : (pc'[u] = "publish" /\ cur'[u] = cur'[v]) => u = v
  <2>1. cur'[v] = cur[v] /\ out'[v] = out[v] /\ cur[v] \notin overlapped
    BY <1>0, <1>3 DEF PublishMove
  <2>2. CASE pc[v] = "publish"
    <3>1. /\ status[cur[v]] = "completed" /\ published[cur[v]] = << >>
          /\ out[v] = output[cur[v]] /\ cur[v] \in Steps
      BY <1>0, <2>1, <2>2 DEF PublishedAlone
    <3>2. status'[cur[v]] = "completed" /\ output'[cur[v]] = output[cur[v]]
      BY <2>1, <3>1, CompletedKept
    <3>3. ASSUME NEW w \in Workers, Publish(w) PROVE cur[v] # cur[w]
      <4>1. pc[w] = "publish" /\ pc'[w] = "list"
        BY <3>3 DEF Publish, Goto, TypeOK, TypeOfCalls, IInv
      <4> QED
        BY <1>3, <2>1, <2>2, <4>1 DEF PublishedAlone
    <3>4. published'[cur[v]] = << >>
      BY <1>0, <2>1, <3>1, <3>3, PublishOnce DEF PublishMove
    <3>5. ASSUME NEW u \in Workers, pc'[u] = "publish", cur'[u] = cur[v] PROVE u = v
      <4>1. cur[u] = cur[v] /\ (pc[u] = "publish" \/ CompleteStep(u))
        BY <1>0, <3>5 DEF PublishMove
      <4> QED
        BY <1>2, <2>1, <2>2, <3>1, <4>1 DEF PublishedAlone
    <3> QED
      BY <2>1, <3>1, <3>2, <3>4, <3>5
  <2>3. CASE CompleteStep(v)
    <3>1. published[cur[v]] = << >>
      BY <1>0, <1>2, <2>1, <2>3 DEF PublishedAlone, CompleteStep
    <3>2. ASSUME NEW u \in Workers, pc'[u] = "publish", cur'[u] = cur[v] PROVE u = v
      <4>1. cur[u] = cur[v] /\ (pc[u] = "publish" \/ CompleteStep(u))
        BY <1>0, <3>2 DEF PublishMove
      <4>2. ~(pc[u] = "publish")
        BY <1>2, <2>1, <2>3, <4>1 DEF PublishedAlone
      <4> QED
        BY <2>1, <2>3, <4>1, <4>2 DEF CompleteStep, AnsweredAlone
    <3> QED
      BY <1>2, <2>1, <2>3, <3>1, <3>2
  <2> QED
    BY <1>0, <1>3, <2>2, <2>3 DEF PublishMove
<1> QED
  BY <1>1, <1>3 DEF PublishedAlone

\* What a snapshot shows of a completed step is what the step still holds.
LEMMA SnapshotsCurrentKept ==
  ASSUME IInv, AnsweredAlone, SnapshotsCurrent, [Next]_vars
  PROVE  SnapshotsCurrent'
<1> SUFFICES ASSUME NEW w \in Workers, pc'[w] \in Holding,
                    NEW s \in Steps \ overlapped', snap'[w].status[s] = "completed"
             PROVE  snap'[w].output[s] = output'[s]
  BY DEF SnapshotsCurrent
<1>1. SnapshotMove(w) /\ s \notin overlapped
  BY SnapshotMoves, OverlapsLast DEF IInv
<1>2. CASE pc[w] \in Holding /\ snap'[w] = snap[w]
  <2>1. status[s] = "completed" /\ snap[w].output[s] = output[s]
    BY <1>1, <1>2 DEF IInv, SnapshotsSound, SnapshotsCurrent, EndStatuses
  <2> QED
    BY <1>1, <1>2, <2>1, CompletedKept
<1>3. CASE snap'[w] = [status |-> status, output |-> output]
  BY <1>1, <1>3, CompletedKept
<1> QED
  BY <1>1, <1>2, <1>3 DEF SnapshotMove

\* The input of a step is made of what its dependencies hold, and of nothing else.
LEMMA SameInput ==
  ASSUME NEW d \in DefinitionType, NEW s \in Steps, NEW f, NEW g,
         \A t \in d.dependsOn[s] : f[t] = g[t]
  PROVE  StepInput(d, s, f) = StepInput(d, s, g)
<1> DEFINE filledF == {t \in d.dependsOn[s] : f[t] # NoOutput}
           filledG == {t \in d.dependsOn[s] : g[t] # NoOutput}
<1>1. filledF = filledG
  OBVIOUS
<1>2. [t \in filledF |-> f[t]] = [t \in filledG |-> g[t]]
  BY <1>1
<1> QED
  BY <1>1, <1>2 DEF StepInput, MergeOutputs

\* An activated step keeps an input that its dependencies still account for.
LEMMA InputKept ==
  ASSUME IInv, AnsweredAlone, SnapshotsCurrent, InputIsMergedOutputs, [Next]_vars
  PROVE  InputIsMergedOutputs'
<1> SUFFICES ASSUME NEW s \in Steps, Activated(s)',
                    def.dependsOn[s] \intersect overlapped' = {}
             PROVE  input'[s] = StepInput(def, s, output')
  BY DefinitionLasts DEF InputIsMergedOutputs
<1>0. /\ def \in DefinitionType /\ def.dependsOn[s] \subseteq Steps
      /\ def.dependsOn[s] \intersect overlapped = {}
  BY DefinitionsAssumption, OverlapsLast DEF IInv, TypeOK, TypeOfDatabase, DefinitionType
<1>1. ASSUME NEW t \in def.dependsOn[s], status[t] = "completed" PROVE output'[t] = output[t]
  BY <1>0, <1>1, CompletedKept
<1>2. CASE Activated(s)
  <2>1. \A t \in def.dependsOn[s] : output[t] = output'[t]
    BY <1>0, <1>1, <1>2 DEF IInv, DepsBeforeStep
  <2>2. StepInput(def, s, output) = StepInput(def, s, output')
    BY <1>0, <2>1, SameInput
  <2>3. input'[s] = input[s]
    <3>1. ASSUME NEW w \in Workers, NEW t \in Steps, Claim(w, t) PROVE input'[s] = input[s]
      BY <1>2, <3>1 DEF Claim, Claimable, Activated, IInv, TypeOK, TypeOfDatabase, IsFunctionOn
    <3> QED
      BY <3>1, ValueWriters DEF CompleteStep, FailStep
  <2> QED
    BY <1>0, <1>2, <2>2, <2>3 DEF InputIsMergedOutputs
<1>3. CASE ~Activated(s)
  <2>1. PICK w \in Workers : Claim(w, s)
    <3>1. ASSUME NEW w \in Workers, CompleteStep(w) PROVE FALSE
      <4>1. StatusMove(s)
        BY StatusMoves DEF IInv
      <4>2. status'[s] \in {status[s], "completed"}
        BY <3>1 DEF CompleteStep, IInv, TypeOK, TypeOfDatabase
      <4> QED
        BY <1>3, <4>1, <4>2 DEF StatusMove, ClaimedStatus, Activated, WaitingStatuses
    <3>2. ASSUME NEW w \in Workers, FailStep(w) PROVE FALSE
      <4>1. StatusMove(s)
        BY StatusMoves DEF IInv
      <4>2. status'[s] \in {status[s], "failed"}
        BY <3>2 DEF FailStep, IInv, TypeOK, TypeOfDatabase
      <4> QED
        BY <1>3, <4>1, <4>2 DEF StatusMove, ClaimedStatus, Activated, WaitingStatuses
    <3>3. ASSUME NEW w \in Workers, NEW t \in Steps, CreateStep(w, t) PROVE FALSE
      BY <1>3, <3>3 DEF CreateStep, Activated, IInv, TypeOK, TypeOfDatabase
    <3>4. ASSUME NEW w \in Workers, NEW t \in Steps, Claim(w, t) PROVE t = s
      BY <1>3, <3>4 DEF Claim, Activated, IInv, TypeOK, TypeOfDatabase
    <3> QED
      BY <1>3, <3>1, <3>2, <3>3, <3>4, StatusWriters DEF Activated
  <2>2. input'[s] = StepInput(def, s, snap[w].output) /\ output' = output
    BY <2>1 DEF Claim, IInv, TypeOK, TypeOfDatabase, IsFunctionOn
  <2>3. pc[w] \in Holding /\ DepsCompleted(def, s, CompletedSet(snap[w]))
    BY <2>1 DEF Claim, AtStep, Ready, Holding
  <2>4. \A t \in def.dependsOn[s] : snap[w].output[t] = output[t]
    BY <1>0, <2>3 DEF DepsCompleted, CompletedSet, SnapshotsCurrent
  <2> QED
    BY <1>0, <2>2, <2>4, SameInput
<1> QED
  BY <1>2, <1>3

\* A publish is of the stored output, and the only one.
LEMMA PublishedIsOutputKept ==
  ASSUME IInv, AnsweredAlone, PublishedAlone, PublishedIsOutput, [Next]_vars
  PROVE  PublishedIsOutput'
<1> SUFFICES ASSUME NEW s \in Steps \ overlapped'
             PROVE  \/ published'[s] = << >>
                    \/ status'[s] = "completed" /\ published'[s] = << output'[s] >>
  BY DEF PublishedIsOutput
<1>1. TypeOK /\ PublishMove /\ s \notin overlapped
  BY PublishMoves, OverlapsLast DEF IInv
<1>2. CASE published'[s] = published[s]
  BY <1>1, <1>2, CompletedKept DEF PublishedIsOutput
<1>3. ASSUME NEW w \in Workers, Publish(w), s = cur[w]
      PROVE  \/ published'[s] = << >>
             \/ status'[s] = "completed" /\ published'[s] = << output'[s] >>
  BY <1>1, <1>3, PublishOnce DEF Publish, PublishedAlone
<1> QED
  BY <1>1, <1>2, <1>3, PublishOnce DEF PublishMove

\* The invariant holds initially: nothing is completed and nobody holds anything.
LEMMA OInvInit == Init => OInv
  BY DEF Init, OInv, AnsweredAlone, PublishedAlone, SnapshotsCurrent, InputIsMergedOutputs,
     PublishedIsOutput, Holding, Activated

\* Every step of the system keeps its parts.
LEMMA OInvStep == IInv /\ OInv /\ [Next]_vars => OInv'
  BY AnsweredAloneKept, PublishedAloneKept, SnapshotsCurrentKept, InputKept,
     PublishedIsOutputKept
  DEF OInv

\* What is completed is settled, for the calls that hold a snapshot of it too,
\* except for the outputs of steps that two calls were answering at once.
THEOREM Settled == Spec => []OInv
  BY Invariance, OInvInit, OInvStep, PTL DEF Spec

\* A step is activated with what its dependencies have put out, unless two calls
\* were answering one of them at once (mergeOutputs).
THEOREM InputsAreMerged == Spec => []InputIsMergedOutputs
<1>1. OInv => InputIsMergedOutputs
  BY DEF OInv, InputIsMergedOutputs
<1> QED
  BY <1>1, Settled, PTL

\* What is published for a step, once at most, is its stored output, unless two
\* calls were answering it at once (completeStep).
THEOREM OutputsArePublished == Spec => []PublishedIsOutput
<1>1. OInv => PublishedIsOutput
  BY DEF OInv, PublishedIsOutput
<1> QED
  BY <1>1, Settled, PTL

\* A completed step stays completed and keeps its input, whoever answers it again;
\* its output changes only if two calls were answering it at once (completeStep).
THEOREM CompletedIsFrozen == Spec => CompletedStepsFrozen
<1>1. IInv /\ OInv /\ [Next]_vars =>
        [\A s \in Steps : status[s] = "completed" =>
            /\ status'[s] = "completed"
            /\ input'[s] = input[s]
            /\ s \notin overlapped => output'[s] = output[s]]_vars
  BY CompletedKept DEF OInv
<1> QED
  BY <1>1, Invariance, Settled, PTL DEF Spec, CompletedStepsFrozen

=============================================================================
