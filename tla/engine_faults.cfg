SPECIFICATION Spec
CONSTANTS
    NumSteps = 3
    Definitions <- ThreeSteps
    Workers = {w1, w2, w3}
    Outputs = {doc}
    Responses = {body, NoOutput}
    MaxFaults = 2
    NoOutput = NoOutput
    StaticInput = StaticInput
    NoStep = NoStep
    EmptySnap = EmptySnap
SYMMETRY WorkerSymmetry
CHECK_DEADLOCK FALSE
INVARIANTS
    TerminalTruthful
    DepsBeforeStep
    ExecutedOnce
    EndNoticeOnce
    CyclesNeverRun
    NothingStranded
    RunningMeansWaiting
    ChangesSignalled
PROPERTIES
    NothingPassedOver
    FailureHalts
    Implements
