SPECIFICATION LiveSpec
CONSTANTS
    NumSteps = 4
    Definitions <- FourSteps
    Workers = {w1, w2}
    Outputs = {doc, NoOutput}
    Responses = {body, NoOutput}
    MaxFaults = 0
    NoOutput = NoOutput
    StaticInput = StaticInput
    NoStep = NoStep
    EmptySnap = EmptySnap
CHECK_DEADLOCK FALSE
INVARIANTS
    InputIsMergedOutputs
    PublishedIsOutput
PROPERTIES
    CompletedStepsFrozen
    Terminates
    FailureReported
