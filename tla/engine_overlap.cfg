SPECIFICATION Spec
CONSTANTS
    NumSteps = 3
    Definitions <- OnlyFork
    Workers = {w1, w2}
    Outputs = {doc, other}
    Responses = {body, NoOutput}
    MaxFaults = 0
    NoOutput = NoOutput
    StaticInput = StaticInput
    NoStep = NoStep
    EmptySnap = EmptySnap
CHECK_DEADLOCK FALSE
PROPERTIES
    OnlyWaitingStepsTriggered
