SPECIFICATION FairSpec
CONSTANTS
    NumSteps = 2
    Definitions <- Accepted
    NoOutput = NoOutput
    StaticInput = StaticInput
    w1 = w1
    w2 = w2
    e1 = e1
    e2 = e2
    p1 = p1
    setup = setup
    check = check
    WorkflowNames = {w1, w2}
    StepNames = {setup, check}
    UnsafeNames = {}
    EmailAddresses = {e1, e2}
    PhoneNumbers = {p1}
    Missing = Missing
    Directories <- MCDirectories
    Environments <- MCEnvironments
    Requests = {r1, r2}
    TestLists <- MCTestLists
    Dispatches = {d1}
    MaxEdits = 1
    Unset = Unset
    Malformed = Malformed
CHECK_DEADLOCK FALSE
INVARIANTS
    ServedFitsEngine
    OneVersionTold
    HandlersKeepResources
PROPERTIES
    EventsAreTold
    ShutdownEnds
