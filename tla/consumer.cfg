SPECIFICATION FairSpec
CONSTANTS
    s1 = s1
    s2 = s2
    Nodes = {n1, n2}
    Waiters = {s1, s2}
    Group <- Shared
    Messages = {m1, m2}
    ByHand = ByHand
    MaxFaults = 2
    None = None
CHECK_DEADLOCK FALSE
INVARIANTS
    AckedMeansAnswered
    OneStepPerMessage
    AnsweredOnce
PROPERTIES
    DeliversAtLeastOnce
    MessagesReachWaiters
