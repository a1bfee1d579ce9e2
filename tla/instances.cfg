SPECIFICATION FairSpec
CONSTANTS
    Keys = {k1, k2}
    Groups = {g1, g2}
    Consumers <- ThreeConsumers
    Messages = {m1}
    MaxSyncs = 4
    MaxFaults = 1
    None = None
CHECK_DEADLOCK FALSE
INVARIANTS
    NoOrphans
    StartedOnce
PROPERTIES
    DeliversAtLeastOnce
    MessagesUsed
