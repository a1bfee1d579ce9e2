SPECIFICATION Spec
CONSTANTS
    Keys = {k1}
    Groups = {g1}
    Consumers <- FourConsumers
    Messages = {m1}
    MaxSyncs = 4
    MaxFaults = 0
    None = None
CHECK_DEADLOCK FALSE
INVARIANTS
    Reconciled
