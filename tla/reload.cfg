SPECIFICATION Spec
CONSTANTS
    NumFiles = 2
    Texts <- MCTexts
    Reloaders = {r1}
    Savers = {s1, s2}
    InitialDisk <- OneFile
    MaxEdits = 1
    MaxFaults = 2
    NoText = NoText
SYMMETRY HandlerSymmetry
CHECK_DEADLOCK FALSE
INVARIANTS
    RegistryWellFormed
    RejectedNeverPersists
    SchedulersFollow
    StartsAgain
