\* What check says of any tree three edits away, against locks that were merged.
SPECIFICATION Spec
CONSTANTS
    a = a
    b = b
    c = c
    linking = linking
    relinked = relinked
    plain = plain
    Absent = Absent
    NoHash = NoHash
    Missing = Missing
    Corrupt = Corrupt
    Path <- MCThree
    Version <- MCVersion
    LinksOf <- MCLinksOf
    Policies <- MCPolicies
    Process = {}
    Commands <- MCCommands
    Trees <- MCTrees
    Baselines <- MCMerged
    Edits <- MCEveryEdit
    MaxEdits = 3
INVARIANTS
    LockingClearsWhatItNames
    SilenceMeansUntouched
    PolicyHidesNothing
CHECK_DEADLOCK FALSE
