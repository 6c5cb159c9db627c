\* One lock command against every kind of baseline while the tree changes.
SPECIFICATION Spec
CONSTANTS
    a = a
    b = b
    c = c
    linking = linking
    relinked = relinked
    plain = plain
    Absent = Absent
    NoHash = NoHash
    Missing = Missing
    Corrupt = Corrupt
    Path <- MCThree
    Version <- MCVersion
    LinksOf <- MCLinksOf
    Policies <- MCPolicies
    Process = {one}
    Commands <- MCCommands
    Trees <- MCTrees
    Baselines <- MCBaselines
    Edits <- MCEdits
    MaxEdits = 1
INVARIANTS
    EntriesAreWhole
PROPERTIES
    OnlyNamedChange
    ReportIsTheChange
    CorruptNeedsRebuild
CHECK_DEADLOCK FALSE
