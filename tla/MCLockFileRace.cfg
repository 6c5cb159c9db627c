\* Two scoped locks at once.
SPECIFICATION Spec
CONSTANTS
    a = a
    b = b
    c = c
    linking = linking
    relinked = relinked
    plain = plain
    Absent = Absent
    NoHash = NoHash
    Missing = Missing
    Corrupt = Corrupt
    Path <- MCTwo
    Version <- MCVersion
    LinksOf <- MCLinksOf
    Policies <- MCPolicies
    Process = {one, two}
    Commands <- MCScopedCommands
    Trees <- MCReviewed
    Baselines <- MCReviewedBaseline
    Edits <- MCFewEdits
    MaxEdits = 1
PROPERTIES
    OnlyNamedChange
CHECK_DEADLOCK FALSE
