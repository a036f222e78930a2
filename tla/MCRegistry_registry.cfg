SPECIFICATION Spec
CONSTANTS
    Procs = {p1, p2}
    Spellings = {"server", "Server", "clients"}
    Lower <- MCLower
    Values = {v1}
    None = None
    MaxSections = 2
    MaxValues = 2
INVARIANTS
    OneSection
    FetchedListed
    PrintWhole
    DumpWhole
SYMMETRY Symmetry
