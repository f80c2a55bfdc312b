SPECIFICATION Spec
CONSTANTS
    c1 = c1
    c2 = c2
    c3 = c3
    p0 = p0
    p1 = p1
    p2 = p2
    Clip = {c1, c2, c3}
    Batch = {b1, b2}
    Part = {p0, p1, p2}
    SeedPart <- Seeds
    Invalid <- Rejects
    None = None
    MaxEdits = 2
SYMMETRY Symmetry
INVARIANTS
    ApplyTypeOK
    HandEditSurvives
    ReportedIsApplied
    UndoRestores
CHECK_DEADLOCK FALSE
