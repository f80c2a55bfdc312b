SPECIFICATION Spec
CONSTANTS
    m1 = m1
    m2 = m2
    m3 = m3
    a = a
    b = b
    c = c
    d = d
    e = e
    h0 = h0
    h1 = h1
    h2 = h2
    x0 = x0
    x1 = x1
    x2 = x2
    t = t
    None = None
    Order <- Models
    Provider <- Providers
    Droppable = {}
    MaxRetries = 1
    Moment = {a, b, c, d, e}
    Window <- HeuristicWindows
    Around = {x0, x1, x2}
    Typed <- Ranges
    Span <- Spans
    InTyped = {a, x0}
    Topic <- Topics
    Mention <- Mentions
    Claimed = {c}
    Plans <- ShortAndLong
    Better <- ByQuality
    Fragile = {d, h1}
    K = 3
    MaxRequests = 3
    Deadline = 1
    Wait = 2
INVARIANTS
    SelectTypeOK
    NoProviderIsSkipped
    BudgetIsKept
    SlotsAreFilled
PROPERTIES
    LlmPhaseEnds
