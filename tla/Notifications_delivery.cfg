SPECIFICATION Spec
CONSTANTS
    n1 = n1
    t1 = t1
    t2 = t2
    f1 = f1
    f2 = f2
    p1 = p1
    p2 = p2
    w1 = w1
    w2 = w2
    Ids = {n1}
    Templates = {t1, t2}
    Preferences = {f1, f2}
    Requests = {p1, p2}
    Workers = {w1, w2}
    MaxAttempts = 2
    MaxStalls = 1
    MaxVersion = 2
    Scenarios = {
        {"send", "read", "readAll", "smtp", "content", "database", "redis", "crash", "stall"},
        {"send", "template", "redis"},
        {"send", "preference", "redis"},
        {"template", "preference", "crash"}
    }
    Nil = Nil
SYMMETRY MCSymmetry
INVARIANTS
    TypeOK
    SentWasMailed
    MailsBounded
    UnsentIsAccountedFor
    OneActiveTemplate
PROPERTIES
    SentUndoneOnlyByOverlap
    UnreadOnlyByOverlap
    NoSettingLost
    JobsEnd
CHECK_DEADLOCK FALSE
