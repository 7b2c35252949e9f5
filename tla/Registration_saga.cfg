SPECIFICATION Spec
CONSTANTS
    i1 = i1
    i2 = i2
    ana = ana
    luis = luis
    u1 = u1
    u2 = u2
    p1 = p1
    p2 = p2
    p3 = p3
    Invitations = {i1, i2}
    Recipients = {ana, luis}
    Ids = {u1, u2}
    Requests = {p1, p2, p3}
    Ops = {"invite", "revoke", "register", "login", "reset"}
    Faults = {"database", "crash"}
    Nil = Nil
SYMMETRY MCSymmetry
INVARIANTS
    TypeOK
    AccountsHaveUsers
    UsedInvitationAdmits
    LeftoversExplained
PROPERTIES
    ClosedChangesOnlyByOverlap
    SecondInvitationOnlyByOverlap
CHECK_DEADLOCK FALSE
