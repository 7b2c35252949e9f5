SPECIFICATION Spec
CONSTANTS
    f1 = f1
    f2 = f2
    s1 = s1
    s2 = s2
    n1 = n1
    n2 = n2
    a = a
    b = b
    c1 = c1
    c2 = c2
    w1 = w1
    w2 = w2
    Files = {f1}
    Slots = {s1}
    Names = {n1}
    Contents = {a}
    SizeOf <- MCSizeOfA
    Clients = {c1, c2}
    NamesOf <- MCSameName
    ScanWorkers = {w1, w2}
    Reconciler = Reconciler
    Purger = Purger
    Rescanner = Rescanner
    DefaultLimit = 3
    Limits = {3}
    Ops = {"upload", "replace", "delete", "rename", "rescan"}
    Faults = {"stall"}
    Verdicts = {"CLEAN", "INFECTED", "ERROR"}
    MaxAttempts = 2
    MaxStalls = 1
    MaxVersions = 2
    MaxLock = 2
    Nil = Nil
SYMMETRY MCSymmetry
INVARIANTS
    ScanDecidesStatus
    SnapshotCoherent
PROPERTIES
    VerdictStandsUnlessReady
    Lifecycle
CHECK_DEADLOCK FALSE
