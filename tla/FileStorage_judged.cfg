SPECIFICATION FairSpec
CONSTANTS
    f1 = f1
    f2 = f2
    s1 = s1
    s2 = s2
    n1 = n1
    n2 = n2
    a = a
    b = b
    c1 = c1
    c2 = c2
    w1 = w1
    w2 = w2
    Files = {f1, f2}
    Slots = {s1, s2}
    Names = {n1}
    Contents = {a}
    SizeOf <- MCSizeOfA
    Clients = {c1, c2}
    NamesOf <- MCSameName
    ScanWorkers = {w1, w2}
    Reconciler = Reconciler
    Purger = Purger
    Rescanner = Rescanner
    DefaultLimit = 2
    Limits = {3}
    Ops = {"upload", "delete", "rename", "changeResource"}
    Faults = {"rollback"}
    Verdicts = {"CLEAN", "INFECTED"}
    MaxAttempts = 2
    MaxStalls = 1
    MaxVersions = 2
    MaxLock = 2
    Nil = Nil
PROPERTIES
    PendingIsJudged
CHECK_DEADLOCK FALSE
