SPECIFICATION Spec
CONSTANTS
    owner = owner
    admin = admin
    s1 = s1
    s2 = s2
    t1 = t1
    t2 = t2
    t3 = t3
    old = old
    new = new
    r1 = r1
    r2 = r2
    v1 = v1
    v2 = v2
    p1 = p1
    p2 = p2
    Accounts = {owner}
    Admins = {}
    Sessions = {s1}
    Tokens = {t1, t2, t3}
    Passwords = {old, new}
    FirstPassword = old
    Resets = {r1}
    Verifications = {v1}
    Requests = {p1, p2}
    Ops = {"login", "refresh", "revoke"}
    Nil = Nil
PROPERTIES
    RevocationIsFinal
CHECK_DEADLOCK FALSE
