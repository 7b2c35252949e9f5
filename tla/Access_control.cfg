SPECIFICATION Spec
CONSTANTS
    u1 = u1
    u2 = u2
    u3 = u3
    t0 = t0
    t1 = t1
    t2 = t2
    p1 = p1
    p2 = p2
    p3 = p3
    Users = {u1, u2}
    Tenants = {t0, t1, t2}
    Roles = {"PLATFORM_ADMIN", "TENANT_OWNER", "SUPPORT"}
    Permissions = {"USER_SUSPEND", "USER_UPDATE", "USER_REACTIVATE", "INVITATION_CREATE",
        "PERMISSION_CREATE", "PERMISSION_UPDATE", "PAYROLL_VIEW",
        "TENANT_CREATE", "TENANT_UPDATE", "TENANT_SUSPEND", "TENANT_REACTIVATE",
        "ROLE_CREATE", "ROLE_UPDATE", "ROLE_ASSIGN_PERMISSIONS", "ROLE_REMOVE_PERMISSIONS",
        "ROLE_TENANT_CREATE", "ROLE_TENANT_DELETE", "TENANT_ROLE_CONFIGURATION_CREATE",
        "TENANT_ROLE_CONFIGURATION_UPDATE", "TENANT_ROLE_CONFIGURATION_DELETE"}
    PlatformRoles = {"PLATFORM_ADMIN"}
    PlatformPermissions = {"TENANT_CREATE", "TENANT_UPDATE", "TENANT_SUSPEND", "TENANT_REACTIVATE",
        "PERMISSION_CREATE", "PERMISSION_UPDATE",
        "ROLE_CREATE", "ROLE_UPDATE", "ROLE_ASSIGN_PERMISSIONS", "ROLE_REMOVE_PERMISSIONS",
        "ROLE_TENANT_CREATE", "ROLE_TENANT_DELETE", "TENANT_ROLE_CONFIGURATION_CREATE",
        "TENANT_ROLE_CONFIGURATION_UPDATE", "TENANT_ROLE_CONFIGURATION_DELETE"}
    LaterRoles = {"SUPPORT"}
    LaterPermissions = {"PAYROLL_VIEW"}
    Operator = t0
    LaterTenants = {t2}
    Requests = {p1, p2, p3}
    MaxVersion = 2
    Scenarios = {
        {"suspend", "changeRole", "answer", "database", "audit"},
        {"suspend", "reactivate", "busy"},
        {"suspend", "reactivate", "suspendTenant", "reactivateTenant", "login"},
        {"changeRole", "invite", "associate", "disassociate", "login"},
        {"assignPermissions", "removePermissions", "changeRole"},
        {"createRole", "updateRole", "createTenant", "updateTenant", "associate"},
        {"createPermission", "updatePermission", "assignPermissions"},
        {"createConfiguration", "updateConfiguration", "deleteConfiguration"},
        {"elsewhere", "suspendTenant"}
    }
    Nil = Nil
SYMMETRY MCSymmetry
INVARIANTS
    TypeOK
    PlatformPowerStaysHome
    HeldRolesWereEnabled
    HandlersRunAuthorised
    TrailTellsTheTruth
PROPERTIES
    SuspendedByBetters
    NoStaleWrite
CHECK_DEADLOCK FALSE
