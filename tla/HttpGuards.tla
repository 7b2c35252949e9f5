----------------------------- MODULE HttpGuards -----------------------------
(***************************************************************************)
(* The HTTP surface: the routes of every controller with the marks their   *)
(* decorators leave for the guards, and the guards of the AppModule that   *)
(* decide without waiting, each as a predicate on a route and the caller   *)
(* that AuthenticationGuard put into the request.                          *)
(*                                                                         *)
(* A controller is a record from its handlers to their routes, or two      *)
(* records when it is long.  Paths, bodies, documentation and throttling   *)
(* are left out; so is SanitizationGuard, which rewrites strings and       *)
(* refuses nothing.                                                        *)
(***************************************************************************)

Route(method, permission, marks) ==
    [method |-> method, permission |-> permission, marks |-> marks]

NoPermission == "none"
StateSkips == {"SkipEmailVerification", "SkipUserState", "SkipTenantState"}

Guarded(method, permission) == Route(method, permission, {})
(* Public, PublicPermission and every skip: for whoever has no session. *)
Open(method) == Route(method, NoPermission, StateSkips \cup {"Public", "PublicPermission"})
(* A session is needed, its owner may be unverified, suspended, anything. *)
AnySession(method) == Route(method, NoPermission, StateSkips \cup {"PublicPermission"})

-----------------------------------------------------------------------------
(* The controllers *)

AuthRoutes == [login |-> Open("POST"), refresh |-> Open("POST"), logout |-> AnySession("POST")]

SessionRoutes == [
    listSessions      |-> Guarded("GET", "SESSION_LIST"),
    getSession        |-> Guarded("GET", "SESSION_VIEW"),
    revokeSession     |-> Guarded("POST", "SESSION_REVOKE"),
    revokeAllSessions |-> Guarded("POST", "SESSION_REVOKE_ALL")]

AccountRoutes == [register |-> Open("POST"), getAccount |-> Guarded("GET", "ACCOUNT_VIEW")]

PasswordResetRoutes == [requestReset |-> Open("POST"), resetPassword |-> Open("POST")]

EmailVerificationRoutes == [
    requestVerification  |-> AnySession("POST"),
    validateVerification |-> Open("GET")]

(* Variant: reactivation is open to the suspended themselves. *)
UserRoutesSelfService == [
    changeRole |-> Guarded("PATCH", "USER_UPDATE"),
    list       |-> Guarded("GET", "USER_LIST"),
    suspend    |-> Route("PATCH", "USER_SUSPEND", {"Audit"}),
    reactivate |-> Route("PATCH", "USER_REACTIVATE", {"SkipUserState"})]
UserRoutes == [
    changeRole |-> Guarded("PATCH", "USER_UPDATE"),
    list       |-> Guarded("GET", "USER_LIST"),
    suspend    |-> Route("PATCH", "USER_SUSPEND", {"Audit"}),
    reactivate |-> Guarded("PATCH", "USER_REACTIVATE")]

TenantRoutes == [
    create |-> Guarded("POST", "TENANT_CREATE"),
    get    |-> Guarded("GET", "TENANT_GET"),
    list   |-> Guarded("GET", "TENANT_LIST")]

TenantChangeRoutes == [
    update     |-> Guarded("PATCH", "TENANT_UPDATE"),
    suspend    |-> Guarded("PATCH", "TENANT_SUSPEND"),
    reactivate |-> Guarded("PATCH", "TENANT_REACTIVATE")]

(* A revocation is a GET: CsrfGuard does not look at it. *)
InvitationRoutes == [
    create       |-> Guarded("POST", "INVITATION_CREATE"),
    validate     |-> Open("GET"),
    revoke       |-> Guarded("GET", "INVITATION_REVOKE"),
    listByTenant |-> Guarded("GET", "INVITATION_LIST")]

RoleRoutes == [
    create |-> Guarded("POST", "ROLE_CREATE"),
    update |-> Guarded("PATCH", "ROLE_UPDATE")]

RoleReadRoutes == [
    list    |-> Guarded("GET", "ROLE_LIST"),
    getRole |-> Guarded("GET", "ROLE_GET")]

RolePermissionsRoutes == [
    assignPermissions    |-> Guarded("POST", "ROLE_ASSIGN_PERMISSIONS"),
    removePermissions    |-> Guarded("DELETE", "ROLE_REMOVE_PERMISSIONS"),
    getPermissionsByRole |-> Guarded("GET", "ROLE_VIEW_PERMISSIONS")]

PermissionRoutes == [
    create          |-> Guarded("POST", "PERMISSION_CREATE"),
    update          |-> Guarded("PATCH", "PERMISSION_UPDATE"),
    list            |-> Guarded("GET", "PERMISSION_LIST"),
    checkPermission |-> Guarded("GET", "PERMISSION_VERIFY")]

RoleTenantRoutes == [
    associate    |-> Guarded("POST", "ROLE_TENANT_CREATE"),
    disassociate |-> Guarded("DELETE", "ROLE_TENANT_DELETE"),
    getRoles     |-> Guarded("GET", "ROLE_TENANT_LIST")]

TenantRoleConfigurationRoutes == [
    create |-> Guarded("POST", "TENANT_ROLE_CONFIGURATION_CREATE"),
    update |-> Guarded("PATCH", "TENANT_ROLE_CONFIGURATION_UPDATE"),
    delete |-> Guarded("DELETE", "TENANT_ROLE_CONFIGURATION_DELETE"),
    list   |-> Guarded("GET", "TENANT_ROLE_CONFIGURATION_LIST")]

AuditRoutes == [list |-> Guarded("GET", "AUDIT_LIST"), get |-> Guarded("GET", "AUDIT_LIST")]

NotificationRoutes == [
    list          |-> Guarded("GET", "NOTIFICATION_LIST"),
    markAsRead    |-> Guarded("PATCH", "NOTIFICATION_MARK_READ"),
    markAllAsRead |-> Guarded("PATCH", "NOTIFICATION_MARK_ALL_READ")]

NotificationVariablesRoutes == [list |-> Guarded("GET", "NOTIFICATION_TEMPLATE_READ")]

NotificationPreferenceRoutes == [
    create |-> Guarded("POST", "NOTIFICATION_PREFERENCE_MANAGE"),
    list   |-> Guarded("GET", "NOTIFICATION_PREFERENCE_MANAGE"),
    get    |-> Guarded("GET", "NOTIFICATION_PREFERENCE_MANAGE")]

PreferenceChangeRoutes == [
    update |-> Guarded("PATCH", "NOTIFICATION_PREFERENCE_MANAGE"),
    delete |-> Guarded("DELETE", "NOTIFICATION_PREFERENCE_MANAGE")]

TemplateManagementRoutes == [
    create |-> Route("POST", "ADMIN_NOTIFICATION_TEMPLATE_CREATE", {"SkipSanitization"}),
    get    |-> Guarded("GET", "ADMIN_NOTIFICATION_TEMPLATE_LIST"),
    list   |-> Guarded("GET", "ADMIN_NOTIFICATION_TEMPLATE_LIST"),
    update |-> Route("PATCH", "ADMIN_NOTIFICATION_TEMPLATE_UPDATE", {"SkipSanitization"})]

TemplateStateRoutes == [
    activate   |-> Guarded("PATCH", "ADMIN_NOTIFICATION_TEMPLATE_UPDATE"),
    desactivate |-> Guarded("PATCH", "ADMIN_NOTIFICATION_TEMPLATE_UPDATE")]

FileRoutes == [
    upload         |-> Guarded("POST", "ADMIN_FILE_CREATE"),
    list           |-> Guarded("GET", "ADMIN_FILE_LIST"),
    getDownloadUrl |-> Guarded("GET", "ADMIN_FILE_VIEW"),
    get            |-> Guarded("GET", "ADMIN_FILE_VIEW")]

FileChangeRoutes == [
    rename         |-> Guarded("PATCH", "ADMIN_FILE_UPDATE_METADATA"),
    changeResource |-> Guarded("PATCH", "ADMIN_FILE_UPDATE_METADATA"),
    replace        |-> Guarded("PUT", "ADMIN_FILE_UPDATE"),
    delete         |-> Guarded("DELETE", "ADMIN_FILE_DELETE")]

FileQuotaRoutes == [
    get    |-> Route("GET", NoPermission, {"PublicPermission"}),
    adjust |-> Guarded("PATCH", "PLATFORM_FILE_QUOTA_UPDATE")]

(* No handler of the vacancies names a permission. *)
VacancyRoutes == [
    create |-> Guarded("POST", NoPermission), list |-> Guarded("GET", NoPermission),
    get    |-> Guarded("GET", NoPermission), update |-> Guarded("PATCH", NoPermission)]

Controllers == {
    AuthRoutes, SessionRoutes, AccountRoutes, PasswordResetRoutes, EmailVerificationRoutes,
    UserRoutes, TenantRoutes, TenantChangeRoutes, InvitationRoutes, RoleRoutes, RoleReadRoutes,
    RolePermissionsRoutes, PermissionRoutes, RoleTenantRoutes, TenantRoleConfigurationRoutes,
    AuditRoutes, NotificationRoutes, NotificationVariablesRoutes, NotificationPreferenceRoutes,
    PreferenceChangeRoutes, TemplateManagementRoutes, TemplateStateRoutes,
    FileRoutes, FileChangeRoutes, FileQuotaRoutes, VacancyRoutes}

AllRoutes == UNION {{controller[handler] : handler \in DOMAIN controller} :
                        controller \in Controllers}

-----------------------------------------------------------------------------
(* The guards that read nothing *)

EmailVerifiedGuard(route, caller) ==
    "SkipEmailVerification" \in route.marks \/ caller.emailVerified

UserStateGuard(route, caller) ==
    "SkipUserState" \in route.marks \/ caller.userStatus = "ACTIVE"

(* The role is the token's. *)
TenantStateGuard(route, caller) ==
    \/ "SkipTenantState" \in route.marks
    \/ caller.roleCode = "PLATFORM_ADMIN"
    \/ caller.tenantStatus = "ACTIVE"

MutatingMethods == {"POST", "PUT", "PATCH", "DELETE"}

CsrfGuard(route, caller) ==
    \/ route.method \notin MutatingMethods
    \/ "Public" \in route.marks
    \/ caller.csrf

(* What PermissionsGuard decides before it asks for the user's permissions. *)
NeedsPermission(route) == "PublicPermission" \notin route.marks
NamesPermission(route) == route.permission # NoPermission
=============================================================================
