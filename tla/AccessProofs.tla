----------------------------- MODULE AccessProofs -----------------------------
(* Theorems about Access, for every value of its constants. *)
EXTENDS Access, TLAPS

-----------------------------------------------------------------------------
(* The inductive invariant *)

(* A pair of role and tenant that a user may have: the role fits the tenant, *)
(* and it was associated with it once.                                       *)
Rightful(r, t) ==
    /\ role[r] # Nil /\ tenant[t] # Nil /\ RoleFits(r, t)
    /\ <<r, t>> \in enabled \cup withdrawn

PairsFit ==
    /\ \A r \in Roles, t \in Tenants : <<r, t>> \in enabled \cup invited => Rightful(r, t)
    /\ \A u \in Users : user[u] # Nil => Rightful(user[u].role, user[u].tenant)

GrantsFit ==
    \A r \in Roles, c \in Permissions : <<r, c>> \in grants =>
        role[r] # Nil /\ permission[c] # Nil /\ PermissionFits(c, r)

(* The bearer of a token exists, and one that says PLATFORM_ADMIN is at home *)
(* with the platform: a user's tenant never changes.                         *)
TokensFit ==
    /\ role["PLATFORM_ADMIN"] # Nil /\ IsPlatformRole("PLATFORM_ADMIN")
    /\ \A token \in tokens :
        /\ user[token.user] # Nil
        /\ token.role = "PLATFORM_ADMIN" => IsPlatformTenant(user[token.user].tenant)

(* What the event of a request, written or not, says of it. *)
EventsFit ==
    \A p \in Requests :
        /\ pc[p] # "done" => recording[p] = Nil /\ trail[p] = Nil /\ p \notin suspended
        /\ recording[p] # Nil => trail[p] = Nil
        /\ recording[p] = "SUCCESS" => p \in suspended
        /\ recording[p] \in {"FAILED", "DENIED"} => p \notin suspended \ accidents

(* The operations a handler's step belongs to, and the input of each. *)
OpsAt == [
    actor |-> {"suspend"}, target |-> {"suspend"}, writeSuspension |-> {"suspend"},
    findUser |-> {"reactivate", "changeRole"}, writeReactivation |-> {"reactivate"},
    validateRole |-> {"changeRole"}, writeRole |-> {"changeRole"},
    invite |-> {"invite"}, insertInvitation |-> {"invite"}, createTenant |-> {"createTenant"},
    findTenant |-> {"updateTenant", "suspendTenant", "reactivateTenant"},
    writeTenant |-> {"updateTenant", "suspendTenant", "reactivateTenant"},
    createRole |-> {"createRole"}, findRole |-> {"updateRole"}, writeRoleRow |-> {"updateRole"},
    createPermission |-> {"createPermission"}, findPermission |-> {"updatePermission"},
    writePermission |-> {"updatePermission"},
    grants |-> {"assignPermissions", "removePermissions"},
    associations |-> {"associate", "disassociate"},
    findConfiguration |-> {"createConfiguration", "updateConfiguration", "deleteConfiguration"},
    insertConfiguration |-> {"createConfiguration"},
    writeConfiguration |-> {"updateConfiguration"},
    removeConfiguration |-> {"deleteConfiguration"}, elsewhere |-> {"elsewhere"}]
Given(op, arg) ==
    /\ op \in {"suspend", "reactivate", "changeRole"} => arg.user \in Users
    /\ op \in {"createTenant", "updateTenant", "suspendTenant", "reactivateTenant", "associate",
               "disassociate", "updateConfiguration", "deleteConfiguration"} =>
            arg.tenant \in Tenants
    /\ op \in {"changeRole", "invite", "createRole", "updateRole", "createConfiguration",
               "assignPermissions", "removePermissions", "associate", "disassociate",
               "updateConfiguration", "deleteConfiguration"} => arg.role \in Roles
    /\ op \in {"createPermission", "updatePermission", "assignPermissions",
               "removePermissions"} => arg.permission \in Permissions

CallerKnown(label, locals) ==
    /\ label \notin {"idle", "done"} =>
            /\ locals.op \in Ops /\ Given(locals.op, locals.arg) /\ locals.route \in AllRoutes
            /\ locals.token \in tokens \/ (locals.token = Nil /\ label = "elsewhere")
    /\ label \in Handlers => locals.op \in OpsAt[label]

(* What the guards have found so far, unless the request was overtaken. *)
StateAllows(token) ==
    /\ user[token.user].status = "ACTIVE"
    /\ token.role = "PLATFORM_ADMIN" \/ tenant[user[token.user].tenant].status = "ACTIVE"
GuardsKnow(p, label, locals) ==
    p \notin overtaken =>
        /\ label \in {"user", "permissions"} => StateAllows(locals.token)
        /\ label \in {"permissions", "target", "writeSuspension"} =>
                locals.role = user[locals.token.user].role
        /\ label \in Handlers => \/ locals.token = Nil
                                 \/ locals.route \in ForAnySession
                                 \/ Authorised(locals.route, locals.token)

(* A row that was read may be an older version of the stored one, but never  *)
(* another row of the same version.                                          *)
ReadFrom(row, current) ==
    /\ current # Nil
    /\ row.version <= current.version
    /\ row.version = current.version => row = current
RowKnown(label, locals) ==
    /\ label \in {"writeSuspension", "writeReactivation", "validateRole", "writeRole"} =>
            /\ locals.row \in UserRow /\ ReadFrom(locals.row, user[locals.arg.user])
            /\ locals.row.tenant = user[locals.arg.user].tenant
    /\ label = "writeTenant" =>
            locals.row \in TenantRow /\ ReadFrom(locals.row, tenant[locals.arg.tenant])
    /\ label = "writeRoleRow" =>
            locals.row \in RoleRow /\ ReadFrom(locals.row, role[locals.arg.role])
    /\ label = "writePermission" =>
            /\ locals.row \in PermissionRow
            /\ permission[locals.arg.permission] # Nil
            /\ locals.row.scope = permission[locals.arg.permission].scope
    /\ label = "writeConfiguration" => locals.row \in ConfigurationRow

(* The pair that was validated and is about to be written. *)
PairKnown(label, locals) ==
    /\ label = "writeRole" => Rightful(locals.arg.role, locals.row.tenant)
    /\ label = "insertInvitation" => Rightful(locals.arg.role, user[locals.token.user].tenant)

(* What a request knows at a label, with these locals. *)
KnowsAt(p, label, locals) ==
    /\ CallerKnown(label, locals) /\ GuardsKnow(p, label, locals)
    /\ RowKnown(label, locals) /\ PairKnown(label, locals)
Knows(p) == KnowsAt(p, pc[p], loc[p])

Inv ==
    /\ TypeOK /\ PairsFit /\ GrantsFit /\ TokensFit /\ EventsFit /\ TrailTellsTheTruth
    /\ \A p \in Requests : Knows(p)

-----------------------------------------------------------------------------
(* The routes *)

(* A route whose guards are skipped is public or one of two for any session; *)
(* the quota's is the only other one that asks for no permission.            *)
Judged(route) ==
    /\ (StateSkips \cup {"PublicPermission"}) \cap route.marks # {} =>
            \/ "Public" \in route.marks
            \/ route \in ForAnySession
            \/ route = FileQuotaRoutes.get /\ StateSkips \cap route.marks = {}

LEMMA RoutesJudged == \A route \in AllRoutes : Judged(route)
<1> USE DEF Judged, Route, Guarded, Open, AnySession, StateSkips, ForAnySession
<1>1. \A h \in DOMAIN AuthRoutes : Judged(AuthRoutes[h])
  BY DEF AuthRoutes, EmailVerificationRoutes
<1>2. \A h \in DOMAIN SessionRoutes : Judged(SessionRoutes[h])
  BY DEF SessionRoutes
<1>3. \A h \in DOMAIN AccountRoutes : Judged(AccountRoutes[h])
  BY DEF AccountRoutes
<1>4. \A h \in DOMAIN PasswordResetRoutes : Judged(PasswordResetRoutes[h])
  BY DEF PasswordResetRoutes
<1>5. \A h \in DOMAIN EmailVerificationRoutes : Judged(EmailVerificationRoutes[h])
  BY DEF EmailVerificationRoutes, AuthRoutes
<1>6. \A h \in DOMAIN UserRoutes : Judged(UserRoutes[h])
  BY DEF UserRoutes
<1>7. \A h \in DOMAIN TenantRoutes : Judged(TenantRoutes[h])
  BY DEF TenantRoutes
<1>8. \A h \in DOMAIN TenantChangeRoutes : Judged(TenantChangeRoutes[h])
  BY DEF TenantChangeRoutes
<1>9. \A h \in DOMAIN InvitationRoutes : Judged(InvitationRoutes[h])
  BY DEF InvitationRoutes
<1>10. \A h \in DOMAIN RoleRoutes : Judged(RoleRoutes[h])
  BY DEF RoleRoutes
<1>11. \A h \in DOMAIN RoleReadRoutes : Judged(RoleReadRoutes[h])
  BY DEF RoleReadRoutes
<1>12. \A h \in DOMAIN RolePermissionsRoutes : Judged(RolePermissionsRoutes[h])
  BY DEF RolePermissionsRoutes
<1>13. \A h \in DOMAIN PermissionRoutes : Judged(PermissionRoutes[h])
  BY DEF PermissionRoutes
<1>14. \A h \in DOMAIN RoleTenantRoutes : Judged(RoleTenantRoutes[h])
  BY DEF RoleTenantRoutes
<1>15. \A h \in DOMAIN TenantRoleConfigurationRoutes : Judged(TenantRoleConfigurationRoutes[h])
  BY DEF TenantRoleConfigurationRoutes
<1>16. \A h \in DOMAIN AuditRoutes : Judged(AuditRoutes[h])
  BY DEF AuditRoutes
<1>17. \A h \in DOMAIN NotificationRoutes : Judged(NotificationRoutes[h])
  BY DEF NotificationRoutes
<1>18. \A h \in DOMAIN NotificationVariablesRoutes : Judged(NotificationVariablesRoutes[h])
  BY DEF NotificationVariablesRoutes
<1>19. \A h \in DOMAIN NotificationPreferenceRoutes : Judged(NotificationPreferenceRoutes[h])
  BY DEF NotificationPreferenceRoutes
<1>20. \A h \in DOMAIN PreferenceChangeRoutes : Judged(PreferenceChangeRoutes[h])
  BY DEF PreferenceChangeRoutes
<1>21. \A h \in DOMAIN TemplateManagementRoutes : Judged(TemplateManagementRoutes[h])
  BY DEF TemplateManagementRoutes
<1>22. \A h \in DOMAIN TemplateStateRoutes : Judged(TemplateStateRoutes[h])
  BY DEF TemplateStateRoutes
<1>23. \A h \in DOMAIN FileRoutes : Judged(FileRoutes[h])
  BY DEF FileRoutes
<1>24. \A h \in DOMAIN FileChangeRoutes : Judged(FileChangeRoutes[h])
  BY DEF FileChangeRoutes
<1>25. \A h \in DOMAIN FileQuotaRoutes : Judged(FileQuotaRoutes[h])
  BY DEF FileQuotaRoutes
<1>26. \A h \in DOMAIN VacancyRoutes : Judged(VacancyRoutes[h])
  BY DEF VacancyRoutes
<1> QED
  BY <1>1, <1>2, <1>3, <1>4, <1>5, <1>6, <1>7, <1>8, <1>9, <1>10, <1>11, <1>12, <1>13, <1>14,
     <1>15, <1>16, <1>17, <1>18, <1>19, <1>20, <1>21, <1>22, <1>23, <1>24, <1>25, <1>26
  DEF AllRoutes, Controllers

(* The route of an operation is one of the controllers'. *)
LEMMA OpRoutes == \A op \in Ops : \A route \in RoutesOf(op) : route \in AllRoutes
<1>1. ASSUME NEW op \in Ops \ {"elsewhere"} PROVE OpRoute[op] \in AllRoutes
  <2>1. CASE op \in {"suspend", "reactivate", "changeRole"}
    BY <2>1 DEF OpRoute, AllRoutes, Controllers, UserRoutes
  <2>2. CASE op \in {"invite", "createTenant"}
    BY <2>2 DEF OpRoute, AllRoutes, Controllers, InvitationRoutes, TenantRoutes
  <2>3. CASE op \in {"updateTenant", "suspendTenant", "reactivateTenant"}
    BY <2>3 DEF OpRoute, AllRoutes, Controllers, TenantChangeRoutes
  <2>4. CASE op \in {"createRole", "updateRole"}
    BY <2>4 DEF OpRoute, AllRoutes, Controllers, RoleRoutes
  <2>5. CASE op \in {"assignPermissions", "removePermissions"}
    BY <2>5 DEF OpRoute, AllRoutes, Controllers, RolePermissionsRoutes
  <2>6. CASE op \in {"createPermission", "updatePermission"}
    BY <2>6 DEF OpRoute, AllRoutes, Controllers, PermissionRoutes
  <2>7. CASE op \in {"associate", "disassociate"}
    BY <2>7 DEF OpRoute, AllRoutes, Controllers, RoleTenantRoutes
  <2>8. CASE op \in {"createConfiguration", "updateConfiguration", "deleteConfiguration"}
    BY <2>8 DEF OpRoute, AllRoutes, Controllers, TenantRoleConfigurationRoutes
  <2> QED
    BY <2>1, <2>2, <2>3, <2>4, <2>5, <2>6, <2>7, <2>8 DEF Ops
<1> QED
  BY <1>1 DEF RoutesOf

(* An input gives an operation the identifiers it works with. *)
LEMMA InputsGiven ==
    ASSUME NEW op \in Ops, NEW arg \in Inputs(op)
    PROVE  arg \in Arg /\ Given(op, arg)
<1>0. NoArg \in Arg /\ PermissionsInPlay \subseteq Permissions
  BY DEF NoArg, Arg, PermissionsInPlay
<1>1. CASE op \in {"suspend", "reactivate"}
  <2>1. PICK u \in Users : arg = [NoArg EXCEPT !.user = u]
    BY <1>1 DEF Inputs
  <2> QED
    BY <1>0, <1>1, <2>1 DEF Given, Arg, NoArg
<1>2. CASE op = "changeRole"
  <2>1. PICK x \in Users \X Roles : arg = [NoArg EXCEPT !.user = x[1], !.role = x[2]]
    BY <1>2 DEF Inputs
  <2> QED
    BY <1>0, <1>2, <2>1 DEF Given, Arg, NoArg
<1>3. CASE op \in {"createTenant", "updateTenant", "suspendTenant", "reactivateTenant"}
  <2>1. PICK t \in Tenants : arg = [NoArg EXCEPT !.tenant = t]
    BY <1>3 DEF Inputs
  <2> QED
    BY <1>0, <1>3, <2>1 DEF Given, Arg, NoArg
<1>4. CASE op \in {"invite", "createRole", "updateRole", "createConfiguration"}
  <2>1. PICK r \in Roles : arg = [NoArg EXCEPT !.role = r]
    BY <1>4 DEF Inputs
  <2> QED
    BY <1>0, <1>4, <2>1 DEF Given, Arg, NoArg
<1>5. CASE op \in {"createPermission", "updatePermission"}
  <2>1. PICK c \in PermissionsInPlay : arg = [NoArg EXCEPT !.permission = c]
    BY <1>5 DEF Inputs
  <2> QED
    BY <1>0, <1>5, <2>1 DEF Given, Arg, NoArg
<1>6. CASE op \in {"assignPermissions", "removePermissions"}
  <2>1. PICK x \in Roles \X PermissionsInPlay :
            arg = [NoArg EXCEPT !.role = x[1], !.permission = x[2]]
    BY <1>6 DEF Inputs
  <2> QED
    BY <1>0, <1>6, <2>1 DEF Given, Arg, NoArg
<1>7. CASE op \in {"associate", "disassociate", "updateConfiguration", "deleteConfiguration"}
  <2>1. PICK x \in Roles \X Tenants : arg = [NoArg EXCEPT !.role = x[1], !.tenant = x[2]]
    BY <1>7 DEF Inputs
  <2> QED
    BY <1>0, <1>7, <2>1 DEF Given, Arg, NoArg
<1>8. CASE op = "elsewhere"
  BY <1>0, <1>8 DEF Inputs, Given
<1> QED
  BY <1>1, <1>2, <1>3, <1>4, <1>5, <1>6, <1>7, <1>8 DEF Ops

(* A handler begins with a step of its own. *)
LEMMA FirstSteps ==
    \A op \in Ops : FirstStep[op] \in Handlers /\ op \in OpsAt[FirstStep[op]]
                        /\ FirstStep[op] \in {"actor", "findUser", "invite", "createTenant",
                              "findTenant", "createRole", "findRole", "grants", "createPermission",
                              "findPermission", "associations", "findConfiguration", "elsewhere"}
  BY DEF Ops, FirstStep, Handlers, OpsAt

-----------------------------------------------------------------------------
(* Rows *)

(* What the constructors make, and what a new version keeps. *)
LEMMA RowTypes ==
    /\ \A t \in Tenants, r \in Roles : NewUser(t, r) \in UserRow
    /\ \A type \in {"PLATFORM", "CUSTOMER"} : NewTenant(type) \in TenantRow
    /\ \A scope \in Scopes : NewRole(scope) \in RoleRow /\ NewPermission(scope) \in PermissionRow
    /\ \A row \in UserRow : row.version < MaxVersion =>
            /\ Bumped(row) \in UserRow /\ Bumped(row).version = row.version + 1
            /\ Bumped(row).tenant = row.tenant /\ Bumped(row).role = row.role
            /\ Bumped(row).status = row.status
    /\ \A row \in TenantRow : row.version < MaxVersion =>
            /\ Bumped(row) \in TenantRow /\ Bumped(row).version = row.version + 1
            /\ Bumped(row).type = row.type
    /\ \A row \in RoleRow : row.version < MaxVersion =>
            /\ Bumped(row) \in RoleRow /\ Bumped(row).version = row.version + 1
            /\ Bumped(row).scope = row.scope
    /\ \A row \in ConfigurationRow : row.version < MaxVersion => Bumped(row) \in ConfigurationRow
  BY BoundIsNat DEF NewUser, NewTenant, NewRole, NewPermission, Bumped, UserRow, TenantRow, RoleRow,
                    PermissionRow, ConfigurationRow, Statuses, Scopes

(* The entities' methods keep all but the column they are named after. *)
LEMMA ChangedTypes ==
    /\ \A row \in UserRow :
        /\ Suspended(row) \in UserRow /\ Suspended(row).status = "SUSPENDED"
        /\ Suspended(row).tenant = row.tenant /\ Suspended(row).role = row.role
        /\ Suspended(row).version = row.version
        /\ Reactivated(row) \in UserRow /\ Reactivated(row).status = "ACTIVE"
        /\ Reactivated(row).tenant = row.tenant /\ Reactivated(row).role = row.role
        /\ Reactivated(row).version = row.version
        /\ \A r \in Roles :
            /\ [row EXCEPT !.role = r] \in UserRow /\ [row EXCEPT !.role = r].role = r
            /\ [row EXCEPT !.role = r].tenant = row.tenant
            /\ [row EXCEPT !.role = r].status = row.status
            /\ [row EXCEPT !.role = r].version = row.version
    /\ \A row \in TenantRow : \A op \in OpsAt["writeTenant"] :
        /\ Changed(op, row) \in TenantRow /\ Changed(op, row).type = row.type
        /\ Changed(op, row).version = row.version
    /\ \A row \in PermissionRow :
        /\ [row EXCEPT !.description = "edited"] \in PermissionRow
        /\ [row EXCEPT !.description = "edited"].scope = row.scope
<1>1. \A row \in UserRow :
        /\ Suspended(row) \in UserRow /\ Suspended(row).status = "SUSPENDED"
        /\ Suspended(row).tenant = row.tenant /\ Suspended(row).role = row.role
        /\ Suspended(row).version = row.version
        /\ Reactivated(row) \in UserRow /\ Reactivated(row).status = "ACTIVE"
        /\ Reactivated(row).tenant = row.tenant /\ Reactivated(row).role = row.role
        /\ Reactivated(row).version = row.version
  BY DEF Suspended, Reactivated, UserRow, Statuses
<1>2. \A row \in UserRow : \A r \in Roles :
            /\ [row EXCEPT !.role = r] \in UserRow /\ [row EXCEPT !.role = r].role = r
            /\ [row EXCEPT !.role = r].tenant = row.tenant
            /\ [row EXCEPT !.role = r].status = row.status
            /\ [row EXCEPT !.role = r].version = row.version
  BY DEF UserRow
<1>3. \A row \in TenantRow :
        /\ Suspended(row) \in TenantRow /\ Suspended(row).type = row.type
        /\ Suspended(row).version = row.version
        /\ Reactivated(row) \in TenantRow /\ Reactivated(row).type = row.type
        /\ Reactivated(row).version = row.version
  BY DEF Suspended, Reactivated, TenantRow, Statuses
<1>4. \A row \in PermissionRow :
        /\ [row EXCEPT !.description = "edited"] \in PermissionRow
        /\ [row EXCEPT !.description = "edited"].scope = row.scope
  BY DEF PermissionRow
<1>5. OpsAt["writeTenant"] = {"updateTenant", "suspendTenant", "reactivateTenant"}
  BY DEF OpsAt
<1> QED
  BY <1>1, <1>2, <1>3, <1>4, <1>5 DEF Changed

-----------------------------------------------------------------------------
(* Locals *)

(* What a request may hold, and what a step changes of it. *)
LEMMA LocalTypes ==
    /\ NoLocals \in Local
    /\ \A locals \in Local :
        /\ \A r \in Roles : /\ [locals EXCEPT !.role = r] \in Local
                            /\ [locals EXCEPT !.role = r].role = r
        /\ \A row \in UserRow \cup TenantRow \cup RoleRow \cup PermissionRow \cup ConfigurationRow :
                /\ [locals EXCEPT !.row = row] \in Local
                /\ [locals EXCEPT !.row = row].row = row
<1>1. NoArg \in Arg
  BY DEF NoArg, Arg
<1> QED
  BY <1>1 DEF NoLocals, Local

(* Apart from the field that is set the locals stay. *)
LEMMA LocalsKept ==
    ASSUME NEW locals \in Local
    PROVE  /\ \A r : LET next == [locals EXCEPT !.role = r] IN
                next.op = locals.op /\ next.route = locals.route /\ next.token = locals.token
                    /\ next.arg = locals.arg /\ next.row = locals.row
           /\ \A row : LET next == [locals EXCEPT !.row = row] IN
                next.op = locals.op /\ next.route = locals.route /\ next.token = locals.token
                    /\ next.arg = locals.arg /\ next.role = locals.role
  BY DEF Local

(* What a request is sure to have, by the step it is at. *)
LEMMA Arguments ==
    ASSUME TypeOK, TokensFit, NEW p \in Requests, CallerKnown(pc[p], loc[p])
    PROVE  /\ pc[p] \in {"actor", "target", "writeSuspension", "findUser", "writeReactivation",
                         "validateRole", "writeRole"} => loc[p].arg.user \in Users
           /\ pc[p] \in {"createTenant", "findTenant", "writeTenant", "associations"} =>
                loc[p].arg.tenant \in Tenants
           /\ pc[p] \in {"validateRole", "writeRole", "invite", "insertInvitation", "createRole",
                         "findRole", "writeRoleRow", "grants", "associations"} =>
                loc[p].arg.role \in Roles
           /\ pc[p] \in {"createPermission", "findPermission", "writePermission", "grants"} =>
                loc[p].arg.permission \in Permissions
           /\ pc[p] \in {"findConfiguration", "insertConfiguration", "writeConfiguration",
                         "removeConfiguration"} => ConfigurationOf(p) \in Tenants \X Roles
           /\ InFlight(p) /\ pc[p] # "elsewhere" =>
                /\ loc[p].token \in tokens /\ loc[p].token \in Token
                /\ user[loc[p].token.user] \in UserRow /\ Home(p) \in Tenants
           /\ loc[p] \in Local
<1>1. /\ loc[p] \in Local /\ loc[p].arg \in Arg
      /\ InFlight(p) => Given(loc[p].op, loc[p].arg)
      /\ pc[p] \in Handlers => loc[p].op \in OpsAt[pc[p]]
  BY DEF TypeOK, CallerKnown, InFlight, Local
<1>2. pc[p] \in {"actor", "target", "writeSuspension", "findUser", "writeReactivation",
                 "validateRole", "writeRole"} => loc[p].arg.user \in Users
  BY <1>1 DEF InFlight, Handlers, OpsAt, Given
<1>3. pc[p] \in {"createTenant", "findTenant", "writeTenant", "associations"} =>
            loc[p].arg.tenant \in Tenants
  BY <1>1 DEF InFlight, Handlers, OpsAt, Given
<1>4. pc[p] \in {"validateRole", "writeRole", "invite", "insertInvitation", "createRole",
                 "findRole", "writeRoleRow", "grants", "associations"} =>
            loc[p].arg.role \in Roles
  BY <1>1 DEF InFlight, Handlers, OpsAt, Given
<1>5. pc[p] \in {"createPermission", "findPermission", "writePermission", "grants"} =>
            loc[p].arg.permission \in Permissions
  BY <1>1 DEF InFlight, Handlers, OpsAt, Given
<1>6. InFlight(p) /\ pc[p] # "elsewhere" =>
            /\ loc[p].token \in tokens /\ loc[p].token \in Token
            /\ user[loc[p].token.user] \in UserRow /\ Home(p) \in Tenants
  <2> SUFFICES ASSUME InFlight(p), pc[p] # "elsewhere"
               PROVE  /\ loc[p].token \in tokens /\ loc[p].token \in Token
                      /\ user[loc[p].token.user] \in UserRow /\ Home(p) \in Tenants
    OBVIOUS
  <2>1. loc[p].token \in tokens /\ loc[p].token \in Token
    BY DEF CallerKnown, InFlight, TypeOK
  <2>2. user[loc[p].token.user] \in UserRow
    BY <2>1 DEF TokensFit, TypeOK, Token
  <2> QED
    BY <2>1, <2>2 DEF Home, UserRow
<1>7. pc[p] \in {"findConfiguration", "insertConfiguration", "writeConfiguration",
                 "removeConfiguration"} => ConfigurationOf(p) \in Tenants \X Roles
  <2> SUFFICES ASSUME pc[p] \in {"findConfiguration", "insertConfiguration", "writeConfiguration",
                                 "removeConfiguration"}
               PROVE  ConfigurationOf(p) \in Tenants \X Roles
    OBVIOUS
  <2>1. /\ loc[p].op \in {"createConfiguration", "updateConfiguration", "deleteConfiguration"}
        /\ Given(loc[p].op, loc[p].arg)
    BY <1>1 DEF InFlight, Handlers, OpsAt
  <2>2. Home(p) \in Tenants
    BY <1>6 DEF InFlight
  <2> QED
    BY <2>1, <2>2 DEF Given, ConfigurationOf
<1> QED
  BY <1>1, <1>2, <1>3, <1>4, <1>5, <1>6, <1>7

-----------------------------------------------------------------------------
(* What a step may do to the tables *)

(* The row of a user that was read, and is still the stored one, is replaced *)
(* by one of the next version, with another role if that was validated.      *)
WritesUser(p, row) ==
    /\ pc[p] \in {"writeSuspension", "writeReactivation", "writeRole"} /\ pc'[p] = "done"
    /\ loc[p].arg.user \in Users /\ user[loc[p].arg.user] # Nil
    /\ loc[p].row = user[loc[p].arg.user]
    /\ user' = [user EXCEPT ![loc[p].arg.user] = row]
    /\ row.version = loc[p].row.version + 1 /\ row.tenant = loc[p].row.tenant
    /\ row.role = loc[p].row.role \/ (pc[p] = "writeRole" /\ row.role = loc[p].arg.role)
    /\ \/ row.status \in {"ACTIVE", loc[p].row.status}
       \/ pc[p] = "writeSuspension" /\ MaySuspend(p) /\ suspended' = suspended \cup {p}
    /\ Overtake(p)
    /\ UNCHANGED <<fixed, tenant, grants, catalogue>>
AddsUser(u, r, t) ==
    /\ user[u] = Nil /\ <<r, t>> \in invited
    /\ user' = [user EXCEPT ![u] = NewUser(t, r)]
    /\ UNCHANGED <<fixed, tenant, grants, overtaken, catalogue>>
AddsToken(u) ==
    /\ user[u] # Nil
    /\ tokens' = tokens \cup {[user |-> u, role |-> user[u].role]}
    /\ UNCHANGED <<scenario, people, catalogue>>
WritesTenant(p, row) ==
    /\ pc[p] = "writeTenant" /\ pc'[p] = "done"
    /\ loc[p].arg.tenant \in Tenants /\ tenant[loc[p].arg.tenant] # Nil
    /\ loc[p].row = tenant[loc[p].arg.tenant]
    /\ tenant' = [tenant EXCEPT ![loc[p].arg.tenant] = row]
    /\ row.version = loc[p].row.version + 1 /\ row.type = loc[p].row.type
    /\ Overtake(p)
    /\ UNCHANGED <<fixed, user, grants, catalogue>>
AddsTenant(t, row) ==
    /\ tenant[t] = Nil /\ tenant' = [tenant EXCEPT ![t] = row]
    /\ UNCHANGED <<fixed, user, grants, overtaken, catalogue>>
WritesRole(p, row) ==
    /\ pc[p] = "writeRoleRow" /\ pc'[p] = "done"
    /\ loc[p].arg.role \in Roles /\ role[loc[p].arg.role] # Nil
    /\ loc[p].row = role[loc[p].arg.role]
    /\ role' = [role EXCEPT ![loc[p].arg.role] = row]
    /\ row.version = loc[p].row.version + 1 /\ row.scope = loc[p].row.scope
    /\ UNCHANGED <<fixed, people, permission, associations>>
AddsRole(r, row) ==
    /\ role[r] = Nil /\ role' = [role EXCEPT ![r] = row]
    /\ UNCHANGED <<fixed, people, permission, associations>>
WritesPermission(c, row) ==
    /\ permission[c] = Nil \/ row.scope = permission[c].scope
    /\ permission' = [permission EXCEPT ![c] = row]
    /\ UNCHANGED <<fixed, people, role, associations>>
WritesGrants(p, r, c) ==
    /\ grants' \subseteq grants \cup {<<r, c>>}
    /\ role[r] # Nil /\ permission[c] # Nil
    /\ <<r, c>> \in grants' \ grants => PermissionFits(c, r)
    /\ Overtake(p) /\ pc'[p] = "done"
    /\ UNCHANGED <<fixed, user, tenant, catalogue>>
Enables(r, t) ==
    /\ \/ /\ role[r] # Nil /\ tenant[t] # Nil /\ RoleFits(r, t)
          /\ enabled' = enabled \cup {<<r, t>>} /\ withdrawn' = withdrawn
       \/ enabled' = enabled \ {<<r, t>>} /\ withdrawn' = withdrawn \cup {<<r, t>>}
    /\ UNCHANGED <<fixed, people, role, permission, configuration, invited>>
Invites(p) ==
    /\ pc[p] = "insertInvitation"
    /\ loc[p].arg.role \in Roles /\ Home(p) \in Tenants
    /\ invited' = invited \cup {<<loc[p].arg.role, Home(p)>>}
    /\ UNCHANGED <<fixed, people, role, permission, enabled, configuration, withdrawn>>
Configures ==
    /\ configuration' \in [Tenants \X Roles -> ConfigurationRow \cup {Nil}]
    /\ UNCHANGED <<fixed, people, role, permission, enabled, invited, withdrawn>>

WorldStep ==
    \/ UNCHANGED <<fixed, people, catalogue>>
    \/ \E p \in Requests, row \in UserRow : WritesUser(p, row)
    \/ \E u \in Users, r \in Roles, t \in Tenants : AddsUser(u, r, t)
    \/ \E u \in Users : AddsToken(u)
    \/ \E p \in Requests, row \in TenantRow : WritesTenant(p, row)
    \/ \E t \in Tenants, row \in TenantRow : AddsTenant(t, row)
    \/ \E p \in Requests, row \in RoleRow : WritesRole(p, row)
    \/ \E r \in Roles, row \in RoleRow : AddsRole(r, row)
    \/ \E c \in Permissions, row \in PermissionRow : WritesPermission(c, row)
    \/ \E p \in Requests, r \in Roles, c \in Permissions : WritesGrants(p, r, c)
    \/ \E r \in Roles, t \in Tenants : Enables(r, t)
    \/ \E p \in Requests : Invites(p)
    \/ Configures

(* An update of a user writes what the request read, changed, or nothing. *)
LEMMA UserUpdate ==
    ASSUME Inv, NEW p \in Requests, NEW row \in UserRow,
           pc[p] \in {"writeSuspension", "writeReactivation", "writeRole"},
           Unchanged(user[loc[p].arg.user], loc[p].row), loc[p].row.version < MaxVersion,
           row.version = loc[p].row.version
    PROVE  /\ loc[p].arg.user \in Users /\ user[loc[p].arg.user] # Nil
           /\ loc[p].row = user[loc[p].arg.user]
           /\ Bumped(row) \in UserRow /\ Bumped(row).version = loc[p].row.version + 1
           /\ Bumped(row).tenant = row.tenant /\ Bumped(row).role = row.role
           /\ Bumped(row).status = row.status
<1>1. loc[p].arg.user \in Users
  BY Arguments DEF Inv, Knows, KnowsAt
<1>2. user[loc[p].arg.user] # Nil /\ loc[p].row = user[loc[p].arg.user]
  BY DEF Unchanged, Inv, Knows, KnowsAt, RowKnown, ReadFrom
<1> QED
  BY <1>1, <1>2, RowTypes

(* Every step is one of these. *)
LEMMA WorldSteps ==
    ASSUME Inv, Next
    PROVE  WorldStep
<1> USE DEF fixed, people, catalogue, associations, audits
<1>1. ASSUME NEW p \in Requests,
             \/ ServePublic(p) \/ Authenticate(p) \/ AuthenticationFails(p)
             \/ PermissionUser(p) \/ PermissionRole(p) \/ SuspendActor(p) \/ SuspendTarget(p)
             \/ SuspendFails(p) \/ WriteAuditEvent(p) \/ FindUser(p) \/ ReactivateRefused(p)
             \/ ChangeRoleValidate(p) \/ InviteValidate(p) \/ FindTenant(p) \/ FindRole(p)
             \/ FindPermission(p) \/ FindConfiguration(p)
      PROVE  WorldStep
  <2>1. UNCHANGED <<fixed, people, catalogue>>
    BY <1>1 DEF ServePublic, Authenticate, AuthenticationFails, PermissionUser, PermissionRole,
         SuspendActor, SuspendTarget, SuspendFails, WriteAuditEvent, FindUser, ReactivateRefused,
         ChangeRoleValidate, InviteValidate, FindTenant, FindRole, FindPermission,
         FindConfiguration
  <2> QED
    BY <2>1 DEF WorldStep
<1>2. ASSUME NEW p \in Requests, SuspendWrite(p) \/ ReactivateWrite(p) \/ ChangeRoleWrite(p)
      PROVE  WorldStep
  <2>1. /\ pc[p] \in {"writeSuspension", "writeReactivation", "writeRole"}
        /\ loc[p].row \in UserRow
        /\ pc[p] = "writeRole" => loc[p].arg.role \in Roles
    BY <1>2, Arguments DEF SuspendWrite, ReactivateWrite, ChangeRoleWrite, Inv, Knows, KnowsAt,
                              RowKnown
  <2>2. pc'[p] = "done"
    BY <1>2 DEF SuspendWrite, ReactivateWrite, ChangeRoleWrite, UpdateUser, Finish, Goto,
                Inv, TypeOK
  <2>3. CASE SuspendWrite(p)
    <3>1. PICK row \in UserRow : row = Suspended(loc[p].row)
      BY <2>1, ChangedTypes
    <3>2. WritesUser(p, Bumped(row)) /\ Bumped(row) \in UserRow
      BY <2>1, <2>2, <2>3, <3>1, ChangedTypes, UserUpdate DEF SuspendWrite, WritesUser
    <3> QED
      BY <3>2 DEF WorldStep
  <2>4. ASSUME NEW row \in UserRow, UpdateUser(p, row), row.version = loc[p].row.version,
               row.tenant = loc[p].row.tenant,
               row.role = loc[p].row.role \/ (pc[p] = "writeRole" /\ row.role = loc[p].arg.role),
               row.status \in {"ACTIVE", loc[p].row.status}
        PROVE  WorldStep
    <3>1. CASE ~Unchanged(user[loc[p].arg.user], loc[p].row)
      BY <2>4, <3>1 DEF UpdateUser, WorldStep
    <3>2. CASE Unchanged(user[loc[p].arg.user], loc[p].row)
      <4>1. WritesUser(p, Bumped(row)) /\ Bumped(row) \in UserRow
        BY <2>1, <2>2, <2>4, <3>2, UserUpdate DEF UpdateUser, WritesUser
      <4> QED
        BY <4>1 DEF WorldStep
    <3> QED
      BY <3>1, <3>2
  <2>5. CASE ReactivateWrite(p)
    BY <2>1, <2>4, <2>5, ChangedTypes DEF ReactivateWrite
  <2>6. CASE ChangeRoleWrite(p)
    BY <2>1, <2>4, <2>6, ChangedTypes DEF ChangeRoleWrite
  <2> QED
    BY <1>2, <2>3, <2>5, <2>6
<1>3. ASSUME NEW u \in Users, Register(u) PROVE WorldStep
  <2>1. PICK r \in Roles, t \in Tenants : /\ <<r, t>> \in invited
                                          /\ user' = [user EXCEPT ![u] = NewUser(t, r)]
    <3>1. PICK pair \in invited : user' = [user EXCEPT ![u] = NewUser(pair[2], pair[1])]
      BY <1>3 DEF Register
    <3>2. PICK r \in Roles, t \in Tenants : pair = <<r, t>>
      BY DEF Inv, TypeOK
    <3> QED
      BY <3>1, <3>2
  <2> QED
    BY <1>3, <2>1 DEF Register, AddsUser, WorldStep
<1>4. ASSUME NEW u \in Users, IssueToken(u) PROVE WorldStep
  BY <1>4 DEF IssueToken, AddsToken, WorldStep
<1>5. ASSUME NEW p \in Requests, CreateTenant(p) PROVE WorldStep
  <2>1. loc[p].arg.tenant \in Tenants
    BY <1>5, Arguments DEF CreateTenant, Inv, Knows, KnowsAt
  <2>2. PICK row \in TenantRow : tenant' = [tenant EXCEPT ![loc[p].arg.tenant] = row]
    BY <1>5, RowTypes DEF CreateTenant
  <2> QED
    BY <1>5, <2>1, <2>2 DEF CreateTenant, AddsTenant, WorldStep
<1>6. ASSUME NEW p \in Requests, TenantWrite(p) PROVE WorldStep
  <2>1. CASE UNCHANGED <<tenant, overtaken>>
    BY <1>6, <2>1 DEF TenantWrite, WorldStep
  <2>2. CASE ~UNCHANGED <<tenant, overtaken>>
    <3>1. /\ loc[p].arg.tenant \in Tenants /\ loc[p].op \in OpsAt["writeTenant"]
          /\ loc[p].row \in TenantRow /\ loc[p].row.version < MaxVersion
          /\ tenant[loc[p].arg.tenant] # Nil /\ loc[p].row = tenant[loc[p].arg.tenant]
      BY <1>6, <2>2, Arguments DEF TenantWrite, Unchanged, Inv, Knows, KnowsAt, CallerKnown,
                                  RowKnown, ReadFrom, Handlers
    <3>2. PICK row \in TenantRow : /\ row = Changed(loc[p].op, loc[p].row)
                                   /\ row.type = loc[p].row.type
                                   /\ row.version = loc[p].row.version
      BY <3>1, ChangedTypes
    <3>3. Bumped(row) \in TenantRow /\ pc'[p] = "done" /\ WritesTenant(p, Bumped(row))
      BY <1>6, <2>2, <3>1, <3>2, RowTypes DEF TenantWrite, WritesTenant, Finish, Goto, Inv, TypeOK
    <3> QED
      BY <3>3 DEF WorldStep
  <2> QED
    BY <2>1, <2>2
<1>7. ASSUME NEW p \in Requests, CreateRole(p) PROVE WorldStep
  <2>1. loc[p].arg.role \in Roles
    BY <1>7, Arguments DEF CreateRole, Inv, Knows, KnowsAt
  <2>2. PICK row \in RoleRow : role' = [role EXCEPT ![loc[p].arg.role] = row]
    BY <1>7, RowTypes DEF CreateRole
  <2> QED
    BY <1>7, <2>1, <2>2 DEF CreateRole, AddsRole, WorldStep
<1>8. ASSUME NEW p \in Requests, RoleWrite(p) PROVE WorldStep
  <2>1. CASE ~Unchanged(role[loc[p].arg.role], loc[p].row)
    BY <1>8, <2>1 DEF RoleWrite, WorldStep
  <2>2. CASE Unchanged(role[loc[p].arg.role], loc[p].row)
    <3>1. /\ loc[p].arg.role \in Roles
          /\ loc[p].row \in RoleRow /\ loc[p].row.version < MaxVersion
          /\ role[loc[p].arg.role] # Nil /\ loc[p].row = role[loc[p].arg.role]
      BY <1>8, <2>2, Arguments DEF RoleWrite, Unchanged, Inv, Knows, KnowsAt, RowKnown, ReadFrom
    <3>2. Bumped(loc[p].row) \in RoleRow /\ WritesRole(p, Bumped(loc[p].row))
      BY <1>8, <2>2, <3>1, RowTypes DEF RoleWrite, WritesRole, Finish, Goto, Inv, TypeOK
    <3> QED
      BY <3>2 DEF WorldStep
  <2> QED
    BY <2>1, <2>2
<1>9. ASSUME NEW p \in Requests, CreatePermission(p) \/ PermissionWrite(p) PROVE WorldStep
  <2>1. loc[p].arg.permission \in Permissions
    BY <1>9, Arguments DEF CreatePermission, PermissionWrite, Inv, Knows, KnowsAt
  <2>2. PICK row \in PermissionRow :
            /\ permission' = [permission EXCEPT ![loc[p].arg.permission] = row]
            /\ \/ permission[loc[p].arg.permission] = Nil
               \/ row.scope = permission[loc[p].arg.permission].scope
    <3>1. CASE CreatePermission(p)
      BY <3>1, RowTypes DEF CreatePermission
    <3>2. CASE PermissionWrite(p)
      <4>1. loc[p].row \in PermissionRow
            /\ loc[p].row.scope = permission[loc[p].arg.permission].scope
        BY <3>2 DEF PermissionWrite, Inv, Knows, KnowsAt, RowKnown
      <4>2. PICK row \in PermissionRow : /\ row = [loc[p].row EXCEPT !.description = "edited"]
                                         /\ row.scope = loc[p].row.scope
        BY <4>1, ChangedTypes
      <4> QED
        BY <3>2, <4>1, <4>2 DEF PermissionWrite
    <3> QED
      BY <1>9, <3>1, <3>2
  <2> QED
    BY <1>9, <2>1, <2>2 DEF CreatePermission, PermissionWrite, WritesPermission, WorldStep
<1>10. ASSUME NEW p \in Requests, AssignPermissions(p) \/ RemovePermissions(p) PROVE WorldStep
  <2>1. PICK r \in Roles, c \in Permissions : r = loc[p].arg.role /\ c = loc[p].arg.permission
    BY <1>10, Arguments DEF AssignPermissions, RemovePermissions, Inv, Knows, KnowsAt
  <2>2. pc'[p] = "done"
    BY <1>10 DEF AssignPermissions, RemovePermissions, Finish, Goto, Inv, TypeOK
  <2>3. UNCHANGED <<fixed, people, catalogue>> \/ WritesGrants(p, r, c)
    BY <1>10, <2>1, <2>2 DEF AssignPermissions, RemovePermissions, WritesGrants
  <2> QED
    BY <2>3 DEF WorldStep
<1>11. ASSUME NEW p \in Requests, AssociateRoles(p) \/ DisassociateRoles(p) PROVE WorldStep
  <2>1. PICK r \in Roles, t \in Tenants : r = loc[p].arg.role /\ t = loc[p].arg.tenant
    BY <1>11, Arguments DEF AssociateRoles, DisassociateRoles, Inv, Knows, KnowsAt
  <2>2. UNCHANGED <<fixed, people, catalogue>> \/ Enables(r, t)
    BY <1>11, <2>1 DEF AssociateRoles, DisassociateRoles, Enables
  <2> QED
    BY <2>2 DEF WorldStep
<1>12. ASSUME NEW p \in Requests, InviteInsert(p) PROVE WorldStep
  <2>1. loc[p].arg.role \in Roles /\ Home(p) \in Tenants
    BY <1>12, Arguments DEF InviteInsert, Inv, Knows, KnowsAt, InFlight
  <2> QED
    BY <1>12, <2>1 DEF InviteInsert, Invites, WorldStep
<1>13. ASSUME NEW p \in Requests,
              InsertConfiguration(p) \/ WriteConfiguration(p) \/ RemoveConfiguration(p)
       PROVE  WorldStep
  <2>1. PICK c \in Tenants \X Roles : c = ConfigurationOf(p)
    BY <1>13, Arguments DEF InsertConfiguration, WriteConfiguration, RemoveConfiguration, Inv,
                            Knows, KnowsAt
  <2>2. [version |-> 0] \in ConfigurationRow
    BY BoundIsNat DEF ConfigurationRow
  <2>3. pc[p] = "writeConfiguration" => loc[p].row \in ConfigurationRow
    BY DEF Inv, Knows, KnowsAt, RowKnown
  <2>4. configuration \in [Tenants \X Roles -> ConfigurationRow \cup {Nil}]
    BY DEF Inv, TypeOK
  <2>5. Configures
    BY <1>13, <2>1, <2>2, <2>3, <2>4, RowTypes
    DEF InsertConfiguration, WriteConfiguration, RemoveConfiguration, Configures
  <2> QED
    BY <2>5 DEF WorldStep
<1> QED
  BY <1>1, <1>2, <1>3, <1>4, <1>5, <1>6, <1>7, <1>8, <1>9, <1>10, <1>11, <1>12, <1>13 DEF Next

-----------------------------------------------------------------------------
(* What every step leaves in place *)

(* Which tables a step writes. *)
LEMMA TablesWritten ==
    ASSUME Inv, Next
    PROVE  /\ scenario' = scenario
           /\ \/ user' = user
              \/ \E p \in Requests, row \in UserRow : WritesUser(p, row)
              \/ \E u \in Users, r \in Roles, t \in Tenants : AddsUser(u, r, t)
           /\ \/ tenant' = tenant
              \/ \E p \in Requests, row \in TenantRow : WritesTenant(p, row)
              \/ \E t \in Tenants, row \in TenantRow : AddsTenant(t, row)
           /\ \/ role' = role
              \/ \E p \in Requests, row \in RoleRow : WritesRole(p, row)
              \/ \E r \in Roles, row \in RoleRow : AddsRole(r, row)
           /\ \/ permission' = permission
              \/ \E c \in Permissions, row \in PermissionRow : WritesPermission(c, row)
           /\ \/ grants' = grants
              \/ \E p \in Requests, r \in Roles, c \in Permissions : WritesGrants(p, r, c)
           /\ \/ UNCHANGED <<enabled, withdrawn>>
              \/ \E r \in Roles, t \in Tenants : Enables(r, t)
           /\ invited' = invited \/ \E p \in Requests : Invites(p)
           /\ configuration' = configuration \/ Configures
           /\ tokens' = tokens \/ \E u \in Users : AddsToken(u)
           /\ overtaken' = overtaken \/ \E p \in Requests : Overtake(p)
<1> USE WorldSteps DEF WorldStep, fixed, people, catalogue, associations
<1>1. scenario' = scenario
  BY DEF WritesUser, AddsUser, AddsToken, WritesTenant, AddsTenant, WritesRole, AddsRole,
         WritesPermission, WritesGrants, Enables, Invites, Configures
<1>2. \/ user' = user
      \/ \E p \in Requests, row \in UserRow : WritesUser(p, row)
      \/ \E u \in Users, r \in Roles, t \in Tenants : AddsUser(u, r, t)
  BY DEF AddsToken, WritesTenant, AddsTenant, WritesRole, AddsRole, WritesPermission,
         WritesGrants, Enables, Invites, Configures
<1>3. \/ tenant' = tenant
      \/ \E p \in Requests, row \in TenantRow : WritesTenant(p, row)
      \/ \E t \in Tenants, row \in TenantRow : AddsTenant(t, row)
  BY DEF WritesUser, AddsUser, AddsToken, WritesRole, AddsRole, WritesPermission,
         WritesGrants, Enables, Invites, Configures
<1>4. \/ role' = role
      \/ \E p \in Requests, row \in RoleRow : WritesRole(p, row)
      \/ \E r \in Roles, row \in RoleRow : AddsRole(r, row)
  BY DEF WritesUser, AddsUser, AddsToken, WritesTenant, AddsTenant, WritesPermission,
         WritesGrants, Enables, Invites, Configures
<1>5. \/ permission' = permission
      \/ \E c \in Permissions, row \in PermissionRow : WritesPermission(c, row)
  BY DEF WritesUser, AddsUser, AddsToken, WritesTenant, AddsTenant, WritesRole, AddsRole,
         WritesGrants, Enables, Invites, Configures
<1>6. \/ grants' = grants
      \/ \E p \in Requests, r \in Roles, c \in Permissions : WritesGrants(p, r, c)
  BY DEF WritesUser, AddsUser, AddsToken, WritesTenant, AddsTenant, WritesRole, AddsRole,
         WritesPermission, Enables, Invites, Configures
<1>7. \/ UNCHANGED <<enabled, withdrawn>>
      \/ \E r \in Roles, t \in Tenants : Enables(r, t)
  BY DEF WritesUser, AddsUser, AddsToken, WritesTenant, AddsTenant, WritesRole, AddsRole,
         WritesPermission, WritesGrants, Invites, Configures
<1>8. invited' = invited \/ \E p \in Requests : Invites(p)
  BY DEF WritesUser, AddsUser, AddsToken, WritesTenant, AddsTenant, WritesRole, AddsRole,
         WritesPermission, WritesGrants, Enables, Configures
<1>9. configuration' = configuration \/ Configures
  BY DEF WritesUser, AddsUser, AddsToken, WritesTenant, AddsTenant, WritesRole, AddsRole,
         WritesPermission, WritesGrants, Enables, Invites
<1>10. tokens' = tokens \/ \E u \in Users : AddsToken(u)
  BY DEF WritesUser, AddsUser, WritesTenant, AddsTenant, WritesRole, AddsRole,
         WritesPermission, WritesGrants, Enables, Invites, Configures
<1>11. overtaken' = overtaken \/ \E p \in Requests : Overtake(p)
  BY DEF WritesUser, AddsUser, AddsToken, WritesTenant, AddsTenant, WritesRole, AddsRole,
         WritesPermission, WritesGrants, Enables, Invites, Configures
<1> QED
  BY <1>1, <1>2, <1>3, <1>4, <1>5, <1>6, <1>7, <1>8, <1>9, <1>10, <1>11

WorldEvolves ==
    /\ \A u \in Users : user[u] # Nil =>
        /\ user'[u] # Nil /\ user'[u].tenant = user[u].tenant
        /\ user'[u] = user[u] \/ user'[u].version > user[u].version
    /\ \A t \in Tenants : tenant[t] # Nil =>
        /\ tenant'[t] # Nil /\ tenant'[t].type = tenant[t].type
        /\ tenant'[t] = tenant[t] \/ tenant'[t].version > tenant[t].version
    /\ \A r \in Roles : role[r] # Nil =>
        /\ role'[r] # Nil /\ role'[r].scope = role[r].scope
        /\ role'[r] = role[r] \/ role'[r].version > role[r].version
    /\ \A c \in Permissions : permission[c] # Nil =>
        permission'[c] # Nil /\ permission'[c].scope = permission[c].scope
    /\ tokens \subseteq tokens'
    /\ enabled \cup withdrawn \subseteq enabled' \cup withdrawn'

(* Rows get new versions, and keep the tenant, type or scope they have. *)
LEMMA Evolution ==
    ASSUME Inv, Next
    PROVE  WorldEvolves
<1> USE NilIsFresh, BoundIsNat DEF Inv, TypeOK
<1>1. \A u \in Users : user[u] # Nil =>
        /\ user'[u] # Nil /\ user'[u].tenant = user[u].tenant
        /\ user'[u] = user[u] \/ user'[u].version > user[u].version
  <2>1. CASE user' = user
    BY <2>1
  <2>2. ASSUME NEW p \in Requests, NEW row \in UserRow, WritesUser(p, row), NEW u \in Users,
               user[u] # Nil
        PROVE  /\ user'[u] # Nil /\ user'[u].tenant = user[u].tenant
               /\ user'[u] = user[u] \/ user'[u].version > user[u].version
    <3>1. CASE u = loc[p].arg.user
      <4>1. user'[u] = row /\ row # Nil /\ loc[p].row = user[u] /\ user[u] \in UserRow
        BY <2>2, <3>1 DEF WritesUser
      <4>2. user[u].version \in Nat
        BY <4>1 DEF UserRow
      <4> QED
        BY <2>2, <4>1, <4>2 DEF WritesUser
    <3>2. CASE u # loc[p].arg.user
      BY <2>2, <3>2 DEF WritesUser
    <3> QED
      BY <3>1, <3>2
  <2>3. ASSUME NEW v \in Users, NEW r \in Roles, NEW t \in Tenants, AddsUser(v, r, t)
        PROVE  \A u \in Users : user[u] # Nil => user'[u] = user[u]
    BY <2>3 DEF AddsUser
  <2> QED
    BY <2>1, <2>2, <2>3, TablesWritten
<1>2. \A t \in Tenants : tenant[t] # Nil =>
        /\ tenant'[t] # Nil /\ tenant'[t].type = tenant[t].type
        /\ tenant'[t] = tenant[t] \/ tenant'[t].version > tenant[t].version
  <2>1. CASE tenant' = tenant
    BY <2>1
  <2>2. ASSUME NEW p \in Requests, NEW row \in TenantRow, WritesTenant(p, row), NEW t \in Tenants,
               tenant[t] # Nil
        PROVE  /\ tenant'[t] # Nil /\ tenant'[t].type = tenant[t].type
               /\ tenant'[t] = tenant[t] \/ tenant'[t].version > tenant[t].version
    <3>1. CASE t = loc[p].arg.tenant
      <4>1. tenant'[t] = row /\ row # Nil /\ loc[p].row = tenant[t] /\ tenant[t] \in TenantRow
        BY <2>2, <3>1 DEF WritesTenant
      <4>2. tenant[t].version \in Nat
        BY <4>1 DEF TenantRow
      <4> QED
        BY <2>2, <4>1, <4>2 DEF WritesTenant
    <3>2. CASE t # loc[p].arg.tenant
      BY <2>2, <3>2 DEF WritesTenant
    <3> QED
      BY <3>1, <3>2
  <2>3. ASSUME NEW v \in Tenants, NEW row \in TenantRow, AddsTenant(v, row)
        PROVE  \A t \in Tenants : tenant[t] # Nil => tenant'[t] = tenant[t]
    BY <2>3 DEF AddsTenant
  <2> QED
    BY <2>1, <2>2, <2>3, TablesWritten
<1>3. \A r \in Roles : role[r] # Nil =>
        /\ role'[r] # Nil /\ role'[r].scope = role[r].scope
        /\ role'[r] = role[r] \/ role'[r].version > role[r].version
  <2>1. CASE role' = role
    BY <2>1
  <2>2. ASSUME NEW p \in Requests, NEW row \in RoleRow, WritesRole(p, row), NEW r \in Roles,
               role[r] # Nil
        PROVE  /\ role'[r] # Nil /\ role'[r].scope = role[r].scope
               /\ role'[r] = role[r] \/ role'[r].version > role[r].version
    <3>1. CASE r = loc[p].arg.role
      <4>1. role'[r] = row /\ row # Nil /\ loc[p].row = role[r] /\ role[r] \in RoleRow
        BY <2>2, <3>1 DEF WritesRole
      <4>2. role[r].version \in Nat
        BY <4>1 DEF RoleRow
      <4> QED
        BY <2>2, <4>1, <4>2 DEF WritesRole
    <3>2. CASE r # loc[p].arg.role
      BY <2>2, <3>2 DEF WritesRole
    <3> QED
      BY <3>1, <3>2
  <2>3. ASSUME NEW v \in Roles, NEW row \in RoleRow, AddsRole(v, row)
        PROVE  \A r \in Roles : role[r] # Nil => role'[r] = role[r]
    BY <2>3 DEF AddsRole
  <2> QED
    BY <2>1, <2>2, <2>3, TablesWritten
<1>4. \A c \in Permissions : permission[c] # Nil =>
        permission'[c] # Nil /\ permission'[c].scope = permission[c].scope
  <2>1. CASE permission' = permission
    BY <2>1
  <2>2. ASSUME NEW d \in Permissions, NEW row \in PermissionRow, WritesPermission(d, row)
        PROVE  \A c \in Permissions : permission[c] # Nil =>
                    permission'[c] # Nil /\ permission'[c].scope = permission[c].scope
    BY <2>2 DEF WritesPermission
  <2> QED
    BY <2>1, <2>2, TablesWritten
<1>5. /\ tokens \subseteq tokens'
      /\ enabled \cup withdrawn \subseteq enabled' \cup withdrawn'
  BY TablesWritten DEF AddsToken, Enables
<1> QED
  BY <1>1, <1>2, <1>3, <1>4, <1>5 DEF WorldEvolves

(* So what fits stays fit. *)
LEMMA FitStays ==
    ASSUME Inv, Next
    PROVE  /\ \A r \in Roles, t \in Tenants : Rightful(r, t) => Rightful(r, t)'
           /\ \A r \in Roles : role[r] # Nil => (IsPlatformRole(r)' <=> IsPlatformRole(r))
           /\ \A t \in Tenants : tenant[t] # Nil => (IsPlatformTenant(t)' <=> IsPlatformTenant(t))
           /\ \A c \in Permissions : permission[c] # Nil =>
                    (IsPlatformPermission(c)' <=> IsPlatformPermission(c))
<1>1. WorldEvolves
  BY Evolution
<1> QED
  BY <1>1 DEF WorldEvolves, Rightful, RoleFits, IsPlatformRole, IsPlatformTenant,
              IsPlatformPermission

(* The tables keep their types. *)
LEMMA TablesTyped ==
    ASSUME Inv, Next
    PROVE  /\ scenario' \in Scenarios
           /\ user' \in [Users -> UserRow \cup {Nil}]
           /\ tenant' \in [Tenants -> TenantRow \cup {Nil}]
           /\ role' \in [Roles -> RoleRow \cup {Nil}]
           /\ permission' \in [Permissions -> PermissionRow \cup {Nil}]
           /\ grants' \subseteq Roles \X Permissions
           /\ enabled' \subseteq Roles \X Tenants /\ withdrawn' \subseteq Roles \X Tenants
           /\ configuration' \in [Tenants \X Roles -> ConfigurationRow \cup {Nil}]
           /\ invited' \subseteq Roles \X Tenants
           /\ tokens' \subseteq Token
           /\ overtaken' \subseteq Requests
<1> USE DEF Inv, TypeOK
<1>1. ASSUME NEW u \in Users, AddsToken(u) PROVE tokens' \subseteq Token
  <2>1. user[u] \in UserRow
    BY <1>1 DEF AddsToken
  <2> QED
    BY <1>1, <2>1 DEF AddsToken, Token, UserRow
<1>2. user' \in [Users -> UserRow \cup {Nil}]
  <2>1. ASSUME NEW u \in Users, NEW r \in Roles, NEW t \in Tenants, AddsUser(u, r, t)
        PROVE  user' \in [Users -> UserRow \cup {Nil}]
    BY <2>1, RowTypes DEF AddsUser
  <2> QED
    BY <2>1, TablesWritten DEF WritesUser
<1>3. tenant' \in [Tenants -> TenantRow \cup {Nil}]
  BY TablesWritten DEF WritesTenant, AddsTenant
<1>4. /\ role' \in [Roles -> RoleRow \cup {Nil}]
      /\ permission' \in [Permissions -> PermissionRow \cup {Nil}]
  BY TablesWritten DEF WritesRole, AddsRole, WritesPermission
<1>5. grants' \subseteq Roles \X Permissions
  <2>1. ASSUME NEW p \in Requests, NEW r \in Roles, NEW c \in Permissions, WritesGrants(p, r, c)
        PROVE  grants' \subseteq Roles \X Permissions
    <3>1. grants' \subseteq grants \cup {<<r, c>>} /\ <<r, c>> \in Roles \X Permissions
      BY <2>1 DEF WritesGrants
    <3> QED
      BY <3>1
  <2> QED
    BY <2>1, TablesWritten
<1>6. enabled' \subseteq Roles \X Tenants /\ withdrawn' \subseteq Roles \X Tenants
  BY TablesWritten DEF Enables
<1>7. invited' \subseteq Roles \X Tenants
  <2>1. ASSUME NEW p \in Requests, Invites(p) PROVE invited' \subseteq Roles \X Tenants
    <3>1. /\ invited' = invited \cup {<<loc[p].arg.role, Home(p)>>}
          /\ <<loc[p].arg.role, Home(p)>> \in Roles \X Tenants
      BY <2>1 DEF Invites
    <3> QED
      BY <3>1
  <2> QED
    BY <2>1, TablesWritten
<1>8. configuration' \in [Tenants \X Roles -> ConfigurationRow \cup {Nil}]
  BY TablesWritten DEF Configures
<1>9. overtaken' \subseteq Requests
  BY TablesWritten DEF Overtake
<1> QED
  BY <1>1, <1>2, <1>3, <1>4, <1>5, <1>6, <1>7, <1>8, <1>9, TablesWritten

-----------------------------------------------------------------------------
(* Where the requests go *)

Stays(q) == pc'[q] = pc[q] /\ loc'[q] = loc[q]

(* A request goes on to a label with locals that know what is needed there;  *)
(* nobody's rows change with that.                                           *)
GoesOn(p, label, locals) ==
    /\ pc[p] # "done" /\ KnowsAt(p, label, locals)
    /\ Goto(p, label) /\ Holding(p, locals)
    /\ UNCHANGED <<fixed, people, catalogue>>

(* What is known at the first step of a handler once the guards let it be.   *)
LEMMA FirstKnown ==
    ASSUME NEW p \in Requests, NEW op \in Ops, NEW locals \in Local,
           locals.op = op, Given(op, locals.arg), locals.route \in AllRoutes,
           locals.token \in tokens \/ (locals.token = Nil /\ op = "elsewhere"),
           p \notin overtaken =>
                \/ locals.token = Nil
                \/ locals.route \in ForAnySession
                \/ Authorised(locals.route, locals.token)
    PROVE  KnowsAt(p, FirstStep[op], locals) /\ FirstStep[op] \in Labels
<1>1. op # "elsewhere" => FirstStep[op] # "elsewhere"
  BY DEF Ops, FirstStep
<1>2. op = "elsewhere" => FirstStep[op] = "elsewhere"
  BY DEF FirstStep
<1>3. CallerKnown(FirstStep[op], locals)
  BY <1>1, <1>2, FirstSteps DEF CallerKnown
<1>4. GuardsKnow(p, FirstStep[op], locals)
  BY FirstSteps DEF GuardsKnow
<1>5. RowKnown(FirstStep[op], locals) /\ PairKnown(FirstStep[op], locals)
  BY FirstSteps DEF RowKnown, PairKnown
<1> QED
  BY <1>3, <1>4, <1>5, FirstSteps DEF KnowsAt, Labels

(* A caller whom the guards without a wait let pass is active, and his       *)
(* tenant is, unless the token exempts him or the route skips them.          *)
LEMMA GuardsPassed ==
    ASSUME NEW route \in AllRoutes, NEW token \in tokens,
           NEW emailVerified \in BOOLEAN, NEW csrf \in BOOLEAN,
           "Public" \notin route.marks,
           UserStateGuard(route, Caller(token, emailVerified, csrf)),
           TenantStateGuard(route, Caller(token, emailVerified, csrf))
    PROVE  /\ NeedsPermission(route) => StateAllows(token)
           /\ ~NeedsPermission(route) => route \in ForAnySession \/ Authorised(route, token)
<1>1. Judged(route)
  BY RoutesJudged
<1>2. StateSkips \cap route.marks = {} => StateAllows(token)
  BY DEF StateSkips, StateAllows, UserStateGuard, TenantStateGuard, Caller
<1>3. NeedsPermission(route) => StateSkips \cap route.marks = {}
  BY <1>1 DEF Judged, NeedsPermission, ForAnySession, AuthRoutes, EmailVerificationRoutes,
              AnySession, Route
<1>4. ~NeedsPermission(route) =>
          route \in ForAnySession \/ (route = FileQuotaRoutes.get /\ StateAllows(token))
  BY <1>1, <1>2 DEF Judged, NeedsPermission
<1> QED
  BY <1>2, <1>3, <1>4 DEF Authorised, StateAllows

(* A request that is served. *)
LEMMA ServedStep ==
    ASSUME Inv, NEW p \in Requests, ServePublic(p) \/ Authenticate(p)
    PROVE  Finish(p) \/ \E label \in Labels, locals \in Local : GoesOn(p, label, locals)
<1> USE DEF Inv, TypeOK
<1>1. CASE ServePublic(p)
  <2>1. PICK route \in RoutesOf("elsewhere") : Serving(p, "elsewhere", route, Nil, NoArg)
    BY <1>1 DEF ServePublic
  <2>2. /\ "elsewhere" \in Ops /\ route \in AllRoutes /\ NoArg \in Arg
        /\ Given("elsewhere", NoArg)
    BY OpRoutes DEF Ops, NoArg, Arg, Given
  <2> DEFINE locals == [NoLocals EXCEPT !.op = "elsewhere", !.route = route, !.token = Nil,
                                        !.arg = NoArg]
  <2>3. /\ locals \in Local /\ locals.op = "elsewhere" /\ locals.route = route
        /\ locals.token = Nil /\ locals.arg = NoArg
    BY <2>2 DEF NoLocals, Local
  <2>4. Holding(p, locals)
    BY <2>1 DEF Serving
  <2> HIDE DEF locals
  <2>5. KnowsAt(p, FirstStep["elsewhere"], locals)
    BY <2>2, <2>3, FirstKnown
  <2>6. FirstStep["elsewhere"] = "elsewhere"
    BY DEF FirstStep
  <2>7. GoesOn(p, "elsewhere", locals)
    BY <1>1, <2>4, <2>5, <2>6 DEF ServePublic, GoesOn
  <2> QED
    BY <2>3, <2>7 DEF Labels, Handlers
<1>2. CASE Authenticate(p) /\ ~Finish(p)
  <2>1. PICK op \in Ops : \E route \in RoutesOf(op), arg \in Inputs(op), token \in tokens,
                emailVerified, csrf \in BOOLEAN :
            /\ "Public" \notin route.marks
            /\ UserStateGuard(route, Caller(token, emailVerified, csrf))
            /\ TenantStateGuard(route, Caller(token, emailVerified, csrf))
            /\ Goto(p, IF NeedsPermission(route) THEN "user" ELSE FirstStep[op])
            /\ Serving(p, op, route, token, arg)
    BY <1>2 DEF Authenticate, Deny
  <2>2. PICK route \in RoutesOf(op), arg \in Inputs(op), token \in tokens,
             emailVerified, csrf \in BOOLEAN :
            /\ "Public" \notin route.marks
            /\ UserStateGuard(route, Caller(token, emailVerified, csrf))
            /\ TenantStateGuard(route, Caller(token, emailVerified, csrf))
            /\ Goto(p, IF NeedsPermission(route) THEN "user" ELSE FirstStep[op])
            /\ Serving(p, op, route, token, arg)
    BY <2>1
  <2>3. /\ route \in AllRoutes /\ arg \in Arg /\ Given(op, arg) /\ token \in Token
    BY OpRoutes, InputsGiven
  <2> DEFINE locals == [NoLocals EXCEPT !.op = op, !.route = route, !.token = token, !.arg = arg]
  <2>4. /\ locals \in Local /\ locals.op = op /\ locals.route = route
        /\ locals.token = token /\ locals.arg = arg
        /\ Holding(p, locals)
    BY <2>2, <2>3 DEF NoLocals, Local, Serving
  <2> HIDE DEF locals
  <2>5. /\ NeedsPermission(route) => StateAllows(token)
        /\ ~NeedsPermission(route) => route \in ForAnySession \/ Authorised(route, token)
    BY <2>2, <2>3, GuardsPassed
  <2>6. CASE NeedsPermission(route)
    <3>1. KnowsAt(p, "user", locals)
      BY <2>3, <2>4, <2>5, <2>6
      DEF KnowsAt, CallerKnown, GuardsKnow, RowKnown, PairKnown, Handlers
    <3>2. GoesOn(p, "user", locals)
      BY <1>2, <2>2, <2>4, <2>6, <3>1 DEF Authenticate, GoesOn
    <3> QED
      BY <2>4, <3>2 DEF Labels
  <2>7. CASE ~NeedsPermission(route)
    <3>1. KnowsAt(p, FirstStep[op], locals) /\ FirstStep[op] \in Labels
      <4>1. /\ Given(op, locals.arg) /\ locals.route \in AllRoutes /\ locals.token \in tokens
            /\ locals.route \in ForAnySession \/ Authorised(locals.route, locals.token)
        BY <2>3, <2>4, <2>5, <2>7
      <4> QED
        BY <2>4, <4>1, FirstKnown
    <3>2. GoesOn(p, FirstStep[op], locals)
      BY <1>2, <2>2, <2>4, <2>7, <3>1 DEF Authenticate, GoesOn
    <3> QED
      BY <2>4, <3>1, <3>2
  <2> QED
    BY <2>6, <2>7
<1> QED
  BY <1>1, <1>2

(* The caller of a request that goes on is the same. *)
LEMMA CallerKept ==
    ASSUME NEW p \in Requests, Knows(p), InFlight(p), pc[p] # "elsewhere",
           NEW locals \in Local, NEW label,
           locals.op = loc[p].op, locals.route = loc[p].route, locals.token = loc[p].token,
           locals.arg = loc[p].arg,
           label \in Handlers => loc[p].op \in OpsAt[label]
    PROVE  /\ CallerKnown(label, locals)
           /\ pc[p] \in Handlers /\ p \notin overtaken =>
                locals.route \in ForAnySession \/ Authorised(locals.route, locals.token)
                    \/ locals.token = Nil
  BY DEF Knows, KnowsAt, CallerKnown, GuardsKnow, InFlight

(* The role of the caller, or of the actor, is read. *)
LEMMA RoleStep ==
    ASSUME Inv, NEW p \in Requests, PermissionUser(p) \/ SuspendActor(p)
    PROVE  \E label \in Labels, locals \in Local : GoesOn(p, label, locals)
<1> DEFINE locals == [loc[p] EXCEPT !.role = user[loc[p].token.user].role]
           label == IF pc[p] = "user" THEN "permissions" ELSE "target"
<1>1. /\ InFlight(p) /\ pc[p] # "elsewhere" /\ pc[p] # "done" /\ Knows(p)
      /\ pc[p] \in {"user", "actor"}
  BY DEF PermissionUser, SuspendActor, InFlight, Inv
<1>2. /\ loc[p] \in Local /\ user[loc[p].token.user] \in UserRow
      /\ pc[p] \in Handlers => loc[p].op \in OpsAt[pc[p]]
  BY <1>1, Arguments DEF Inv, Knows, KnowsAt, CallerKnown
<1>3. /\ locals \in Local /\ locals.role = user[loc[p].token.user].role
      /\ locals.op = loc[p].op /\ locals.route = loc[p].route /\ locals.token = loc[p].token
      /\ locals.arg = loc[p].arg
  <2>1. PICK r \in Roles : r = user[loc[p].token.user].role
    BY <1>2 DEF UserRow
  <2> QED
    BY <1>2, <2>1, LocalTypes, LocalsKept
<1>4. Goto(p, label) /\ Holding(p, locals) /\ UNCHANGED <<fixed, people, catalogue>>
  BY <1>1 DEF PermissionUser, SuspendActor, RoleForPermission, ActorRole
<1> HIDE DEF locals
<1>5. label \in Handlers => loc[p].op \in OpsAt[label]
  BY <1>1, <1>2 DEF Handlers, OpsAt
<1> HIDE DEF label
<1>6. CallerKnown(label, locals)
  BY <1>1, <1>3, <1>5, CallerKept
<1>7. GuardsKnow(p, label, locals)
  <2>1. CASE pc[p] = "user"
    BY <1>1, <1>3, <2>1 DEF label, GuardsKnow, Knows, KnowsAt, Handlers
  <2>2. CASE pc[p] = "actor"
    <3>1. /\ pc[p] \in Handlers /\ label = "target"
          /\ p \notin overtaken =>
                locals.route \in ForAnySession \/ Authorised(locals.route, locals.token)
                    \/ locals.token = Nil
      BY <1>1, <1>3, <1>5, <2>2, CallerKept DEF label, Handlers
    <3> QED
      BY <1>3, <3>1 DEF GuardsKnow
  <2> QED
    BY <1>1, <2>1, <2>2
<1>8. RowKnown(label, locals) /\ PairKnown(label, locals) /\ label \in Labels
  BY DEF label, RowKnown, PairKnown, Labels, Handlers
<1>9. GoesOn(p, label, locals)
  BY <1>1, <1>4, <1>6, <1>7, <1>8 DEF GoesOn, KnowsAt
<1> QED
  BY <1>3, <1>8, <1>9

(* The permissions of the role that was read decide. *)
LEMMA PermissionStep ==
    ASSUME Inv, NEW p \in Requests, PermissionRole(p)
    PROVE  Finish(p) \/ \E label \in Labels, locals \in Local : GoesOn(p, label, locals)
<1>1. CASE <<loc[p].role, loc[p].route.permission>> \notin grants
  BY <1>1 DEF PermissionRole, Deny
<1>2. CASE <<loc[p].role, loc[p].route.permission>> \in grants
  <2>1. /\ pc[p] = "permissions" /\ Knows(p) /\ loc[p] \in Local /\ pc[p] # "done"
    BY Arguments DEF PermissionRole, Inv, TypeOK
  <2>2. /\ loc[p].op \in Ops /\ Given(loc[p].op, loc[p].arg) /\ loc[p].route \in AllRoutes
        /\ loc[p].token \in tokens
    BY <2>1 DEF Knows, KnowsAt, CallerKnown
  <2>3. p \notin overtaken => Authorised(loc[p].route, loc[p].token)
    BY <1>2, <2>1 DEF Knows, KnowsAt, GuardsKnow, StateAllows, Authorised, Holds
  <2>4. KnowsAt(p, FirstStep[loc[p].op], loc[p]) /\ FirstStep[loc[p].op] \in Labels
    BY <2>1, <2>2, <2>3, FirstKnown
  <2>5. GoesOn(p, FirstStep[loc[p].op], loc[p])
    BY <1>2, <2>1, <2>4 DEF PermissionRole, GoesOn, Goto, Holding, fixed, people, Inv, TypeOK
  <2> QED
    BY <2>1, <2>4, <2>5
<1> QED
  BY <1>1, <1>2

(* A handler reads the row it is about to write. *)
LEMMA ReadStep ==
    ASSUME Inv, NEW p \in Requests, NEW label \in Labels,
           NEW row \in UserRow \cup TenantRow \cup RoleRow \cup PermissionRow \cup ConfigurationRow,
           pc[p] \in Handlers \ {"elsewhere"}, loc[p].op \in OpsAt[label],
           label \in Handlers,
           Goto(p, label), Holding(p, [loc[p] EXCEPT !.row = row]),
           UNCHANGED <<fixed, people, catalogue>>,
           label = "writeSuspension" => pc[p] = "target",
           label \notin {"user", "permissions", "target", "insertInvitation", "writeRole"},
           \A locals : locals.row = row /\ locals.arg = loc[p].arg => RowKnown(label, locals)
    PROVE  \E locals \in Local : GoesOn(p, label, locals)
<1> DEFINE locals == [loc[p] EXCEPT !.row = row]
<1>1. /\ locals \in Local /\ locals.row = row /\ locals.role = loc[p].role
      /\ locals.op = loc[p].op /\ locals.route = loc[p].route /\ locals.token = loc[p].token
      /\ locals.arg = loc[p].arg
  <2>1. loc[p] \in Local
    BY DEF Inv, TypeOK
  <2> QED
    BY <2>1, LocalTypes, LocalsKept
<1>2. Holding(p, locals)
  OBVIOUS
<1> HIDE DEF locals
<1>3. InFlight(p) /\ Knows(p) /\ pc[p] # "done"
  BY DEF InFlight, Handlers, Inv
<1>4. /\ CallerKnown(label, locals)
      /\ p \notin overtaken =>
            locals.route \in ForAnySession \/ Authorised(locals.route, locals.token)
                \/ locals.token = Nil
  BY <1>1, <1>3, CallerKept
<1>5. GuardsKnow(p, label, locals)
  <2>1. label = "writeSuspension" /\ p \notin overtaken =>
            locals.role = user[locals.token.user].role
    BY <1>1, <1>3 DEF Knows, KnowsAt, GuardsKnow
  <2> QED
    BY <1>4, <2>1 DEF GuardsKnow
<1>6. RowKnown(label, locals) /\ PairKnown(label, locals)
  BY <1>1 DEF PairKnown
<1> QED
  BY <1>1, <1>2, <1>3, <1>4, <1>5, <1>6 DEF GoesOn, KnowsAt

(* A row that was just read is the stored one. *)
LEMMA JustRead ==
    \A row \in UserRow \cup TenantRow \cup RoleRow : ReadFrom(row, row)
  BY NilIsFresh, BoundIsNat DEF ReadFrom, UserRow, TenantRow, RoleRow

(* A handler goes on with the locals it has. *)
LEMMA PassStep ==
    ASSUME Inv, NEW p \in Requests, NEW label \in Handlers \ {"target", "writeSuspension"},
           pc[p] \in Handlers \ {"elsewhere"}, loc[p].op \in OpsAt[label],
           Goto(p, label), UNCHANGED loc, UNCHANGED <<fixed, people, catalogue>>,
           RowKnown(label, loc[p]), PairKnown(label, loc[p])
    PROVE  GoesOn(p, label, loc[p])
<1>1. loc[p] \in Local /\ InFlight(p) /\ Knows(p) /\ pc[p] # "done" /\ Holding(p, loc[p])
  BY DEF InFlight, Handlers, Inv, TypeOK, Holding
<1>2. /\ CallerKnown(label, loc[p])
      /\ p \notin overtaken =>
            loc[p].route \in ForAnySession \/ Authorised(loc[p].route, loc[p].token)
                \/ loc[p].token = Nil
  BY <1>1, CallerKept
<1>3. GuardsKnow(p, label, loc[p])
  BY <1>2 DEF GuardsKnow, Handlers
<1> QED
  BY <1>1, <1>2, <1>3 DEF GoesOn, KnowsAt

(* The steps that read the row of the input. *)
LEMMA FindSteps ==
    ASSUME Inv, NEW p \in Requests,
           SuspendTarget(p) \/ FindUser(p) \/ FindTenant(p) \/ FindRole(p) \/ FindPermission(p)
    PROVE  Finish(p) \/ \E label \in Labels, locals \in Local : GoesOn(p, label, locals)
<1> SUFFICES ASSUME ~Finish(p)
             PROVE  \E label \in Labels, locals \in Local : GoesOn(p, label, locals)
  OBVIOUS
<1> USE DEF Inv, TypeOK
<1>0. /\ pc[p] \in Handlers \ {"elsewhere"} /\ Knows(p) /\ loc[p].op \in OpsAt[pc[p]]
  BY DEF SuspendTarget, FindUser, FindTenant, FindRole, FindPermission, Handlers, Knows, KnowsAt,
         CallerKnown
<1>1. CASE SuspendTarget(p) \/ FindUser(p)
  <2>1. loc[p].arg.user \in Users /\ user[loc[p].arg.user] # Nil
    BY <1>0, <1>1, Arguments DEF SuspendTarget, FindUser, Visible, Knows, KnowsAt
  <2>2. PICK row \in UserRow : row = user[loc[p].arg.user]
    BY <2>1
  <2>3. PICK label \in {"writeSuspension", "writeReactivation", "validateRole"} :
            /\ Goto(p, label) /\ Holding(p, [loc[p] EXCEPT !.row = row])
            /\ label = "writeSuspension" => pc[p] = "target"
            /\ loc[p].op \in OpsAt[label]
    BY <1>0, <1>1, <2>2 DEF SuspendTarget, FindUser, OpsAt
  <2>4. \A locals : locals.row = row /\ locals.arg = loc[p].arg => RowKnown(label, locals)
    BY <2>2, JustRead DEF RowKnown
  <2>5. label \in Labels /\ label \in Handlers
    BY DEF Labels, Handlers
  <2>6. UNCHANGED <<fixed, people, catalogue>>
    BY <1>1 DEF SuspendTarget, FindUser
  <2>7. \E locals \in Local : GoesOn(p, label, locals)
    BY <1>0, <2>3, <2>4, <2>5, <2>6, ReadStep
  <2> QED
    BY <2>5, <2>7
<1>2. CASE FindTenant(p)
  <2>1. loc[p].arg.tenant \in Tenants /\ tenant[loc[p].arg.tenant] # Nil
    BY <1>0, <1>2, Arguments DEF FindTenant, Knows, KnowsAt
  <2>2. PICK row \in TenantRow : row = tenant[loc[p].arg.tenant]
    BY <2>1
  <2>3. \A locals : locals.row = row /\ locals.arg = loc[p].arg => RowKnown("writeTenant", locals)
    BY <2>2, JustRead DEF RowKnown
  <2>4. /\ "writeTenant" \in Labels /\ "writeTenant" \in Handlers
        /\ loc[p].op \in OpsAt["writeTenant"]
    BY <1>0, <1>2 DEF FindTenant, OpsAt, Labels, Handlers
  <2>5. /\ Goto(p, "writeTenant") /\ Holding(p, [loc[p] EXCEPT !.row = row])
        /\ UNCHANGED <<fixed, people, catalogue>>
    BY <1>2, <2>2 DEF FindTenant
  <2> QED
    BY <1>0, <2>3, <2>4, <2>5, ReadStep
<1>3. CASE FindRole(p)
  <2>1. loc[p].arg.role \in Roles /\ role[loc[p].arg.role] # Nil
    BY <1>0, <1>3, Arguments DEF FindRole, Knows, KnowsAt
  <2>2. PICK row \in RoleRow : row = role[loc[p].arg.role]
    BY <2>1
  <2>3. \A locals : locals.row = row /\ locals.arg = loc[p].arg => RowKnown("writeRoleRow", locals)
    BY <2>2, JustRead DEF RowKnown
  <2>4. /\ "writeRoleRow" \in Labels /\ "writeRoleRow" \in Handlers
        /\ loc[p].op \in OpsAt["writeRoleRow"]
    BY <1>0, <1>3 DEF FindRole, OpsAt, Labels, Handlers
  <2>5. /\ Goto(p, "writeRoleRow") /\ Holding(p, [loc[p] EXCEPT !.row = row])
        /\ UNCHANGED <<fixed, people, catalogue>>
    BY <1>3, <2>2 DEF FindRole
  <2> QED
    BY <1>0, <2>3, <2>4, <2>5, ReadStep
<1>4. CASE FindPermission(p)
  <2>1. loc[p].arg.permission \in Permissions /\ permission[loc[p].arg.permission] # Nil
    BY <1>0, <1>4, Arguments DEF FindPermission, Knows, KnowsAt
  <2>2. PICK row \in PermissionRow : row = permission[loc[p].arg.permission]
    BY <2>1
  <2>3. \A locals : locals.row = row /\ locals.arg = loc[p].arg =>
            RowKnown("writePermission", locals)
    BY <2>1, <2>2 DEF RowKnown
  <2>4. /\ "writePermission" \in Labels /\ "writePermission" \in Handlers
        /\ loc[p].op \in OpsAt["writePermission"]
    BY <1>0, <1>4 DEF FindPermission, OpsAt, Labels, Handlers
  <2>5. /\ Goto(p, "writePermission") /\ Holding(p, [loc[p] EXCEPT !.row = row])
        /\ UNCHANGED <<fixed, people, catalogue>>
    BY <1>4, <2>2 DEF FindPermission
  <2> QED
    BY <1>0, <2>3, <2>4, <2>5, ReadStep
<1> QED
  BY <1>1, <1>2, <1>3, <1>4

(* The steps that validate a pair of role and tenant, which fits. *)
LEMMA ValidationSteps ==
    ASSUME Inv, NEW p \in Requests, ChangeRoleValidate(p) \/ InviteValidate(p)
    PROVE  Finish(p) \/ \E label \in Labels, locals \in Local : GoesOn(p, label, locals)
<1> SUFFICES ASSUME ~Finish(p)
             PROVE  \E label \in Labels, locals \in Local : GoesOn(p, label, locals)
  OBVIOUS
<1>0. /\ pc[p] \in Handlers \ {"elsewhere"} /\ InFlight(p) /\ pc[p] # "elsewhere"
      /\ loc[p].op \in OpsAt[pc[p]]
      /\ loc[p] \in Local /\ CallerKnown(pc[p], loc[p]) /\ TypeOK /\ TokensFit
  BY DEF ChangeRoleValidate, InviteValidate, Handlers, InFlight, Inv, TypeOK, Knows, KnowsAt,
         CallerKnown
<1>1. CASE ChangeRoleValidate(p)
  <2>1. pc[p] = "validateRole" /\ EnabledFor(loc[p].arg.role, loc[p].row.tenant)
    BY <1>1 DEF ChangeRoleValidate
  <2>2. RowKnown("validateRole", loc[p])
    BY <2>1 DEF Inv, Knows, KnowsAt
  <2>3. loc[p].arg.role \in Roles /\ loc[p].row.tenant \in Tenants
    BY <1>0, <2>1, <2>2, Arguments DEF RowKnown, UserRow
  <2>4. RowKnown("writeRole", loc[p]) /\ PairKnown("writeRole", loc[p])
    BY <2>1, <2>2, <2>3 DEF RowKnown, PairKnown, EnabledFor, Inv, PairsFit
  <2>5. "writeRole" \in Labels /\ "writeRole" \in Handlers /\ loc[p].op \in OpsAt["writeRole"]
    BY <1>0, <2>1 DEF Labels, Handlers, OpsAt
  <2>6. Goto(p, "writeRole") /\ UNCHANGED loc /\ UNCHANGED <<fixed, people, catalogue>>
    BY <1>1 DEF ChangeRoleValidate
  <2>7. GoesOn(p, "writeRole", loc[p])
    BY <1>0, <2>4, <2>5, <2>6, PassStep
  <2> QED
    BY <1>0, <2>5, <2>7
<1>2. CASE InviteValidate(p)
  <2>1. pc[p] = "invite" /\ EnabledFor(loc[p].arg.role, Home(p))
    BY <1>2 DEF InviteValidate
  <2>2. loc[p].arg.role \in Roles /\ Home(p) \in Tenants
    BY <1>0, <2>1, Arguments
  <2>3. RowKnown("insertInvitation", loc[p]) /\ PairKnown("insertInvitation", loc[p])
    BY <2>1, <2>2 DEF RowKnown, PairKnown, EnabledFor, Home, Inv, PairsFit
  <2>4. /\ "insertInvitation" \in Labels /\ "insertInvitation" \in Handlers
        /\ loc[p].op \in OpsAt["insertInvitation"]
    BY <1>0, <2>1 DEF Labels, Handlers, OpsAt
  <2>5. Goto(p, "insertInvitation") /\ UNCHANGED loc /\ UNCHANGED <<fixed, people, catalogue>>
    BY <1>2 DEF InviteValidate
  <2>6. GoesOn(p, "insertInvitation", loc[p])
    BY <1>0, <2>3, <2>4, <2>5, PassStep
  <2> QED
    BY <1>0, <2>4, <2>6
<1> QED
  BY <1>1, <1>2

(* The step that looks for a configuration. *)
LEMMA ConfigurationStep ==
    ASSUME Inv, NEW p \in Requests, FindConfiguration(p)
    PROVE  Finish(p) \/ \E label \in Labels, locals \in Local : GoesOn(p, label, locals)
<1> USE DEF Inv, TypeOK
<1>0. /\ pc[p] = "findConfiguration" /\ pc[p] \in Handlers \ {"elsewhere"}
      /\ loc[p] \in Local /\ CallerKnown(pc[p], loc[p]) /\ TypeOK /\ TokensFit
      /\ UNCHANGED <<fixed, people, catalogue>>
  BY DEF FindConfiguration, Handlers, Knows, KnowsAt
<1>1. PICK c \in Tenants \X Roles : c = ConfigurationOf(p)
  BY <1>0, Arguments
<1>2. \/ Finish(p)
      \/ /\ loc[p].op = "createConfiguration"
         /\ Goto(p, "insertConfiguration") /\ UNCHANGED loc
      \/ /\ loc[p].op = "updateConfiguration" /\ configuration[c] # Nil
         /\ Holding(p, [loc[p] EXCEPT !.row = configuration[c]]) /\ Goto(p, "writeConfiguration")
      \/ /\ loc[p].op = "deleteConfiguration"
         /\ Goto(p, "removeConfiguration") /\ UNCHANGED loc
  BY <1>1 DEF FindConfiguration
<1>3. ASSUME NEW label \in {"insertConfiguration", "removeConfiguration"},
             loc[p].op \in OpsAt[label], Goto(p, label), UNCHANGED loc
      PROVE  \E locals \in Local : GoesOn(p, label, locals)
  <2>1. /\ label \in Handlers \ {"target", "writeSuspension"}
        /\ RowKnown(label, loc[p]) /\ PairKnown(label, loc[p])
    BY <1>3 DEF Handlers, RowKnown, PairKnown
  <2>2. GoesOn(p, label, loc[p])
    BY <1>0, <1>3, <2>1, PassStep
  <2> QED
    BY <1>0, <2>2
<1>4. CASE /\ loc[p].op = "updateConfiguration" /\ configuration[c] # Nil
           /\ Holding(p, [loc[p] EXCEPT !.row = configuration[c]]) /\ Goto(p, "writeConfiguration")
  <2>1. PICK row \in ConfigurationRow : row = configuration[c]
    BY <1>4
  <2>2. \A locals : locals.row = row /\ locals.arg = loc[p].arg =>
            RowKnown("writeConfiguration", locals)
    BY DEF RowKnown
  <2>3. /\ "writeConfiguration" \in Labels /\ "writeConfiguration" \in Handlers
        /\ loc[p].op \in OpsAt["writeConfiguration"]
    BY <1>4 DEF Labels, Handlers, OpsAt
  <2> QED
    BY <1>0, <1>4, <2>1, <2>2, <2>3, ReadStep
<1>5. /\ "createConfiguration" \in OpsAt["insertConfiguration"]
      /\ "deleteConfiguration" \in OpsAt["removeConfiguration"]
      /\ "insertConfiguration" \in Labels /\ "removeConfiguration" \in Labels
      /\ "writeConfiguration" \in Labels
  BY DEF OpsAt, Labels, Handlers
<1> QED
  BY <1>2, <1>3, <1>4, <1>5

(* Every step leaves all requests where they are, or ends one, or lets one   *)
(* go on with what it knows.                                                 *)
LEMMA RequestSteps ==
    ASSUME Inv, Next
    PROVE  \/ UNCHANGED <<pc, loc>>
           \/ \E p \in Requests :
                /\ pc[p] # "done"
                /\ Finish(p) \/ \E label \in Labels, locals \in Local : GoesOn(p, label, locals)
<1> DEFINE Moves(p) == Finish(p) \/ \E label \in Labels, locals \in Local : GoesOn(p, label, locals)
<1>1. ASSUME NEW p \in Requests, ServePublic(p) \/ Authenticate(p)
      PROVE  pc[p] # "done" /\ Moves(p)
  BY <1>1, ServedStep DEF ServePublic, Authenticate
<1>2. ASSUME NEW p \in Requests, PermissionUser(p) \/ SuspendActor(p)
      PROVE  pc[p] # "done" /\ Moves(p)
  BY <1>2, RoleStep DEF PermissionUser, SuspendActor
<1>3. ASSUME NEW p \in Requests, PermissionRole(p)
      PROVE  pc[p] # "done" /\ Moves(p)
  BY <1>3, PermissionStep DEF PermissionRole
<1>4. ASSUME NEW p \in Requests,
             SuspendTarget(p) \/ FindUser(p) \/ FindTenant(p) \/ FindRole(p) \/ FindPermission(p)
      PROVE  pc[p] # "done" /\ Moves(p)
  BY <1>4, FindSteps DEF SuspendTarget, FindUser, FindTenant, FindRole, FindPermission
<1>5. ASSUME NEW p \in Requests, ChangeRoleValidate(p) \/ InviteValidate(p)
      PROVE  pc[p] # "done" /\ Moves(p)
  BY <1>5, ValidationSteps DEF ChangeRoleValidate, InviteValidate
<1>6. ASSUME NEW p \in Requests, FindConfiguration(p)
      PROVE  pc[p] # "done" /\ Moves(p)
  BY <1>6, ConfigurationStep DEF FindConfiguration
<1>7. ASSUME NEW p \in Requests,
             \/ AuthenticationFails(p) \/ SuspendWrite(p) \/ SuspendFails(p)
             \/ ReactivateWrite(p) \/ ReactivateRefused(p) \/ ChangeRoleWrite(p)
             \/ InviteInsert(p)
      PROVE  pc[p] # "done" /\ Moves(p)
  BY <1>7 DEF AuthenticationFails, Deny, SuspendWrite, SuspendFails, ReactivateWrite,
       ReactivateRefused, ChangeRoleWrite, UpdateUser, InviteInsert
<1>8. ASSUME NEW p \in Requests,
             \/ CreateTenant(p) \/ TenantWrite(p) \/ CreateRole(p) \/ RoleWrite(p)
             \/ CreatePermission(p) \/ PermissionWrite(p)
             \/ AssignPermissions(p) \/ RemovePermissions(p)
             \/ AssociateRoles(p) \/ DisassociateRoles(p)
             \/ InsertConfiguration(p) \/ WriteConfiguration(p) \/ RemoveConfiguration(p)
      PROVE  pc[p] # "done" /\ Moves(p)
  BY <1>8 DEF CreateTenant, TenantWrite, CreateRole, RoleWrite, CreatePermission,
       PermissionWrite, AssignPermissions, RemovePermissions, AssociateRoles, DisassociateRoles,
       InsertConfiguration, WriteConfiguration, RemoveConfiguration
<1>9. ASSUME \/ \E p \in Requests : WriteAuditEvent(p)
             \/ \E u \in Users : Register(u) \/ IssueToken(u)
      PROVE  UNCHANGED <<pc, loc>>
  BY <1>9 DEF WriteAuditEvent, Register, IssueToken
<1> HIDE DEF Moves
<1>10. UNCHANGED <<pc, loc>> \/ \E p \in Requests : pc[p] # "done" /\ Moves(p)
  BY <1>1, <1>2, <1>3, <1>4, <1>5, <1>6, <1>7, <1>8, <1>9 DEF Next
<1> QED
  BY <1>10 DEF Moves

-----------------------------------------------------------------------------
(* The audit events *)

Records(p, status) ==
    /\ pc[p] # "done" /\ pc'[p] = "done" /\ Record(p, status)
    /\ UNCHANGED <<trail, suspended, accidents>>
Suspends(p) ==
    /\ pc[p] # "done" /\ pc'[p] = "done"
    /\ suspended' = suspended \cup {p}
    /\ \/ Record(p, "SUCCESS") /\ UNCHANGED accidents
       \/ Record(p, "FAILED") /\ accidents' = accidents \cup {p}
    /\ UNCHANGED trail
Writes(p) ==
    /\ recording[p] # Nil /\ Record(p, Nil)
    /\ \/ trail' = [trail EXCEPT ![p] = recording[p]] /\ UNCHANGED accidents
       \/ accidents' = accidents \cup {p} /\ UNCHANGED trail
    /\ UNCHANGED <<suspended, pc>>

(* A request leaves an event at its end alone, and a SUCCESS only with a    *)
(* suspension.                                                               *)
LEMMA AuditSteps ==
    ASSUME Inv, Next
    PROVE  \/ UNCHANGED audits
           \/ \E p \in Requests : Suspends(p) \/ Writes(p)
                                    \/ \E status \in {"FAILED", "DENIED"} : Records(p, status)
<1> USE DEF Inv, TypeOK
<1>1. ASSUME NEW p \in Requests, WriteAuditEvent(p) PROVE Writes(p)
  BY <1>1 DEF WriteAuditEvent, Writes
<1>2. ASSUME NEW p \in Requests, SuspendWrite(p) PROVE Suspends(p)
  BY <1>2 DEF SuspendWrite, Suspends, Finish, Goto
<1>3. ASSUME NEW p \in Requests, SuspendFails(p) \/ SuspendTarget(p)
      PROVE  UNCHANGED audits \/ Records(p, "FAILED")
  BY <1>3 DEF SuspendFails, SuspendTarget, Records, Finish, Goto, audits
<1>4. ASSUME NEW p \in Requests,
             AuthenticationFails(p) \/ Authenticate(p) \/ PermissionRole(p)
      PROVE  UNCHANGED audits \/ \E status \in {"FAILED", "DENIED"} : Records(p, status)
  <2>1. ASSUME NEW route, Deny(p, route), pc[p] # "done", UNCHANGED <<trail, suspended, accidents>>
        PROVE  UNCHANGED audits \/ Records(p, "DENIED")
    BY <2>1 DEF Deny, Records, Finish, Goto, audits
  <2>2. CASE AuthenticationFails(p)
    BY <2>1, <2>2 DEF AuthenticationFails
  <2>3. CASE PermissionRole(p)
    BY <2>1, <2>3 DEF PermissionRole, audits
  <2>4. CASE Authenticate(p)
    <3>1. UNCHANGED recording \/ \E route \in AllRoutes : Deny(p, route)
      <4>1. PICK op \in Ops : \E route \in RoutesOf(op) : UNCHANGED recording \/ Deny(p, route)
        BY <2>4 DEF Authenticate
      <4> QED
        BY <4>1, OpRoutes
    <3> QED
      BY <2>1, <2>4, <3>1 DEF Authenticate, audits
  <2> QED
    BY <1>4, <2>2, <2>3, <2>4
<1>5. ASSUME NEW p \in Requests,
             \/ ServePublic(p) \/ PermissionUser(p) \/ SuspendActor(p)
             \/ FindUser(p) \/ ReactivateWrite(p) \/ ReactivateRefused(p)
             \/ ChangeRoleValidate(p) \/ ChangeRoleWrite(p)
             \/ InviteValidate(p) \/ InviteInsert(p)
             \/ CreateTenant(p) \/ FindTenant(p) \/ TenantWrite(p)
             \/ CreateRole(p) \/ FindRole(p) \/ RoleWrite(p)
             \/ CreatePermission(p) \/ FindPermission(p) \/ PermissionWrite(p)
             \/ AssignPermissions(p) \/ RemovePermissions(p)
             \/ AssociateRoles(p) \/ DisassociateRoles(p)
             \/ FindConfiguration(p) \/ InsertConfiguration(p)
             \/ WriteConfiguration(p) \/ RemoveConfiguration(p)
      PROVE  UNCHANGED audits
  BY <1>5 DEF ServePublic, PermissionUser, SuspendActor, FindUser, ReactivateWrite, UpdateUser,
       ReactivateRefused, ChangeRoleValidate, ChangeRoleWrite, InviteValidate, InviteInsert,
       CreateTenant, FindTenant, TenantWrite, CreateRole, FindRole, RoleWrite, CreatePermission,
       FindPermission, PermissionWrite, AssignPermissions, RemovePermissions, AssociateRoles,
       DisassociateRoles, FindConfiguration, InsertConfiguration, WriteConfiguration,
       RemoveConfiguration
<1>6. ASSUME NEW u \in Users, Register(u) \/ IssueToken(u) PROVE UNCHANGED audits
  BY <1>6 DEF Register, IssueToken
<1> QED
  BY <1>1, <1>2, <1>3, <1>4, <1>5, <1>6 DEF Next

(* Once done, a request stays so. *)
LEMMA DoneIsFinal ==
    ASSUME Inv, Next, NEW p \in Requests, pc[p] = "done"
    PROVE  pc'[p] = "done"
  BY RequestSteps DEF Finish, GoesOn, Goto, Inv, TypeOK

(* Where requests can be, and what they hold, keeps its type. *)
LEMMA RequestsTyped ==
    ASSUME Inv, Next
    PROVE  /\ pc' \in [Requests -> Labels] /\ loc' \in [Requests -> Local]
           /\ recording' \in [Requests -> AuditEvent \cup {Nil}]
           /\ trail' \in [Requests -> AuditEvent \cup {Nil}]
           /\ suspended' \subseteq Requests /\ accidents' \subseteq Requests
<1> USE DEF Inv, TypeOK
<1>1. pc' \in [Requests -> Labels] /\ loc' \in [Requests -> Local]
  BY RequestSteps, LocalTypes DEF Finish, GoesOn, Goto, Holding, Labels
<1>2. /\ recording' \in [Requests -> AuditEvent \cup {Nil}]
      /\ trail' \in [Requests -> AuditEvent \cup {Nil}]
      /\ suspended' \subseteq Requests /\ accidents' \subseteq Requests
  BY AuditSteps DEF audits, Suspends, Writes, Records, Record, AuditEvent
<1> QED
  BY <1>1, <1>2

(* Events and trail stay true. *)
LEMMA AuditsFit ==
    ASSUME Inv, Next
    PROVE  EventsFit' /\ TrailTellsTheTruth'
<1> USE NilIsFresh DEF Inv, TypeOK, AuditEvent
<1>1. ASSUME NEW q \in Requests, pc'[q] # "done" PROVE pc[q] # "done"
  BY <1>1, DoneIsFinal
<1>2. CASE UNCHANGED audits
  BY <1>1, <1>2 DEF audits, EventsFit, TrailTellsTheTruth
<1>3. ASSUME NEW p \in Requests, Suspends(p)
      PROVE  EventsFit' /\ TrailTellsTheTruth'
  <2>1. EventsFit'
    BY <1>1, <1>3 DEF Suspends, Record, EventsFit
  <2>2. TrailTellsTheTruth'
    BY <1>3 DEF Suspends, Record, EventsFit, TrailTellsTheTruth
  <2> QED
    BY <2>1, <2>2
<1>4. ASSUME NEW p \in Requests, Writes(p)
      PROVE  EventsFit' /\ TrailTellsTheTruth'
  <2>1. EventsFit'
    BY <1>4 DEF Writes, Record, EventsFit
  <2>2. TrailTellsTheTruth'
    BY <1>4 DEF Writes, Record, EventsFit, TrailTellsTheTruth
  <2> QED
    BY <2>1, <2>2
<1>5. ASSUME NEW p \in Requests, NEW status \in {"FAILED", "DENIED"}, Records(p, status)
      PROVE  EventsFit' /\ TrailTellsTheTruth'
  <2>1. EventsFit'
    BY <1>1, <1>5 DEF Records, Record, EventsFit
  <2>2. TrailTellsTheTruth'
    BY <1>5 DEF Records, Record, EventsFit, TrailTellsTheTruth
  <2> QED
    BY <2>1, <2>2
<1> QED
  BY <1>2, <1>3, <1>4, <1>5, AuditSteps

-----------------------------------------------------------------------------
(* What the other requests know *)

(* Who was not overtaken has seen no user, tenant or grant change. *)
LEMMA Undisturbed ==
    ASSUME Inv, Next, NEW q \in Requests, Stays(q), InFlight(q), q \notin overtaken'
    PROVE  /\ q \notin overtaken /\ grants' = grants
           /\ \A u \in Users : user[u] # Nil => user'[u] = user[u]
           /\ \A t \in Tenants : tenant[t] # Nil => tenant'[t] = tenant[t]
<1>1. \A p \in Requests : pc'[p] = "done" => ~Overtake(p)
  BY DEF Stays, InFlight, Overtake
<1>2. q \notin overtaken
  BY TablesWritten DEF Overtake
<1>3. grants' = grants
  BY <1>1, TablesWritten DEF WritesGrants
<1>4. \A u \in Users : user[u] # Nil => user'[u] = user[u]
  <2>1. \A p \in Requests, row \in UserRow : ~WritesUser(p, row)
    BY <1>1 DEF WritesUser
  <2> QED
    BY <2>1, TablesWritten DEF AddsUser, Inv, TypeOK
<1>5. \A t \in Tenants : tenant[t] # Nil => tenant'[t] = tenant[t]
  <2>1. \A p \in Requests, row \in TenantRow : ~WritesTenant(p, row)
    BY <1>1 DEF WritesTenant
  <2> QED
    BY <2>1, TablesWritten DEF AddsTenant, Inv, TypeOK
<1> QED
  BY <1>2, <1>3, <1>4, <1>5

(* A row that was read is still an older version, or the stored one. *)
LEMMA ReadRowStays ==
    ASSUME NEW row, NEW current, NEW next, row.version \in Nat, current.version \in Nat,
           next.version \in Nat, ReadFrom(row, current), next # Nil,
           next = current \/ next.version > current.version
    PROVE  ReadFrom(row, next)
<1>1. CASE next = current
  BY <1>1
<1>2. CASE next.version > current.version
  BY <1>2 DEF ReadFrom
<1> QED
  BY <1>1, <1>2

(* The row a request holds is still one it may replace, or is outdated. *)
LEMMA RowStays ==
    ASSUME Inv, Next, NEW q \in Requests, NEW label \in Labels, NEW locals \in Local,
           pc[q] = label, loc[q] = locals
    PROVE  RowKnown(label, locals)'
<1> USE DEF Inv, TypeOK
<1>1. WorldEvolves /\ Knows(q) /\ RowKnown(label, locals) /\ CallerKnown(pc[q], loc[q])
  BY Evolution DEF Knows, KnowsAt
<1>2. /\ \A row \in UserRow : row.version \in Nat
      /\ \A row \in TenantRow : row.version \in Nat
      /\ \A row \in RoleRow : row.version \in Nat
  BY BoundIsNat DEF UserRow, TenantRow, RoleRow
<1>3. CASE label \in {"writeSuspension", "writeReactivation", "validateRole", "writeRole"}
  <2>1. PICK u \in Users : u = locals.arg.user
    BY <1>1, <1>3, Arguments
  <2>2. /\ locals.row \in UserRow /\ ReadFrom(locals.row, user[u])
        /\ locals.row.tenant = user[u].tenant /\ user[u] # Nil
    BY <1>1, <1>3, <2>1 DEF RowKnown, ReadFrom
  <2>3. user[u] \in UserRow /\ user'[u] \in UserRow
    BY <1>1, <2>2, TablesTyped DEF WorldEvolves
  <2>4. /\ user'[u] # Nil /\ user'[u].tenant = user[u].tenant
        /\ user'[u] = user[u] \/ user'[u].version > user[u].version
    BY <1>1, <2>2 DEF WorldEvolves
  <2>5. ReadFrom(locals.row, user'[u])
    BY <1>2, <2>2, <2>3, <2>4, ReadRowStays
  <2> QED
    BY <1>3, <2>1, <2>2, <2>4, <2>5 DEF RowKnown, ReadFrom
<1>4. CASE label = "writeTenant"
  <2>1. PICK t \in Tenants : t = locals.arg.tenant
    BY <1>1, <1>4, Arguments
  <2>2. locals.row \in TenantRow /\ ReadFrom(locals.row, tenant[t]) /\ tenant[t] # Nil
    BY <1>1, <1>4, <2>1 DEF RowKnown, ReadFrom
  <2>3. tenant[t] \in TenantRow /\ tenant'[t] \in TenantRow
    BY <1>1, <2>2, TablesTyped DEF WorldEvolves
  <2>4. /\ tenant'[t] # Nil
        /\ tenant'[t] = tenant[t] \/ tenant'[t].version > tenant[t].version
    BY <1>1, <2>2 DEF WorldEvolves
  <2>5. ReadFrom(locals.row, tenant'[t])
    BY <1>2, <2>2, <2>3, <2>4, ReadRowStays
  <2> QED
    BY <1>4, <2>1, <2>2, <2>5 DEF RowKnown, ReadFrom
<1>5. CASE label = "writeRoleRow"
  <2>1. PICK r \in Roles : r = locals.arg.role
    BY <1>1, <1>5, Arguments
  <2>2. locals.row \in RoleRow /\ ReadFrom(locals.row, role[r]) /\ role[r] # Nil
    BY <1>1, <1>5, <2>1 DEF RowKnown, ReadFrom
  <2>3. role[r] \in RoleRow /\ role'[r] \in RoleRow
    BY <1>1, <2>2, TablesTyped DEF WorldEvolves
  <2>4. /\ role'[r] # Nil
        /\ role'[r] = role[r] \/ role'[r].version > role[r].version
    BY <1>1, <2>2 DEF WorldEvolves
  <2>5. ReadFrom(locals.row, role'[r])
    BY <1>2, <2>2, <2>3, <2>4, ReadRowStays
  <2> QED
    BY <1>5, <2>1, <2>2, <2>5 DEF RowKnown, ReadFrom
<1>6. CASE label = "writePermission"
  <2>1. PICK c \in Permissions : c = locals.arg.permission
    BY <1>1, <1>6, Arguments
  <2> QED
    BY <1>1, <1>6, <2>1 DEF RowKnown, WorldEvolves
<1> QED
  BY <1>1, <1>3, <1>4, <1>5, <1>6 DEF RowKnown

(* So a request that stays goes on knowing all it knew. *)
LEMMA KnowledgeStays ==
    ASSUME Inv, Next, NEW q \in Requests, NEW label \in Labels, NEW locals \in Local,
           pc[q] = label, loc[q] = locals, Stays(q)
    PROVE  KnowsAt(q, label, locals)'
<1> USE DEF Inv, TypeOK
<1>1. WorldEvolves /\ KnowsAt(q, label, locals) /\ CallerKnown(label, locals)
  BY Evolution DEF Knows, KnowsAt
<1>2. CallerKnown(label, locals)'
  BY <1>1 DEF CallerKnown, WorldEvolves
<1>3. GuardsKnow(q, label, locals)'
  <2> SUFFICES ASSUME q \notin overtaken', label \notin {"idle", "done"}
               PROVE  GuardsKnow(q, label, locals)'
    BY DEF GuardsKnow, Handlers
  <2>1. /\ q \notin overtaken /\ grants' = grants
        /\ \A u \in Users : user[u] # Nil => user'[u] = user[u]
        /\ \A t \in Tenants : tenant[t] # Nil => tenant'[t] = tenant[t]
    BY Undisturbed DEF InFlight
  <2>2. CASE locals.token = Nil /\ label = "elsewhere"
    BY <2>2 DEF GuardsKnow
  <2>3. CASE locals.token \in tokens
    <3>1. PICK u \in Users : u = locals.token.user
      BY <2>3 DEF Token
    <3>2. user[u] # Nil /\ user[u] \in UserRow /\ user[u].role \in Roles
          /\ user[u].tenant \in Tenants
      BY <2>3, <3>1 DEF TokensFit, UserRow
    <3>3. tenant[user[u].tenant] # Nil
      BY <3>2 DEF PairsFit, Rightful
    <3>4. user'[u] = user[u] /\ tenant'[user[u].tenant] = tenant[user[u].tenant]
      BY <2>1, <3>2, <3>3
    <3>5. StateAllows(locals.token) => StateAllows(locals.token)'
      BY <3>1, <3>4 DEF StateAllows
    <3>6. Authorised(locals.route, locals.token) => Authorised(locals.route, locals.token)'
      BY <2>1, <3>1, <3>4 DEF Authorised, Holds
    <3>7. GuardsKnow(q, label, locals)
      BY <1>1 DEF KnowsAt
    <3> QED
      BY <2>1, <3>1, <3>4, <3>5, <3>6, <3>7 DEF GuardsKnow
  <2> QED
    BY <1>1, <2>2, <2>3 DEF CallerKnown
<1>4. RowKnown(label, locals)'
  BY RowStays
<1>5. PairKnown(label, locals)'
  <2>1. CASE label = "writeRole"
    <3>1. PICK r \in Roles, t \in Tenants : r = locals.arg.role /\ t = locals.row.tenant
      BY <1>1, <2>1, Arguments DEF KnowsAt, RowKnown, UserRow
    <3>2. Rightful(r, t)
      BY <1>1, <2>1, <3>1 DEF KnowsAt, PairKnown
    <3>3. Rightful(r, t)'
      BY <3>2, FitStays
    <3> QED
      BY <2>1, <3>1, <3>3 DEF PairKnown
  <2>2. CASE label = "insertInvitation"
    <3>1. /\ locals.arg.role \in Roles /\ locals.token \in tokens
      BY <1>1, <2>2, Arguments DEF InFlight
    <3>2. PICK u \in Users : u = locals.token.user /\ user[u] \in UserRow /\ user[u] # Nil
      BY <3>1 DEF Token, TokensFit
    <3>3. PICK r \in Roles, t \in Tenants : r = locals.arg.role /\ t = user[u].tenant
      BY <3>1, <3>2 DEF UserRow
    <3>4. Rightful(r, t)
      BY <1>1, <2>2, <3>2, <3>3 DEF KnowsAt, PairKnown
    <3>5. Rightful(r, t)'
      BY <3>4, FitStays
    <3>6. user'[u].tenant = t
      BY <1>1, <3>2, <3>3 DEF WorldEvolves
    <3> QED
      BY <2>2, <3>2, <3>3, <3>5, <3>6 DEF PairKnown
  <2> QED
    BY <2>1, <2>2 DEF PairKnown
<1> QED
  BY <1>2, <1>3, <1>4, <1>5 DEF KnowsAt

(* A step leaves every request with what it needs to know. *)
LEMMA KnowsStep ==
    ASSUME Inv, Next, NEW q \in Requests
    PROVE  Knows(q)'
<1> USE DEF Inv, TypeOK
<1>1. ASSUME NEW label, NEW locals, pc'[q] = label, loc'[q] = locals, KnowsAt(q, label, locals)'
      PROVE  Knows(q)'
  <2>1. CallerKnown(label, locals)' => CallerKnown(pc[q], loc[q])'
    BY <1>1 DEF CallerKnown
  <2>2. GuardsKnow(q, label, locals)' => GuardsKnow(q, pc[q], loc[q])'
    BY <1>1 DEF GuardsKnow, StateAllows, Authorised, Holds
  <2>3. RowKnown(label, locals)' => RowKnown(pc[q], loc[q])'
    BY <1>1 DEF RowKnown, ReadFrom
  <2>4. PairKnown(label, locals)' => PairKnown(pc[q], loc[q])'
    BY <1>1 DEF PairKnown, Rightful, RoleFits, IsPlatformRole, IsPlatformTenant
  <2> QED
    BY <1>1, <2>1, <2>2, <2>3, <2>4 DEF Knows, KnowsAt
<1>2. CASE Stays(q)
  <2>1. PICK label \in Labels, locals \in Local : pc[q] = label /\ loc[q] = locals
    OBVIOUS
  <2>2. KnowsAt(q, label, locals)'
    BY <1>2, <2>1, KnowledgeStays
  <2> QED
    BY <1>1, <1>2, <2>1, <2>2 DEF Stays
<1>3. CASE ~Stays(q)
  <2>1. CASE Finish(q)
    <3>1. pc'[q] = "done" /\ loc'[q] = NoLocals
      BY <2>1 DEF Finish, Goto, Holding
    <3>2. KnowsAt(q, "done", NoLocals)'
      BY DEF KnowsAt, CallerKnown, GuardsKnow, RowKnown, PairKnown, Handlers
    <3> QED
      BY <1>1, <3>1, <3>2
  <2>2. ASSUME NEW label \in Labels, NEW locals \in Local, GoesOn(q, label, locals)
        PROVE  Knows(q)'
    <3>1. pc'[q] = label /\ loc'[q] = locals
      BY <2>2 DEF GoesOn, Goto, Holding
    <3>2. KnowsAt(q, label, locals)'
      BY <2>2 DEF GoesOn, fixed, people, catalogue, associations, KnowsAt, CallerKnown,
                  GuardsKnow, StateAllows, Authorised, Holds, RowKnown, ReadFrom, PairKnown,
                  Rightful, RoleFits, IsPlatformRole, IsPlatformTenant
    <3> QED
      BY <1>1, <3>1, <3>2
  <2> QED
    BY <1>3, <2>1, <2>2, RequestSteps DEF Finish, GoesOn, Goto, Holding, Stays
<1> QED
  BY <1>2, <1>3

-----------------------------------------------------------------------------
(* What the tables say stays right *)

(* A pair is only enabled when it fits, only invited when it was enabled, and *)
(* only given to a user when it was validated or invited.                     *)
LEMMA PairsStay ==
    ASSUME Inv, Next
    PROVE  PairsFit'
<1> USE DEF Inv, TypeOK
<1>1. ASSUME NEW r \in Roles, NEW t \in Tenants, Rightful(r, t) PROVE Rightful(r, t)'
  BY <1>1, FitStays
<1>2. ASSUME NEW r \in Roles, NEW t \in Tenants, <<r, t>> \in enabled'
      PROVE  Rightful(r, t)'
  <2>1. CASE <<r, t>> \in enabled
    BY <1>1, <2>1 DEF PairsFit
  <2>2. CASE <<r, t>> \notin enabled
    <3>1. PICK s \in Roles, v \in Tenants : Enables(s, v)
      BY <1>2, <2>2, TablesWritten
    <3>2. s = r /\ v = t /\ role[r] # Nil /\ tenant[t] # Nil /\ RoleFits(r, t)
      BY <1>2, <2>2, <3>1 DEF Enables
    <3> QED
      BY <1>2, <3>1, <3>2 DEF Enables, people, Rightful, RoleFits, IsPlatformRole, IsPlatformTenant
  <2> QED
    BY <2>1, <2>2
<1>3. ASSUME NEW r \in Roles, NEW t \in Tenants, <<r, t>> \in invited'
      PROVE  Rightful(r, t)'
  <2>1. CASE <<r, t>> \in invited
    BY <1>1, <2>1 DEF PairsFit
  <2>2. CASE <<r, t>> \notin invited
    <3>1. PICK p \in Requests : Invites(p)
      BY <1>3, <2>2, TablesWritten
    <3>2. r = loc[p].arg.role /\ t = user[loc[p].token.user].tenant
      BY <1>3, <2>2, <3>1 DEF Invites, Home
    <3>3. Rightful(r, t)
      BY <3>1, <3>2 DEF Invites, Knows, KnowsAt, PairKnown
    <3> QED
      BY <1>1, <3>3
  <2> QED
    BY <2>1, <2>2
<1>4. ASSUME NEW u \in Users, user'[u] # Nil
      PROVE  Rightful(user[u].role, user[u].tenant)'
  <2>1. ASSUME NEW r \in Roles, NEW t \in Tenants, r = user'[u].role, t = user'[u].tenant,
               Rightful(r, t)'
        PROVE  Rightful(user[u].role, user[u].tenant)'
    BY <2>1 DEF Rightful, RoleFits, IsPlatformRole, IsPlatformTenant
  <2>2. ASSUME NEW r \in Roles, NEW t \in Tenants, r = user'[u].role, t = user'[u].tenant,
               Rightful(r, t)
        PROVE  Rightful(user[u].role, user[u].tenant)'
    BY <1>1, <2>1, <2>2
  <2>3. user'[u] \in UserRow /\ user'[u].role \in Roles /\ user'[u].tenant \in Tenants
    BY <1>4, TablesTyped DEF UserRow
  <2>4. CASE user'[u] = user[u]
    BY <1>4, <2>2, <2>3, <2>4 DEF PairsFit
  <2>5. ASSUME NEW v \in Users, NEW r \in Roles, NEW t \in Tenants, AddsUser(v, r, t),
               user'[u] # user[u]
        PROVE  Rightful(user[u].role, user[u].tenant)'
    <3>1. u = v /\ user'[u] = NewUser(t, r)
      BY <2>5 DEF AddsUser
    <3>2. Rightful(r, t)
      BY <2>5 DEF AddsUser, PairsFit
    <3> QED
      BY <2>2, <3>1, <3>2 DEF NewUser
  <2>6. ASSUME NEW p \in Requests, NEW row \in UserRow, WritesUser(p, row), user'[u] # user[u]
        PROVE  Rightful(user[u].role, user[u].tenant)'
    <3>1. u = loc[p].arg.user /\ user'[u] = row /\ loc[p].row = user[u] /\ user[u] # Nil
      BY <2>6 DEF WritesUser
    <3>2. CASE row.role = loc[p].row.role
      BY <2>2, <2>3, <2>6, <3>1, <3>2 DEF WritesUser, PairsFit
    <3>3. CASE pc[p] = "writeRole" /\ row.role = loc[p].arg.role
      <4>1. Rightful(loc[p].arg.role, loc[p].row.tenant)
        BY <3>3 DEF Knows, KnowsAt, PairKnown
      <4> QED
        BY <2>2, <2>3, <2>6, <3>1, <3>3, <4>1 DEF WritesUser
    <3> QED
      BY <2>6, <3>2, <3>3 DEF WritesUser
  <2> QED
    BY <2>4, <2>5, <2>6, TablesWritten
<1> QED
  BY <1>2, <1>3, <1>4 DEF PairsFit

(* A permission is only assigned to a role whose scope allows it. *)
LEMMA GrantsStay ==
    ASSUME Inv, Next
    PROVE  GrantsFit'
<1> USE DEF Inv, TypeOK
<1> SUFFICES ASSUME NEW r \in Roles, NEW c \in Permissions, <<r, c>> \in grants'
             PROVE  (role[r] # Nil /\ permission[c] # Nil /\ PermissionFits(c, r))'
  BY DEF GrantsFit
<1>1. ASSUME role[r] # Nil, permission[c] # Nil, PermissionFits(c, r)
      PROVE  (role[r] # Nil /\ permission[c] # Nil /\ PermissionFits(c, r))'
  <2>1. WorldEvolves
    BY Evolution
  <2> QED
    BY <1>1, <2>1 DEF WorldEvolves, PermissionFits, IsPlatformPermission, IsPlatformRole
<1>2. CASE <<r, c>> \in grants
  BY <1>1, <1>2 DEF GrantsFit
<1>3. CASE <<r, c>> \notin grants
  <2>1. PICK p \in Requests, s \in Roles, d \in Permissions : WritesGrants(p, s, d)
    BY <1>3, TablesWritten
  <2>2. s = r /\ d = c
    BY <1>3, <2>1 DEF WritesGrants
  <2> QED
    BY <1>1, <1>3, <2>1, <2>2 DEF WritesGrants
<1> QED
  BY <1>2, <1>3

(* A token says the role its user has when it is issued. *)
LEMMA TokensStay ==
    ASSUME Inv, Next
    PROVE  TokensFit'
<1> USE DEF Inv, TypeOK
<1>0. WorldEvolves /\ "PLATFORM_ADMIN" \in Roles
  BY Evolution, SeededCatalogue
<1>1. (role["PLATFORM_ADMIN"] # Nil /\ IsPlatformRole("PLATFORM_ADMIN"))'
  BY <1>0 DEF TokensFit, WorldEvolves, IsPlatformRole
<1>2. ASSUME NEW u \in Users, user[u] # Nil,
             NEW r, r = "PLATFORM_ADMIN" => IsPlatformTenant(user[u].tenant)
      PROVE  /\ user'[u] # Nil
             /\ r = "PLATFORM_ADMIN" => IsPlatformTenant(user[u].tenant)'
  <2>1. user[u] \in UserRow /\ user[u].tenant \in Tenants
    BY <1>2 DEF UserRow
  <2>2. tenant[user[u].tenant] # Nil
    BY <1>2, <2>1 DEF PairsFit, Rightful
  <2> QED
    BY <1>0, <1>2, <2>1, <2>2 DEF WorldEvolves, IsPlatformTenant
<1>3. ASSUME NEW token \in tokens'
      PROVE  (/\ user[token.user] # Nil
              /\ token.role = "PLATFORM_ADMIN" => IsPlatformTenant(user[token.user].tenant))'
  <2>1. PICK u \in Users : u = token.user
    BY TablesTyped DEF Token
  <2>2. user[u] # Nil /\ (token.role = "PLATFORM_ADMIN" => IsPlatformTenant(user[u].tenant))
    <3>1. CASE token \in tokens
      BY <2>1, <3>1 DEF TokensFit
    <3>2. CASE token \notin tokens
      <4>1. PICK v \in Users : AddsToken(v)
        BY <3>2, TablesWritten
      <4>2. token = [user |-> v, role |-> user[v].role] /\ user[v] # Nil
        BY <3>2, <4>1 DEF AddsToken
      <4>3. v = u /\ Rightful(user[v].role, user[v].tenant)
        BY <2>1, <4>2 DEF PairsFit
      <4>4. token.role = "PLATFORM_ADMIN" => IsPlatformTenant(user[v].tenant)
        BY <4>2, <4>3 DEF Rightful, RoleFits, TokensFit
      <4> QED
        BY <4>2, <4>3, <4>4
    <3> QED
      BY <3>1, <3>2
  <2>3. user'[u] # Nil /\ (token.role = "PLATFORM_ADMIN" => IsPlatformTenant(user[u].tenant)')
    <3>1. user'[u].tenant = user[u].tenant
      BY <1>0, <2>2 DEF WorldEvolves
    <3> QED
      BY <1>2, <2>2, <3>1 DEF IsPlatformTenant
  <2> QED
    BY <2>1, <2>3 DEF IsPlatformTenant
<1> QED
  BY <1>1, <1>3 DEF TokensFit

-----------------------------------------------------------------------------
(* The invariant *)

(* At first every association that the use cases would accept is there, and *)
(* nothing else.                                                             *)
LEMMA InitInv == Init => Inv
<1> SUFFICES ASSUME Init PROVE Inv
  OBVIOUS
<1> USE NilIsFresh
<1>1. /\ \A t \in Tenants, r \in Roles : NewUser(t, r) \in UserRow
      /\ \A t \in Tenants : tenant[t] \in TenantRow \cup {Nil}
      /\ \A r \in Roles : role[r] \in RoleRow \cup {Nil}
      /\ \A c \in Permissions : permission[c] \in PermissionRow \cup {Nil}
  BY RowTypes DEF Init, Scopes
<1>2. /\ tenant \in [Tenants -> TenantRow \cup {Nil}] /\ role \in [Roles -> RoleRow \cup {Nil}]
      /\ permission \in [Permissions -> PermissionRow \cup {Nil}]
      /\ enabled \subseteq Roles \X Tenants /\ grants \subseteq Roles \X Permissions
  BY <1>1 DEF Init
<1>3. ASSUME NEW u \in Users, user[u] # Nil
      PROVE  \E r \in Roles, t \in Tenants : <<r, t>> \in enabled /\ user[u] = NewUser(t, r)
  <2>1. user[u] \in {NewUser(e[2], e[1]) : e \in enabled} \cup {Nil}
    BY DEF Init
  <2>2. PICK e \in enabled : user[u] = NewUser(e[2], e[1])
    BY <1>3, <2>1
  <2>3. PICK r \in Roles, t \in Tenants : e = <<r, t>>
    BY <1>2
  <2> QED
    BY <2>2, <2>3
<1>4. \A u \in Users : user[u] \in UserRow \cup {Nil}
  BY <1>1, <1>3
<1>5. user \in [Users -> UserRow \cup {Nil}]
  <2>1. user \in [Users -> {NewUser(e[2], e[1]) : e \in enabled} \cup {Nil}]
    BY DEF Init
  <2> QED
    BY <1>4, <2>1
<1>6. ASSUME NEW token \in tokens
      PROVE  /\ token \in Token /\ user[token.user] # Nil
             /\ token.role = user[token.user].role
  <2>1. PICK u \in Users : user[u] # Nil /\ token = [user |-> u, role |-> user[u].role]
    BY DEF Init
  <2>2. user[u] \in UserRow
    BY <1>4, <2>1
  <2> QED
    BY <2>1, <2>2 DEF Token, UserRow
<1>7. TypeOK
  <2>1. NoLocals \in Local /\ "idle" \in Labels
    BY LocalTypes DEF Labels
  <2>2. configuration \in [Tenants \X Roles -> ConfigurationRow \cup {Nil}]
    BY DEF Init
  <2>3. tokens \subseteq Token
    BY <1>6
  <2>4. /\ scenario \in Scenarios
        /\ recording \in [Requests -> AuditEvent \cup {Nil}]
        /\ trail \in [Requests -> AuditEvent \cup {Nil}]
        /\ pc \in [Requests -> Labels] /\ loc \in [Requests -> Local]
        /\ withdrawn = {} /\ invited = {} /\ suspended = {} /\ accidents = {} /\ overtaken = {}
    BY <2>1 DEF Init
  <2> QED
    BY <1>2, <1>5, <2>2, <2>3, <2>4 DEF TypeOK
<1>8. ASSUME NEW r \in Roles, NEW t \in Tenants, <<r, t>> \in enabled PROVE Rightful(r, t)
  <2>1. r \notin LaterRoles /\ t \notin LaterTenants /\ RoleFits(r, t)
    BY <1>8 DEF Init
  <2>2. role[r] \in RoleRow /\ tenant[t] \in TenantRow
    BY <2>1, RowTypes DEF Init, Scopes
  <2> QED
    BY <1>8, <2>1, <2>2 DEF Rightful
<1>9. PairsFit
  <2>1. ASSUME NEW u \in Users, user[u] # Nil PROVE Rightful(user[u].role, user[u].tenant)
    <3>1. PICK r \in Roles, t \in Tenants : <<r, t>> \in enabled /\ user[u] = NewUser(t, r)
      BY <1>3, <2>1
    <3> QED
      BY <1>8, <3>1 DEF NewUser
  <2>2. invited = {}
    BY DEF Init
  <2> QED
    BY <1>8, <2>1, <2>2 DEF PairsFit
<1>10. GrantsFit
  <2> SUFFICES ASSUME NEW r \in Roles, NEW c \in Permissions, <<r, c>> \in grants
               PROVE  role[r] # Nil /\ permission[c] # Nil /\ PermissionFits(c, r)
    BY DEF GrantsFit
  <2>1. r \notin LaterRoles /\ c \notin LaterPermissions /\ PermissionFits(c, r)
    BY DEF Init
  <2>2. role[r] \in RoleRow /\ permission[c] \in PermissionRow
    BY <2>1, RowTypes DEF Init, Scopes
  <2> QED
    BY <2>1, <2>2
<1>11. TokensFit
  <2>1. role["PLATFORM_ADMIN"] = NewRole("PLATFORM") /\ NewRole("PLATFORM") \in RoleRow
    BY SeededCatalogue, RowTypes DEF Init, Scopes
  <2>2. role["PLATFORM_ADMIN"] # Nil /\ IsPlatformRole("PLATFORM_ADMIN")
    BY <2>1 DEF IsPlatformRole, NewRole
  <2>3. ASSUME NEW token \in tokens, token.role = "PLATFORM_ADMIN"
        PROVE  IsPlatformTenant(user[token.user].tenant)
    <3>1. token.user \in Users
      BY <1>6 DEF Token
    <3> QED
      BY <1>6, <1>9, <2>2, <2>3, <3>1 DEF PairsFit, Rightful, RoleFits
  <2> QED
    BY <1>6, <2>2, <2>3 DEF TokensFit
<1>12. EventsFit /\ TrailTellsTheTruth
  BY DEF Init, EventsFit, TrailTellsTheTruth, AuditEvent
<1>13. ASSUME NEW p \in Requests PROVE Knows(p)
  <2>1. pc[p] = "idle"
    BY DEF Init
  <2> QED
    BY <2>1 DEF Knows, KnowsAt, CallerKnown, GuardsKnow, RowKnown, PairKnown, Handlers
<1> QED
  BY <1>7, <1>9, <1>10, <1>11, <1>12, <1>13 DEF Inv

(* Every step keeps the invariant. *)
LEMMA NextInv == Inv /\ [Next]_vars => Inv'
<1>1. ASSUME Inv, Next PROVE Inv'
  <2>1. TypeOK'
    BY <1>1, TablesTyped, RequestsTyped DEF TypeOK
  <2>2. PairsFit' /\ GrantsFit' /\ TokensFit'
    BY <1>1, PairsStay, GrantsStay, TokensStay
  <2>3. EventsFit' /\ TrailTellsTheTruth'
    BY <1>1, AuditsFit
  <2>4. \A p \in Requests : Knows(p)'
    BY <1>1, KnowsStep
  <2> QED
    BY <2>1, <2>2, <2>3, <2>4 DEF Inv
<1>2. ASSUME Inv, UNCHANGED vars PROVE Inv'
  <2> USE <1>2 DEF Inv, vars
  <2>1. TypeOK'
    BY DEF TypeOK
  <2>2. PairsFit' /\ GrantsFit' /\ TokensFit'
    BY DEF PairsFit, GrantsFit, TokensFit, Rightful, RoleFits, PermissionFits, IsPlatformPermission,
           IsPlatformRole, IsPlatformTenant
  <2>3. EventsFit' /\ TrailTellsTheTruth'
    BY DEF EventsFit, TrailTellsTheTruth
  <2>4. ASSUME NEW p \in Requests PROVE Knows(p)'
    <3>1. CallerKnown(pc[p], loc[p]) => CallerKnown(pc[p], loc[p])'
      BY DEF CallerKnown
    <3>2. GuardsKnow(p, pc[p], loc[p]) => GuardsKnow(p, pc[p], loc[p])'
      BY DEF GuardsKnow, StateAllows, Authorised, Holds
    <3>3. RowKnown(pc[p], loc[p]) => RowKnown(pc[p], loc[p])'
      BY DEF RowKnown, ReadFrom
    <3>4. PairKnown(pc[p], loc[p]) => PairKnown(pc[p], loc[p])'
      BY DEF PairKnown, Rightful, RoleFits, IsPlatformRole, IsPlatformTenant
    <3> QED
      BY <3>1, <3>2, <3>3, <3>4 DEF Knows, KnowsAt
  <2> QED
    BY <2>1, <2>2, <2>3, <2>4
<1> QED
  BY <1>1, <1>2

(* What every request knows and every table says holds at all times. *)
THEOREM Invariance == Spec => []Inv
<1>1. Inv /\ [Next]_vars => Inv'
  BY NextInv
<1> QED
  BY <1>1, InitInv, PTL DEF Spec

-----------------------------------------------------------------------------
(* What follows from it *)

(* Tables, tokens, events and the locals of every request keep their types. *)
THEOREM TypeCorrect == Spec => []TypeOK
<1>1. Inv => TypeOK
  BY DEF Inv
<1> QED
  BY <1>1, Invariance, PTL

(* Whoever holds a PLATFORM permission, or carries a token that switches the *)
(* tenant filter off, belongs to a tenant of type PLATFORM.                  *)
THEOREM PowerSafe == Spec => []PlatformPowerStaysHome
<1>1. ASSUME Inv PROVE PlatformPowerStaysHome
  <2> USE <1>1 DEF Inv
  <2>1. ASSUME NEW u \in Users, NEW c \in Permissions,
               user[u] # Nil, Holds(u, c), IsPlatformPermission(c)
        PROVE  IsPlatformTenant(user[u].tenant)
    <3>1. user[u].role \in Roles
      BY <2>1 DEF TypeOK, UserRow
    <3>2. IsPlatformRole(user[u].role)
      BY <2>1, <3>1 DEF Holds, GrantsFit, PermissionFits
    <3> QED
      BY <2>1, <3>2 DEF PairsFit, Rightful, RoleFits
  <2> QED
    BY <2>1 DEF PlatformPowerStaysHome, TokensFit
<1> QED
  BY <1>1, Invariance, PTL

(* A role that a user holds is or was associated with his tenant. *)
THEOREM RolesSafe == Spec => []HeldRolesWereEnabled
<1>1. Inv => HeldRolesWereEnabled
  BY DEF Inv, PairsFit, Rightful, HeldRolesWereEnabled
<1> QED
  BY <1>1, Invariance, PTL

(* What the guards found holds while a handler runs that nobody overtook. *)
THEOREM HandlersSafe == Spec => []HandlersRunAuthorised
<1>1. Inv => HandlersRunAuthorised
  BY DEF Inv, Knows, KnowsAt, GuardsKnow, HandlersRunAuthorised
<1> QED
  BY <1>1, Invariance, PTL

(* The trail of suspensions is true, and complete but for its own failures. *)
THEOREM TrailSafe == Spec => []TrailTellsTheTruth
<1>1. Inv => TrailTellsTheTruth
  BY DEF Inv
<1> QED
  BY <1>1, Invariance, PTL

(* Whoever is suspended is so by a request of somebody who outranked him.   *)
THEOREM SuspensionSafe == Spec => SuspendedByBetters
<1> DEFINE Better ==
        \A u \in Users :
            user[u] # Nil /\ user[u].status = "ACTIVE" /\ user'[u].status = "SUSPENDED" =>
                \E p \in Requests :
                    /\ p \in suspended' \ suspended
                    /\ Outranks(loc[p].role, user[u].role)
                    /\ p \notin overtaken =>
                        Outranks(user[loc[p].token.user].role, user[u].role)
<1>1. ASSUME Inv, [Next]_vars PROVE [Better]_vars
  <2> SUFFICES ASSUME Next, NEW u \in Users, user[u] # Nil, user[u].status = "ACTIVE",
                      user'[u].status = "SUSPENDED"
               PROVE  \E p \in Requests :
                        /\ p \in suspended' \ suspended
                        /\ Outranks(loc[p].role, user[u].role)
                        /\ p \notin overtaken =>
                            Outranks(user[loc[p].token.user].role, user[u].role)
    BY <1>1
  <2> USE <1>1 DEF Inv, TypeOK
  <2>1. PICK p \in Requests, row \in UserRow : WritesUser(p, row)
    BY TablesWritten DEF AddsUser
  <2>2. u = loc[p].arg.user /\ user'[u] = row /\ loc[p].row = user[u]
    BY <2>1 DEF WritesUser
  <2>3. pc[p] = "writeSuspension" /\ MaySuspend(p) /\ suspended' = suspended \cup {p}
    BY <2>1, <2>2 DEF WritesUser
  <2>4. p \notin suspended
    BY <2>3 DEF EventsFit
  <2>5. p \notin overtaken => loc[p].role = user[loc[p].token.user].role
    BY <2>3 DEF Knows, KnowsAt, GuardsKnow
  <2> QED
    BY <2>2, <2>3, <2>4, <2>5 DEF MaySuspend
<1> QED
  BY <1>1, Invariance, PTL DEF Spec, SuspendedByBetters

(* Nothing written between a request's read and its write is lost. *)
THEOREM WritesSafe == Spec => NoStaleWrite
<1> DEFINE Fresh ==
        /\ \A u \in Replaced(user) : user'[u] # user[u] =>
                \E p \in Requests : pc'[p] # pc[p] /\ loc[p].row = user[u]
        /\ \A t \in Replaced(tenant) : tenant'[t] # tenant[t] =>
                \E p \in Requests : pc'[p] # pc[p] /\ loc[p].row = tenant[t]
        /\ \A r \in Replaced(role) : role'[r] # role[r] =>
                \E p \in Requests : pc'[p] # pc[p] /\ loc[p].row = role[r]
<1>1. ASSUME Inv, [Next]_vars PROVE [Fresh]_vars
  <2> SUFFICES ASSUME Next PROVE Fresh
    BY <1>1
  <2> USE <1>1 DEF Inv, TypeOK, Replaced
  <2>1. ASSUME NEW u \in Replaced(user), user'[u] # user[u]
        PROVE  \E p \in Requests : pc'[p] # pc[p] /\ loc[p].row = user[u]
    <3>1. PICK p \in Requests, row \in UserRow : WritesUser(p, row)
      BY <2>1, TablesWritten DEF AddsUser
    <3> QED
      BY <2>1, <3>1 DEF WritesUser
  <2>2. ASSUME NEW t \in Replaced(tenant), tenant'[t] # tenant[t]
        PROVE  \E p \in Requests : pc'[p] # pc[p] /\ loc[p].row = tenant[t]
    <3>1. PICK p \in Requests, row \in TenantRow : WritesTenant(p, row)
      BY <2>2, TablesWritten DEF AddsTenant
    <3> QED
      BY <2>2, <3>1 DEF WritesTenant
  <2>3. ASSUME NEW r \in Replaced(role), role'[r] # role[r]
        PROVE  \E p \in Requests : pc'[p] # pc[p] /\ loc[p].row = role[r]
    <3>1. PICK p \in Requests, row \in RoleRow : WritesRole(p, row)
      BY <2>3, TablesWritten DEF AddsRole
    <3> QED
      BY <2>3, <3>1 DEF WritesRole
  <2> QED
    BY <2>1, <2>2, <2>3
<1> QED
  BY <1>1, Invariance, PTL DEF Spec, NoStaleWrite
===============================================================================
