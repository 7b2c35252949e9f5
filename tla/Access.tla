------------------------------- MODULE Access -------------------------------
(***************************************************************************)
(* Who may do what: users (Identity), tenants (Tenants), roles,            *)
(* permissions and their associations (Authorization), the guards every    *)
(* request passes before its handler, the tenant filter of the Prisma      *)
(* client its handler works with, and the audit trail of suspensions.      *)
(*                                                                         *)
(* An access token carries the role of its user as of the login or         *)
(* refresh; the guards read the state of user and tenant from the database *)
(* and, two awaits later, the permissions of the role the user has then.   *)
(* A request is served once, with one action per await on state that can   *)
(* change: the scope of a role or permission and the type and existence of *)
(* a tenant never do, so that reading them is part of the next step.       *)
(* Names and descriptions are left out of the rows, their versions are     *)
(* not.  A failure before anything changed is a request that stops moving, *)
(* unless it is audited.                                                   *)
(***************************************************************************)
EXTENDS Naturals, FiniteSets, HttpGuards

CONSTANTS
    Users, Tenants,       \* identifiers of users and tenants
    Roles, Permissions,   \* their codes, which stand for their identifiers
    PlatformRoles,        \* roles of scope PLATFORM among those that exist at first
    PlatformPermissions,  \* permissions of scope PLATFORM among those that exist at first
    LaterRoles, LaterPermissions, \* those that do not exist at first
    Operator, LaterTenants, \* the first tenant of type PLATFORM; tenants to be created
    Requests,             \* HTTP requests
    MaxVersion,           \* bound: updates of one row
    Scenarios,            \* the use cases and failures that may meet in one behaviour;
                          \* "busy" lets more than two requests in
    Nil                   \* absent row, token or local

Ops == {"suspend", "reactivate", "changeRole", "invite", "createTenant", "updateTenant",
        "suspendTenant", "reactivateTenant", "createRole", "updateRole",
        "assignPermissions", "removePermissions", "createPermission", "updatePermission",
        "associate", "disassociate", "createConfiguration",
        "updateConfiguration", "deleteConfiguration", "elsewhere"}
Faults == {"database", "answer", "audit"}

ASSUME KnownSwitches == Scenarios \subseteq SUBSET (Ops \cup Faults \cup {"login", "busy"})
ASSUME SeededCatalogue ==
    /\ "PLATFORM_ADMIN" \in PlatformRoles /\ PlatformRoles \subseteq Roles \ LaterRoles
    /\ PlatformPermissions \subseteq Permissions \ LaterPermissions
    /\ Operator \in Tenants \ LaterTenants
    /\ Nil \notin Users \cup Tenants \cup Roles \cup Permissions
ASSUME BoundIsNat == MaxVersion \in Nat

VARIABLES
    scenario,       \* the use cases and failures of this behaviour
    user,           \* table users
    tenant,         \* table tenants
    role,           \* table roles
    permission,     \* table permissions
    grants,         \* table role_permissions: pairs of role and permission
    enabled,        \* table role_tenants: pairs of role and tenant
    configuration,  \* table tenant_role_configurations: version of each tenant and role, or Nil
    invited,        \* pairs of tenant and role of the invitations that were stored
    tokens,         \* access tokens handed out
    recording,      \* the audit event each request has left to be written, or Nil
    trail,          \* audit_events: the status written for each request, or Nil
    suspended,      \* requests that suspended a user (history)
    accidents,      \* requests hit by a failure of the trail or of an answer (history)
    withdrawn,      \* pairs of role and tenant ever disassociated (history)
    overtaken,      \* requests during which another one changed user, tenant or grants (history)
    pc,             \* where each request stands
    loc             \* the locals of each request

audits == <<recording, trail, suspended, accidents>>
vars == <<scenario, user, tenant, role, permission, grants, enabled, configuration, invited,
          tokens, recording, trail, suspended, accidents, withdrawn, overtaken, pc, loc>>

-----------------------------------------------------------------------------
(* Types *)

Statuses == {"ACTIVE", "SUSPENDED"}
Scopes == {"PLATFORM", "TENANT"}
UserRow == [tenant : Tenants, role : Roles, status : Statuses, version : 0..MaxVersion]
TenantRow == [type : {"PLATFORM", "CUSTOMER"}, status : Statuses, version : 0..MaxVersion]
RoleRow == [scope : Scopes, version : 0..MaxVersion]
PermissionRow == [scope : Scopes, description : {"first", "edited"}]
ConfigurationRow == [version : 0..MaxVersion]
(* An event about a suspension, by its status. *)
AuditEvent == {"SUCCESS", "FAILED", "DENIED"}

Token == [user : Users, role : Roles]
Arg == [user : Users \cup {Nil}, tenant : Tenants \cup {Nil},
        role : Roles \cup {Nil}, permission : Permissions \cup {Nil}]
NoArg == [user |-> Nil, tenant |-> Nil, role |-> Nil, permission |-> Nil]

(* The route, the caller's token, the input, the role of the caller and the *)
(* row that were read.                                                      *)
NoLocals == [op |-> Nil, route |-> Nil, token |-> Nil, arg |-> NoArg, role |-> Nil, row |-> Nil]
Local == [op : Ops \cup {Nil}, route : AllRoutes \cup {Nil}, token : Token \cup {Nil}, arg : Arg,
          role : Roles \cup {Nil},
          row : UserRow \cup TenantRow \cup RoleRow \cup PermissionRow \cup ConfigurationRow
                 \cup {Nil}]

(* Nil is no row and no event either. *)
ASSUME NilIsFresh == Nil \notin UserRow \cup TenantRow \cup RoleRow \cup PermissionRow
                                \cup ConfigurationRow \cup AuditEvent

Handlers == {"actor", "target", "writeSuspension", "findUser", "writeReactivation",
             "validateRole", "writeRole", "invite", "insertInvitation", "createTenant",
             "findTenant", "writeTenant", "createRole", "findRole", "writeRoleRow",
             "createPermission", "findPermission", "writePermission", "grants", "associations",
             "findConfiguration", "insertConfiguration", "writeConfiguration",
             "removeConfiguration", "elsewhere"}
Labels == {"idle", "user", "permissions", "done"} \cup Handlers

TypeOK ==
    /\ scenario \in Scenarios
    /\ user \in [Users -> UserRow \cup {Nil}]
    /\ tenant \in [Tenants -> TenantRow \cup {Nil}]
    /\ role \in [Roles -> RoleRow \cup {Nil}]
    /\ permission \in [Permissions -> PermissionRow \cup {Nil}]
    /\ grants \subseteq Roles \X Permissions
    /\ enabled \subseteq Roles \X Tenants /\ withdrawn \subseteq Roles \X Tenants
    /\ configuration \in [Tenants \X Roles -> ConfigurationRow \cup {Nil}]
    /\ invited \subseteq Roles \X Tenants
    /\ tokens \subseteq Token
    /\ recording \in [Requests -> AuditEvent \cup {Nil}]
    /\ trail \in [Requests -> AuditEvent \cup {Nil}]
    /\ suspended \subseteq Requests /\ accidents \subseteq Requests /\ overtaken \subseteq Requests
    /\ pc \in [Requests -> Labels]
    /\ loc \in [Requests -> Local]

-----------------------------------------------------------------------------
(* Entities, catalogue and policy *)

NewUser(t, r) == [tenant |-> t, role |-> r, status |-> "ACTIVE", version |-> 0]
NewTenant(type) == [type |-> type, status |-> "ACTIVE", version |-> 0]
NewRole(scope) == [scope |-> scope, version |-> 0]
NewPermission(scope) == [scope |-> scope, description |-> "first"]
(* Variant: a user is disabled, a tenant suspended. *)
Disabled(row) == [row EXCEPT !.status = "DISABLED"]
Suspended(row) == [row EXCEPT !.status = "SUSPENDED"]
Reactivated(row) == [row EXCEPT !.status = "ACTIVE"]

(* updateMany by id and version, and the row it stores. *)
(* Variant: updated by id alone. *)
SameId(current, read) == current # Nil
Unchanged(current, read) == current # Nil /\ current.version = read.version
Bumped(row) == [row EXCEPT !.version = @ + 1]

IsPlatformTenant(t) == tenant[t] # Nil /\ tenant[t].type = "PLATFORM"
IsPlatformRole(r) == role[r] # Nil /\ role[r].scope = "PLATFORM"

RoleFits(r, t) == IsPlatformRole(r) => IsPlatformTenant(t)
IsPlatformPermission(c) == permission[c] # Nil /\ permission[c].scope = "PLATFORM"
PermissionFits(c, r) == IsPlatformPermission(c) => IsPlatformRole(r)

Hierarchy(r) == CASE r = "PLATFORM_ADMIN" -> 3 [] r = "TENANT_OWNER" -> 2
                  [] r = "TENANT_ADMIN" -> 1 [] OTHER -> 0
Outranks(r, s) == Hierarchy(r) > Hierarchy(s)

(* Initially every association that the use cases would accept is there. *)
Init ==
    /\ scenario \in Scenarios
    /\ tenant = [t \in Tenants |-> IF t \in LaterTenants THEN Nil
                    ELSE NewTenant(IF t = Operator THEN "PLATFORM" ELSE "CUSTOMER")]
    /\ role = [r \in Roles |-> IF r \in LaterRoles THEN Nil
                    ELSE NewRole(IF r \in PlatformRoles THEN "PLATFORM" ELSE "TENANT")]
    /\ permission = [c \in Permissions |-> IF c \in LaterPermissions THEN Nil
                    ELSE NewPermission(IF c \in PlatformPermissions THEN "PLATFORM" ELSE "TENANT")]
    /\ grants = {g \in (Roles \ LaterRoles) \X (Permissions \ LaterPermissions) :
                    PermissionFits(g[2], g[1])}
    /\ enabled = {e \in (Roles \ LaterRoles) \X (Tenants \ LaterTenants) : RoleFits(e[1], e[2])}
    /\ user \in [Users -> {NewUser(e[2], e[1]) : e \in enabled} \cup {Nil}]
    /\ tokens = {[user |-> u, role |-> user[u].role] : u \in {v \in Users : user[v] # Nil}}
    /\ configuration = [c \in Tenants \X Roles |-> Nil]
    /\ invited = {} /\ withdrawn = {}
    /\ recording = [p \in Requests |-> Nil] /\ trail = [p \in Requests |-> Nil]
    /\ suspended = {} /\ accidents = {} /\ overtaken = {}
    /\ pc = [p \in Requests |-> "idle"]
    /\ loc = [p \in Requests |-> NoLocals]

-----------------------------------------------------------------------------
(* Requests *)

May(op) == op \in scenario
CanFail(fault) == fault \in scenario
(* Bounds: the requests served in a behaviour, and one of them elsewhere. *)
Room == "busy" \in scenario \/ Cardinality({p \in Requests : pc[p] # "idle"}) < 2
InFlight(p) == pc[p] \notin {"idle", "done"}
Goto(p, label) == pc' = [pc EXCEPT ![p] = label]
Holding(p, locals) == loc' = [loc EXCEPT ![p] = locals]
Finish(p) == Goto(p, "done") /\ Holding(p, NoLocals)
Overtake(p) == overtaken' = overtaken \cup {q \in Requests \ {p} : InFlight(q)}
Record(p, status) == recording' = [recording EXCEPT ![p] = status]

associations == <<enabled, configuration, invited, withdrawn>>
catalogue == <<role, permission, associations>>
people == <<user, tenant, grants, overtaken>>
fixed == <<scenario, tokens>>

OpRoute == [
    suspend |-> UserRoutes.suspend, reactivate |-> UserRoutes.reactivate,
    changeRole |-> UserRoutes.changeRole, invite |-> InvitationRoutes.create,
    createTenant |-> TenantRoutes.create, updateTenant |-> TenantChangeRoutes.update,
    suspendTenant |-> TenantChangeRoutes.suspend,
    reactivateTenant |-> TenantChangeRoutes.reactivate,
    createRole |-> RoleRoutes.create, updateRole |-> RoleRoutes.update,
    assignPermissions |-> RolePermissionsRoutes.assignPermissions,
    removePermissions |-> RolePermissionsRoutes.removePermissions,
    createPermission |-> PermissionRoutes.create, updatePermission |-> PermissionRoutes.update,
    associate |-> RoleTenantRoutes.associate, disassociate |-> RoleTenantRoutes.disassociate,
    createConfiguration |-> TenantRoleConfigurationRoutes.create,
    updateConfiguration |-> TenantRoleConfigurationRoutes.update,
    deleteConfiguration |-> TenantRoleConfigurationRoutes.delete]

(* "elsewhere" is every route: what its handler does is not this module's. *)
RoutesOf(op) ==
    IF op # "elsewhere" THEN {OpRoute[op]}
    ELSE IF \E p \in Requests : loc[p].op = "elsewhere" THEN {} ELSE AllRoutes

FirstStep == [
    suspend |-> "actor", reactivate |-> "findUser", changeRole |-> "findUser",
    invite |-> "invite", createTenant |-> "createTenant", updateTenant |-> "findTenant",
    suspendTenant |-> "findTenant", reactivateTenant |-> "findTenant",
    createRole |-> "createRole", updateRole |-> "findRole",
    assignPermissions |-> "grants", removePermissions |-> "grants",
    createPermission |-> "createPermission", updatePermission |-> "findPermission",
    associate |-> "associations", disassociate |-> "associations",
    createConfiguration |-> "findConfiguration", updateConfiguration |-> "findConfiguration",
    deleteConfiguration |-> "findConfiguration", elsewhere |-> "elsewhere"]

(* The permissions that decide on something in this behaviour. *)
PermissionsInPlay ==
    Permissions \cap ({OpRoute[op].permission : op \in scenario \cap DOMAIN OpRoute}
                        \cup (IF May("createPermission") THEN LaterPermissions ELSE {}))

Inputs(op) ==
    CASE op \in {"suspend", "reactivate"} ->
            {[NoArg EXCEPT !.user = u] : u \in Users}
      [] op = "changeRole" ->
            {[NoArg EXCEPT !.user = x[1], !.role = x[2]] : x \in Users \X Roles}
      [] op \in {"createTenant", "updateTenant", "suspendTenant", "reactivateTenant"} ->
            {[NoArg EXCEPT !.tenant = t] : t \in Tenants}
      [] op \in {"invite", "createRole", "updateRole", "createConfiguration"} ->
            {[NoArg EXCEPT !.role = r] : r \in Roles}
      [] op \in {"createPermission", "updatePermission"} ->
            {[NoArg EXCEPT !.permission = c] : c \in PermissionsInPlay}
      [] op \in {"assignPermissions", "removePermissions"} ->
            {[NoArg EXCEPT !.role = x[1], !.permission = x[2]] : x \in Roles \X PermissionsInPlay}
      [] op \in {"associate", "disassociate", "updateConfiguration", "deleteConfiguration"} ->
            {[NoArg EXCEPT !.role = x[1], !.tenant = x[2]] : x \in Roles \X Tenants}
      [] OTHER -> {NoArg}

-----------------------------------------------------------------------------
(* The guards *)

(* What AuthenticationGuard learns about the bearer of a token. *)
Caller(token, emailVerified, csrf) ==
    [roleCode |-> token.role, userStatus |-> user[token.user].status,
     tenantStatus |-> tenant[user[token.user].tenant].status,
     emailVerified |-> emailVerified, csrf |-> csrf]

Serving(p, op, route, token, arg) ==
    Holding(p, [NoLocals EXCEPT !.op = op, !.route = route, !.token = token, !.arg = arg])

(* A guard throws; the handlers with @Audit get a DENIED event. *)
Deny(p, route) ==
    /\ IF "Audit" \in route.marks THEN Record(p, "DENIED") ELSE UNCHANGED recording
    /\ Finish(p)

(* No handler with a Public mark is one of this module's. *)
ServePublic(p) ==
    /\ pc[p] = "idle" /\ Room /\ May("elsewhere")
    /\ \E route \in RoutesOf("elsewhere") :
        /\ StateSkips \cup {"Public", "PublicPermission"} \subseteq route.marks
        /\ Serving(p, "elsewhere", route, Nil, NoArg)
    /\ Goto(p, "elsewhere")
    /\ UNCHANGED <<fixed, people, catalogue, audits>>

Authenticate(p) ==
    /\ pc[p] = "idle" /\ Room
    /\ \E op \in scenario \cap Ops : \E route \in RoutesOf(op), arg \in Inputs(op), token \in tokens,
          emailVerified, csrf \in BOOLEAN :
        LET caller == Caller(token, emailVerified, csrf) IN
        /\ "Public" \notin route.marks
        /\ IF /\ EmailVerifiedGuard(route, caller) /\ UserStateGuard(route, caller)
              /\ TenantStateGuard(route, caller) /\ CsrfGuard(route, caller)
              /\ NeedsPermission(route) => NamesPermission(route)
           THEN /\ Goto(p, IF NeedsPermission(route) THEN "user" ELSE FirstStep[op])
                /\ Serving(p, op, route, token, arg)
                /\ UNCHANGED recording
           ELSE Deny(p, route)
    /\ UNCHANGED <<fixed, people, catalogue, trail, suspended, accidents>>

(* No token, or its session is revoked or has expired. *)
AuthenticationFails(p) ==
    /\ pc[p] = "idle" /\ Room /\ May("suspend")
    /\ Deny(p, OpRoute["suspend"])
    /\ UNCHANGED <<fixed, people, catalogue, trail, suspended, accidents>>

(* UserHasPermissionUseCase: the role the user has now, ... *)
RoleForPermission(p) == user[loc[p].token.user].role
PermissionUser(p) ==
    /\ pc[p] = "user"
    /\ Holding(p, [loc[p] EXCEPT !.role = RoleForPermission(p)])
    /\ Goto(p, "permissions")
    /\ UNCHANGED <<fixed, people, catalogue, audits>>

(* ... and then the permissions that role has now. *)
PermissionRole(p) ==
    /\ pc[p] = "permissions"
    /\ IF <<loc[p].role, loc[p].route.permission>> \in grants
       THEN /\ Goto(p, FirstStep[loc[p].op])
            /\ UNCHANGED <<loc, recording>>
       ELSE Deny(p, loc[p].route)
    /\ UNCHANGED <<fixed, people, catalogue, trail, suspended, accidents>>

-----------------------------------------------------------------------------
(* What a handler sees: TenantInterceptor and the extended Prisma client *)

Unfiltered(p) == loc[p].token.role = "PLATFORM_ADMIN"
Home(p) == user[loc[p].token.user].tenant
Sees(p, t) == Unfiltered(p) \/ t = Home(p)

(* Role and Permission are filtered by a column their tables do not have: *)
(* the query of a filtered client throws.                                  *)
CatalogueReadable(p) == Unfiltered(p)

-----------------------------------------------------------------------------
(* Identity: suspend *)

(* Variant: the actor's role is the one the token speaks of. *)
ActorRoleOfToken(p) == loc[p].token.role
ActorRole(p) == user[loc[p].token.user].role
SuspendActor(p) ==
    /\ pc[p] = "actor"
    /\ Holding(p, [loc[p] EXCEPT !.role = ActorRole(p)])
    /\ Goto(p, "target")
    /\ UNCHANGED <<fixed, people, catalogue, audits>>

Visible(p, u) == user[u] # Nil /\ Sees(p, user[u].tenant)

SuspendTarget(p) ==
    /\ pc[p] = "target"
    /\ IF Visible(p, loc[p].arg.user)
       THEN /\ Holding(p, [loc[p] EXCEPT !.row = user[loc[p].arg.user]])
            /\ Goto(p, "writeSuspension")
            /\ UNCHANGED recording
       ELSE Record(p, "FAILED") /\ Finish(p)
    /\ UNCHANGED <<fixed, people, catalogue, trail, suspended, accidents>>

(* canSuspend with the roles that were read, and target.suspend(). *)
MaySuspend(p) ==
    /\ CatalogueReadable(p)
    /\ Outranks(loc[p].role, loc[p].row.role)
    /\ loc[p].row.status = "ACTIVE"

(* An answer of the database that is lost makes recordWithFn audit a FAILED. *)
SuspendWrite(p) ==
    /\ pc[p] = "writeSuspension"
    /\ MaySuspend(p) /\ Unchanged(user[loc[p].arg.user], loc[p].row)
    /\ loc[p].row.version < MaxVersion
    /\ user' = [user EXCEPT ![loc[p].arg.user] = Bumped(Suspended(loc[p].row))]
    /\ suspended' = suspended \cup {p}
    /\ \/ Record(p, "SUCCESS") /\ UNCHANGED accidents
       \/ CanFail("answer") /\ Record(p, "FAILED") /\ accidents' = accidents \cup {p}
    /\ Overtake(p) /\ Finish(p)
    /\ UNCHANGED <<fixed, tenant, grants, catalogue, trail>>

(* Variant: the event is written before the suspension is tried. *)
SuspendFailsUnheard(p) ==
    /\ pc[p] = "writeSuspension"
    /\ \/ ~ MaySuspend(p) \/ ~ Unchanged(user[loc[p].arg.user], loc[p].row)
       \/ CanFail("database")
    /\ Record(p, "SUCCESS") /\ Finish(p)
    /\ UNCHANGED <<fixed, people, catalogue, trail, suspended, accidents>>
SuspendFails(p) ==
    /\ pc[p] = "writeSuspension"
    /\ \/ ~ MaySuspend(p) \/ ~ Unchanged(user[loc[p].arg.user], loc[p].row)
       \/ CanFail("database")
    /\ Record(p, "FAILED") /\ Finish(p)
    /\ UNCHANGED <<fixed, people, catalogue, trail, suspended, accidents>>

(* The event is written when the answer may long be out, or it is lost. *)
WriteAuditEvent(p) ==
    /\ recording[p] # Nil
    /\ Record(p, Nil)
    /\ \/ trail' = [trail EXCEPT ![p] = recording[p]] /\ UNCHANGED accidents
       \/ CanFail("audit") /\ accidents' = accidents \cup {p} /\ UNCHANGED trail
    /\ UNCHANGED <<fixed, people, catalogue, suspended, pc, loc>>

-----------------------------------------------------------------------------
(* Identity: reactivate, change the role, and the users that invitations bring *)

FindUser(p) ==
    /\ pc[p] = "findUser"
    /\ IF Visible(p, loc[p].arg.user)
       THEN /\ Holding(p, [loc[p] EXCEPT !.row = user[loc[p].arg.user]])
            /\ Goto(p, IF loc[p].op = "reactivate" THEN "writeReactivation" ELSE "validateRole")
       ELSE Finish(p)
    /\ UNCHANGED <<fixed, people, catalogue, audits>>

(* repository.update: of the row that was read, and of no other. *)
UpdateUser(p, row) ==
    /\ IF Unchanged(user[loc[p].arg.user], loc[p].row)
       THEN /\ loc[p].row.version < MaxVersion
            /\ user' = [user EXCEPT ![loc[p].arg.user] = Bumped(row)]
            /\ Overtake(p)
       ELSE UNCHANGED <<user, overtaken>>
    /\ Finish(p)
    /\ UNCHANGED <<fixed, tenant, grants, catalogue, audits>>

ReactivateWrite(p) ==
    /\ pc[p] = "writeReactivation"
    /\ loc[p].row.status = "SUSPENDED"
    /\ UpdateUser(p, Reactivated(loc[p].row))

ReactivateRefused(p) ==
    /\ pc[p] = "writeReactivation"
    /\ loc[p].row.status = "ACTIVE"
    /\ Finish(p)
    /\ UNCHANGED <<fixed, people, catalogue, audits>>

(* validateForTenant: the roles associated with the tenant now. *)
(* Variant: it is enough that the role exists. *)
RoleExists(r, t) == role[r] # Nil
EnabledFor(r, t) == <<r, t>> \in enabled

ChangeRoleValidate(p) ==
    /\ pc[p] = "validateRole"
    /\ IF /\ CatalogueReadable(p) /\ role[loc[p].arg.role] # Nil
          /\ EnabledFor(loc[p].arg.role, loc[p].row.tenant)
       THEN Goto(p, "writeRole") /\ UNCHANGED loc
       ELSE Finish(p)
    /\ UNCHANGED <<fixed, people, catalogue, audits>>

ChangeRoleWrite(p) ==
    /\ pc[p] = "writeRole"
    /\ UpdateUser(p, [loc[p].row EXCEPT !.role = loc[p].arg.role])

(* The tenant is the token's; the role is read through role_tenants, which *)
(* is not filtered.                                                         *)
InviteValidate(p) ==
    /\ pc[p] = "invite"
    /\ IF EnabledFor(loc[p].arg.role, Home(p))
       THEN Goto(p, "insertInvitation") /\ UNCHANGED loc
       ELSE Finish(p)
    /\ UNCHANGED <<fixed, people, catalogue, audits>>

InviteInsert(p) ==
    /\ pc[p] = "insertInvitation"
    /\ invited' = invited \cup {<<loc[p].arg.role, Home(p)>>}
    /\ Finish(p)
    /\ UNCHANGED <<fixed, people, role, permission, enabled, configuration, withdrawn, audits>>

(* The registration saga stores the user of an invitation. *)
Register(u) ==
    /\ user[u] = Nil
    /\ \E pair \in invited : user' = [user EXCEPT ![u] = NewUser(pair[2], pair[1])]
    /\ UNCHANGED <<fixed, tenant, grants, overtaken, catalogue, audits, pc, loc>>

(* Login and refresh: the token takes the role along. *)
IssueToken(u) ==
    /\ May("login") /\ user[u] # Nil
    /\ tokens' = tokens \cup {[user |-> u, role |-> user[u].role]}
    /\ UNCHANGED <<scenario, people, catalogue, audits, pc, loc>>

-----------------------------------------------------------------------------
(* Tenants, whose table is not filtered *)

CreateTenant(p) ==
    /\ pc[p] = "createTenant"
    /\ tenant[loc[p].arg.tenant] = Nil
    /\ \E type \in {"PLATFORM", "CUSTOMER"} :
        tenant' = [tenant EXCEPT ![loc[p].arg.tenant] = NewTenant(type)]
    /\ Finish(p)
    /\ UNCHANGED <<fixed, user, grants, overtaken, catalogue, audits>>

FindTenant(p) ==
    /\ pc[p] = "findTenant"
    /\ IF tenant[loc[p].arg.tenant] # Nil
       THEN /\ Holding(p, [loc[p] EXCEPT !.row = tenant[loc[p].arg.tenant]])
            /\ Goto(p, "writeTenant")
       ELSE Finish(p)
    /\ UNCHANGED <<fixed, people, catalogue, audits>>

(* update takes a name, suspend an active tenant, reactivate a suspended one. *)
AllowedOn(op, row) == CASE op = "updateTenant" -> TRUE
                        [] op = "suspendTenant" -> row.status = "ACTIVE"
                        [] op = "reactivateTenant" -> row.status = "SUSPENDED"
Changed(op, row) == CASE op = "updateTenant" -> row
                      [] op = "suspendTenant" -> Suspended(row)
                      [] op = "reactivateTenant" -> Reactivated(row)

TenantWrite(p) ==
    /\ pc[p] = "writeTenant"
    /\ IF /\ AllowedOn(loc[p].op, loc[p].row)
          /\ Unchanged(tenant[loc[p].arg.tenant], loc[p].row)
       THEN /\ loc[p].row.version < MaxVersion
            /\ tenant' = [tenant EXCEPT ![loc[p].arg.tenant] = Bumped(Changed(loc[p].op, loc[p].row))]
            /\ Overtake(p)
       ELSE UNCHANGED <<tenant, overtaken>>
    /\ Finish(p)
    /\ UNCHANGED <<fixed, user, grants, catalogue, audits>>

-----------------------------------------------------------------------------
(* Authorization *)

(* existsByCode and the insert, which the unique code makes one step. *)
CreateRole(p) ==
    /\ pc[p] = "createRole"
    /\ CatalogueReadable(p) /\ role[loc[p].arg.role] = Nil
    /\ \E scope \in Scopes : role' = [role EXCEPT ![loc[p].arg.role] = NewRole(scope)]
    /\ Finish(p)
    /\ UNCHANGED <<fixed, people, permission, associations, audits>>

FindRole(p) ==
    /\ pc[p] = "findRole"
    /\ IF CatalogueReadable(p) /\ role[loc[p].arg.role] # Nil
       THEN /\ Holding(p, [loc[p] EXCEPT !.row = role[loc[p].arg.role]])
            /\ Goto(p, "writeRoleRow")
       ELSE Finish(p)
    /\ UNCHANGED <<fixed, people, catalogue, audits>>

RoleWrite(p) ==
    /\ pc[p] = "writeRoleRow"
    /\ IF Unchanged(role[loc[p].arg.role], loc[p].row)
       THEN /\ loc[p].row.version < MaxVersion
            /\ role' = [role EXCEPT ![loc[p].arg.role] = Bumped(loc[p].row)]
       ELSE UNCHANGED role
    /\ Finish(p)
    /\ UNCHANGED <<fixed, people, permission, associations, audits>>

(* As with a role, but the row carries no version: the last write stays. *)
CreatePermission(p) ==
    LET c == loc[p].arg.permission IN
    /\ pc[p] = "createPermission"
    /\ CatalogueReadable(p) /\ permission[c] = Nil
    /\ \E scope \in Scopes : permission' = [permission EXCEPT ![c] = NewPermission(scope)]
    /\ Finish(p)
    /\ UNCHANGED <<fixed, people, role, associations, audits>>

FindPermission(p) ==
    LET c == loc[p].arg.permission IN
    /\ pc[p] = "findPermission"
    /\ IF CatalogueReadable(p) /\ permission[c] # Nil
       THEN Holding(p, [loc[p] EXCEPT !.row = permission[c]]) /\ Goto(p, "writePermission")
       ELSE Finish(p)
    /\ UNCHANGED <<fixed, people, catalogue, audits>>

PermissionWrite(p) ==
    /\ pc[p] = "writePermission"
    /\ permission' = [permission EXCEPT ![loc[p].arg.permission] =
                        [loc[p].row EXCEPT !.description = "edited"]]
    /\ Finish(p)
    /\ UNCHANGED <<fixed, people, role, associations, audits>>

(* createMany and deleteMany of the transactions, after reads that throw in *)
(* a filtered client.                                                       *)
AssignPermissions(p) ==
    LET r == loc[p].arg.role  c == loc[p].arg.permission IN
    /\ pc[p] = "grants" /\ loc[p].op = "assignPermissions"
    /\ IF CatalogueReadable(p) /\ role[r] # Nil /\ permission[c] # Nil /\ PermissionFits(c, r)
       THEN grants' = grants \cup {<<r, c>>} /\ Overtake(p)
       ELSE UNCHANGED <<grants, overtaken>>
    /\ Finish(p)
    /\ UNCHANGED <<fixed, user, tenant, catalogue, audits>>

RemovePermissions(p) ==
    LET r == loc[p].arg.role  c == loc[p].arg.permission IN
    /\ pc[p] = "grants" /\ loc[p].op = "removePermissions"
    /\ IF CatalogueReadable(p) /\ role[r] # Nil /\ permission[c] # Nil
       THEN grants' = grants \ {<<r, c>>} /\ Overtake(p)
       ELSE UNCHANGED <<grants, overtaken>>
    /\ Finish(p)
    /\ UNCHANGED <<fixed, user, tenant, catalogue, audits>>

AssociateRoles(p) ==
    LET r == loc[p].arg.role  t == loc[p].arg.tenant IN
    /\ pc[p] = "associations" /\ loc[p].op = "associate"
    /\ IF /\ IsPlatformTenant(Home(p)) /\ tenant[t] # Nil
          /\ CatalogueReadable(p) /\ role[r] # Nil /\ RoleFits(r, t)
       THEN enabled' = enabled \cup {<<r, t>>}
       ELSE UNCHANGED enabled
    /\ Finish(p)
    /\ UNCHANGED <<fixed, people, role, permission, configuration, invited, withdrawn, audits>>

(* Nobody asks who holds the role. *)
DisassociateRoles(p) ==
    LET r == loc[p].arg.role  t == loc[p].arg.tenant IN
    /\ pc[p] = "associations" /\ loc[p].op = "disassociate"
    /\ IF IsPlatformTenant(Home(p)) /\ tenant[t] # Nil
       THEN enabled' = enabled \ {<<r, t>>} /\ withdrawn' = withdrawn \cup {<<r, t>>}
       ELSE UNCHANGED <<enabled, withdrawn>>
    /\ Finish(p)
    /\ UNCHANGED <<fixed, people, role, permission, configuration, invited, audits>>

(* A tenant's own name for a role: created for the tenant of the token; *)
(* updated and deleted by id, that is, by tenant and role.              *)
ConfigurationOf(p) ==
    <<IF loc[p].op = "createConfiguration" THEN Home(p) ELSE loc[p].arg.tenant, loc[p].arg.role>>

FindConfiguration(p) ==
    LET c == ConfigurationOf(p)
        found == configuration[c] # Nil /\ Sees(p, c[1]) IN
    /\ pc[p] = "findConfiguration"
    /\ CASE loc[p].op = "createConfiguration" /\ ~ found
                /\ CatalogueReadable(p) /\ role[c[2]] # Nil ->
                Goto(p, "insertConfiguration") /\ UNCHANGED loc
         [] loc[p].op = "updateConfiguration" /\ found ->
                /\ Holding(p, [loc[p] EXCEPT !.row = configuration[c]])
                /\ Goto(p, "writeConfiguration")
         [] loc[p].op = "deleteConfiguration" /\ found ->
                Goto(p, "removeConfiguration") /\ UNCHANGED loc
         [] OTHER -> Finish(p)
    /\ UNCHANGED <<fixed, people, catalogue, audits>>

(* The pair of tenant and role is unique. *)
InsertConfiguration(p) ==
    LET c == ConfigurationOf(p) IN
    /\ pc[p] = "insertConfiguration"
    /\ IF configuration[c] = Nil
       THEN configuration' = [configuration EXCEPT ![c] = [version |-> 0]]
       ELSE UNCHANGED configuration
    /\ Finish(p)
    /\ UNCHANGED <<fixed, people, role, permission, enabled, invited, withdrawn, audits>>

WriteConfiguration(p) ==
    LET c == ConfigurationOf(p) IN
    /\ pc[p] = "writeConfiguration"
    /\ IF Unchanged(configuration[c], loc[p].row)
       THEN /\ loc[p].row.version < MaxVersion
            /\ configuration' = [configuration EXCEPT ![c] = Bumped(loc[p].row)]
       ELSE UNCHANGED configuration
    /\ Finish(p)
    /\ UNCHANGED <<fixed, people, role, permission, enabled, invited, withdrawn, audits>>

RemoveConfiguration(p) ==
    /\ pc[p] = "removeConfiguration"
    /\ configuration' = [configuration EXCEPT ![ConfigurationOf(p)] = Nil]
    /\ Finish(p)
    /\ UNCHANGED <<fixed, people, role, permission, enabled, invited, withdrawn, audits>>

-----------------------------------------------------------------------------
(* Specification *)

Next ==
    \/ \E p \in Requests :
        \/ ServePublic(p) \/ Authenticate(p) \/ AuthenticationFails(p)
        \/ PermissionUser(p) \/ PermissionRole(p)
        \/ SuspendActor(p) \/ SuspendTarget(p) \/ SuspendWrite(p) \/ SuspendFails(p)
        \/ WriteAuditEvent(p)
        \/ FindUser(p) \/ ReactivateWrite(p) \/ ReactivateRefused(p)
        \/ ChangeRoleValidate(p) \/ ChangeRoleWrite(p)
        \/ InviteValidate(p) \/ InviteInsert(p)
        \/ CreateTenant(p) \/ FindTenant(p) \/ TenantWrite(p)
        \/ CreateRole(p) \/ FindRole(p) \/ RoleWrite(p)
        \/ CreatePermission(p) \/ FindPermission(p) \/ PermissionWrite(p)
        \/ AssignPermissions(p) \/ RemovePermissions(p)
        \/ AssociateRoles(p) \/ DisassociateRoles(p)
        \/ FindConfiguration(p) \/ InsertConfiguration(p)
        \/ WriteConfiguration(p) \/ RemoveConfiguration(p)
    \/ \E u \in Users : Register(u) \/ IssueToken(u)

Spec == Init /\ [][Next]_vars

-----------------------------------------------------------------------------
(* Properties *)

Holds(u, c) == <<user[u].role, c>> \in grants

(* Whoever holds a permission of scope PLATFORM, and whoever carries a      *)
(* token that switches the tenant filter and the TenantStateGuard off,      *)
(* belongs to a tenant of type PLATFORM.  No single check says so: the      *)
(* scope checks of assignPermissions and associate, validateForTenant of    *)
(* change-role and invite, and what a scope can never do, together.         *)
PlatformPowerStaysHome ==
    /\ \A u \in Users : \A c \in Permissions :
        user[u] # Nil /\ Holds(u, c) /\ IsPlatformPermission(c) => IsPlatformTenant(user[u].tenant)
    /\ \A token \in tokens :
        token.role = "PLATFORM_ADMIN" => IsPlatformTenant(user[token.user].tenant)

(* A role that a user holds is one his tenant has, unless it was taken      *)
(* from the tenant some time: disassociate does not look at its users, and  *)
(* an invitation outlives the association it was checked against.           *)
HeldRolesWereEnabled ==
    \A u \in Users : user[u] # Nil =>
        <<user[u].role, user[u].tenant>> \in enabled \cup withdrawn

(* What the guards found still holds while a handler runs, unless another   *)
(* request changed users, tenants or permissions meanwhile: the bearer is   *)
(* active, so is his tenant unless the token exempts him, and he has the    *)
(* permission.  Without them a handler runs on the public routes, logout    *)
(* and the request of a verification alone; without a permission, the       *)
(* quota's as well.                                                         *)
ForAnySession == {AuthRoutes.logout, EmailVerificationRoutes.requestVerification}
Authorised(route, token) ==
    /\ user[token.user].status = "ACTIVE"
    /\ token.role = "PLATFORM_ADMIN" \/ tenant[user[token.user].tenant].status = "ACTIVE"
    /\ route = FileQuotaRoutes.get \/ Holds(token.user, route.permission)
HandlersRunAuthorised ==
    \A p \in Requests : pc[p] \in Handlers /\ p \notin overtaken =>
        \/ loc[p].token = Nil
        \/ loc[p].route \in ForAnySession
        \/ Authorised(loc[p].route, loc[p].token)

(* The trail of suspensions is true and, failures of the trail aside,       *)
(* complete: a SUCCESS was a suspension; a FAILED or DENIED was none unless  *)
(* the database's answer was lost; a suspension has its event, written or   *)
(* about to be.                                                             *)
TrailTellsTheTruth ==
    \A p \in Requests :
        /\ trail[p] = "SUCCESS" => p \in suspended
        /\ trail[p] \in {"FAILED", "DENIED"} => p \notin suspended \ accidents
        /\ p \in suspended \ accidents => "SUCCESS" \in {trail[p], recording[p]}

(* A user is suspended by a request whose actor outranked him with the role *)
(* the target has at that moment and the one the actor had when the use     *)
(* case read him, whatever the token says.                                  *)
SuspendedByBetters ==
    [][\A u \in Users :
        user[u] # Nil /\ user[u].status = "ACTIVE" /\ user'[u].status = "SUSPENDED" =>
            \E p \in Requests :
                /\ p \in suspended' \ suspended
                /\ Outranks(loc[p].role, user[u].role)
                /\ p \notin overtaken =>
                    Outranks(user[loc[p].token.user].role, user[u].role)]_vars

(* A versioned row is only overwritten by a request that read the very row  *)
(* it replaces: nothing written in between is lost, and no role or status   *)
(* comes back.                                                              *)
Replaced(table) == {x \in DOMAIN table : table[x] # Nil}
NoStaleWrite ==
    [][/\ \A u \in Replaced(user) : user'[u] # user[u] =>
            \E p \in Requests : pc'[p] # pc[p] /\ loc[p].row = user[u]
       /\ \A t \in Replaced(tenant) : tenant'[t] # tenant[t] =>
            \E p \in Requests : pc'[p] # pc[p] /\ loc[p].row = tenant[t]
       /\ \A r \in Replaced(role) : role'[r] # role[r] =>
            \E p \in Requests : pc'[p] # pc[p] /\ loc[p].row = role[r]]_vars
=============================================================================
