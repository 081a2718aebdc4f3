------------------------------- MODULE Guards -------------------------------
(***************************************************************************)
(* The three guards in front of every route but the health probes:         *)
(* AuthGuard, TenantMiddleware (a guard too) and RbacGuard, in this order. *)
(* A token is what jwtVerify and the check of typ make of the header; its  *)
(* claims are functions of it.                                             *)
(***************************************************************************)
EXTENDS Tenancy, Naturals, FiniteSetsExt

CONSTANTS
    Tokens,        \* what a request may carry in its authorization header
    Verified,      \* the tokens that are access tokens, signed, for this API, not expired
    NoOrg,         \* a token without the claim org_slug
    OrgOf,         \* org_slug of a verified token
    RolesOf,       \* realm_access.roles of a verified token
    Routes,        \* the routes of the API
    RequiredBy     \* the argument of @Roles on a route

Role == {"viewer", "hr-staff", "hr-manager", "tenant-admin", "platform-admin"}

ASSUME GuardsAssumption ==
    /\ Verified \subseteq Tokens
    /\ NoOrg \notin Orgs
    /\ OrgOf \in [Verified -> Orgs \cup {NoOrg}]
    /\ RequiredBy \in [Routes -> SUBSET Role]

ROLE_HIERARCHY ==
    [role \in Role |->
        CASE role = "platform-admin" -> 5
          [] role = "tenant-admin" -> 4
          [] role = "hr-manager" -> 3
          [] role = "hr-staff" -> 2
          [] role = "viewer" -> 1]

\* TenantResolver's select: the active tenant of that slug. No row level security applies,
\* it runs before there is a tenant.
Resolved(token) == {t \in Active : SlugOf[t] = OrgOf[token]}

\* Keycloak's own roles have no level.
UserLevel(token) == Max({0} \cup {ROLE_HIERARCHY[role] : role \in RolesOf[token] \cap Role})

MinRequiredLevel(route) == Min({ROLE_HIERARCHY[role] : role \in RequiredBy[route]})

\* Mutant: any role of the API will do.
PermitsAnyRole(token, route) == RequiredBy[route] = {} \/ UserLevel(token) # 0

\* RbacGuard; a route may require nothing.
Permits(token, route) ==
    \/ RequiredBy[route] = {}
    \/ UserLevel(token) # 0 /\ UserLevel(token) >= MinRequiredLevel(route)

\* What entitles a request to work on the rows of a tenant, as the decorator and the guards
\* describe it: a verified token of that active tenant, and one of the roles that the route
\* names or a higher one.
Entitled(token, route, tenant) ==
    /\ token \in Verified
    /\ tenant \in Active
    /\ SlugOf[tenant] = OrgOf[token]
    /\ RequiredBy[route] # {} =>
          \E own \in RolesOf[token] \cap Role, required \in RequiredBy[route] :
             ROLE_HIERARCHY[own] >= ROLE_HIERARCHY[required]
=============================================================================
