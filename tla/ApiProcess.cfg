CONSTANTS
    a = a  b = b  read = read  upload = upload  r1 = r1  r2 = r2
    Tenants = {a, b}
    NoTenant = NoTenant
    Orgs = {"org-a", "org-b"}
    SlugOf <- TwoTenants
    Active = {a, b}
    Tokens <- SomeTokens
    Verified <- TwoVerified
    NoOrg = NoOrg
    OrgOf <- TokenOrg
    RolesOf <- TokenRoles
    Routes = {read, upload}
    RequiredBy <- RouteRoles
    Clients = {c1, c2}
    NoClient = NoClient
    Callers <- CallersDef
    Requests = {r1, r2}
    Probes = {p1}
    TransactionsOf <- RouteTransactions
    Calls <- SomeCalls
    Enqueuing = {upload}
    MaxFaults = 1
    Impatient = {r1}
SPECIFICATION FairSpec
INVARIANTS TypeOK SeesItsTenantOnly PooledIsClean NoHoldAndWait ShutdownIsGraceful
PROPERTIES EveryRequestEnds EveryProbeEnds ShutdownEnds
CHECK_DEADLOCK FALSE
