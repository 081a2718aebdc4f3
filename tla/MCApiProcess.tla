---------------------------- MODULE MCApiProcess ----------------------------
(***************************************************************************)
(* Instances of ApiProcess for TLC.                                        *)
(***************************************************************************)
EXTENDS ApiProcess

CONSTANTS a, b, read, upload, r1, r2

CallersDef == Requests \cup Probes
TwoTenants == [t \in Tenants |-> IF t = a THEN "org-a" ELSE "org-b"]

\* A token of each tenant, one too weak for the upload, one that does not verify.
SomeTokens == {"staff-a", "viewer-b", "none"}
TwoVerified == {"staff-a", "viewer-b"}
TokenOrg == [t \in TwoVerified |-> IF t = "staff-a" THEN "org-a" ELSE "org-b"]
TokenRoles == [t \in TwoVerified |-> IF t = "staff-a" THEN {"hr-staff", "offline_access"} ELSE {"viewer"}]
RouteRoles == [route \in Routes |-> IF route = read THEN {"viewer"} ELSE {"hr-staff"}]
RouteTransactions == [route \in Routes |-> IF route = read THEN 1 ELSE 2]

\* An upload, allowed or not, beside a read of the same tenant or of the other.
Asked(token, route) == [token |-> token, route |-> route]
SomeCalls == [r \in Requests |->
    IF r = r1 THEN {Asked("staff-a", upload), Asked("viewer-b", upload), Asked("none", read)}
    ELSE {Asked("staff-a", read), Asked("viewer-b", read)}]
=============================================================================
