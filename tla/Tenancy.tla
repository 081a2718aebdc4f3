------------------------------ MODULE Tenancy -------------------------------
(***************************************************************************)
(* The table tenants, as the API looks at it.                              *)
(***************************************************************************)
CONSTANTS
    Tenants,       \* tenants.id
    NoTenant,      \* no tenant found; app.current_tenant_id not set
    Orgs,          \* what org_slug may say
    SlugOf,        \* tenants.slug
    Active         \* the tenants whose status is 'active'

ASSUME TenancyAssumption ==
    /\ NoTenant \notin Tenants
    /\ SlugOf \in [Tenants -> Orgs]
    /\ Active \subseteq Tenants

\* tenants.slug is UNIQUE.
ASSUME SlugAssumption == \A s, t \in Tenants : SlugOf[s] = SlugOf[t] => s = t
=============================================================================
