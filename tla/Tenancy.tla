------------------------------ MODULE Tenancy ------------------------------
(***************************************************************************)
(* Tenants, their API keys and the log of administration: AdminService     *)
(* over the transactions of PgStore, and the lookup of a key by every      *)
(* request.  Where two calls may meet on a row or on a unique index the    *)
(* statement that takes it and the COMMIT are two steps.  Requests that    *)
(* fail validation change nothing and are left out.                        *)
(***************************************************************************)
EXTENDS Naturals, FiniteSets

CONSTANTS
    Tenant,   \* ids of tenants
    Nit,      \* tax ids
    Key,      \* API keys
    Call,     \* calls of the administrators under way at once
    None      \* no row, no value

ASSUME TenancyAssumption == None \notin Tenant \cup Nit \cup Key

VARIABLES
    nit,      \* tenants.tax_id
    owner,    \* api_keys.tenant_id
    revoked,  \* api_keys with a revoked_at
    audit,    \* admin_audit_log: how many times each entry is there
    call      \* the open transaction of each call

tenantRows  == <<nit, owner, revoked, audit>>
tenancyVars == <<tenantRows, call>>

Entry ==
    ({"tenant.created"} \X Tenant)
        \cup ({"api_key.created", "api_key.revoked"} \X Key)

TenancyInit ==
    /\ nit = [t \in Tenant |-> None]
    /\ owner = [k \in Key |-> None]
    /\ revoked = {}
    /\ audit = [e \in Entry |-> 0]
    /\ call = [c \in Call |-> [kind |-> "none", id |-> None, nit |-> None]]

\* insert_audit, in the transaction of what it tells of.
InsertAudit(action, id) == audit' = [audit EXCEPT ![<<action, id>>] = @ + 1]

Idle(c) == call[c].kind = "none"

End(c) == call' = [call EXCEPT ![c] = [kind |-> "none", id |-> None, nit |-> None]]

\* create_tenant: INSERT, which waits for an open transaction with the same
\* tax id and conflicts with a committed one.
InsertTenant(c, t, n) ==
    /\ Idle(c)
    /\ nit[t] = None /\ \A d \in Call : call[d].id # t
    /\ \A u \in Tenant : nit[u] # n
    /\ \A d \in Call : call[d].nit # n
    /\ call' = [call EXCEPT ![c] = [kind |-> "tenant", id |-> t, nit |-> n]]
    /\ UNCHANGED tenantRows

CommitTenant(c) ==
    /\ call[c].kind = "tenant"
    /\ nit' = [nit EXCEPT ![call[c].id] = call[c].nit]
    /\ InsertAudit("tenant.created", call[c].id)
    /\ End(c)
    /\ UNCHANGED <<owner, revoked>>

\* create_api_key: the tenant is there, and the key is a new one.
CreateApiKey(t, k) ==
    /\ nit[t] # None
    /\ owner[k] = None
    /\ owner' = [owner EXCEPT ![k] = t]
    /\ InsertAudit("api_key.created", k)
    /\ UNCHANGED <<nit, revoked, call>>

\* Mutant of UpdateRevoked: the key is looked at before its row is locked.
UpdateRevokedLater(c, k) ==
    /\ Idle(c)
    /\ owner[k] # None /\ k \notin revoked
    /\ call' = [call EXCEPT ![c] = [kind |-> "revoke", id |-> k, nit |-> None]]
    /\ UNCHANGED tenantRows

\* revoke_api_key: UPDATE ... WHERE revoked_at IS NULL, which waits for an
\* open transaction on the row and then finds no row, or the one it leaves.
UpdateRevoked(c, k) ==
    /\ Idle(c)
    /\ owner[k] # None /\ k \notin revoked
    /\ \A d \in Call : call[d].id # k
    /\ call' = [call EXCEPT ![c] = [kind |-> "revoke", id |-> k, nit |-> None]]
    /\ UNCHANGED tenantRows

CommitRevoked(c) ==
    /\ call[c].kind = "revoke"
    /\ revoked' = revoked \cup {call[c].id}
    /\ InsertAudit("api_key.revoked", call[c].id)
    /\ End(c)
    /\ UNCHANGED <<nit, owner>>

\* A statement fails, or the process dies: the transaction is rolled back.
Rollback(c) ==
    /\ ~Idle(c)
    /\ End(c)
    /\ UNCHANGED tenantRows

\* find_by_api_key_hash
FindByApiKeyHash(k) == IF k \in revoked THEN None ELSE owner[k]

TenancyNext ==
    \/ \E c \in Call :
          \/ \E t \in Tenant, n \in Nit : InsertTenant(c, t, n)
          \/ \E k \in Key : UpdateRevoked(c, k)
          \/ CommitTenant(c) \/ CommitRevoked(c) \/ Rollback(c)
    \/ \E t \in Tenant, k \in Key : CreateApiKey(t, k)
=============================================================================
