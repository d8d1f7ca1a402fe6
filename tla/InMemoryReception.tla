------------------------- MODULE InMemoryReception -------------------------
(***************************************************************************)
(* Tenants, API keys, received documents and events of InMemoryStore, the  *)
(* store that the tests of the use cases run on: each operation is one     *)
(* action, under its mutex.  Tenancy and Reception, the statements of the  *)
(* adapter of PostgreSQL, are compared with it.                            *)
(***************************************************************************)
EXTENDS Naturals

CONSTANTS Tenant, Nit, Key, DocId, Row, None

VARIABLES nit, owner, revoked, audit, documents, events

store == <<nit, owner, revoked, audit, documents, events>>

Init ==
    /\ nit = [t \in Tenant |-> None]
    /\ owner = [k \in Key |-> None]
    /\ revoked = {}
    /\ audit = [e \in DOMAIN audit |-> 0]
    /\ documents = [d \in DocId |-> None]
    /\ events = [d \in DocId |-> [accepted |-> 0, rejected |-> 0]]

Push(action, id) == audit' = [audit EXCEPT ![<<action, id>>] = @ + 1]

\* create_tenant
CreateTenant(t, n) ==
    /\ \A u \in Tenant : nit[u] # n
    /\ nit[t] = None
    /\ nit' = [nit EXCEPT ![t] = n]
    /\ Push("tenant.created", t)
    /\ UNCHANGED <<owner, revoked, documents, events>>

\* create_api_key
CreateApiKey(t, k) ==
    /\ owner[k] = None
    /\ owner' = [owner EXCEPT ![k] = t]
    /\ Push("api_key.created", k)
    /\ UNCHANGED <<nit, revoked, documents, events>>

\* revoke_api_key
RevokeApiKey(k) ==
    /\ owner[k] # None /\ k \notin revoked
    /\ revoked' = revoked \cup {k}
    /\ Push("api_key.revoked", k)
    /\ UNCHANGED <<nit, owner, documents, events>>

\* insert_inbound: no document of the tenant has issuer, prefix and number.
InsertInbound(d, row) ==
    /\ documents[d] = None
    /\ ~ \E e \in DocId :
           /\ documents[e] # None
           /\ documents[e].tenant = row.tenant /\ documents[e].issuer = row.issuer
           /\ documents[e].prefix = row.prefix /\ documents[e].number = row.number
    /\ documents' = [documents EXCEPT ![d] = row]
    /\ UNCHANGED <<nit, owner, revoked, audit, events>>

\* record_event
RecordEvent(d, s) ==
    /\ documents[d] # None
    /\ events' = [events EXCEPT ![d][s] = @ + 1]
    /\ UNCHANGED <<nit, owner, revoked, audit, documents>>

Next ==
    \/ \E t \in Tenant, n \in Nit : CreateTenant(t, n)
    \/ \E t \in Tenant, k \in Key : CreateApiKey(t, k)
    \/ \E k \in Key : RevokeApiKey(k)
    \/ \E d \in DocId :
          \/ \E row \in Row : InsertInbound(d, row)
          \/ \E s \in {"accepted", "rejected"} : RecordEvent(d, s)

Spec == Init /\ [][Next]_store
=============================================================================
