-------------------------- MODULE ReceptionProofs --------------------------
(***************************************************************************)
(* Theorems about Reception and the Tenancy under it, for every set of     *)
(* tenants, keys, requests, documents and packages.                        *)
(***************************************************************************)
EXTENDS Reception, FiniteSetTheorems, TLAPS

-----------------------------------------------------------------------------
(* The invariants.                                                         *)

CallState ==
    [kind : {"none", "tenant", "revoke"}, id : Tenant \cup Key \cup {None},
     nit : Nit \cup {None}]

\* What the statement of an open transaction found is so until it commits.
Opened(c) ==
    /\ call[c].kind = "tenant" =>
          /\ call[c].id \in Tenant /\ call[c].nit \in Nit
          /\ nit[call[c].id] = None
          /\ \A u \in Tenant : nit[u] # call[c].nit
    /\ call[c].kind = "revoke" =>
          /\ call[c].id \in Key
          /\ owner[call[c].id] # None /\ call[c].id \notin revoked

\* Two open transactions are about two tenants, tax ids or keys.
Distinct(c, d) ==
    call[c].kind = call[d].kind /\ call[c].kind # "none" =>
       /\ call[c].id # call[d].id
       /\ call[c].kind = "tenant" => call[c].nit # call[d].nit

TenancyInv ==
    /\ nit \in [Tenant -> Nit \cup {None}]
    /\ owner \in [Key -> Tenant \cup {None}]
    /\ call \in [Call -> CallState]
    /\ \A c \in Call : Opened(c)
    /\ \A c, d \in Call : c # d => Distinct(c, d)
    /\ \A k \in Key : owner[k] # None => nit[owner[k]] # None

Status == {"accepted", "rejected"}

RequestState ==
    [pc : {"idle", "in", "event", "answered"}, tenant : Tenant \cup {None},
     doc : DocId \cup {None}, status : Status \cup {"none"}]

\* A document that was verified has a CUFE of the DIAN's, and a customer.
Validated(d) ==
    /\ documents[d] # None
    /\ documents[d].tenant \in Tenant /\ nit[documents[d].tenant] # None
    /\ documents[d].cufe.text \in DianCufe
    /\ documents[d].customer = nit[documents[d].tenant]

\* What an earlier step of a request found is so until its answer.
Served(r) ==
    /\ request[r].pc # "idle" =>
          request[r].tenant \in Tenant /\ nit[request[r].tenant] # None
    /\ request[r].pc \in {"event", "answered"} =>
          /\ request[r].doc \in DocId /\ documents[request[r].doc] # None
          /\ documents[request[r].doc].verified
    /\ request[r].pc = "answered" => request[r].status \in Status

RequestInv ==
    /\ documents \in [DocId -> Row \cup {None}]
    /\ request \in [Request -> RequestState]
    /\ \A r \in Request : Served(r)
    /\ \A d \in DocId : documents[d] # None /\ documents[d].verified => Validated(d)

\* Every event that the DIAN has is about a verified document.
DianInv ==
    /\ dian \in [DocId -> [Status -> Nat]]
    /\ \A d \in DocId :
          dian[d] # NoEvents => documents[d] # None /\ documents[d].verified

\* The requests that have an acceptance of the DIAN in memory.
Pending(d) ==
    {r \in Request : /\ request[r].pc = "answered" /\ request[r].status = "accepted"
                     /\ request[r].doc = d}

\* Of the acceptances of the DIAN, those recorded and those about to be are
\* never more than all.
Accounted(d) ==
    /\ told[d] <= events[d]["accepted"]
    /\ events[d]["accepted"] + Cardinality(Pending(d)) <= dian[d]["accepted"]

EventInv ==
    /\ events \in [DocId -> [Status -> Nat]]
    /\ told \in [DocId -> Nat]
    /\ \A d \in DocId : Accounted(d)

-----------------------------------------------------------------------------
(* Tenants and keys.                                                       *)

\* A tenant that exists keeps its tax id.
KeepsNits == \A t \in Tenant : nit[t] # None => nit'[t] = nit[t]

\* A call that begins or ends leaves the transactions of the others.
LEMMA CallEffect ==
    ASSUME TenancyInv, NEW c \in Call, NEW s \in CallState,
           call' = [call EXCEPT ![c] = s]
    PROVE  /\ call' \in [Call -> CallState] /\ call'[c] = s
           /\ \A d \in Call \ {c} : call'[d] = call[d]
  BY DEF TenancyInv

\* The end of an administrator's transaction frees its slot, and no other.
LEMMA EndEffect ==
    ASSUME TenancyInv, NEW c \in Call, End(c)
    PROVE  /\ call' \in [Call -> CallState] /\ call'[c].kind = "none"
           /\ \A d \in Call \ {c} : call'[d] = call[d]
  <1>1. [kind |-> "none", id |-> None, nit |-> None] \in CallState
    BY DEF CallState
  <1>2. QED
    BY <1>1, CallEffect DEF End

\* The invariant when only the transaction of c begins or ends.
LEMMA CallKeeps ==
    ASSUME TenancyInv, NEW c \in Call, call' \in [Call -> CallState],
           \A d \in Call \ {c} : call'[d] = call[d],
           UNCHANGED <<nit, owner, revoked>>, Opened(c)',
           \A d \in Call \ {c} : Distinct(c, d)'
    PROVE  TenancyInv' /\ KeepsNits
  <1>1. ASSUME NEW d \in Call, d # c
        PROVE  Opened(d)'
    <2>1. Opened(d) /\ call'[d] = call[d]
      BY <1>1 DEF TenancyInv
    <2>2. QED
      BY <2>1 DEF Opened
  <1>2. ASSUME NEW d \in Call, NEW e \in Call, d # e
        PROVE  Distinct(d, e)'
    <2>1. CASE d # c /\ e # c
      <3>1. Distinct(d, e) /\ call'[d] = call[d] /\ call'[e] = call[e]
        BY <1>2, <2>1 DEF TenancyInv
      <3>2. QED
        BY <3>1 DEF Distinct
    <2>2. CASE d = c
      BY <1>2, <2>2
    <2>3. CASE e = c
      <3>1. Distinct(e, d)'
        BY <1>2, <2>3
      <3>2. QED
        BY <3>1 DEF Distinct
    <2>4. QED
      BY <2>1, <2>2, <2>3
  <1>3. QED
    BY <1>1, <1>2 DEF TenancyInv, KeepsNits

\* The INSERT of a tenant is not visible before its COMMIT, and waits for
\* another of the same tax id.
LEMMA InsertTenantKeeps ==
    ASSUME TenancyInv, NEW c \in Call, NEW t \in Tenant, NEW n \in Nit,
           InsertTenant(c, t, n)
    PROVE  TenancyInv' /\ KeepsNits /\ UNCHANGED tenantRows
  <1>1. UNCHANGED <<nit, owner, revoked>> /\ UNCHANGED tenantRows
    BY DEF InsertTenant, tenantRows
  <1>2. [kind |-> "tenant", id |-> t, nit |-> n] \in CallState
    BY DEF CallState
  <1>3. /\ call' \in [Call -> CallState]
        /\ call'[c] = [kind |-> "tenant", id |-> t, nit |-> n]
        /\ \A d \in Call \ {c} : call'[d] = call[d]
    BY <1>2, CallEffect DEF InsertTenant
  <1>4. Opened(c)'
    BY <1>1, <1>3 DEF Opened, InsertTenant
  <1>5. \A d \in Call \ {c} : Distinct(c, d)'
    BY <1>3 DEF Distinct, InsertTenant
  <1>6. QED
    BY <1>1, <1>3, <1>4, <1>5, CallKeeps

\* The UPDATE of a key is not visible before its COMMIT.
LEMMA UpdateRevokedKeeps ==
    ASSUME TenancyInv, NEW c \in Call, NEW k \in Key, UpdateRevoked(c, k)
    PROVE  TenancyInv' /\ KeepsNits /\ UNCHANGED tenantRows
  <1>1. UNCHANGED <<nit, owner, revoked>> /\ UNCHANGED tenantRows
    BY DEF UpdateRevoked, tenantRows
  <1>2. [kind |-> "revoke", id |-> k, nit |-> None] \in CallState
    BY DEF CallState
  <1>3. /\ call' \in [Call -> CallState]
        /\ call'[c] = [kind |-> "revoke", id |-> k, nit |-> None]
        /\ \A d \in Call \ {c} : call'[d] = call[d]
    BY <1>2, CallEffect DEF UpdateRevoked
  <1>4. Opened(c)'
    BY <1>1, <1>3 DEF Opened, UpdateRevoked
  <1>5. \A d \in Call \ {c} : Distinct(c, d)'
    BY <1>3 DEF Distinct, UpdateRevoked
  <1>6. QED
    BY <1>1, <1>3, <1>4, <1>5, CallKeeps

\* A rollback leaves the tables as they were.
LEMMA RollbackKeeps ==
    ASSUME TenancyInv, NEW c \in Call, Rollback(c)
    PROVE  TenancyInv' /\ KeepsNits /\ UNCHANGED tenantRows
  <1>1. UNCHANGED <<nit, owner, revoked>> /\ UNCHANGED tenantRows
    BY DEF Rollback, tenantRows
  <1>2. /\ call' \in [Call -> CallState] /\ call'[c].kind = "none"
        /\ \A d \in Call \ {c} : call'[d] = call[d]
    BY EndEffect DEF Rollback
  <1>3. Opened(c)' /\ \A d \in Call \ {c} : Distinct(c, d)'
    BY <1>2 DEF Opened, Distinct
  <1>4. QED
    BY <1>1, <1>2, <1>3, CallKeeps

\* The tax id that a transaction took is still free when it commits.
LEMMA CommitTenantKeeps ==
    ASSUME TenancyInv, NEW c \in Call, CommitTenant(c)
    PROVE  /\ TenancyInv' /\ KeepsNits
           /\ UNCHANGED <<documents, events>> =>
                 \E t \in Tenant, n \in Nit : Memory!CreateTenant(t, n)
  <1>1. PICK t \in Tenant, n \in Nit :
           /\ t = call[c].id /\ n = call[c].nit /\ nit[t] = None
           /\ \A u \in Tenant : nit[u] # n
    BY DEF TenancyInv, Opened, CommitTenant
  <1>2. /\ nit' \in [Tenant -> Nit \cup {None}] /\ nit'[t] = n
        /\ \A u \in Tenant \ {t} : nit'[u] = nit[u]
        /\ UNCHANGED <<owner, revoked>>
    BY <1>1 DEF CommitTenant, TenancyInv
  <1>3. /\ call' \in [Call -> CallState] /\ call'[c].kind = "none"
        /\ \A d \in Call \ {c} : call'[d] = call[d]
    BY EndEffect DEF CommitTenant
  <1>4. ASSUME NEW d \in Call
        PROVE  Opened(d)'
    <2>1. CASE d = c
      BY <1>3, <2>1 DEF Opened
    <2>2. CASE d # c
      <3>1. Opened(d) /\ Distinct(c, d) /\ call'[d] = call[d]
        BY <1>3, <2>2 DEF TenancyInv
      <3>2. call[c].kind = "tenant"
        BY DEF CommitTenant
      <3>3. QED
        BY <1>1, <1>2, <3>1, <3>2 DEF Opened, Distinct
    <2>3. QED
      BY <2>1, <2>2
  <1>5. ASSUME NEW d \in Call, NEW e \in Call, d # e
        PROVE  Distinct(d, e)'
    <2>1. Distinct(d, e)
      BY <1>5 DEF TenancyInv
    <2>2. QED
      BY <1>3, <2>1 DEF Distinct
  <1>6. \A k \in Key : owner'[k] # None => nit'[owner'[k]] # None
    <2>1. n # None
      BY <1>1, TenancyAssumption
    <2>2. QED
      BY <1>2, <2>1 DEF TenancyInv
  <1>7. TenancyInv'
    BY <1>2, <1>3, <1>4, <1>5, <1>6 DEF TenancyInv
  <1>8. KeepsNits
    BY <1>1, <1>2 DEF KeepsNits
  <1>9. UNCHANGED <<documents, events>> => Memory!CreateTenant(t, n)
    BY <1>1 DEF CommitTenant, Memory!CreateTenant, InsertAudit, Memory!Push
  <1>10. QED
    BY <1>7, <1>8, <1>9

\* A revocation that commits is the revocation of the in-memory store.
LEMMA CommitRevokedKeeps ==
    ASSUME TenancyInv, NEW c \in Call, CommitRevoked(c)
    PROVE  /\ TenancyInv' /\ KeepsNits
           /\ UNCHANGED <<documents, events>> => \E k \in Key : Memory!RevokeApiKey(k)
  <1>1. PICK k \in Key : k = call[c].id /\ owner[k] # None /\ k \notin revoked
    BY DEF TenancyInv, Opened, CommitRevoked
  <1>2. revoked' = revoked \cup {k} /\ UNCHANGED <<nit, owner>>
    BY <1>1 DEF CommitRevoked
  <1>3. /\ call' \in [Call -> CallState] /\ call'[c].kind = "none"
        /\ \A d \in Call \ {c} : call'[d] = call[d]
    BY EndEffect DEF CommitRevoked
  <1>4. ASSUME NEW d \in Call
        PROVE  Opened(d)'
    <2>1. CASE d = c
      BY <1>3, <2>1 DEF Opened
    <2>2. CASE d # c
      <3>1. Opened(d) /\ Distinct(c, d) /\ call'[d] = call[d]
        BY <1>3, <2>2 DEF TenancyInv
      <3>2. call[c].kind = "revoke"
        BY DEF CommitRevoked
      <3>3. QED
        BY <1>1, <1>2, <3>1, <3>2 DEF Opened, Distinct
    <2>3. QED
      BY <2>1, <2>2
  <1>5. ASSUME NEW d \in Call, NEW e \in Call, d # e
        PROVE  Distinct(d, e)'
    <2>1. Distinct(d, e)
      BY <1>5 DEF TenancyInv
    <2>2. QED
      BY <1>3, <2>1 DEF Distinct
  <1>6. TenancyInv' /\ KeepsNits
    BY <1>2, <1>3, <1>4, <1>5 DEF TenancyInv, KeepsNits
  <1>7. UNCHANGED <<documents, events>> => Memory!RevokeApiKey(k)
    BY <1>1 DEF CommitRevoked, Memory!RevokeApiKey, InsertAudit, Memory!Push
  <1>8. QED
    BY <1>6, <1>7

\* The creation of a key is that of the in-memory store.
LEMMA CreateApiKeyKeeps ==
    ASSUME TenancyInv, NEW t \in Tenant, NEW k \in Key, CreateApiKey(t, k)
    PROVE  /\ TenancyInv' /\ KeepsNits
           /\ UNCHANGED <<documents, events>> => Memory!CreateApiKey(t, k)
  <1>1. /\ owner' \in [Key -> Tenant \cup {None}] /\ owner'[k] = t /\ nit[t] # None
        /\ \A j \in Key \ {k} : owner'[j] = owner[j]
        /\ owner[k] = None /\ UNCHANGED <<nit, revoked, call>>
    BY DEF CreateApiKey, TenancyInv
  <1>2. t # None
    BY TenancyAssumption
  <1>3. ASSUME NEW c \in Call
        PROVE  Opened(c)'
    <2>1. Opened(c)
      BY DEF TenancyInv
    <2>2. QED
      BY <1>1, <1>2, <2>1 DEF Opened
  <1>4. TenancyInv' /\ KeepsNits
    BY <1>1, <1>3 DEF TenancyInv, KeepsNits, Distinct
  <1>5. UNCHANGED <<documents, events>> => Memory!CreateApiKey(t, k)
    BY DEF CreateApiKey, Memory!CreateApiKey, InsertAudit, Memory!Push
  <1>6. QED
    BY <1>4, <1>5

\* Administrators that meet in the database move its tables as the mutex of
\* InMemoryStore would.
LEMMA TenancySteps ==
    ASSUME TenancyInv, TenancyNext
    PROVE  /\ TenancyInv' /\ KeepsNits
           /\ UNCHANGED <<documents, events>> => [Memory!Next]_(Memory!store)
  <1>1. ASSUME UNCHANGED tenantRows
        PROVE  UNCHANGED <<documents, events>> => UNCHANGED Memory!store
    BY <1>1 DEF tenantRows, Memory!store
  <1>2. ASSUME NEW c \in Call,
               \/ \E t \in Tenant, n \in Nit : InsertTenant(c, t, n)
               \/ \E k \in Key : UpdateRevoked(c, k)
               \/ Rollback(c)
        PROVE  /\ TenancyInv' /\ KeepsNits
               /\ UNCHANGED <<documents, events>> => UNCHANGED Memory!store
    BY <1>1, <1>2, InsertTenantKeeps, UpdateRevokedKeeps, RollbackKeeps
  <1>3. ASSUME NEW c \in Call, CommitTenant(c)
        PROVE  /\ TenancyInv' /\ KeepsNits
               /\ UNCHANGED <<documents, events>> => Memory!Next
    BY <1>3, CommitTenantKeeps DEF Memory!Next
  <1>4. ASSUME NEW c \in Call, CommitRevoked(c)
        PROVE  /\ TenancyInv' /\ KeepsNits
               /\ UNCHANGED <<documents, events>> => Memory!Next
    BY <1>4, CommitRevokedKeeps DEF Memory!Next
  <1>5. ASSUME NEW t \in Tenant, NEW k \in Key, CreateApiKey(t, k)
        PROVE  /\ TenancyInv' /\ KeepsNits
               /\ UNCHANGED <<documents, events>> => Memory!Next
    BY <1>5, CreateApiKeyKeeps DEF Memory!Next
  <1>6. QED
    BY <1>2, <1>3, <1>4, <1>5 DEF TenancyNext

\* A step that leaves tenants, keys and administrators alone keeps their
\* invariant.
LEMMA TenancyStays ==
    ASSUME TenancyInv, UNCHANGED tenancyVars
    PROVE  TenancyInv' /\ KeepsNits /\ UNCHANGED tenantRows
  BY DEF TenancyInv, tenancyVars, tenantRows, Opened, Distinct, KeepsNits

-----------------------------------------------------------------------------
(* Requests.                                                               *)

\* A step of r leaves the other requests where they are.
Others(r) ==
    /\ request' \in [Request -> RequestState]
    /\ \A q \in Request \ {r} : request'[q] = request[q]

\* A received document is never changed.
KeepsDocuments == \A d \in DocId : documents[d] # None => documents'[d] = documents[d]

\* What a request knows, by type.
LEMMA RequestTypes ==
    ASSUME RequestInv, NEW r \in Request
    PROVE  /\ request[r] \in RequestState /\ Served(r)
           /\ request[r].pc \in {"idle", "in", "event", "answered"}
           /\ request[r].tenant \in Tenant \cup {None}
           /\ request[r].doc \in DocId \cup {None}
           /\ request[r].status \in Status \cup {"none"}
  BY DEF RequestInv, RequestState

\* A step of a request leaves the others as they were.
LEMMA SetEffect ==
    ASSUME RequestInv, NEW r \in Request, NEW s \in RequestState,
           request' = [request EXCEPT ![r] = s]
    PROVE  Others(r) /\ request'[r] = s
  BY DEF RequestInv, Others

\* The answer to a request ends it, and nothing is asked of it then.
LEMMA RespondEffect ==
    ASSUME RequestInv, NEW r \in Request, Respond(r)
    PROVE  Others(r) /\ request'[r].pc = "idle" /\ Served(r)'
  <1>1. NoRequest \in RequestState
    BY DEF NoRequest, RequestState
  <1>2. Others(r) /\ request'[r] = NoRequest
    BY <1>1, SetEffect DEF Respond
  <1>3. QED
    BY <1>2 DEF NoRequest, Served

\* A stored document that the DIAN has validated stays so: neither rows nor
\* tax ids change.
LEMMA StaysValidated ==
    ASSUME NEW d \in DocId, Validated(d), KeepsNits, KeepsDocuments
    PROVE  Validated(d)'
  BY DEF Validated, KeepsNits, KeepsDocuments

\* What holds of the request that steps and of a new document is enough.
LEMMA RequestKeeps ==
    ASSUME RequestInv, KeepsNits, KeepsDocuments, NEW r \in Request, Others(r),
           Served(r)', documents' \in [DocId -> Row \cup {None}],
           \A d \in DocId : documents[d] = None /\ documents'[d] # None =>
                               (documents'[d].verified => Validated(d)')
    PROVE  RequestInv'
  <1>1. ASSUME NEW q \in Request, q # r
        PROVE  Served(q)'
    <2>1. Served(q) /\ request'[q] = request[q]
      BY <1>1 DEF RequestInv, Others
    <2>2. QED
      BY <2>1 DEF Served, KeepsNits, KeepsDocuments
  <1>2. ASSUME NEW d \in DocId, documents'[d] # None, documents'[d].verified
        PROVE  Validated(d)'
    <2>1. CASE documents[d] = None
      BY <1>2, <2>1
    <2>2. CASE documents[d] # None
      <3>1. Validated(d)
        BY <1>2, <2>2 DEF RequestInv, KeepsDocuments
      <3>2. QED
        BY <3>1, StaysValidated
    <2>3. QED
      BY <2>1, <2>2
  <1>3. QED
    BY <1>1, <1>2 DEF RequestInv, Others

\* A step of one request that writes no document keeps the invariant of
\* requests.
LEMMA RequestKeepsSame ==
    ASSUME RequestInv, KeepsNits, UNCHANGED documents, NEW r \in Request, Others(r), Served(r)'
    PROVE  RequestInv' /\ KeepsDocuments
  <1>1. KeepsDocuments /\ documents' \in [DocId -> Row \cup {None}]
    BY DEF KeepsDocuments, RequestInv
  <1>2. QED
    BY <1>1, RequestKeeps

\* What the DIAN has accepted stays about validated documents.
LEMMA DianKeeps ==
    ASSUME DianInv, KeepsDocuments, UNCHANGED dian
    PROVE  DianInv'
  BY DEF DianInv, KeepsDocuments

\* The acceptances that are yet to be recorded can be counted.
LEMMA PendingFinite ==
    ASSUME NEW d
    PROVE  IsFiniteSet(Pending(d)) /\ Cardinality(Pending(d)) \in Nat
  <1>1. Pending(d) \subseteq Request
    BY DEF Pending
  <1>2. IsFiniteSet(Pending(d))
    BY <1>1, FS_Subset, ReceptionAssumption
  <1>3. QED
    BY <1>2, FS_CardinalityType

\* A request that does not take an answer of the DIAN takes nothing from what
\* is accounted.
LEMMA EventKeeps ==
    ASSUME EventInv, DianInv, DianInv', UNCHANGED <<events, told>>,
           \A d \in DocId : Pending(d)' \subseteq Pending(d),
           \A d \in DocId : dian'[d]["accepted"] >= dian[d]["accepted"]
    PROVE  EventInv'
  <1>1. ASSUME NEW d \in DocId
        PROVE  Accounted(d)'
    <2>1. IsFiniteSet(Pending(d)) /\ Cardinality(Pending(d)) \in Nat
      BY PendingFinite
    <2>2. Pending(d)' \subseteq Pending(d)
      OBVIOUS
    <2>3. Cardinality(Pending(d)') \in Nat /\ Cardinality(Pending(d)') <= Cardinality(Pending(d))
      BY <2>1, <2>2, FS_Subset, FS_CardinalityType
    <2>4. /\ events[d]["accepted"] \in Nat /\ told[d] \in Nat
          /\ dian[d]["accepted"] \in Nat /\ dian'[d]["accepted"] \in Nat
      BY DEF EventInv, DianInv, Status
    <2>5. Accounted(d)
      BY DEF EventInv
    <2>6. QED
      BY <2>1, <2>3, <2>4, <2>5 DEF Accounted
  <1>2. QED
    BY <1>1 DEF EventInv

\* The steps that take no answer: what is pending stays or goes.
LEMMA PendingKeeps ==
    ASSUME RequestInv, NEW r \in Request, Others(r), request'[r].pc # "answered", NEW d
    PROVE  Pending(d)' \subseteq Pending(d)
  BY DEF Pending, Others

\* All of it, for a step of r that leaves the tables and the DIAN alone.
LEMMA LocalStep ==
    ASSUME TenancyInv, RequestInv, DianInv, EventInv, NEW r \in Request, Others(r),
           Served(r)', request'[r].pc # "answered",
           UNCHANGED <<tenancyVars, documents, events, dian, told>>
    PROVE  /\ TenancyInv' /\ RequestInv' /\ DianInv' /\ EventInv'
           /\ UNCHANGED Memory!store
  <1>1. TenancyInv' /\ KeepsNits /\ UNCHANGED tenantRows
    BY TenancyStays
  <1>2. RequestInv' /\ KeepsDocuments
    BY <1>1, RequestKeepsSame
  <1>3. DianInv'
    BY <1>2, DianKeeps
  <1>4. \A d \in DocId : dian'[d]["accepted"] >= dian[d]["accepted"]
    BY DEF DianInv, Status
  <1>5. EventInv'
    BY <1>3, <1>4, PendingKeeps, EventKeeps
  <1>6. QED
    BY <1>1, <1>2, <1>3, <1>5 DEF tenantRows, Memory!store

Kept == /\ TenancyInv' /\ RequestInv' /\ DianInv' /\ EventInv'
        /\ [Memory!Next]_(Memory!store)

\* Authentication reads a key, and gives the request its tenant.
LEMMA AuthenticateKeeps ==
    ASSUME TenancyInv, RequestInv, DianInv, EventInv, NEW r \in Request, NEW k \in Key,
           Authenticate(r, k)
    PROVE  Kept
  <1> DEFINE t == FindByApiKeyHash(k)
             s == [request[r] EXCEPT !.pc = "in", !.tenant = t]
  <1>1. t \in Tenant /\ nit[t] # None
    BY DEF FindByApiKeyHash, TenancyInv, Authenticate
  <1>2. s \in RequestState /\ s.pc = "in" /\ s.tenant = t
    BY <1>1, RequestTypes DEF RequestState
  <1>3. request' = [request EXCEPT ![r] = s]
    BY DEF Authenticate, RequestInv
  <1>4. Others(r) /\ request'[r] = s
    BY <1>2, <1>3, SetEffect
  <1>5. UNCHANGED <<tenancyVars, documents, events, dian, told>> /\ UNCHANGED nit
    BY DEF Authenticate, tenancyVars, tenantRows
  <1>6. Served(r)' /\ request'[r].pc # "answered"
    <2> HIDE DEF t, s
    <2>1. request'[r].pc = "in" /\ request'[r].tenant = t
      BY <1>2, <1>4
    <2>2. request'[r].tenant \in Tenant /\ nit'[request'[r].tenant] # None
      BY <1>1, <1>5, <2>1
    <2>3. QED
      BY <2>1, <2>2 DEF Served
  <1>7. QED
    BY <1>4, <1>5, <1>6, LocalStep DEF Kept

\* An event is only prepared for a document of the tenant of the request that
\* is stored and validated.
LEMMA RegisterEventKeeps ==
    ASSUME TenancyInv, RequestInv, DianInv, EventInv, NEW r \in Request, NEW d \in DocId,
           RegisterEvent(r, d)
    PROVE  Kept
  <1> DEFINE s == [request[r] EXCEPT !.pc = "event", !.doc = d]
  <1>1. s \in RequestState /\ s.pc = "event" /\ s.doc = d /\ s.tenant = request[r].tenant
    BY RequestTypes DEF RequestState
  <1>2. request' = [request EXCEPT ![r] = s]
    BY DEF RegisterEvent, RequestInv
  <1>3. Others(r) /\ request'[r] = s
    BY <1>1, <1>2, SetEffect
  <1>4. /\ UNCHANGED <<tenancyVars, documents, events, dian, told>> /\ UNCHANGED nit
        /\ request[r].pc = "in" /\ documents[d] # None /\ documents[d].verified
    BY DEF RegisterEvent, tenancyVars, tenantRows
  <1>5. Served(r)
    BY RequestTypes
  <1>6. Served(r)' /\ request'[r].pc # "answered"
    <2> HIDE DEF s
    <2>1. /\ request'[r].pc = "event" /\ request'[r].doc = d
          /\ request'[r].tenant = request[r].tenant
      BY <1>1, <1>3
    <2>2. QED
      BY <1>4, <1>5, <2>1 DEF Served
  <1>7. QED
    BY <1>3, <1>4, <1>6, LocalStep DEF Kept

\* An acceptance that cannot be recorded is lost to the store: fewer are
\* recorded than the DIAN has, never more.
LEMMA RecordFailsKeeps ==
    ASSUME TenancyInv, RequestInv, DianInv, EventInv, NEW r \in Request, RecordFails(r)
    PROVE  Kept
  BY RespondEffect, LocalStep DEF RecordFails, Kept

-----------------------------------------------------------------------------
(* The documents and the events.                                           *)

\* insert_inbound: a row for a tenant, whose CUFE and customer are right when
\* it says that it was verified.
LEMMA InsertKeeps ==
    ASSUME TenancyInv, RequestInv, DianInv, EventInv, NEW r \in Request, Respond(r),
           UNCHANGED <<tenancyVars, events, dian, told>>, NEW row \in Row,
           row.verified => /\ row.tenant \in Tenant /\ nit[row.tenant] # None
                           /\ row.cufe.text \in DianCufe
                           /\ row.customer = nit[row.tenant],
           InsertInbound(row)
    PROVE  Kept
  <1>1. Others(r) /\ Served(r)' /\ request'[r].pc # "answered"
    BY RespondEffect
  <1>2. CASE UNCHANGED documents
    BY <1>1, <1>2, LocalStep DEF Kept
  <1>3. ASSUME NEW d \in DocId, documents[d] = None, documents' = [documents EXCEPT ![d] = row],
               ~ \E e \in DocId : SameDocument(e, row)
        PROVE  Kept
    <2>1. TenancyInv' /\ KeepsNits /\ UNCHANGED tenantRows /\ UNCHANGED nit
      BY TenancyStays DEF tenantRows
    <2>2. /\ documents' \in [DocId -> Row \cup {None}] /\ documents'[d] = row
          /\ \A e \in DocId \ {d} : documents'[e] = documents[e]
      BY <1>3 DEF RequestInv
    <2>3. KeepsDocuments
      BY <1>3, <2>2 DEF KeepsDocuments
    <2>4. row.verified => Validated(d)'
      <3>1. row # None
        BY RowAssumption
      <3>2. QED
        BY <2>1, <2>2, <3>1 DEF Validated
    <2>5. RequestInv'
      BY <1>1, <2>1, <2>2, <2>3, <2>4, RequestKeeps
    <2>6. DianInv'
      BY <2>3, DianKeeps
    <2>7. \A e \in DocId : dian'[e]["accepted"] >= dian[e]["accepted"]
      BY DEF DianInv, Status
    <2>8. EventInv'
      BY <1>1, <2>6, <2>7, PendingKeeps, EventKeeps
    <2>9. Memory!InsertInbound(d, row)
      BY <1>3, <2>1 DEF Memory!InsertInbound, SameDocument, tenantRows
    <2>10. QED
      BY <2>1, <2>5, <2>6, <2>8, <2>9 DEF Kept, Memory!Next
  <1>4. QED
    BY <1>2, <1>3 DEF InsertInbound

\* What is received becomes a row that says it was verified only when the
\* DIAN signed that it had validated the CUFE of the invoice of the tenant.
LEMMA ReceiveInvoiceKeeps ==
    ASSUME TenancyInv, RequestInv, DianInv, EventInv, NEW r \in Request, NEW zip \in Zip,
           ReceiveInvoice(r, zip)
    PROVE  Kept
  <1>1. /\ Respond(r) /\ UNCHANGED <<tenancyVars, events, dian, told>>
        /\ request[r].pc = "in"
    BY DEF ReceiveInvoice
  <1>2. PICK t \in Tenant : t = request[r].tenant /\ nit[t] # None
    BY <1>1, RequestTypes DEF Served
  <1>3. PICK x : x = ExtractFirstXml(zip)
    OBVIOUS
  <1>4. CASE x # NoXml /\ ValidVerified(t, x) /\ InsertInbound(VerifiedRow(t, x))
    <2>1. VerifiedRow(t, x) \in Row
      BY <1>3, <1>4 DEF Row
    <2>2. /\ VerifiedRow(t, x).tenant = t /\ VerifiedRow(t, x).cufe = x.invoice.cufe
          /\ VerifiedRow(t, x).customer = x.invoice.customer
      BY DEF VerifiedRow
    <2>3. x.invoice.customer = nit[t] /\ x.invoice.cufe.text = x.response.cufe.text
      BY <1>4 DEF ValidVerified
    <2>4. x.response.cufe.text \in DianCufe
      BY <1>3, <1>4, DianIsTrue DEF ValidVerified
    <2>5. QED
      BY <1>1, <1>2, <1>4, <2>1, <2>2, <2>3, <2>4, InsertKeeps
  <1>5. CASE x # NoXml /\ InsertInbound(UnverifiedRow(t, x))
    <2>1. UnverifiedRow(t, x) \in Row
      BY <1>3, <1>5 DEF Row
    <2>2. ~UnverifiedRow(t, x).verified
      BY DEF UnverifiedRow
    <2>3. QED
      BY <1>1, <1>5, <2>1, <2>2, InsertKeeps
  <1>6. CASE UNCHANGED documents
    BY <1>1, <1>6, RespondEffect, LocalStep DEF Kept
  <1>7. QED
    BY <1>2, <1>3, <1>4, <1>5, <1>6 DEF ReceiveInvoice

\* An event that reaches the DIAN is one more of its document's.
LEMMA DianReceivesEffect ==
    ASSUME DianInv, NEW d \in DocId, NEW s \in Status, DianReceives(d, s),
           documents[d] # None, documents[d].verified, UNCHANGED documents
    PROVE  /\ DianInv'
           /\ \A e \in DocId : dian'[e]["accepted"] >= dian[e]["accepted"]
           /\ s = "accepted" => dian'[d]["accepted"] = dian[d]["accepted"] + 1
  <1>1. dian[d] \in [Status -> Nat] /\ dian[d][s] + 1 \in Nat
    BY DEF DianInv
  <1>2. dian' = [dian EXCEPT ![d] = [dian[d] EXCEPT ![s] = dian[d][s] + 1]]
    BY DEF DianReceives
  <1>3. [dian[d] EXCEPT ![s] = dian[d][s] + 1] \in [Status -> Nat]
    BY <1>1
  <1>4. /\ dian' \in [DocId -> [Status -> Nat]]
        /\ dian'[d] = [dian[d] EXCEPT ![s] = dian[d][s] + 1]
        /\ \A e \in DocId \ {d} : dian'[e] = dian[e]
    BY <1>2, <1>3 DEF DianInv
  <1>5. DianInv'
    BY <1>4 DEF DianInv
  <1>6. \A e \in DocId : dian[e]["accepted"] \in Nat
    BY DEF DianInv, Status
  <1>7. dian'[d]["accepted"] = IF s = "accepted" THEN dian[d]["accepted"] + 1
                                                ELSE dian[d]["accepted"]
    BY <1>1, <1>4 DEF Status
  <1>8. ASSUME NEW e \in DocId
        PROVE  dian'[e]["accepted"] >= dian[e]["accepted"]
    <2>1. CASE e = d
      BY <1>6, <1>7, <2>1
    <2>2. CASE e # d
      <3>1. dian'[e]["accepted"] = dian[e]["accepted"]
        BY <1>4, <2>2
      <3>2. QED
        BY <1>6, <3>1
    <2>3. QED
      BY <2>1, <2>2
  <1>9. QED
    BY <1>5, <1>7, <1>8

\* An event that fails may have reached the DIAN, which then has one more.
LEMMA SendFailsKeeps ==
    ASSUME TenancyInv, RequestInv, DianInv, EventInv, NEW r \in Request, SendFails(r)
    PROVE  Kept
  <1>1. Others(r) /\ Served(r)' /\ request'[r].pc # "answered"
    BY RespondEffect DEF SendFails
  <1>2. CASE UNCHANGED dian
    BY <1>1, <1>2, LocalStep DEF Kept, SendFails
  <1>3. ASSUME NEW s \in Status, DianReceives(request[r].doc, s)
        PROVE  Kept
    <2>1. /\ request[r].doc \in DocId /\ documents[request[r].doc] # None
          /\ documents[request[r].doc].verified
      BY RequestTypes DEF Served, SendFails
    <2>2. UNCHANGED <<documents, events, told>> /\ UNCHANGED tenancyVars
      BY DEF SendFails
    <2>3. TenancyInv' /\ KeepsNits /\ UNCHANGED tenantRows
      BY <2>2, TenancyStays
    <2>4. RequestInv'
      BY <1>1, <2>2, <2>3, RequestKeepsSame
    <2>5. DianInv' /\ \A e \in DocId : dian'[e]["accepted"] >= dian[e]["accepted"]
      BY <1>3, <2>1, <2>2, DianReceivesEffect
    <2>6. EventInv'
      BY <1>1, <2>2, <2>5, PendingKeeps, EventKeeps
    <2>7. QED
      BY <2>2, <2>3, <2>4, <2>5, <2>6 DEF Kept, Memory!store, tenantRows
  <1>4. QED
    BY <1>2, <1>3 DEF SendFails, Status

\* An acceptance is pending only when the DIAN has counted it.
LEMMA SendEventKeeps ==
    ASSUME TenancyInv, RequestInv, DianInv, EventInv, NEW r \in Request, SendEvent(r)
    PROVE  Kept
  <1>1. PICK s \in Status, seen \in Status :
           /\ DianReceives(request[r].doc, s)
           /\ seen = "accepted" => s = "accepted"
           /\ request' = [request EXCEPT ![r].pc = "answered", ![r].status = seen]
    BY DEF SendEvent, Status
  <1>2. PICK d \in DocId :
           d = request[r].doc /\ documents[d] # None /\ documents[d].verified
    BY RequestTypes DEF Served, SendEvent
  <1>3. /\ UNCHANGED <<documents, events, told>> /\ UNCHANGED tenancyVars
        /\ request[r].pc = "event"
    BY DEF SendEvent
  <1>4. TenancyInv' /\ KeepsNits /\ UNCHANGED tenantRows
    BY <1>3, TenancyStays
  <1>5. /\ Others(r) /\ request'[r].pc = "answered" /\ request'[r].status = seen
        /\ request'[r].doc = d /\ request'[r].tenant = request[r].tenant
    <2> DEFINE s2 == [request[r] EXCEPT !.pc = "answered", !.status = seen]
    <2>1. s2 \in RequestState /\ s2.pc = "answered" /\ s2.status = seen
      BY RequestTypes DEF RequestState
    <2>2. s2.doc = d /\ s2.tenant = request[r].tenant
      BY <1>2, RequestTypes DEF RequestState
    <2>3. request' = [request EXCEPT ![r] = s2]
      BY <1>1 DEF RequestInv
    <2>4. Others(r) /\ request'[r] = s2
      BY <2>1, <2>3, SetEffect
    <2>5. QED
      BY <2>1, <2>2, <2>4
  <1>6. Served(r)'
    <2>1. Served(r) /\ UNCHANGED nit
      BY <1>3, RequestTypes DEF tenancyVars, tenantRows
    <2>2. QED
      BY <1>2, <1>3, <1>5, <2>1 DEF Served
  <1>7. RequestInv'
    BY <1>3, <1>4, <1>5, <1>6, RequestKeepsSame
  <1>8. /\ DianInv' /\ \A e \in DocId : dian'[e]["accepted"] >= dian[e]["accepted"]
        /\ s = "accepted" => dian'[d]["accepted"] = dian[d]["accepted"] + 1
    BY <1>1, <1>2, <1>3, DianReceivesEffect
  <1>9. EventInv'
    <2>1. CASE seen # "accepted"
      <3>1. \A e \in DocId : Pending(e)' \subseteq Pending(e)
        BY <1>5, <2>1 DEF Pending, Others
      <3>2. QED
        BY <1>3, <1>8, <3>1, EventKeeps
    <2>2. CASE seen = "accepted"
      <3>1. ASSUME NEW e \in DocId
            PROVE  Accounted(e)'
        <4>1. /\ IsFiniteSet(Pending(e)) /\ Cardinality(Pending(e)) \in Nat
              /\ events[e]["accepted"] \in Nat /\ told[e] \in Nat
              /\ dian[e]["accepted"] \in Nat /\ dian'[e]["accepted"] \in Nat
          BY <1>8, PendingFinite DEF EventInv, DianInv, Status
        <4>2. Accounted(e)
          BY DEF EventInv
        <4>3. CASE e # d
          <5>1. Pending(e)' = Pending(e)
            BY <1>2, <1>5, <4>3 DEF Pending, Others
          <5>2. QED
            BY <1>3, <1>8, <4>1, <4>2, <5>1 DEF Accounted
        <4>4. CASE e = d
          <5>1. Pending(e)' = Pending(e) \cup {r} /\ r \notin Pending(e)
            BY <1>2, <1>3, <1>5, <2>2, <4>4 DEF Pending, Others
          <5>2. Cardinality(Pending(e)') = Cardinality(Pending(e)) + 1
            BY <4>1, <5>1, FS_AddElement
          <5>3. dian'[e]["accepted"] = dian[e]["accepted"] + 1
            BY <1>1, <1>8, <2>2, <4>4
          <5>4. QED
            BY <1>3, <4>1, <4>2, <5>2, <5>3 DEF Accounted
        <4>5. QED
          BY <4>3, <4>4
      <3>2. QED
        BY <1>3, <3>1 DEF EventInv
    <2>3. QED
      BY <2>1, <2>2
  <1>10. QED
    BY <1>3, <1>4, <1>7, <1>8, <1>9 DEF Kept, Memory!store, tenantRows

\* record_event counts an acceptance that was pending.
LEMMA RecordEventKeeps ==
    ASSUME TenancyInv, RequestInv, DianInv, EventInv, NEW r \in Request, RecordEvent(r)
    PROVE  Kept
  <1>1. PICK d \in DocId, s \in Status :
           d = request[r].doc /\ s = request[r].status /\ documents[d] # None
    BY RequestTypes DEF Served, RecordEvent
  <1>2. /\ UNCHANGED <<documents, dian>> /\ UNCHANGED tenancyVars /\ Respond(r)
        /\ request[r].pc = "answered" /\ Tells(r)
        /\ events' = [events EXCEPT ![d] = [events[d] EXCEPT ![s] = events[d][s] + 1]]
    BY <1>1 DEF RecordEvent
  <1>3. Others(r) /\ Served(r)' /\ request'[r].pc # "answered"
    BY <1>2, RespondEffect
  <1>4. TenancyInv' /\ KeepsNits /\ UNCHANGED tenantRows
    BY <1>2, TenancyStays
  <1>5. RequestInv' /\ DianInv'
    BY <1>2, <1>3, <1>4, RequestKeepsSame, DianKeeps
  <1>6. /\ events' \in [DocId -> [Status -> Nat]]
        /\ \A e \in DocId \ {d} : events'[e] = events[e]
        /\ events'[d] = [events[d] EXCEPT ![s] = events[d][s] + 1]
    <2>1. events[d] \in [Status -> Nat] /\ events[d][s] + 1 \in Nat
      BY DEF EventInv
    <2>2. [events[d] EXCEPT ![s] = events[d][s] + 1] \in [Status -> Nat]
      BY <2>1
    <2>3. QED
      BY <1>2, <2>2 DEF EventInv
  <1>7. /\ told' \in [DocId -> Nat] /\ \A e \in DocId \ {d} : told'[e] = told[e]
        /\ told'[d] = told[d] + IF s = "accepted" THEN 1 ELSE 0
    BY <1>1, <1>2 DEF Tells, EventInv
  <1>8. ASSUME NEW e \in DocId
        PROVE  Accounted(e)'
    <2>1. /\ IsFiniteSet(Pending(e)) /\ Cardinality(Pending(e)) \in Nat
          /\ events[e]["accepted"] \in Nat /\ told[e] \in Nat /\ dian[e]["accepted"] \in Nat
      BY PendingFinite DEF EventInv, DianInv, Status
    <2>2. Accounted(e)
      BY DEF EventInv
    <2>3. CASE e # d \/ s # "accepted"
      <3>1. Pending(e)' = Pending(e)
        BY <1>1, <1>2, <1>3, <2>3 DEF Pending, Others
      <3>2. events'[e]["accepted"] = events[e]["accepted"] /\ told'[e] = told[e]
        <4>1. CASE e # d
          BY <1>6, <1>7, <4>1
        <4>2. CASE e = d
          <5>1. events'[e]["accepted"] = events[e]["accepted"]
            BY <1>6, <2>3, <4>2 DEF EventInv, Status
          <5>2. told'[e] = told[e]
            BY <1>7, <2>1, <2>3, <4>2
          <5>3. QED
            BY <5>1, <5>2
        <4>3. QED
          BY <4>1, <4>2
      <3>3. QED
        BY <1>2, <2>2, <3>1, <3>2 DEF Accounted
    <2>4. CASE e = d /\ s = "accepted"
      <3>1. Pending(e)' = Pending(e) \ {r} /\ r \in Pending(e)
        BY <1>1, <1>2, <1>3, <2>4 DEF Pending, Others
      <3>2. Cardinality(Pending(e)') = Cardinality(Pending(e)) - 1
        BY <2>1, <3>1, FS_RemoveElement
      <3>3. events'[e]["accepted"] = events[e]["accepted"] + 1
        BY <1>6, <2>4 DEF EventInv, Status
      <3>4. told'[e] = told[e] + 1
        BY <1>7, <2>4
      <3>5. QED
        BY <1>2, <2>1, <2>2, <3>2, <3>3, <3>4 DEF Accounted
    <2>5. QED
      BY <2>3, <2>4
  <1>9. EventInv'
    BY <1>6, <1>7, <1>8 DEF EventInv
  <1>10. Memory!RecordEvent(d, s)
    BY <1>1, <1>2, <1>4 DEF Memory!RecordEvent, tenantRows
  <1>11. QED
    BY <1>4, <1>5, <1>9, <1>10 DEF Kept, Memory!Next, Status

\* A restart with another configuration changes how invoices are verified,
\* not what was stored.
LEMMA RestartKeeps ==
    ASSUME TenancyInv, RequestInv, DianInv, EventInv, NEW m \in Mode, Restart(m)
    PROVE  Kept
  <1>1. /\ UNCHANGED <<documents, events, dian, told>> /\ UNCHANGED tenancyVars
        /\ request' = [r \in Request |-> NoRequest]
    BY DEF Restart
  <1>2. TenancyInv' /\ KeepsNits /\ UNCHANGED tenantRows
    BY <1>1, TenancyStays
  <1>3. KeepsDocuments /\ documents' \in [DocId -> Row \cup {None}]
    BY <1>1 DEF KeepsDocuments, RequestInv
  <1>4. request' \in [Request -> RequestState] /\ \A r \in Request : Served(r)'
    BY <1>1 DEF NoRequest, RequestState, Served
  <1>5. ASSUME NEW d \in DocId, documents'[d] # None, documents'[d].verified
        PROVE  Validated(d)'
    BY <1>1, <1>2, <1>3, <1>5, StaysValidated DEF RequestInv
  <1>6. RequestInv'
    BY <1>3, <1>4, <1>5 DEF RequestInv
  <1>7. DianInv'
    BY <1>1, <1>3, DianKeeps
  <1>8. \A d \in DocId : Pending(d)' \subseteq Pending(d)
    BY <1>1 DEF Pending, NoRequest
  <1>9. EventInv'
    <2>1. \A d \in DocId : dian'[d]["accepted"] >= dian[d]["accepted"]
      BY <1>1 DEF DianInv, Status
    <2>2. QED
      BY <1>1, <1>7, <1>8, <2>1, EventKeeps
  <1>10. QED
    BY <1>1, <1>2, <1>6, <1>7, <1>9 DEF Kept, Memory!store, tenantRows

\* Requests and the DIAN are not moved by administrators: a tenant that has
\* keys and documents keeps its tax id.
LEMMA AdminKeeps ==
    ASSUME TenancyInv, RequestInv, DianInv, EventInv,
           TenancyNext \/ UNCHANGED tenancyVars, UNCHANGED receptionVars
    PROVE  Kept
  <1>1. /\ TenancyInv' /\ KeepsNits
        /\ UNCHANGED <<documents, events>> => [Memory!Next]_(Memory!store)
    <2>1. CASE TenancyNext
      BY <2>1, TenancySteps
    <2>2. CASE UNCHANGED tenancyVars
      BY <2>2, TenancyStays DEF tenantRows, Memory!store
    <2>3. QED
      BY <2>1, <2>2
  <1>2. UNCHANGED <<documents, events, request, dian, told>>
    BY DEF receptionVars
  <1>3. \A r \in Request : Served(r)'
    BY <1>1, <1>2 DEF RequestInv, Served, KeepsNits
  <1>4. KeepsDocuments
    BY <1>2 DEF KeepsDocuments
  <1>5. RequestInv'
    BY <1>1, <1>2, <1>3, <1>4, StaysValidated DEF RequestInv
  <1>6. DianInv' /\ EventInv'
    BY <1>2 DEF DianInv, EventInv, Accounted, Pending
  <1>7. QED
    BY <1>1, <1>2, <1>5, <1>6 DEF Kept

\* Every step keeps the four invariants, and is a step of the in-memory store
\* or leaves it alone.
LEMMA NextKeeps ==
    ASSUME TenancyInv, RequestInv, DianInv, EventInv, [Next]_vars
    PROVE  Kept
  BY AuthenticateKeeps, ReceiveInvoiceKeeps, RegisterEventKeeps, SendEventKeeps,
     SendFailsKeeps, RecordEventKeeps, RecordFailsKeeps, RestartKeeps, AdminKeeps
     DEF Next, vars

\* The four invariants hold of the empty tables.
LEMMA InitHolds ==
    ASSUME Init
    PROVE  TenancyInv /\ RequestInv /\ DianInv /\ EventInv
  <1>1. TenancyInv
    BY DEF Init, TenancyInit, TenancyInv, CallState, Opened, Distinct
  <1>2. RequestInv
    BY DEF Init, RequestInv, RequestState, NoRequest, Served
  <1>3. NoEvents \in [Status -> Nat] /\ NoEvents["accepted"] = 0
    BY DEF NoEvents, Status
  <1>4. DianInv
    BY <1>3 DEF Init, DianInv
  <1>5. EventInv
    <2>1. ASSUME NEW d \in DocId
          PROVE  Accounted(d)
      <3>1. Pending(d) = {}
        BY DEF Init, Pending, NoRequest
      <3>2. Cardinality(Pending(d)) = 0
        BY <3>1, FS_EmptySet
      <3>3. QED
        BY <1>3, <3>2 DEF Init, Accounted
    <2>2. QED
      BY <1>3, <2>1 DEF Init, EventInv
  <1>6. QED
    BY <1>1, <1>2, <1>4, <1>5

\* The four invariants hold in every reachable state.
LEMMA ReceptionInvariant == Spec => [](TenancyInv /\ RequestInv /\ DianInv /\ EventInv)
  <1>1. Init => TenancyInv /\ RequestInv /\ DianInv /\ EventInv
    BY InitHolds
  <1>2. TenancyInv /\ RequestInv /\ DianInv /\ EventInv /\ [Next]_vars
           => (TenancyInv /\ RequestInv /\ DianInv /\ EventInv)'
    BY NextKeeps DEF Kept
  <1>3. QED
    BY <1>1, <1>2, PTL DEF Spec

-----------------------------------------------------------------------------
(* Theorems.                                                               *)

\* However requests, restarts with another configuration and uploads of the
\* same number interleave, the DIAN receives events only about invoices that
\* it has validated itself, from the tenant that is their customer: the check
\* of register_event outlasts the call to the DIAN.
THEOREM EventsAreAboutValidatedHolds == Spec => []EventsAreAboutValidated
  <1>1. RequestInv /\ DianInv => EventsAreAboutValidated
    BY DEF RequestInv, DianInv, Validated, EventsAreAboutValidated
  <1>2. QED
    BY <1>1, ReceptionInvariant, PTL

\* Whatever steps of register_event fail, for whichever requests at once, a
\* client was told of no acceptance that dian_events does not have, and that
\* table has none that the DIAN did not give.
THEOREM NoEventIsMadeUpHolds == Spec => []NoEventIsMadeUp
  <1>1. DianInv /\ EventInv => NoEventIsMadeUp
    <2> SUFFICES ASSUME DianInv, EventInv, NEW d \in DocId
                 PROVE  /\ told[d] <= events[d].accepted
                        /\ events[d].accepted <= dian[d].accepted
      BY DEF NoEventIsMadeUp
    <2>1. /\ Cardinality(Pending(d)) \in Nat
          /\ events[d]["accepted"] \in Nat /\ told[d] \in Nat /\ dian[d]["accepted"] \in Nat
      BY PendingFinite DEF EventInv, DianInv, Status
    <2>2. Accounted(d)
      BY DEF EventInv
    <2>3. QED
      BY <2>1, <2>2 DEF Accounted
  <1>2. QED
    BY <1>1, ReceptionInvariant, PTL

\* The tables of tenants, keys, received documents and events move as those of
\* InMemoryStore, one whole operation at a time: a tax id that a transaction
\* took, and a key that it is revoking, are its own until it commits, so each
\* has one tenant, and one entry of the log.
THEOREM StoredAsInMemoryHolds == Spec => StoredAsInMemory
  <1>1. Init => Memory!Init
    BY DEF Init, TenancyInit, Memory!Init, NoEvents
  <1>2. TenancyInv /\ RequestInv /\ DianInv /\ EventInv /\ [Next]_vars
           => [Memory!Next]_(Memory!store)
    BY NextKeeps DEF Kept
  <1>3. QED
    BY <1>1, <1>2, ReceptionInvariant, PTL DEF Spec, StoredAsInMemory, Memory!Spec
=============================================================================
