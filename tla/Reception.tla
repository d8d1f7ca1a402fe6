----------------------------- MODULE Reception -----------------------------
(***************************************************************************)
(* Invoices of suppliers, received as an AttachedDocument in a ZIP, and    *)
(* the RADIAN events of the tenant about them: the handlers of the API,    *)
(* InboundService and RadianService, over PgStore and the DIAN.  The       *)
(* requests authenticate with the API keys of Tenancy while administrators *)
(* create and revoke them.                                                 *)
(*                                                                         *)
(* An XML document is a record of what its parser (XmlDoc) or the search   *)
(* for tags (tag_content) finds in it, "" for what is not there.  What     *)
(* xmlsec1 says of a signature is part of the document.                    *)
(***************************************************************************)
EXTENDS Tenancy, Identifiers, Folds

CONSTANTS
    DocId,      \* ids of received documents
    Request,    \* requests under way at once
    Zip,        \* what may be uploaded: sequences of entries
    DianCufe,   \* CUFEs of the invoices that the DIAN has validated
    Dian,       \* dian_signer_subject
    MaxEntries, \* MAX_INBOUND_ZIP_ENTRIES
    MaxEvents   \* bound: events that the DIAN receives

ASSUME ReceptionAssumption ==
    MaxEntries \in Nat /\ MaxEvents \in Nat /\ IsFiniteSet(Request)

VARIABLES
    mode,       \* configuration of the process: verify, unverified or off
    documents,  \* documents with direction inbound
    events,     \* dian_events: how many of each status
    request,    \* where each request is
    dian,       \* what the DIAN has: events accepted and rejected, by document
    told        \* clients that were told that their event was accepted

receptionVars == <<mode, documents, events, request, dian, told>>
vars == <<tenancyVars, receptionVars>>

Mode == {"verify", "unverified", "off"}

NoRequest == [pc |-> "idle", tenant |-> None, doc |-> None, status |-> "none"]

NoEvents == [accepted |-> 0, rejected |-> 0]

Init ==
    /\ TenancyInit
    /\ mode \in Mode
    /\ documents = [d \in DocId |-> None]
    /\ events = [d \in DocId |-> NoEvents]
    /\ request = [r \in Request |-> NoRequest]
    /\ dian = [d \in DocId |-> NoEvents]
    /\ told = [d \in DocId |-> 0]

-----------------------------------------------------------------------------
(* What is received.                                                       *)

NoXml == [root |-> ""]

\* extract_first_xml: of the first .xml, unless the ZIP cannot be read, has
\* no or too many entries, or the XML is too large, not UTF-8 or blank.
ExtractFirstXml(zip) ==
    LET xmls == {i \in DOMAIN zip : zip[i].isXml}
    IN  IF Len(zip) > MaxEntries \/ xmls = {} THEN NoXml
        ELSE LET i == CHOOSE j \in xmls : \A k \in xmls : j <= k
             IN  IF zip[i].readable THEN zip[i].xml ELSE NoXml

\* check_signature_structure: one signature, one of whose references covers
\* the whole document.
CheckSignatureStructure(s) == s.signatures = 1 /\ s.whole

\* signer_subject: the one certificate of KeyInfo that issued no other there.
SignerSubject(s) ==
    {c \in s.certificates :
        \A d \in s.certificates : d.issuer = c.subject => d.subject = c.subject}

\* XmlSignatureVerifier::verify; trusted is what xmlsec1 says.
Verify(s) ==
    /\ CheckSignatureStructure(s)
    /\ s.trusted
    /\ Cardinality(SignerSubject(s)) = 1

\* register_verified, up to the row that it inserts: the three signatures,
\* the answer of the DIAN, its CUFE whatever the case of its letters, the
\* number of the container, a supplier, the customer, and a number that can
\* be split.
ValidVerified(t, x) ==
    LET invoice == x.invoice  response == x.response IN
    /\ x.root = "AttachedDocument"
    /\ Verify(x.signature) /\ Verify(invoice.signature) /\ Verify(response.signature)
    /\ \A c \in SignerSubject(response.signature) : c.subject = Dian
    /\ invoice.root = "Invoice" /\ response.root = "ApplicationResponse"
    /\ response.code = "02"
    /\ response.cufe.text = invoice.cufe.text
    /\ x.parent = invoice.id
    /\ invoice.supplier # None
    /\ invoice.customer = nit[t]
    /\ SplitDocumentId(invoice.id) # NoSplit

\* The row of register_verified, from the invoice ...
VerifiedRow(t, x) ==
    [tenant |-> t, issuer |-> x.invoice.supplier,
     prefix |-> SplitDocumentId(x.invoice.id).prefix,
     number |-> SplitDocumentId(x.invoice.id).number,
     cufe |-> x.invoice.cufe, customer |-> x.invoice.customer, verified |-> TRUE]

\* register_unverified: what the container says of itself, where a signature
\* only has to be present.
ValidUnverified(t, x) ==
    /\ x.found.signature
    /\ x.found.code = "02"
    /\ x.found.sender # None
    /\ x.found.receiver = nit[t]
    /\ SplitDocumentId(x.parent) # NoSplit

\* ... and that of register_unverified, from the first tags of the container.
UnverifiedRow(t, x) ==
    [tenant |-> t, issuer |-> x.found.sender,
     prefix |-> SplitDocumentId(x.parent).prefix,
     number |-> SplitDocumentId(x.parent).number,
     cufe |-> x.found.cufe, customer |-> x.found.receiver, verified |-> FALSE]

\* The DIAN only signs that it has validated what it has.
ASSUME DianIsTrue ==
    \A z \in Zip :
       LET response == ExtractFirstXml(z).response IN
       /\ ExtractFirstXml(z) # NoXml
       /\ Verify(response.signature) /\ response.code = "02"
       /\ \A c \in SignerSubject(response.signature) : c.subject = Dian
       => response.cufe.text \in DianCufe

\* The rows of documents that the uploads of the instance may leave.
Row ==
    LET Xml == {ExtractFirstXml(z) : z \in Zip} \ {NoXml}
    IN  {VerifiedRow(t, x) : t \in Tenant, x \in Xml}
           \cup {UnverifiedRow(t, x) : t \in Tenant, x \in Xml}

\* A document without a row is none of those.
ASSUME RowAssumption == None \notin Row

-----------------------------------------------------------------------------
(* The requests.                                                           *)

Respond(r) == request' = [request EXCEPT ![r] = NoRequest]

\* auth_middleware
Authenticate(r, k) ==
    /\ request[r].pc = "idle"
    /\ FindByApiKeyHash(k) # None
    /\ request' = [request EXCEPT ![r].pc = "in", ![r].tenant = FindByApiKeyHash(k)]
    /\ UNCHANGED <<tenancyVars, mode, documents, events, dian, told>>

SameDocument(e, row) ==
    /\ documents[e] # None
    /\ documents[e].tenant = row.tenant /\ documents[e].issuer = row.issuer
    /\ documents[e].prefix = row.prefix /\ documents[e].number = row.number

\* insert_inbound: ON CONFLICT ON CONSTRAINT uq_tenant_document DO NOTHING.
InsertInbound(row) ==
    IF \E e \in DocId : SameDocument(e, row) THEN UNCHANGED documents
    ELSE \E d \in DocId :
            /\ documents[d] = None
            /\ documents' = [documents EXCEPT ![d] = row]

\* receive_inbound_invoice: verified when the process can verify, and else
\* unverified, when that is allowed.
ReceiveInvoice(r, zip) ==
    LET t == request[r].tenant  x == ExtractFirstXml(zip) IN
    /\ request[r].pc = "in"
    /\ Respond(r)
    /\ IF x # NoXml /\ mode = "verify" /\ ValidVerified(t, x)
       THEN InsertInbound(VerifiedRow(t, x))
       ELSE IF x # NoXml /\ mode = "unverified" /\ ValidUnverified(t, x)
       THEN InsertInbound(UnverifiedRow(t, x))
       ELSE UNCHANGED documents
    /\ UNCHANGED <<tenancyVars, mode, events, dian, told>>

\* Mutant of RegisterEvent: any document, verified or not.
RegisterEventAny(r, d) ==
    /\ request[r].pc = "in"
    /\ documents[d] # None /\ documents[d].tenant = request[r].tenant
    /\ request' = [request EXCEPT ![r].pc = "event", ![r].doc = d]
    /\ UNCHANGED <<tenancyVars, mode, documents, events, dian, told>>

\* register_event: a received document of the tenant, that was verified, and
\* a known code; its ApplicationResponse is generated.
RegisterEvent(r, d) ==
    /\ request[r].pc = "in"
    /\ documents[d] # None /\ documents[d].tenant = request[r].tenant
    /\ documents[d].verified
    /\ request' = [request EXCEPT ![r].pc = "event", ![r].doc = d]
    /\ UNCHANGED <<tenancyVars, mode, documents, events, dian, told>>

EventsReceived ==
    MapThenFoldSet(LAMBDA x, y : x + y, 0,
                   LAMBDA d : dian[d].accepted + dian[d].rejected,
                   LAMBDA S : CHOOSE d \in S : TRUE, DocId)

\* SendEventUpdateStatus reaches the DIAN, which answers s.
DianReceives(d, s) ==
    /\ EventsReceived < MaxEvents
    /\ dian' = [dian EXCEPT ![d][s] = @ + 1]

\* The answer arrives; one without a StatusCode is taken for a rejection.
SendEvent(r) ==
    LET d == request[r].doc IN
    /\ request[r].pc = "event"
    /\ \E s \in {"accepted", "rejected"}, seen \in {"accepted", "rejected"} :
          /\ DianReceives(d, s)
          /\ seen = "accepted" => s = "accepted"
          /\ request' = [request EXCEPT ![r].pc = "answered", ![r].status = seen]
    /\ UNCHANGED <<tenancyVars, mode, documents, events, told>>

\* Signing fails, or the call does, before or after the DIAN has the event.
SendFails(r) ==
    /\ request[r].pc = "event"
    /\ \/ UNCHANGED dian
       \/ \E s \in {"accepted", "rejected"} : DianReceives(request[r].doc, s)
    /\ Respond(r)
    /\ UNCHANGED <<tenancyVars, mode, documents, events, told>>

Tells(r) ==
    told' = [told EXCEPT ![request[r].doc] = @ + IF request[r].status = "accepted"
                                                 THEN 1 ELSE 0]

\* record_event, and the answer to the client.
RecordEvent(r) ==
    /\ request[r].pc = "answered"
    /\ events' = [events EXCEPT ![request[r].doc][request[r].status] = @ + 1]
    /\ Tells(r)
    /\ Respond(r)
    /\ UNCHANGED <<tenancyVars, mode, documents, dian>>

\* Mutant of RecordFails: the error of record_event is ignored.
RecordFailsIgnored(r) ==
    /\ request[r].pc = "answered"
    /\ Tells(r)
    /\ Respond(r)
    /\ UNCHANGED <<tenancyVars, mode, documents, events, dian>>

\* record_event fails: the DIAN has an event that the database does not.
RecordFails(r) ==
    /\ request[r].pc = "answered"
    /\ Respond(r)
    /\ UNCHANGED <<tenancyVars, mode, documents, events, dian, told>>

\* The process restarts, perhaps with another configuration.
Restart(m) ==
    /\ mode' = m
    /\ request' = [r \in Request |-> NoRequest]
    /\ UNCHANGED <<tenancyVars, documents, events, dian, told>>

Next ==
    \/ TenancyNext /\ UNCHANGED receptionVars
    \/ \E r \in Request :
          \/ \E k \in Key : Authenticate(r, k)
          \/ \E zip \in Zip : ReceiveInvoice(r, zip)
          \/ \E d \in DocId : RegisterEvent(r, d)
          \/ SendEvent(r) \/ SendFails(r) \/ RecordEvent(r) \/ RecordFails(r)
    \/ \E m \in Mode : Restart(m)

Spec == Init /\ [][Next]_vars

-----------------------------------------------------------------------------
(* Properties.                                                             *)

\* A RADIAN event has the effects of a negotiable instrument: whatever was
\* registered before without verification, under the same number or by a
\* process configured in another way, the DIAN only receives events about an
\* invoice that it has validated itself, from the tenant that is its customer.
EventsAreAboutValidated ==
    \A d \in DocId :
       dian[d] # NoEvents =>
          /\ documents[d] # None
          /\ documents[d].cufe.text \in DianCufe
          /\ documents[d].customer = nit[documents[d].tenant]

\* What a client was told is in dian_events, and what is there as accepted
\* the DIAN did accept: when one of the steps of register_event fails, only
\* the DIAN may know more than the others.
NoEventIsMadeUp ==
    \A d \in DocId :
       /\ told[d] <= events[d].accepted
       /\ events[d].accepted <= dian[d].accepted

Memory ==
    INSTANCE InMemoryReception WITH
        Tenant <- Tenant, Nit <- Nit, Key <- Key, DocId <- DocId, Row <- Row,
        None <- None, nit <- nit, owner <- owner, revoked <- revoked,
        audit <- audit, documents <- documents, events <- events

\* However administrators and requests meet in the database, the tables move
\* as those of InMemoryStore, one operation at a time: one tenant per tax id,
\* one entry of the log for each tenant, key and revocation, even of a key
\* revoked twice at once, and one document per tenant, issuer and number.
StoredAsInMemory == Memory!Spec
=============================================================================
