------------------------------ MODULE Signing ------------------------------
(***************************************************************************)
(* Signing with the certificate of a tenant: its registration by the       *)
(* administrators (register_certificate over activate_certificate), the    *)
(* choice of the active one by every signature (SignerConfig), and the     *)
(* identity behind it, read from Vault and cached for IDENTITY_TTL         *)
(* (VaultTransitProvider), or not cached (VaultKvKeyProvider), or fixed    *)
(* (LocalCertificateProvider).                                             *)
(*                                                                         *)
(* activate_certificate is modelled statement by statement at read         *)
(* committed.  A signature looks its identity up twice, for the            *)
(* certificate that it embeds and for the key that signs.  What a path of  *)
(* Vault holds, a certificate and its key, is a version number.            *)
(***************************************************************************)
EXTENDS Integers, FiniteSets, Sequences

CONSTANTS
    Cert,         \* certificates that may be registered, of one tenant
    Path,         \* paths of Vault
    PathOf,       \* [Cert -> Path]: vault_reference_path
    Expiration,   \* [Cert -> Nat]: expiration_date
    Local,        \* the key_ref of the local pair
    Admin,        \* calls of the administrators under way at once
    Signer,       \* signatures under way at once in a process
    NoCert,       \* a call without a certificate
    MaxTime,      \* bound: the clock
    MaxReplaced   \* bound: times that the secret of a path is replaced

ASSUME SigningAssumption ==
    /\ PathOf \in [Cert -> Path]
    /\ Expiration \in [Cert -> Nat]
    /\ NoCert \notin Cert /\ Local \notin Path
    /\ MaxTime \in Nat /\ MaxReplaced \in Nat

VARIABLES
    provider,   \* the provider that from_env configured
    status,     \* certificates.status
    now,        \* the clock
    audit,      \* admin_audit_log: certificate.activated, by subject
    call,       \* where each call of an administrator is
    vault,      \* version of the secret at each path
    cache,      \* cache of the provider: version and whether its TTL lasts
    signer      \* where each signature is, and what it holds

certVars    == <<status, now, audit, call>>
keyVars     == <<vault, cache, signer>>
signingVars == <<provider, certVars, keyVars>>

-----------------------------------------------------------------------------
\* from_env: Vault, with VAULT_SIGNING_MODE transit or kv, or a local pair;
\* without one of them the process does not start.
Provider == {"transit", "kv", "local"}

NoCall == [pc |-> "idle", cert |-> NoCert, seen |-> {}]

\* A version of a secret; 0 is a path that was never replaced, None nothing.
None    == -1
Version == None..MaxReplaced

NoEntry == [version |-> None, fresh |-> FALSE]

\* certificate and key: the versions that get_certificate and
\* sign_rsa_sha256 found; read: the secret on its way to the cache.
NoSignature == [pc |-> "idle", key_ref |-> Local,
                certificate |-> None, key |-> None, read |-> None]

\* The cache holds identities that were found, and nothing else.
SigningTypeOK ==
    /\ provider \in Provider
    /\ status \in [Cert -> {"none", "active", "revoked"}]
    /\ now \in 0..MaxTime
    /\ audit \in Seq(Cert)
    /\ call \in [Admin -> [pc : {"idle", "update", "insert", "commit"},
                           cert : Cert \cup {NoCert}, seen : SUBSET Cert]]
    /\ vault \in [Path -> 0..MaxReplaced]
    /\ cache \in [Path -> [version : 0..MaxReplaced, fresh : BOOLEAN] \cup {NoEntry}]
    /\ signer \in [Signer ->
          [pc : {"idle", "lookup", "insert", "attach", "done"},
           key_ref : Path \cup {Local},
           certificate : Version, key : Version, read : Version]]

SigningInit ==
    /\ provider \in Provider
    /\ status = [c \in Cert |-> "none"]
    /\ now = 0
    /\ audit = <<>>
    /\ call = [a \in Admin |-> NoCall]
    /\ vault = [p \in Path |-> 0]
    /\ cache = [p \in Path |-> NoEntry]
    /\ signer = [s \in Signer |-> NoSignature]

-----------------------------------------------------------------------------
(* The administrators.                                                     *)

Active == {c \in Cert : status[c] = "active"}

\* register_certificate: the tenant is there, the path is valid and the
\* certificate has not expired; then activate_certificate, whose UPDATE ...
\* SET status = 'revoked' has the active rows in its snapshot ...
RegisterCertificate(a, c) ==
    /\ call[a].pc = "idle"
    /\ status[c] = "none" /\ now < Expiration[c]
    /\ \A b \in Admin : call[b].cert # c
    /\ call' = [call EXCEPT ![a] = [pc |-> "update", cert |-> c, seen |-> Active]]
    /\ UNCHANGED <<provider, status, now, audit, keyVars>>

\* The rows that the UPDATE of an open transaction has locked.
Locked(a) == IF call[a].pc \in {"insert", "commit"} THEN call[a].seen ELSE {}

\* ... and revokes, once no other transaction holds them, those still active.
RevokeActive(a) ==
    /\ call[a].pc = "update"
    /\ \A b \in Admin \ {a} : Locked(b) \cap call[a].seen = {}
    /\ call' = [call EXCEPT ![a].pc = "insert", ![a].seen = @ \cap Active]
    /\ UNCHANGED <<provider, status, now, audit, keyVars>>

\* Mutant of InsertCertificate: no unique index on the active one.
InsertAlways(a) ==
    /\ call[a].pc = "insert"
    /\ call' = [call EXCEPT ![a].pc = "commit"]
    /\ UNCHANGED <<provider, status, now, audit, keyVars>>

\* The INSERT under uq_certificates_active: it waits for another that is not
\* committed, and conflicts with one that is and was not revoked here.
InsertCertificate(a) ==
    /\ call[a].pc = "insert"
    /\ \A b \in Admin \ {a} : call[b].pc # "commit"
    /\ call' = [call EXCEPT ![a] = IF Active \subseteq call[a].seen
                                   THEN [@ EXCEPT !.pc = "commit"] ELSE NoCall]
    /\ UNCHANGED <<provider, status, now, audit, keyVars>>

\* insert_audit and COMMIT.
CommitCertificate(a) ==
    LET c == call[a].cert IN
    /\ call[a].pc = "commit"
    /\ status' = [d \in Cert |-> IF d = c THEN "active"
                                 ELSE IF d \in call[a].seen THEN "revoked"
                                 ELSE status[d]]
    /\ audit' = Append(audit, c)
    /\ call' = [call EXCEPT ![a] = NoCall]
    /\ UNCHANGED <<provider, now, keyVars>>

\* A statement fails or the process dies: the transaction is rolled back.
AbortCall(a) ==
    /\ call[a].pc # "idle"
    /\ call' = [call EXCEPT ![a] = NoCall]
    /\ UNCHANGED <<provider, status, now, audit, keyVars>>

\* Time passes: certificates expire.
Tick ==
    /\ now < MaxTime
    /\ now' = now + 1
    /\ UNCHANGED <<provider, status, audit, call, keyVars>>

-----------------------------------------------------------------------------
(* The signatures.                                                         *)

\* sign_for_tenant and sign_soap_for_tenant: key_ref is the path of the active
\* certificate, which must not have expired; a local pair needs none.
StartSigning(s) ==
    /\ signer[s].pc = "idle"
    /\ \E ref \in IF provider = "local" THEN {Local}
                   ELSE {PathOf[c] : c \in {d \in Active : now < Expiration[d]}} :
          signer' = [signer EXCEPT ![s] = [NoSignature EXCEPT !.pc = "lookup", !.key_ref = ref]]
    /\ UNCHANGED <<provider, certVars, vault, cache>>

\* What get_certificate, and then sign_rsa_sha256, do with an identity.
Found(s, v) ==
    signer' = [signer EXCEPT ![s] =
                 IF signer[s].certificate = None
                 THEN [@ EXCEPT !.pc = "lookup", !.certificate = v, !.read = None]
                 ELSE [@ EXCEPT !.pc = "attach", !.key = v, !.read = None]]

\* Mutant of CacheHit: the age of the entry is not looked at.
CacheHitAnyAge(s) ==
    /\ provider = "transit" /\ signer[s].pc = "lookup"
    /\ cache[signer[s].key_ref].version # None
    /\ Found(s, cache[signer[s].key_ref].version)
    /\ UNCHANGED <<provider, certVars, vault, cache>>

\* identity, when the cache has it and its five minutes are not over.
CacheHit(s) ==
    /\ provider = "transit" /\ signer[s].pc = "lookup"
    /\ cache[signer[s].key_ref].fresh
    /\ Found(s, cache[signer[s].key_ref].version)
    /\ UNCHANGED <<provider, certVars, vault, cache>>

\* Mutant of ReadSecret: a secret without the fields is taken.
ReadSecretWithoutField(s) ==
    /\ provider = "transit" /\ signer[s].pc = "lookup"
    /\ ~cache[signer[s].key_ref].fresh
    /\ signer' = [signer EXCEPT ![s].pc = "insert", ![s].read = None]
    /\ UNCHANGED <<provider, certVars, vault, cache>>

\* identity, when it does not: read_secret, without the lock of the cache ...
ReadSecret(s) ==
    /\ provider = "transit" /\ signer[s].pc = "lookup"
    /\ ~cache[signer[s].key_ref].fresh
    /\ signer' = [signer EXCEPT ![s].pc = "insert", ![s].read = vault[signer[s].key_ref]]
    /\ UNCHANGED <<provider, certVars, vault, cache>>

\* ... and the insertion of what was read, with the age of now.
CacheInsert(s) ==
    /\ signer[s].pc = "insert"
    /\ cache' = [cache EXCEPT ![signer[s].key_ref] =
                   [version |-> signer[s].read, fresh |-> TRUE]]
    /\ Found(s, signer[s].read)
    /\ UNCHANGED <<provider, certVars, vault>>

\* VaultKvKeyProvider: the secret is read each time.
ReadKv(s) ==
    /\ provider = "kv" /\ signer[s].pc = "lookup"
    /\ Found(s, vault[signer[s].key_ref])
    /\ UNCHANGED <<provider, certVars, vault, cache>>

\* LocalCertificateProvider: the pair that the process started with.
UseLocal(s) ==
    /\ provider = "local" /\ signer[s].pc = "lookup"
    /\ Found(s, 0)
    /\ UNCHANGED <<provider, certVars, vault, cache>>

\* XadesSigner::sign, from the certificate on: the digests, SignedInfo, its
\* signature, and the ds:Signature with both, in the document ...
AttachDocument(s) ==
    /\ signer[s].pc = "attach"
    /\ signer' = [signer EXCEPT ![s].pc = "done"]
    /\ UNCHANGED <<provider, certVars, vault, cache>>

\* ... or sign_soap_envelope: Timestamp, BinarySecurityToken and signature, in
\* the envelope of a request to the DIAN.
AttachEnvelope(s) ==
    /\ signer[s].pc = "attach"
    /\ signer' = [signer EXCEPT ![s].pc = "done"]
    /\ UNCHANGED <<provider, certVars, vault, cache>>

\* The signed document or envelope is returned.
Return(s) ==
    /\ signer[s].pc = "done"
    /\ signer' = [signer EXCEPT ![s] = NoSignature]
    /\ UNCHANGED <<provider, certVars, vault, cache>>

\* Vault does not answer, or with an error: the signature is given up.
SignFails(s) ==
    /\ signer[s].pc \in {"lookup", "insert", "attach"}
    /\ signer' = [signer EXCEPT ![s] = NoSignature]
    /\ UNCHANGED <<provider, certVars, vault, cache>>

\* IDENTITY_TTL passes.
EntryExpires(p) ==
    /\ cache[p].fresh
    /\ cache' = [cache EXCEPT ![p].fresh = FALSE]
    /\ UNCHANGED <<provider, certVars, vault, signer>>

\* The secret at a path is replaced, certificate and key (external).
ReplaceSecret(p) ==
    /\ \A q \in Path : vault[q] < MaxReplaced
    /\ vault' = [vault EXCEPT ![p] = @ + 1]
    /\ UNCHANGED <<provider, certVars, cache, signer>>

SignStep(s) ==
    \/ CacheHit(s) \/ ReadSecret(s) \/ CacheInsert(s) \/ ReadKv(s) \/ UseLocal(s)
    \/ AttachDocument(s) \/ AttachEnvelope(s) \/ Return(s)

SigningNext ==
    \/ \E a \in Admin :
          \/ \E c \in Cert : RegisterCertificate(a, c)
          \/ RevokeActive(a) \/ InsertCertificate(a)
          \/ CommitCertificate(a) \/ AbortCall(a)
    \/ Tick
    \/ \E s \in Signer :
          \/ StartSigning(s)
          \/ SignStep(s) \/ SignFails(s)
    \/ \E p \in Path : EntryExpires(p) \/ ReplaceSecret(p)

SigningSpec == SigningInit /\ [][SigningNext]_signingVars

\* Signatures go on, and time passes.
SigningFairness ==
    /\ \A s \in Signer : WF_signingVars(SignStep(s))
    /\ \A p \in Path : WF_signingVars(EntryExpires(p))

-----------------------------------------------------------------------------
(* Properties.                                                             *)

\* However the calls of two administrators interleave or fail, a tenant that
\* has had a certificate has exactly one active: the one of the last entry of
\* the audit log.  So rotating never leaves it unable to sign, nor with two.
LastActivatedIsActive ==
    Active = IF audit = <<>> THEN {} ELSE {audit[Len(audit)]}

\* A secret replaced at its path does take effect: a late answer of Vault may
\* put an old identity back into the cache, but not keep it there, so sooner
\* or later every signature is made with the secret that is in Vault.
RotationTakesEffect ==
    <>[](\A s \in Signer :
            signer[s].pc = "done" /\ provider # "local" =>
               /\ signer[s].certificate = vault[signer[s].key_ref]
               /\ signer[s].key = vault[signer[s].key_ref])

(* What the comments say of the program, and the program does not do.      *)

\* get_certificate: "Certificado X.509 del firmante", the certificate of who
\* signs.  So the certificate in a signature is the one of the key that made
\* it, also while secrets are replaced, which IDENTITY_TTL is there for
\* ("rotaciones").  They are looked up one after the other, and each lookup
\* may read Vault, or find in the cache what another signature read.
SignatureMatches ==
    \A s \in Signer :
       signer[s].pc = "done" => signer[s].certificate = signer[s].key
=============================================================================
