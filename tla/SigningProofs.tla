---------------------------- MODULE SigningProofs ----------------------------
(***************************************************************************)
(* Theorems about Signing, for every set of certificates, paths, calls of  *)
(* administrators and signatures, and every bound.                         *)
(***************************************************************************)
EXTENDS Signing, TLAPS

-----------------------------------------------------------------------------
(* The invariants.                                                         *)

\* A signature under way has the key_ref of its kind of provider, and one on
\* its way to the cache of the transit provider has read a secret.
Refs(s) ==
    /\ signer[s].pc # "idle" =>
          (IF provider = "local" THEN signer[s].key_ref = Local
                                 ELSE signer[s].key_ref \in Path)
    /\ signer[s].pc = "insert" => provider = "transit" /\ signer[s].read # None

TypeInv == SigningTypeOK /\ \A s \in Signer : Refs(s)

\* At most one call is past its INSERT, and it revokes whatever is active.
CallInv ==
    /\ \A a, b \in Admin : call[a].pc = "commit" /\ call[b].pc = "commit" => a = b
    /\ \A a \in Admin :
          /\ call[a].pc # "idle" => call[a].cert \in Cert
          /\ call[a].pc = "commit" => Active \subseteq call[a].seen

-----------------------------------------------------------------------------
(* Type correctness.                                                       *)

Entry == [version : 0..MaxReplaced, fresh : BOOLEAN] \cup {NoEntry}

Signature ==
    [pc : {"idle", "lookup", "insert", "attach", "done"},
     key_ref : Path \cup {Local},
     certificate : Version, key : Version, read : Version]

\* A version that was found, in Vault, in the cache or on its way to it.
Identity == 0..MaxReplaced

\* The versions, without their arithmetic.
LEMMA Versions ==
    /\ Identity \subseteq Version /\ None \in Version /\ None \notin Identity
    /\ 0 \in Identity
    /\ \A v \in Version : v \in Identity \/ v = None
  BY SigningAssumption DEF Identity, Version, None

\* A slot without a signature is well typed.
LEMMA IdleType == NoSignature \in Signature
  BY Versions DEF NoSignature, Signature

\* What an identity that is found makes of a signature.
LEMMA FoundType ==
    ASSUME SigningTypeOK, NEW s \in Signer, NEW v \in Identity, Found(s, v)
    PROVE  /\ signer' \in [Signer -> Signature]
           /\ \A t \in Signer : t # s => signer'[t] = signer[t]
           /\ signer'[s].key_ref = signer[s].key_ref
           /\ signer'[s].pc \in {"lookup", "attach"}
  <1>1. signer \in [Signer -> Signature] /\ v \in Version /\ None \in Version
    BY Versions DEF SigningTypeOK, Signature
  <1>2. CASE signer[s].certificate = None
    BY <1>1, <1>2 DEF Found, Signature
  <1>3. CASE signer[s].certificate # None
    BY <1>1, <1>3 DEF Found, Signature
  <1>4. QED
    BY <1>2, <1>3

\* However an identity is looked up, in the cache, in an answer of Vault or in
\* the local pair, it is one that was found.
LEMMA Finds ==
    ASSUME TypeInv, NEW s \in Signer,
           CacheHit(s) \/ CacheInsert(s) \/ ReadKv(s) \/ UseLocal(s)
    PROVE  /\ UNCHANGED <<provider, certVars, vault>>
           /\ \E v \in Identity :
                 /\ Found(s, v)
                 /\ \/ UNCHANGED cache
                    \/ /\ signer[s].key_ref \in Path
                       /\ cache' = [cache EXCEPT ![signer[s].key_ref] =
                                      [version |-> v, fresh |-> TRUE]]
  <1> DEFINE p == signer[s].key_ref
  <1>1. /\ signer[s] \in Signature /\ Refs(s)
        /\ p \in Path => cache[p] \in Entry /\ vault[p] \in Identity
    BY DEF TypeInv, SigningTypeOK, Signature, Entry, Identity
  <1>2. CASE CacheHit(s)
    <2>1. p \in Path
      BY <1>1, <1>2 DEF CacheHit, Refs
    <2>2. cache[p].version \in Identity
      BY <1>1, <1>2, <2>1 DEF CacheHit, Entry, Identity, NoEntry
    <2>3. QED
      BY <1>2, <2>1, <2>2 DEF CacheHit
  <1>3. CASE CacheInsert(s)
    <2>1. p \in Path /\ signer[s].read \in Identity
      BY <1>1, <1>3, Versions DEF CacheInsert, Refs, Signature
    <2>2. QED
      BY <1>3, <2>1 DEF CacheInsert
  <1>4. CASE ReadKv(s)
    <2>1. p \in Path
      BY <1>1, <1>4 DEF ReadKv, Refs
    <2>2. QED
      BY <1>1, <1>4, <2>1 DEF ReadKv
  <1>5. CASE UseLocal(s)
    BY <1>1, <1>5, Versions DEF UseLocal, Refs
  <1>6. QED
    BY <1>2, <1>3, <1>4, <1>5

\* The other steps of a signature: it starts, reads, or leaves what it found.
LEMMA Moves ==
    ASSUME TypeInv, NEW s \in Signer,
           \/ StartSigning(s) \/ ReadSecret(s) \/ AttachDocument(s)
           \/ AttachEnvelope(s) \/ Return(s) \/ SignFails(s)
    PROVE  /\ UNCHANGED <<provider, certVars, vault, cache>>
           /\ signer' \in [Signer -> Signature]
           /\ \A t \in Signer : t # s => signer'[t] = signer[t]
           /\ \/ signer'[s] = NoSignature
              \/ /\ signer[s].pc = "attach"
                 /\ signer'[s] = [signer[s] EXCEPT !.pc = "done"]
              \/ /\ provider = "transit" /\ signer[s].pc = "lookup"
                 /\ signer[s].key_ref \in Path
                 /\ signer'[s] = [signer[s] EXCEPT !.pc = "insert",
                                                   !.read = vault[signer[s].key_ref]]
              \/ \E ref \in Path \cup {Local} :
                    /\ IF provider = "local" THEN ref = Local ELSE ref \in Path
                    /\ signer'[s] = [NoSignature EXCEPT !.pc = "lookup", !.key_ref = ref]
  <1>1. /\ signer \in [Signer -> Signature] /\ signer[s] \in Signature /\ Refs(s)
        /\ vault \in [Path -> Identity]
    BY DEF TypeInv, SigningTypeOK, Signature, Identity
  <1>2. CASE StartSigning(s)
    <2>1. PICK ref \in IF provider = "local" THEN {Local}
                       ELSE {PathOf[c] : c \in {d \in Active : now < Expiration[d]}} :
             signer' = [signer EXCEPT ![s] = [NoSignature EXCEPT !.pc = "lookup", !.key_ref = ref]]
      BY <1>2 DEF StartSigning
    <2>2. IF provider = "local" THEN ref = Local ELSE ref \in Path
      BY <2>1, SigningAssumption DEF Active
    <2>3. [NoSignature EXCEPT !.pc = "lookup", !.key_ref = ref] \in Signature
      BY <2>2, IdleType DEF Signature
    <2>4. QED
      BY <1>1, <1>2, <2>1, <2>2, <2>3 DEF StartSigning
  <1>3. CASE ReadSecret(s)
    <2>1. signer[s].key_ref \in Path
      BY <1>1, <1>3 DEF ReadSecret, Refs
    <2>2. vault[signer[s].key_ref] \in Version
      BY <1>1, <2>1, Versions
    <2>3. signer'[s] = [signer[s] EXCEPT !.pc = "insert", !.read = vault[signer[s].key_ref]]
      BY <1>1, <1>3 DEF ReadSecret, Signature
    <2>4. signer'[s] \in Signature
      BY <1>1, <2>2, <2>3 DEF Signature
    <2>5. signer' = [signer EXCEPT ![s] = signer'[s]]
      BY <1>1, <1>3 DEF ReadSecret
    <2>6. QED
      BY <1>1, <1>3, <2>1, <2>3, <2>4, <2>5 DEF ReadSecret
  <1>4. CASE AttachDocument(s) \/ AttachEnvelope(s)
    <2>1. [signer[s] EXCEPT !.pc = "done"] \in Signature
      BY <1>1 DEF Signature
    <2>2. signer' = [signer EXCEPT ![s] = [signer[s] EXCEPT !.pc = "done"]]
      BY <1>1, <1>4 DEF AttachDocument, AttachEnvelope
    <2>3. QED
      BY <1>1, <1>4, <2>1, <2>2 DEF AttachDocument, AttachEnvelope
  <1>5. CASE Return(s) \/ SignFails(s)
    BY <1>1, <1>5, IdleType DEF Return, SignFails
  <1>6. QED
    BY <1>2, <1>3, <1>4, <1>5

\* What the rest of the steps do to the signatures and to Vault.
LEMMA RestOfKeys ==
    ASSUME TypeInv,
           \/ \E p \in Path : EntryExpires(p) \/ ReplaceSecret(p)
           \/ Tick
           \/ \E a \in Admin : \/ \E c \in Cert : RegisterCertificate(a, c)
                               \/ RevokeActive(a) \/ InsertCertificate(a)
                               \/ CommitCertificate(a) \/ AbortCall(a)
           \/ UNCHANGED signingVars
    PROVE  /\ UNCHANGED <<provider, signer>>
           /\ cache' \in [Path -> Entry] /\ vault' \in [Path -> Identity]
  <1> USE DEF keyVars, certVars
  <1>1. /\ cache \in [Path -> Entry] /\ vault \in [Path -> Identity]
    BY DEF TypeInv, SigningTypeOK, Entry, Identity
  <1>2. CASE \/ Tick
             \/ \E a \in Admin : \/ \E c \in Cert : RegisterCertificate(a, c)
                                 \/ RevokeActive(a) \/ InsertCertificate(a)
                                 \/ CommitCertificate(a) \/ AbortCall(a)
             \/ UNCHANGED signingVars
    BY <1>1, <1>2 DEF Tick, RegisterCertificate, RevokeActive, InsertCertificate,
                      CommitCertificate, AbortCall, signingVars
  <1>3. ASSUME NEW p \in Path, EntryExpires(p)
        PROVE  /\ UNCHANGED <<provider, signer, vault>>
               /\ cache' \in [Path -> Entry]
    <2>1. cache[p] \in [version : 0..MaxReplaced, fresh : BOOLEAN]
      BY <1>1, <1>3 DEF EntryExpires, Entry, NoEntry
    <2>2. [cache[p] EXCEPT !.fresh = FALSE] \in Entry
      BY <2>1 DEF Entry
    <2>3. cache' = [cache EXCEPT ![p] = [cache[p] EXCEPT !.fresh = FALSE]]
      BY <1>1, <1>3 DEF EntryExpires
    <2>4. QED
      BY <1>1, <1>3, <2>1, <2>2, <2>3 DEF EntryExpires
  <1>4. ASSUME NEW p \in Path, ReplaceSecret(p)
        PROVE  /\ UNCHANGED <<provider, signer, cache>>
               /\ vault' \in [Path -> Identity]
    BY <1>1, <1>4, SigningAssumption DEF ReplaceSecret, Identity
  <1>5. QED
    BY <1>1, <1>2, <1>3, <1>4

\* The part of the state that the signatures read.
KeyTypes ==
    /\ signer \in [Signer -> Signature]
    /\ cache \in [Path -> Entry] /\ vault \in [Path -> Identity]
    /\ \A s \in Signer : Refs(s)

\* Every step keeps the types of Vault, the cache and the signatures.
LEMMA NextKeyTypes ==
    ASSUME TypeInv, [SigningNext]_signingVars
    PROVE  KeyTypes' /\ UNCHANGED provider
  <1>1. KeyTypes
    BY DEF TypeInv, SigningTypeOK, KeyTypes, Signature, Entry, Identity
  <1>2. ASSUME NEW s \in Signer,
               CacheHit(s) \/ CacheInsert(s) \/ ReadKv(s) \/ UseLocal(s)
        PROVE  KeyTypes' /\ UNCHANGED provider
    <2>1. PICK v \in Identity :
             /\ Found(s, v)
             /\ \/ UNCHANGED cache
                \/ /\ signer[s].key_ref \in Path
                   /\ cache' = [cache EXCEPT ![signer[s].key_ref] =
                                  [version |-> v, fresh |-> TRUE]]
      BY <1>2, Finds
    <2>2. UNCHANGED <<provider, vault>> /\ signer[s].pc # "idle"
      BY <1>2, Finds DEF CacheHit, CacheInsert, ReadKv, UseLocal
    <2>3. cache' \in [Path -> Entry]
      <3>1. [version |-> v, fresh |-> TRUE] \in Entry
        BY DEF Entry, Identity
      <3>2. QED
        BY <1>1, <2>1, <3>1 DEF KeyTypes
    <2>4. /\ signer' \in [Signer -> Signature]
          /\ \A t \in Signer : t # s => signer'[t] = signer[t]
          /\ signer'[s].key_ref = signer[s].key_ref
          /\ signer'[s].pc \in {"lookup", "attach"}
      BY <2>1, FoundType DEF TypeInv
    <2>5. \A t \in Signer : Refs(t)'
      BY <1>1, <2>2, <2>4 DEF KeyTypes, Refs
    <2>6. QED
      BY <1>1, <2>2, <2>3, <2>4, <2>5 DEF KeyTypes
  <1>3. ASSUME NEW s \in Signer,
               \/ StartSigning(s) \/ ReadSecret(s) \/ AttachDocument(s)
               \/ AttachEnvelope(s) \/ Return(s) \/ SignFails(s)
        PROVE  KeyTypes' /\ UNCHANGED provider
    <2>1. /\ UNCHANGED <<provider, vault, cache>>
          /\ signer' \in [Signer -> Signature]
          /\ \A t \in Signer : t # s => signer'[t] = signer[t]
      BY <1>3, Moves
    <2>2. signer[s] \in Signature /\ Refs(s)
      BY <1>1 DEF KeyTypes
    <2>3. Refs(s)'
      <3>1. CASE signer'[s] = NoSignature
        BY <3>1 DEF Refs, NoSignature
      <3>2. CASE signer[s].pc = "attach" /\ signer'[s] = [signer[s] EXCEPT !.pc = "done"]
        BY <2>1, <2>2, <3>2 DEF Refs, Signature
      <3>3. CASE /\ provider = "transit" /\ signer[s].pc = "lookup"
                 /\ signer[s].key_ref \in Path
                 /\ signer'[s] = [signer[s] EXCEPT !.pc = "insert",
                                                   !.read = vault[signer[s].key_ref]]
        <4>1. vault[signer[s].key_ref] # None
          BY <1>1, <3>3, Versions DEF KeyTypes
        <4>2. QED
          BY <2>1, <2>2, <3>3, <4>1 DEF Refs, Signature
      <3>4. ASSUME NEW ref \in Path \cup {Local},
                   IF provider = "local" THEN ref = Local ELSE ref \in Path,
                   signer'[s] = [NoSignature EXCEPT !.pc = "lookup", !.key_ref = ref]
            PROVE  Refs(s)'
        BY <2>1, <3>4 DEF Refs, NoSignature
      <3>5. QED
        BY <1>3, <3>1, <3>2, <3>3, <3>4, Moves
    <2>4. \A t \in Signer : Refs(t)'
      BY <1>1, <2>1, <2>3 DEF KeyTypes, Refs
    <2>5. QED
      BY <1>1, <2>1, <2>4 DEF KeyTypes
  <1>4. CASE \/ \E p \in Path : EntryExpires(p) \/ ReplaceSecret(p)
             \/ Tick
             \/ \E a \in Admin : \/ \E c \in Cert : RegisterCertificate(a, c)
                                 \/ RevokeActive(a) \/ InsertCertificate(a)
                                 \/ CommitCertificate(a) \/ AbortCall(a)
             \/ UNCHANGED signingVars
    <2>1. /\ UNCHANGED <<provider, signer>>
          /\ cache' \in [Path -> Entry] /\ vault' \in [Path -> Identity]
      BY <1>4, RestOfKeys
    <2>2. QED
      BY <1>1, <2>1 DEF KeyTypes, Refs
  <1>5. QED
    BY <1>2, <1>3, <1>4 DEF SigningNext, SignStep

-----------------------------------------------------------------------------
(* The calls of the administrators.                                        *)

Call == [pc : {"idle", "update", "insert", "commit"},
         cert : Cert \cup {NoCert}, seen : SUBSET Cert]

CallTypes ==
    /\ status \in [Cert -> {"none", "active", "revoked"}]
    /\ now \in 0..MaxTime
    /\ audit \in Seq(Cert)
    /\ call \in [Admin -> Call]

AdminStep(a) ==
    \/ \E c \in Cert : RegisterCertificate(a, c)
    \/ RevokeActive(a) \/ InsertCertificate(a)
    \/ CommitCertificate(a) \/ AbortCall(a)

\* Each statement of an activation: where its call is left, and with which
\* rows; only COMMIT changes the certificates.
LEMMA CallStep ==
    ASSUME CallTypes, CallInv, NEW a \in Admin, AdminStep(a)
    PROVE  /\ call' \in [Admin -> Call] /\ UNCHANGED now
           /\ \A b \in Admin : b # a => call'[b] = call[b]
           /\ \/ UNCHANGED <<status, audit>> /\ call'[a] = NoCall
              \/ /\ UNCHANGED <<status, audit>> /\ call'[a].cert \in Cert
                 /\ call'[a].pc \in {"update", "insert"}
              \/ /\ UNCHANGED <<status, audit>> /\ call'[a].cert \in Cert
                 /\ call'[a].pc = "commit" /\ Active \subseteq call'[a].seen
                 /\ \A b \in Admin \ {a} : call[b].pc # "commit"
              \/ CommitCertificate(a) /\ call'[a] = NoCall
  <1>1. /\ call \in [Admin -> Call] /\ call[a] \in Call /\ NoCall \in Call
        /\ Active \in SUBSET Cert
        /\ call[a].pc # "idle" => call[a].cert \in Cert
    BY DEF CallTypes, CallInv, NoCall, Call, Active
  <1>2. ASSUME NEW c \in Cert, RegisterCertificate(a, c)
        PROVE  /\ UNCHANGED <<status, audit, now>> /\ call'[a].cert \in Cert
               /\ call'[a].pc \in {"update", "insert"} /\ call' \in [Admin -> Call]
               /\ \A b \in Admin : b # a => call'[b] = call[b]
    <2>1. [pc |-> "update", cert |-> c, seen |-> Active] \in Call
      BY <1>1 DEF Call
    <2>2. QED
      BY <1>1, <1>2, <2>1 DEF RegisterCertificate
  <1>3. CASE RevokeActive(a)
    <2>1. call[a].seen \cap Active \in SUBSET Cert
      BY <1>1 DEF Call
    <2>2. call'[a] = [call[a] EXCEPT !.pc = "insert", !.seen = call[a].seen \cap Active]
      BY <1>1, <1>3 DEF RevokeActive, Call
    <2>3. call'[a] \in Call /\ call'[a].pc = "insert" /\ call'[a].cert \in Cert
      BY <1>1, <1>3, <2>1, <2>2 DEF Call, RevokeActive
    <2>4. call' = [call EXCEPT ![a] = call'[a]]
      BY <1>1, <1>3 DEF RevokeActive
    <2>5. QED
      BY <1>1, <1>3, <2>3, <2>4 DEF RevokeActive
  <1>4. CASE InsertCertificate(a)
    <2>1. CASE Active \subseteq call[a].seen
      <3>1. [call[a] EXCEPT !.pc = "commit"] \in Call
        BY <1>1 DEF Call
      <3>2. call' = [call EXCEPT ![a] = [call[a] EXCEPT !.pc = "commit"]]
        BY <1>4, <2>1 DEF InsertCertificate
      <3>3. /\ call'[a].pc = "commit" /\ call'[a].seen = call[a].seen
            /\ call'[a].cert = call[a].cert /\ call' \in [Admin -> Call]
            /\ \A b \in Admin : b # a => call'[b] = call[b]
        BY <1>1, <3>1, <3>2 DEF Call
      <3>4. QED
        BY <1>1, <1>4, <2>1, <3>3 DEF InsertCertificate
    <2>2. CASE ~(Active \subseteq call[a].seen)
      BY <1>1, <1>4, <2>2 DEF InsertCertificate
    <2>3. QED
      BY <2>1, <2>2
  <1>5. CASE CommitCertificate(a)
    BY <1>1, <1>5 DEF CommitCertificate
  <1>6. CASE AbortCall(a)
    BY <1>1, <1>6 DEF AbortCall
  <1>7. QED
    BY <1>2, <1>3, <1>4, <1>5, <1>6 DEF AdminStep

\* What COMMIT makes of the certificates: the one of the call is active, and
\* nothing else, and it is the last entry of the audit log.
LEMMA CommitReplaces ==
    ASSUME CallTypes, CallInv, NEW a \in Admin, CommitCertificate(a)
    PROVE  /\ status' \in [Cert -> {"none", "active", "revoked"}]
           /\ audit' \in Seq(Cert)
           /\ Active' = {call[a].cert}
           /\ audit' # <<>> /\ audit'[Len(audit')] = call[a].cert
  <1>1. /\ call[a].cert \in Cert /\ Active \subseteq call[a].seen
        /\ status \in [Cert -> {"none", "active", "revoked"}] /\ audit \in Seq(Cert)
    BY DEF CommitCertificate, CallInv, CallTypes
  <1>2. \A d \in Cert : status'[d] = IF d = call[a].cert THEN "active"
                                     ELSE IF d \in call[a].seen THEN "revoked"
                                     ELSE status[d]
    BY DEF CommitCertificate
  <1>3. status' \in [Cert -> {"none", "active", "revoked"}]
    BY <1>1 DEF CommitCertificate
  <1>4. Active' = {call[a].cert}
    <2>1. \A d \in Cert : status'[d] = "active" <=> d = call[a].cert
      BY <1>1, <1>2 DEF Active
    <2>2. QED
      BY <1>1, <2>1 DEF Active
  <1>5. audit' = Append(audit, call[a].cert)
    BY DEF CommitCertificate
  <1>6. /\ audit' \in Seq(Cert) /\ audit' # <<>>
        /\ audit'[Len(audit')] = call[a].cert
    BY <1>1, <1>5
  <1>7. QED
    BY <1>3, <1>4, <1>6

\* Every step keeps the invariant of the activations, with the property that
\* it is there for: the two are inductive together.
LEMMA NextCall ==
    ASSUME CallTypes, CallInv, LastActivatedIsActive, [SigningNext]_signingVars
    PROVE  CallTypes' /\ CallInv' /\ LastActivatedIsActive'
  <1> USE DEF keyVars, certVars
  <1>1. ASSUME NEW a \in Admin, AdminStep(a)
        PROVE  CallTypes' /\ CallInv' /\ LastActivatedIsActive'
    <2>1. /\ call' \in [Admin -> Call] /\ UNCHANGED now
          /\ \A b \in Admin : b # a => call'[b] = call[b]
      BY <1>1, CallStep
    <2>2. CASE UNCHANGED <<status, audit>>
      <3>1. UNCHANGED Active
        BY <2>2 DEF Active
      <3>2. /\ call'[a].pc # "idle" => call'[a].cert \in Cert
            /\ call'[a].pc = "commit" => /\ Active \subseteq call'[a].seen
                                         /\ \A b \in Admin \ {a} : call[b].pc # "commit"
        <4>1. ~CommitCertificate(a)
          <5> SUFFICES ASSUME CommitCertificate(a) PROVE FALSE
            OBVIOUS
          <5>1. audit' = Append(audit, call[a].cert) /\ audit \in Seq(Cert)
                /\ call[a].cert \in Cert
            BY DEF CommitCertificate, CallTypes, CallInv
          <5>2. Len(audit') = Len(audit) + 1 /\ Len(audit) \in Nat
            BY <5>1
          <5>3. QED
            BY <2>2, <5>2
        <4>2. QED
          BY <1>1, <4>1, CallStep DEF NoCall
      <3>3. CallInv'
        BY <2>1, <3>1, <3>2 DEF CallInv
      <3>4. QED
        BY <2>1, <2>2, <3>1, <3>3 DEF CallTypes, LastActivatedIsActive
    <2>3. CASE CommitCertificate(a)
      <3>1. call'[a] = NoCall
        BY <1>1, <2>3 DEF CommitCertificate, CallTypes
      <3>2. call[a].pc = "commit"
        BY <2>3 DEF CommitCertificate
      \* No other call is past its INSERT.
      <3>3. \A b \in Admin : call'[b].pc # "commit"
        BY <2>1, <3>1, <3>2 DEF CallInv, NoCall
      <3>4. CallInv'
        BY <2>1, <3>1, <3>3 DEF CallInv, NoCall
      <3>5. QED
        BY <2>1, <2>3, <3>4, CommitReplaces DEF CallTypes, LastActivatedIsActive
    <2>4. QED
      BY <1>1, <2>2, <2>3, CallStep
  <1>2. CASE Tick
    <2>1. now' \in 0..MaxTime /\ UNCHANGED <<status, audit, call>>
      BY <1>2, SigningAssumption DEF Tick, CallTypes
    <2>2. QED
      BY <2>1 DEF CallTypes, CallInv, LastActivatedIsActive, Active
  <1>3. CASE \/ \E s \in Signer : StartSigning(s) \/ SignStep(s) \/ SignFails(s)
             \/ \E p \in Path : EntryExpires(p) \/ ReplaceSecret(p)
             \/ UNCHANGED signingVars
    <2>1. UNCHANGED <<status, now, audit, call>>
      BY <1>3 DEF StartSigning, SignStep, SignFails, CacheHit, ReadSecret, CacheInsert,
                  ReadKv, UseLocal, AttachDocument, AttachEnvelope, Return,
                  EntryExpires, ReplaceSecret, signingVars
    <2>2. QED
      BY <2>1 DEF CallTypes, CallInv, LastActivatedIsActive, Active
  <1>4. QED
    BY <1>1, <1>2, <1>3 DEF SigningNext, AdminStep

-----------------------------------------------------------------------------
(* The theorems.                                                           *)

\* Nothing is cached or looked up at first.
LEMMA InitKey == SigningInit => TypeInv
  <1> SUFFICES ASSUME SigningInit
               PROVE  TypeInv
    OBVIOUS
  <1>1. /\ signer \in [Signer -> Signature] /\ cache \in [Path -> Entry]
        /\ vault \in [Path -> Identity]
    BY IdleType, Versions DEF SigningInit, Entry
  <1>2. SigningTypeOK
    BY <1>1, SigningAssumption DEF SigningInit, SigningTypeOK, Signature, Entry, Identity, NoCall
  <1>3. \A s \in Signer : Refs(s)
    BY DEF SigningInit, NoSignature, Refs
  <1>4. QED
    BY <1>2, <1>3 DEF TypeInv

\* No certificate is registered at first, and no call is under way.
LEMMA InitCall == SigningInit => CallTypes /\ CallInv /\ LastActivatedIsActive
  BY SigningAssumption
     DEF SigningInit, CallTypes, Call, CallInv, LastActivatedIsActive, Active, NoCall

\* However the calls of administrators interleave, fail or are rolled back, a
\* tenant that has had a certificate has exactly one active, the last that
\* the audit log has.
THEOREM LastActivatedIsActiveHolds == SigningSpec => []LastActivatedIsActive
  <1>1. /\ CallTypes /\ CallInv /\ LastActivatedIsActive /\ [SigningNext]_signingVars
        => (CallTypes /\ CallInv /\ LastActivatedIsActive)'
    BY NextCall
  <1>2. QED
    BY <1>1, InitCall, PTL DEF SigningSpec

\* The certificates and the calls are well typed in every reachable state.
LEMMA CallsTyped == SigningSpec => []CallTypes
  <1>1. /\ CallTypes /\ CallInv /\ LastActivatedIsActive /\ [SigningNext]_signingVars
        => (CallTypes /\ CallInv /\ LastActivatedIsActive)'
    BY NextCall
  <1>2. QED
    BY <1>1, InitCall, PTL DEF SigningSpec

\* Every variable is well typed in every reachable state.
LEMMA TypeInvariant == SigningSpec => []TypeInv
  <1>1. TypeInv /\ [SigningNext]_signingVars /\ CallTypes' => TypeInv'
    <2> SUFFICES ASSUME TypeInv, [SigningNext]_signingVars, CallTypes'
                 PROVE  TypeInv'
      OBVIOUS
    <2>1. KeyTypes' /\ provider' \in Provider
      BY NextKeyTypes DEF TypeInv, SigningTypeOK
    <2>2. SigningTypeOK'
      BY <2>1 DEF SigningTypeOK, KeyTypes, CallTypes, Call, Signature, Entry, Identity
    <2>3. QED
      BY <2>1, <2>2 DEF TypeInv, KeyTypes
  <1>2. QED
    BY <1>1, InitKey, CallsTyped, PTL DEF SigningSpec

\* Every variable keeps its type; above all, the cache of identities holds
\* what was found in Vault and nothing else.
THEOREM SigningTypeCorrect == SigningSpec => []SigningTypeOK
  <1>1. TypeInv => SigningTypeOK
    BY DEF TypeInv
  <1>2. QED
    BY <1>1, TypeInvariant, PTL
=============================================================================
