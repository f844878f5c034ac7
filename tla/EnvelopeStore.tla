----------------------------- MODULE EnvelopeStore -----------------------------
(***************************************************************************)
(* Envelope encryption, go/crypto/envelope.go: a service stores texts of a *)
(* tenant, each sealed under a data key of its own, which a key of KMS     *)
(* wraps: the key the tenant has registered, or else the platform's.       *)
(*                                                                         *)
(* Encrypt, Decrypt and KeyARNOf are the library's.  KMS, AES-GCM and the  *)
(* service's store are not: KMS unwraps with the key it finds in the       *)
(* wrapped key or with the one it is given, GCM opens what was sealed with *)
(* the same key, nonce and additional data, and rows of the store may come *)
(* back damaged or with columns of another row.                            *)
(***************************************************************************)
EXTENDS Integers, FiniteSets

CONSTANTS
    Slots,       \* rows of the store
    CMKs,        \* customer master keys of KMS, by their ARN
    Platform,    \* the one of the platform
    Texts,       \* plaintexts
    None,
    MaxWrites    \* the bound on the envelopes made

ASSUME EnvelopeAssumption ==
    /\ Platform \in CMKs /\ "" \notin CMKs
    /\ None \notin CMKs \cup Texts \cup [id : Nat, len : Nat]
    /\ MaxWrites \in Nat

VARIABLES
    registered,  \* the tenant's key: a CMK, or "" for none
    usable,      \* the CMKs that are enabled and granted to the service
    chosen,      \* the ARN that the writer of a row has decided on
    store,       \* the envelope in each row
    intact,      \* the text last written to a row, None when the row changed since
    sealed       \* every text ever encrypted, with the ARN that was asked for

envVars == <<registered, usable, chosen, store, intact, sealed>>

\* A row that does not hold a JSON envelope.
Garbled == [garbled |-> TRUE]

\* A nonce of another size than GCM's 12 bytes; nonces are numbers otherwise.
BadNonce == 0

\* A cipher that no key opens.
Noise == [key |-> None, nonce |-> BadNonce, aad |-> "", plain |-> None]

Outcome(kind, plain) == [kind |-> kind, plain |-> plain]

Error == Outcome("error", None)

Init ==
    /\ registered \in CMKs \cup {""} /\ usable = CMKs
    /\ chosen = [s \in Slots |-> None]
    /\ store = [s \in Slots |-> Garbled]
    /\ intact = [s \in Slots |-> None]
    /\ sealed = {}

------------------------------------------------------------------------------
(* KMS and AES-GCM *)

\* A fresh data key, or None; adapters may give one of another size.
DataKeys(arn, n) == IF arn \in usable THEN {[id |-> n, len |-> l] : l \in {16, 32}}
                    ELSE {None}

Unwrapped(byARN, arn, wrapped) ==
    IF wrapped.cmk \in usable /\ (byARN => arn = wrapped.cmk) THEN wrapped.key ELSE None

\* GCM panics on a nonce of the wrong size.
Open(key, nonce, cipher, aad) ==
    IF nonce = BadNonce THEN Outcome("panic", None)
    ELSE IF <<cipher.key, cipher.nonce, cipher.aad>> = <<key, nonce, aad>>
         THEN Outcome("ok", cipher.plain) ELSE Error

------------------------------------------------------------------------------
(* The library *)

Size32(key) == key # None /\ key.len = 32

Seal(arn, key, nonce, plain) ==
    [arn |-> arn, dataKey |-> [cmk |-> arn, key |-> key], nonce |-> nonce,
     cipher |-> [key |-> key, nonce |-> nonce, aad |-> arn, plain |-> plain]]

\* The envelopes Encrypt may return; none when it returns an error.
Encrypt(arn, plain, n) ==
    {Seal(arn, key, n, plain) :
        key \in {k \in DataKeys(arn, n) : arn # "" /\ Size32(k)}}

KeyARNOf(env) == IF env = Garbled THEN "" ELSE env.arn

\* Mutant: the ARN is not authenticated.
DecryptNoAAD(env, byARN) ==
    IF env = Garbled THEN Error
    ELSE LET key == Unwrapped(byARN, env.arn, env.dataKey)
         IN  IF ~Size32(key) \/ env.nonce = BadNonce THEN Error
             ELSE Open(key, env.nonce, env.cipher, env.cipher.aad)

\* Mutant: KMS is asked with the key that is registered now.
DecryptRegistered(env, byARN) ==
    IF env = Garbled THEN Error
    ELSE LET key == Unwrapped(byARN, registered, env.dataKey)
         IN  IF ~Size32(key) \/ env.nonce = BadNonce THEN Error
             ELSE Open(key, env.nonce, env.cipher, env.arn)

\* Mutant: the size of the nonce is not checked.
DecryptAnyNonce(env, byARN) ==
    IF env = Garbled THEN Error
    ELSE LET key == Unwrapped(byARN, env.arn, env.dataKey)
         IN  IF ~Size32(key) THEN Error ELSE Open(key, env.nonce, env.cipher, env.arn)

Decrypt(env, byARN) ==
    IF env = Garbled THEN Error
    ELSE LET key == Unwrapped(byARN, env.arn, env.dataKey)
         IN  IF ~Size32(key) \/ env.nonce = BadNonce THEN Error
             ELSE Open(key, env.nonce, env.cipher, env.arn)

------------------------------------------------------------------------------
(* The service *)

\* The key for a row is looked up before the row is written; it may be
\* replaced or disabled in between.
Choose(s) ==
    /\ chosen[s] = None
    /\ chosen' = [chosen EXCEPT ![s] = IF registered = "" THEN Platform ELSE registered]
    /\ UNCHANGED <<registered, usable, store, intact, sealed>>

Write(s, plain) ==
    /\ chosen[s] # None /\ Cardinality(sealed) < MaxWrites
    /\ \E env \in Encrypt(chosen[s], plain, Cardinality(sealed) + 1) :
        /\ store' = [store EXCEPT ![s] = env]
        /\ sealed' = sealed \cup {[n |-> env.nonce, arn |-> chosen[s], plain |-> plain]}
    /\ intact' = [intact EXCEPT ![s] = plain]
    /\ chosen' = [chosen EXCEPT ![s] = None]
    /\ UNCHANGED <<registered, usable>>

\* Encrypt returns an error: nothing is written.
WriteFails(s) ==
    /\ chosen[s] # None
    /\ chosen' = [chosen EXCEPT ![s] = None]
    /\ UNCHANGED <<registered, usable, store, intact, sealed>>

Register(arn) ==
    /\ registered' = arn
    /\ UNCHANGED <<usable, chosen, store, intact, sealed>>

\* A key is disabled, or enabled again.
Toggle(arn) ==
    /\ usable' = IF arn \in usable THEN usable \ {arn} ELSE usable \cup {arn}
    /\ UNCHANGED <<registered, chosen, store, intact, sealed>>

\* What may become of the envelope e in a store that also holds f.
Damages(e, f) ==
    {Garbled, [e EXCEPT !.nonce = BadNonce], [e EXCEPT !.cipher = Noise]}
    \cup {[e EXCEPT !.arn = arn] : arn \in CMKs}
    \cup (IF f = Garbled THEN {}
          ELSE {[e EXCEPT !.dataKey = f.dataKey],
                [e EXCEPT !.cipher = f.cipher, !.nonce = f.nonce]})

Damage(s, t) ==
    /\ store[s] # Garbled
    /\ \E env \in Damages(store[s], store[t]) \ {store[s]} :
        store' = [store EXCEPT ![s] = env]
    /\ intact' = [intact EXCEPT ![s] = None]
    /\ UNCHANGED <<registered, usable, chosen, sealed>>

Next ==
    \/ \E s \in Slots :
        \/ Choose(s)
        \/ \E plain \in Texts : Write(s, plain)
        \/ WriteFails(s)
        \/ \E t \in Slots : Damage(s, t)
    \/ \E arn \in CMKs \cup {""} : Register(arn)
    \/ \E arn \in CMKs : Toggle(arn)

Spec == Init /\ [][Next]_envVars

------------------------------------------------------------------------------
(* Properties *)

\* Whatever became of the store, a text that Decrypt returns was encrypted
\* under the very key that KeyARNOf reports of its row, and that key is
\* usable: "audits can prove which key protected the data" (envelope.go
\* 40-42, 73, 106).
DecryptedAsSealed ==
    \A s \in Slots, byARN \in BOOLEAN :
        Decrypt(store[s], byARN).kind = "ok" =>
            /\ KeyARNOf(store[s]) \in usable
            /\ \E e \in sealed : /\ e.plain = Decrypt(store[s], byARN).plain
                                 /\ e.arn = KeyARNOf(store[s])

\* "A stored envelope can always be decrypted later even after the tenant's
\* registered key changes" (envelope.go 10-12), as long as its key is usable,
\* whichever way KMS finds the key.
OldEnvelopesOpen ==
    \A s \in Slots, byARN \in BOOLEAN :
        intact[s] # None /\ KeyARNOf(store[s]) \in usable =>
            Decrypt(store[s], byARN) = Outcome("ok", intact[s])

\* A damaged row is an error to its reader, never a panic (envelope.go 103).
NeverPanics ==
    \A s \in Slots, byARN \in BOOLEAN : Decrypt(store[s], byARN).kind # "panic"

==============================================================================
