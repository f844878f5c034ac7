-------------------------- MODULE EnvelopeStore_proofs --------------------------
(***************************************************************************)
(* Theorems about EnvelopeStore, for any keys, texts and number of writes, *)
(* and whatever the store does to its rows.                                *)
(***************************************************************************)
EXTENDS EnvelopeStore, FiniteSetTheorems, TLAPS

\* What was made for the text that e records: a data key, its wrapping, the
\* cipher and the envelope.
KeyOf(e) == [id |-> e.n, len |-> 32]

WrappedOf(e) == [cmk |-> e.arn, key |-> KeyOf(e)]

CipherOf(e) == [key |-> KeyOf(e), nonce |-> e.n, aad |-> e.arn, plain |-> e.plain]

EnvelopeOf(e) ==
    [arn |-> e.arn, dataKey |-> WrappedOf(e), nonce |-> e.n, cipher |-> CipherOf(e)]

\* Each text was encrypted under a data key and a nonce of its own.
SealedInv ==
    /\ IsFiniteSet(sealed)
    /\ \A e \in sealed :
        /\ DOMAIN e = {"n", "arn", "plain"}
        /\ e.n \in 1..Cardinality(sealed) /\ e.arn \in CMKs /\ e.plain \in Texts
    /\ \A e, f \in sealed : e.n = f.n => e = f

\* The parts of an envelope come from envelopes that were made, perhaps from
\* several; only its cipher can be noise.
Assembled(env) ==
    /\ DOMAIN env = {"arn", "dataKey", "nonce", "cipher"}
    /\ \E e \in sealed : env.dataKey = WrappedOf(e)
    /\ env.cipher = Noise \/ \E e \in sealed : env.cipher = CipherOf(e)

StoreInv ==
    /\ DOMAIN store = Slots
    /\ \A s \in Slots : store[s] = Garbled \/ Assembled(store[s])

\* A row that nothing changed holds the envelope that was written.
IntactInv ==
    /\ DOMAIN intact = Slots
    /\ \A s \in Slots :
        intact[s] # None =>
            \E e \in sealed : store[s] = EnvelopeOf(e) /\ intact[s] = e.plain

EnvelopeInv ==
    /\ registered \in CMKs \cup {""}
    /\ chosen \in [Slots -> CMKs \cup {None}]
    /\ SealedInv /\ StoreInv /\ IntactInv

LEMMA InitEnvelope == Init => EnvelopeInv
BY FS_EmptySet DEF Init, EnvelopeInv, SealedInv, StoreInv, IntactInv

------------------------------------------------------------------------------
(* What a new envelope is *)

LEMMA NewEnvelope ==
    ASSUME NEW arn, NEW plain, NEW n, NEW env \in Encrypt(arn, plain, n)
    PROVE  env = EnvelopeOf([n |-> n, arn |-> arn, plain |-> plain])
<1>1. PICK key \in DataKeys(arn, n) : Size32(key) /\ env = Seal(arn, key, n, plain)
  BY DEF Encrypt
<1>2. key = [id |-> n, len |-> 32]
  BY <1>1 DEF DataKeys, Size32
<1> QED
  BY <1>1, <1>2 DEF Seal, EnvelopeOf, WrappedOf, CipherOf, KeyOf

\* An envelope that was made is assembled from its own parts.
LEMMA Whole ==
    ASSUME NEW e \in sealed, NEW env, env = EnvelopeOf(e)
    PROVE  Assembled(env)
BY DEF Assembled, EnvelopeOf

\* A text that is encrypted is recorded once more, under a number of its own.
LEMMA SealedGrows ==
    ASSUME SealedInv, NEW arn \in CMKs, NEW plain \in Texts,
           sealed' = sealed \cup {[n |-> Cardinality(sealed) + 1, arn |-> arn, plain |-> plain]}
    PROVE  SealedInv'
<1> DEFINE new == [n |-> Cardinality(sealed) + 1, arn |-> arn, plain |-> plain]
<1>1. Cardinality(sealed) \in Nat
  BY FS_CardinalityType DEF SealedInv
<1>2. new \notin sealed
  BY <1>1 DEF SealedInv
<1>3. IsFiniteSet(sealed') /\ Cardinality(sealed') = Cardinality(sealed) + 1
  BY <1>2, FS_AddElement DEF SealedInv
<1>4. /\ DOMAIN new = {"n", "arn", "plain"}
      /\ new.n = Cardinality(sealed) + 1 /\ new.arn = arn /\ new.plain = plain
  OBVIOUS
<1>5. sealed' = sealed \cup {new}
  OBVIOUS
<1> HIDE DEF new
<1>6. ASSUME NEW e \in sealed'
      PROVE  /\ DOMAIN e = {"n", "arn", "plain"}
             /\ e.n \in 1..Cardinality(sealed') /\ e.arn \in CMKs /\ e.plain \in Texts
  BY <1>1, <1>3, <1>4, <1>5 DEF SealedInv
<1>7. ASSUME NEW e \in sealed', NEW f \in sealed', e.n = f.n
      PROVE  e = f
  BY <1>1, <1>4, <1>5, <1>7 DEF SealedInv
<1> QED
  BY <1>3, <1>6, <1>7 DEF SealedInv

\* Damage keeps an envelope assembled.
LEMMA DamageAssembles ==
    ASSUME NEW e, NEW f, Assembled(e), f = Garbled \/ Assembled(f),
           NEW env \in Damages(e, f)
    PROVE  env = Garbled \/ Assembled(env)
<1>1. CASE env = Garbled
  BY <1>1
<1>2. CASE env = [e EXCEPT !.nonce = BadNonce]
  BY <1>2 DEF Assembled
<1>3. CASE env = [e EXCEPT !.cipher = Noise]
  BY <1>3 DEF Assembled
<1>4. ASSUME NEW arn \in CMKs, env = [e EXCEPT !.arn = arn]
      PROVE  Assembled(env)
  BY <1>4 DEF Assembled
<1>5. CASE f # Garbled /\ env = [e EXCEPT !.dataKey = f.dataKey]
  BY <1>5 DEF Assembled
<1>6. CASE f # Garbled /\ env = [e EXCEPT !.cipher = f.cipher, !.nonce = f.nonce]
  BY <1>6 DEF Assembled
<1> QED
  BY <1>1, <1>2, <1>3, <1>4, <1>5, <1>6 DEF Damages

LEMMA EnvelopeInvariant == Spec => []EnvelopeInv
<1>1. Init => EnvelopeInv
  BY InitEnvelope
<1>2. EnvelopeInv /\ [Next]_envVars => EnvelopeInv'
  <2> SUFFICES ASSUME EnvelopeInv, [Next]_envVars
               PROVE  EnvelopeInv'
    OBVIOUS
  \* A step that writes nothing.
  <2>1. ASSUME UNCHANGED <<store, intact, sealed>>,
               registered' \in CMKs \cup {""}, chosen' \in [Slots -> CMKs \cup {None}]
        PROVE  EnvelopeInv'
    <3>1. SealedInv'
      BY <2>1 DEF EnvelopeInv, SealedInv
    <3>2. StoreInv'
      BY <2>1 DEF EnvelopeInv, StoreInv, Assembled
    <3>3. IntactInv'
      BY <2>1 DEF EnvelopeInv, IntactInv
    <3> QED
      BY <2>1, <3>1, <3>2, <3>3 DEF EnvelopeInv
  <2>2. ASSUME NEW s \in Slots, Choose(s)
        PROVE  EnvelopeInv'
    <3>1. chosen' \in [Slots -> CMKs \cup {None}] /\ registered' = registered
      BY <2>2, EnvelopeAssumption DEF Choose, EnvelopeInv
    <3> QED
      BY <2>1, <2>2, <3>1 DEF Choose, EnvelopeInv
  <2>3. ASSUME NEW s \in Slots, NEW plain \in Texts, Write(s, plain)
        PROVE  EnvelopeInv'
    <3> DEFINE new == [n |-> Cardinality(sealed) + 1, arn |-> chosen[s], plain |-> plain]
    <3>1. PICK env \in Encrypt(chosen[s], plain, Cardinality(sealed) + 1) :
            /\ store' = [store EXCEPT ![s] = env]
            /\ sealed' = sealed \cup {[n |-> env.nonce, arn |-> chosen[s], plain |-> plain]}
      BY <2>3 DEF Write
    <3>2. env = EnvelopeOf(new)
      BY <3>1, NewEnvelope
    <3>3. env.nonce = Cardinality(sealed) + 1
      BY <3>2 DEF EnvelopeOf
    <3>4. sealed' = sealed \cup {new}
      BY <3>1, <3>3
    <3>5. chosen[s] \in CMKs
      BY <2>3 DEF EnvelopeInv, Write
    <3>6. new.plain = plain
      OBVIOUS
    <3>7. SealedInv'
      BY <3>4, <3>5, SealedGrows DEF EnvelopeInv
    <3> HIDE DEF new
    <3>8. Assembled(env)'
      BY <3>2, <3>4 DEF Assembled, EnvelopeOf
    <3>9. StoreInv'
      <4>1. ASSUME NEW t \in Slots, t # s
            PROVE  store'[t] = Garbled \/ Assembled(store[t])'
        <5>1. store'[t] = store[t] /\ sealed \subseteq sealed'
          BY <3>1, <3>4, <4>1 DEF EnvelopeInv, StoreInv
        <5> QED
          BY <5>1 DEF EnvelopeInv, StoreInv, Assembled
      <4>2. store'[s] = env /\ DOMAIN store' = Slots
        BY <3>1 DEF EnvelopeInv, StoreInv
      <4> QED
        BY <3>8, <4>1, <4>2 DEF StoreInv, Assembled
    <3>10. IntactInv'
      <4>1. intact' = [intact EXCEPT ![s] = plain]
        BY <2>3 DEF Write
      <4>2. ASSUME NEW t \in Slots, t # s, intact'[t] # None
            PROVE  \E e \in sealed' : store'[t] = EnvelopeOf(e) /\ intact'[t] = e.plain
        BY <3>1, <3>4, <4>1, <4>2 DEF EnvelopeInv, IntactInv, StoreInv
      <4>3. store'[s] = EnvelopeOf(new) /\ intact'[s] = new.plain
        BY <3>1, <3>2, <3>6, <4>1 DEF EnvelopeInv, IntactInv, StoreInv
      <4>4. new \in sealed'
        BY <3>4
      <4> QED
        BY <4>1, <4>2, <4>3, <4>4 DEF EnvelopeInv, IntactInv
    <3>11. registered' = registered /\ chosen' \in [Slots -> CMKs \cup {None}]
      BY <2>3 DEF Write, EnvelopeInv
    <3> QED
      BY <3>7, <3>9, <3>10, <3>11 DEF EnvelopeInv
  <2>4. ASSUME NEW s \in Slots, WriteFails(s)
        PROVE  EnvelopeInv'
    <3>1. chosen' \in [Slots -> CMKs \cup {None}] /\ registered' = registered
      BY <2>4 DEF WriteFails, EnvelopeInv
    <3> QED
      BY <2>1, <2>4, <3>1 DEF WriteFails, EnvelopeInv
  <2>5. ASSUME NEW s \in Slots, NEW t \in Slots, Damage(s, t)
        PROVE  EnvelopeInv'
    <3>1. PICK env \in Damages(store[s], store[t]) :
            store' = [store EXCEPT ![s] = env]
      BY <2>5 DEF Damage
    <3>2. Assembled(store[s]) /\ (store[t] = Garbled \/ Assembled(store[t]))
      BY <2>5 DEF Damage, EnvelopeInv, StoreInv
    <3>3. env = Garbled \/ Assembled(env)
      BY <3>1, <3>2, DamageAssembles
    <3>4. UNCHANGED <<registered, chosen, sealed>> /\ intact' = [intact EXCEPT ![s] = None]
      BY <2>5 DEF Damage
    <3>5. StoreInv'
      BY <3>1, <3>3, <3>4 DEF EnvelopeInv, StoreInv, Assembled
    <3>6. IntactInv'
      BY <3>1, <3>4 DEF EnvelopeInv, IntactInv, StoreInv
    <3>7. SealedInv'
      BY <3>4 DEF EnvelopeInv, SealedInv
    <3> QED
      BY <3>4, <3>5, <3>6, <3>7 DEF EnvelopeInv
  <2>6. ASSUME NEW arn \in CMKs \cup {""}, Register(arn)
        PROVE  EnvelopeInv'
    BY <2>1, <2>6 DEF Register, EnvelopeInv
  <2>7. ASSUME NEW arn \in CMKs, Toggle(arn)
        PROVE  EnvelopeInv'
    BY <2>1, <2>7 DEF Toggle, EnvelopeInv
  <2>8. CASE UNCHANGED envVars
    BY <2>1, <2>8 DEF envVars, EnvelopeInv
  <2> QED
    BY <2>2, <2>3, <2>4, <2>5, <2>6, <2>7, <2>8 DEF Next
<1> QED
  BY <1>1, <1>2, PTL DEF Spec

------------------------------------------------------------------------------
(* What Decrypt answers *)

\* Decrypt gets to GCM with a data key that a usable CMK wrapped.
LEMMA DecryptOK ==
    ASSUME NEW env, NEW byARN \in BOOLEAN, Decrypt(env, byARN).kind = "ok"
    PROVE  /\ env # Garbled /\ env.dataKey.cmk \in usable
           /\ env.nonce # BadNonce
           /\ env.cipher.key = env.dataKey.key
           /\ env.cipher.nonce = env.nonce /\ env.cipher.aad = env.arn
           /\ Decrypt(env, byARN).plain = env.cipher.plain
<1> DEFINE key == Unwrapped(byARN, env.arn, env.dataKey)
<1>1. Error.kind # "ok" /\ Outcome("panic", None).kind # "ok"
  BY DEF Error, Outcome
<1>2. env # Garbled
  BY <1>1 DEF Decrypt
<1>3. Size32(key) /\ env.nonce # BadNonce
      /\ Decrypt(env, byARN) = Open(key, env.nonce, env.cipher, env.arn)
  BY <1>1, <1>2 DEF Decrypt
<1>4. /\ <<env.cipher.key, env.cipher.nonce, env.cipher.aad>> = <<key, env.nonce, env.arn>>
      /\ Decrypt(env, byARN) = Outcome("ok", env.cipher.plain)
  BY <1>1, <1>3 DEF Open
<1>5. env.dataKey.cmk \in usable /\ key = env.dataKey.key
  BY <1>3 DEF Unwrapped, Size32
<1> QED
  BY <1>2, <1>3, <1>4, <1>5 DEF Outcome

\* Whatever becomes of the store, a text that Decrypt returns is one that was
\* encrypted under the key that KeyARNOf reports: the data key and the nonce
\* lead to one envelope, and the authenticated ARN to its key.
THEOREM DecryptedTextsAreGenuine == Spec => []DecryptedAsSealed
<1>1. EnvelopeInv => DecryptedAsSealed
  <2> SUFFICES ASSUME EnvelopeInv,
                      NEW s \in Slots, NEW byARN \in BOOLEAN,
                      Decrypt(store[s], byARN).kind = "ok"
               PROVE  /\ KeyARNOf(store[s]) \in usable
                      /\ \E e \in sealed : /\ e.plain = Decrypt(store[s], byARN).plain
                                           /\ e.arn = KeyARNOf(store[s])
    BY DEF DecryptedAsSealed
  <2>1. PICK env : env = store[s]
    OBVIOUS
  <2>2. /\ env # Garbled /\ env.dataKey.cmk \in usable /\ env.nonce # BadNonce
        /\ env.cipher.key = env.dataKey.key
        /\ env.cipher.nonce = env.nonce /\ env.cipher.aad = env.arn
        /\ Decrypt(env, byARN).plain = env.cipher.plain
    BY <2>1, DecryptOK
  <2>3. Assembled(env)
    BY <2>1, <2>2 DEF EnvelopeInv, StoreInv
  <2>4. PICK d \in sealed : env.dataKey = WrappedOf(d)
    BY <2>3 DEF Assembled
  <2>5. env.cipher # Noise
    <3>1. Noise.nonce = BadNonce
      BY DEF Noise
    <3> QED
      BY <2>2, <3>1
  <2>6. PICK e \in sealed : env.cipher = CipherOf(e)
    BY <2>3, <2>5 DEF Assembled
  <2>7. KeyOf(e) = KeyOf(d)
    BY <2>2, <2>4, <2>6 DEF CipherOf, WrappedOf
  <2>8. e = d
    BY <2>7 DEF KeyOf, EnvelopeInv, SealedInv
  <2>9. env.arn = e.arn /\ env.dataKey.cmk = e.arn /\ env.cipher.plain = e.plain
    BY <2>2, <2>4, <2>6, <2>8 DEF CipherOf, WrappedOf
  <2> QED
    BY <2>1, <2>2, <2>9 DEF KeyARNOf
<1> QED
  BY <1>1, EnvelopeInvariant, PTL

\* A stored text can be read for as long as the key it was written under is
\* usable, whatever the tenant has registered since.
THEOREM StoredTextsOpen == Spec => []OldEnvelopesOpen
<1>1. EnvelopeInv => OldEnvelopesOpen
  <2> SUFFICES ASSUME EnvelopeInv,
                      NEW s \in Slots, NEW byARN \in BOOLEAN,
                      intact[s] # None, KeyARNOf(store[s]) \in usable
               PROVE  Decrypt(store[s], byARN) = Outcome("ok", intact[s])
    BY DEF OldEnvelopesOpen
  <2>1. PICK e \in sealed : store[s] = EnvelopeOf(e) /\ intact[s] = e.plain
    BY DEF EnvelopeInv, IntactInv
  <2>2. PICK env : env = store[s]
    OBVIOUS
  <2>3. /\ DOMAIN env = {"arn", "dataKey", "nonce", "cipher"}
        /\ env.arn = e.arn /\ env.nonce = e.n
        /\ env.dataKey = WrappedOf(e) /\ env.cipher = CipherOf(e)
    BY <2>1, <2>2 DEF EnvelopeOf
  <2>4. env # Garbled
    BY <2>3 DEF Garbled
  <2>5. e.n \in Nat /\ e.n # BadNonce
    <3>1. Cardinality(sealed) \in Nat /\ e.n \in 1..Cardinality(sealed)
      BY FS_CardinalityType DEF EnvelopeInv, SealedInv
    <3> QED
      BY <3>1 DEF BadNonce
  <2>6. Unwrapped(byARN, env.arn, env.dataKey) = KeyOf(e)
    BY <2>2, <2>3, <2>4 DEF Unwrapped, KeyARNOf, WrappedOf
  <2>7. Size32(KeyOf(e))
    <3>1. KeyOf(e) \in [id : Nat, len : Nat] /\ KeyOf(e).len = 32
      BY <2>5 DEF KeyOf
    <3> QED
      BY <3>1, EnvelopeAssumption DEF Size32
  <2>8. Decrypt(env, byARN) = Open(KeyOf(e), e.n, CipherOf(e), e.arn)
    BY <2>3, <2>4, <2>5, <2>6, <2>7 DEF Decrypt
  <2>9. Open(KeyOf(e), e.n, CipherOf(e), e.arn) = Outcome("ok", e.plain)
    BY <2>5 DEF Open, CipherOf
  <2> QED
    BY <2>1, <2>2, <2>8, <2>9
<1> QED
  BY <1>1, EnvelopeInvariant, PTL

\* Decrypt never hands GCM a nonce of the wrong size, whatever it reads.
THEOREM DecryptNeverPanics == Spec => []NeverPanics
<1>1. NeverPanics
  <2>1. ASSUME NEW env, NEW byARN \in BOOLEAN
        PROVE  Decrypt(env, byARN).kind # "panic"
    BY DEF Decrypt, Open, Error, Outcome
  <2> QED
    BY <2>1 DEF NeverPanics
<1> QED
  BY <1>1, PTL

==============================================================================
