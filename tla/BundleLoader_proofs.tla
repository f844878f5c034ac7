------------------------- MODULE BundleLoader_proofs -------------------------
(***************************************************************************)
(* Theorems about BundleLoader, for any set of reloaders and any blobs.    *)
(***************************************************************************)
EXTENDS BundleLoader, TLAPS

\* Every variable keeps its type: in particular the cache only ever holds a
\* bundle that decoded, or the nil pointer.
THEOREM TypeCorrect == Spec => []TypeOK
<1>1. Init => TypeOK
  BY DEF Init, TypeOK
<1>2. TypeOK /\ [Next]_loaderVars => TypeOK'
  <2> SUFFICES ASSUME TypeOK, [Next]_loaderVars
               PROVE  TypeOK'
    OBVIOUS
  <2> USE DEF TypeOK, Return
  <2>1. ASSUME NEW blob \in Blobs, Publish(blob)
        PROVE  TypeOK'
    BY <2>1 DEF Publish
  <2>2. ASSUME NEW p \in Reloaders, Begin(p)
        PROVE  TypeOK'
    BY <2>2 DEF Begin
  <2>3. ASSUME NEW p \in Reloaders, FetchFails(p)
        PROVE  TypeOK'
    BY <2>3 DEF FetchFails
  <2>4. ASSUME NEW p \in Reloaders, FetchVerified(p)
        PROVE  TypeOK'
    BY <2>4 DEF FetchVerified, Verified
  <2>5. ASSUME NEW p \in Reloaders, Check(p)
        PROVE  TypeOK'
    BY <2>5 DEF Check, CheckNotNewer, CheckNewer
  <2>6. ASSUME NEW p \in Reloaders, Store(p)
        PROVE  TypeOK'
    BY <2>6 DEF Store
  <2>7. ASSUME NEW w \in Watchers, WatchTick(w) \/ WatchDone(w) \/ Cancel(w)
        PROVE  TypeOK'
    BY <2>7 DEF WatchTick, WatchDone, Cancel, Reloaders
  <2>8. CASE UNCHANGED loaderVars
    BY <2>8 DEF loaderVars
  <2> QED
    BY <2>1, <2>2, <2>3, <2>4, <2>5, <2>6, <2>7, <2>8 DEF Next, Reload, Fetch
<1> QED
  BY <1>1, <1>2, PTL DEF Spec

------------------------------------------------------------------------------
IsSigned(b) == canonicalMessage(b.version, b) \in Signed

\* What a reloader holds, from the signature check to the store, is signed.
HeldIsSigned ==
    \A p \in Reloaders : got[p] # NoBundle => IsSigned(got[p])

\* Past the signature check a reloader does hold a bundle.
HoldsAfterFetch ==
    \A p \in Reloaders : pc[p] \in {"check", "store"} => got[p] # NoBundle

GenuineInv == TypeOK /\ CacheGenuine /\ HeldIsSigned /\ HoldsAfterFetch

\* A blob that passes the checks of Reload was signed by the governance key.
LEMMA VerifiedIsSigned ==
    ASSUME NEW blob \in Blobs, Verified(blob)
    PROVE  blob.body \in Bundles /\ IsSigned(blob.body)
BY SignatureAssumption, NoSignatureAssumption DEF Verified, IsSigned

LEMMA GenuineInitially == Init => GenuineInv
BY DEF Init, GenuineInv, TypeOK, CacheGenuine, HeldIsSigned, HoldsAfterFetch

LEMMA GenuineStep ==
    ASSUME GenuineInv, [Next]_loaderVars, TypeOK'
    PROVE  GenuineInv'
<1> USE DEF GenuineInv, TypeOK, CacheGenuine, HeldIsSigned, HoldsAfterFetch,
            IsSigned, Return
<1>1. ASSUME NEW blob \in Blobs, Publish(blob)
      PROVE  GenuineInv'
  BY <1>1 DEF Publish
<1>2. ASSUME NEW p \in Reloaders, Begin(p)
      PROVE  GenuineInv'
  BY <1>2 DEF Begin
<1>3. ASSUME NEW p \in Reloaders, FetchFails(p)
      PROVE  GenuineInv'
  BY <1>3 DEF FetchFails
<1>4. ASSUME NEW p \in Reloaders, FetchVerified(p)
      PROVE  GenuineInv'
  <2>1. source.body \in Bundles /\ IsSigned(source.body)
    BY <1>4, VerifiedIsSigned DEF FetchVerified
  <2>2. source.body # NoBundle
    BY <2>1, BundleAssumption
  <2> QED
    BY <1>4, <2>1, <2>2 DEF FetchVerified
<1>5. ASSUME NEW p \in Reloaders, Check(p)
      PROVE  GenuineInv'
  BY <1>5 DEF Check, CheckNotNewer, CheckNewer
<1>6. ASSUME NEW p \in Reloaders, Store(p)
      PROVE  GenuineInv'
  BY <1>6 DEF Store
<1>7. ASSUME NEW w \in Watchers, WatchTick(w) \/ WatchDone(w) \/ Cancel(w)
      PROVE  GenuineInv'
  BY <1>7 DEF WatchTick, WatchDone, Cancel, Reloaders
<1>8. CASE UNCHANGED loaderVars
  BY <1>8 DEF loaderVars
<1> QED
  BY <1>1, <1>2, <1>3, <1>4, <1>5, <1>6, <1>7, <1>8 DEF Next, Reload, Fetch

\* However many goroutines reload, and whatever the source exposes, the
\* services only ever evaluate a bundle the governance key has signed.
THEOREM AlwaysGenuine == Spec => []CacheGenuine
<1>1. GenuineInv /\ TypeOK' /\ [Next]_loaderVars => GenuineInv'
  BY GenuineStep
<1>2. GenuineInv => CacheGenuine
  BY DEF GenuineInv
<1> QED
  BY <1>1, <1>2, GenuineInitially, TypeCorrect, PTL DEF Spec

------------------------------------------------------------------------------
(***************************************************************************)
(* What a service gets that reloads from one goroutine only: its Watch, or *)
(* one caller of Reload.  The comparison with the cached version and the   *)
(* store are two steps, so with a second reloader none of the following    *)
(* holds.                                                                  *)
(***************************************************************************)
SoleReloader == \A p, q \in Reloaders : p = q

\* The comparison a reloader made is still true when it stores.
StoresNewer == \A p \in Reloaders : pc[p] = "store" => Newer(p)

OrderInv == GenuineInv /\ StoresNewer /\ ReloadIsEffective

LEMMA OrderInitially == Init => OrderInv
BY GenuineInitially DEF OrderInv, StoresNewer, ReloadIsEffective, Init

LEMMA OrderStep ==
    ASSUME SoleReloader, OrderInv, [Next]_loaderVars, GenuineInv'
    PROVE  OrderInv'
<1> SUFFICES StoresNewer' /\ ReloadIsEffective'
  BY DEF OrderInv
<1> USE DEF OrderInv, StoresNewer, ReloadIsEffective, Newer, Return,
            GenuineInv, TypeOK
<1>1. ASSUME NEW blob \in Blobs, Publish(blob)
      PROVE  StoresNewer' /\ ReloadIsEffective'
  BY <1>1 DEF Publish
<1>2. ASSUME NEW p \in Reloaders, Begin(p)
      PROVE  StoresNewer' /\ ReloadIsEffective'
  BY <1>2 DEF Begin
<1>3. ASSUME NEW p \in Reloaders, FetchFails(p)
      PROVE  StoresNewer' /\ ReloadIsEffective'
  BY <1>3 DEF FetchFails
<1>4. ASSUME NEW p \in Reloaders, FetchVerified(p)
      PROVE  StoresNewer' /\ ReloadIsEffective'
  BY <1>4 DEF FetchVerified
<1>5. ASSUME NEW p \in Reloaders, CheckNotNewer(p)
      PROVE  StoresNewer' /\ ReloadIsEffective'
  <2>1. cur # NoBundle /\ cur.version >= got[p].version
    BY <1>5, BundleAssumption DEF CheckNotNewer, HoldsAfterFetch
  <2> QED
    BY <1>5, <2>1, SoleReloader DEF CheckNotNewer, SoleReloader
<1>6. ASSUME NEW p \in Reloaders, CheckNewer(p)
      PROVE  StoresNewer' /\ ReloadIsEffective'
  BY <1>6 DEF CheckNewer
<1>7. ASSUME NEW p \in Reloaders, Store(p)
      PROVE  StoresNewer' /\ ReloadIsEffective'
  <2>1. got[p] \in Bundles /\ got[p] # NoBundle
    BY <1>7 DEF Store, HoldsAfterFetch
  <2>2. cur' # NoBundle /\ cur'.version >= got'[p].version
    BY <1>7, <2>1, BundleAssumption DEF Store
  <2> QED
    BY <1>7, <2>2, SoleReloader DEF Store, SoleReloader
<1>8. ASSUME NEW w \in Watchers, WatchTick(w) \/ WatchDone(w) \/ Cancel(w)
      PROVE  StoresNewer' /\ ReloadIsEffective'
  BY <1>8 DEF WatchTick, WatchDone, Cancel, Reloaders
<1>9. CASE UNCHANGED loaderVars
  BY <1>9 DEF loaderVars
<1> QED
  BY <1>1, <1>2, <1>3, <1>4, <1>5, <1>6, <1>7, <1>8, <1>9
     DEF Next, Reload, Fetch, Check

LEMMA OrderInvariant == ASSUME SoleReloader PROVE Spec => []OrderInv
<1>1. OrderInv /\ [Next]_loaderVars /\ TypeOK' => OrderInv'
  BY GenuineStep, OrderStep DEF OrderInv
<1> QED
  BY <1>1, OrderInitially, TypeCorrect, PTL DEF Spec

\* With a sole reloader, a Reload that returned no error leaves a cache at
\* least as new as the bundle it fetched.
THEOREM AlwaysEffective ==
    ASSUME SoleReloader PROVE Spec => []ReloadIsEffective
<1>1. OrderInv => ReloadIsEffective
  BY DEF OrderInv
<1> QED
  BY <1>1, OrderInvariant, PTL

\* The only step that touches the cache adopts a newer, signed bundle.
LEMMA StepKeepsPromise ==
    ASSUME OrderInv, [Next]_loaderVars
    PROVE  [Promise!Next]_cur
<1>1. ASSUME NEW p \in Reloaders, Store(p)
      PROVE  Promise!Next
  <2>1. got[p] \in Bundles /\ IsSigned(got[p])
    BY <1>1 DEF Store, OrderInv, GenuineInv, TypeOK, HeldIsSigned, HoldsAfterFetch
  <2>2. Promise!Adopt(got[p])
    BY <1>1 DEF Store, OrderInv, StoresNewer, Newer, Promise!Adopt
  <2> QED
    BY <2>1, <2>2 DEF Promise!Next, IsSigned
<1>2. ASSUME NEW p \in Reloaders, Begin(p) \/ Fetch(p) \/ Check(p)
      PROVE  UNCHANGED cur
  BY <1>2 DEF Begin, Fetch, FetchFails, FetchVerified, Check, CheckNotNewer, CheckNewer
<1>3. ASSUME NEW w \in Watchers, WatchTick(w) \/ WatchDone(w) \/ Cancel(w)
      PROVE  UNCHANGED cur
  BY <1>3 DEF WatchTick, WatchDone, Cancel
<1>4. ASSUME NEW blob \in Blobs, Publish(blob)
      PROVE  UNCHANGED cur
  BY <1>4 DEF Publish
<1>5. CASE UNCHANGED loaderVars
  BY <1>5 DEF loaderVars
<1> QED
  BY <1>1, <1>2, <1>3, <1>4, <1>5 DEF Next, Reload

\* With a sole reloader the loader implements MonotonicBundle: the cache is
\* only ever replaced by a signed bundle of a strictly greater version.
THEOREM LoaderKeepsPromise ==
    ASSUME SoleReloader PROVE Spec => KeepsPromise
<1>1. Init => Promise!Init
  BY DEF Init, Promise!Init
<1>2. OrderInv /\ [Next]_loaderVars => [Promise!Next]_cur
  BY StepKeepsPromise
<1> QED
  BY <1>1, <1>2, OrderInvariant, PTL DEF Spec, KeepsPromise, Promise!Spec

\* The same as the comment on Loader words it, which a second reloader breaks.
THEOREM LoneVersionNeverRegresses ==
    ASSUME SoleReloader PROVE Spec => VersionNeverRegresses
<1>1. OrderInv /\ OrderInv' /\ [Next]_loaderVars
        => [cur # NoBundle => cur' # NoBundle /\ cur'.version > cur.version]_cur
  <2> SUFFICES ASSUME OrderInv, [Next]_loaderVars, cur # NoBundle, cur' # cur
               PROVE  cur' # NoBundle /\ cur'.version > cur.version
    OBVIOUS
  <2>1. PICK b \in {b \in Bundles : canonicalMessage(b.version, b) \in Signed} :
            Promise!Adopt(b)
    BY StepKeepsPromise DEF Promise!Next
  <2> QED
    BY <2>1, BundleAssumption DEF Promise!Adopt
<1> QED
  BY <1>1, OrderInvariant, PTL DEF Spec, VersionNeverRegresses

==============================================================================
