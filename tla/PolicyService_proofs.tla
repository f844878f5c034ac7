-------------------------- MODULE PolicyService_proofs --------------------------
(***************************************************************************)
(* Theorems about PolicyService, for any policies, blobs and requests of a *)
(* service that reloads from one goroutine.                                *)
(***************************************************************************)
EXTENDS PolicyService, TLAPS

LP == INSTANCE BundleLoader_proofs

\* The engine only reads the loader's pointer, so a step of the service is one
\* of the loader or none.
LEMMA LoaderSteps == [Next]_serviceVars => [LP!Next]_(LP!loaderVars)
  <1>1. L!Next => LP!Next
    BY DEF L!Next, LP!Next, L!Publish, LP!Publish, L!Reload, LP!Reload, L!Begin,
           LP!Begin, L!Fetch, LP!Fetch, L!FetchFails, LP!FetchFails, L!FetchVerified,
           LP!FetchVerified, L!Verified, LP!Verified, L!canonicalMessage,
           LP!canonicalMessage, L!Check, LP!Check, L!CheckNewer, LP!CheckNewer,
           L!CheckNotNewer, LP!CheckNotNewer, L!Newer, LP!Newer, L!Store, LP!Store,
           L!Return, LP!Return, L!WatchTick, LP!WatchTick, L!WatchDone, LP!WatchDone,
           L!Cancel, LP!Cancel, L!Reloaders, LP!Reloaders
  <1>2. LoaderStep => LP!Next
    BY <1>1 DEF LoaderStep
  <1>3. UNCHANGED loaderVars => UNCHANGED LP!loaderVars
    BY DEF loaderVars, LP!loaderVars
  <1> QED
    BY <1>2, <1>3 DEF Next, EngineStep, serviceVars

\* The loader in a service behaves as the loader on its own.
LEMMA LoaderInService == Spec => LP!Spec
  <1>1. Init => LP!Init
    BY DEF Init, L!Init, LP!Init, L!Reloaders, LP!Reloaders
  <1> QED
    BY <1>1, LoaderSteps, PTL DEF Spec, LP!Spec

\* The service reloads from one goroutine.
SoleReloader == \A p, q \in Callers \cup Watchers : p = q

\* What LP's theorems ask of the constants.
LEMMA LoaderConstants ==
    /\ LP!BundleAssumption
    /\ LP!SignatureAssumption
    /\ LP!NoSignatureAssumption
    /\ SoleReloader => LP!SoleReloader
  BY LoaderAssumption
     DEF LP!BundleAssumption, LP!SignatureAssumption, LP!NoSignatureAssumption,
         LP!canonicalMessage, L!canonicalMessage, SoleReloader, LP!SoleReloader,
         LP!Reloaders

\* In a service that reloads from one goroutine, a Reload that returned no
\* error leaves a cache at least as new as the bundle it fetched.
THEOREM ReloadsAreEffective ==
    ASSUME SoleReloader PROVE Spec => []ReloadIsEffective
  <1>1. LP!SoleReloader
    BY LoaderConstants
  <1>2. LP!Spec => []LP!ReloadIsEffective
    BY <1>1, LoaderConstants, LP!AlwaysEffective, PTL
  <1>3. LP!ReloadIsEffective => ReloadIsEffective
    BY DEF ReloadIsEffective, LP!ReloadIsEffective, L!ReloadIsEffective, L!Reloaders,
           LP!Reloaders
  <1> QED
    BY <1>2, <1>3, LoaderInService, PTL

\* Every swap of the cache is the adoption of a signed, newer bundle.
LEMMA SwapAdopts ==
    ASSUME LP!OrderInv, [Next]_serviceVars
    PROVE  [\E b \in Genuine : L!Promise!Adopt(b)]_cur
  <1>1. [LP!Promise!Next]_cur
    BY LoaderConstants, LP!StepKeepsPromise, LoaderSteps
  <1> QED
    BY <1>1 DEF LP!Promise!Next, LP!Promise!Adopt, L!Promise!Adopt, Genuine,
                LP!canonicalMessage, L!canonicalMessage

\* The inductive invariant of the lone reloader, from BundleLoader_proofs.
LEMMA LoaderOrder == ASSUME SoleReloader PROVE Spec => []LP!OrderInv
  <1>1. LP!SoleReloader
    BY LoaderConstants
  <1>2. LP!Spec => []LP!OrderInv
    BY <1>1, LoaderConstants, LP!OrderInvariant, PTL
  <1> QED
    BY <1>2, LoaderInService, PTL

\* In such a service the loader implements MonotonicBundle.
THEOREM ServiceKeepsPromise ==
    ASSUME SoleReloader PROVE Spec => KeepsPromise
  <1>1. Init => L!Promise!Init
    BY DEF Init, L!Init, L!Promise!Init
  <1>2. LP!OrderInv /\ [Next]_serviceVars => [L!Promise!Next]_cur
    BY SwapAdopts DEF L!Promise!Next, Genuine
  <1> QED
    BY <1>1, <1>2, LoaderOrder, PTL DEF Spec, KeepsPromise, L!KeepsPromise, L!Promise!Spec

------------------------------------------------------------------------------
(* The engine in the service *)

\* What the getter returns is signed, or the zero bundle.
LEMMA CurrentServed ==
    LP!OrderInv => Current \in Served /\ (cur # NoBundle => cur \in Genuine)
  BY DEF LP!OrderInv, LP!GenuineInv, LP!TypeOK, LP!CacheGenuine, LP!canonicalMessage,
         L!canonicalMessage, Current, Served, Genuine

\* What the loader does to its cache is a reload of the engine.
LEMMA SwapReloads ==
    ASSUME LP!OrderInv, LP!OrderInv', [Next]_serviceVars, cur' # cur
    PROVE  <<Current, Current'>> \in
               {p \in Served \X Genuine : p[1] # ZeroBundle => p[2].version > p[1].version}
  <1>1. PICK b \in Genuine : L!Promise!Adopt(b)
    BY SwapAdopts
  <1>2. Current' = b /\ (Current # ZeroBundle => b.version > Current.version)
    BY <1>1, LoaderAssumption DEF L!Promise!Adopt, Current, Genuine
  <1> QED
    BY <1>2, CurrentServed

\* The engine of the service behaves as PolicyEngine, for bundles that are
\* signed and reloads that are upgrades: what TLC or TLAPS shows of
\* PolicyEngine for these holds in the service.
THEOREM EngineRunsInService == ASSUME SoleReloader PROVE Spec => ServiceRunsEngine
  <1>1. Init => E!Init
    BY DEF Init
  <1>2. LP!OrderInv /\ LP!OrderInv' /\ [Next]_serviceVars => [E!Next]_(E!engineVars)
    <2> SUFFICES ASSUME LP!OrderInv, LP!OrderInv', [Next]_serviceVars
                 PROVE  [E!Next]_(E!engineVars)
      OBVIOUS
    <2>1. CASE LoaderStep /\ cur' # cur
      <3>1. E!Swap(Current')
        BY <2>1, SwapReloads DEF LoaderStep, E!Swap, evaluatorVars
      <3>2. Current' \in Served
        BY SwapReloads, <2>1 DEF Served
      <3> QED
        BY <3>1, <3>2 DEF E!Next
    <2>2. CASE LoaderStep /\ cur' = cur
      BY <2>2 DEF LoaderStep, evaluatorVars, E!engineVars, Current
    <2>3. ASSUME NEW e \in Evaluators, EngineStep(e)
          PROVE  E!Next
      BY <2>3 DEF EngineStep, E!Next
    <2>4. CASE UNCHANGED serviceVars
      BY <2>4 DEF serviceVars, loaderVars, evaluatorVars, E!engineVars, Current
    <2> QED
      BY <2>1, <2>2, <2>3, <2>4 DEF Next
  <1> QED
    BY <1>1, <1>2, LoaderOrder, PTL DEF Spec, ServiceRunsEngine, E!Spec

------------------------------------------------------------------------------
(***************************************************************************)
(* What the answers of a service rest on.  A call that goes on past its    *)
(* first snapshot read a signed bundle, and the cache has been at least as *)
(* new ever since; so the second snapshot is signed and not older.  An     *)
(* answer about the zero bundle grants nothing.                            *)
(***************************************************************************)

\* The version a decision made on b names.
Named(b) == IF b.version <= 0 THEN 0 ELSE b.version

AnswerInv(e) ==
    /\ at[e] = "gate" =>
        /\ first[e] \in Genuine /\ first[e].version > 0 /\ seen[e] <= first[e].version
        /\ cur # NoBundle /\ cur.version >= first[e].version
    /\ at[e] = "decided" =>
        /\ result[e].version \in Int /\ result[e].version >= seen[e]
        /\ second[e].version >= first[e].version
        /\ result[e].effect # "DENY" => first[e] \in Genuine /\ second[e] \in Genuine
    /\ at[e] = "scope" => first[e] \in Genuine /\ cur # NoBundle
    /\ at[e] \in {"scoped", "answered"} /\ result[e].allow =>
        first[e] \in Genuine /\ second[e] \in Genuine

ServiceInv ==
    /\ at \in [Evaluators -> {"idle", "answered", "scope", "scoped", "gate", "decided"}]
    /\ DOMAIN call = Evaluators
    /\ DOMAIN first = Evaluators
    /\ DOMAIN second = Evaluators
    /\ DOMAIN result = Evaluators
    /\ seen \in [Evaluators -> Int]
    /\ \A e \in Evaluators : seen[e] <= Named(Current) /\ AnswerInv(e)

\* Before anything is loaded nothing is allowed.
LEMMA NothingFromZero ==
    ASSUME NEW id, NEW verb, NEW object, NEW field
    PROVE  ~E!Can(ZeroBundle, id, verb, object, field).allow
  <1>1. E!RuleFor(ZeroBundle, id, object).grants = {}
    BY DEF E!RuleFor, E!mergeRule, E!SystemRule, E!TenantRule, E!Lookup, E!NoRule,
           E!NoKeys, ZeroBundle, NoKeys
  <1> QED
    BY <1>1 DEF E!Can, E!Answer

\* The versions of what Current returns, and of what it becomes.
LEMMA CurrentVersions ==
    ASSUME LP!OrderInv, LP!OrderInv', [Next]_serviceVars
    PROVE  /\ Current.version \in Int
           /\ Named(Current) \in Int
           /\ Named(Current') \in Int
           /\ Named(Current') >= Named(Current)
           /\ cur # NoBundle => cur' # NoBundle /\ cur'.version >= cur.version
  <1>1. Current.version \in Int /\ Current'.version \in Int
    BY LoaderAssumption
       DEF LP!OrderInv, LP!GenuineInv, LP!TypeOK, Current, ZeroBundle
  <1>2. CASE cur' = cur
    BY <1>1, <1>2 DEF Named, Current
  <1>3. CASE cur' # cur
    <2>1. PICK b \in Genuine : L!Promise!Adopt(b)
      BY <1>3, SwapAdopts
    <2>2. Current' = b /\ cur' = b /\ b # NoBundle
      BY <2>1, LoaderAssumption DEF L!Promise!Adopt, Current, Genuine
    <2>3. cur # NoBundle => cur'.version > cur.version
      BY <2>1, <2>2 DEF L!Promise!Adopt
    <2> QED
      BY <1>1, <2>2, <2>3 DEF Named, Current, ZeroBundle
  <1> QED
    BY <1>2, <1>3

\* A step of one evaluator: what it answers rests on what Current is now.
LEMMA EngineKeepsInv ==
    ASSUME LP!OrderInv, ServiceInv, NEW e \in Evaluators, EngineStep(e)
    PROVE  ServiceInv'
  <1>1. cur' = cur /\ Current' = Current /\ Current.version \in Int
    BY LoaderAssumption
       DEF EngineStep, loaderVars, LP!OrderInv, LP!GenuineInv, LP!TypeOK, Current,
           ZeroBundle
  <1>2. /\ Current \in Served
        /\ cur # NoBundle => Current = cur /\ cur \in Genuine
        /\ cur = NoBundle => Current = ZeroBundle
    BY CurrentServed DEF Current
  <1> USE DEF ServiceInv, AnswerInv, Named, E!Enter, E!Leave
  <1>3. \A d \in Evaluators \ {e} : AnswerInv(d)' /\ seen'[d] = seen[d]
    BY <1>1 DEF EngineStep, E!Evaluate, E!CanCall, E!RecordRefused, E!RecordGranted,
                E!RecordScoped, E!DecideRefused, E!DecideBegins, E!DecideEnds, E!Return
  <1>4. ASSUME NEW r \in CanRequests, E!CanCall(e, r)
        PROVE  ServiceInv'
    BY <1>1, <1>2, <1>3, <1>4, NothingFromZero DEF EngineStep, E!CanCall
  <1>5. ASSUME NEW r \in RecordRequests, E!RecordRefused(e, r)
        PROVE  ServiceInv'
    BY <1>1, <1>2, <1>3, <1>5 DEF EngineStep, E!RecordRefused
  <1>6. ASSUME NEW r \in RecordRequests, E!RecordGranted(e, r)
        PROVE  ServiceInv'
    BY <1>1, <1>2, <1>3, <1>6, NothingFromZero
       DEF EngineStep, E!RecordGranted, E!WholeObject
  <1>7. ASSUME E!RecordScoped(e)
        PROVE  ServiceInv'
    BY <1>1, <1>2, <1>3, <1>7 DEF EngineStep, E!RecordScoped
  <1>8. ASSUME NEW req \in DecideRequests, E!DecideRefused(e, req)
        PROVE  ServiceInv'
    <2>1. /\ E!DenyEarly(Current, req).version = Named(Current)
          /\ E!DenyEarly(Current, req).effect = "DENY"
      BY DEF E!DenyEarly, E!deny
    <2> QED
      BY <1>1, <1>2, <1>3, <1>8, <2>1 DEF EngineStep, E!DecideRefused
  <1>9. ASSUME NEW req \in DecideRequests, E!DecideBegins(e, req)
        PROVE  ServiceInv'
    <2>1. Current.version > 0
      BY <1>1, <1>9 DEF E!DecideBegins, E!EarlyDenial, E!PreconditionDenial, E!None
    <2> QED
      BY <1>1, <1>2, <1>3, <1>9, <2>1 DEF EngineStep, E!DecideBegins, ZeroBundle
  <1>10. ASSUME E!DecideEnds(e)
         PROVE  ServiceInv'
    <2>1. E!Conclude(first[e], E!Rbac(Current, call[e]), call[e]).version = first[e].version
      BY DEF E!Conclude, E!deny, E!outcome
    <2> QED
      BY <1>1, <1>2, <1>3, <1>10, <2>1, LoaderAssumption DEF EngineStep, E!DecideEnds, Genuine
  <1>11. ASSUME E!Return(e)
         PROVE  ServiceInv'
    BY <1>1, <1>3, <1>11 DEF EngineStep, E!Return
  <1> QED
    BY <1>4, <1>5, <1>6, <1>7, <1>8, <1>9, <1>10, <1>11 DEF EngineStep, E!Evaluate

\* A swap between two steps of a call leaves what the call holds good.
LEMMA ServiceInvariant == ASSUME SoleReloader PROVE Spec => []ServiceInv
  <1>1. Init => ServiceInv
    BY DEF Init, L!Init, E!Init, ServiceInv, AnswerInv, Named, Current, ZeroBundle
  <1>2. LP!OrderInv /\ LP!OrderInv' /\ ServiceInv /\ [Next]_serviceVars => ServiceInv'
    <2> SUFFICES ASSUME LP!OrderInv, LP!OrderInv', ServiceInv, [Next]_serviceVars
                 PROVE  ServiceInv'
      OBVIOUS
    <2>1. CASE LoaderStep \/ UNCHANGED serviceVars
      <3>1. UNCHANGED <<evaluatorVars, seen>>
        BY <2>1 DEF LoaderStep, serviceVars
      <3>2. \A e \in Evaluators : first[e].version \in Int \/ at[e] # "gate"
        BY LoaderAssumption DEF ServiceInv, AnswerInv, Genuine
      <3> QED
        BY <3>1, <3>2, CurrentVersions, LoaderAssumption
           DEF ServiceInv, AnswerInv, evaluatorVars, LP!OrderInv, LP!GenuineInv, LP!TypeOK
    <2>2. ASSUME NEW e \in Evaluators, EngineStep(e)
          PROVE  ServiceInv'
      BY <2>2, EngineKeepsInv
    <2> QED
      BY <2>1, <2>2 DEF Next
  <1> QED
    BY <1>1, <1>2, LoaderOrder, PTL DEF Spec

\* In a service that reloads from one goroutine nothing but a signed policy
\* lets a call through: not before the first load, and not when a swap falls
\* between the two snapshots of a call.
THEOREM SignedPolicyAllows ==
    ASSUME SoleReloader PROVE Spec => []OnlySignedPolicyAllows
  <1>1. ServiceInv => OnlySignedPolicyAllows
    BY DEF ServiceInv, AnswerInv, OnlySignedPolicyAllows, E!Decided
  <1> QED
    BY <1>1, ServiceInvariant, PTL

\* The versions an evaluator's decisions name never go back, and the rights
\* a decision used are never older than the policy it names.
THEOREM VersionsNeverGoBack ==
    ASSUME SoleReloader PROVE Spec => []DecisionsNeverGoBack
  <1>1. ServiceInv => DecisionsNeverGoBack
    BY DEF ServiceInv, AnswerInv, DecisionsNeverGoBack, E!Decided
  <1> QED
    BY <1>1, ServiceInvariant, PTL

==============================================================================
