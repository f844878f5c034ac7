----------------------------- MODULE PolicyService -----------------------------
(***************************************************************************)
(* A service that embeds go/policy: its Loader keeps the bundle cached and *)
(* its Engine evaluates calls on whatever Current returns at each get, as  *)
(* in NewEngine(loader.Current).                                           *)
(***************************************************************************)
EXTENDS PolicyRules

CONSTANTS Callers, Watchers, Blobs, Bundles, Signed, NoSignature, NoBundle,
          Evaluators, CanRequests, RecordRequests, DecideRequests

VARIABLES
    source, cur, pc, got, returned, cancelled,    \* of the Loader
    at, call, first, second, result,              \* of the Engine
    seen    \* the highest policy version an evaluator was told, a history variable

L == INSTANCE BundleLoader

\* What BundleLoader assumes of the bundles, the blobs and the signatures.
ASSUME LoaderAssumption ==
    /\ NoBundle \notin Bundles
    /\ \A b \in Bundles : b.version \in Int
    /\ \A blob \in Blobs : blob.sig \in Signed \cup {NoSignature}
    /\ \A blob \in Blobs : NoSignature # L!canonicalMessage(blob.version, blob.body)

loaderVars == <<source, cur, pc, got, returned, cancelled>>

evaluatorVars == <<at, call, first, second, result>>

serviceVars == <<loaderVars, evaluatorVars, seen>>

\* The nil pointer reads as the zero bundle.
Current == IF cur = NoBundle THEN ZeroBundle ELSE cur

Genuine == {b \in Bundles : L!canonicalMessage(b.version, b) \in Signed}

Served == Genuine \cup {ZeroBundle}

\* The engine as this service runs it: what the getter returns is signed, or
\* the zero bundle before anything is loaded, and only ever gets newer.
E == INSTANCE PolicyEngine
         WITH bundle <- Current,
              Bundles <- Served,
              Reloads <- {p \in Served \X Genuine :
                             p[1] # ZeroBundle => p[2].version > p[1].version}

Init ==
    /\ L!Init
    /\ E!Init
    /\ seen = [e \in Evaluators |-> 0]

LoaderStep ==
    /\ L!Next
    /\ UNCHANGED <<evaluatorVars, seen>>

\* The caller of Decide learns the version that its answer names.
EngineStep(e) ==
    /\ UNCHANGED loaderVars
    /\ E!Evaluate(e)
    /\ seen' = [seen EXCEPT ![e] =
                    IF at[e] # "decided" /\ at'[e] = "decided" /\ result'[e].version > @
                    THEN result'[e].version ELSE @]

Next == LoaderStep \/ \E e \in Evaluators : EngineStep(e)

Spec == Init /\ [][Next]_serviceVars

------------------------------------------------------------------------------
(* Properties *)

\* Nothing but policies the governance key has signed ever lets a call
\* through, whatever the source exposes and however the swap falls between
\* the two snapshots of a call.
OnlySignedPolicyAllows ==
    \A e \in Evaluators :
        \/ E!Decided(e) /\ result[e].effect # "DENY"
        \/ at[e] \in {"scoped", "answered"} /\ result[e].allow
        => first[e] \in Genuine /\ second[e] \in Genuine

\* The versions a service's decisions name never go back, from one decision
\* to the next, and the rights a decision used are never older than the
\* policy it names.
DecisionsNeverGoBack ==
    \A e \in Evaluators :
        E!Decided(e) => /\ result[e].version >= seen[e]
                        /\ second[e].version >= first[e].version

\* What the lone reloader of a service promises the engine: its cache is what
\* the Reloads fetched or newer, and every change of it is the adoption of a
\* signed bundle of a strictly greater version (bundle.go 40-43, 97-102).
ReloadIsEffective == L!ReloadIsEffective

KeepsPromise == L!KeepsPromise

\* The engine under this loader behaves as PolicyEngine with those reloads,
\* so what holds of it for these bundles holds in the service.
ServiceRunsEngine == E!Spec

==============================================================================
