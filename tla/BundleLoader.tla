----------------------------- MODULE BundleLoader -----------------------------
(***************************************************************************)
(* The Loader of go/policy/bundle.go: it fetches the signed policy bundle, *)
(* verifies it and caches it behind an atomic pointer.                     *)
(*                                                                         *)
(* A process is a goroutine inside Reload: a caller of Reload, or a        *)
(* goroutine running Watch, which calls Reload at once and then at every   *)
(* tick until its context is cancelled.  Reload touches shared state three *)
(* times, and each is a step of its own here: it reads the source (Fetch), *)
(* it reads the cache to compare versions (Check...) and it swaps the      *)
(* cache (Store).  Everything between two of these is local to the         *)
(* goroutine and belongs to the step before it.                            *)
(*                                                                         *)
(* A signature is modelled as the message it was made over; a blob can     *)
(* only carry a signature of a message in Signed, or none.  The canonical  *)
(* message decimal(version) | "|" | body is unambiguous, so it is a pair.  *)
(***************************************************************************)
EXTENDS Integers

CONSTANTS
    Callers,      \* goroutines that call Reload directly
    Watchers,     \* goroutines that run Watch
    Blobs,        \* what the governance service may expose at the source
    Bundles,      \* the bodies that decode to a CompiledBundle
    Signed,       \* the messages signed with the governance key
    NoSignature,  \* an envelope or a signature that does not decode
    NoBundle      \* the nil pointer: nothing cached yet

Reloaders == Callers \cup Watchers

canonicalMessage(version, body) == <<version, body>>

ASSUME BundleAssumption ==
    /\ NoBundle \notin Bundles
    /\ \A b \in Bundles : b.version \in Int

\* ed25519 signatures cannot be made without the key.
ASSUME SignatureAssumption ==
    \A blob \in Blobs : blob.sig \in Signed \cup {NoSignature}

ASSUME NoSignatureAssumption ==
    \A blob \in Blobs : NoSignature # canonicalMessage(blob.version, blob.body)

VARIABLES
    source,       \* the blob the governance service exposes now
    cur,          \* Loader.cur: the cached bundle or NoBundle
    pc,           \* where each reloader is
    got,          \* the verified bundle a reloader fetched last
    returned,     \* what a reloader's last Reload returned
    cancelled     \* the watchers whose context is done

loaderVars == <<source, cur, pc, got, returned, cancelled>>

TypeOK ==
    /\ source \in Blobs
    /\ cur \in Bundles \cup {NoBundle}
    /\ pc \in [Reloaders -> {"idle", "fetch", "check", "store", "select", "stopped"}]
    /\ got \in [Reloaders -> Bundles \cup {NoBundle}]
    /\ returned \in [Reloaders -> {"none", "ok", "error"}]
    /\ cancelled \subseteq Watchers

\* Mutant: the body is neither decoded nor held to the envelope's version.
VerifiesSignatureOnly(blob) == blob.sig = canonicalMessage(blob.version, blob.body)

\* Mutant: the version of the envelope is taken for the bundle's.
TrustsEnvelopeVersion(blob) ==
    /\ blob.sig = canonicalMessage(blob.version, blob.body)
    /\ blob.body \in Bundles

\* Mutant: the signature is not checked.
SkipsSignature(blob) ==
    /\ blob.body \in Bundles
    /\ blob.body.version = blob.version

\* The checks of Reload between Fetch and the version comparison.
Verified(blob) ==
    /\ blob.sig = canonicalMessage(blob.version, blob.body)
    /\ blob.body \in Bundles
    /\ blob.body.version = blob.version

Init ==
    /\ source \in Blobs
    /\ cur = NoBundle
    /\ pc = [p \in Reloaders |-> "idle"]
    /\ got = [p \in Reloaders |-> NoBundle]
    /\ returned = [p \in Reloaders |-> "none"]
    /\ cancelled = {}

------------------------------------------------------------------------------
(* The environment: the governance service and the owners of the contexts. *)

\* The source may move forward, be rolled back or hold damaged bytes.
Publish(blob) ==
    /\ source' = blob
    /\ UNCHANGED <<cur, pc, got, returned, cancelled>>

Cancel(w) ==
    /\ cancelled' = cancelled \cup {w}
    /\ UNCHANGED <<source, cur, pc, got, returned>>

------------------------------------------------------------------------------
(* Reload *)

\* Mutant: Watch gives up when a Reload fails.
ReturnGivesUp(p, r) ==
    /\ pc' = [pc EXCEPT ![p] = IF p \notin Watchers THEN "idle"
                              ELSE IF r = "ok" THEN "select" ELSE "stopped"]
    /\ returned' = [returned EXCEPT ![p] = r]

\* Reload returns: a caller is done, a watcher waits in its select.
Return(p, r) ==
    /\ pc' = [pc EXCEPT ![p] = IF p \in Watchers THEN "select" ELSE "idle"]
    /\ returned' = [returned EXCEPT ![p] = r]

\* Reload is called: by a caller, or by Watch before its loop.
Begin(p) ==
    /\ pc[p] = "idle"
    /\ pc' = [pc EXCEPT ![p] = "fetch"]
    /\ UNCHANGED <<source, cur, got, returned, cancelled>>

\* The fetcher fails, which it may on any blob, or the blob is not Verified:
\* the cache is left alone and the error returned.
FetchFails(p) ==
    /\ pc[p] = "fetch"
    /\ Return(p, "error")
    /\ UNCHANGED <<source, cur, got, cancelled>>

FetchVerified(p) ==
    /\ pc[p] = "fetch"
    /\ Verified(source)
    /\ got' = [got EXCEPT ![p] = source.body]
    /\ pc' = [pc EXCEPT ![p] = "check"]
    /\ UNCHANGED <<source, cur, returned, cancelled>>

\* Mutant: only the first bundle is ever cached.
NewerOnlyFirst(p) == p \in Reloaders /\ cur = NoBundle

\* Mutant: a bundle of the same version replaces the cached one.
NewerOrEqual(p) == cur # NoBundle => got[p].version >= cur.version

\* Mutant: any other bundle counts as newer.
NewerIfDifferent(p) == got[p] # cur

Newer(p) == cur # NoBundle => got[p].version > cur.version

CheckNotNewer(p) ==
    /\ pc[p] = "check"
    /\ ~Newer(p)
    /\ Return(p, "ok")
    /\ UNCHANGED <<source, cur, got, cancelled>>

CheckNewer(p) ==
    /\ pc[p] = "check"
    /\ Newer(p)
    /\ pc' = [pc EXCEPT ![p] = "store"]
    /\ UNCHANGED <<source, cur, got, returned, cancelled>>

Store(p) ==
    /\ pc[p] = "store"
    /\ cur' = got[p]
    /\ Return(p, "ok")
    /\ UNCHANGED <<source, got, cancelled>>

------------------------------------------------------------------------------
(* Watch's loop.  The ticker's channel holds one tick, so a tick that      *)
(* fires during Reload is one that fires as soon as the loop selects.      *)

WatchTick(w) ==
    /\ pc[w] = "select"
    /\ pc' = [pc EXCEPT ![w] = "fetch"]
    /\ UNCHANGED <<source, cur, got, returned, cancelled>>

\* Mutant: the context is looked at only after a Reload that succeeded.
WatchDoneIfOk(w) ==
    /\ pc[w] = "select"
    /\ w \in cancelled /\ returned[w] = "ok"
    /\ pc' = [pc EXCEPT ![w] = "stopped"]
    /\ UNCHANGED <<source, cur, got, returned, cancelled>>

WatchDone(w) ==
    /\ pc[w] = "select"
    /\ w \in cancelled
    /\ pc' = [pc EXCEPT ![w] = "stopped"]
    /\ UNCHANGED <<source, cur, got, returned, cancelled>>

------------------------------------------------------------------------------
Check(p) == CheckNotNewer(p) \/ CheckNewer(p)

Fetch(p) == FetchFails(p) \/ FetchVerified(p)

Reload(p) == Begin(p) \/ Fetch(p) \/ Check(p) \/ Store(p)

Next ==
    \/ \E blob \in Blobs : Publish(blob)
    \/ \E p \in Reloaders : Reload(p)
    \/ \E w \in Watchers : WatchTick(w) \/ WatchDone(w) \/ Cancel(w)

Spec == Init /\ [][Next]_loaderVars

(***************************************************************************)
(* Fairness.  A goroutine that can run runs; Fetch returns; an outage of   *)
(* the source is transient, so a fetch of a good blob that is tried again  *)
(* and again succeeds; the ticker ticks; and Go's select chooses at random *)
(* among the ready cases, so a context that is done is seen although ticks *)
(* keep coming.  Nothing is assumed of the source, of the owners of the    *)
(* contexts, or of callers starting a Reload.                              *)
(***************************************************************************)
Fairness ==
    /\ \A p \in Reloaders :
        /\ WF_loaderVars(Fetch(p))
        /\ WF_loaderVars(Check(p))
        /\ WF_loaderVars(Store(p))
    /\ \A w \in Watchers :
        /\ WF_loaderVars(Begin(w))
        /\ WF_loaderVars(WatchTick(w))
        /\ SF_loaderVars(FetchVerified(w))
        /\ SF_loaderVars(WatchDone(w))

FairSpec == Spec /\ Fairness

------------------------------------------------------------------------------
(* Properties *)

\* Every bundle the services evaluate was signed by the governance key, as
\* the version it calls itself, whatever bytes the source has exposed.
CacheGenuine ==
    cur # NoBundle => canonicalMessage(cur.version, cur) \in Signed

\* After a Reload that returned no error the cache is at least as new as
\* what that Reload fetched (lines 97-102), until the next one begins.
ReloadIsEffective ==
    \A p \in Reloaders :
        pc[p] \in {"idle", "select"} /\ returned[p] = "ok"
            => cur # NoBundle /\ cur.version >= got[p].version

\* "A reload only swaps the cache for a validly-signed bundle whose version
\* is strictly greater than the one currently held" (lines 40-43).
VersionNeverRegresses ==
    [][cur # NoBundle => cur' # NoBundle /\ cur'.version > cur.version]_cur

\* The loader keeps the promise of MonotonicBundle: every change of the
\* cache is the adoption of a signed bundle of a strictly greater version.
Promise == INSTANCE MonotonicBundle
               WITH Genuine <- {b \in Bundles :
                                   canonicalMessage(b.version, b) \in Signed}

KeepsPromise == Promise!Spec

\* Once the source settles on a good blob, a running Watch brings the cache
\* to that version or beyond for good, whatever was fetched or raced before.
EventuallyCurrent ==
    \A w \in Watchers, blob \in Blobs :
        (Verified(blob) /\ <>[](source = blob) /\ [](w \notin cancelled))
            => <>[](cur # NoBundle /\ cur.version >= blob.body.version)

\* A Watch whose context is done returns, even if its ticker keeps ticking.
WatchStops ==
    \A w \in Watchers : w \in cancelled ~> pc[w] = "stopped"

==============================================================================
