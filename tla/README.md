# ivorycom-governance: specifications, model checking and proofs

TLA+ specifications of the governance library under `go/`. The modules follow
the Go code operation by operation; TLC checks them on small instances and
TLAPS proves the main results for every instance. Line numbers refer to
`go/policy/*.go` unless a path is given.

## The system

The library is embedded in every service of the platform. It has no process
of its own and persists nothing; its state is the bundle cached in memory.

| part | state | operations | talks to |
| --- | --- | --- | --- |
| Bundle loader (`bundle.go`) | the cached bundle, an atomic pointer | `Reload`, `Watch`, `Current` | the governance service through `Fetcher`; read by the engine |
| Rule evaluation (`model.go`, `engine.go`, `fls.go`, `abac.go`) | none; one or two snapshots per call | `RuleFor`, `Can`, `CanRecord` | the engine's getter, usually `Loader.Current` |
| Agent guardrails (`decide.go`) | none; two snapshots per call | `Decide` | `Can`; callers verify approvals and reserve against the limits it returns |
| Wire format (`wire.go`) | none | `MarshalJSON`, `UnmarshalJSON` | the governance service encodes, the loader decodes |
| Audit (`go/audit`) | none | `Diff`, `NewEvent`, `MustNewEvent`, `Emit` | the caller's transactional outbox |
| DSAR (`go/dsar`) | none | `Mount`: export, delete | the orchestrator calls, each context implements |
| Envelope encryption (`go/crypto`) | none | `Encrypt`, `Decrypt`, `KeyARNOf` | a KMS and the caller's store |

Most parts are stateless on purpose: what can go wrong lies in the protocols
around them, which their comments describe. Those protocols are modelled too,
and marked external.

### What is hard

* **Loader.** Reloads overlap: a service runs `Watch` and may call `Reload`.
  The source can be down, rolled back, damaged, or hold an odd signed blob.
  Correct means: only signed bundles under their own version; versions only
  grow; the cache converges once the source settles; `Watch` stops.
* **Evaluation.** The bundle may be replaced between the two gets of
  `CanRecord` and of `Decide`. Correct means: an answer some policy gives, a
  version that names it, overrides that only narrow record scope, field and
  object reads that agree.
* **Guardrails.** A ladder of denials and approval reasons in an order that
  matters. Correct means: approvals lift the RBAC gate and nothing else, agents
  act alone exactly when that was delegated, more risk or less delegation is
  never treated more leniently, people are untouched by agent configuration.
* **Approvals and limits.** An action is decided twice, with days and policies
  in between, the second time without the RBAC gate. Correct means: an
  approval never makes up for a right that was not there, a withdrawal still
  reaches what was approved, and an agent that may act carries the ceilings of
  the one policy that let it, which is what its caller reserves against.
* **Wire format.** Pairs become one text. Correct means: what is signed decodes
  to what was compiled, names never run into each other, a field that an older
  producer does not know grants nothing.
* **Audit.** Correct means: an event exists exactly when its change does, the
  diffs alone tell every past state and hold nothing else, the ledger has
  neither gaps nor duplicates although the relay repeats itself.
* **DSAR.** Lost answers, retries, requests that arrive after they were given
  up, failures halfway, a hold that comes late. Correct means: done is erased,
  held is kept, each context erases in the mode it was given, the report is
  backed by what happened, and the saga ends.
* **Envelopes.** Keys are replaced, disabled and enabled and rows damaged or
  mixed. Correct means: old rows open, and what opens was sealed under the
  very key that the audit reports.

The hazards are listed line by line in `PROJECT.json`.

## Modules

| module | models |
| --- | --- |
| `MonotonicBundle` | abstract: what the loader promises its readers |
| `BundleLoader` | `bundle.go`: goroutines in `Reload` and `Watch` |
| `PolicyRules` | pure: `RuleFor`, `Can`, field rules, record conditions |
| `Guardrails` | pure: `Decide` as an operator of a bundle and an RBAC answer |
| `PolicyEngine` | goroutines evaluating `Can`, `CanRecord`, `Decide` while the bundle is swapped |
| `PolicyService` | composes loader and engine as `NewEngine(loader.Current)` |
| `BundleWire` | `wire.go`: a bundle marshalled, a document unmarshalled |
| `ApprovalFlow` | actions through `Decide`, approval, a second `Decide`, reservation |
| `AuditDiff` | pure: `Diff`, and the reader who applies diffs |
| `DiffCalls` | calls of `Diff` on every kind of operand |
| `AuditedStore` | abstract: every change and its full record in one step |
| `AuditTrail` | `event.go` and `emit.go` in transactions, with relay and ledger |
| `DsarSaga` | the routes of `Mount` under an orchestrator, a network and a hold gate |
| `EnvelopeStore` | `envelope.go` over a store and a KMS |
| `BundleLoader_proofs`, `PolicyEngine_proofs`, `PolicyService_proofs`, `BundleWire_proofs`, `ApprovalFlow_proofs`, `AuditTrail_proofs`, `DsarSaga_proofs`, `EnvelopeStore_proofs` | theorems about them |
| `MCBundleLoader`, `MCPolicies`, `MCPolicyEngine`, `MCPolicyService`, `MCBundleWire`, `MCApprovalFlow`, `MCDiffCalls`, `MCAuditTrail`, `MCDsarSaga`, `MCEnvelopeStore` | values for TLC |

`PolicyRules` and `Guardrails` are shared: the engine, the service, the wire
format and the approval flow all use the same `Can` and `Decide`. `AuditTrail`
uses the same `Diff` as `DiffCalls`.

Definitions marked `Mutant` are not part of a specification. Each is one
definition as a plausible mistake would have it, and `PROJECT.json` names the
property that notices the mistake.

### BundleLoader

A process is a goroutine in `Reload`: a *caller*, or a *watcher* running
`Watch`. `Reload` touches shared state three times, and each is a step:
`FetchVerified` or `FetchFails` (71-95), `CheckNewer` or `CheckNotNewer`
(97-100), `Store` (101). What lies between is local to the goroutine.
`Publish` is the governance service changing the source in any way; `Cancel`
is the owner of a context. `got[p]` is the verified bundle in `p`'s local
variable; `returned[p]` is its last error.

A signature is the message it was made over, and a blob can carry only a
signature of a message that was signed, or none: that is what ed25519 gives.
The canonical message `decimal(version) | "|" | body` is unambiguous (a number
contains no `|`), so it is a pair. Decoding is whether a body is in `Bundles`.

### PolicyRules and Guardrails

Go's maps are functions, condition lists and field lists are sets, a
condition's comma-separated value is a set of words. Reason texts are left
out, reason codes are kept. Words are atoms: a token inside a longer text, a
user id with a comma in it, and the `%v` rendering of non-string record values
are not modelled; the order in which the two tokens are replaced is. Each
stage of `Decide` is an operator giving the code of its first denial.

### PolicyEngine

`bundle` is what the getter returns, and `Swap` replaces it along `Reloads`.
Each get is a step. `CanCall` has one. `RecordRefused`/`RecordGranted` take the
first of `CanRecord` and `RecordScoped` the second. `DecideRefused`/
`DecideBegins` take the first of `Decide`, and `DecideEnds` the one inside
`Can`. `first` and `second` remember the snapshots; `Return` forgets the call.
Evaluators share nothing but the bundle, so one of them meets every
interleaving.

### PolicyService

The engine's `bundle` is the expression `Current` over the loader's pointer.
`seen` is a history variable: the highest version an evaluator's decisions have
named. `ServiceRunsEngine` is the refinement: under this loader the engine is
`PolicyEngine` with signed bundles and upgrades as its `Reloads`. So what
holds of `PolicyEngine` for those constants holds in the service.

### BundleWire

One bundle is compiled, marshalled (`Marshal`, or `MarshalFails` for a name
with the separator in it) and unmarshalled; or a document comes from another
producer and is unmarshalled (`Unmarshal`, `UnmarshalFails`). Names are
spelled: `spelling` gives each its characters, one of which is the separator,
so that `joinKey` is concatenation and `splitKey` a cut at the first
separator. A document is a function on the fields that are present, which is
what `omitempty` decides. What `encoding/json` does inside a rule is left out.
The assumptions say what Go's types say: bundles are structs of finite maps
keyed by pairs of names, no two names are spelled alike, and the halves of any
key in a document are names.

### ApprovalFlow

`Begin` and `End` are the two gets of one `Decide`; everything else is external
and follows the comments of `decide.go`: `Approve`, `Reject`, then `Begin`
again as the identity that carries the action out, `Reserve` for agents,
`Execute`. `Reload` brings a newer policy at any point. The store an agent
reserves in is nowhere in the repository, so `Reserve` takes either answer, and
a failure is a denial (124-126). What the library owes that store is the
decision's `version` and `limits`, and these are what `AgentsBoundByPolicy` is
about: an approved action leaves `outcome` early, under a policy that may not be
the one it was asked under. `granted` and `barred` are history variables.

### AuditDiff, DiffCalls and AuditTrail

An operand of `Diff` is what `isNil`, `json.Marshal` and the decoding in
`toMap` tell apart: nil, an object, the JSON null, another JSON value, or an
error. `Patch` is the reader: it applies a diff to the object it holds.

In `AuditTrail` a writer locks and writes a row (`Begin`), calls `Diff` and
`NewEvent` (`Build`), hands the event to `Emit` and commits or aborts; a crash
is an abort. Only `Build` and `Emit` are the library. The transaction, the
relay (`Publish`, `Mark`: at least once, in order) and the ledger, which drops
an event whose id it has, are external (`go/audit/emit.go` 18-20).
`reader` is a history variable: one who starts from an empty store, sees
nothing but the diffs of what commits, and notes for each the object before and
after. `ImplementsAuditedStore` is the refinement: these notes are the trail of
`AuditedStore`, whose records hold both full objects. So no diff ever lost
anything.

### DsarSaga

`Serve` is a request through `Mount`: `Accepted` is the validation, `WithMode`
the default mode, `ExportAnswer` and `DeleteAnswer` the stamping of answers.
The closure inside is external: it refuses what is held and follows the mode
(`go/dsar/contract.go` 57-63), may fail after any part of its work, and may
fill in any service name; `Delete` and `Export` are what the routes make of its
results and errors. A mode is a constant of a context (`modeOf`): whether a
context with a retention duty is given one is the orchestrator's choice. The orchestrator (`Send`, `Collect`), the network
(`Timeout` before or after the context has served the call, `ServeLate` for a
request that was given up) and the gate (`PlaceHold`, `LiftHold`) are external
too. `frozen` remembers the rows of the contexts that a hold came in time for:
those that no request sent before the hold is on its way to, and those that
ask the gate themselves.

### EnvelopeStore

Symbolic cryptography: a sealed text names its key, nonce and additional data,
and opens with exactly these; a wrapped key names its CMK. `Encrypt` and
`Decrypt` follow `go/crypto/envelope.go` check by check. KMS, which finds the
key by itself or by the ARN it is given, may be disabled, and may hand out keys
of another size, is external, and so is the store: `Choose` and `Write` are two
steps of a service, between which a key may change, and `Damage` spoils a row
or mixes it with another.

## What TLC checks

| run | question | bounds |
| --- | --- | --- |
| `loader` | is the cache genuine when reloads overlap, does it converge, does `Watch` stop? | 1 caller, 1 watcher, 5 bundles, 9 blobs |
| `loader_race` | *violation*: can the version go back? | as `loader` |
| `engine` | do `Can`, `CanRecord` and `Decide` say what they should, also during a reload? | 97 bundles and 1 evaluator |
| `engine_denial` | *violation*: does a denial name its policy? | 3 policies and none, 1 evaluator |
| `engine_record` | *violation*: does one policy give the answer? | as `engine_denial` |
| `policy_service` | what does a service get from the two together? | 1 watcher, 1 evaluator, 5 signed policies, odd, unsigned and tampered blobs |
| `wire` | does a bundle survive the wire, what do other documents decode to? | names over 3 characters, keys of 4 names, maps of one and two entries |
| `diff_null` | *violation*: is every operand that is no object an error? | all pairs of operands over 3 keys and 2 values |
| `audit_trail` | is every change recorded, exactly once, fully and minimally? | 2 writers, 2 objects, 4 contents over 2 keys, 3 events |
| `dsar` | is what is done erased, what is held kept, does the saga end? | 2 contexts, one with up to 2 rows |
| `envelope` | what opens, and under which key? | 2 rows, 2 CMKs, 2 texts, 2 writes |
| `approval` | what does an approval still mean under a newer policy? | 3 actions, 6 policies |

**Bounds.** The loader's blobs are wrong in every way `Reload` can notice: no
usable signature, one of other bytes, of another envelope version, a signed
body of another version, a signed body that does not decode. Two bundles share
a version and one has version 0. Two reloaders are enough for every race on one
pointer; more only repeat it. Every comparison in `Decide` is between four
risks, one amount with zero, or one mode with a constant, so `engine` takes
every risk, every actor type, every mode, amounts on both sides of zero,
missing and invalid configuration; its other bundles merge system and tenant
rules and follow each other as reloads. `Reloads` bounds the number of swaps:
versions grow.

In `wire` a separator can be first, last, in the middle, twice or absent, in
either half of a key; two entries are enough for two names to collide. In
`audit_trail` (`MaxEvents` = 3) an object is created, changed and deleted, or
two objects change at once; a key changes, appears or disappears alone, with
another or beside one that stays the same (`MCContents`); `AuditTrail_proofs` covers any number of them.
In `dsar` (`MaxRows` = 2) `billing` anonymizes, is keyed by email and checks
the gate itself, `crm` gets no mode and does none of these. `crm` has 0 or 2
rows (`Holdings`), so that a closure can fail halfway and a hold can fall in
between; more contexts and rows are covered by the theorems. Of the requests that were given up equal ones count once: a
second one finds what the first one left, so the two do together what one does
that fails after a part and is sent again. In `envelope` (`MaxWrites` = 2) two envelopes
are what mixing needs; rows and texts are symmetric, and no property is
temporal. In `approval` the six policies take away, one by one, the grant, the
autonomy, the funding and the capability, and give them back with ceilings that
differ, so that those of another policy would show; one agent moves money, one must ask, and a service carries out what
a person asked for.

Deadlock is checked except in three runs whose systems really stop: `wire`
(one document is decoded once), `audit_trail` (nothing is left to do after
`MaxEvents`) and `approval` (actions end, policies run out).

**Fairness.**

* `loader`: weak fairness of a goroutine's own steps: the Go scheduler runs
  what can run and a fetch returns. Weak fairness of `WatchTick`: a ticker
  ticks. Strong fairness of `FetchVerified` for watchers: an outage is
  transient (105-107), so a good blob fetched again and again is got at some
  time; a source that always fails shows nothing. Strong fairness of
  `WatchDone`: `select` chooses at random among the ready cases. Nothing is
  assumed of the source, of contexts, or of callers starting a `Reload`.
* `audit_trail`: the relay runs, and marks what it has sent. Nothing is
  assumed of the writers, which may abort for ever.
* `dsar`: the orchestrator sends what is to do and reads the answers it gets.
  Strong fairness: of requests sent again and again, some are served without a
  failure before the timeout, and of such answers some are read. Without it a
  context that is always down never settles, and no retry could help.

### Where code and comments disagree

1. `loader_race`. "A reload only swaps the cache for a validly-signed bundle
   whose version is strictly greater than the one currently held" (40-42).
   The version is compared at 97 and stored at 101, two steps. A caller's
   `Reload` that overlaps `Watch`'s can store an older bundle over a newer one.
   `EventuallyCurrent` shows that the next polls repair it. `KeepsPromise` and
   `ReloadIsEffective` are checked and proved for a service whose only reloader
   is its `Watch`: they say what holds as long as nobody else calls `Reload`,
   and cannot show this race.
2. `engine_denial`. A denial must say "which policy produced it" (`decide.go`
   145-147). `Decide` reports the version it read at 173, and `Can` reads the
   bundle again at 239. A swap in between gives a denial with the version of a
   policy that grants the request.
3. `engine_record`. `CanRecord` applies `Can` and then "every RecordConditions
   predicate on the rule" (`abac.go` 8-12), but fetches the rule again at 20.
   When the old bundle grants the action under a row scope, and the new one
   drops both the grant and the scope, a swap in between allows a record that
   neither bundle allows.
4. `diff_null`. "An error is returned if either operand ... does not encode to
   a JSON object" (`go/audit/diff.go` 17-18, 91-92). Decoding the literal null
   into a map (102) succeeds and leaves it nil, so an operand that is not nil
   but encodes to null passes for an object without fields.

## What is proved

`BundleLoader_proofs`, for any sets of callers, watchers, blobs and bundles,
assuming that versions are integers and that blobs carry only signatures made
with the key:

* `TypeCorrect`.
* `AlwaysGenuine`: `CacheGenuine`, however many reloaders. The cache is filled
  from `got`, so the inductive invariant `GenuineInv` also says that what a
  reloader holds is signed, and that it holds something once past the check.
* With a sole reloader (`SoleReloader`): `AlwaysEffective`,
  `LoneVersionNeverRegresses`, and `LoaderKeepsPromise`, the refinement of
  `MonotonicBundle`. The inductive invariant `OrderInv` adds `StoresNewer`:
  the comparison a reloader made is still true when it stores. This is exactly
  what a second reloader breaks.

`PolicyEngine_proofs`, for any evaluators, bundles, reloads and requests of
the right record shape, with integer versions, limits and amounts:

* `TypeCorrect`.
* `ApprovalRelaxesNothingElse`, `ApprovalSucceeds`,
  `AgentsActOnlyWhenDelegated`, `PeopleKeepTheirRights`, `RiskNeverHelps`,
  `WithdrawingNeverHelps`. All rest on `DecisionInvariant`: an answer is
  `Decide` of the first snapshot and of the RBAC answer of the second, whatever
  is swapped in between. To be inductive it also says that a call waiting at
  the gate passed the early denials. The rest is about the operator `Decide`:
  `WhenDenied`, `WhenAllowed`, `WhenConfigured` and `WhenNotPending` turn the
  ladder into conditions. The last two theorems compare two runs of the ladder:
  `Stricter` says what has to be compared, stage by stage, and `TighterFor`
  says what all the ways to withdraw a piece of delegation have in common.
* `OverridesOnlyTighten`, from `ScopeInv` and `MergeKeepsConditions`.
* `ReadsAgree`, from `ReadInv`.

`PolicyService_proofs`, for a service that reloads from one goroutine, with any
policies, blobs and requests:

* `ReloadsAreEffective` and `ServiceKeepsPromise`: the loader's theorems hold
  inside a service, whose steps are loader steps or leave it alone.
* `EngineRunsInService`: the refinement to `PolicyEngine`. Each swap of the
  cache is one of its `Reloads` because the loader keeps its promise.
* `SignedPolicyAllows` and `VersionsNeverGoBack`: the inductive invariant
  `ServiceInv` says of each call what is known of its snapshots: a call that
  goes on past its first one read a signed bundle, and the cache has been at
  least as new ever since, so the second one is signed and not older, in
  `CanRecord` as in `Decide`. It stands
  on top of the loader's `OrderInv`.

`BundleWire_proofs`, for any spelling of names, bundles of the Go types and
documents:

* `SignedBundlesRoundTrip`. A key is found again because the name before the
  separator, which marshalling has checked, holds none (`SplitJoined`); the rest
  lifts this from a key to a map (`SplitJoinedMap`) and to the fields that
  `omitempty` drops (`EncodedFields`).
* `DecodingMergesNothing`: the cut is undone by joining (`JoinSplit`), so it is
  injective and keeps the number of entries.
* `OlderBundlesFailClosed`: what is missing decodes to an empty map, and the
  ladder of `Decide` denies an agent on either.

The state adds only `WireInv`: a document is the encoding of a bundle that
marshals, or comes from elsewhere, and what is decoded is the document's.

`ApprovalFlow_proofs`, for any policies with integer ceilings and any actions
whose first request is not marked as approved:

* `ApprovalLaundersNothing`, from `GrantInv`: whatever has come as far as
  waiting for approval was granted to the one who asked.
* `WithdrawalReachesApproved`, from `BarredInv`: while a barred action is inside
  `Decide`, the policy that this call has read denies it as well, so its answer
  cannot be old.
* `AgentsAreBound`, from `LimitInv`: a call inside `Decide` holds a policy that
  was in force, and what `Conclude` lets an agent do names that policy and gives
  its ceilings (`ConcludeBinds`); money moves only approved and funded. The
  request does not change between the answer and the execution.

`AuditTrail_proofs`, for any writers, objects, keys, values and contents and any
number of events:

* `DiffsReplay`, about `Diff` alone: a diff that is no error carries its reader
  from one object to the other and back.
* `TrailImplementsStore`, the refinement of `AuditedStore`, and
  `DiffsAreMinimal`. The inductive invariant `ImageInv` says that a writer's
  lock keeps the row as it was read (`LockInv`), that the one event, or
  envelope, of a transaction tells its change (`CarriedInv`), and that the
  reader holds the rows as they are (`ReaderInv`). A commit is then the store's
  one step; everything else is a stutter.
* `LedgerIsOutboxPrefix`, from `TrailInv`: no two events, committed or on their
  way, share an id, and marks do not run ahead of the ledger. So a row sent a
  second time is known by its id, and one sent the first time is not.

`EnvelopeStore_proofs`, for any slots, keys and texts and any number of
envelopes: `DecryptedTextsAreGenuine`, `StoredTextsOpen`, `DecryptNeverPanics`,
from `EnvelopeInv`: each text was encrypted with a data key and a nonce of its
own (`SealedInv`); the data key and the cipher of each row come from envelopes
that were made, perhaps two different ones, unless the cipher is noise
(`StoreInv`); a row that is intact is the envelope of its text (`IntactInv`).
It is assumed that the platform has a key, and that the empty ARN is no key.

`DsarSaga_proofs`, for any contexts, modes and numbers of
rows: `TypeCorrect`, `DoneMeansErased`, `HeldRowsStay`, `ModesAreFollowed`,
`ReportsAreBacked`, `ExportsAreWhole`, all from `SagaInvariant`. The invariant
`SagaInv` adds to the properties themselves what makes them inductive: `Asked`,
requests on their way, late ones included, are the orchestrator's own with its
mode for that context; `Answering`, an answer nobody has read yet is true of
the rows, and stays so, because rows only ever get fewer; `Frozen`, a frozen
context has no request without the hold on its way, or asks the gate itself;
`Shape`, rows only move from one count to another.

All invariants and action properties of the passing runs, and the refinements,
are stated by these theorems. Only model-checked are the four that need
fairness, which is out of the prover's reach: `EventuallyCurrent`, `WatchStops`,
`ChangesReachLedger` and `SagaSettles`.

## Not modelled

* Texts: reasons of decisions, error messages, log lines, HTTP layout.
* Time and durations: poll intervals, the order of `EventTime`.
* The counting of actions and money against the ceilings: `Decide` "never
  counts" (`decide.go` 124-126), and the callers' stores, which must reserve
  atomically and release on failure, are not in the repository.
* The orchestrator's choice of a mode, and callers that do not put a change and
  its event in one transaction: neither is in the repository.
* What `encoding/json` does inside a rule, a profile or an audited value.
* Attributes that only pass through an audit event: actor, trace, IP, times.
* Rows that a context creates after an erasure began: the contract does not
  say what should become of them.
* What a negative amount means: the model follows the code, which treats it
  as no money movement.
* Crashes of a service beyond the transactions of `AuditTrail`: the library
  persists nothing, so a service that restarts starts as `Init`.
