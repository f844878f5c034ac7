------------------------------ MODULE AuditTrail ------------------------------
(***************************************************************************)
(* Audit events on their way from a change to the ledger: go/audit/event.go*)
(* and emit.go inside a service.  A writer is a request handler with a     *)
(* database transaction: it locks and writes a row, builds the event from  *)
(* Diff and NewEvent, hands it to Emit, whose WriteFunc puts it into the   *)
(* outbox in the same transaction, and commits.  A relay publishes the     *)
(* outbox at least once and in order; the ledger knows an event by its ID. *)
(*                                                                         *)
(* NewEvent, Emit and Diff are the library's.  The transaction, the relay  *)
(* and the ledger are of the services that use it (emit.go 18-20), and     *)
(* modelled as that comment describes them.                                *)
(***************************************************************************)
EXTENDS AuditDiff, Integers, Sequences

CONSTANTS
    Writers,
    ObjectIds,
    Contents,     \* what a row may hold
    Params,       \* what callers of NewEvent fill in, complete or not
    MaxEvents     \* the bound on the events built

ASSUME MaxEventsAssumption == MaxEvents \in Nat

ASSUME ContentsAssumption == Contents \subseteq {Side(fields) : fields \in Objects}

VARIABLES
    row,          \* committed rows: Null or Side(fields)
    outbox,       \* committed outbox rows, oldest first
    published,    \* how many of them the relay has marked as published
    ledger,       \* the events of the immutable ledger
    tx,           \* each writer's transaction
    nextId,       \* uuid.NewString never repeats: a counter
    reader        \* what the committed diffs alone tell, kept for the properties

trailVars == <<row, outbox, published, ledger, tx, nextId, reader>>

Idle == [step |-> "idle"]

Init ==
    /\ row = [o \in ObjectIds |-> Null]
    /\ outbox = <<>> /\ published = 0 /\ ledger = <<>>
    /\ tx = [w \in Writers |-> Idle]
    /\ nextId = 1
    /\ reader = [held |-> [o \in ObjectIds |-> Null], images |-> <<>>]

Active(w) == tx[w] # Idle

InStep(w, step) == tx[w].step = step

\* What a caller may hand to Diff for a row: a value of it, one that does not
\* encode to an object, and a nil for no row.  The null that Diff takes for an
\* object is left to DiffCalls.
OperandsFor(side) ==
    IF side.present
    THEN {[kind |-> "object", fields |-> side.fields]}
         \cup [kind : {"scalar", "unmarshalable"}, fields : {NoFields}]
    ELSE {[kind |-> "nil", fields |-> NoFields]}

\* The bound of the model.
MayBuild == nextId <= MaxEvents

\* The row is locked and read, and its new content written in the
\* transaction.
Begin(w, o, content) ==
    /\ InStep(w, "idle") /\ MayBuild
    /\ \A v \in Writers : Active(v) => tx[v].object # o
    /\ tx' = [tx EXCEPT ![w] = [step |-> "written", object |-> o,
                                from |-> row[o], to |-> content, pending |-> <<>>]]
    /\ UNCHANGED <<row, outbox, published, ledger, nextId, reader>>

\* The transaction ends without effect: an error, a panic or a crash.
Abort(w) ==
    /\ Active(w)
    /\ tx' = [tx EXCEPT ![w] = Idle]
    /\ UNCHANGED <<row, outbox, published, ledger, nextId, reader>>

------------------------------------------------------------------------------
(* The library *)

\* The fields NewEvent requires; MustNewEvent panics where it returns an error.
Attributed(p) == "" \notin {p.tenant, p.action, p.objectType, p.service}

\* Mutant: the ID names the object instead of the event.
EventOfObject(p, o, diff) ==
    [id |-> o, object |-> o, tenant |-> p.tenant,
     type |-> <<p.objectType, p.action>>, service |-> p.service, diff |-> diff]

NewEvent(p, o, diff) ==
    [id |-> nextId, object |-> o, tenant |-> p.tenant,
     type |-> <<p.objectType, p.action>>, service |-> p.service, diff |-> diff]

\* Diff and NewEvent succeed; their errors make the caller abort.
Build(w, p) ==
    /\ InStep(w, "written") /\ MayBuild
    /\ \E before \in OperandsFor(tx[w].from), after \in OperandsFor(tx[w].to) :
        LET diff == Diff(before, after)
        IN  /\ diff.ok /\ Attributed(p)
            /\ tx' = [tx EXCEPT ![w].step = "built",
                                ![w].pending = <<NewEvent(p, tx[w].object, diff)>>]
    /\ nextId' = nextId + 1
    /\ UNCHANGED <<row, outbox, published, ledger, reader>>

Envelope(event) == [topic |-> "audit", eventType |-> <<"audit">> \o event.type,
                    tenant |-> event.tenant, payload |-> event]

\* Mutant: an error of the WriteFunc is not returned.
EmitSwallows(w) ==
    /\ InStep(w, "built")
    /\ \E kept \in {<<>>, <<Envelope(Head(tx[w].pending))>>} :
        tx' = [tx EXCEPT ![w].step = "emitted", ![w].pending = kept]
    /\ UNCHANGED <<row, outbox, published, ledger, nextId, reader>>

\* The WriteFunc inserts the envelope in the transaction.  When it fails,
\* Emit returns its error and the caller aborts.
Emit(w) ==
    /\ InStep(w, "built")
    /\ tx' = [tx EXCEPT ![w].step = "emitted",
                        ![w].pending = <<Envelope(Head(tx[w].pending))>>]
    /\ UNCHANGED <<row, outbox, published, ledger, nextId, reader>>

------------------------------------------------------------------------------
(* The service around it *)

\* One who starts with no objects and reads an event: the object after it
\* from the one held and the diff, and the one before it by undoing the diff.
Read(event) ==
    LET after == Patch(reader.held[event.object].fields, event.diff.old, event.diff.new)
    IN  [held   |-> [reader.held EXCEPT ![event.object] = after],
         images |-> Append(reader.images,
                        [object |-> event.object, to |-> after,
                         from |-> Patch(after.fields, event.diff.new, event.diff.old)])]

Commit(w) ==
    /\ InStep(w, "emitted")
    /\ row' = [row EXCEPT ![tx[w].object] = tx[w].to]
    /\ outbox' = outbox \o tx[w].pending
    /\ reader' = IF tx[w].pending = <<>> THEN reader ELSE Read(Head(tx[w].pending).payload)
    /\ tx' = [tx EXCEPT ![w] = Idle]
    /\ UNCHANGED <<published, ledger, nextId>>

\* The relay sends a row that it has not marked, or once more one that it
\* had sent before it crashed.  The ledger drops what it has.
Publish(i) ==
    /\ i \in 1..Len(outbox) /\ i <= published + 1
    /\ LET event == outbox[i].payload
           known == \E j \in DOMAIN ledger : ledger[j].id = event.id
       IN  ledger' = IF known THEN ledger ELSE Append(ledger, event)
    /\ UNCHANGED <<row, outbox, published, tx, nextId, reader>>

\* What was sent is marked.
Mark ==
    /\ published < Len(outbox)
    /\ \E j \in DOMAIN ledger : ledger[j].id = outbox[published + 1].payload.id
    /\ published' = published + 1
    /\ UNCHANGED <<row, outbox, ledger, tx, nextId, reader>>

------------------------------------------------------------------------------
Handle(w) ==
    \/ \E o \in ObjectIds, content \in Contents \cup {Null} : Begin(w, o, content)
    \/ \E p \in Params : Build(w, p)
    \/ Emit(w)
    \/ Commit(w)
    \/ Abort(w)

Relay == Mark \/ \E i \in 1..MaxEvents : Publish(i)

Next == Relay \/ \E w \in Writers : Handle(w)

Spec == Init /\ [][Next]_trailVars

\* The relay keeps running and what it sends arrives; nothing is assumed of
\* the writers.
FairSpec == Spec /\ WF_trailVars(Mark) /\ WF_trailVars(Publish(published + 1))

------------------------------------------------------------------------------
(* Properties *)

\* The outbox as the trail of AuditedStore, read from its diffs alone.
Store == INSTANCE AuditedStore WITH trail <- reader.images, Absent <- Null

\* A change exists exactly when its event does, whichever step fails, and
\* from the diffs alone every state an object ever had can be read, forth
\* and back, creations and deletions included (emit.go 18-20, diff.go 10-17).
ImplementsAuditedStore == Store!Spec

\* An event tells the change and nothing else: leaving any key out of its
\* diff would lose the change in one direction ("only the fields whose JSON
\* representation differs", diff.go 12).
DiffIsMinimal ==
    \A i \in DOMAIN outbox :
        LET diff    == outbox[i].payload.diff
            image   == reader.images[i]
            without(side, k) == [side EXCEPT !.fields = Only(side.fields, Keys \ {k})]
        IN  \A k \in DOMAIN diff.old.fields \cup DOMAIN diff.new.fields :
            \/ Patch(image.from.fields, without(diff.old, k), without(diff.new, k))
                   # image.to
            \/ Patch(image.to.fields, without(diff.new, k), without(diff.old, k))
                   # image.from

\* The ledger is the outbox, in order, without a gap or a duplicate, as far
\* as it has come, however often the relay sends a row.
LedgerFollowsOutbox ==
    ledger = [i \in 1..Len(ledger) |-> outbox[i].payload]

\* Every committed change is in the ledger some day.
ChangesReachLedger ==
    \A n \in 1..MaxEvents : Len(outbox) >= n ~> Len(ledger) >= n

==============================================================================
