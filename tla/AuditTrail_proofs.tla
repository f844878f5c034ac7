---------------------------- MODULE AuditTrail_proofs ----------------------------
(***************************************************************************)
(* Theorems about AuditDiff and AuditTrail, for any keys and values and    *)
(* any number of writers, objects and events.                              *)
(***************************************************************************)
EXTENDS AuditTrail, SequenceTheorems, TLAPS

------------------------------------------------------------------------------
(* Diffs *)

\* An object is a function of its keys, and what is no object has none.
LEMMA OperandFields ==
    ASSUME NEW v \in Operands
    PROVE  /\ toMap(v) = [k \in DOMAIN toMap(v) |-> toMap(v)[k]]
           /\ isNil(v) => toMap(v) = NoFields
  <1>1. \A f \in Objects : f = [k \in DOMAIN f |-> f[k]]
    BY DEF Objects
  <1>2. NoFields = [k \in DOMAIN NoFields |-> NoFields[k]]
    BY DEF NoFields
  <1>3. CASE v \in [kind : {"object"}, fields : Objects]
    BY <1>1, <1>3 DEF toMap, isNil
  <1>4. CASE v \in [kind : Kinds, fields : {NoFields}]
    BY <1>2, <1>4 DEF toMap
  <1> QED
    BY <1>3, <1>4 DEF Operands

\* The newer object is what differs of it, and what does not of the older.
LEMMA Patched ==
    ASSUME NEW f, NEW g, g = [k \in DOMAIN g |-> g[k]],
           NEW from, from.fields = Only(f, differing(f, g)),
           NEW to, to = Side(Only(g, differing(f, g)))
    PROVE  Patch(f, from, to) = Side(g)
  <1> DEFINE keys == DOMAIN to.fields \cup (DOMAIN f \ DOMAIN from.fields)
             value(k) == IF k \in DOMAIN to.fields THEN to.fields[k] ELSE f[k]
  <1>1. /\ to.present /\ to.fields = Only(g, differing(f, g))
        /\ DOMAIN to.fields = differing(f, g) \cap DOMAIN g
        /\ DOMAIN from.fields = differing(f, g) \cap DOMAIN f
    BY DEF Only, Side
  <1>2. \A k \in DOMAIN f \ differing(f, g) : k \in DOMAIN g /\ f[k] = g[k]
    BY DEF differing
  <1>3. \A k \in DOMAIN g \ differing(f, g) : k \in DOMAIN f
    BY DEF differing
  <1>4. keys = DOMAIN g
    BY <1>1, <1>2, <1>3
  <1>5. \A k \in DOMAIN g : value(k) = g[k]
    BY <1>1, <1>2, <1>3 DEF Only
  <1>6. [k \in keys |-> value(k)] = g
    <2> HIDE DEF keys, value
    <2> QED
      BY <1>4, <1>5
  <1> QED
    BY <1>1, <1>6 DEF Patch

\* A side of a diff has what differs of its object, nil or not.
LEMMA DiffSideFields ==
    ASSUME NEW v \in Operands, NEW keys
    PROVE  DiffSide(v, keys).fields = Only(toMap(v), keys)
  <1>1. CASE isNil(v)
    <2>1. toMap(v) = NoFields
      BY <1>1, OperandFields
    <2>2. Only(NoFields, keys) = NoFields
      BY DEF Only, NoFields
    <2> QED
      BY <1>1, <2>1, <2>2 DEF DiffSide, Null
  <1>2. CASE ~isNil(v)
    BY <1>2 DEF DiffSide, Side
  <1> QED
    BY <1>1, <1>2

\* A diff leads from the object before to the object after.
LEMMA DiffForward ==
    ASSUME NEW a \in Operands, NEW b \in Operands, Diff(a, b).ok
    PROVE  Patch(toMap(a), Diff(a, b).old, Diff(a, b).new) = Described(b)
  <1> DEFINE keys == differing(toMap(a), toMap(b))
  <1>1. Diff(a, b).old = DiffSide(a, keys) /\ Diff(a, b).new = DiffSide(b, keys)
    BY DEF Diff, Failed
  <1>2. CASE isNil(b)
    BY <1>1, <1>2 DEF DiffSide, Patch, Null, Described
  <1>3. CASE ~isNil(b)
    <2>1. DiffSide(b, keys) = Side(Only(toMap(b), keys))
      BY <1>3 DEF DiffSide
    <2>2. DiffSide(a, keys).fields = Only(toMap(a), keys)
      BY DiffSideFields
    <2>3. Patch(toMap(a), DiffSide(a, keys), DiffSide(b, keys)) = Side(toMap(b))
      BY <2>1, <2>2, OperandFields, Patched
    <2> QED
      BY <1>1, <1>3, <2>3 DEF Described
  <1> QED
    BY <1>2, <1>3

\* A diff is the same with its operands and sides exchanged.
LEMMA DiffSymmetric ==
    ASSUME NEW a \in Operands, NEW b \in Operands, Diff(a, b).ok
    PROVE  /\ Diff(b, a).ok
           /\ Diff(b, a).old = Diff(a, b).new /\ Diff(b, a).new = Diff(a, b).old
  <1>1. differing(toMap(a), toMap(b)) = differing(toMap(b), toMap(a))
    BY DEF differing
  <1> QED
    BY <1>1 DEF Diff, Failed

\* A diff leads back.
LEMMA DiffBackward ==
    ASSUME NEW a \in Operands, NEW b \in Operands, Diff(a, b).ok
    PROVE  Patch(toMap(b), Diff(a, b).new, Diff(a, b).old) = Described(a)
  BY DiffSymmetric, DiffForward

\* Every diff that Diff returns leads from the object before to the object
\* after and back, creations, deletions and the operands that encode to null
\* included.
THEOREM DiffsReplay ==
    \A a, b \in Operands : Diff(a, b).ok =>
        /\ Patch(toMap(a), Diff(a, b).old, Diff(a, b).new) = Described(b)
        /\ Patch(toMap(b), Diff(a, b).new, Diff(a, b).old) = Described(a)
BY DiffForward, DiffBackward

\* A side without a key.
Without(side, k) == [side EXCEPT !.fields = Only(side.fields, Keys \ {k})]

\* A key that differs cannot be told from the others.
LEMMA Missed ==
    ASSUME NEW f, NEW g, NEW k \in differing(f, g),
           NEW from, from.fields = Only(Only(f, differing(f, g)), Keys \ {k}),
           NEW to, to.present, to.fields = Only(Only(g, differing(f, g)), Keys \ {k})
    PROVE  Patch(f, from, to) # Side(g)
  <1> SUFFICES ASSUME Patch(f, from, to) = Side(g) PROVE FALSE
    OBVIOUS
  <1> DEFINE keys == DOMAIN to.fields \cup (DOMAIN f \ DOMAIN from.fields)
             value(x) == IF x \in DOMAIN to.fields THEN to.fields[x] ELSE f[x]
  <1>1. k \notin DOMAIN to.fields /\ k \notin DOMAIN from.fields
    BY DEF Only
  <1>2. [x \in keys |-> value(x)] = g
    BY DEF Patch, Side
  <1>3. keys = DOMAIN g /\ \A x \in keys : value(x) = g[x]
    <2> HIDE DEF keys, value
    <2> QED
      BY <1>2
  <1>4. CASE k \in DOMAIN f
    <2>1. k \in keys /\ value(k) = f[k]
      BY <1>1, <1>4
    <2> QED
      BY <1>3, <1>4, <2>1 DEF differing
  <1>5. CASE k \notin DOMAIN f
    <2>1. k \in DOMAIN g /\ k \notin keys
      BY <1>1, <1>5 DEF differing
    <2> QED
      BY <1>3, <2>1
  <1> QED
    BY <1>4, <1>5

LEMMA MissedInDiff ==
    ASSUME NEW a \in Operands, NEW b \in Operands, Diff(a, b).ok, ~isNil(b),
           NEW k \in DOMAIN Diff(a, b).old.fields \cup DOMAIN Diff(a, b).new.fields
    PROVE  Patch(toMap(a), Without(Diff(a, b).old, k), Without(Diff(a, b).new, k))
               # Described(b)
  <1> DEFINE keys == differing(toMap(a), toMap(b))
  <1>1. Diff(a, b).old = DiffSide(a, keys) /\ Diff(a, b).new = DiffSide(b, keys)
    BY DEF Diff, Failed
  <1>2. /\ Diff(a, b).old.fields = Only(toMap(a), keys)
        /\ Diff(a, b).new.fields = Only(toMap(b), keys)
    BY <1>1, DiffSideFields
  <1>3. k \in keys
    BY <1>2 DEF Only
  <1>4. Diff(a, b).new = Side(Only(toMap(b), keys))
    BY <1>1 DEF DiffSide
  <1>5. /\ Without(Diff(a, b).new, k).present
        /\ Without(Diff(a, b).new, k).fields = Only(Only(toMap(b), keys), Keys \ {k})
    BY <1>4 DEF Without, Side
  <1>6. DOMAIN Diff(a, b).old = {"present", "fields"}
    BY <1>1 DEF DiffSide, Side, Null
  <1>7. Without(Diff(a, b).old, k).fields = Only(Only(toMap(a), keys), Keys \ {k})
    BY <1>2, <1>6 DEF Without
  <1> QED
    BY <1>3, <1>5, <1>7, Missed DEF Described

\* A diff without one of its keys loses the change, forth or back.
LEMMA NoKeyToSpare ==
    ASSUME NEW a \in Operands, NEW b \in Operands, Diff(a, b).ok,
           NEW k \in DOMAIN Diff(a, b).old.fields \cup DOMAIN Diff(a, b).new.fields
    PROVE  \/ Patch(toMap(a), Without(Diff(a, b).old, k), Without(Diff(a, b).new, k))
                  # Described(b)
           \/ Patch(toMap(b), Without(Diff(a, b).new, k), Without(Diff(a, b).old, k))
                  # Described(a)
  <1>1. CASE ~isNil(b)
    BY <1>1, MissedInDiff
  <1>2. CASE ~isNil(a)
    BY <1>2, MissedInDiff, DiffSymmetric
  <1>3. CASE isNil(a) /\ isNil(b)
    <2>1. DOMAIN Diff(a, b).old.fields = {} /\ DOMAIN Diff(a, b).new.fields = {}
      BY <1>3 DEF Diff, Failed, DiffSide, Null, NoFields
    <2> QED
      BY <2>1
  <1> QED
    BY <1>1, <1>2, <1>3

------------------------------------------------------------------------------
(* Events *)

States == Contents \cup {Null}

\* The event records the change of its object, through operands that stand
\* for the object before and after it.
Tells(event, change) ==
    /\ event.object = change.object
    /\ change.from \in States /\ change.to \in States
    /\ \E before \in OperandsFor(change.from), after \in OperandsFor(change.to) :
        Diff(before, after).ok /\ event.diff = Diff(before, after)

\* What an operand that Diff accepts says of a row is the row.
LEMMA OperandOfRow ==
    ASSUME NEW side \in States, NEW v \in OperandsFor(side), ~toMapFails(v)
    PROVE  v \in Operands /\ toMap(v) = side.fields /\ Described(v) = side
  <1>1. CASE side = Null
    BY <1>1 DEF OperandsFor, Operands, Kinds, toMap, Described, isNil, Null
  <1>2. CASE side \in Contents
    <2>1. PICK fields \in Objects : side = Side(fields)
      BY <1>2, ContentsAssumption
    <2>2. side.present /\ side.fields = fields
      BY <2>1 DEF Side
    <2>3. v = [kind |-> "object", fields |-> fields]
      BY <2>2 DEF OperandsFor, toMapFails
    <2>4. v \in [kind : {"object"}, fields : Objects]
      BY <2>3
    <2>5. v.kind = "object" /\ v.fields = fields
      BY <2>3
    <2> QED
      BY <2>1, <2>2, <2>4, <2>5 DEF Operands, toMap, Described, isNil
  <1> QED
    BY <1>1, <1>2 DEF States

\* Such an event leads from one to the other and back, and says no more.
LEMMA TellsTheChange ==
    ASSUME NEW event, NEW change, Tells(event, change)
    PROVE  /\ Patch(change.from.fields, event.diff.old, event.diff.new) = change.to
           /\ Patch(change.to.fields, event.diff.new, event.diff.old) = change.from
           /\ \A k \in DOMAIN event.diff.old.fields \cup DOMAIN event.diff.new.fields :
                \/ Patch(change.from.fields, Without(event.diff.old, k),
                         Without(event.diff.new, k)) # change.to
                \/ Patch(change.to.fields, Without(event.diff.new, k),
                         Without(event.diff.old, k)) # change.from
  <1>1. PICK before \in OperandsFor(change.from), after \in OperandsFor(change.to) :
            Diff(before, after).ok /\ event.diff = Diff(before, after)
    BY DEF Tells
  <1>2. ~toMapFails(before) /\ ~toMapFails(after)
    BY <1>1 DEF Diff, Failed
  <1>3. before \in Operands /\ toMap(before) = change.from.fields
        /\ Described(before) = change.from
    BY <1>2, OperandOfRow DEF Tells
  <1>4. after \in Operands /\ toMap(after) = change.to.fields
        /\ Described(after) = change.to
    BY <1>2, OperandOfRow DEF Tells
  <1>5. /\ Patch(change.from.fields, event.diff.old, event.diff.new) = change.to
        /\ Patch(change.to.fields, event.diff.new, event.diff.old) = change.from
    BY <1>1, <1>3, <1>4, DiffForward, DiffBackward
  <1>6. ASSUME NEW k \in DOMAIN event.diff.old.fields \cup DOMAIN event.diff.new.fields
        PROVE  \/ Patch(change.from.fields, Without(event.diff.old, k),
                        Without(event.diff.new, k)) # change.to
               \/ Patch(change.to.fields, Without(event.diff.new, k),
                        Without(event.diff.old, k)) # change.from
    BY <1>1, <1>3, <1>4, NoKeyToSpare
  <1> QED
    BY <1>5, <1>6

------------------------------------------------------------------------------
(* Sequences *)

IsSeq(s) == s \in Seq({s[i] : i \in DOMAIN s})

LEMMA SeqLength ==
    ASSUME NEW s, IsSeq(s)
    PROVE  Len(s) \in Nat /\ DOMAIN s = 1..Len(s)
BY LenProperties DEF IsSeq

LEMMA SeqAppended ==
    ASSUME NEW s, IsSeq(s), NEW e
    PROVE  /\ IsSeq(Append(s, e)) /\ s \o <<e>> = Append(s, e)
           /\ Len(Append(s, e)) = Len(s) + 1
           /\ Append(s, e)[Len(s) + 1] = e
           /\ \A i \in 1..Len(s) : Append(s, e)[i] = s[i]
<1> DEFINE S == {s[i] : i \in DOMAIN s} \cup {e}
<1>1. s \in Seq(S) /\ Len(s) \in Nat /\ DOMAIN s = 1..Len(s)
  BY SeqMonotonic, SeqLength DEF IsSeq
<1>2. e \in S
  OBVIOUS
<1> HIDE DEF S
<1>3. /\ Append(s, e) \in Seq(S) /\ Len(Append(s, e)) = Len(s) + 1
      /\ Append(s, e)[Len(s) + 1] = e
      /\ \A i \in 1..Len(s) : Append(s, e)[i] = s[i]
  BY <1>1, <1>2, AppendProperties
<1>4. s \o <<e>> = Append(s, e)
  BY <1>1, <1>2, AppendIsConcat
<1>5. DOMAIN Append(s, e) = 1..Len(s) + 1
  BY <1>1, <1>3, LenProperties
<1>6. S = {Append(s, e)[i] : i \in DOMAIN Append(s, e)}
  <2>1. \A i \in DOMAIN s : s[i] = Append(s, e)[i] /\ i \in DOMAIN Append(s, e)
    BY <1>1, <1>3, <1>5
  <2>2. Len(s) + 1 \in DOMAIN Append(s, e)
    BY <1>1, <1>5
  <2>3. \A i \in DOMAIN Append(s, e) : Append(s, e)[i] \in S
    BY <1>1, <1>3, <1>5 DEF S
  <2>4. ASSUME NEW x \in S
        PROVE  \E i \in DOMAIN Append(s, e) : x = Append(s, e)[i]
    <3>1. CASE x = e
      BY <1>3, <2>2, <3>1
    <3>2. CASE x # e
      BY <2>1, <3>2 DEF S
    <3> QED
      BY <3>1, <3>2
  <2> QED
    BY <2>3, <2>4
<1> QED
  BY <1>3, <1>4, <1>6 DEF IsSeq

LEMMA SeqEmpty == IsSeq(<<>>) /\ Len(<<>>) = 0
BY EmptySeq DEF IsSeq

------------------------------------------------------------------------------
(* Transactions *)

\* A writer has an event from Build on; Emit puts it into an envelope.
Carrying(w) == tx[w].step \in {"built", "emitted"}

Carried(w) == IF InStep(w, "built") THEN Head(tx[w].pending)
              ELSE Head(tx[w].pending).payload

InTransaction(t) ==
    /\ DOMAIN t = {"step", "object", "from", "to", "pending"}
    /\ t.step \in {"written", "built", "emitted"}
    /\ t.object \in ObjectIds /\ t.from \in States /\ t.to \in States

\* The lock on a row: one writer at a time has it, and finds it as it read it.
LockInv ==
    /\ \A w \in Writers : Active(w) => tx[w].from = row[tx[w].object]
    /\ \A v, w \in Writers :
        Active(v) /\ Active(w) /\ tx[v].object = tx[w].object => v = w

\* One event, or its envelope, goes with a transaction and tells its change.
CarriedInv ==
    \A w \in Writers : Carrying(w) =>
        /\ tx[w].pending = IF InStep(w, "built") THEN <<Carried(w)>>
                           ELSE <<Envelope(Carried(w))>>
        /\ Tells(Carried(w), tx[w])

TxInv ==
    /\ DOMAIN tx = Writers
    /\ \A w \in Writers : tx[w] = Idle \/ InTransaction(tx[w])
    /\ LockInv /\ CarriedInv

\* What the diffs tell is what the rows hold, one image per envelope.
ReaderInv ==
    /\ row \in [ObjectIds -> States]
    /\ DOMAIN reader = {"held", "images"} /\ reader.held = row
    /\ IsSeq(outbox) /\ IsSeq(reader.images) /\ Len(outbox) = Len(reader.images)
    /\ \A i \in 1..Len(outbox) : Tells(outbox[i].payload, reader.images[i])

ImageInv == TxInv /\ ReaderInv

\* No two events share an ID, committed or not.
IdInv ==
    /\ nextId \in Nat
    /\ \A i \in 1..Len(outbox) : outbox[i].payload.id \in 0..nextId - 1
    /\ \A w \in Writers : Carrying(w) => Carried(w).id \in 0..nextId - 1
    /\ \A i, j \in 1..Len(outbox) : outbox[i].payload.id = outbox[j].payload.id => i = j
    /\ \A i \in 1..Len(outbox), w \in Writers :
        Carrying(w) => Carried(w).id # outbox[i].payload.id
    /\ \A v, w \in Writers :
        Carrying(v) /\ Carrying(w) /\ Carried(v).id = Carried(w).id => v = w

\* The ledger is a prefix of the outbox, and the marks do not run ahead of it.
LedgerInv ==
    /\ IsSeq(ledger) /\ published \in Nat
    /\ published <= Len(ledger) /\ Len(ledger) <= Len(outbox)
    /\ \A i \in 1..Len(ledger) : ledger[i] = outbox[i].payload

TrailInv == IdInv /\ LedgerInv

------------------------------------------------------------------------------
(* Steps of a transaction *)

LEMMA SameTransaction ==
    ASSUME NEW w \in Writers, tx'[w] = tx[w]
    PROVE  /\ Carrying(w)' <=> Carrying(w)
           /\ Carried(w)' = Carried(w)
           /\ Active(w)' <=> Active(w)
BY DEF Carrying, Carried, InStep, Active

\* Without a transaction there is no event.
LEMMA IdleCarriesNothing ==
    ASSUME NEW t, t = Idle
    PROVE  t.step = "idle" /\ ~InTransaction(t)
<1>1. t.step = "idle" /\ "idle" \notin {"written", "built", "emitted"}
  BY DEF Idle
<1> QED
  BY <1>1 DEF InTransaction

LEMMA StepOfTransaction ==
    ASSUME TxInv, NEW w \in Writers, tx[w].step # "idle"
    PROVE  InTransaction(tx[w]) /\ Active(w)
BY IdleCarriesNothing DEF TxInv, Active

\* A step of one writer leaves the transactions of the others alone.
LEMMA OneWriterSteps ==
    ASSUME TxInv, NEW w \in Writers, DOMAIN tx' = Writers,
           \A v \in Writers : v # w => tx'[v] = tx[v],
           \A v \in Writers :
               v # w /\ Active(v) => row'[tx[v].object] = row[tx[v].object],
           \/ tx'[w] = Idle
           \/ /\ InTransaction(tx'[w]) /\ tx'[w].from = row'[tx'[w].object]
              /\ \A v \in Writers : v # w /\ Active(v) => tx[v].object # tx'[w].object
              /\ Carrying(w)' =>
                    /\ tx'[w].pending = IF InStep(w, "built")' THEN <<Carried(w)'>>
                                        ELSE <<Envelope(Carried(w)')>>
                    /\ Tells(Carried(w)', tx'[w])
    PROVE  TxInv'
<1>1. ASSUME NEW v \in Writers, v # w
      PROVE  /\ tx'[v] = tx[v]
             /\ Carrying(v)' <=> Carrying(v)
             /\ Carried(v)' = Carried(v)
             /\ Active(v)' <=> Active(v)
  BY <1>1, SameTransaction
<1>2. tx'[w] = Idle => ~Carrying(w)' /\ ~Active(w)'
  BY IdleCarriesNothing DEF Carrying, Active
<1>3. \A v \in Writers : tx'[v] = Idle \/ InTransaction(tx'[v])
  BY <1>1 DEF TxInv
<1>4. \A v \in Writers : Active(v)' => tx'[v].from = row'[tx'[v].object]
  BY <1>1, <1>2 DEF TxInv, LockInv
<1>5. \A u, v \in Writers :
        Active(u)' /\ Active(v)' /\ tx'[u].object = tx'[v].object => u = v
  BY <1>1, <1>2 DEF TxInv, LockInv
<1>6. LockInv'
  BY <1>4, <1>5 DEF LockInv, Active
<1>7. ASSUME NEW v \in Writers, Carrying(v)'
      PROVE  /\ tx'[v].pending = IF InStep(v, "built")' THEN <<Carried(v)'>>
                                 ELSE <<Envelope(Carried(v)')>>
             /\ Tells(Carried(v)', tx'[v])
  <2>1. CASE v = w
    BY <1>2, <1>7, <2>1
  <2>2. CASE v # w
    BY <1>1, <1>7, <2>2 DEF TxInv, CarriedInv, InStep
  <2> QED
    BY <2>1, <2>2
<1>8. CarriedInv'
  BY <1>7 DEF CarriedInv, InStep, Carrying, Carried
<1> QED
  BY <1>3, <1>6, <1>8 DEF TxInv, InTransaction

\* What a commit carries.
LEMMA CommitCarries ==
    ASSUME TxInv, ReaderInv, NEW w \in Writers, Commit(w)
    PROVE  /\ InTransaction(tx[w]) /\ Active(w) /\ Carrying(w)
           /\ Tells(Carried(w), tx[w])
           /\ tx[w].from = row[tx[w].object]
           /\ outbox' = Append(outbox, Envelope(Carried(w)))
           /\ reader' = Read(Carried(w))
<1>1. tx[w].step = "emitted"
  BY DEF Commit, InStep
<1>2. InTransaction(tx[w]) /\ Active(w) /\ Carrying(w)
  BY <1>1, StepOfTransaction DEF Carrying
<1>3. Tells(Carried(w), tx[w]) /\ tx[w].pending = <<Envelope(Carried(w))>>
  BY <1>1, <1>2 DEF TxInv, CarriedInv, InStep
<1>4. tx[w].from = row[tx[w].object]
  BY <1>2 DEF TxInv, LockInv
<1>5. outbox' = Append(outbox, Envelope(Carried(w)))
  BY <1>3, SeqAppended DEF Commit, ReaderInv
<1>6. Head(tx[w].pending).payload = Carried(w) /\ tx[w].pending # <<>>
  BY <1>3 DEF Envelope
<1>7. reader' = Read(Carried(w))
  BY <1>6 DEF Commit
<1> QED
  BY <1>2, <1>3, <1>4, <1>5, <1>7

\* The reader's image of a change that the event tells is the change.
LEMMA ReadImage ==
    ASSUME ReaderInv, NEW event, NEW change, Tells(event, change),
           change.object \in ObjectIds, change.from = row[change.object]
    PROVE  Read(event) =
            [held   |-> [row EXCEPT ![change.object] = change.to],
             images |-> Append(reader.images, [object |-> change.object,
                                               to |-> change.to, from |-> change.from])]
<1>1. event.object = change.object
  BY DEF Tells
<1>2. /\ Patch(change.from.fields, event.diff.old, event.diff.new) = change.to
      /\ Patch(change.to.fields, event.diff.new, event.diff.old) = change.from
  BY TellsTheChange
<1>3. reader.held = row
  BY DEF ReaderInv
<1>4. Patch(reader.held[event.object].fields, event.diff.old, event.diff.new) = change.to
  BY <1>1, <1>2, <1>3
<1> QED
  BY <1>1, <1>2, <1>3, <1>4 DEF Read

LEMMA InitImage == Init => ImageInv
<1> SUFFICES ASSUME Init PROVE ImageInv
  OBVIOUS
<1>1. \A w \in Writers : tx[w] = Idle /\ ~Carrying(w) /\ ~Active(w)
  BY IdleCarriesNothing DEF Init, Carrying, Active
<1>2. TxInv
  BY <1>1 DEF Init, TxInv, LockInv, CarriedInv
<1>3. ReaderInv
  BY SeqEmpty DEF Init, ReaderInv, States
<1> QED
  BY <1>2, <1>3 DEF ImageInv

\* What a step that commits nothing leaves alone.
LEMMA ReaderKept ==
    ASSUME ReaderInv, UNCHANGED <<row, outbox, reader>> PROVE ReaderInv'
BY DEF ReaderInv, Tells, IsSeq

LEMMA BeginStep ==
    ASSUME ImageInv, NEW w \in Writers, NEW o \in ObjectIds, NEW content \in States,
           Begin(w, o, content)
    PROVE  ImageInv'
<1> USE DEF ImageInv
<1>1. /\ tx'[w] = [step |-> "written", object |-> o, from |-> row[o], to |-> content,
                   pending |-> <<>>]
      /\ \A v \in Writers : v # w => tx'[v] = tx[v]
      /\ DOMAIN tx' = Writers
      /\ UNCHANGED <<row, outbox, reader>>
  BY DEF Begin, TxInv
<1>2. /\ InTransaction(tx'[w]) /\ tx'[w].step = "written"
      /\ tx'[w].object = o /\ tx'[w].from = row[o]
  BY <1>1 DEF InTransaction, ReaderInv
<1>3. \A v \in Writers : v # w /\ Active(v) => tx[v].object # tx'[w].object
  BY <1>2 DEF Begin
<1>4. ~Carrying(w)'
  BY <1>2 DEF Carrying
<1>5. TxInv'
  BY <1>1, <1>2, <1>3, <1>4, OneWriterSteps
<1> QED
  BY <1>1, <1>5, ReaderKept

LEMMA AbortStep ==
    ASSUME ImageInv, NEW w \in Writers, Abort(w) PROVE ImageInv'
<1> USE DEF ImageInv
<1>1. /\ tx'[w] = Idle
      /\ \A v \in Writers : v # w => tx'[v] = tx[v]
      /\ DOMAIN tx' = Writers
      /\ UNCHANGED <<row, outbox, reader>>
  BY DEF Abort, TxInv
<1>2. TxInv'
  BY <1>1, OneWriterSteps
<1> QED
  BY <1>1, <1>2, ReaderKept

\* What Build makes of a transaction.
LEMMA BuildMakes ==
    ASSUME ImageInv, NEW w \in Writers, NEW p, Build(w, p)
    PROVE  /\ InTransaction(tx[w]) /\ Active(w) /\ ~Carrying(w)
           /\ InTransaction(tx'[w])
           /\ tx'[w].object = tx[w].object /\ tx'[w].from = tx[w].from
           /\ Carrying(w)' /\ InStep(w, "built")'
           /\ tx'[w].pending = <<Carried(w)'>>
           /\ Tells(Carried(w)', tx'[w]) /\ Carried(w)'.id = nextId
           /\ \A v \in Writers : v # w => tx'[v] = tx[v]
           /\ DOMAIN tx' = Writers
           /\ UNCHANGED <<row, outbox, reader>> /\ nextId' = nextId + 1
<1> USE DEF ImageInv
<1>1. tx[w].step = "written"
  BY DEF Build, InStep
<1>2. InTransaction(tx[w]) /\ Active(w) /\ ~Carrying(w)
  BY <1>1, StepOfTransaction DEF Carrying
<1>3. PICK before \in OperandsFor(tx[w].from), after \in OperandsFor(tx[w].to) :
        /\ Diff(before, after).ok
        /\ tx' = [tx EXCEPT ![w].step = "built",
                            ![w].pending = <<NewEvent(p, tx[w].object, Diff(before, after))>>]
  BY Zenon DEF Build
<1>4. PICK diff : diff = Diff(before, after)
  OBVIOUS
<1>5. PICK event : event = NewEvent(p, tx[w].object, diff)
  OBVIOUS
<1>6. event.id = nextId /\ event.object = tx[w].object /\ event.diff = diff
  BY <1>5 DEF NewEvent
<1>7. tx' = [tx EXCEPT ![w].step = "built", ![w].pending = <<event>>]
  BY <1>3, <1>4, <1>5
<1>8. /\ DOMAIN tx'[w] = DOMAIN tx[w]
      /\ tx'[w].step = "built" /\ tx'[w].pending = <<event>>
      /\ tx'[w].object = tx[w].object /\ tx'[w].from = tx[w].from /\ tx'[w].to = tx[w].to
      /\ \A v \in Writers : v # w => tx'[v] = tx[v]
      /\ DOMAIN tx' = Writers
  BY <1>2, <1>7 DEF TxInv, InTransaction
<1>9. InTransaction(tx'[w]) /\ Carrying(w)' /\ InStep(w, "built")' /\ Carried(w)' = event
  BY <1>2, <1>8 DEF InTransaction, Carrying, Carried, InStep
<1>10. Tells(event, tx'[w])
  BY <1>2, <1>3, <1>4, <1>6, <1>8 DEF Tells, InTransaction
<1>11. UNCHANGED <<row, outbox, reader>> /\ nextId' = nextId + 1
  BY DEF Build
<1> QED
  BY <1>2, <1>6, <1>8, <1>9, <1>10, <1>11

LEMMA BuildStep ==
    ASSUME ImageInv, NEW w \in Writers, NEW p, Build(w, p) PROVE ImageInv'
<1>1. /\ tx'[w].from = row'[tx'[w].object]
      /\ \A v \in Writers : v # w /\ Active(v) => tx[v].object # tx'[w].object
  BY BuildMakes DEF ImageInv, TxInv, LockInv
<1>2. TxInv'
  BY <1>1, BuildMakes, OneWriterSteps DEF ImageInv
<1> QED
  BY <1>2, BuildMakes, ReaderKept DEF ImageInv

\* Emit changes the form of the event only.
LEMMA EmitMakes ==
    ASSUME ImageInv, NEW w \in Writers, Emit(w)
    PROVE  /\ InTransaction(tx[w]) /\ Active(w) /\ Carrying(w)
           /\ InTransaction(tx'[w])
           /\ tx'[w].object = tx[w].object /\ tx'[w].from = tx[w].from
           /\ Carrying(w)' /\ ~InStep(w, "built")' /\ Carried(w)' = Carried(w)
           /\ tx'[w].pending = <<Envelope(Carried(w))>>
           /\ Tells(Carried(w), tx'[w])
           /\ \A v \in Writers : v # w => tx'[v] = tx[v]
           /\ DOMAIN tx' = Writers
           /\ UNCHANGED <<row, outbox, reader, nextId>>
<1> USE DEF ImageInv
<1>1. tx[w].step = "built"
  BY DEF Emit, InStep
<1>2. InTransaction(tx[w]) /\ Active(w) /\ Carrying(w)
  BY <1>1, StepOfTransaction DEF Carrying
<1>3. Carried(w) = Head(tx[w].pending) /\ Tells(Carried(w), tx[w])
  BY <1>1, <1>2 DEF TxInv, CarriedInv, Carried, InStep
<1>4. PICK envelope : envelope = Envelope(Carried(w))
  OBVIOUS
<1>5. envelope.payload = Carried(w)
  BY <1>4 DEF Envelope
<1>6. tx' = [tx EXCEPT ![w].step = "emitted", ![w].pending = <<envelope>>]
  BY <1>3, <1>4 DEF Emit
<1>7. /\ DOMAIN tx'[w] = DOMAIN tx[w]
      /\ tx'[w].step = "emitted" /\ tx'[w].pending = <<envelope>>
      /\ tx'[w].object = tx[w].object /\ tx'[w].from = tx[w].from /\ tx'[w].to = tx[w].to
      /\ \A v \in Writers : v # w => tx'[v] = tx[v]
      /\ DOMAIN tx' = Writers
  BY <1>2, <1>6 DEF TxInv, InTransaction
<1>8. /\ InTransaction(tx'[w]) /\ Carrying(w)' /\ ~InStep(w, "built")'
      /\ Carried(w)' = Carried(w)
  BY <1>2, <1>5, <1>7 DEF InTransaction, Carrying, Carried, InStep
<1>9. Tells(Carried(w), tx'[w])
  BY <1>3, <1>7 DEF Tells
<1>10. UNCHANGED <<row, outbox, reader, nextId>>
  BY DEF Emit
<1> QED
  BY <1>2, <1>4, <1>7, <1>8, <1>9, <1>10

LEMMA EmitStep ==
    ASSUME ImageInv, NEW w \in Writers, Emit(w) PROVE ImageInv'
<1>1. /\ tx'[w].from = row'[tx'[w].object]
      /\ \A v \in Writers : v # w /\ Active(v) => tx[v].object # tx'[w].object
  BY EmitMakes DEF ImageInv, TxInv, LockInv
<1>2. TxInv'
  BY <1>1, EmitMakes, OneWriterSteps DEF ImageInv
<1> QED
  BY <1>2, EmitMakes, ReaderKept DEF ImageInv

\* A commit is one change of the abstract store, of its row and of what the
\* diffs tell.
LEMMA CommitChanges ==
    ASSUME ImageInv, NEW w \in Writers, Commit(w)
    PROVE  /\ row' = [row EXCEPT ![tx[w].object] = tx[w].to]
           /\ reader' = [held   |-> row',
                         images |-> Append(reader.images,
                                [object |-> tx[w].object, to |-> tx[w].to,
                                 from |-> row[tx[w].object]])]
<1>1. row' = [row EXCEPT ![tx[w].object] = tx[w].to]
  BY DEF Commit
<1>2. /\ InTransaction(tx[w]) /\ Tells(Carried(w), tx[w])
      /\ tx[w].from = row[tx[w].object] /\ reader' = Read(Carried(w))
  BY CommitCarries DEF ImageInv
<1>3. Read(Carried(w)) =
            [held   |-> [row EXCEPT ![tx[w].object] = tx[w].to],
             images |-> Append(reader.images, [object |-> tx[w].object,
                                               to |-> tx[w].to, from |-> tx[w].from])]
  BY <1>2, ReadImage DEF InTransaction, ImageInv
<1> QED
  BY <1>1, <1>2, <1>3

LEMMA CommitStep ==
    ASSUME ImageInv, NEW w \in Writers, Commit(w) PROVE ImageInv'
<1> USE DEF ImageInv
<1>1. /\ tx'[w] = Idle
      /\ \A v \in Writers : v # w => tx'[v] = tx[v]
      /\ DOMAIN tx' = Writers
  BY DEF Commit, TxInv
<1>2. /\ InTransaction(tx[w]) /\ Active(w) /\ Tells(Carried(w), tx[w])
      /\ tx[w].from = row[tx[w].object]
      /\ outbox' = Append(outbox, Envelope(Carried(w)))
  BY CommitCarries
<1>3. /\ row' = [row EXCEPT ![tx[w].object] = tx[w].to]
      /\ reader' = [held   |-> row',
                    images |-> Append(reader.images,
                           [object |-> tx[w].object, to |-> tx[w].to,
                            from |-> row[tx[w].object]])]
  BY CommitChanges
<1>4. \A v \in Writers :
        v # w /\ Active(v) => row'[tx[v].object] = row[tx[v].object]
  <2>1. ASSUME NEW v \in Writers, v # w, Active(v)
        PROVE  tx[v].object # tx[w].object /\ tx[v].object \in ObjectIds
    BY <1>2, <2>1 DEF TxInv, LockInv, Active, InTransaction
  <2> QED
    BY <1>3, <2>1 DEF ReaderInv
<1>5. TxInv'
  BY <1>1, <1>4, OneWriterSteps
<1>6. PICK image : image = [object |-> tx[w].object, to |-> tx[w].to,
                            from |-> row[tx[w].object]]
  OBVIOUS
<1>7. PICK envelope : envelope = Envelope(Carried(w))
  OBVIOUS
<1>8. Tells(envelope.payload, image)
  <2>1. image.object = tx[w].object /\ image.to = tx[w].to /\ image.from = tx[w].from
    BY <1>2, <1>6
  <2>2. envelope.payload = Carried(w)
    BY <1>7 DEF Envelope
  <2> QED
    BY <1>2, <2>1, <2>2 DEF Tells
<1>9. outbox' = Append(outbox, envelope) /\ reader'.images = Append(reader.images, image)
      /\ reader'.held = row' /\ DOMAIN reader' = {"held", "images"}
  BY <1>2, <1>3, <1>6, <1>7
<1>10. Len(outbox) \in Nat /\ Len(outbox) = Len(reader.images)
  BY SeqLength DEF ReaderInv
<1>11. /\ IsSeq(outbox') /\ Len(outbox') = Len(outbox) + 1
       /\ outbox'[Len(outbox) + 1] = envelope
       /\ \A i \in 1..Len(outbox) : outbox'[i] = outbox[i]
  BY <1>9, SeqAppended DEF ReaderInv
<1>12. /\ IsSeq(reader'.images) /\ Len(reader'.images) = Len(outbox) + 1
       /\ reader'.images[Len(outbox) + 1] = image
       /\ \A i \in 1..Len(outbox) : reader'.images[i] = reader.images[i]
  BY <1>9, <1>10, SeqAppended DEF ReaderInv
<1>13. ASSUME NEW i \in 1..Len(outbox')
       PROVE  Tells(outbox'[i].payload, reader'.images[i])
  <2>1. CASE i = Len(outbox) + 1
    BY <1>8, <1>11, <1>12, <2>1
  <2>2. CASE i \in 1..Len(outbox)
    BY <1>11, <1>12, <2>2 DEF ReaderInv
  <2> QED
    BY <1>10, <1>11, <2>1, <2>2
<1>14. row' \in [ObjectIds -> States]
  BY <1>2, <1>3 DEF ReaderInv, InTransaction
<1>15. ReaderInv'
  BY <1>9, <1>11, <1>12, <1>13, <1>14 DEF ReaderInv, Tells, IsSeq
<1> QED
  BY <1>5, <1>15

LEMMA ImageInvariant == Spec => []ImageInv
<1>1. ImageInv /\ [Next]_trailVars => ImageInv'
  <2> SUFFICES ASSUME ImageInv, [Next]_trailVars PROVE ImageInv'
    OBVIOUS
  <2>1. ASSUME UNCHANGED <<row, outbox, tx, reader>>
        PROVE  ImageInv'
    <3>1. TxInv'
      BY <2>1 DEF ImageInv, TxInv, LockInv, CarriedInv, Active, Carrying, Carried, InStep
    <3> QED
      BY <2>1, <3>1, ReaderKept DEF ImageInv
  <2>2. ASSUME NEW w \in Writers, Handle(w)
        PROVE  ImageInv'
    <3>1. Contents \cup {Null} = States
      BY DEF States
    <3> QED
      BY <2>2, <3>1, BeginStep, BuildStep, EmitStep, CommitStep, AbortStep DEF Handle
  <2>3. CASE Relay \/ UNCHANGED trailVars
    BY <2>1, <2>3 DEF Relay, Mark, Publish, trailVars
  <2> QED
    BY <2>2, <2>3 DEF Next
<1> QED
  BY <1>1, InitImage, PTL DEF Spec

\* A commit is a change of the abstract store; nothing else changes it.
LEMMA StepOfStore ==
    ASSUME ImageInv, [Next]_trailVars
    PROVE  Store!Next \/ UNCHANGED <<row, reader.images>>
<1>1. ASSUME NEW w \in Writers, Commit(w)
      PROVE  Store!Next
  <2>1. tx[w].object \in ObjectIds /\ tx[w].to \in Contents \cup {Null}
    BY <1>1, CommitCarries DEF ImageInv, InTransaction, States
  <2>2. PICK o \in ObjectIds, content \in Contents \cup {Null} :
            o = tx[w].object /\ content = tx[w].to
    BY <2>1
  <2>3. /\ row' = [row EXCEPT ![o] = content]
        /\ reader'.images = Append(reader.images,
                                [object |-> o, to |-> content, from |-> row[o]])
    BY <1>1, <2>2, CommitChanges
  <2>4. [object |-> o, to |-> content, from |-> row[o]]
            = [object |-> o, from |-> row[o], to |-> content]
    OBVIOUS
  <2>5. Store!Change(o, content)
    BY <2>3, <2>4 DEF Store!Change
  <2> QED
    BY <2>5 DEF Store!Next
<1>2. ASSUME NEW w \in Writers, Handle(w), ~Commit(w)
      PROVE  UNCHANGED <<row, reader>>
  BY <1>2 DEF Handle, Begin, Build, Emit, Abort
<1>3. CASE Relay \/ UNCHANGED trailVars
  BY <1>3 DEF Relay, Mark, Publish, trailVars
<1> QED
  BY <1>1, <1>2, <1>3 DEF Next

\* The service with its outbox implements a store whose every change and its
\* record are one step: a transaction that ends early leaves neither, and the
\* record, both objects in full, can be read from the diffs alone.
THEOREM TrailImplementsStore == Spec => ImplementsAuditedStore
<1>1. Init => Store!Init
  BY DEF Init, Store!Init
<1>2. ImageInv /\ [Next]_trailVars => [Store!Next]_(Store!storeVars)
  BY StepOfStore DEF Store!storeVars
<1> QED
  BY <1>1, <1>2, ImageInvariant, PTL DEF Spec, ImplementsAuditedStore, Store!Spec

\* No committed diff has a key that could be left out.
THEOREM DiffsAreMinimal == Spec => []DiffIsMinimal
<1>1. ImageInv => DiffIsMinimal
  <2> SUFFICES ASSUME ImageInv,
                      NEW i \in DOMAIN outbox, NEW diff, diff = outbox[i].payload.diff,
                      NEW image, image = reader.images[i],
                      NEW k \in DOMAIN diff.old.fields \cup DOMAIN diff.new.fields
               PROVE  \/ Patch(image.from.fields, Without(diff.old, k), Without(diff.new, k))
                             # image.to
                      \/ Patch(image.to.fields, Without(diff.new, k), Without(diff.old, k))
                             # image.from
    BY DEF DiffIsMinimal, Without
  <2>1. Tells(outbox[i].payload, image)
    BY SeqLength DEF ImageInv, ReaderInv
  <2> QED
    BY <2>1, TellsTheChange
<1> QED
  BY <1>1, ImageInvariant, PTL

------------------------------------------------------------------------------
(* The ledger *)

\* No step moves an ID but Build, which takes a new one, and Commit.
LEMMA IdsKept ==
    ASSUME IdInv, UNCHANGED <<outbox, nextId>>,
           \A w \in Writers : Carrying(w)' => Carrying(w) /\ Carried(w)'.id = Carried(w).id
    PROVE  IdInv'
BY DEF IdInv, Carrying, Carried, InStep

LEMMA IdsOfOthers ==
    ASSUME NEW w \in Writers, \A v \in Writers : v # w => tx'[v] = tx[v],
           ~Carrying(w)'
    PROVE  \A v \in Writers : Carrying(v)' =>
                v # w /\ Carrying(v) /\ Carried(v)' = Carried(v)
BY SameTransaction

LEMMA IdStep ==
    ASSUME IdInv, ImageInv, NEW w \in Writers, Handle(w)
    PROVE  IdInv'
<1> USE DEF ImageInv
<1>1. ASSUME NEW o \in ObjectIds, NEW content, Begin(w, o, content)
      PROVE  IdInv'
  <2>1. tx'[w].step = "written" /\ \A v \in Writers : v # w => tx'[v] = tx[v]
    BY <1>1 DEF Begin, TxInv
  <2>2. ~Carrying(w)'
    BY <2>1 DEF Carrying
  <2> QED
    BY <1>1, <2>1, <2>2, IdsOfOthers, IdsKept DEF Begin
<1>2. CASE Abort(w)
  <2>1. tx'[w] = Idle /\ \A v \in Writers : v # w => tx'[v] = tx[v]
    BY <1>2 DEF Abort, TxInv
  <2>2. ~Carrying(w)'
    BY <2>1, IdleCarriesNothing DEF Carrying
  <2> QED
    BY <1>2, <2>1, <2>2, IdsOfOthers, IdsKept DEF Abort
<1>3. CASE Emit(w)
  <2>1. ASSUME NEW v \in Writers, Carrying(v)'
        PROVE  Carrying(v) /\ Carried(v)'.id = Carried(v).id
    BY <1>3, <2>1, EmitMakes, SameTransaction
  <2> QED
    BY <1>3, <2>1, EmitMakes, IdsKept
<1>4. ASSUME NEW p \in Params, Build(w, p)
      PROVE  IdInv'
  <2>1. /\ Carried(w)'.id = nextId /\ nextId' = nextId + 1 /\ outbox' = outbox
        /\ \A v \in Writers : v # w => tx'[v] = tx[v]
    BY <1>4, BuildMakes
  <2>2. ASSUME NEW v \in Writers, v # w, Carrying(v)'
        PROVE  Carrying(v) /\ Carried(v)' = Carried(v)
    BY <2>1, <2>2, SameTransaction
  <2>3. nextId \in Nat
    BY DEF IdInv
  <2>4. \A v \in Writers : Carrying(v)' => Carried(v)'.id \in 0..nextId
    BY <2>1, <2>2, <2>3 DEF IdInv
  <2>5. \A v \in Writers : v # w /\ Carrying(v)' => Carried(v)'.id # nextId
    BY <2>2, <2>3 DEF IdInv
  <2>6. \A i \in 1..Len(outbox), v \in Writers :
            Carrying(v)' => Carried(v)'.id # outbox[i].payload.id
    BY <2>1, <2>2, <2>3 DEF IdInv
  <2>7. \A u, v \in Writers :
            Carrying(u)' /\ Carrying(v)' /\ Carried(u)'.id = Carried(v)'.id => u = v
    BY <2>1, <2>2, <2>5 DEF IdInv
  <2>8. \A i \in 1..Len(outbox) : outbox[i].payload.id \in 0..nextId
    BY <2>3 DEF IdInv
  <2> QED
    BY <2>1, <2>3, <2>4, <2>6, <2>7, <2>8 DEF IdInv, Carrying, Carried, InStep
<1>5. CASE Commit(w)
  <2>1. tx'[w] = Idle /\ nextId' = nextId /\ \A v \in Writers : v # w => tx'[v] = tx[v]
    BY <1>5 DEF Commit, TxInv
  <2>2. ~Carrying(w)'
    BY <2>1, IdleCarriesNothing DEF Carrying
  <2>3. \A v \in Writers : Carrying(v)' => v # w /\ Carrying(v) /\ Carried(v)' = Carried(v)
    BY <2>1, <2>2, IdsOfOthers
  <2>4. PICK envelope : envelope = Envelope(Carried(w))
    OBVIOUS
  <2>5. Carrying(w) /\ envelope.payload = Carried(w) /\ outbox' = Append(outbox, envelope)
    BY <1>5, <2>4, CommitCarries DEF Envelope
  <2>6. /\ Len(outbox) \in Nat /\ Len(outbox') = Len(outbox) + 1
        /\ outbox'[Len(outbox) + 1].payload.id = Carried(w).id
        /\ \A i \in 1..Len(outbox) : outbox'[i] = outbox[i]
    BY <2>5, SeqLength, SeqAppended DEF ReaderInv
  <2>7. \A i \in 1..Len(outbox') : i = Len(outbox) + 1 \/ i \in 1..Len(outbox)
    BY <2>6
  <2>8. \A i \in 1..Len(outbox') : outbox'[i].payload.id \in 0..nextId - 1
    BY <2>5, <2>6, <2>7 DEF IdInv
  <2>9. \A i, j \in 1..Len(outbox') :
            outbox'[i].payload.id = outbox'[j].payload.id => i = j
    BY <2>5, <2>6, <2>7 DEF IdInv
  <2>10. \A i \in 1..Len(outbox'), v \in Writers :
            Carrying(v)' => Carried(v)'.id # outbox'[i].payload.id
    BY <2>3, <2>5, <2>6, <2>7 DEF IdInv
  <2>11. \A v \in Writers : Carrying(v)' => Carried(v)'.id \in 0..nextId - 1
    BY <2>3 DEF IdInv
  <2>12. \A u, v \in Writers :
            Carrying(u)' /\ Carrying(v)' /\ Carried(u)'.id = Carried(v)'.id => u = v
    BY <2>3 DEF IdInv
  <2> QED
    BY <2>1, <2>8, <2>9, <2>10, <2>11, <2>12 DEF IdInv, Carrying, Carried, InStep
<1> QED
  BY <1>1, <1>2, <1>3, <1>4, <1>5 DEF Handle

\* An ID is known to the ledger when its envelope is in the prefix.
LEMMA Known ==
    ASSUME IdInv, LedgerInv, ReaderInv, NEW i \in 1..Len(outbox)
    PROVE  (\E j \in DOMAIN ledger : ledger[j].id = outbox[i].payload.id)
               <=> i <= Len(ledger)
<1>1. /\ Len(ledger) \in Nat /\ DOMAIN ledger = 1..Len(ledger)
      /\ Len(outbox) \in Nat /\ Len(ledger) <= Len(outbox)
  BY SeqLength DEF LedgerInv, ReaderInv
<1>2. \A j \in 1..Len(ledger) : j \in 1..Len(outbox) /\ ledger[j].id = outbox[j].payload.id
  BY <1>1 DEF LedgerInv
<1>3. ASSUME NEW j \in DOMAIN ledger, ledger[j].id = outbox[i].payload.id
      PROVE  i <= Len(ledger)
  BY <1>1, <1>2, <1>3 DEF IdInv
<1>4. ASSUME i <= Len(ledger)
      PROVE  i \in DOMAIN ledger /\ ledger[i].id = outbox[i].payload.id
  BY <1>1, <1>2, <1>4
<1> QED
  BY <1>3, <1>4

LEMMA LedgerStep ==
    ASSUME TrailInv, ImageInv, [Next]_trailVars
    PROVE  LedgerInv'
<1> USE DEF TrailInv, ImageInv
<1>0. Len(outbox) \in Nat /\ Len(ledger) \in Nat
  BY SeqLength DEF LedgerInv, ReaderInv
<1>1. ASSUME NEW i \in 1..MaxEvents, Publish(i)
      PROVE  LedgerInv'
  <2>1. /\ i \in 1..Len(outbox) /\ i <= published + 1
        /\ UNCHANGED <<outbox, published>>
    BY <1>1 DEF Publish
  <2>2. CASE i <= Len(ledger)
    <3>1. ledger' = ledger
      BY <1>1, <2>1, <2>2, Known DEF Publish
    <3> QED
      BY <2>1, <3>1 DEF LedgerInv, IsSeq
  <2>3. CASE ~(i <= Len(ledger))
    <3>1. ledger' = Append(ledger, outbox[i].payload)
      BY <1>1, <2>1, <2>3, Known DEF Publish
    <3>2. i = Len(ledger) + 1
      BY <1>0, <2>1, <2>3 DEF LedgerInv
    <3>3. /\ IsSeq(ledger') /\ Len(ledger') = Len(ledger) + 1
          /\ ledger'[Len(ledger) + 1] = outbox[i].payload
          /\ \A j \in 1..Len(ledger) : ledger'[j] = ledger[j]
      BY <3>1, SeqAppended DEF LedgerInv
    <3>4. \A j \in 1..Len(ledger') : ledger'[j] = outbox'[j].payload
      BY <1>0, <2>1, <3>2, <3>3 DEF LedgerInv
    <3>5. published' <= Len(ledger') /\ Len(ledger') <= Len(outbox')
      BY <1>0, <2>1, <3>2, <3>3 DEF LedgerInv
    <3> QED
      BY <2>1, <3>3, <3>4, <3>5 DEF LedgerInv, IsSeq
  <2> QED
    BY <2>2, <2>3
<1>2. CASE Mark
  <2>1. /\ published' = published + 1 /\ UNCHANGED <<outbox, ledger>>
        /\ published < Len(outbox)
        /\ \E j \in DOMAIN ledger : ledger[j].id = outbox[published + 1].payload.id
    BY <1>2 DEF Mark
  <2>2. published + 1 \in 1..Len(outbox)
    BY <1>0, <2>1 DEF LedgerInv
  <2>3. published + 1 <= Len(ledger)
    BY <2>1, <2>2, Known
  <2> QED
    BY <1>0, <2>1, <2>3 DEF LedgerInv, IsSeq
<1>3. ASSUME NEW w \in Writers, Commit(w)
      PROVE  LedgerInv'
  <2>1. /\ Len(outbox') = Len(outbox) + 1
        /\ \A j \in 1..Len(outbox) : outbox'[j] = outbox[j]
    BY <1>3, CommitCarries, SeqAppended DEF ReaderInv
  <2>2. UNCHANGED <<ledger, published>>
    BY <1>3 DEF Commit
  <2> QED
    BY <1>0, <2>1, <2>2 DEF LedgerInv, IsSeq
<1>4. ASSUME UNCHANGED <<outbox, published, ledger>>
      PROVE  LedgerInv'
  BY <1>4 DEF LedgerInv, IsSeq
<1>5. ASSUME NEW w \in Writers, Handle(w), ~Commit(w)
      PROVE  LedgerInv'
  BY <1>4, <1>5 DEF Handle, Begin, Build, Emit, Abort
<1> QED
  BY <1>1, <1>2, <1>3, <1>4, <1>5 DEF Next, Relay, trailVars

LEMMA TrailInvariant == Spec => []TrailInv
<1>1. Init => TrailInv
  <2> SUFFICES ASSUME Init PROVE TrailInv
    OBVIOUS
  <2>1. \A w \in Writers : ~Carrying(w)
    BY IdleCarriesNothing DEF Init, Carrying
  <2>2. IdInv
    BY <2>1, SeqEmpty DEF Init, IdInv
  <2>3. LedgerInv
    BY SeqEmpty DEF Init, LedgerInv
  <2> QED
    BY <2>2, <2>3 DEF TrailInv
<1>2. TrailInv /\ ImageInv /\ [Next]_trailVars => TrailInv'
  <2> SUFFICES ASSUME TrailInv, ImageInv, [Next]_trailVars PROVE TrailInv'
    OBVIOUS
  <2>1. ASSUME NEW w \in Writers, Handle(w)
        PROVE  IdInv'
    BY <2>1, IdStep DEF TrailInv
  <2>2. ASSUME Relay \/ UNCHANGED trailVars
        PROVE  IdInv'
    <3>1. UNCHANGED <<outbox, nextId, tx>>
      BY <2>2 DEF Relay, Mark, Publish, trailVars
    <3>2. \A w \in Writers : Carrying(w)' => Carrying(w) /\ Carried(w)' = Carried(w)
      BY <3>1 DEF Carrying, Carried, InStep
    <3> QED
      BY <3>1, <3>2, IdsKept DEF TrailInv
  <2>3. IdInv'
    BY <2>1, <2>2 DEF Next
  <2> QED
    BY <2>3, LedgerStep DEF TrailInv
<1> QED
  BY <1>1, <1>2, ImageInvariant, PTL DEF Spec

\* The ledger is the outbox as far as it has come, however often the relay
\* sends a row and wherever it crashes, for any number of events.
THEOREM LedgerIsOutboxPrefix == Spec => []LedgerFollowsOutbox
<1>1. TrailInv => LedgerFollowsOutbox
  <2> SUFFICES ASSUME TrailInv PROVE LedgerFollowsOutbox
    OBVIOUS
  <2>1. ledger = [i \in 1..Len(ledger) |-> ledger[i]]
    BY LenProperties DEF TrailInv, LedgerInv, IsSeq
  <2>2. \A i \in 1..Len(ledger) : ledger[i] = outbox[i].payload
    BY DEF TrailInv, LedgerInv
  <2> QED
    BY <2>1, <2>2 DEF LedgerFollowsOutbox
<1> QED
  BY <1>1, TrailInvariant, PTL

==============================================================================
