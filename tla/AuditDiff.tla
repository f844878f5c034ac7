------------------------------- MODULE AuditDiff -------------------------------
(***************************************************************************)
(* Diff of go/audit/diff.go: what an audit event records of a change, from *)
(* the object before it and after it.                                      *)
(*                                                                         *)
(* An operand is what Diff can tell apart about a Go value:                *)
(*   nil            no value, or a typed nil pointer, map or slice         *)
(*   object         encodes to a JSON object; fields maps each top-level   *)
(*                  key to the bytes of its encoding                       *)
(*   null           is not nil, yet encodes to the JSON null: a pointer to *)
(*                  a nil pointer, a RawMessage, an own MarshalJSON        *)
(*   scalar         encodes to an array, a string or a number              *)
(*   unmarshalable  json.Marshal fails                                     *)
(* A value inside an object is compared by its bytes, so it is an atom.    *)
(***************************************************************************)
CONSTANTS Keys, Values

NoFields == [k \in {} |-> k]

Objects == UNION {[keys -> Values] : keys \in SUBSET Keys}

Kinds == {"nil", "null", "scalar", "unmarshalable"}

Operands == [kind : {"object"}, fields : Objects]
            \cup [kind : Kinds, fields : {NoFields}]

isNil(v) == v.kind = "nil"

\* Whether toMap returns an error.
toMapFails(v) == v.kind \in {"scalar", "unmarshalable"}

\* The map toMap returns: empty for nil, and for a null, which decodes into
\* a map without error.
toMap(v) == v.fields

\* A side of a diff that stands for no object at all, the literal null.
Null == [present |-> FALSE, fields |-> NoFields]

Side(fields) == [present |-> TRUE, fields |-> fields]

Failed == [ok |-> FALSE, old |-> Null, new |-> Null]

\* Mutant: every key of either object is reported.
anyKey(old, new) == DOMAIN old \cup DOMAIN new

\* The keys that one side lacks or that have other bytes.
differing(old, new) ==
    {k \in DOMAIN old \cup DOMAIN new :
        ~(k \in DOMAIN old /\ k \in DOMAIN new /\ old[k] = new[k])}

Only(fields, keys) == [k \in keys \cap DOMAIN fields |-> fields[k]]

DiffSide(v, keys) == IF isNil(v) THEN Null ELSE Side(Only(toMap(v), keys))

Diff(before, after) ==
    IF toMapFails(before) \/ toMapFails(after) THEN Failed
    ELSE LET keys == differing(toMap(before), toMap(after))
         IN  [ok |-> TRUE, old |-> DiffSide(before, keys), new |-> DiffSide(after, keys)]

------------------------------------------------------------------------------
(* A reader of the ledger.                                                 *)

\* The object a reader holds after applying a diff to the one it held; with
\* the sides exchanged, the object before the change.
Patch(fields, from, to) ==
    IF ~to.present THEN Null
    ELSE Side([k \in DOMAIN to.fields \cup (DOMAIN fields \ DOMAIN from.fields) |->
                  IF k \in DOMAIN to.fields THEN to.fields[k] ELSE fields[k]])

\* What an operand says of its object.
Described(v) == IF isNil(v) THEN Null ELSE Side(toMap(v))

==============================================================================
