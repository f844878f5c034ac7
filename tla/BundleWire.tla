------------------------------ MODULE BundleWire ------------------------------
(***************************************************************************)
(* The wire form of a compiled bundle, go/policy/wire.go: the governance   *)
(* service marshals a bundle and signs the document; a service unmarshals  *)
(* the document it verified, which may be of an older producer.            *)
(*                                                                         *)
(* A JSON object cannot have a pair for a key, so a (role, object type) or *)
(* an (agent role, tool action) becomes one text with a separator between. *)
(* Where the separator falls is what can go wrong, so names are spelled:   *)
(* spelling[n] is the sequence of characters of the name n, one of which   *)
(* may be the separator.  A document is a function on the fields that are  *)
(* present; what encoding/json does to the rules themselves is left out.   *)
(***************************************************************************)
EXTENDS Guardrails, Sequences, FiniteSets

CONSTANTS
    Characters,   \* what names are made of, the separator among it
    spelling,     \* the characters of each name
    Sep,          \* roleObjSep, the character 0x1f
    Bundles,      \* what the governance service may marshal
    Documents,    \* signed documents of other producers, readable or not
    Invalid,      \* a document that is not a JSON object of the right types
    NoBundle,
    AgentRequests \* requests by agent-class actors

Names == DOMAIN spelling

ASSUME SpellingAssumption ==
    /\ Sep \in Characters
    /\ \A n \in Names : spelling[n] \in Seq(Characters)
    /\ \A m, n \in Names : spelling[m] = spelling[n] => m = n

IsMap(f) == f = [k \in DOMAIN f |-> f[k]]

\* A Go map with a pair for a key.
IsKeyed(map) ==
    IsMap(map) /\ IsFiniteSet(DOMAIN map) /\ DOMAIN map \subseteq Names \X Names

ASSUME BundleAssumption ==
    /\ NoBundle \notin Bundles
    /\ \A b \in Bundles :
        /\ IsMap(b) /\ DOMAIN b = {"version", "system", "tenant", "capabilities", "autonomy"}
        /\ IsKeyed(b.system) /\ IsMap(b.autonomy)
        /\ \A f \in {"tenant", "capabilities"} :
            IsMap(b[f]) /\ \A t \in DOMAIN b[f] : IsKeyed(b[f][t])
    /\ \A req \in AgentRequests : req.id.actor \in AgentClass

VARIABLES
    stage,      \* compiled, refused, encoded, failed or decoded
    bundle,     \* the bundle to marshal; NoBundle for a document from elsewhere
    wire,       \* the document
    decoded     \* the variable a service decodes into

wireVars == <<stage, bundle, wire, decoded>>

------------------------------------------------------------------------------
(* Keys *)

Clean(name) == \A i \in DOMAIN spelling[name] : spelling[name][i] # Sep

\* Mutant: only the second name of a key is checked.
SecondClean(key) == Clean(key[2])

\* Whether roleObjKey and capKey accept a key.
CleanKey(key) == Clean(key[1]) /\ Clean(key[2])

joinKey(key) == spelling[key[1]] \o <<Sep>> \o spelling[key[2]]

named(text) == CHOOSE n \in Names : spelling[n] = text

HasSep(text) == \E i \in DOMAIN text : text[i] = Sep

\* The first separator in a text that has one.
cut(text) == CHOOSE i \in DOMAIN text : text[i] = Sep
                                     /\ \A j \in 1..(i - 1) : text[j] # Sep

\* Mutant: what follows a second separator is dropped.
splitKeyShort(text) ==
    LET rest == SubSeq(text, cut(text) + 1, Len(text))
    IN  <<named(SubSeq(text, 1, cut(text) - 1)),
          named(IF HasSep(rest) THEN SubSeq(rest, 1, cut(rest) - 1) ELSE rest)>>

\* parseRoleObjKey and parseCapKey cut at the first separator.
splitKey(text) ==
    <<named(SubSeq(text, 1, cut(text) - 1)),
      named(SubSeq(text, cut(text) + 1, Len(text)))>>

\* A map under other keys.  Go's iteration order would decide which of two
\* entries that get the same key stays: no reachable map has such entries.
Renamed(map, name) ==
    [new \in {name[k] : k \in DOMAIN map} |->
        map[CHOOSE k \in DOMAIN map : name[k] = new]]

Joined(map) == Renamed(map, [k \in DOMAIN map |-> joinKey(k)])

Split(map) == Renamed(map, [text \in DOMAIN map |-> splitKey(text)])

JoinedEach(maps) == [t \in DOMAIN maps |-> Joined(maps[t])]

SplitEach(maps) == [t \in DOMAIN maps |-> Split(maps[t])]

------------------------------------------------------------------------------
(* MarshalJSON *)

Marshals(b) ==
    /\ \A k \in DOMAIN b.system : CleanKey(k)
    /\ \A t \in DOMAIN b.tenant : \A k \in DOMAIN b.tenant[t] : CleanKey(k)
    /\ \A t \in DOMAIN b.capabilities :
            \A k \in DOMAIN b.capabilities[t] : CleanKey(k)

\* Empty maps are omitted; a tenant's empty map is not.
Encode(b) ==
    LET full == [version      |-> b.version,
                 system       |-> Joined(b.system),
                 tenant       |-> JoinedEach(b.tenant),
                 capabilities |-> JoinedEach(b.capabilities),
                 autonomy     |-> b.autonomy]
        kept == {"version"} \cup {f \in {"system", "tenant", "capabilities", "autonomy"} :
                                     DOMAIN b[f] # {}}
    IN  [f \in kept |-> full[f]]

ASSUME InvalidAssumption == \A b \in Bundles : Encode(b) # Invalid

Marshal ==
    /\ stage = "compiled" /\ Marshals(bundle)
    /\ wire' = Encode(bundle)
    /\ stage' = "encoded"
    /\ UNCHANGED <<bundle, decoded>>

MarshalFails ==
    /\ stage = "compiled" /\ ~Marshals(bundle)
    /\ stage' = "refused"
    /\ UNCHANGED <<bundle, wire, decoded>>

------------------------------------------------------------------------------
(* UnmarshalJSON *)

Field(doc, name) == Lookup(doc, name, NoKeys)

\* The texts of a document are finite in number; what a separator leaves of
\* one on either side are names.
IsTexts(map) ==
    /\ IsFiniteSet(DOMAIN map)
    /\ \A text \in DOMAIN map :
        /\ text \in Seq(Characters)
        /\ HasSep(text) => {SubSeq(text, 1, cut(text) - 1), SubSeq(text, cut(text) + 1, Len(text))}
                                \subseteq {spelling[n] : n \in Names}

ASSUME DocumentAssumption ==
    \A doc \in Documents \ {Invalid} :
        /\ IsTexts(Field(doc, "system"))
        /\ \A f \in {"tenant", "capabilities"} :
            \A t \in DOMAIN Field(doc, f) : IsTexts(Field(doc, f)[t])

Unmarshals(doc) ==
    /\ doc # Invalid
    /\ \A text \in DOMAIN Field(doc, "system") : HasSep(text)
    /\ \A f \in {"tenant", "capabilities"} :
            \A t \in DOMAIN Field(doc, f) : \A text \in DOMAIN Field(doc, f)[t] : HasSep(text)

\* Mutant: an older document gets a profile for every tenant it knows.
DecodeWithDefaults(doc) ==
    [version      |-> Lookup(doc, "version", 0),
     system       |-> Split(Field(doc, "system")),
     tenant       |-> SplitEach(Field(doc, "tenant")),
     capabilities |-> SplitEach(Field(doc, "capabilities")),
     autonomy     |-> IF "autonomy" \in DOMAIN doc THEN doc.autonomy
                      ELSE [t \in DOMAIN Field(doc, "capabilities") |->
                               [mode |-> "ENABLED", maxAutoRisk |-> "LOW", limits |-> NoLimits]]]

Decode(doc) ==
    [version      |-> Lookup(doc, "version", 0),
     system       |-> Split(Field(doc, "system")),
     tenant       |-> SplitEach(Field(doc, "tenant")),
     capabilities |-> SplitEach(Field(doc, "capabilities")),
     autonomy     |-> Field(doc, "autonomy")]

Unmarshal ==
    /\ stage = "encoded" /\ Unmarshals(wire)
    /\ decoded' = Decode(wire)
    /\ stage' = "decoded"
    /\ UNCHANGED <<bundle, wire>>

\* The receiver is assigned last, so a failure leaves it alone.
UnmarshalFails ==
    /\ stage = "encoded" /\ ~Unmarshals(wire)
    /\ stage' = "failed"
    /\ UNCHANGED <<bundle, wire, decoded>>

------------------------------------------------------------------------------
Init ==
    /\ decoded = ZeroBundle
    /\ \/ stage = "compiled" /\ bundle \in Bundles /\ wire = Invalid
       \/ stage = "encoded" /\ bundle = NoBundle /\ wire \in Documents

Next == Marshal \/ MarshalFails \/ Unmarshal \/ UnmarshalFails

Spec == Init /\ [][Next]_wireVars

------------------------------------------------------------------------------
(* Properties *)

\* "The separator invariant is enforced here, marshal-side, so signed bundles
\* are always parseable" (wire.go 14-18), and a service evaluates the bundle
\* that was compiled: every rule, capability and profile under its own key.
RoundTrip ==
    bundle # NoBundle => /\ stage # "failed"
                         /\ stage = "decoded" => decoded = bundle

\* Whatever the names in a document, no two of its rules or capabilities
\* become one: a service holds as many as the document has.
NoRuleMerged ==
    stage = "decoded" =>
        /\ Cardinality(DOMAIN decoded.system) = Cardinality(DOMAIN Field(wire, "system"))
        /\ \A f \in {"tenant", "capabilities"} : \A t \in DOMAIN Field(wire, f) :
            Cardinality(DOMAIN decoded[f][t]) = Cardinality(DOMAIN Field(wire, f)[t])

\* "An older bundle simply omits them, which grants no agent anything
\* (fail-closed)" (wire.go 67-68): under a document without capabilities or
\* without autonomy no request of an agent goes through or waits for
\* approval, approved or not, whatever its role may do.
OlderBundleGrantsNoAgent ==
    stage = "decoded" /\ ~({"capabilities", "autonomy"} \subseteq DOMAIN wire) =>
        \A req \in AgentRequests : Decide(decoded, Answer(TRUE), req).effect = "DENY"

==============================================================================
