----------------------------- MODULE MCBundleWire -----------------------------
(***************************************************************************)
(* Names with separators in every place, bundles over them, and documents  *)
(* of other producers: older ones, with odd keys, or not decodable.        *)
(***************************************************************************)
EXTENDS BundleWire, MCPolicies

\* The last three are what decoding could make of the others.
MCSpelling == ("bot" :> <<"b">>) @@ ("tool" :> <<"t">>) @@ ("" :> <<>>)
           @@ ("bot|bot" :> <<"b", "|", "b">>)
           @@ ("bot|tool" :> <<"b", "|", "t">>)
           @@ ("bot|" :> <<"b", "|">>) @@ ("bot|bot|bot" :> <<"b", "|", "b", "|", "b">>)

KeyNames == {"bot", "tool", "bot|bot", ""}

Keys == KeyNames \X KeyNames

\* Maps with one entry, and with two whose values tell them apart.
MapsTo(v, w) == {(k :> v) : k \in Keys}
                \cup {(p[1] :> v) @@ (p[2] :> w) : p \in {p \in Keys \X Keys : p[1] # p[2]}}

readOnly == anyRecord({"read"})
mayAll == [read |-> TRUE, write |-> TRUE, mask |-> ""]
writeToo == [anyRecord({"read", "update"}) EXCEPT !.fields = Only("*", mayAll)]

runs == [allow |-> TRUE, maxRisk |-> "HIGH", requiresApproval |-> FALSE]
asks == [runs EXCEPT !.requiresApproval = TRUE]

enabled == Only("t1", profile("ENABLED", "HIGH", 50))

MCBundles ==
    {[ZeroBundle EXCEPT !.version = 1, !.system = m] : m \in MapsTo(readOnly, writeToo)}
    \cup {[ZeroBundle EXCEPT !.version = 2, !.capabilities = Only("t1", m) @@ Only("t2", NoKeys),
                             !.autonomy = enabled] : m \in MapsTo(runs, asks)}
    \cup {[ZeroBundle EXCEPT !.version = 3, !.tenant = Only("t1", m)] :
             m \in {Only(k, readOnly) : k \in Keys}}

\* With any number of separators, and with none.
Texts == {joinKey(k) : k \in {"bot", "tool", ""} \X Names} \cup {<<"b">>}

TextMaps(v, w) == {(p[1] :> v) @@ (p[2] :> w) : p \in Texts \X Texts}

\* The fields that a producer may know of.
older == [version |-> 4, system |-> Only(joinKey(<<"bot", "tool">>), readOnly),
          capabilities |-> Only("t1", Only(joinKey(<<"bot", "tool">>), runs)),
          autonomy |-> enabled]

MCDocuments ==
    {Invalid}
    \cup {[f \in kept |-> older[f]] : kept \in SUBSET DOMAIN older}
    \cup {[version |-> 5, system |-> m] : m \in TextMaps(readOnly, writeToo)}
    \cup {[version |-> 6, capabilities |-> Only("t1", m), autonomy |-> enabled] :
             m \in TextMaps(runs, asks)}

MCAgentRequests ==
    {request(id(actor, agent, "alice", "rep"), "read", "lead", "LOW", approved, 0) :
        actor \in AgentClass, agent \in {"bot", ""}, approved \in BOOLEAN}

==============================================================================
