---------------------------- MODULE MCPolicyEngine ----------------------------
(***************************************************************************)
(* Bundles and requests for checking PolicyEngine.                         *)
(***************************************************************************)
EXTENDS PolicyEngine, MCPolicies

------------------------------------------------------------------------------
(* The decision table: every actor, risk and delegation, one policy each.  *)

\* "rep" may read and delete leads but only read billing; "guest" has no
\* policy at all.
Actors == {id(a, "bot", "alice", "rep") : a \in LiveActors \cup {"LEGACY_UNKNOWN"}}
          \cup {id(a, "bot", "alice", "guest") : a \in {"AGENT", "USER"}}
          \cup {id("AGENT", "", "alice", "rep")}

TableRequests ==
    {request(who, target[1], target[2], risk, approved, target[3]) :
        who \in Actors,
        target \in {<<"read", "lead", 0>>, <<"delete", "lead", 1>>,
                    <<"delete", "lead", 0>>, <<"read", "billing", 0>>},
        risk \in Risks \cup {""}, approved \in BOOLEAN}
    \cup {[request(id(a, "bot", "alice", "rep"), "update", "lead", risk, approved, -1)
              EXCEPT !.serviceAllowed = allowed, !.mutates = ~allowed] :
             a \in LiveActors, risk \in Risks, approved \in BOOLEAN,
             allowed \in BOOLEAN}

leadRule == [grants |-> {"read", "update", "delete"},
             fields |-> Only("ssn", [read |-> TRUE, write |-> FALSE, mask |-> "redact"]),
             conditions |-> {}]

billingRule == [leadRule EXCEPT !.grants = {"read"}, !.fields = NoKeys]

systemRules == [key \in {<<"rep", "lead">>, <<"rep", "billing">>} |->
                    IF key[2] = "lead" THEN leadRule ELSE billingRule]

Profiles ==
    {Only("t1", profile(mode, "HIGH", 50)) :
        mode \in {"ENABLED", "RESTRICTED", "PAUSED", "DISABLED", "other"}}
    \cup {Only("t1", profile("ENABLED", risk, 50)) : risk \in {"LOW", "MEDIUM", ""}}
    \cup {Only("t1", profile("ENABLED", "HIGH", money)) : money \in {0, -1}}
    \cup {NoKeys}

Capabilities ==
    {capability(TRUE, risk, FALSE) : risk \in {"LOW", "MEDIUM", "HIGH", ""}}
    \cup {capability(TRUE, "HIGH", TRUE), capability(FALSE, "HIGH", FALSE), NoKeys}

TableBundles ==
    {[version |-> 1, system |-> systemRules, tenant |-> NoKeys,
      capabilities |-> caps, autonomy |-> auto] :
        caps \in Capabilities, auto \in Profiles}
    \cup {ZeroBundle}

------------------------------------------------------------------------------
(* Rules: a system role, what two tenants make of it, and records.         *)

field(read, write, mask) == [read |-> read, write |-> write, mask |-> mask]

SystemVariants ==
    {NoRule,
     [grants |-> {"read"},
      fields |-> ("ssn" :> field(TRUE, FALSE, "redact")) @@ ("pay" :> field(FALSE, FALSE, "")),
      conditions |-> {condition("owner", "==", {"$user_id"})}],
     [grants |-> {"read", "update"},
      fields |-> Only("*", field(FALSE, TRUE, "hash")),
      conditions |-> {condition("owner", "!=", {"bob"}),
                      condition("org", "in", {"$tenant_id", "shared"})}],
     [grants |-> {}, fields |-> Only("ssn", field(TRUE, TRUE, "")),
      conditions |-> {condition("owner", "like", {"alice"})}]}

TenantVariants ==
    {NoRule,
     [grants |-> {"read", "update"},
      fields |-> ("ssn" :> field(TRUE, TRUE, "")) @@ ("*" :> field(TRUE, FALSE, "partial")),
      conditions |-> {condition("owner", "==", {"alice", "bob"})}],
     [grants |-> {"read"}, fields |-> NoKeys,
      conditions |-> {condition("owner", "in", {"alice", "bob"})}]}

RuleBundles ==
    {[ZeroBundle EXCEPT !.version = 1,
                        !.system = Only(<<"rep", "lead">>, sys),
                        !.tenant = Only("t1", Only(<<"rep", "lead">>, override))] :
        sys \in SystemVariants, override \in TenantVariants}
    \cup {[ZeroBundle EXCEPT !.version = 1, !.system = Only(<<"rep", "lead">>, sys)] :
             sys \in SystemVariants}

Readers == {id("USER", "", user, "rep") : user \in {"alice", ""}}
           \cup {[id("USER", "", "alice", "rep") EXCEPT !.tenant = "t2"],
                 id("USER", "", "alice", "guest")}

RuleRequests ==
    {[id |-> who, verb |-> verb, object |-> "lead", field |-> name] :
        who \in Readers, verb \in {"read", "update", "browse"},
        name \in {"", "ssn", "pay", "notes"}}

Records == {NoKeys} \cup {("owner" :> owner) @@ ("org" :> org) :
                             owner \in {"alice", "bob"}, org \in {"t1", "t2", "shared"}}

RuleRecordRequests ==
    {[id |-> who, verb |-> verb, object |-> "lead", record |-> record] :
        who \in Readers, verb \in {"read", "update"}, record \in Records}

------------------------------------------------------------------------------
(* All of them, and the policies of MCPolicies, which newer ones replace.  *)

MCBundles == TableBundles \cup RuleBundles \cup Policies

MCCanRequests == RuleRequests \cup FewRequests

MCRecordRequests == RuleRecordRequests \cup FewRecordRequests

MCDecideRequests == TableRequests \cup FewDecideRequests

Upgrades == {p \in Policies \X Policies : p[1].version < p[2].version}

==============================================================================
