------------------------------ MODULE MCPolicies ------------------------------
(***************************************************************************)
(* Identities, requests and policies that the MC modules share.            *)
(***************************************************************************)
EXTENDS PolicyRules

id(actor, agent, user, role) ==
    [actor |-> actor, agent |-> agent, tenant |-> "t1", user |-> user, role |-> role]

Only(key, value) == [k \in {key} |-> value]

condition(name, op, value) == [field |-> name, op |-> op, value |-> value]

request(who, verb, object, risk, approved, amount) ==
    [id |-> who, action |-> "tool", object |-> object, verb |-> verb, field |-> "",
     risk |-> risk, approved |-> approved, amount |-> amount,
     serviceAllowed |-> TRUE, mutates |-> FALSE]

profile(mode, risk, money) ==
    [mode |-> mode, maxAutoRisk |-> risk,
     limits |-> [perRun |-> 5, perHour |-> 9, money |-> money]]

capability(allow, risk, asks) ==
    Only("t1", Only(<<"bot", "tool">>,
        [allow |-> allow, maxRisk |-> risk, requiresApproval |-> asks]))

\* Policies that change grants, conditions and delegation; no policy at all.
policy(version, rule, mode) ==
    [version |-> version, system |-> Only(<<"rep", "lead">>, rule), tenant |-> NoKeys,
     capabilities |-> capability(TRUE, "HIGH", FALSE),
     autonomy |-> Only("t1", profile(mode, "HIGH", 50))]

ownRecord(grants) == [grants |-> grants, fields |-> NoKeys,
                conditions |-> {condition("owner", "==", {"$user_id"})}]

anyRecord(grants) == [ownRecord(grants) EXCEPT !.conditions = {}]

Policies == {policy(1, ownRecord({"read", "update"}), "PAUSED"),
             policy(2, anyRecord({"read"}), "ENABLED"),
             policy(3, ownRecord({"read", "update"}), "RESTRICTED"),
             ZeroBundle}

FewRequests == {[id |-> id("USER", "", "alice", "rep"), verb |-> verb,
                 object |-> "lead", field |-> ""] : verb \in {"read", "update"}}

FewRecordRequests ==
    {[id |-> id("USER", "", "alice", "rep"), verb |-> verb, object |-> "lead",
      record |-> Only("owner", owner)] :
        verb \in {"read", "update"}, owner \in {"alice", "bob"}}

FewDecideRequests ==
    {request(id(actor, "bot", "alice", "rep"), "update", "lead", risk, approved, 0) :
        actor \in {"USER", "AGENT"}, risk \in {"LOW", "HIGH", "CRITICAL"},
        approved \in BOOLEAN}

==============================================================================
