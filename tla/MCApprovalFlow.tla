---------------------------- MODULE MCApprovalFlow ----------------------------
(***************************************************************************)
(* An agent moves money, another may act on its own or must ask, and a     *)
(* purge is carried out by a service that has no rights itself.  The       *)
(* policies that follow each other take away the grant, the capability,    *)
(* the autonomy or the funding, or give them back with other ceilings.     *)
(***************************************************************************)
EXTENDS ApprovalFlow, MCPolicies

ofAgent(risk, amount) ==
    request(id("AGENT", "bot", "alice", "rep"), "update", "lead", risk, FALSE, amount)

MCAsks ==
    [pay   |-> ofAgent("LOW", 30),
     tidy  |-> ofAgent("MEDIUM", 0),
     purge |-> request(id("ADMIN", "", "alice", "rep"), "update", "lead", "HIGH", FALSE, 0)]

MCJobs == DOMAIN MCAsks

MCCarriesOut == [MCAsks EXCEPT !.pay = @.id, !.tidy = @.id,
                               !.purge = id("SERVICE", "", "", "")]

may == anyRecord({"update"})
mayNot == anyRecord({"read"})

limited(b, actions, money) ==
    [b EXCEPT !.autonomy = [t \in DOMAIN @ |->
        [@[t] EXCEPT !.limits.perHour = actions, !.limits.money = money]]]

MCBundles ==
    {limited(policy(1, may, "RESTRICTED"), 1, 50),
     limited(policy(2, mayNot, "ENABLED"), 2, 30),
     limited(policy(3, may, "PAUSED"), 2, 30),
     limited(policy(4, may, "ENABLED"), 2, 0),
     [limited(policy(5, may, "ENABLED"), 2, 20) EXCEPT !.capabilities = NoKeys],
     limited(policy(6, may, "ENABLED"), 1, 30)}

==============================================================================
