----------------------------- MODULE PolicyEngine -----------------------------
(***************************************************************************)
(* The Engine of go/policy: goroutines evaluate authorization calls while  *)
(* the bundle behind the engine's getter may be replaced at any time.      *)
(*                                                                         *)
(* Can takes one snapshot.  CanRecord and Decide take two: CanRecord asks  *)
(* Can and then fetches the rule's conditions from a fresh snapshot, and   *)
(* Decide reads its snapshot first and then asks Can, which takes its own. *)
(* Each get is a step; the rest of a call is local to the goroutine.       *)
(***************************************************************************)
EXTENDS Guardrails

CONSTANTS
    Evaluators,       \* goroutines calling the engine
    Bundles,          \* the bundles the getter may return
    Reloads,          \* the pairs <<old, new>> by which the getter's bundle changes
    CanRequests,      \* [id, verb, object, field]
    RecordRequests,   \* [id, verb, object, record]
    DecideRequests    \* DecisionRequest, see Guardrails

ASSUME ReloadAssumption == Reloads \subseteq Bundles \X Bundles

ASSUME BundleAssumption ==
    \A b \in Bundles :
        /\ DOMAIN b = {"version", "system", "tenant", "capabilities", "autonomy"}
        /\ b.version \in Int
        /\ \A t \in DOMAIN b.autonomy :
            /\ DOMAIN b.autonomy[t] = {"mode", "maxAutoRisk", "limits"}
            /\ b.autonomy[t].limits \in [perRun : Int, perHour : Int, money : Int]
        /\ \A t \in DOMAIN b.capabilities : \A key \in DOMAIN b.capabilities[t] :
            DOMAIN b.capabilities[t][key] = {"allow", "maxRisk", "requiresApproval"}

ASSUME RequestAssumption ==
    \A req \in DecideRequests :
        /\ DOMAIN req = {"id", "action", "object", "verb", "field", "risk",
                         "approved", "amount", "serviceAllowed", "mutates"}
        /\ req.approved \in BOOLEAN
        /\ req.amount \in Int

VARIABLES
    bundle,    \* what the getter returns now
    at,        \* where each evaluator is in its call
    call,      \* the request it is evaluating
    first,     \* its first snapshot
    second,    \* its second snapshot, the first again if it took only one
    result     \* the answer, so far or final

engineVars == <<bundle, at, call, first, second, result>>

NoCall == [id |-> "none"]

NoAnswer == Answer(FALSE)

Init ==
    /\ bundle \in Bundles
    /\ at = [e \in Evaluators |-> "idle"]
    /\ call = [e \in Evaluators |-> NoCall]
    /\ first = [e \in Evaluators |-> ZeroBundle]
    /\ second = [e \in Evaluators |-> ZeroBundle]
    /\ result = [e \in Evaluators |-> NoAnswer]

\* The loader swaps its cache.
Swap(new) ==
    /\ <<bundle, new>> \in Reloads
    /\ bundle' = new
    /\ UNCHANGED <<at, call, first, second, result>>

\* A call takes its first snapshot, proceeds to step and knows answer so far.
Enter(e, request, step, answer) ==
    /\ at[e] = "idle"
    /\ at' = [at EXCEPT ![e] = step]
    /\ call' = [call EXCEPT ![e] = request]
    /\ first' = [first EXCEPT ![e] = bundle]
    /\ second' = [second EXCEPT ![e] = bundle]
    /\ result' = [result EXCEPT ![e] = answer]
    /\ UNCHANGED bundle

\* A call takes its second snapshot and returns answer.
Leave(e, step, answer) ==
    /\ at' = [at EXCEPT ![e] = step]
    /\ second' = [second EXCEPT ![e] = bundle]
    /\ result' = [result EXCEPT ![e] = answer]
    /\ UNCHANGED <<bundle, call, first>>

\* The caller has its answer: nothing of the call stays in the engine.
Return(e) ==
    /\ at[e] \in {"answered", "scoped", "decided"}
    /\ at' = [at EXCEPT ![e] = "idle"]
    /\ call' = [call EXCEPT ![e] = NoCall]
    /\ first' = [first EXCEPT ![e] = ZeroBundle]
    /\ second' = [second EXCEPT ![e] = ZeroBundle]
    /\ result' = [result EXCEPT ![e] = NoAnswer]
    /\ UNCHANGED bundle

------------------------------------------------------------------------------
(* Can *)

CanCall(e, r) ==
    Enter(e, r, "answered", Can(bundle, r.id, r.verb, r.object, r.field))

------------------------------------------------------------------------------
(* CanRecord *)

WholeObject(b, r) == Can(b, r.id, r.verb, r.object, "")

\* The grant is missing: the record is not looked at.
RecordRefused(e, r) ==
    /\ ~WholeObject(bundle, r).allow
    /\ Enter(e, r, "scoped", WholeObject(bundle, r))

RecordGranted(e, r) ==
    /\ WholeObject(bundle, r).allow
    /\ Enter(e, r, "scope", WholeObject(bundle, r))

\* The conditions of the rule in force now decide.
Scoped(answer, b, r) ==
    IF InScope(RuleFor(b, r.id, r.object), r.id, r.record)
    THEN answer ELSE Answer(FALSE)

RecordScoped(e) ==
    /\ at[e] = "scope"
    /\ Leave(e, "scoped", Scoped(result[e], bundle, call[e]))

------------------------------------------------------------------------------
(* Decide *)

Rbac(b, req) == Can(b, req.id, req.verb, req.object, req.field)

\* A precondition or a denial of stage A up to the RBAC gate.
DecideRefused(e, req) ==
    /\ EarlyDenial(bundle, req) # None
    /\ Enter(e, req, "decided", DenyEarly(bundle, req))

DecideBegins(e, req) ==
    /\ EarlyDenial(bundle, req) = None
    /\ Enter(e, req, "gate", NoAnswer)

\* Mutant: the delegation too is read from the second snapshot, while the
\* preconditions were checked on the first.
DecideEndsOnSecond(e) ==
    /\ at[e] = "gate"
    /\ Leave(e, "decided", Conclude(bundle, Rbac(bundle, call[e]), call[e]))

\* Can answers from the bundle in force now; all the rest from the first.
DecideEnds(e) ==
    /\ at[e] = "gate"
    /\ Leave(e, "decided", Conclude(first[e], Rbac(bundle, call[e]), call[e]))

------------------------------------------------------------------------------
Evaluate(e) ==
    \/ \E r \in CanRequests : CanCall(e, r)
    \/ \E r \in RecordRequests : RecordRefused(e, r) \/ RecordGranted(e, r)
    \/ \E req \in DecideRequests : DecideRefused(e, req) \/ DecideBegins(e, req)
    \/ RecordScoped(e)
    \/ DecideEnds(e)
    \/ Return(e)

Next ==
    \/ \E new \in Bundles : Swap(new)
    \/ \E e \in Evaluators : Evaluate(e)

Spec == Init /\ [][Next]_engineVars

------------------------------------------------------------------------------
Effects == {"ALLOW", "ALLOW_WITH_CONDITIONS", "REQUIRE_APPROVAL", "DENY"}

\* What a call at each point holds: the request it is for, and its answer.
TypeOK ==
    /\ bundle \in Bundles
    /\ first \in [Evaluators -> Bundles \cup {ZeroBundle}]
    /\ second \in [Evaluators -> Bundles \cup {ZeroBundle}]
    /\ \A e \in Evaluators :
        /\ at[e] \in {"idle", "answered", "scope", "scoped", "gate", "decided"}
        /\ at[e] = "answered" => call[e] \in CanRequests
        /\ at[e] \in {"scope", "scoped"} => call[e] \in RecordRequests
        /\ at[e] \in {"gate", "decided"} => call[e] \in DecideRequests
        /\ at[e] \in {"answered", "scoped"} => result[e].allow \in BOOLEAN
        /\ at[e] = "decided" => result[e].effect \in Effects

------------------------------------------------------------------------------
(* Properties of Decide *)

Decided(e) == at[e] = "decided"

Gate(e) == Rbac(second[e], call[e])

Allows == {"ALLOW", "ALLOW_WITH_CONDITIONS"}

AtMost(risk, ceiling) == riskOrdinal[risk] <= riskOrdinal[ceiling]

\* The tenant has delegated this action to this agent, said as one condition
\* instead of as the ladder of Decide and outcome.
Delegated(b, req) ==
    LET profile == ProfileOf(b, req.id)
        cap     == CapabilityFor(b, req.id, req.action)
    IN  /\ b.version > 0
        /\ req.risk \in {"LOW", "MEDIUM", "HIGH"}
        /\ req.risk = "HIGH" => /\ req.id.actor # "EXTERNAL_INTEGRATION"
                                /\ req.verb # "delete"
        /\ profile.mode \in IF req.risk = "LOW" THEN {"ENABLED", "RESTRICTED"}
                                               ELSE {"ENABLED"}
        /\ req.id.agent # "" /\ cap.allow /\ ~cap.requiresApproval
        /\ cap.maxRisk \in Risks /\ profile.maxAutoRisk \in Risks
        /\ AtMost(req.risk, cap.maxRisk) /\ AtMost(req.risk, profile.maxAutoRisk)
        /\ \A k \in DOMAIN profile.limits : profile.limits[k] >= 0
        /\ req.amount <= 0 /\ req.object \notin ProtectedConfig

\* An agent-class actor carries an action out without a human exactly when
\* the tenant delegated it and its role has the right: no order of the checks
\* lets more through or stops what was delegated (decide.go 155-399).
AutonomousExactlyWhenDelegated ==
    \A e \in Evaluators :
        Decided(e) /\ call[e].id.actor \in AgentClass /\ ~call[e].approved
            => (result[e].effect \in Allows
                    <=> Gate(e).allow /\ Delegated(first[e], call[e]))

\* "An approval relaxes WHO may carry the action out, never WHAT may be
\* carried out" (decide.go 237-238): an approved request is refused exactly
\* when the same request, made by one who has the right, is refused.
ApprovalRelaxesOnlyWho ==
    \A e \in Evaluators :
        Decided(e) /\ call[e].approved
            => LET byHolder == Decide(first[e],
                                      [Gate(e) EXCEPT !.allow = TRUE],
                                      [call[e] EXCEPT !.approved = FALSE])
               IN  result[e].effect \in
                       IF byHolder.effect = "DENY" THEN {"DENY"} ELSE Allows

\* What waits for approval is executed once it is approved, under the same
\* policy, and nothing waits that the requester had no right to
\* (decide.go 224-226, 305-325).
ApprovalIsNeverInVain ==
    \A e \in Evaluators :
        Decided(e) /\ result[e].effect = "REQUIRE_APPROVAL"
            => /\ Gate(e).allow
               /\ Decide(first[e], Gate(e), [call[e] EXCEPT !.approved = TRUE]).effect
                    \in Allows

Strictness(effect) ==
    CASE effect = "DENY" -> 2
      [] effect = "REQUIRE_APPROVAL" -> 1
      [] OTHER -> 0

\* The same action at a higher risk is never treated more leniently, nor at
\* a risk nobody knows (decide.go 59-76, 363).
RiskIsMonotone ==
    \A e \in Evaluators, risk \in Risks \cup {""} :
        /\ Decided(e)
        /\ risk \in Risks /\ call[e].risk \in Risks => AtMost(call[e].risk, risk)
        /\ risk \in Risks => call[e].risk \in Risks
        => Strictness(Decide(first[e], Gate(e), [call[e] EXCEPT !.risk = risk]).effect)
                >= Strictness(result[e].effect)

Lower(ceiling) == {risk \in Risks : ceiling \in Risks /\ AtMost(risk, ceiling)}

StricterModes(mode) ==
    {"PAUSED", "DISABLED"} \cup IF mode = "ENABLED" THEN {"RESTRICTED"} ELSE {}

StricterProfiles(p) ==
    {[p EXCEPT !.mode = mode] : mode \in StricterModes(p.mode)}
    \cup {[p EXCEPT !.maxAutoRisk = risk] : risk \in Lower(p.maxAutoRisk)}
    \cup {q \in {[p EXCEPT !.limits.money = 0]} : p.limits.money > 0}

StricterCapabilities(c) ==
    {[c EXCEPT !.allow = FALSE], [c EXCEPT !.requiresApproval = TRUE]}
    \cup {[c EXCEPT !.maxRisk = risk] : risk \in Lower(c.maxRisk)}

\* The bundles in which the tenant has taken one thing back from the agent.
Tightened(b, req) ==
    LET t   == req.id.tenant
        key == <<req.id.agent, req.action>>
        own == Lookup(b.capabilities, t, NoKeys)
    IN  {[b EXCEPT !.autonomy[t] = p] :
            p \in IF t \in DOMAIN b.autonomy THEN StricterProfiles(b.autonomy[t]) ELSE {}}
        \cup {[b EXCEPT !.capabilities[t][key] = c] :
            c \in IF key \in DOMAIN own THEN StricterCapabilities(own[key]) ELSE {}}
        \cup {[b EXCEPT !.autonomy = NoKeys], [b EXCEPT !.capabilities = NoKeys]}

\* Taking autonomy back never gives an agent more: a stricter mode, a lower
\* ceiling or a withdrawn capability leaves no request better off.
DelegationIsMonotone ==
    \A e \in Evaluators :
        Decided(e) => \A b \in Tightened(first[e], call[e]) :
            Strictness(Decide(b, Gate(e), call[e]).effect)
                >= Strictness(result[e].effect)

\* The guardrails reach the agent class only: what a tenant delegates to its
\* agents changes nothing for its people (decide.go 244-246, 300).
PeopleUnaffectedByDelegation ==
    \A e \in Evaluators :
        Decided(e) /\ call[e].id.actor \notin AgentClass
            => result[e] = Decide([first[e] EXCEPT !.autonomy = NoKeys,
                                                   !.capabilities = NoKeys],
                                  Gate(e), call[e])

\* A denial is attributable: the policy whose version it reports does give
\* that answer ("one that cannot say which policy produced it defeats the
\* attributability the guardrail exists to provide", decide.go 145-147).
DenialIsAttributable ==
    \A e \in Evaluators :
        Decided(e) /\ result[e].effect = "DENY"
            => Decide(first[e], Rbac(first[e], call[e]), call[e]) = result[e]

------------------------------------------------------------------------------
(* Properties of Can and CanRecord *)

\* A tenant's override of a system role can only narrow the records the role
\* reaches (model.go 130-137): no record outside the system's conditions.
TenantOnlyTightensScope ==
    \A e \in Evaluators :
        at[e] = "scoped" /\ result[e].allow
            => LET r == call[e]
               IN  InScope(SystemRule(second[e], r.id.role, r.object), r.id, r.record)

\* Reading the object and reading its fields one by one show the same fields,
\* and a field nobody named is governed by the default (fls.go 5-83).  A field
\* has a name: to Can, the empty one stands for the object.
WholeAndFieldReadsAgree ==
    \A e \in Evaluators :
        at[e] = "answered" /\ call[e].verb = "read" /\ call[e].field = "" /\ result[e].allow
            => LET r         == call[e]
                   readable(f) == Can(first[e], r.id, "read", r.object, f).allow
                   named     == DOMAIN RuleFor(first[e], r.id, r.object).fields
               IN  /\ result[e].visible \ {""} = {f \in named \ {"*", ""} : readable(f)}
                   /\ DOMAIN result[e].masked \subseteq result[e].visible
                   /\ \A f \in {"unnamed"} \ named :
                        readable(f) = ("*" \in named => readable("*"))

\* "CanRecord first applies the same RBAC check as Can, then evaluates every
\* RecordConditions predicate on the rule" (abac.go 8-12): on one rule, so
\* that some bundle it saw gives the answer it returns.
RecordAnswerFromOneRule ==
    \A e \in Evaluators :
        at[e] = "scoped"
            => \E b \in {first[e], second[e]} :
                LET dec == WholeObject(b, call[e])
                IN  result[e] = IF dec.allow THEN Scoped(dec, b, call[e]) ELSE dec

==============================================================================
