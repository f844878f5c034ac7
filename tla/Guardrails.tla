------------------------------ MODULE Guardrails ------------------------------
(***************************************************************************)
(* Decide of go/policy/decide.go as an operator of the bundle it reads and *)
(* of the RBAC answer it gets: the preconditions and the stages in their   *)
(* order, each giving the reason code of the first denial that applies.    *)
(*                                                                         *)
(*   request [id, action, object, verb, field, risk, approved, amount,     *)
(*            serviceAllowed, mutates]                                     *)
(*   profile [mode, maxAutoRisk, limits : [perRun, perHour, money]]        *)
(*   capability [allow, maxRisk, requiresApproval]                         *)
(***************************************************************************)
EXTENDS PolicyRules

LiveActors == {"USER", "ADMIN", "SERVICE", "AGENT", "AUTOMATION",
               "EXTERNAL_INTEGRATION", "SYSTEM"}

AgentClass == {"AGENT", "AUTOMATION", "EXTERNAL_INTEGRATION"}

riskOrdinal == [LOW |-> 10, MEDIUM |-> 20, HIGH |-> 30, CRITICAL |-> 40]

Risks == DOMAIN riskOrdinal

ProtectedConfig == {"billing_config", "security_config", "billing", "security"}

None == "none"    \* no reason code

NoLimits == [perRun |-> 0, perHour |-> 0, money |-> 0]

NoProfile == [mode |-> "", maxAutoRisk |-> "", limits |-> NoLimits]

NoCapability == [allow |-> FALSE, maxRisk |-> "", requiresApproval |-> FALSE]

ProfileOf(bundle, id) == Lookup(bundle.autonomy, id.tenant, NoProfile)

\* Mutant: an action without a rule falls back on a platform-wide grant.
CapabilityOrGrant(bundle, id, action) ==
    Lookup(Lookup(bundle.capabilities, id.tenant, NoKeys), <<id.agent, action>>,
           [allow |-> TRUE, maxRisk |-> "HIGH", requiresApproval |-> FALSE])

CapabilityFor(bundle, id, action) ==
    Lookup(Lookup(bundle.capabilities, id.tenant, NoKeys),
           <<id.agent, action>>, NoCapability)

------------------------------------------------------------------------------
(* Denials *)

PreconditionDenial(bundle, req) ==
    IF bundle.version <= 0 THEN "policy_absent"
    ELSE IF req.id.actor \notin LiveActors THEN "actor_type_missing"
    ELSE IF req.risk \notin Risks THEN "invalid_request"
    ELSE None

\* Stage A up to the RBAC gate, for a live actor and a known risk.
UniversalDenial(req) ==
    LET actor == req.id.actor
    IN  IF actor \in AgentClass /\ req.risk = "CRITICAL"
            THEN "critical_agent_prohibited"
        ELSE IF actor = "EXTERNAL_INTEGRATION" /\ req.risk \notin {"LOW", "MEDIUM"}
            THEN "external_risk_cap"
        ELSE IF \/ actor = "SERVICE" /\ ~req.serviceAllowed
                \/ actor = "SYSTEM" /\ req.mutates
            THEN "resource_denied"
        ELSE None

\* What Decide can answer before it asks Can.
EarlyDenial(bundle, req) ==
    IF PreconditionDenial(bundle, req) # None
    THEN PreconditionDenial(bundle, req)
    ELSE UniversalDenial(req)

\* The RBAC gate, the one gate a verified approval opens.
GateDenial(rbac, req) ==
    IF ~rbac.allow /\ ~req.approved THEN "resource_denied" ELSE None

\* Stage B, for an actor of the agent class.
AgentDenial(bundle, req) ==
    LET profile == ProfileOf(bundle, req.id)
        cap     == CapabilityFor(bundle, req.id, req.action)
        limits  == profile.limits
    IN  IF req.id.tenant \notin DOMAIN bundle.autonomy THEN "autonomy_unconfigured"
        ELSE IF profile.mode \in {"PAUSED", "DISABLED"} THEN "autonomy_halted"
        ELSE IF \/ profile.mode \notin {"ENABLED", "RESTRICTED"}
                \/ profile.maxAutoRisk \notin Risks
                \/ limits.perRun < 0 \/ limits.perHour < 0 \/ limits.money < 0
            THEN "invalid_policy_config"
        ELSE IF req.id.agent = "" \/ ~cap.allow THEN "no_capability"
        ELSE IF \/ cap.maxRisk \notin Risks
                \/ req.amount > 0 /\ limits.money = 0
            THEN "invalid_policy_config"
        ELSE None

\* Mutant: an approval passes the agent-class denials too.
LateDenialApproved(bundle, rbac, req) ==
    IF GateDenial(rbac, req) # None THEN GateDenial(rbac, req)
    ELSE IF req.id.actor \in AgentClass /\ ~req.approved THEN AgentDenial(bundle, req)
    ELSE None

\* Mutant: the agent-class denials reach everyone.
LateDenialForAll(bundle, rbac, req) ==
    IF GateDenial(rbac, req) # None THEN GateDenial(rbac, req)
    ELSE AgentDenial(bundle, req)

LateDenial(bundle, rbac, req) ==
    IF GateDenial(rbac, req) # None THEN GateDenial(rbac, req)
    ELSE IF req.id.actor \in AgentClass THEN AgentDenial(bundle, req)
    ELSE None

------------------------------------------------------------------------------
(* Outcome *)

\* Mutant: the floor stops HIGH and lets CRITICAL through.
ExactlyHigh(risk) == risk = "HIGH"

AtLeastHigh(risk) == riskOrdinal[risk] >= riskOrdinal["HIGH"]

highDelegated(profile, cap) ==
    /\ profile.mode = "ENABLED"
    /\ ~cap.requiresApproval
    /\ AtLeastHigh(profile.maxAutoRisk)
    /\ AtLeastHigh(cap.maxRisk)

\* Why an unapproved request that nothing denies needs a human, or None.
ApprovalReason(bundle, req) ==
    LET agent   == req.id.actor \in AgentClass
        profile == ProfileOf(bundle, req.id)
        cap     == CapabilityFor(bundle, req.id, req.action)
        above(ceiling) == riskOrdinal[req.risk] > riskOrdinal[ceiling]
    IN  IF agent /\ req.amount > 0 THEN "approval_required_money_movement"
        ELSE IF agent /\ req.verb = "delete" /\ AtLeastHigh(req.risk)
            THEN "approval_required_destructive"
        ELSE IF agent /\ req.object \in ProtectedConfig
            THEN "approval_required_protected_config"
        ELSE IF AtLeastHigh(req.risk) /\ ~(agent /\ highDelegated(profile, cap))
            THEN "approval_required_high_risk"
        ELSE IF ~agent THEN None
        ELSE IF cap.requiresApproval THEN "approval_required_capability"
        ELSE IF above(cap.maxRisk) THEN "approval_required_capability_max_risk"
        ELSE IF above(profile.maxAutoRisk)
            THEN "approval_required_tenant_max_auto_risk"
        ELSE IF profile.mode = "RESTRICTED" /\ above("LOW")
            THEN "approval_required_autonomy_restricted"
        ELSE None

\* Mutant: an approved action asks for approval again.
StillNeedsApproval(bundle, req) == ApprovalReason(bundle, req)

\* A verified approval is the successful transition.
PendingReason(bundle, req) ==
    IF req.approved THEN None ELSE ApprovalReason(bundle, req)

\* Mutant: the effect is set only for masked fields.
AllowEffectMasked(rbac) ==
    IF DOMAIN rbac.masked # {} THEN "ALLOW_WITH_CONDITIONS" ELSE ""

AllowEffect(rbac) ==
    IF DOMAIN rbac.masked # {} THEN "ALLOW_WITH_CONDITIONS" ELSE "ALLOW"

------------------------------------------------------------------------------
(* Decide *)

deny(version, code) ==
    [effect |-> "DENY", code |-> code, visible |-> {}, masked |-> NoKeys,
     version |-> version, limits |-> NoLimits]

\* A bundle that counts as absent is reported as version 0.
DenyEarly(bundle, req) ==
    deny(IF bundle.version <= 0 THEN 0 ELSE bundle.version, EarlyDenial(bundle, req))

\* Mutant: an approved action returns before its ceilings are filled in.
LimitsUnapproved(bundle, req) ==
    IF req.id.actor \in AgentClass /\ ~req.approved
    THEN ProfileOf(bundle, req.id).limits ELSE NoLimits

\* The ceilings an agent must reserve against.
LimitsRequired(bundle, req) ==
    IF req.id.actor \in AgentClass THEN ProfileOf(bundle, req.id).limits ELSE NoLimits

outcome(bundle, rbac, req) ==
    LET reason == PendingReason(bundle, req)
    IN  [effect  |-> IF reason = None THEN AllowEffect(rbac) ELSE "REQUIRE_APPROVAL",
         code    |-> reason,
         visible |-> rbac.visible,
         masked  |-> rbac.masked,
         version |-> bundle.version,
         limits  |-> LimitsRequired(bundle, req)]

\* Mutant: the approval branch comes before the RBAC gate.
ApprovalFirst(bundle, rbac, req) ==
    LET denial == LateDenial(bundle, Answer(TRUE), req)
    IN  IF denial # None THEN deny(bundle.version, denial)
        ELSE IF GateDenial(rbac, req) # None /\ PendingReason(bundle, req) = None
        THEN deny(bundle.version, GateDenial(rbac, req))
        ELSE outcome(bundle, rbac, req)

\* Decide from the RBAC answer on.
Conclude(bundle, rbac, req) ==
    IF LateDenial(bundle, rbac, req) # None
    THEN deny(bundle.version, LateDenial(bundle, rbac, req))
    ELSE outcome(bundle, rbac, req)

Decide(bundle, rbac, req) ==
    IF EarlyDenial(bundle, req) # None
    THEN DenyEarly(bundle, req)
    ELSE Conclude(bundle, rbac, req)

==============================================================================
