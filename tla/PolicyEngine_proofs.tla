------------------------- MODULE PolicyEngine_proofs -------------------------
(***************************************************************************)
(* Theorems about PolicyEngine, for any evaluators, bundles, reloads and   *)
(* requests.                                                               *)
(***************************************************************************)
EXTENDS PolicyEngine, TLAPS

LEMMA DecideEffect ==
    ASSUME NEW b, NEW rbac, NEW req
    PROVE  Decide(b, rbac, req).effect \in Effects
BY DEF Decide, DenyEarly, deny, Conclude, outcome, AllowEffect, Effects

LEMMA ConcludeEffect ==
    ASSUME NEW b, NEW rbac, NEW req
    PROVE  Conclude(b, rbac, req).effect \in Effects
BY DEF deny, Conclude, outcome, AllowEffect, Effects

LEMMA CanAnswers ==
    ASSUME NEW b, NEW id, NEW verb, NEW object, NEW field
    PROVE  Can(b, id, verb, object, field).allow \in BOOLEAN
<1> DEFINE rule == RuleFor(b, id, object)
           grant == verb \in rule.grants
           fieldToo == grant /\ (field # "" => FieldPermits(rule, verb, field))
<1>1. grant \in BOOLEAN /\ fieldToo \in BOOLEAN
  OBVIOUS
<1>2. CASE hasRule(rule) /\ field = "" /\ verb = "read"
  <2>1. Can(b, id, verb, object, field).allow = grant
    BY <1>2 DEF Can
  <2> QED
    BY <1>1, <2>1
<1>3. CASE ~(hasRule(rule) /\ field = "" /\ verb = "read")
  <2> HIDE DEF fieldToo
  <2>1. Can(b, id, verb, object, field) = Answer(fieldToo)
    BY <1>3 DEF Can, fieldToo
  <2>2. Answer(fieldToo).allow = fieldToo
    BY DEF Answer
  <2> QED
    BY <1>1, <2>1, <2>2
<1> QED
  BY <1>2, <1>3

\* The variables are functions on the evaluators.
Indexed ==
    /\ DOMAIN at = Evaluators
    /\ DOMAIN call = Evaluators
    /\ DOMAIN result = Evaluators

TypeInv ==
    /\ TypeOK
    /\ Indexed
    /\ \A e \in Evaluators : at[e] = "scope" => result[e].allow \in BOOLEAN

\* Every variable keeps its type, and an answer has the shape of the call it
\* answers: the results of Can, CanRecord and Decide are never confused.
THEOREM TypeCorrect == Spec => []TypeOK
<1> USE DEF TypeInv, Indexed
<1>1. Init => TypeInv
  BY DEF Init, TypeOK
<1>2. TypeInv /\ [Next]_engineVars => TypeInv'
  <2> SUFFICES ASSUME TypeInv, [Next]_engineVars
               PROVE  TypeInv'
    OBVIOUS
  <2> USE DEF TypeOK, Enter, Leave
  <2>1. ASSUME NEW new \in Bundles, Swap(new)
        PROVE  TypeInv'
    BY <2>1 DEF Swap
  <2>2. ASSUME NEW e \in Evaluators, NEW r \in CanRequests, CanCall(e, r)
        PROVE  TypeInv'
    BY <2>2, CanAnswers DEF CanCall
  <2>3. ASSUME NEW e \in Evaluators, NEW r \in RecordRequests,
               RecordRefused(e, r) \/ RecordGranted(e, r)
        PROVE  TypeInv'
    <3>1. WholeObject(bundle, r).allow \in BOOLEAN
      BY CanAnswers DEF WholeObject
    <3>2. CASE RecordRefused(e, r)
      BY <3>1, <3>2 DEF RecordRefused
    <3>3. CASE RecordGranted(e, r)
      BY <3>1, <3>3 DEF RecordGranted
    <3> QED
      BY <2>3, <3>2, <3>3
  <2>4. ASSUME NEW e \in Evaluators, RecordScoped(e)
        PROVE  TypeInv'
    <3>1. Scoped(result[e], bundle, call[e]).allow \in BOOLEAN
      BY <2>4 DEF RecordScoped, Scoped, Answer
    <3> QED
      BY <2>4, <3>1 DEF RecordScoped
  <2>5. ASSUME NEW e \in Evaluators, NEW req \in DecideRequests, DecideRefused(e, req)
        PROVE  TypeInv'
    <3>1. DenyEarly(bundle, req).effect \in Effects
      BY DEF DenyEarly, deny, Effects
    <3> QED
      BY <2>5, <3>1 DEF DecideRefused
  <2>6. ASSUME NEW e \in Evaluators, NEW req \in DecideRequests, DecideBegins(e, req)
        PROVE  TypeInv'
    BY <2>6 DEF DecideBegins
  <2>7. ASSUME NEW e \in Evaluators, DecideEnds(e)
        PROVE  TypeInv'
    BY <2>7, ConcludeEffect DEF DecideEnds
  <2>8. ASSUME NEW e \in Evaluators, Return(e)
        PROVE  TypeInv'
    BY <2>8 DEF Return
  <2>9. CASE UNCHANGED engineVars
    BY <2>9 DEF engineVars
  <2> QED
    BY <2>1, <2>2, <2>3, <2>4, <2>5, <2>6, <2>7, <2>8, <2>9 DEF Next, Evaluate
<1>3. TypeInv => TypeOK
  OBVIOUS
<1> QED
  BY <1>1, <1>2, <1>3, PTL DEF Spec

------------------------------------------------------------------------------
(***************************************************************************)
(* What a decision is made of.  The two snapshots of Decide are taken in   *)
(* two steps, and between them the bundle may change; the answer is        *)
(* nevertheless Decide of the first snapshot and of the RBAC answer of the *)
(* second.  This is what carries facts about Decide over to the engine.    *)
(***************************************************************************)
DecisionInv ==
    /\ Indexed
    /\ DOMAIN first = Evaluators
    /\ DOMAIN second = Evaluators
    /\ \A e \in Evaluators :
        /\ at[e] \in {"gate", "decided"} => call[e] \in DecideRequests
        /\ at[e] = "gate" => EarlyDenial(first[e], call[e]) = None
        /\ at[e] = "decided" => result[e] = Decide(first[e], Gate(e), call[e])

LEMMA DecisionInvariant == Spec => []DecisionInv
<1> USE DEF DecisionInv, Indexed, Gate
<1>1. Init => DecisionInv
  BY DEF Init
<1>2. DecisionInv /\ [Next]_engineVars => DecisionInv'
  <2> SUFFICES ASSUME DecisionInv, [Next]_engineVars
               PROVE  DecisionInv'
    OBVIOUS
  <2> USE DEF Enter, Leave
  <2>1. ASSUME NEW new \in Bundles, Swap(new)
        PROVE  DecisionInv'
    BY <2>1 DEF Swap
  <2>2. ASSUME NEW e \in Evaluators, NEW r \in CanRequests, CanCall(e, r)
        PROVE  DecisionInv'
    BY <2>2 DEF CanCall
  <2>3. ASSUME NEW e \in Evaluators, NEW r \in RecordRequests,
               RecordRefused(e, r) \/ RecordGranted(e, r)
        PROVE  DecisionInv'
    BY <2>3 DEF RecordRefused, RecordGranted
  <2>4. ASSUME NEW e \in Evaluators, RecordScoped(e)
        PROVE  DecisionInv'
    BY <2>4 DEF RecordScoped
  <2>5. ASSUME NEW e \in Evaluators, NEW req \in DecideRequests, DecideRefused(e, req)
        PROVE  DecisionInv'
    <3>1. Decide(bundle, Rbac(bundle, req), req) = DenyEarly(bundle, req)
      BY <2>5 DEF DecideRefused, Decide
    <3> QED
      BY <2>5, <3>1 DEF DecideRefused
  <2>6. ASSUME NEW e \in Evaluators, NEW req \in DecideRequests, DecideBegins(e, req)
        PROVE  DecisionInv'
    BY <2>6 DEF DecideBegins
  <2>7. ASSUME NEW e \in Evaluators, DecideEnds(e)
        PROVE  DecisionInv'
    <3>1. Decide(first[e], Rbac(bundle, call[e]), call[e])
            = Conclude(first[e], Rbac(bundle, call[e]), call[e])
      BY <2>7 DEF DecideEnds, Decide
    <3> QED
      BY <2>7, <3>1 DEF DecideEnds
  <2>8. ASSUME NEW e \in Evaluators, Return(e)
        PROVE  DecisionInv'
    BY <2>8 DEF Return
  <2>9. CASE UNCHANGED engineVars
    BY <2>9 DEF engineVars
  <2> QED
    BY <2>1, <2>2, <2>3, <2>4, <2>5, <2>6, <2>7, <2>8, <2>9 DEF Next, Evaluate
<1> QED
  BY <1>1, <1>2, PTL DEF Spec

------------------------------------------------------------------------------
(* Approvals *)

\* The denials before the RBAC gate do not look at the approval.
LEMMA EarlyDenialIgnoresApproval ==
    ASSUME NEW b, NEW req \in DecideRequests, NEW a \in BOOLEAN
    PROVE  EarlyDenial(b, [req EXCEPT !.approved = a]) = EarlyDenial(b, req)
BY RequestAssumption DEF EarlyDenial, PreconditionDenial, UniversalDenial

\* Nor do the agent-class denials.
LEMMA AgentDenialIgnoresApproval ==
    ASSUME NEW b, NEW req \in DecideRequests, NEW a \in BOOLEAN
    PROVE  AgentDenial(b, [req EXCEPT !.approved = a]) = AgentDenial(b, req)
BY RequestAssumption DEF AgentDenial, ProfileOf, CapabilityFor

\* Where Decide denies: before the gate, at the gate, or in stage B.
LEMMA WhenDenied ==
    ASSUME NEW b, NEW rbac, NEW req
    PROVE  Decide(b, rbac, req).effect = "DENY"
             <=> \/ EarlyDenial(b, req) # None
                 \/ ~rbac.allow /\ ~req.approved
                 \/ req.id.actor \in AgentClass /\ AgentDenial(b, req) # None
<1>1. CASE EarlyDenial(b, req) # None
  BY <1>1 DEF Decide, DenyEarly, deny
<1>2. CASE EarlyDenial(b, req) = None
  <2>1. Decide(b, rbac, req) = Conclude(b, rbac, req)
    BY <1>2 DEF Decide
  <2>2. LateDenial(b, rbac, req) # None
          <=> \/ ~rbac.allow /\ ~req.approved
              \/ req.id.actor \in AgentClass /\ AgentDenial(b, req) # None
    BY DEF LateDenial, GateDenial, None
  <2>3. CASE LateDenial(b, rbac, req) # None
    BY <1>2, <2>1, <2>2, <2>3 DEF Conclude, deny
  <2>4. CASE LateDenial(b, rbac, req) = None
    BY <1>2, <2>1, <2>2, <2>4 DEF Conclude, outcome, AllowEffect
  <2> QED
    BY <2>3, <2>4
<1> QED
  BY <1>1, <1>2

\* An approved request is denied or allowed, and never sent back to wait.
LEMMA ApprovedEffect ==
    ASSUME NEW b, NEW rbac, NEW req, req.approved
    PROVE  Decide(b, rbac, req).effect \in Allows \cup {"DENY"}
BY DEF Decide, DenyEarly, deny, Conclude, outcome, PendingReason, AllowEffect, Allows

\* An approval opens the RBAC gate and nothing else, whatever the policy, and
\* whatever is swapped in while Decide runs.
THEOREM ApprovalRelaxesNothingElse == Spec => []ApprovalRelaxesOnlyWho
<1>1. DecisionInv => ApprovalRelaxesOnlyWho
  <2> SUFFICES ASSUME DecisionInv, NEW e \in Evaluators, Decided(e), call[e].approved
               PROVE  LET byHolder == Decide(first[e],
                                             [Gate(e) EXCEPT !.allow = TRUE],
                                             [call[e] EXCEPT !.approved = FALSE])
                      IN  result[e].effect \in
                            IF byHolder.effect = "DENY" THEN {"DENY"} ELSE Allows
    BY DEF ApprovalRelaxesOnlyWho
  <2> DEFINE req    == call[e]
             asked  == [req EXCEPT !.approved = FALSE]
             holder == [Gate(e) EXCEPT !.allow = TRUE]
  <2>1. req \in DecideRequests /\ result[e] = Decide(first[e], Gate(e), req)
    BY DEF DecisionInv, Decided
  <2>2. holder.allow /\ asked.id = req.id
    BY <2>1, RequestAssumption DEF Gate, Rbac, Can, Answer
  <2>3. /\ EarlyDenial(first[e], asked) = EarlyDenial(first[e], req)
        /\ AgentDenial(first[e], asked) = AgentDenial(first[e], req)
    BY <2>1, EarlyDenialIgnoresApproval, AgentDenialIgnoresApproval
  <2>4. Decide(first[e], holder, asked).effect = "DENY" <=> result[e].effect = "DENY"
    <3> HIDE DEF req, asked, holder
    <3>1. Decide(first[e], holder, asked).effect = "DENY"
            <=> \/ EarlyDenial(first[e], req) # None
                \/ req.id.actor \in AgentClass /\ AgentDenial(first[e], req) # None
      BY <2>2, <2>3, WhenDenied
    <3>2. Decide(first[e], Gate(e), req).effect = "DENY"
            <=> \/ EarlyDenial(first[e], req) # None
                \/ req.id.actor \in AgentClass /\ AgentDenial(first[e], req) # None
      <4>1. req.approved
        BY DEF req
      <4> QED
        BY <4>1, WhenDenied
    <3> QED
      BY <2>1, <3>1, <3>2
  <2>5. result[e].effect \in Allows \cup {"DENY"}
    BY <2>1, ApprovedEffect
  <2> QED
    BY <2>4, <2>5
<1> QED
  BY <1>1, DecisionInvariant, PTL

\* What is left waiting had passed the RBAC gate, and once approved it is
\* carried out under the same policy.
THEOREM ApprovalSucceeds == Spec => []ApprovalIsNeverInVain
<1>1. DecisionInv => ApprovalIsNeverInVain
  <2> SUFFICES ASSUME DecisionInv, NEW e \in Evaluators, Decided(e),
                      result[e].effect = "REQUIRE_APPROVAL"
               PROVE  /\ Gate(e).allow
                      /\ Decide(first[e], Gate(e), [call[e] EXCEPT !.approved = TRUE]).effect
                            \in Allows
    BY DEF ApprovalIsNeverInVain
  <2> DEFINE req      == call[e]
             approved == [req EXCEPT !.approved = TRUE]
  <2>1. req \in DecideRequests /\ result[e] = Decide(first[e], Gate(e), req)
    BY DEF DecisionInv, Decided
  <2>2. approved.approved /\ approved.id = req.id
    BY <2>1, RequestAssumption
  <2>3. /\ EarlyDenial(first[e], approved) = EarlyDenial(first[e], req)
        /\ AgentDenial(first[e], approved) = AgentDenial(first[e], req)
    BY <2>1, EarlyDenialIgnoresApproval, AgentDenialIgnoresApproval
  <2>4. result[e].effect # "DENY"
    OBVIOUS
  <2>5. ~req.approved
    BY <2>1, ApprovedEffect DEF Allows
  <2>6. Gate(e).allow
    BY <2>1, <2>4, <2>5, WhenDenied
  <2>7. Decide(first[e], Gate(e), approved).effect # "DENY"
    <3> HIDE DEF req, approved
    <3>1. /\ EarlyDenial(first[e], req) = None
          /\ ~(req.id.actor \in AgentClass /\ AgentDenial(first[e], req) # None)
      BY <2>1, <2>4, WhenDenied
    <3> QED
      BY <2>2, <2>3, <2>6, <3>1, WhenDenied
  <2> QED
    BY <2>2, <2>6, <2>7, ApprovedEffect
<1> QED
  BY <1>1, DecisionInvariant, PTL

------------------------------------------------------------------------------
(* Autonomy *)

LEMMA WhenAllowed ==
    ASSUME NEW b, NEW rbac, NEW req
    PROVE  Decide(b, rbac, req).effect \in Allows
             <=> /\ EarlyDenial(b, req) = None
                 /\ LateDenial(b, rbac, req) = None
                 /\ PendingReason(b, req) = None
<1>1. CASE EarlyDenial(b, req) # None
  BY <1>1 DEF Decide, DenyEarly, deny, Allows
<1>2. CASE EarlyDenial(b, req) = None
  <2>1. Decide(b, rbac, req) = Conclude(b, rbac, req)
    BY <1>2 DEF Decide
  <2>2. CASE LateDenial(b, rbac, req) # None
    BY <2>1, <2>2 DEF Conclude, deny, Allows
  <2>3. CASE LateDenial(b, rbac, req) = None
    BY <1>2, <2>1, <2>3 DEF Conclude, outcome, AllowEffect, Allows
  <2> QED
    BY <2>2, <2>3
<1> QED
  BY <1>1, <1>2

\* A profile has integer limits, also where the tenant has none.
LEMMA ProfileLimits ==
    ASSUME NEW b \in Bundles \cup {ZeroBundle}, NEW id
    PROVE  ProfileOf(b, id).limits \in [perRun : Int, perHour : Int, money : Int]
<1>1. NoProfile.limits \in [perRun : Int, perHour : Int, money : Int]
  BY DEF NoProfile, NoLimits
<1>2. CASE b \in Bundles
  BY <1>1, <1>2, BundleAssumption DEF ProfileOf, Lookup
<1>3. CASE b = ZeroBundle
  BY <1>1, <1>3 DEF ProfileOf, Lookup, ZeroBundle, NoKeys
<1> QED
  BY <1>2, <1>3

\* The denials ahead of the gate, for an actor of the agent class.
LEMMA AgentEarlyDenial ==
    ASSUME NEW b \in Bundles \cup {ZeroBundle}, NEW req, req.id.actor \in AgentClass
    PROVE  EarlyDenial(b, req) = None
             <=> /\ b.version > 0
                 /\ req.risk \in {"LOW", "MEDIUM", "HIGH"}
                 /\ req.risk = "HIGH" => req.id.actor # "EXTERNAL_INTEGRATION"
<1>1. b.version \in Int
  BY BundleAssumption DEF ZeroBundle
<1>2. Risks = {"LOW", "MEDIUM", "HIGH", "CRITICAL"}
  BY DEF Risks, riskOrdinal
<1> QED
  BY <1>1, <1>2 DEF EarlyDenial, PreconditionDenial, UniversalDenial, None,
                    AgentClass, LiveActors

\* What stage B asks of the tenant's configuration.
Configured(b, req) ==
    LET profile == ProfileOf(b, req.id)
        cap     == CapabilityFor(b, req.id, req.action)
    IN  /\ profile.mode \in {"ENABLED", "RESTRICTED"}
        /\ profile.maxAutoRisk \in Risks /\ cap.maxRisk \in Risks
        /\ \A k \in DOMAIN profile.limits : profile.limits[k] >= 0
        /\ req.id.agent # "" /\ cap.allow
        /\ req.amount <= 0 \/ profile.limits.money > 0

\* Stage B denies exactly what is not configured.
LEMMA WhenConfiguredWith ==
    ASSUME NEW b, NEW req \in DecideRequests,
           ProfileOf(b, req.id).limits \in [perRun : Int, perHour : Int, money : Int]
    PROVE  AgentDenial(b, req) = None <=> Configured(b, req)
<1> DEFINE profile == ProfileOf(b, req.id)
           cap     == CapabilityFor(b, req.id, req.action)
<1>1. profile.limits \in [perRun : Int, perHour : Int, money : Int]
  OBVIOUS
<1>2. req.amount \in Int
  BY RequestAssumption
<1>3. req.id.tenant \notin DOMAIN b.autonomy => profile.mode = ""
  BY DEF ProfileOf, Lookup, NoProfile
<1>4. AgentDenial(b, req) = None
        <=> /\ req.id.tenant \in DOMAIN b.autonomy
            /\ profile.mode \in {"ENABLED", "RESTRICTED"}
            /\ profile.maxAutoRisk \in Risks
            /\ ~(profile.limits.perRun < 0)
            /\ ~(profile.limits.perHour < 0)
            /\ ~(profile.limits.money < 0)
            /\ req.id.agent # "" /\ cap.allow
            /\ cap.maxRisk \in Risks
            /\ ~(req.amount > 0 /\ profile.limits.money = 0)
  BY DEF AgentDenial, None
<1>5. (\A k \in DOMAIN profile.limits : profile.limits[k] >= 0)
        <=> /\ profile.limits.perRun >= 0
            /\ profile.limits.perHour >= 0
            /\ profile.limits.money >= 0
  BY <1>1
<1> HIDE DEF profile, cap
<1>6. profile.limits.perRun \in Int /\ profile.limits.perHour \in Int
        /\ profile.limits.money \in Int
  BY <1>1
<1>7. Configured(b, req)
        <=> /\ profile.mode \in {"ENABLED", "RESTRICTED"}
            /\ profile.maxAutoRisk \in Risks /\ cap.maxRisk \in Risks
            /\ \A k \in DOMAIN profile.limits : profile.limits[k] >= 0
            /\ req.id.agent # "" /\ cap.allow
            /\ req.amount <= 0 \/ profile.limits.money > 0
  BY DEF Configured, profile, cap
<1>8. /\ ~(profile.limits.perRun < 0) <=> profile.limits.perRun >= 0
      /\ ~(profile.limits.perHour < 0) <=> profile.limits.perHour >= 0
      /\ ~(profile.limits.money < 0) <=> profile.limits.money >= 0
      /\ profile.limits.money >= 0 =>
            (~(req.amount > 0 /\ profile.limits.money = 0)
                <=> req.amount <= 0 \/ profile.limits.money > 0)
  BY <1>2, <1>6
<1>9. profile.mode \in {"ENABLED", "RESTRICTED"} => req.id.tenant \in DOMAIN b.autonomy
  BY <1>3
<1> QED
  BY <1>4, <1>5, <1>7, <1>8, <1>9, Zenon

LEMMA WhenConfigured ==
    ASSUME NEW b \in Bundles \cup {ZeroBundle}, NEW req \in DecideRequests
    PROVE  AgentDenial(b, req) = None <=> Configured(b, req)
BY ProfileLimits, WhenConfiguredWith

\* When an agent's request, denied by nothing, needs no human.
LEMMA WhenNotPending ==
    ASSUME NEW b, NEW req \in DecideRequests,
           req.id.actor \in AgentClass, ~req.approved,
           req.risk \in {"LOW", "MEDIUM", "HIGH"}, Configured(b, req)
    PROVE  PendingReason(b, req) = None
             <=> LET profile == ProfileOf(b, req.id)
                     cap     == CapabilityFor(b, req.id, req.action)
                 IN  /\ req.risk = "HIGH" => req.verb # "delete"
                     /\ profile.mode = "ENABLED" \/ req.risk = "LOW"
                     /\ ~cap.requiresApproval
                     /\ AtMost(req.risk, cap.maxRisk)
                     /\ AtMost(req.risk, profile.maxAutoRisk)
                     /\ req.amount <= 0 /\ req.object \notin ProtectedConfig
<1> DEFINE profile == ProfileOf(b, req.id)
           cap     == CapabilityFor(b, req.id, req.action)
<1>1. /\ profile.mode \in {"ENABLED", "RESTRICTED"}
      /\ profile.maxAutoRisk \in Risks /\ cap.maxRisk \in Risks
  BY DEF Configured
<1>2. /\ Risks = {"LOW", "MEDIUM", "HIGH", "CRITICAL"}
      /\ riskOrdinal["LOW"] = 10 /\ riskOrdinal["MEDIUM"] = 20
      /\ riskOrdinal["HIGH"] = 30 /\ riskOrdinal["CRITICAL"] = 40
  BY DEF Risks, riskOrdinal
<1>3. req.amount \in Int
  BY RequestAssumption
<1>4. PendingReason(b, req) = ApprovalReason(b, req)
  BY DEF PendingReason
<1>5. ApprovalReason(b, req) = None
        <=> /\ ~(req.amount > 0)
            /\ ~(req.verb = "delete" /\ AtLeastHigh(req.risk))
            /\ req.object \notin ProtectedConfig
            /\ AtLeastHigh(req.risk) => highDelegated(profile, cap)
            /\ ~cap.requiresApproval
            /\ ~(riskOrdinal[req.risk] > riskOrdinal[cap.maxRisk])
            /\ ~(riskOrdinal[req.risk] > riskOrdinal[profile.maxAutoRisk])
            /\ ~(profile.mode = "RESTRICTED" /\ riskOrdinal[req.risk] > riskOrdinal["LOW"])
  BY DEF ApprovalReason, None
<1> HIDE DEF profile, cap
<1>6. AtLeastHigh(req.risk) <=> req.risk = "HIGH"
  BY <1>2 DEF AtLeastHigh
<1>7. highDelegated(profile, cap)
        <=> /\ profile.mode = "ENABLED" /\ ~cap.requiresApproval
            /\ AtMost("HIGH", profile.maxAutoRisk) /\ AtMost("HIGH", cap.maxRisk)
  BY <1>1, <1>2 DEF highDelegated, AtLeastHigh, AtMost
<1>8. \A ceiling \in Risks :
        ~(riskOrdinal[req.risk] > riskOrdinal[ceiling]) <=> AtMost(req.risk, ceiling)
  BY <1>2 DEF AtMost
<1>9. riskOrdinal[req.risk] > riskOrdinal["LOW"] <=> req.risk # "LOW"
  BY <1>2
<1>10. ~(req.amount > 0) <=> req.amount <= 0
  BY <1>3
<1>11. ApprovalReason(b, req) = None
        <=> /\ req.risk = "HIGH" => req.verb # "delete"
            /\ profile.mode = "ENABLED" \/ req.risk = "LOW"
            /\ ~cap.requiresApproval
            /\ AtMost(req.risk, cap.maxRisk)
            /\ AtMost(req.risk, profile.maxAutoRisk)
            /\ req.amount <= 0 /\ req.object \notin ProtectedConfig
  BY <1>1, <1>5, <1>6, <1>7, <1>8, <1>9, <1>10
<1> QED
  BY <1>4, <1>11 DEF profile, cap

LEMMA DelegatedParts ==
    ASSUME NEW b, NEW req
    PROVE  Delegated(b, req)
             <=> LET profile == ProfileOf(b, req.id)
                     cap     == CapabilityFor(b, req.id, req.action)
                 IN  /\ b.version > 0
                     /\ req.risk \in {"LOW", "MEDIUM", "HIGH"}
                     /\ req.risk = "HIGH" => req.id.actor # "EXTERNAL_INTEGRATION"
                     /\ profile.mode \in {"ENABLED", "RESTRICTED"}
                     /\ profile.maxAutoRisk \in Risks /\ cap.maxRisk \in Risks
                     /\ \A k \in DOMAIN profile.limits : profile.limits[k] >= 0
                     /\ req.id.agent # "" /\ cap.allow
                     /\ req.risk = "HIGH" => req.verb # "delete"
                     /\ profile.mode = "ENABLED" \/ req.risk = "LOW"
                     /\ ~cap.requiresApproval
                     /\ AtMost(req.risk, cap.maxRisk)
                     /\ AtMost(req.risk, profile.maxAutoRisk)
                     /\ req.amount <= 0 /\ req.object \notin ProtectedConfig
BY Zenon DEF Delegated

LEMMA WhenAutonomous ==
    ASSUME NEW b \in Bundles \cup {ZeroBundle}, NEW rbac, NEW req \in DecideRequests,
           req.id.actor \in AgentClass, ~req.approved
    PROVE  Decide(b, rbac, req).effect \in Allows <=> rbac.allow /\ Delegated(b, req)
<1>1. LateDenial(b, rbac, req) = None <=> rbac.allow /\ Configured(b, req)
  <2>1. LateDenial(b, rbac, req) = None <=> rbac.allow /\ AgentDenial(b, req) = None
    BY DEF LateDenial, GateDenial, None
  <2> QED
    BY <2>1, WhenConfigured
<1>2. Decide(b, rbac, req).effect \in Allows
        <=> /\ EarlyDenial(b, req) = None
            /\ rbac.allow /\ Configured(b, req)
            /\ PendingReason(b, req) = None
  BY <1>1, WhenAllowed
<1>3. Delegated(b, req)
        <=> /\ EarlyDenial(b, req) = None
            /\ Configured(b, req)
            /\ PendingReason(b, req) = None
  <2>1. Delegated(b, req) => EarlyDenial(b, req) = None /\ Configured(b, req)
    BY AgentEarlyDenial, DelegatedParts DEF Configured
  <2>2. ASSUME EarlyDenial(b, req) = None, Configured(b, req)
        PROVE  Delegated(b, req) <=> PendingReason(b, req) = None
    BY <2>2, AgentEarlyDenial, WhenNotPending, DelegatedParts DEF Configured
  <2> QED
    BY <2>1, <2>2
<1> QED
  BY <1>2, <1>3

\* An agent acts alone exactly when its tenant's first snapshot delegated the
\* action and the role holds the right, whatever is swapped in while Decide
\* runs: no order of the checks lets more through.
THEOREM AgentsActOnlyWhenDelegated == Spec => []AutonomousExactlyWhenDelegated
<1>1. TypeOK /\ DecisionInv => AutonomousExactlyWhenDelegated
  <2> SUFFICES ASSUME TypeOK, DecisionInv, NEW e \in Evaluators, Decided(e),
                      call[e].id.actor \in AgentClass, ~call[e].approved
               PROVE  result[e].effect \in Allows
                        <=> Gate(e).allow /\ Delegated(first[e], call[e])
    BY DEF AutonomousExactlyWhenDelegated
  <2>1. /\ call[e] \in DecideRequests
        /\ result[e] = Decide(first[e], Gate(e), call[e])
        /\ first[e] \in Bundles \cup {ZeroBundle}
    BY DEF DecisionInv, Decided, TypeOK
  <2> QED
    BY <2>1, WhenAutonomous
<1> QED
  BY <1>1, TypeCorrect, DecisionInvariant, PTL

------------------------------------------------------------------------------
(* People *)

\* For anyone but agents, all that Decide reads of a bundle is its version.
LEMMA OnlyVersionMatters ==
    ASSUME NEW b, NEW c, b.version = c.version, NEW rbac,
           NEW req, req.id.actor \notin AgentClass
    PROVE  Decide(b, rbac, req) = Decide(c, rbac, req)
<1>1. EarlyDenial(b, req) = EarlyDenial(c, req)
  BY DEF EarlyDenial, PreconditionDenial
<1>2. DenyEarly(b, req) = DenyEarly(c, req)
  BY <1>1 DEF DenyEarly
<1>3. LateDenial(b, rbac, req) = LateDenial(c, rbac, req)
  BY DEF LateDenial
<1>4. PendingReason(b, req) = PendingReason(c, req)
  BY DEF PendingReason, ApprovalReason
<1>5. outcome(b, rbac, req) = outcome(c, rbac, req)
  BY <1>4 DEF outcome, LimitsRequired
<1> QED
  BY <1>1, <1>2, <1>3, <1>5 DEF Decide, Conclude

\* What a tenant delegates to agents changes no decision about its people.
THEOREM PeopleKeepTheirRights == Spec => []PeopleUnaffectedByDelegation
<1>1. TypeOK /\ DecisionInv => PeopleUnaffectedByDelegation
  <2> SUFFICES ASSUME TypeOK, DecisionInv, NEW e \in Evaluators, Decided(e),
                      call[e].id.actor \notin AgentClass
               PROVE  result[e] = Decide([first[e] EXCEPT !.autonomy = NoKeys,
                                                          !.capabilities = NoKeys],
                                         Gate(e), call[e])
    BY DEF PeopleUnaffectedByDelegation
  <2>1. first[e] \in Bundles \cup {ZeroBundle}
    BY DEF TypeOK
  <2>2. [first[e] EXCEPT !.autonomy = NoKeys, !.capabilities = NoKeys].version
          = first[e].version
    BY <2>1, BundleAssumption DEF ZeroBundle
  <2>3. result[e] = Decide(first[e], Gate(e), call[e])
    BY DEF DecisionInv, Decided
  <2> DEFINE bare == [first[e] EXCEPT !.autonomy = NoKeys, !.capabilities = NoKeys]
  <2> HIDE DEF bare
  <2>4. bare.version = first[e].version
    BY <2>2 DEF bare
  <2>5. Decide(first[e], Gate(e), call[e]) = Decide(bare, Gate(e), call[e])
    BY <2>4, OnlyVersionMatters
  <2> QED
    BY <2>3, <2>5 DEF bare
<1> QED
  BY <1>1, TypeCorrect, DecisionInvariant, PTL

------------------------------------------------------------------------------
(* Records *)

\* A record CanRecord allows meets the conditions of the second snapshot.
ScopeInv ==
    /\ Indexed
    /\ DOMAIN second = Evaluators
    /\ \A e \in Evaluators :
        at[e] = "scoped" /\ result[e].allow
            => InScope(RuleFor(second[e], call[e].id, call[e].object),
                       call[e].id, call[e].record)

LEMMA ScopeInvariant == Spec => []ScopeInv
<1> USE DEF ScopeInv, Indexed
<1>1. Init => ScopeInv
  BY DEF Init
<1>2. ScopeInv /\ [Next]_engineVars => ScopeInv'
  <2> SUFFICES ASSUME ScopeInv, [Next]_engineVars
               PROVE  ScopeInv'
    OBVIOUS
  <2> USE DEF Enter, Leave
  <2>1. ASSUME NEW new \in Bundles, Swap(new)
        PROVE  ScopeInv'
    BY <2>1 DEF Swap
  <2>2. ASSUME NEW e \in Evaluators, NEW r \in CanRequests, CanCall(e, r)
        PROVE  ScopeInv'
    BY <2>2 DEF CanCall
  <2>3. ASSUME NEW e \in Evaluators, NEW r \in RecordRequests, RecordRefused(e, r)
        PROVE  ScopeInv'
    BY <2>3 DEF RecordRefused
  <2>4. ASSUME NEW e \in Evaluators, NEW r \in RecordRequests, RecordGranted(e, r)
        PROVE  ScopeInv'
    BY <2>4 DEF RecordGranted
  <2>5. ASSUME NEW e \in Evaluators, RecordScoped(e)
        PROVE  ScopeInv'
    <3>1. Scoped(result[e], bundle, call[e]).allow
            => InScope(RuleFor(bundle, call[e].id, call[e].object),
                       call[e].id, call[e].record)
      BY DEF Scoped, Answer
    <3> QED
      BY <2>5, <3>1 DEF RecordScoped
  <2>6. ASSUME NEW e \in Evaluators, NEW req \in DecideRequests,
               DecideRefused(e, req) \/ DecideBegins(e, req)
        PROVE  ScopeInv'
    BY <2>6 DEF DecideRefused, DecideBegins
  <2>7. ASSUME NEW e \in Evaluators, DecideEnds(e)
        PROVE  ScopeInv'
    BY <2>7 DEF DecideEnds
  <2>8. ASSUME NEW e \in Evaluators, Return(e)
        PROVE  ScopeInv'
    BY <2>8 DEF Return
  <2>9. CASE UNCHANGED engineVars
    BY <2>9 DEF engineVars
  <2> QED
    BY <2>1, <2>2, <2>3, <2>4, <2>5, <2>6, <2>7, <2>8, <2>9 DEF Next, Evaluate
<1> QED
  BY <1>1, <1>2, PTL DEF Spec

\* Merging an override into a rule keeps every condition of the rule.
LEMMA MergeKeepsConditions ==
    ASSUME NEW base, NEW override, NEW id, NEW record,
           InScope(mergeRule(base, override), id, record)
    PROVE  InScope(base, id, record)
BY DEF mergeRule, InScope

\* No tenant override lets a role reach a record outside the conditions that
\* the platform put on the role.
THEOREM OverridesOnlyTighten == Spec => []TenantOnlyTightensScope
<1>1. ScopeInv => TenantOnlyTightensScope
  BY MergeKeepsConditions DEF ScopeInv, TenantOnlyTightensScope, RuleFor
<1> QED
  BY <1>1, ScopeInvariant, PTL

------------------------------------------------------------------------------
(* Risk *)

\* A decision is as strict as the first stage of the ladder that stops it.
LEMMA StrictnessOf ==
    ASSUME NEW b, NEW rbac, NEW req
    PROVE  Strictness(Decide(b, rbac, req).effect) =
             IF EarlyDenial(b, req) # None \/ LateDenial(b, rbac, req) # None THEN 2
             ELSE IF PendingReason(b, req) # None THEN 1 ELSE 0
<1>1. CASE EarlyDenial(b, req) # None
  BY <1>1 DEF Decide, DenyEarly, deny, Strictness
<1>2. CASE EarlyDenial(b, req) = None
  <2>1. Decide(b, rbac, req) = Conclude(b, rbac, req)
    BY <1>2 DEF Decide
  <2>2. CASE LateDenial(b, rbac, req) # None
    BY <2>1, <2>2 DEF Conclude, deny, Strictness
  <2>3. CASE LateDenial(b, rbac, req) = None
    BY <1>2, <2>1, <2>3 DEF Conclude, outcome, AllowEffect, Strictness
  <2> QED
    BY <2>2, <2>3
<1> QED
  BY <1>1, <1>2

\* What is denied more and asks for approval more is treated more strictly.
LEMMA Stricter ==
    ASSUME NEW b, NEW c, NEW g, NEW req, NEW other,
           EarlyDenial(b, req) # None => EarlyDenial(c, other) # None,
           LateDenial(b, g, req) # None =>
                EarlyDenial(c, other) # None \/ LateDenial(c, g, other) # None,
           LateDenial(b, g, req) = None /\ PendingReason(b, req) # None =>
                \/ EarlyDenial(c, other) # None
                \/ LateDenial(c, g, other) # None
                \/ PendingReason(c, other) # None
    PROVE  Strictness(Decide(c, g, other).effect) >= Strictness(Decide(b, g, req).effect)
<1>1. PICK m, n : /\ m = Strictness(Decide(c, g, other).effect)
                  /\ n = Strictness(Decide(b, g, req).effect)
  OBVIOUS
<1>2. m = IF EarlyDenial(c, other) # None \/ LateDenial(c, g, other) # None THEN 2
             ELSE IF PendingReason(c, other) # None THEN 1 ELSE 0
  BY <1>1, StrictnessOf
<1>3. n = IF EarlyDenial(b, req) # None \/ LateDenial(b, g, req) # None THEN 2
             ELSE IF PendingReason(b, req) # None THEN 1 ELSE 0
  BY <1>1, StrictnessOf
<1>4. m >= n
  BY <1>2, <1>3
<1> QED
  BY <1>1, <1>4

\* The denials from the gate on do not look at the risk.
LEMMA LateDenialIgnoresRisk ==
    ASSUME NEW b, NEW rbac, NEW req, NEW other,
           other.id = req.id, other.action = req.action,
           other.amount = req.amount, other.approved = req.approved
    PROVE  LateDenial(b, rbac, other) = LateDenial(b, rbac, req)
BY DEF LateDenial, GateDenial, AgentDenial, ProfileOf, CapabilityFor

\* A higher risk is denied where the lower one is, ...
LEMMA DeniedAtHigherRisk ==
    ASSUME NEW b, NEW req \in DecideRequests, NEW risk \in Risks,
           NEW higher, higher = [req EXCEPT !.risk = risk],
           req.risk \in Risks, AtMost(req.risk, risk),
           EarlyDenial(b, req) # None
    PROVE  EarlyDenial(b, higher) # None
<1>1. /\ higher.risk = risk /\ higher.id = req.id
      /\ higher.serviceAllowed = req.serviceAllowed /\ higher.mutates = req.mutates
  BY RequestAssumption
<1>2. req.risk \notin {"LOW", "MEDIUM"} => risk \notin {"LOW", "MEDIUM"}
  BY DEF AtMost, riskOrdinal, Risks
<1>3. req.risk = "CRITICAL" => risk = "CRITICAL"
  BY DEF AtMost, riskOrdinal, Risks
<1> QED
  BY <1>1, <1>2, <1>3 DEF EarlyDenial, PreconditionDenial, UniversalDenial, None

\* ... and waits for approval where the lower one does.
LEMMA PendingAtHigherRisk ==
    ASSUME NEW b \in Bundles \cup {ZeroBundle}, NEW req \in DecideRequests, NEW risk \in Risks,
           NEW higher, higher = [req EXCEPT !.risk = risk],
           req.risk \in Risks, AtMost(req.risk, risk),
           req.id.actor \in AgentClass => Configured(b, req),
           PendingReason(b, req) # None
    PROVE  PendingReason(b, higher) # None
<1> DEFINE profile == ProfileOf(b, req.id)
           cap     == CapabilityFor(b, req.id, req.action)
<1>1. /\ higher.risk = risk /\ higher.id = req.id /\ higher.action = req.action
      /\ higher.approved = req.approved /\ higher.amount = req.amount
      /\ higher.verb = req.verb /\ higher.object = req.object
  BY RequestAssumption
<1>2. AtLeastHigh(req.risk) => AtLeastHigh(risk)
  BY DEF AtLeastHigh, AtMost, riskOrdinal, Risks
<1>3. \A ceiling \in Risks : riskOrdinal[req.risk] > riskOrdinal[ceiling]
                                => riskOrdinal[risk] > riskOrdinal[ceiling]
  BY DEF AtMost, riskOrdinal, Risks
<1>4. riskOrdinal[req.risk] > riskOrdinal["LOW"] => riskOrdinal[risk] > riskOrdinal["LOW"]
  BY <1>3 DEF Risks, riskOrdinal
<1>5. req.id.actor \in AgentClass => cap.maxRisk \in Risks /\ profile.maxAutoRisk \in Risks
  BY DEF Configured
<1> HIDE DEF profile, cap
<1>6. ~req.approved /\ ~higher.approved /\ ApprovalReason(b, req) # None
  BY <1>1 DEF PendingReason
<1>7. ApprovalReason(b, higher) # None
  BY <1>1, <1>2, <1>3, <1>4, <1>5, <1>6 DEF ApprovalReason, None, profile, cap
<1> QED
  BY <1>6, <1>7 DEF PendingReason

\* No action is treated more leniently at a higher or an unknown risk.
THEOREM RiskNeverHelps == Spec => []RiskIsMonotone
<1>1. TypeOK /\ DecisionInv => RiskIsMonotone
  <2> SUFFICES ASSUME TypeOK, DecisionInv, NEW e \in Evaluators, NEW risk \in Risks \cup {""},
                      Decided(e),
                      risk \in Risks /\ call[e].risk \in Risks => AtMost(call[e].risk, risk),
                      risk \in Risks => call[e].risk \in Risks
               PROVE  Strictness(Decide(first[e], Gate(e), [call[e] EXCEPT !.risk = risk]).effect)
                        >= Strictness(result[e].effect)
    BY DEF RiskIsMonotone
  <2>1. /\ call[e] \in DecideRequests /\ first[e] \in Bundles \cup {ZeroBundle}
        /\ result[e] = Decide(first[e], Gate(e), call[e])
    BY DEF TypeOK, DecisionInv, Decided
  <2>2. PICK b, req, higher, g : /\ b = first[e] /\ req = call[e] /\ g = Gate(e)
                                 /\ higher = [req EXCEPT !.risk = risk]
    OBVIOUS
  <2>3. /\ req \in DecideRequests /\ higher = [req EXCEPT !.risk = risk]
        /\ higher.risk = risk /\ b \in Bundles \cup {ZeroBundle}
    BY <2>1, <2>2, RequestAssumption
  <2>4. CASE risk \notin Risks
    <3>1. EarlyDenial(b, higher) # None
      BY <2>3, <2>4 DEF EarlyDenial, PreconditionDenial, None
    <3> QED
      BY <2>1, <2>2, <3>1, Stricter
  <2>5. CASE risk \in Risks
    <3>1. req.risk \in Risks /\ AtMost(req.risk, risk)
      BY <2>2, <2>5
    <3>2. /\ EarlyDenial(b, req) # None => EarlyDenial(b, higher) # None
          /\ LateDenial(b, g, higher) = LateDenial(b, g, req)
      <4>1. EarlyDenial(b, req) # None => EarlyDenial(b, higher) # None
        BY <2>3, <2>5, <3>1, DeniedAtHigherRisk
      <4>2. LateDenial(b, g, higher) = LateDenial(b, g, req)
        <5>1. /\ higher.id = req.id /\ higher.action = req.action
              /\ higher.amount = req.amount /\ higher.approved = req.approved
          BY <2>3, RequestAssumption
        <5> QED
          BY <5>1, LateDenialIgnoresRisk
      <4> QED
        BY <4>1, <4>2
    <3>3. LateDenial(b, g, req) = None /\ req.id.actor \in AgentClass => Configured(b, req)
      <4>1. AgentDenial(b, req) = None <=> Configured(b, req)
        BY <2>3, WhenConfigured
      <4> QED
        BY <4>1 DEF LateDenial
    <3>4. LateDenial(b, g, req) = None /\ PendingReason(b, req) # None
            => PendingReason(b, higher) # None
      BY <2>3, <2>5, <3>1, <3>3, PendingAtHigherRisk, Zenon
    <3>5. Strictness(Decide(b, g, higher).effect) >= Strictness(Decide(b, g, req).effect)
      <4>1. LateDenial(b, g, req) # None => LateDenial(b, g, higher) # None
        BY <3>2
      <4> QED
        BY <3>2, <3>4, <4>1, Stricter
    <3> QED
      BY <2>1, <2>2, <3>5, Zenon
  <2> QED
    BY <2>4, <2>5
<1> QED
  BY <1>1, TypeCorrect, DecisionInvariant, PTL

------------------------------------------------------------------------------
(* Withdrawing delegation *)

\* A profile or a capability that lets through no more than another.
TighterProfile(p, q) ==
    p.mode \in {"ENABLED", "RESTRICTED"} =>
        /\ q.mode \in {"ENABLED", "RESTRICTED"} /\ (p.mode = "ENABLED" => q.mode = "ENABLED")
        /\ p.maxAutoRisk \in Risks =>
                q.maxAutoRisk \in Risks /\ AtMost(p.maxAutoRisk, q.maxAutoRisk)
        /\ (\A k \in DOMAIN p.limits : p.limits[k] >= 0) =>
                (\A k \in DOMAIN q.limits : q.limits[k] >= 0)
        /\ p.limits.money > 0 => q.limits.money > 0

TighterCapability(c, d) ==
    c.allow => /\ d.allow /\ (~c.requiresApproval => ~d.requiresApproval)
               /\ c.maxRisk \in Risks => d.maxRisk \in Risks /\ AtMost(c.maxRisk, d.maxRisk)

\* What a bundle says of the request's agent is no looser in another.
TighterFor(c, b, req) ==
    /\ c.version = b.version
    /\ ProfileOf(c, req.id).limits \in [perRun : Int, perHour : Int, money : Int]
    /\ TighterProfile(ProfileOf(c, req.id), ProfileOf(b, req.id))
    /\ TighterCapability(CapabilityFor(c, req.id, req.action),
                         CapabilityFor(b, req.id, req.action))

\* Nothing is looser than itself.
LEMMA TighterReflexive ==
    /\ \A p : TighterProfile(p, p)
    /\ \A c : TighterCapability(c, c)
  <1>1. \A risk \in Risks : AtMost(risk, risk)
    BY DEF AtMost, Risks, riskOrdinal
  <1> QED
    BY <1>1 DEF TighterProfile, TighterCapability

\* What Lower takes from a risk is a risk below it.
LEMMA LowerIsAtMost ==
    ASSUME NEW ceiling, NEW risk \in Lower(ceiling)
    PROVE  risk \in Risks /\ ceiling \in Risks /\ AtMost(risk, ceiling)
  BY DEF Lower

\* Every profile that takes something back lets through no more, ...
LEMMA StricterProfileIsTighter ==
    ASSUME NEW q, DOMAIN q = {"mode", "maxAutoRisk", "limits"},
           q.limits \in [perRun : Int, perHour : Int, money : Int],
           NEW p \in StricterProfiles(q)
    PROVE  TighterProfile(p, q) /\ p.limits \in [perRun : Int, perHour : Int, money : Int]
  <1>0. \A risk \in Risks : AtMost(risk, risk)
    BY DEF AtMost, Risks, riskOrdinal
  <1>1. ASSUME NEW mode \in StricterModes(q.mode), p = [q EXCEPT !.mode = mode]
        PROVE  TighterProfile(p, q) /\ p.limits = q.limits
    <2>1. p.mode = mode /\ p.maxAutoRisk = q.maxAutoRisk /\ p.limits = q.limits
      BY <1>1
    <2>2. mode \in {"PAUSED", "DISABLED"} \/ (mode = "RESTRICTED" /\ q.mode = "ENABLED")
      BY DEF StricterModes
    <2> QED
      BY <1>0, <2>1, <2>2 DEF TighterProfile
  <1>2. ASSUME NEW risk \in Lower(q.maxAutoRisk), p = [q EXCEPT !.maxAutoRisk = risk]
        PROVE  TighterProfile(p, q) /\ p.limits = q.limits
    <2>1. p.mode = q.mode /\ p.maxAutoRisk = risk /\ p.limits = q.limits
      BY <1>2
    <2> QED
      BY <2>1, LowerIsAtMost DEF TighterProfile
  <1>3. ASSUME p = [q EXCEPT !.limits.money = 0], q.limits.money > 0
        PROVE  TighterProfile(p, q) /\ p.limits \in [perRun : Int, perHour : Int, money : Int]
    <2>1. /\ p.mode = q.mode /\ p.maxAutoRisk = q.maxAutoRisk
          /\ p.limits = [q.limits EXCEPT !.money = 0]
      BY <1>3
    <2>2. /\ p.limits.money = 0 /\ p.limits.perRun = q.limits.perRun
          /\ p.limits.perHour = q.limits.perHour
          /\ p.limits \in [perRun : Int, perHour : Int, money : Int]
      BY <2>1
    <2>3. (\A k \in DOMAIN p.limits : p.limits[k] >= 0)
             => (\A k \in DOMAIN q.limits : q.limits[k] >= 0)
      BY <1>3, <2>2
    <2> QED
      BY <1>0, <1>3, <2>1, <2>2, <2>3 DEF TighterProfile
  <1>4. \/ \E mode \in StricterModes(q.mode) : p = [q EXCEPT !.mode = mode]
        \/ \E risk \in Lower(q.maxAutoRisk) : p = [q EXCEPT !.maxAutoRisk = risk]
        \/ p = [q EXCEPT !.limits.money = 0] /\ q.limits.money > 0
    BY Zenon DEF StricterProfiles
  <1> QED
    BY <1>1, <1>2, <1>3, <1>4

\* ... and so does every such capability.
LEMMA StricterCapabilityIsTighter ==
    ASSUME NEW d, DOMAIN d = {"allow", "maxRisk", "requiresApproval"},
           NEW c \in StricterCapabilities(d)
    PROVE  TighterCapability(c, d)
  <1>0. \A risk \in Risks : AtMost(risk, risk)
    BY DEF AtMost, Risks, riskOrdinal
  <1>1. CASE c = [d EXCEPT !.allow = FALSE]
    BY <1>1 DEF TighterCapability
  <1>2. CASE c = [d EXCEPT !.requiresApproval = TRUE]
    BY <1>0, <1>2 DEF TighterCapability
  <1>3. ASSUME NEW risk \in Lower(d.maxRisk), c = [d EXCEPT !.maxRisk = risk]
        PROVE  TighterCapability(c, d)
    BY <1>3, LowerIsAtMost DEF TighterCapability
  <1> QED
    BY <1>1, <1>2, <1>3 DEF StricterCapabilities

\* Taking one thing back leaves the agent a tighter configuration.
LEMMA TightenedIsTighter ==
    ASSUME NEW b \in Bundles \cup {ZeroBundle}, NEW req \in DecideRequests,
           NEW c \in Tightened(b, req)
    PROVE  TighterFor(c, b, req)
  <1> DEFINE t   == req.id.tenant
             key == <<req.id.agent, req.action>>
             own == Lookup(b.capabilities, t, NoKeys)
  <1>1. DOMAIN b = {"version", "system", "tenant", "capabilities", "autonomy"}
    BY BundleAssumption DEF ZeroBundle
  <1>2. ProfileOf(b, req.id).limits \in [perRun : Int, perHour : Int, money : Int]
    BY ProfileLimits
  <1>3. CASE \E p \in StricterProfiles(b.autonomy[t]) :
                t \in DOMAIN b.autonomy /\ c = [b EXCEPT !.autonomy[t] = p]
    <2>1. PICK p \in StricterProfiles(b.autonomy[t]) :
             t \in DOMAIN b.autonomy /\ c = [b EXCEPT !.autonomy[t] = p]
      BY <1>3
    <2>2. b \in Bundles
      BY <2>1 DEF ZeroBundle, NoKeys
    <2>3. /\ c.version = b.version /\ c.capabilities = b.capabilities
          /\ c.autonomy = [b.autonomy EXCEPT ![t] = p]
      BY <1>1, <2>1
    <2>4. ProfileOf(c, req.id) = p /\ ProfileOf(b, req.id) = b.autonomy[t]
      BY <2>1, <2>3 DEF ProfileOf, Lookup
    <2>5. CapabilityFor(c, req.id, req.action) = CapabilityFor(b, req.id, req.action)
      BY <2>3 DEF CapabilityFor
    <2>6. TighterProfile(p, b.autonomy[t])
             /\ p.limits \in [perRun : Int, perHour : Int, money : Int]
      <3>1. /\ DOMAIN b.autonomy[t] = {"mode", "maxAutoRisk", "limits"}
            /\ b.autonomy[t].limits \in [perRun : Int, perHour : Int, money : Int]
        BY <2>1, <2>2, BundleAssumption
      <3> QED
        BY <2>1, <3>1, StricterProfileIsTighter
    <2> QED
      BY <2>3, <2>4, <2>5, <2>6, TighterReflexive DEF TighterFor
  <1>4. CASE \E d \in StricterCapabilities(own[key]) :
                key \in DOMAIN own /\ c = [b EXCEPT !.capabilities[t][key] = d]
    <2>1. PICK d \in StricterCapabilities(own[key]) :
             key \in DOMAIN own /\ c = [b EXCEPT !.capabilities[t][key] = d]
      BY <1>4
    <2>2. t \in DOMAIN b.capabilities /\ own = b.capabilities[t]
      BY <2>1 DEF Lookup, NoKeys
    <2>3. b \in Bundles
      BY <2>2 DEF ZeroBundle, NoKeys
    <2>4. /\ c.version = b.version /\ c.autonomy = b.autonomy
          /\ c.capabilities = [b.capabilities EXCEPT ![t][key] = d]
      BY <1>1, <2>1
    <2>5. CapabilityFor(c, req.id, req.action) = d
      <3>1. t \in DOMAIN c.capabilities /\ c.capabilities[t] = [own EXCEPT ![key] = d]
        BY <2>2, <2>4
      <3> HIDE DEF own
      <3>2. key \in DOMAIN c.capabilities[t] /\ c.capabilities[t][key] = d
        BY <2>1, <3>1
      <3> QED
        BY <3>1, <3>2 DEF CapabilityFor, Lookup
    <2>6. CapabilityFor(b, req.id, req.action) = own[key]
      BY <2>1, <2>2 DEF CapabilityFor, Lookup
    <2>7. ProfileOf(c, req.id) = ProfileOf(b, req.id)
      BY <2>4 DEF ProfileOf
    <2>8. TighterCapability(d, own[key])
      <3>1. DOMAIN own[key] = {"allow", "maxRisk", "requiresApproval"}
        BY <2>1, <2>2, <2>3, BundleAssumption
      <3> QED
        BY <2>1, <3>1, StricterCapabilityIsTighter
    <2> QED
      BY <1>2, <2>4, <2>5, <2>6, <2>7, <2>8, TighterReflexive DEF TighterFor
  <1>5. CASE c = [b EXCEPT !.autonomy = NoKeys]
    <2>1. c.version = b.version /\ c.capabilities = b.capabilities /\ c.autonomy = NoKeys
      BY <1>1, <1>5
    <2>2. ProfileOf(c, req.id) = NoProfile
      BY <2>1 DEF ProfileOf, Lookup, NoKeys
    <2>3. CapabilityFor(c, req.id, req.action) = CapabilityFor(b, req.id, req.action)
      BY <2>1 DEF CapabilityFor
    <2>4. NoProfile.limits \in [perRun : Int, perHour : Int, money : Int]
      BY DEF NoProfile, NoLimits
    <2>5. TighterProfile(NoProfile, ProfileOf(b, req.id))
      BY DEF TighterProfile, NoProfile
    <2> QED
      BY <2>1, <2>2, <2>3, <2>4, <2>5, TighterReflexive DEF TighterFor
  <1>6. CASE c = [b EXCEPT !.capabilities = NoKeys]
    <2>1. c.version = b.version /\ c.capabilities = NoKeys /\ c.autonomy = b.autonomy
      BY <1>1, <1>6
    <2>2. CapabilityFor(c, req.id, req.action) = NoCapability
      BY <2>1 DEF CapabilityFor, Lookup, NoKeys
    <2>3. ProfileOf(c, req.id) = ProfileOf(b, req.id)
      BY <2>1 DEF ProfileOf
    <2>4. TighterCapability(NoCapability, CapabilityFor(b, req.id, req.action))
      BY DEF TighterCapability, NoCapability
    <2> QED
      BY <1>2, <2>1, <2>2, <2>3, <2>4, TighterReflexive DEF TighterFor
  <1> QED
    BY <1>3, <1>4, <1>5, <1>6 DEF Tightened

\* A tighter configuration is configured for less, ...
LEMMA ConfiguredTighter ==
    ASSUME NEW b, NEW c, NEW req, TighterFor(c, b, req),
           req.amount \in Int, Configured(c, req)
    PROVE  Configured(b, req)
  BY DEF TighterFor, TighterProfile, TighterCapability, Configured

\* ... and asks for approval wherever the wider one does.
LEMMA PendingTighter ==
    ASSUME NEW b, NEW c, NEW req, TighterFor(c, b, req), req.risk \in Risks,
           req.id.actor \in AgentClass, Configured(c, req),
           PendingReason(b, req) # None
    PROVE  PendingReason(c, req) # None
  <1> DEFINE pb == ProfileOf(b, req.id)
             pc == ProfileOf(c, req.id)
             cb == CapabilityFor(b, req.id, req.action)
             cc == CapabilityFor(c, req.id, req.action)
  <1>1. /\ pc.mode \in {"ENABLED", "RESTRICTED"} /\ pb.mode \in {"ENABLED", "RESTRICTED"}
        /\ pc.mode = "ENABLED" => pb.mode = "ENABLED"
        /\ pc.maxAutoRisk \in Risks /\ pb.maxAutoRisk \in Risks
        /\ AtMost(pc.maxAutoRisk, pb.maxAutoRisk)
        /\ cc.maxRisk \in Risks /\ cb.maxRisk \in Risks /\ AtMost(cc.maxRisk, cb.maxRisk)
        /\ ~cc.requiresApproval => ~cb.requiresApproval
    BY DEF TighterFor, TighterProfile, TighterCapability, Configured
  <1>2. \A low, high \in Risks : AtMost(low, high) =>
            /\ riskOrdinal[req.risk] > riskOrdinal[high]
                    => riskOrdinal[req.risk] > riskOrdinal[low]
            /\ AtLeastHigh(low) => AtLeastHigh(high)
    BY DEF AtMost, AtLeastHigh, Risks, riskOrdinal
  <1> HIDE DEF pb, pc, cb, cc
  <1>3. highDelegated(pc, cc) => highDelegated(pb, cb)
    BY <1>1, <1>2 DEF highDelegated
  <1>4. ~req.approved /\ ApprovalReason(b, req) # None
    BY DEF PendingReason
  <1>5. ApprovalReason(c, req) # None
    BY <1>1, <1>2, <1>3, <1>4 DEF ApprovalReason, None, pb, pc, cb, cc
  <1> QED
    BY <1>4, <1>5 DEF PendingReason

\* Withdrawing a piece of delegation never gives a request more.
THEOREM WithdrawingNeverHelps == Spec => []DelegationIsMonotone
<1>1. TypeOK /\ DecisionInv => DelegationIsMonotone
  <2> SUFFICES ASSUME TypeOK, DecisionInv, NEW e \in Evaluators, Decided(e),
                      NEW c \in Tightened(first[e], call[e])
               PROVE  Strictness(Decide(c, Gate(e), call[e]).effect)
                        >= Strictness(result[e].effect)
    BY DEF DelegationIsMonotone
  <2>1. /\ call[e] \in DecideRequests /\ first[e] \in Bundles \cup {ZeroBundle}
        /\ result[e] = Decide(first[e], Gate(e), call[e])
    BY DEF TypeOK, DecisionInv, Decided
  <2>2. PICK b, req, g : b = first[e] /\ req = call[e] /\ g = Gate(e)
    OBVIOUS
  <2>3. /\ req \in DecideRequests /\ b \in Bundles \cup {ZeroBundle} /\ req.amount \in Int
        /\ TighterFor(c, b, req)
    BY <2>1, <2>2, TightenedIsTighter, RequestAssumption
  <2>4. c.version = b.version
    BY <2>3 DEF TighterFor
  <2>5. Strictness(Decide(c, g, req).effect) >= Strictness(Decide(b, g, req).effect)
    <3>1. CASE req.id.actor \notin AgentClass
      <4>1. Decide(c, g, req) = Decide(b, g, req)
        BY <2>4, <3>1, OnlyVersionMatters
      <4>2. Strictness(Decide(b, g, req).effect) \in 0..2
        BY DEF Strictness
      <4> QED
        BY <4>1, <4>2
    <3>2. CASE req.id.actor \in AgentClass
      <4>1. EarlyDenial(c, req) = EarlyDenial(b, req)
        BY <2>4 DEF EarlyDenial, PreconditionDenial
      <4>2. /\ AgentDenial(b, req) = None <=> Configured(b, req)
            /\ AgentDenial(c, req) = None <=> Configured(c, req)
        BY <2>3, WhenConfigured, WhenConfiguredWith DEF TighterFor
      <4>3. LateDenial(c, g, req) = None
              => LateDenial(b, g, req) = None /\ Configured(c, req)
        BY <2>3, <3>2, <4>2, ConfiguredTighter DEF LateDenial
      <4>4. EarlyDenial(b, req) = None => req.risk \in Risks
        BY DEF EarlyDenial, PreconditionDenial, None
      <4>5. ASSUME EarlyDenial(b, req) = None, LateDenial(c, g, req) = None,
                   PendingReason(b, req) # None
            PROVE  PendingReason(c, req) # None
        <5>1. Configured(b, req) /\ Configured(c, req) /\ req.risk \in Risks
          BY <3>2, <4>2, <4>3, <4>4, <4>5 DEF LateDenial
        <5> QED
          BY <2>3, <3>2, <4>5, <5>1, PendingTighter
      <4>6. LateDenial(b, g, req) # None => LateDenial(c, g, req) # None
        BY <4>3
      <4> QED
        BY <4>1, <4>5, <4>6, Stricter
    <3> QED
      BY <3>1, <3>2
  <2> QED
    BY <2>1, <2>2, <2>5, Zenon
<1> QED
  BY <1>1, TypeCorrect, DecisionInvariant, PTL

------------------------------------------------------------------------------
(* Reads *)

\* The answer of Can is that of the one snapshot it took.
ReadInv ==
    /\ Indexed
    /\ DOMAIN first = Evaluators
    /\ \A e \in Evaluators : at[e] = "answered" =>
          result[e] = Can(first[e], call[e].id, call[e].verb, call[e].object, call[e].field)

LEMMA ReadInvariant == Spec => []ReadInv
<1> USE DEF ReadInv, Indexed
<1>1. Init => ReadInv
  BY DEF Init
<1>2. ReadInv /\ [Next]_engineVars => ReadInv'
  <2> SUFFICES ASSUME ReadInv, [Next]_engineVars
               PROVE  ReadInv'
    OBVIOUS
  <2> USE DEF Enter, Leave
  <2>1. ASSUME NEW new \in Bundles, Swap(new)
        PROVE  ReadInv'
    BY <2>1 DEF Swap
  <2>2. ASSUME NEW e \in Evaluators, NEW r \in CanRequests, CanCall(e, r)
        PROVE  ReadInv'
    BY <2>2 DEF CanCall
  <2>3. ASSUME NEW e \in Evaluators, NEW r \in RecordRequests,
               RecordRefused(e, r) \/ RecordGranted(e, r)
        PROVE  ReadInv'
    BY <2>3 DEF RecordRefused, RecordGranted
  <2>4. ASSUME NEW e \in Evaluators, RecordScoped(e)
        PROVE  ReadInv'
    BY <2>4 DEF RecordScoped
  <2>5. ASSUME NEW e \in Evaluators, NEW req \in DecideRequests,
               DecideRefused(e, req) \/ DecideBegins(e, req)
        PROVE  ReadInv'
    BY <2>5 DEF DecideRefused, DecideBegins
  <2>6. ASSUME NEW e \in Evaluators, DecideEnds(e)
        PROVE  ReadInv'
    BY <2>6 DEF DecideEnds
  <2>7. ASSUME NEW e \in Evaluators, Return(e)
        PROVE  ReadInv'
    BY <2>7 DEF Return
  <2>8. CASE UNCHANGED engineVars
    BY <2>8 DEF engineVars
  <2> QED
    BY <2>1, <2>2, <2>3, <2>4, <2>5, <2>6, <2>7, <2>8 DEF Next, Evaluate
<1> QED
  BY <1>1, <1>2, PTL DEF Spec

\* A granted field read is decided by the entries that govern the field.
LEMMA FieldRead ==
    ASSUME NEW b, NEW id, NEW object, NEW f, f # "",
           "read" \in RuleFor(b, id, object).grants
    PROVE  Can(b, id, "read", object, f).allow <=>
             \A entry \in fieldRulesFor(RuleFor(b, id, object), f) : entry.read
<1> DEFINE rule    == RuleFor(b, id, object)
           granted == "read" \in rule.grants /\ (f # "" => FieldPermits(rule, "read", f))
<1>1. granted <=> \A entry \in fieldRulesFor(rule, f) : entry.read
  BY DEF FieldPermits
<1> HIDE DEF granted
<1>2. Can(b, id, "read", object, f) = Answer(granted)
  BY DEF Can, granted
<1>3. Answer(granted).allow = granted
  BY DEF Answer
<1> QED
  BY <1>1, <1>2, <1>3

\* A read of the whole object that is granted lists the fields.
LEMMA ObjectRead ==
    ASSUME NEW b, NEW id, NEW object, Can(b, id, "read", object, "").allow
    PROVE  /\ "read" \in RuleFor(b, id, object).grants
           /\ Can(b, id, "read", object, "").visible = VisibleFields(RuleFor(b, id, object))
           /\ Can(b, id, "read", object, "").masked = MaskedFields(RuleFor(b, id, object))
<1> DEFINE rule  == RuleFor(b, id, object)
           grant == "read" \in rule.grants
           more  == grant /\ ("" # "" => FieldPermits(rule, "read", ""))
<1>1. CASE hasRule(rule)
  <2>1. Can(b, id, "read", object, "").allow = grant
    BY <1>1 DEF Can
  <2>2. Can(b, id, "read", object, "").visible = VisibleFields(rule)
    BY <1>1 DEF Can
  <2>3. Can(b, id, "read", object, "").masked = MaskedFields(rule)
    BY <1>1 DEF Can
  <2>4. grant
    BY <2>1
  <2> QED
    BY <2>2, <2>3, <2>4
<1>2. CASE ~hasRule(rule)
  <2>1. ~more
    BY <1>2 DEF hasRule
  <2> HIDE DEF more
  <2>2. Can(b, id, "read", object, "") = Answer(more)
    BY <1>2 DEF Can, more
  <2>3. Answer(more).allow = more
    BY DEF Answer
  <2> QED
    BY <2>1, <2>2, <2>3
<1> QED
  BY <1>1, <1>2

\* Whole-object reads and field reads agree, whatever the merged rule.
THEOREM ReadsAgree == Spec => []WholeAndFieldReadsAgree
<1>1. ReadInv => WholeAndFieldReadsAgree
  <2> SUFFICES ASSUME ReadInv, NEW e \in Evaluators,
                      at[e] = "answered", call[e].verb = "read", call[e].field = "",
                      result[e].allow
               PROVE  LET r         == call[e]
                          readable(f) == Can(first[e], r.id, "read", r.object, f).allow
                          named     == DOMAIN RuleFor(first[e], r.id, r.object).fields
                      IN  /\ result[e].visible \ {""} = {f \in named \ {"*", ""} : readable(f)}
                          /\ DOMAIN result[e].masked \subseteq result[e].visible
                          /\ \A f \in {"unnamed"} \ named :
                                readable(f) = ("*" \in named => readable("*"))
    BY DEF WholeAndFieldReadsAgree
  <2>1. PICK b, id, object : b = first[e] /\ id = call[e].id /\ object = call[e].object
    OBVIOUS
  <2> DEFINE rule        == RuleFor(b, id, object)
             named       == DOMAIN rule.fields
             readable(f) == Can(b, id, "read", object, f).allow
  <2>2. result[e] = Can(b, id, "read", object, "")
    BY <2>1 DEF ReadInv
  <2>3. /\ "read" \in rule.grants
        /\ result[e].visible = VisibleFields(rule)
        /\ result[e].masked = MaskedFields(rule)
    <3>1. Can(b, id, "read", object, "").allow
      BY <2>2
    <3>2. /\ "read" \in rule.grants
          /\ Can(b, id, "read", object, "").visible = VisibleFields(rule)
          /\ Can(b, id, "read", object, "").masked = MaskedFields(rule)
      BY <3>1, ObjectRead
    <3> QED
      BY <2>2, <3>2
  <2>4. \A f : f # "" => (readable(f) <=> \A entry \in fieldRulesFor(rule, f) : entry.read)
    BY <2>3, FieldRead
  <2>5. \A f : readable(f) \in BOOLEAN
    BY CanAnswers, Zenon
  <2>6. \A f \in named : fieldRulesFor(rule, f) = {rule.fields[f]}
    BY DEF fieldRulesFor
  <2> HIDE DEF readable, rule
  <2>7. result[e].visible \ {""} = {f \in named \ {"*", ""} : readable(f)}
    <3>1. \A f \in named \ {""} : readable(f) <=> rule.fields[f].read
      BY <2>4, <2>6
    <3>2. VisibleFields(rule) \ {""} = {f \in named \ {"*", ""} : rule.fields[f].read}
      BY DEF VisibleFields
    <3>3. {f \in named \ {"*", ""} : rule.fields[f].read} = {f \in named \ {"*", ""} : readable(f)}
      BY <3>1, Zenon
    <3> QED
      BY <2>3, <3>2, <3>3
  <2>8. DOMAIN result[e].masked \subseteq result[e].visible
    BY <2>3 DEF MaskedFields
  <2>9. ASSUME NEW f \in {"unnamed"} \ named
        PROVE  readable(f) = ("*" \in named => readable("*"))
    <3>1. fieldRulesFor(rule, f) = {rule.fields[k] : k \in {"*"} \cap named}
      BY <2>9 DEF fieldRulesFor
    <3>2. CASE "*" \in named
      <4>1. fieldRulesFor(rule, f) = fieldRulesFor(rule, "*")
        BY <2>6, <3>1, <3>2
      <4> QED
        BY <2>4, <2>5, <2>9, <3>2, <4>1
    <3>3. CASE "*" \notin named
      BY <2>4, <2>5, <2>9, <3>1, <3>3
    <3> QED
      BY <3>2, <3>3
  <2> QED
    BY <2>1, <2>7, <2>8, <2>9 DEF rule, readable
<1> QED
  BY <1>1, ReadInvariant, PTL

==============================================================================
