-------------------------- MODULE ApprovalFlow_proofs --------------------------
(***************************************************************************)
(* Theorems about ApprovalFlow, for any policies, actions and identities.  *)
(***************************************************************************)
EXTENDS ApprovalFlow, TLAPS

Steps == {"new", "deciding", "pending", "approved", "allowed", "reserved", "executed", "refused"}

IsJob(r) ==
    /\ DOMAIN r = {"step", "approved", "held", "version", "limits"}
    /\ r.step \in Steps /\ r.approved \in BOOLEAN

\* The shape of the variables.
ShapeInv ==
    /\ DOMAIN job = Jobs
    /\ \A j \in Jobs : IsJob(job[j])
    /\ granted \subseteq Jobs /\ barred \subseteq Jobs

LEMMA InitShape == Init => ShapeInv
<1> SUFFICES ASSUME Init PROVE ShapeInv
  OBVIOUS
<1>1. DOMAIN job = Jobs /\ \A j \in Jobs : IsJob(job[j])
  BY DEF Init, IsJob, Steps
<1> QED
  BY <1>1 DEF Init, ShapeInv

LEMMA ShapeInvariant == Spec => []ShapeInv
<1> USE DEF ShapeInv, IsJob, Steps
<1>1. Init => ShapeInv
  BY InitShape
<1>2. ShapeInv /\ [Next]_flowVars => ShapeInv'
  <2> SUFFICES ASSUME ShapeInv, [Next]_flowVars
               PROVE  ShapeInv'
    OBVIOUS
  <2>1. CASE Reload
    BY <2>1 DEF Reload
  <2>2. ASSUME NEW j \in Jobs, Begin(j)
        PROVE  ShapeInv'
    BY <2>2 DEF Begin
  <2>3. ASSUME NEW j \in Jobs, End(j)
        PROVE  ShapeInv'
    <3>1. Follow(Result(j).effect) \in Steps
      BY DEF Follow
    <3> QED
      BY <2>3, <3>1 DEF End
  <2>4. ASSUME NEW j \in Jobs, Approve(j) \/ Reject(j)
        PROVE  ShapeInv'
    BY <2>4 DEF Approve, Reject
  <2>5. ASSUME NEW j \in Jobs, Reserve(j)
        PROVE  ShapeInv'
    BY <2>5 DEF Reserve
  <2>6. ASSUME NEW j \in Jobs, Execute(j)
        PROVE  ShapeInv'
    BY <2>6 DEF Execute
  <2>7. CASE UNCHANGED flowVars
    BY <2>7 DEF flowVars
  <2> QED
    BY <2>1, <2>2, <2>3, <2>4, <2>5, <2>6, <2>7 DEF Next, Step
<1> QED
  BY <1>1, <1>2, PTL DEF Spec

------------------------------------------------------------------------------
(* What a decision takes *)

\* What Conclude does not deny passed the gate and, for an agent, the denials
\* of its class.
LEMMA ConcludeDenies ==
    ASSUME NEW b, NEW rbac, NEW req,
           \/ ~rbac.allow /\ ~req.approved
           \/ Agent(req) /\ AgentDenial(b, req) # None
    PROVE  Conclude(b, rbac, req).effect = "DENY"
<1>1. LateDenial(b, rbac, req) # None
  BY DEF LateDenial, GateDenial, Agent, None
<1> QED
  BY <1>1 DEF Conclude, deny

LEMMA EarlyDenies ==
    ASSUME NEW b, NEW req
    PROVE  DenyEarly(b, req).effect = "DENY"
BY DEF DenyEarly, deny

\* The request that is decided differs from the one that was asked in who
\* carries it out, and in being approved.
LEMMA RequestParts ==
    ASSUME NEW j \in Jobs, job[j].approved \in BOOLEAN
    PROVE  /\ Request(j).approved = job[j].approved
           /\ Request(j).id = IF job[j].approved THEN carriesOut[j] ELSE asks[j].id
           /\ Request(j).action = asks[j].action /\ Request(j).amount = asks[j].amount
BY AskAssumption DEF Request

------------------------------------------------------------------------------
(* Approvals do not launder *)

\* Whatever waits for approval or went through was granted to the one who
\* asked, at the first Decide; an approval does not ask again.
GrantInv ==
    /\ ShapeInv
    /\ \A j \in Jobs :
        job[j].approved \/ job[j].step \in {"pending", "approved", "allowed", "reserved", "executed"}
            => j \in granted

LEMMA GrantInvariant == Spec => []GrantInv
<1>1. Init => GrantInv
  BY InitShape DEF Init, GrantInv
<1>2. GrantInv /\ ShapeInv' /\ [Next]_flowVars => GrantInv'
  <2> SUFFICES ASSUME GrantInv, ShapeInv', [Next]_flowVars
               PROVE  GrantInv'
    OBVIOUS
  <2> USE DEF GrantInv, ShapeInv, IsJob
  <2>1. CASE Reload
    BY <2>1 DEF Reload
  <2>2. ASSUME NEW j \in Jobs, Begin(j)
        PROVE  GrantInv'
    BY <2>2 DEF Begin
  <2>3. ASSUME NEW j \in Jobs, End(j)
        PROVE  GrantInv'
    <3>1. CASE job[j].approved
      BY <2>3, <3>1 DEF End
    <3>2. CASE ~job[j].approved /\ RBAC(bundle, asks[j]).allow
      BY <2>3, <3>2 DEF End
    <3>3. CASE ~job[j].approved /\ ~RBAC(bundle, asks[j]).allow
      <4>1. Request(j) = asks[j]
        BY <3>3, Zenon DEF Request
      <4>2. ~Request(j).approved
        BY <4>1, AskAssumption
      <4>3. Result(j).effect = "DENY"
        BY <3>3, <4>1, <4>2, ConcludeDenies, EarlyDenies DEF Result
      <4>4. Follow(Result(j).effect) = "refused"
        BY <4>3 DEF Follow
      <4> QED
        BY <2>3, <3>3, <4>4 DEF End
    <3> QED
      BY <3>1, <3>2, <3>3
  <2>4. ASSUME NEW j \in Jobs, Approve(j) \/ Reject(j)
        PROVE  GrantInv'
    BY <2>4 DEF Approve, Reject, InStep
  <2>5. ASSUME NEW j \in Jobs, Reserve(j)
        PROVE  GrantInv'
    BY <2>5 DEF Reserve, InStep
  <2>6. ASSUME NEW j \in Jobs, Execute(j)
        PROVE  GrantInv'
    BY <2>6 DEF Execute, InStep
  <2>7. CASE UNCHANGED flowVars
    BY <2>7 DEF flowVars
  <2> QED
    BY <2>1, <2>2, <2>3, <2>4, <2>5, <2>6, <2>7 DEF Next, Step
<1> QED
  BY <1>1, <1>2, ShapeInvariant, PTL DEF Spec

\* No approval makes up for a right on the object that the one who asked did
\* not have when asking, whatever policies follow.
THEOREM ApprovalLaundersNothing == Spec => []NothingLaundered
<1>1. GrantInv => NothingLaundered
  BY DEF GrantInv, NothingLaundered, InStep
<1> QED
  BY <1>1, GrantInvariant, PTL

------------------------------------------------------------------------------
(* Withdrawals *)

\* A policy that denies an agent's action does so for whoever carries it out.
LEMMA DeniedRequest ==
    ASSUME NEW b, NEW j \in Jobs, job[j].approved \in BOOLEAN, Denied(b, j)
    PROVE  Agent(Request(j)) /\ AgentDenial(b, Request(j)) # None
<1> DEFINE req == [asks[j] EXCEPT !.id = Request(j).id]
<1>1. Request(j).id \in {asks[j].id, carriesOut[j]}
  BY RequestParts
<1>2. Agent(req) /\ AgentDenial(b, req) # None
  BY <1>1 DEF Denied
<1>3. /\ req.id = Request(j).id /\ req.action = asks[j].action
      /\ req.amount = asks[j].amount
  BY AskAssumption
<1> HIDE DEF req
<1>4. /\ Request(j).action = req.action /\ Request(j).amount = req.amount
  BY <1>3, RequestParts
<1>5. Agent(Request(j)) = Agent(req)
  BY <1>3 DEF Agent
<1>6. AgentDenial(b, Request(j)) = AgentDenial(b, req)
  BY <1>3, <1>4 DEF AgentDenial
<1> QED
  BY <1>2, <1>5, <1>6

\* A withdrawn action is not past Decide, and while it is inside, the policy
\* that its Decide holds denies it.
BarredInv ==
    /\ ShapeInv
    /\ \A j \in barred :
        /\ job[j].step \in {"new", "pending", "approved", "deciding", "refused"}
        /\ Denied(bundle, j)
        /\ job[j].step = "deciding" => Denied(job[j].held, j)

LEMMA BarredInvariant == Spec => []BarredInv
<1>1. Init => BarredInv
  BY InitShape DEF Init, BarredInv
<1>2. BarredInv /\ ShapeInv' /\ [Next]_flowVars => BarredInv'
  <2> SUFFICES ASSUME BarredInv, ShapeInv', [Next]_flowVars
               PROVE  BarredInv'
    OBVIOUS
  <2> USE DEF BarredInv, ShapeInv, IsJob
  <2>1. CASE Reload
    BY <2>1 DEF Reload
  <2>2. ASSUME NEW j \in Jobs, Begin(j)
        PROVE  BarredInv'
    BY <2>2 DEF Begin, Denied
  <2>3. ASSUME NEW j \in Jobs, End(j)
        PROVE  BarredInv'
    <3>1. CASE j \in barred
      <4>1. Agent(Request(j)) /\ AgentDenial(job[j].held, Request(j)) # None
        BY <2>3, <3>1, DeniedRequest DEF End, InStep
      <4>2. Result(j).effect = "DENY"
        BY <4>1, ConcludeDenies, EarlyDenies DEF Result
      <4>3. Follow(Result(j).effect) = "refused"
        BY <4>2 DEF Follow
      <4> QED
        BY <2>3, <4>3 DEF End, Denied
    <3>2. CASE j \notin barred
      BY <2>3, <3>2 DEF End, Denied
    <3> QED
      BY <3>1, <3>2
  <2>4. ASSUME NEW j \in Jobs, Approve(j) \/ Reject(j)
        PROVE  BarredInv'
    BY <2>4 DEF Approve, Reject, InStep, Denied
  <2>5. ASSUME NEW j \in Jobs, Reserve(j)
        PROVE  BarredInv'
    BY <2>5 DEF Reserve, Denied, InStep
  <2>6. ASSUME NEW j \in Jobs, Execute(j)
        PROVE  BarredInv'
    BY <2>6 DEF Execute, Denied, InStep
  <2>7. CASE UNCHANGED flowVars
    BY <2>7 DEF flowVars, Denied
  <2> QED
    BY <2>1, <2>2, <2>3, <2>4, <2>5, <2>6, <2>7 DEF Next, Step
<1> QED
  BY <1>1, <1>2, ShapeInvariant, PTL DEF Spec

\* A withdrawal stops every agent action that is not yet in Decide, those
\* already approved included.
THEOREM WithdrawalReachesApproved == Spec => []WithdrawalStops
<1>1. BarredInv => WithdrawalStops
  BY DEF BarredInv, WithdrawalStops
<1> QED
  BY <1>1, BarredInvariant, PTL

------------------------------------------------------------------------------
(* Ceilings *)

\* What Conclude lets an agent do: it says which policy it decided under and
\* gives that policy's ceilings; money moves only approved and funded.
LEMMA ConcludeBinds ==
    ASSUME NEW b \in Bundles, NEW rbac, NEW j \in Jobs, job[j].approved \in BOOLEAN,
           Agent(Request(j)),
           Conclude(b, rbac, Request(j)).effect \notin {"DENY", "REQUIRE_APPROVAL"}
    PROVE  /\ Conclude(b, rbac, Request(j)).version = b.version
           /\ Conclude(b, rbac, Request(j)).limits = ProfileOf(b, Request(j).id).limits
           /\ asks[j].amount > 0
                => job[j].approved /\ ProfileOf(b, Request(j).id).limits.money > 0
<1> DEFINE req      == Request(j)
           ceilings == ProfileOf(b, req.id).limits
<1>1. /\ req.approved = job[j].approved /\ req.amount = asks[j].amount
      /\ asks[j].amount \in Int
  BY RequestParts, AskAssumption
<1>2. req.id.actor \in AgentClass
  BY DEF Agent
<1>3. Conclude(b, rbac, req).effect \notin {"DENY", "REQUIRE_APPROVAL"}
  OBVIOUS
<1> HIDE DEF req
<1>4. LateDenial(b, rbac, req) = None
  BY <1>3 DEF Conclude, deny
<1>5. Conclude(b, rbac, req) = outcome(b, rbac, req)
  BY <1>4 DEF Conclude
<1>6. PendingReason(b, req) = None
  BY <1>3, <1>5 DEF outcome
<1>7. AgentDenial(b, req) = None
  BY <1>2, <1>4 DEF LateDenial, GateDenial
<1>8. ASSUME asks[j].amount > 0
      PROVE  job[j].approved /\ ceilings.money > 0
  <2>1. job[j].approved
    BY <1>1, <1>2, <1>6, <1>8 DEF PendingReason, ApprovalReason, None
  <2>2. req.id.tenant \in DOMAIN b.autonomy
    BY <1>7 DEF AgentDenial, None
  <2>3. ceilings = b.autonomy[req.id.tenant].limits
    BY <2>2 DEF ProfileOf, Lookup
  <2>4. ceilings.money \in Int
    BY <2>2, <2>3, CeilingAssumption
  <2>5. ~(ceilings.money < 0)
    BY <1>7 DEF AgentDenial, None
  <2>6. ~(req.amount > 0 /\ ceilings.money = 0)
    BY <1>7 DEF AgentDenial, None
  <2> QED
    BY <1>1, <1>8, <2>1, <2>4, <2>5, <2>6
<1>9. /\ outcome(b, rbac, req).version = b.version
      /\ outcome(b, rbac, req).limits = ceilings
  BY <1>2 DEF outcome, LimitsRequired
<1> QED
  BY <1>5, <1>8, <1>9 DEF req

\* A Decide under way holds a policy that was in force, which is the one that
\* binds what it lets through.
LimitInv ==
    /\ ShapeInv
    /\ bundle \in Bundles
    /\ \A j \in Jobs : job[j].step = "deciding" => job[j].held \in Bundles
    /\ AgentsBoundByPolicy

Going == {"allowed", "reserved", "executed"}

\* An action that changes at most its step, and is not let go on by it.
LEMMA StaysBound ==
    ASSUME NEW j \in Jobs, AgentsBoundByPolicy,
           job'[j].step \in Going => job[j].step \in Going,
           job'[j].approved = job[j].approved,
           job'[j].version = job[j].version, job'[j].limits = job[j].limits
    PROVE  job'[j].step \in Going /\ Agent(Request(j)') => \E b \in Bundles : BoundBy(b, j)'
<1>1. Request(j)' = Request(j)
  BY DEF Request
<1>2. ASSUME NEW b \in Bundles, BoundBy(b, j)
      PROVE  BoundBy(b, j)'
  BY <1>1, <1>2 DEF BoundBy
<1> QED
  BY <1>1, <1>2 DEF AgentsBoundByPolicy, Going

LEMMA LimitInvariant == Spec => []LimitInv
<1>1. Init => LimitInv
  BY InitShape DEF Init, LimitInv, AgentsBoundByPolicy
<1>2. LimitInv /\ ShapeInv' /\ [Next]_flowVars => LimitInv'
  <2> SUFFICES ASSUME LimitInv, ShapeInv', [Next]_flowVars
               PROVE  LimitInv'
    OBVIOUS
  <2>0. /\ ShapeInv /\ bundle \in Bundles /\ AgentsBoundByPolicy
        /\ \A j \in Jobs : job[j].step = "deciding" => job[j].held \in Bundles
    BY DEF LimitInv
  <2> USE DEF ShapeInv, IsJob
  \* It is enough to look at the action that moves.
  <2>1. ASSUME NEW j \in Jobs, bundle' = bundle,
               \A i \in Jobs : i # j => job'[i] = job[i],
               job'[j].step = "deciding" => job'[j].held \in Bundles,
               job'[j].step \in Going /\ Agent(Request(j)')
                    => \E b \in Bundles : BoundBy(b, j)'
        PROVE  LimitInv'
    <3>1. ASSUME NEW i \in Jobs, i # j
          PROVE  job'[i].step \in Going /\ Agent(Request(i)')
                    => \E b \in Bundles : BoundBy(b, i)'
      BY <2>0, <2>1, <3>1, StaysBound
    <3>2. AgentsBoundByPolicy'
      BY <2>1, <3>1 DEF AgentsBoundByPolicy, Going, Agent
    <3> QED
      BY <2>0, <2>1, <3>2 DEF LimitInv
  <2>2. CASE Reload
    <3>1. bundle' \in Bundles /\ job' = job
      BY <2>2 DEF Reload
    <3>2. AgentsBoundByPolicy'
      BY <2>0, <3>1, StaysBound DEF AgentsBoundByPolicy, Going, Agent
    <3> QED
      BY <2>0, <3>1, <3>2 DEF LimitInv
  <2>3. ASSUME NEW j \in Jobs, Begin(j)
        PROVE  LimitInv'
    BY <2>0, <2>1, <2>3 DEF Begin, Going
  <2>4. ASSUME NEW j \in Jobs, End(j)
        PROVE  LimitInv'
    <3>1. /\ job'[j].step = Follow(Result(j).effect)
          /\ job'[j].approved = job[j].approved
          /\ job'[j].version = Result(j).version
          /\ job'[j].limits = Result(j).limits
          /\ \A i \in Jobs : i # j => job'[i] = job[i]
          /\ bundle' = bundle /\ job[j].step = "deciding"
      BY <2>0, <2>4 DEF End, InStep
    <3>2. PICK b \in Bundles : b = job[j].held
      BY <2>0, <3>1
    <3>3. Request(j)' = Request(j)
      BY <3>1 DEF Request
    <3>4. Follow(Result(j).effect) # "deciding"
      BY DEF Follow
    <3>5. ASSUME Follow(Result(j).effect) \in Going, Agent(Request(j))
          PROVE  BoundBy(b, j)'
      <4>1. Result(j).effect \notin {"DENY", "REQUIRE_APPROVAL"}
        BY <3>5 DEF Follow, Going
      <4>2. Result(j) = Conclude(b, RBAC(bundle, Request(j)), Request(j))
        BY <3>2, <4>1, EarlyDenies DEF Result
      <4>3. /\ Result(j).version = b.version
            /\ Result(j).limits = ProfileOf(b, Request(j).id).limits
            /\ asks[j].amount > 0
                => job[j].approved /\ ProfileOf(b, Request(j).id).limits.money > 0
        BY <2>0, <3>5, <4>1, <4>2, ConcludeBinds
      <4> QED
        BY <3>1, <3>3, <4>3 DEF BoundBy
    <3>6. job'[j].step \in Going /\ Agent(Request(j)') => \E c \in Bundles : BoundBy(c, j)'
      BY <3>1, <3>3, <3>5
    <3> QED
      BY <2>1, <3>1, <3>4, <3>6
  <2>5. ASSUME NEW j \in Jobs, Approve(j) \/ Reject(j)
        PROVE  LimitInv'
    BY <2>0, <2>1, <2>5 DEF Approve, Reject, Going
  <2>6. ASSUME NEW j \in Jobs, Reserve(j) \/ Execute(j)
        PROVE  LimitInv'
    <3>1. /\ job'[j].step \in {"reserved", "executed", "refused"}
          /\ job[j].step \in Going
          /\ job'[j].approved = job[j].approved
          /\ job'[j].version = job[j].version /\ job'[j].limits = job[j].limits
          /\ bundle' = bundle /\ \A i \in Jobs : i # j => job'[i] = job[i]
      BY <2>0, <2>6 DEF Reserve, Execute, InStep, Going
    <3>2. job'[j].step \in Going /\ Agent(Request(j)') => \E b \in Bundles : BoundBy(b, j)'
      BY <2>0, <3>1, StaysBound
    <3> QED
      BY <2>1, <3>1, <3>2
  <2>7. CASE UNCHANGED flowVars
    <3>1. bundle' = bundle /\ job' = job
      BY <2>7 DEF flowVars
    <3>2. AgentsBoundByPolicy'
      BY <2>0, <3>1, StaysBound DEF AgentsBoundByPolicy, Going, Agent
    <3> QED
      BY <2>0, <3>1, <3>2 DEF LimitInv
  <2> QED
    BY <2>2, <2>3, <2>4, <2>5, <2>6, <2>7 DEF Next, Step
<1> QED
  BY <1>1, <1>2, ShapeInvariant, PTL DEF Spec

\* Whatever an agent is let do, approved or not, it was told the ceilings of
\* the one policy its decision names, and money it moves is approved and
\* funded there, for any policies, agents and approvals.
THEOREM AgentsAreBound == Spec => []AgentsBoundByPolicy
<1>1. LimitInv => AgentsBoundByPolicy
  BY DEF LimitInv
<1> QED
  BY <1>1, LimitInvariant, PTL

==============================================================================
