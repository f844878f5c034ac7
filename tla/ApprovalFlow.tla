----------------------------- MODULE ApprovalFlow -----------------------------
(***************************************************************************)
(* Actions on their way through Decide, an approval and a reservation.     *)
(* Decide of go/policy/decide.go is stateless; what it asks of its callers *)
(* is external and modelled from its comments: a request that is answered  *)
(* REQUIRE_APPROVAL waits for a person; the approval is claimed once and   *)
(* the same action decided again, for the one who carries it out, under    *)
(* the policy of that time; an agent reserves against the limits it was    *)
(* given before it executes, and a reservation that fails is a denial      *)
(* (decide.go 100-103, 124-126, 168-171, 224-238).  The store an agent     *)
(* reserves in is not in the repository: either answer of it is possible.  *)
(***************************************************************************)
EXTENDS Guardrails, Integers

CONSTANTS
    Bundles,    \* the policies that may come to be in force
    Jobs,       \* actions
    asks,       \* the request of each, not approved
    carriesOut  \* the identity that carries it out once it is approved

ASSUME AskAssumption ==
    \A j \in Jobs :
        /\ DOMAIN asks[j] = {"id", "action", "object", "verb", "field", "risk",
                             "approved", "amount", "serviceAllowed", "mutates"}
        /\ asks[j].approved = FALSE
        /\ asks[j].amount \in Int

\* Ceilings are integers in the code.
ASSUME CeilingAssumption ==
    \A b \in Bundles : \A t \in DOMAIN b.autonomy : b.autonomy[t].limits.money \in Int

VARIABLES
    bundle,   \* the policy in force
    job,      \* each action: where it is, and what it was told
    granted,  \* the actions whose first request passed the RBAC check
    barred    \* agents' actions the policy in force does not let start

flowVars == <<bundle, job, granted, barred>>

Agent(req) == req.id.actor \in AgentClass

Request(j) == IF job[j].approved
              THEN [asks[j] EXCEPT !.approved = TRUE, !.id = carriesOut[j]]
              ELSE asks[j]

InStep(j, step) == job[j].step = step

Init ==
    /\ bundle \in Bundles
    /\ job = [j \in Jobs |-> [step |-> "new", approved |-> FALSE,
                              held |-> ZeroBundle,
                              version |-> 0, limits |-> NoLimits]]
    /\ granted = {} /\ barred = {}

------------------------------------------------------------------------------
(* Decide takes one snapshot itself and one in Can. *)

Begin(j) ==
    /\ job[j].step \in {"new", "approved"}
    /\ job' = [job EXCEPT ![j].step = "deciding", ![j].held = bundle]
    /\ UNCHANGED <<bundle, granted, barred>>

RBAC(b, req) == Can(b, req.id, req.verb, req.object, req.field)

Result(j) ==
    LET req == Request(j)
    IN  IF EarlyDenial(job[j].held, req) # None THEN DenyEarly(job[j].held, req)
        ELSE Conclude(job[j].held, RBAC(bundle, req), req)

\* What the caller does with an effect.
Follow(effect) ==
    CASE effect = "DENY" -> "refused"
      [] effect = "REQUIRE_APPROVAL" -> "pending"
      [] OTHER -> "allowed"

End(j) ==
    /\ InStep(j, "deciding")
    /\ job' = [job EXCEPT ![j].step = Follow(Result(j).effect),
                          ![j].version = Result(j).version,
                          ![j].limits = Result(j).limits, ![j].held = ZeroBundle]
    /\ granted' = IF ~job[j].approved /\ RBAC(bundle, asks[j]).allow
                  THEN granted \cup {j} ELSE granted
    /\ UNCHANGED <<bundle, barred>>

------------------------------------------------------------------------------
(* The callers *)

Approve(j) ==
    /\ InStep(j, "pending")
    /\ job' = [job EXCEPT ![j].step = "approved", ![j].approved = TRUE]
    /\ UNCHANGED <<bundle, granted, barred>>

Reject(j) ==
    /\ InStep(j, "pending")
    /\ job' = [job EXCEPT ![j].step = "refused"]
    /\ UNCHANGED <<bundle, granted, barred>>

\* The store takes the reservation or fails it.
Reserve(j) ==
    /\ InStep(j, "allowed") /\ Agent(Request(j))
    /\ \E answer \in {"reserved", "refused"} : job' = [job EXCEPT ![j].step = answer]
    /\ UNCHANGED <<bundle, granted, barred>>

Execute(j) ==
    /\ InStep(j, IF Agent(Request(j)) THEN "reserved" ELSE "allowed")
    /\ job' = [job EXCEPT ![j].step = "executed"]
    /\ UNCHANGED <<bundle, granted, barred>>

------------------------------------------------------------------------------
\* Whether the policy b denies an action to the agent that asks for it and
\* carries it out, whoever approves it.
Denied(b, j) ==
    \A who \in {asks[j].id, carriesOut[j]} :
        LET req == [asks[j] EXCEPT !.id = who]
        IN  Agent(req) /\ AgentDenial(b, req) # None

\* A newer policy.  Actions that are past Decide, or inside it, are not
\* reached by it.
Reload ==
    /\ \E b \in Bundles :
        /\ b.version > bundle.version
        /\ bundle' = b
        /\ barred' = {j \in Jobs : /\ Denied(b, j)
                                   /\ \/ job[j].step \in {"new", "pending", "approved"}
                                      \/ j \in barred}
    /\ UNCHANGED <<job, granted>>

Step(j) ==
    Begin(j) \/ End(j) \/ Approve(j) \/ Reject(j) \/ Reserve(j) \/ Execute(j)

Next == Reload \/ \E j \in Jobs : Step(j)

Spec == Init /\ [][Next]_flowVars

------------------------------------------------------------------------------
(* Properties *)

\* "Approval would launder a denial": nothing executes, approved or not,
\* whose first request did not have the right on the object, whatever policy
\* came in between, although an approved request skips that check
\* (decide.go 156-161, 224-229).
NothingLaundered == \A j \in Jobs : InStep(j, "executed") => j \in granted

\* "Relaxes WHO, never WHAT": a policy that pauses the tenant, withdraws the
\* capability or the funding stops every agent action that is not yet in
\* Decide, those already approved included, as long as no later policy gives
\* it back (decide.go 234-238, 246-298).
WithdrawalStops ==
    \A j \in barred : job[j].step \notin {"allowed", "reserved", "executed"}

\* Whether the action j may go on under the policy b: with the ceilings b
\* gives its tenant, none of which an approval lifts, and, if it moves money,
\* approved by a person and funded by b.
BoundBy(b, j) ==
    LET ceilings == ProfileOf(b, Request(j).id).limits
    IN  /\ job[j].version = b.version /\ job[j].limits = ceilings
        /\ asks[j].amount > 0 => job[j].approved /\ ceilings.money > 0

\* An agent that Decide lets act, approved or not, was told the ceilings of
\* its own tenant in the one policy that the decision names, whatever policies
\* came in between its request, its approval and the answer: an approval
\* skips the ladder, not what is to be reserved (decide.go 288-297, 330-342).
AgentsBoundByPolicy ==
    \A j \in Jobs :
        job[j].step \in {"allowed", "reserved", "executed"} /\ Agent(Request(j))
            => \E b \in Bundles : BoundBy(b, j)

==============================================================================
