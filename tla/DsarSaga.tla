------------------------------- MODULE DsarSaga -------------------------------
(***************************************************************************)
(* One data subject access request over the contract of go/dsar: an        *)
(* orchestrator fans an export or an erasure of a contact out to every     *)
(* context, each of which serves it through the routes of Mount.           *)
(*                                                                         *)
(* Mount's routes are the library's.  A context's closures, its database   *)
(* transaction and the orchestrator are not, and modelled from what        *)
(* contract.go and handler.go say of them: the closure refuses what is     *)
(* held, and follows the mode; an error is retried; the service of an      *)
(* answer labels it.  Calls go over a network: a call may time out before  *)
(* or after the context has served it, and a request that was given up may *)
(* still arrive.                                                           *)
(***************************************************************************)
EXTENDS Integers

CONSTANTS
    Contexts,
    SelfChecking,  \* contexts that also ask the legal-hold gate themselves
    EmailKeyed,    \* contexts whose rows carry an email instead of a contact
    modeOf,        \* the mode the orchestrator gives each context, "" for none
    Holdings,      \* how many rows of the contact the contexts may have
    MaxRows,       \* the bound on them in one context
    Nil            \* a Go nil slice, null in JSON; also: nothing yet

ASSUME ContextsAssumption ==
    /\ SelfChecking \subseteq Contexts /\ EmailKeyed \subseteq Contexts
    /\ modeOf \in [Contexts -> {"delete", "anonymize", ""}]
    /\ Holdings \subseteq [Contexts -> 0..MaxRows]
    /\ MaxRows \in Nat /\ Nil \notin Nat

VARIABLES
    kind,        \* of the access request: export or erase
    subject,     \* what its requester filled in
    rows,        \* how many rows of a context identify the contact
    deleted,     \* how many were deleted
    anonymized,  \* how many were stripped of what identifies the contact
    hold,        \* whether the contact is under legal hold
    frozen,      \* the rows of a context that the hold came in time for
    task,        \* the orchestrator's view of each context
    call,        \* its call to each context
    late,        \* requests it has given up, which may still arrive
    bundle,      \* the exported slices under each label, Nil if missing
    report       \* what was erased under each label

data == <<rows, deleted, anonymized>>
asked == <<kind, subject>>
gate == <<hold, frozen>>
filed == <<task, bundle, report>>
dsarVars == <<asked, data, gate, filed, call, late>>

\* Of a body that does not decode nothing is known.
Subjects == {[readable |-> FALSE, contact |-> "", email |-> FALSE]}
            \cup [readable : {TRUE}, contact : {"", "c1"}, email : BOOLEAN]

NoCall == [step |-> "none"]

Sent(req) == [step |-> "sent", req |-> req]

Answered(answer) == [step |-> "answered", answer |-> answer]

Init ==
    /\ kind \in {"export", "erase"} /\ subject \in Subjects
    /\ rows \in Holdings
    /\ deleted = [c \in Contexts |-> 0] /\ anonymized = [c \in Contexts |-> 0]
    /\ hold \in BOOLEAN
    /\ frozen = [c \in Contexts |-> IF hold THEN rows[c] ELSE Nil]
    /\ task = [c \in Contexts |-> "todo"]
    /\ call = [c \in Contexts |-> NoCall]
    /\ late = [c \in Contexts |-> {}]
    /\ bundle = [c \in Contexts |-> Nil]
    /\ report = [c \in Contexts |-> [deleted |-> 0, anonymized |-> 0]]

------------------------------------------------------------------------------
(* Mount *)

BadRequest == [status |-> 400]

Failure == [status |-> 500]

Accepted(req) == req.readable /\ req.contact # ""

\* Mutant: every erasure is a hard deletion.
AlwaysDelete(req) == [req EXCEPT !.mode = "delete"]

\* Mutant: the request is built anew, without Held.
WithoutHeld(req) ==
    [req EXCEPT !.mode = IF @ = "" THEN "delete" ELSE @, !.held = FALSE]

\* The request as the closure sees it.
WithMode(req) == [req EXCEPT !.mode = IF @ = "" THEN "delete" ELSE @]

\* Mutant: nil slices are answered as they are.
ExportAnswerNil(svc, slices) ==
    [status |-> 200, service |-> svc, slices |-> slices]

\* The contact, which both sides know, is left out of the answers.
ExportAnswer(svc, slices) ==
    [status |-> 200, service |-> svc, slices |-> IF slices = Nil THEN 0 ELSE slices]

\* Mutant: the closure's own Service is kept.
Unstamped(svc, resp) == [resp EXCEPT !.status = 200]

\* Mutant: what is blocked is answered as an error.
BlockedFails(svc, resp) ==
    IF resp.blocked THEN Failure ELSE [resp EXCEPT !.status = 200, !.service = svc]

DeleteAnswer(svc, resp) == [resp EXCEPT !.status = 200, !.service = svc]

------------------------------------------------------------------------------
(* A context: its closures inside Mount *)

\* Mutant: a row that both the contact and the email find counts twice.
MatchedTwice(c, req) == rows[c] + (IF req.email THEN rows[c] ELSE 0)

\* Rows with no contact are found by the email, when the requester gave it.
Matched(c, req) == IF c \in EmailKeyed /\ ~req.email THEN 0 ELSE rows[c]

Refuses(c, req) == req.held \/ (c \in SelfChecking /\ hold)

In(req, mode, n) == IF req.mode = mode THEN n ELSE 0

\* What the closure returns of n rows; its Service can be anything.
Response(req, n, blocked, svc) ==
    [status |-> 0, service |-> svc, deleted |-> In(req, "delete", n),
     anonymized |-> In(req, "anonymize", n), blocked |-> blocked]

Erase(c, req, n) ==
    /\ rows' = [rows EXCEPT ![c] = @ - n]
    /\ deleted' = [deleted EXCEPT ![c] = @ + In(req, "delete", n)]
    /\ anonymized' = [anonymized EXCEPT ![c] = @ + In(req, "anonymize", n)]

\* Mutant: the closure's error is not looked at.
DeleteIgnoresError(c, req, answer) ==
    \E n \in 0..Matched(c, req), svc \in Contexts :
        /\ ~Refuses(c, req) /\ Erase(c, req, n)
        /\ answer = DeleteAnswer(c, Response(req, n, FALSE, svc))

\* A closure that fails may have committed any part of its work: the route
\* answers 500 and returns no error to the middleware that ends the
\* transaction.
Delete(c, req, answer) ==
    \/ \E svc \in Contexts :
        /\ answer = DeleteAnswer(c, Response(req, 0, TRUE, svc))
        /\ Refuses(c, req) /\ UNCHANGED data
    \/ \E svc \in Contexts :
        /\ answer = DeleteAnswer(c, Response(req, Matched(c, req), FALSE, svc))
        /\ ~Refuses(c, req) /\ Erase(c, req, Matched(c, req))
    \/ /\ answer = Failure
       /\ \E n \in 0..Matched(c, req) : ~Refuses(c, req) /\ Erase(c, req, n)

Export(c, req, answer) ==
    /\ \/ answer = ExportAnswer(c, Matched(c, req))
       \/ Matched(c, req) = 0 /\ answer = ExportAnswer(c, Nil)
       \/ answer = Failure
    /\ UNCHANGED data

\* The handler of the route of this access request.
Route(c, req, answer) ==
    \/ ~Accepted(req) /\ answer = BadRequest /\ UNCHANGED data
    \/ Accepted(req) /\ kind = "export" /\ Export(c, req, answer)
    \/ Accepted(req) /\ kind = "erase" /\ Delete(c, WithMode(req), answer)

Counts == 0..MaxRows

Answers == {BadRequest, Failure}
    \cup [status : {200}, service : Contexts, slices : Counts \cup {Nil}]
    \cup [status : {200}, service : Contexts, deleted : Counts, anonymized : Counts,
          blocked : BOOLEAN]

Successes == Answers \ {Failure}

Serve(c, answer) ==
    /\ call[c].step = "sent"
    /\ Route(c, call[c].req, answer)
    /\ call' = [call EXCEPT ![c] = Answered(answer)]
    /\ UNCHANGED <<asked, gate, filed, late>>

\* A request that was given up; nobody reads its answer.
ServeLate(c, req, answer) ==
    /\ req \in late[c]
    /\ Route(c, req, answer)
    /\ late' = [late EXCEPT ![c] = @ \ {req}]
    /\ UNCHANGED <<asked, gate, filed, call>>

------------------------------------------------------------------------------
(* The orchestrator *)

\* The gate is read for every call.
Send(c) ==
    /\ task[c] = "todo" /\ call[c] = NoCall
    /\ call' = [call EXCEPT ![c] =
                   Sent([readable |-> subject.readable, contact |-> subject.contact,
                         email |-> subject.email, mode |-> modeOf[c], held |-> hold])]
    /\ UNCHANGED <<asked, data, gate, filed, late>>

\* Before the context has served the call, or after it.
Timeout(c) ==
    /\ call[c] # NoCall
    /\ call' = [call EXCEPT ![c] = NoCall]
    /\ late' = [late EXCEPT ![c] = IF call[c].step = "sent" THEN @ \cup {call[c].req} ELSE @]
    /\ UNCHANGED <<asked, data, gate, filed>>

\* An error leaves the task to do.
Collect(c) ==
    /\ call[c].step = "answered"
    /\ call' = [call EXCEPT ![c] = NoCall]
    /\ LET answer == call[c].answer
       IN  \/ answer.status = 500 /\ UNCHANGED filed
           \/ /\ answer.status = 400
              /\ task' = [task EXCEPT ![c] = "refused"]
              /\ UNCHANGED <<bundle, report>>
           \/ /\ answer.status = 200 /\ kind = "export"
              /\ task' = [task EXCEPT ![c] = "done"]
              /\ bundle' = [bundle EXCEPT ![answer.service] = answer.slices]
              /\ UNCHANGED report
           \/ /\ answer.status = 200 /\ kind = "erase"
              /\ task' = [task EXCEPT ![c] = IF answer.blocked THEN "blocked" ELSE "done"]
              /\ report' = [report EXCEPT ![answer.service] =
                               [deleted |-> answer.deleted, anonymized |-> answer.anonymized]]
              /\ UNCHANGED bundle
    /\ UNCHANGED <<asked, data, gate, late>>

------------------------------------------------------------------------------
(* The legal-hold gate *)

Unheld(c) == \/ \E req \in late[c] : ~req.held
             \/ call[c].step = "sent" /\ ~call[c].req.held

\* In time for the contexts that no request without Held is on its way to,
\* and for those that ask the gate themselves.
PlaceHold ==
    /\ ~hold
    /\ hold' = TRUE
    /\ frozen' = [c \in Contexts |->
                     IF c \in SelfChecking \/ ~Unheld(c) THEN rows[c] ELSE Nil]
    /\ UNCHANGED <<asked, data, filed, call, late>>

LiftHold ==
    /\ hold
    /\ hold' = FALSE
    /\ frozen' = [c \in Contexts |-> Nil]
    /\ UNCHANGED <<asked, data, filed, call, late>>

------------------------------------------------------------------------------
Step(c) ==
    \/ Send(c)
    \/ Timeout(c)
    \/ Collect(c)
    \/ \E answer \in Answers : Serve(c, answer)
    \/ \E req \in late[c], answer \in Answers : ServeLate(c, req, answer)

Next == PlaceHold \/ LiftHold \/ \E c \in Contexts : Step(c)

Spec == Init /\ [][Next]_dsarVars

\* The orchestrator goes on with what is to do and with the answers it gets;
\* no closure fails for ever, and not every call times out.
FairSpec ==
    /\ Spec
    /\ \A c \in Contexts :
        /\ WF_dsarVars(Send(c)) /\ WF_dsarVars(Collect(c))
        /\ SF_dsarVars(call[c].step = "sent" /\ \E answer \in Successes : Serve(c, answer))
        /\ SF_dsarVars(call[c].step = "answered" /\ call[c].answer # Failure /\ Collect(c))

------------------------------------------------------------------------------
(* Properties *)

\* Whether the request lets the context find all it has of the contact:
\* "empty means UUID-keyed rows only" (contract.go 30-34).
Findable(c) == c \in EmailKeyed => subject.email

TypeOK ==
    /\ kind \in {"export", "erase"} /\ subject \in Subjects
    /\ rows \in [Contexts -> Counts]
    /\ deleted \in [Contexts -> Counts] /\ anonymized \in [Contexts -> Counts]
    /\ hold \in BOOLEAN /\ frozen \in [Contexts -> Counts \cup {Nil}]
    /\ task \in [Contexts -> {"todo", "done", "blocked", "refused"}]
    /\ bundle \in [Contexts -> Counts \cup {Nil}]
    /\ report \in [Contexts -> [deleted : Counts, anonymized : Counts]]

\* An erasure the orchestrator takes for done has left nothing, whatever
\* failed, was retried or came late on the way (handler.go 17-20, 70-76).
CompletedMeansErased ==
    \A c \in Contexts : kind = "erase" /\ task[c] = "done" /\ Findable(c) => rows[c] = 0

\* A hold keeps what it came in time for until it is lifted: "the context
\* must refuse and report Blocked" (contract.go 61-63), also when a request
\* is retried, or arrives after it was given up.
HoldKeepsRows == \A c \in Contexts : frozen[c] # Nil => rows[c] = frozen[c]

\* A context erases in the mode the orchestrator gave it, retries and late
\* requests included: one that "MUST anonymize rather than hard-delete"
\* (contract.go 57-61) deletes nothing, and for one that got no mode, which
\* means deletion (handler.go 67-69), nothing is kept anonymized.
ModeIsFollowed ==
    \A c \in Contexts : IF modeOf[c] = "anonymize" THEN deleted[c] = 0
                       ELSE anonymized[c] = 0

\* What is filed under the name of a context happened there, and so much of
\* it at least (contract.go 73-82, handler.go 74-75).
ReportIsBacked ==
    \A c \in Contexts : /\ report[c].deleted <= deleted[c]
                        /\ report[c].anonymized <= anonymized[c]

\* An exported context is in the bundle under its own label with all its
\* rows, and with an empty list rather than none (contract.go 47-55).
ExportIsWhole ==
    \A c \in Contexts : kind = "export" /\ task[c] = "done" =>
        bundle[c] = IF Findable(c) THEN rows[c] ELSE 0

\* Every context is settled some day, however often a call fails.
SagaSettles == \A c \in Contexts : <>(task[c] # "todo")

==============================================================================
