---------------------------- MODULE DsarSaga_proofs ----------------------------
(***************************************************************************)
(* Theorems about DsarSaga, for any contexts, modes and numbers of rows.   *)
(***************************************************************************)
EXTENDS DsarSaga, TLAPS

Requests == [readable : BOOLEAN, contact : {"", "c1"}, email : BOOLEAN,
             mode : {"delete", "anonymize", ""}, held : BOOLEAN]

\* A request that this saga sends to a context.
Of(c, req) == req \in Requests /\ req.email = subject.email /\ req.mode = modeOf[c]

\* What an answer in the orchestrator's hands says is true.
Truthful(c, answer) ==
    answer.status = 200 =>
        /\ answer.service = c
        /\ kind = "export" => answer.slices = IF Findable(c) THEN rows[c] ELSE 0
        /\ kind = "erase" => /\ answer.deleted \in Counts /\ answer.anonymized \in Counts
                             /\ answer.deleted <= deleted[c]
                             /\ answer.anonymized <= anonymized[c]
                             /\ ~answer.blocked /\ Findable(c) => rows[c] = 0

Calls == {NoCall} \cup [step : {"sent"}, req : Requests]
                  \cup [step : {"answered"}, answer : Answers]

Shape ==
    /\ TypeOK
    /\ \A c \in Contexts : rows[c] + deleted[c] + anonymized[c] <= MaxRows
    /\ call \in [Contexts -> Calls]
    /\ late \in [Contexts -> SUBSET Requests]

Asked ==
    \A c \in Contexts : /\ call[c].step = "sent" => Of(c, call[c].req)
                        /\ \A req \in late[c] : Of(c, req)

Answering ==
    \A c \in Contexts : call[c].step = "answered" => Truthful(c, call[c].answer)

\* A frozen context gets no request it would carry out.
Frozen ==
    \A c \in Contexts :
        /\ ~hold => frozen[c] = Nil
        /\ frozen[c] # Nil => c \in SelfChecking \/ ~Unheld(c)

Safe == CompletedMeansErased /\ HoldKeepsRows /\ ModeIsFollowed /\ ReportIsBacked
        /\ ExportIsWhole

SagaInv == Shape /\ Asked /\ Answering /\ Frozen /\ Safe

------------------------------------------------------------------------------

\* A route does to one context what its request allows, and its answer is true.
RouteOK(c, req, answer) ==
    /\ rows' \in [Contexts -> Counts] /\ deleted' \in [Contexts -> Counts]
    /\ anonymized' \in [Contexts -> Counts]
    /\ \A d \in Contexts : /\ rows'[d] + deleted'[d] + anonymized'[d] <= MaxRows
                           /\ rows'[d] <= rows[d] /\ deleted[d] <= deleted'[d]
                           /\ anonymized[d] <= anonymized'[d]
                           /\ d # c => /\ rows'[d] = rows[d] /\ deleted'[d] = deleted[d]
                                       /\ anonymized'[d] = anonymized[d]
    /\ kind = "export" => rows' = rows
    /\ Refuses(c, req) => rows' = rows
    /\ IF modeOf[c] = "anonymize" THEN deleted'[c] = deleted[c]
       ELSE anonymized'[c] = anonymized[c]
    /\ Truthful(c, answer)'

\* An erasure of n rows moves them, and touches no other context.
LEMMA EraseEffect ==
    ASSUME Shape, NEW c \in Contexts, NEW req, req.mode \in {"delete", "anonymize"},
           NEW n \in 0..rows[c], Erase(c, req, n)
    PROVE  /\ rows' \in [Contexts -> Counts] /\ deleted' \in [Contexts -> Counts]
           /\ anonymized' \in [Contexts -> Counts]
           /\ \A d \in Contexts : /\ rows'[d] + deleted'[d] + anonymized'[d] <= MaxRows
                                  /\ rows'[d] <= rows[d] /\ deleted[d] <= deleted'[d]
                                  /\ anonymized[d] <= anonymized'[d]
                                  /\ d # c => /\ rows'[d] = rows[d]
                                              /\ deleted'[d] = deleted[d]
                                              /\ anonymized'[d] = anonymized[d]
           /\ rows'[c] = rows[c] - n
           /\ deleted'[c] = deleted[c] + In(req, "delete", n)
           /\ anonymized'[c] = anonymized[c] + In(req, "anonymize", n)
           /\ In(req, "delete", n) \in 0..n /\ In(req, "anonymize", n) \in 0..n
  <1>1. /\ rows \in [Contexts -> Counts] /\ deleted \in [Contexts -> Counts]
        /\ anonymized \in [Contexts -> Counts] /\ MaxRows \in Nat
        /\ \A d \in Contexts : rows[d] + deleted[d] + anonymized[d] <= MaxRows
    BY ContextsAssumption DEF Shape, TypeOK
  <1>2. n \in Nat /\ n <= rows[c]
    BY <1>1 DEF Counts
  <1>3. CASE req.mode = "delete"
    BY <1>1, <1>2, <1>3 DEF Erase, In, Counts
  <1>4. CASE req.mode = "anonymize"
    BY <1>1, <1>2, <1>4 DEF Erase, In, Counts
  <1> QED
    BY <1>3, <1>4

LEMMA RouteEffect ==
    ASSUME Shape, Safe, NEW c \in Contexts, NEW req, Of(c, req),
           NEW answer \in Answers, Route(c, req, answer), UNCHANGED asked
    PROVE  RouteOK(c, req, answer)
  <1>1. /\ rows \in [Contexts -> Counts] /\ deleted \in [Contexts -> Counts]
        /\ anonymized \in [Contexts -> Counts] /\ MaxRows \in Nat
        /\ \A d \in Contexts : rows[d] + deleted[d] + anonymized[d] <= MaxRows
        /\ kind \in {"export", "erase"} /\ subject \in Subjects
    BY ContextsAssumption DEF Shape, TypeOK
  <1>2. kind' = kind /\ subject' = subject /\ (Findable(c) <=> Findable(c)')
    BY DEF asked, Findable
  <1>3. Matched(c, req) \in 0..rows[c]
        /\ Matched(c, req) = IF Findable(c) THEN rows[c] ELSE 0
    BY <1>1 DEF Matched, Findable, Of, Counts
  <1>4. ASSUME UNCHANGED data
        PROVE  /\ rows' = rows /\ deleted' = deleted /\ anonymized' = anonymized
               /\ Truthful(c, answer)' => RouteOK(c, req, answer)
    <2>1. rows' = rows /\ deleted' = deleted /\ anonymized' = anonymized
      BY <1>4 DEF data
    <2> QED
      BY <1>1, <2>1 DEF RouteOK, Counts
  <1>5. CASE ~Accepted(req) /\ UNCHANGED data /\ answer = BadRequest
    BY <1>4, <1>5 DEF BadRequest, Truthful
  <1>6. CASE Accepted(req) /\ kind = "export" /\ Export(c, req, answer)
    <2>1. UNCHANGED data
      BY <1>6 DEF Export
    <2>2. \/ answer = Failure
          \/ /\ answer.service = c
             /\ answer.slices = Matched(c, req)
      <3>1. Matched(c, req) # Nil
        <4>1. Matched(c, req) \in Nat
          BY <1>1, <1>3 DEF Counts
        <4> HIDE DEF Matched
        <4> QED
          BY <4>1, ContextsAssumption
      <3> QED
        BY <1>6, <3>1 DEF Export, ExportAnswer
    <2>3. Truthful(c, answer)'
      BY <1>2, <1>3, <1>4, <1>6, <2>1, <2>2 DEF Truthful, Failure
    <2> QED
      BY <1>4, <2>1, <2>3
  <1>7. CASE Accepted(req) /\ kind = "erase" /\ Delete(c, WithMode(req), answer)
    <2> DEFINE r == WithMode(req)
    <2>1. /\ r.mode \in {"delete", "anonymize"}
          /\ r.mode = "anonymize" <=> modeOf[c] = "anonymize"
          /\ Matched(c, r) = Matched(c, req) /\ (Refuses(c, r) <=> Refuses(c, req))
      BY ContextsAssumption DEF WithMode, Of, Requests, Matched, Refuses
    <2>2. ASSUME NEW svc \in Contexts, Refuses(c, r), UNCHANGED data,
                 answer = DeleteAnswer(c, Response(r, 0, TRUE, svc))
          PROVE  RouteOK(c, req, answer)
      <3>1. answer.service = c /\ answer.deleted = 0 /\ answer.anonymized = 0
            /\ answer.blocked
        BY <2>2 DEF DeleteAnswer, Response, In
      <3>2. deleted'[c] \in Counts /\ anonymized'[c] \in Counts
        BY <1>1, <1>4, <2>2
      <3>3. Truthful(c, answer)'
        BY <1>1, <1>2, <1>7, <3>1, <3>2 DEF Truthful, Counts
      <3> QED
        BY <1>4, <2>2, <3>3
    <2>3. ASSUME NEW n \in 0..rows[c], ~Refuses(c, r), Erase(c, r, n), Truthful(c, answer)'
          PROVE  RouteOK(c, req, answer)
      <3>1. IF modeOf[c] = "anonymize" THEN deleted'[c] = deleted[c]
            ELSE anonymized'[c] = anonymized[c]
        <4>1. IF modeOf[c] = "anonymize" THEN In(r, "delete", n) = 0
              ELSE In(r, "anonymize", n) = 0
          BY <2>1 DEF In
        <4> QED
          BY <1>1, <2>1, <2>3, <4>1, EraseEffect DEF Counts
      <3> QED
        BY <1>7, <2>1, <2>3, <3>1, EraseEffect DEF RouteOK
    <2>4. ASSUME NEW svc \in Contexts, ~Refuses(c, r), Erase(c, r, Matched(c, r)),
                 answer = DeleteAnswer(c, Response(r, Matched(c, r), FALSE, svc))
          PROVE  RouteOK(c, req, answer)
      <3> DEFINE n == Matched(c, req)
      <3>1. n \in 0..rows[c] /\ Erase(c, r, n)
        BY <1>3, <2>1, <2>4
      <3>2. /\ answer.service = c
            /\ answer.deleted = In(r, "delete", n) /\ answer.anonymized = In(r, "anonymize", n)
        BY <2>1, <2>4 DEF DeleteAnswer, Response
      <3>3. /\ rows'[c] = rows[c] - n
            /\ deleted'[c] = deleted[c] + In(r, "delete", n)
            /\ anonymized'[c] = anonymized[c] + In(r, "anonymize", n)
            /\ In(r, "delete", n) \in 0..n /\ In(r, "anonymize", n) \in 0..n
        BY <2>1, <3>1, EraseEffect
      <3>4. Findable(c) => rows'[c] = 0
        BY <1>1, <1>3, <3>3 DEF Counts
      <3>5. /\ answer.deleted \in Counts /\ answer.anonymized \in Counts
            /\ answer.deleted <= deleted'[c] /\ answer.anonymized <= anonymized'[c]
        <4>1. rows[c] \in Counts /\ deleted[c] \in Counts /\ anonymized[c] \in Counts
          BY <1>1
        <4> HIDE DEF n, r
        <4> QED
          BY <1>1, <3>1, <3>2, <3>3, <4>1 DEF Counts
      <3>6. Truthful(c, answer)'
        BY <1>2, <1>7, <3>2, <3>4, <3>5 DEF Truthful
      <3> QED
        BY <2>3, <2>4, <3>1, <3>6
    <2>5. ASSUME NEW n \in 0..Matched(c, r), ~Refuses(c, r), Erase(c, r, n),
                 answer = Failure
          PROVE  RouteOK(c, req, answer)
      <3>1. n \in 0..rows[c]
        BY <1>1, <1>3, <2>1 DEF Counts
      <3>2. Truthful(c, answer)'
        BY <2>5 DEF Truthful, Failure
      <3> QED
        BY <2>3, <2>5, <3>1, <3>2
    <2> HIDE DEF r
    <2> QED
      BY <1>7, <2>2, <2>4, <2>5 DEF Delete, r
  <1> QED
    BY <1>5, <1>6, <1>7 DEF Route

------------------------------------------------------------------------------

\* Nothing has been asked, answered or erased at first.
LEMMA InitSaga == Init => SagaInv
  <1> SUFFICES ASSUME Init PROVE SagaInv
    OBVIOUS
  <1>0. MaxRows \in Nat /\ Holdings \subseteq [Contexts -> 0..MaxRows]
    BY ContextsAssumption
  <1>1. Shape
    <2>1. 0 \in Counts
      BY <1>0 DEF Counts
    <2>2. TypeOK
      BY <1>0, <2>1 DEF Init, TypeOK, Counts
    <2>3. \A c \in Contexts : rows[c] + deleted[c] + anonymized[c] <= MaxRows
      <3> SUFFICES ASSUME NEW c \in Contexts
                   PROVE  rows[c] + deleted[c] + anonymized[c] <= MaxRows
        OBVIOUS
      <3>1. deleted[c] = 0 /\ anonymized[c] = 0 /\ rows[c] \in 0..MaxRows
        BY <1>0 DEF Init
      <3>2. rows[c] \in Int /\ rows[c] <= MaxRows
        BY <1>0, <3>1
      <3> QED
        BY <3>1, <3>2
    <2>4. call \in [Contexts -> Calls] /\ late \in [Contexts -> SUBSET Requests]
      BY DEF Init, Calls
    <2> QED
      BY <2>2, <2>3, <2>4 DEF Shape
  <1>2. Asked /\ Answering /\ Frozen
    BY DEF Init, Asked, Answering, Frozen, NoCall, Unheld
  <1>3. Safe
    <2>1. \A c \in Contexts : task[c] # "done" /\ (frozen[c] # Nil => rows[c] = frozen[c])
      BY DEF Init
    <2>2. ModeIsFollowed /\ ReportIsBacked
      <3>1. \A c \in Contexts : /\ deleted[c] = 0 /\ anonymized[c] = 0
                               /\ report[c] = [deleted |-> 0, anonymized |-> 0]
        BY DEF Init
      <3> QED
        BY <1>0, <3>1 DEF ModeIsFollowed, ReportIsBacked
    <2> QED
      BY <2>1, <2>2 DEF Safe, CompletedMeansErased, HoldKeepsRows, ExportIsWhole
  <1> QED
    BY <1>1, <1>2, <1>3 DEF SagaInv

\* What a route leaves of the invariant, whoever waits for its answer.
LEMMA RouteKeepsSafe ==
    ASSUME SagaInv, NEW c \in Contexts, NEW req, NEW answer \in Answers,
           RouteOK(c, req, answer), frozen[c] # Nil => Refuses(c, req),
           UNCHANGED <<asked, gate, filed>>
    PROVE  /\ Safe' /\ TypeOK'
           /\ (\A d \in Contexts : rows[d] + deleted[d] + anonymized[d] <= MaxRows)'
           /\ \A a : \A d \in Contexts : Truthful(d, a) => Truthful(d, a)'
  <1>1. /\ kind' = kind /\ subject' = subject /\ hold' = hold /\ frozen' = frozen
        /\ task' = task /\ bundle' = bundle /\ report' = report
    BY DEF asked, gate, filed
  <1>2. \A d \in Contexts : Findable(d)' <=> Findable(d)
    BY <1>1 DEF Findable
  <1>3. /\ \A d \in Contexts : /\ rows[d] \in Counts /\ rows'[d] \in Counts
                               /\ deleted[d] \in Counts /\ deleted'[d] \in Counts
                               /\ anonymized[d] \in Counts /\ anonymized'[d] \in Counts
                               /\ report[d].deleted \in Counts
                               /\ report[d].anonymized \in Counts
        /\ MaxRows \in Nat
    BY ContextsAssumption DEF SagaInv, Shape, TypeOK, RouteOK
  <1>4. \A d \in Contexts : /\ rows'[d] <= rows[d] /\ deleted[d] <= deleted'[d]
                            /\ anonymized[d] <= anonymized'[d]
                            /\ d # c => /\ rows'[d] = rows[d] /\ deleted'[d] = deleted[d]
                                        /\ anonymized'[d] = anonymized[d]
    BY DEF RouteOK
  <1>5. \A d \in Contexts : rows[d] = 0 => rows'[d] = 0
    BY <1>3, <1>4 DEF Counts
  <1>6. TypeOK'
    BY <1>1 DEF SagaInv, Shape, TypeOK, RouteOK
  <1>7. (\A d \in Contexts : rows[d] + deleted[d] + anonymized[d] <= MaxRows)'
    BY DEF RouteOK
  <1>8. \A a : \A d \in Contexts : Truthful(d, a) => Truthful(d, a)'
    <2> SUFFICES ASSUME NEW d \in Contexts, NEW a, Truthful(d, a), a.status = 200
                 PROVE  Truthful(d, a)'
      BY DEF Truthful
    <2>1. kind = "export" => rows' = rows
      BY DEF RouteOK
    <2>2. kind = "erase" => a.deleted <= deleted'[d] /\ a.anonymized <= anonymized'[d]
      BY <1>3, <1>4 DEF Truthful, Counts
    <2> QED
      BY <1>1, <1>2, <1>5, <2>1, <2>2 DEF Truthful
  <1>9. Safe'
    <2>1. CompletedMeansErased'
      BY <1>1, <1>2, <1>5 DEF SagaInv, Safe, CompletedMeansErased
    <2>2. HoldKeepsRows'
      <3>1. \A d \in Contexts : frozen[d] # Nil => rows'[d] = rows[d]
        BY <1>4 DEF RouteOK
      <3> QED
        BY <1>1, <3>1 DEF SagaInv, Safe, HoldKeepsRows
    <2>3. ModeIsFollowed'
      BY <1>4, ContextsAssumption DEF SagaInv, Safe, ModeIsFollowed, RouteOK
    <2>4. ReportIsBacked'
      BY <1>1, <1>3, <1>4 DEF SagaInv, Safe, ReportIsBacked, Counts
    <2>5. ExportIsWhole'
      BY <1>1, <1>2 DEF SagaInv, Safe, ExportIsWhole, RouteOK
    <2> QED
      BY <2>1, <2>2, <2>3, <2>4, <2>5 DEF Safe
  <1> QED
    BY <1>6, <1>7, <1>8, <1>9

\* A context that serves its call keeps the invariant.
LEMMA ServeKeeps ==
    ASSUME SagaInv, NEW c \in Contexts, NEW answer \in Answers, Serve(c, answer)
    PROVE  SagaInv'
  <1> DEFINE req == call[c].req
  <1>1. /\ call[c].step = "sent" /\ call' = [call EXCEPT ![c] = Answered(answer)]
        /\ Route(c, req, answer) /\ UNCHANGED <<asked, gate, filed>> /\ late' = late
    BY DEF Serve
  <1>2. Of(c, req) /\ Shape /\ Safe
    BY <1>1 DEF SagaInv, Asked
  <1>3. frozen[c] # Nil => Refuses(c, req)
    BY <1>1 DEF SagaInv, Frozen, Unheld, Refuses
  <1>4. RouteOK(c, req, answer)
    BY <1>1, <1>2, RouteEffect DEF asked
  <1> HIDE DEF req
  <1>5. /\ Safe' /\ TypeOK'
        /\ (\A d \in Contexts : rows[d] + deleted[d] + anonymized[d] <= MaxRows)'
        /\ \A a : \A d \in Contexts : Truthful(d, a) => Truthful(d, a)'
    BY <1>1, <1>3, <1>4, RouteKeepsSafe
  <1>6. Truthful(c, answer)'
    BY <1>4 DEF RouteOK
  <1>7. /\ Answered(answer) \in Calls
        /\ Answered(answer).step = "answered" /\ Answered(answer).answer = answer
    BY DEF Answered, Calls
  <1>8. call \in [Contexts -> Calls] /\ late \in [Contexts -> SUBSET Requests]
    BY <1>2 DEF Shape
  <1>9. /\ call' \in [Contexts -> Calls]
        /\ \A d \in Contexts : call'[d] = IF d = c THEN Answered(answer) ELSE call[d]
    BY <1>1, <1>7, <1>8
  <1>10. Shape'
    BY <1>1, <1>5, <1>8, <1>9 DEF Shape
  <1>11. Asked'
    BY <1>1, <1>7, <1>9 DEF SagaInv, Asked, Of, asked
  <1>12. Answering'
    BY <1>5, <1>6, <1>7, <1>9 DEF SagaInv, Answering
  <1>13. Frozen'
    BY <1>1, <1>7, <1>9 DEF SagaInv, Frozen, Unheld, gate
  <1> QED
    BY <1>5, <1>10, <1>11, <1>12, <1>13 DEF SagaInv

\* So does one that serves a request that was given up.
LEMMA ServeLateKeeps ==
    ASSUME SagaInv, NEW c \in Contexts, NEW req \in late[c], NEW answer \in Answers,
           ServeLate(c, req, answer)
    PROVE  SagaInv'
  <1>1. /\ call' = call /\ late' = [late EXCEPT ![c] = @ \ {req}]
        /\ Route(c, req, answer) /\ UNCHANGED <<asked, gate, filed>>
    BY DEF ServeLate
  <1>2. Of(c, req) /\ Shape /\ Safe
    BY DEF SagaInv, Asked
  <1>3. frozen[c] # Nil => Refuses(c, req)
    BY DEF SagaInv, Frozen, Unheld, Refuses
  <1>4. RouteOK(c, req, answer)
    BY <1>1, <1>2, RouteEffect DEF asked
  <1>5. /\ Safe' /\ TypeOK'
        /\ (\A d \in Contexts : rows[d] + deleted[d] + anonymized[d] <= MaxRows)'
        /\ \A a : \A d \in Contexts : Truthful(d, a) => Truthful(d, a)'
    BY <1>1, <1>3, <1>4, RouteKeepsSafe
  <1>6. call \in [Contexts -> Calls] /\ late \in [Contexts -> SUBSET Requests]
    BY <1>2 DEF Shape
  <1>7. /\ late' \in [Contexts -> SUBSET Requests]
        /\ \A d \in Contexts : late'[d] \subseteq late[d]
    BY <1>1, <1>6
  <1>8. Shape'
    BY <1>1, <1>5, <1>6, <1>7 DEF Shape
  <1>9. Asked'
    BY <1>1, <1>7 DEF SagaInv, Asked, Of, asked
  <1>10. Answering'
    BY <1>1, <1>5 DEF SagaInv, Answering
  <1>11. Frozen'
    BY <1>1, <1>7 DEF SagaInv, Frozen, Unheld, gate
  <1> QED
    BY <1>5, <1>8, <1>9, <1>10, <1>11 DEF SagaInv

------------------------------------------------------------------------------

\* What the invariant says of rows, tasks and answers is left alone by a step
\* that only moves calls.
LEMMA QuietKeeps ==
    ASSUME SagaInv, UNCHANGED <<asked, data, gate, filed>>
    PROVE  /\ Safe' /\ TypeOK'
           /\ (\A d \in Contexts : rows[d] + deleted[d] + anonymized[d] <= MaxRows)'
           /\ \A a : \A d \in Contexts : Truthful(d, a) <=> Truthful(d, a)'
           /\ \A r : \A d \in Contexts : Of(d, r) <=> Of(d, r)'
  <1>1. /\ kind' = kind /\ subject' = subject /\ hold' = hold /\ frozen' = frozen
        /\ task' = task /\ bundle' = bundle /\ report' = report
        /\ rows' = rows /\ deleted' = deleted /\ anonymized' = anonymized
    BY DEF asked, gate, filed, data
  <1>2. Safe'
    BY <1>1 DEF SagaInv, Safe, CompletedMeansErased, HoldKeepsRows, ModeIsFollowed,
                ReportIsBacked, ExportIsWhole, Findable
  <1>3. TypeOK' /\ (\A d \in Contexts : rows[d] + deleted[d] + anonymized[d] <= MaxRows)'
    BY <1>1 DEF SagaInv, Shape, TypeOK
  <1>4. \A a : \A d \in Contexts : Truthful(d, a) <=> Truthful(d, a)'
    BY <1>1 DEF Truthful, Findable
  <1>5. \A r : \A d \in Contexts : Of(d, r) <=> Of(d, r)'
    BY <1>1 DEF Of
  <1> QED
    BY <1>2, <1>3, <1>4, <1>5

\* A request is sent with the gate as it is, so a frozen context gets a held one.
LEMMA SendKeeps == ASSUME SagaInv, NEW c \in Contexts, Send(c) PROVE SagaInv'
  <1> DEFINE req == [readable |-> subject.readable, contact |-> subject.contact,
                     email |-> subject.email, mode |-> modeOf[c], held |-> hold]
  <1>1. /\ call' = [call EXCEPT ![c] = Sent(req)] /\ late' = late
        /\ UNCHANGED <<asked, data, gate, filed>>
    BY DEF Send
  <1>2. Of(c, req) /\ req.held = hold
    <2>1. subject \in Subjects /\ hold \in BOOLEAN
      BY DEF SagaInv, Shape, TypeOK
    <2>2. modeOf[c] \in {"delete", "anonymize", ""}
      BY ContextsAssumption
    <2>3. /\ subject.readable \in BOOLEAN /\ subject.contact \in {"", "c1"}
          /\ subject.email \in BOOLEAN
      <3>1. CASE subject = [readable |-> FALSE, contact |-> "", email |-> FALSE]
        BY <3>1
      <3>2. CASE subject \in [readable : {TRUE}, contact : {"", "c1"}, email : BOOLEAN]
        BY <3>2
      <3> QED
        BY <2>1, <3>1, <3>2 DEF Subjects
    <2> QED
      BY <2>1, <2>2, <2>3 DEF Of, Requests
  <1>3. Sent(req) \in Calls /\ Sent(req).step = "sent" /\ Sent(req).req = req
    BY <1>2 DEF Sent, Calls, Of
  <1> HIDE DEF req
  <1>4. call \in [Contexts -> Calls] /\ late \in [Contexts -> SUBSET Requests]
    BY DEF SagaInv, Shape
  <1>5. /\ call' \in [Contexts -> Calls]
        /\ \A d \in Contexts : call'[d] = IF d = c THEN Sent(req) ELSE call[d]
    BY <1>1, <1>3, <1>4
  <1>6. /\ Safe' /\ TypeOK'
        /\ (\A d \in Contexts : rows[d] + deleted[d] + anonymized[d] <= MaxRows)'
        /\ \A a : \A d \in Contexts : Truthful(d, a) <=> Truthful(d, a)'
        /\ \A r : \A d \in Contexts : Of(d, r) <=> Of(d, r)'
    BY <1>1, QuietKeeps
  <1>7. Shape'
    BY <1>1, <1>4, <1>5, <1>6 DEF Shape
  <1>8. Asked'
    BY <1>1, <1>2, <1>3, <1>5, <1>6 DEF SagaInv, Asked
  <1>9. Answering'
    BY <1>3, <1>5, <1>6 DEF SagaInv, Answering
  <1>10. Frozen'
    <2>1. hold' = hold /\ frozen' = frozen
      BY <1>1 DEF gate
    <2> QED
      BY <1>1, <1>2, <1>3, <1>5, <2>1 DEF SagaInv, Frozen, Unheld
  <1> QED
    BY <1>6, <1>7, <1>8, <1>9, <1>10 DEF SagaInv

\* A call that is given up is still a request of this saga, held or not as
\* it was.
LEMMA TimeoutKeeps == ASSUME SagaInv, NEW c \in Contexts, Timeout(c) PROVE SagaInv'
  <1>1. /\ call' = [call EXCEPT ![c] = NoCall]
        /\ late' = [late EXCEPT ![c] =
                        IF call[c].step = "sent" THEN @ \cup {call[c].req} ELSE @]
        /\ UNCHANGED <<asked, data, gate, filed>>
    BY DEF Timeout
  <1>2. /\ call \in [Contexts -> Calls] /\ late \in [Contexts -> SUBSET Requests]
        /\ NoCall \in Calls /\ NoCall.step = "none"
    BY DEF SagaInv, Shape, Calls, NoCall
  <1>3. /\ call' \in [Contexts -> Calls]
        /\ \A d \in Contexts : call'[d] = IF d = c THEN NoCall ELSE call[d]
    BY <1>1, <1>2
  <1>4. call[c].step = "sent" => Of(c, call[c].req) /\ call[c].req \in Requests
    BY DEF SagaInv, Asked, Of
  <1>5. late' \in [Contexts -> SUBSET Requests]
    BY <1>1, <1>2, <1>4
  <1>6. \A d \in Contexts : \A r \in late'[d] :
            r \in late[d] \/ (call[d].step = "sent" /\ r = call[d].req)
    BY <1>1, <1>2
  <1>7. /\ Safe' /\ TypeOK'
        /\ (\A d \in Contexts : rows[d] + deleted[d] + anonymized[d] <= MaxRows)'
        /\ \A a : \A d \in Contexts : Truthful(d, a) <=> Truthful(d, a)'
        /\ \A r : \A d \in Contexts : Of(d, r) <=> Of(d, r)'
    BY <1>1, QuietKeeps
  <1>8. Shape'
    BY <1>3, <1>5, <1>7 DEF Shape
  <1>9. Asked'
    BY <1>2, <1>3, <1>6, <1>7 DEF SagaInv, Asked
  <1>10. Answering'
    BY <1>2, <1>3, <1>7 DEF SagaInv, Answering
  <1>11. Frozen'
    <2>1. hold' = hold /\ frozen' = frozen
      BY <1>1 DEF gate
    <2>2. \A d \in Contexts : Unheld(d)' => Unheld(d)
      BY <1>2, <1>3, <1>6 DEF Unheld
    <2> QED
      BY <2>1, <2>2 DEF SagaInv, Frozen
  <1> QED
    BY <1>7, <1>8, <1>9, <1>10, <1>11 DEF SagaInv

\* What the orchestrator files is true because the answer is, and goes under
\* the context that gave it.
LEMMA CollectKeeps == ASSUME SagaInv, NEW c \in Contexts, Collect(c) PROVE SagaInv'
  <1> DEFINE answer == call[c].answer
  <1>1. /\ call[c].step = "answered" /\ call' = [call EXCEPT ![c] = NoCall]
        /\ kind' = kind /\ subject' = subject /\ hold' = hold /\ frozen' = frozen
        /\ rows' = rows /\ deleted' = deleted /\ anonymized' = anonymized
        /\ late' = late
    BY DEF Collect, asked, data, gate
  <1>2. /\ call \in [Contexts -> Calls] /\ late \in [Contexts -> SUBSET Requests]
        /\ NoCall \in Calls /\ NoCall.step = "none" /\ TypeOK
        /\ Truthful(c, answer)
    BY <1>1 DEF SagaInv, Shape, Calls, NoCall, Answering
  <1>3. /\ call' \in [Contexts -> Calls]
        /\ \A d \in Contexts : call'[d] = IF d = c THEN NoCall ELSE call[d]
    BY <1>1, <1>2
  <1>4. /\ Asked' /\ Answering' /\ Frozen'
    <2>1. /\ \A a : \A d \in Contexts : Truthful(d, a) <=> Truthful(d, a)'
          /\ \A r : \A d \in Contexts : Of(d, r) <=> Of(d, r)'
      BY <1>1 DEF Truthful, Findable, Of
    <2>2. Asked' /\ Answering'
      BY <1>1, <1>2, <1>3, <2>1 DEF SagaInv, Asked, Answering
    <2>3. Frozen'
      BY <1>1, <1>2, <1>3 DEF SagaInv, Frozen, Unheld
    <2> QED
      BY <2>2, <2>3
  <1>5. HoldKeepsRows' /\ ModeIsFollowed'
    BY <1>1 DEF SagaInv, Safe, HoldKeepsRows, ModeIsFollowed
  <1>6. (\A d \in Contexts : rows[d] + deleted[d] + anonymized[d] <= MaxRows)'
    BY <1>1 DEF SagaInv, Shape
  <1>7. \A d \in Contexts : Findable(d)' <=> Findable(d)
    BY <1>1 DEF Findable
  <1>8. SUFFICES TypeOK' /\ CompletedMeansErased' /\ ReportIsBacked' /\ ExportIsWhole'
    BY <1>1, <1>2, <1>3, <1>4, <1>5, <1>6 DEF SagaInv, Shape, Safe
  <1>9. CASE task' = task /\ bundle' = bundle /\ report' = report
    BY <1>1, <1>2, <1>7, <1>9 DEF SagaInv, Safe, TypeOK, CompletedMeansErased,
                                  ReportIsBacked, ExportIsWhole
  <1>10. CASE /\ task' = [task EXCEPT ![c] = "refused"]
              /\ bundle' = bundle /\ report' = report
    <2>1. \A d \in Contexts : task'[d] = "done" => task[d] = "done"
      BY <1>2, <1>10 DEF TypeOK
    <2>2. TypeOK'
      BY <1>1, <1>2, <1>10 DEF TypeOK
    <2> QED
      BY <1>1, <1>7, <1>10, <2>1, <2>2 DEF SagaInv, Safe, CompletedMeansErased,
                                         ReportIsBacked, ExportIsWhole
  <1>11. CASE /\ answer.status = 200 /\ kind = "export"
              /\ task' = [task EXCEPT ![c] = "done"]
              /\ bundle' = [bundle EXCEPT ![answer.service] = answer.slices]
              /\ report' = report
    <2>1. answer.service = c /\ answer.slices = IF Findable(c) THEN rows[c] ELSE 0
      BY <1>2, <1>11 DEF Truthful
    <2>2. answer.slices \in Counts
      <3>1. rows[c] \in Counts
        BY <1>2 DEF TypeOK
      <3>2. 0 \in Counts
        <4>1. MaxRows \in Nat
          BY ContextsAssumption
        <4> QED
          BY <4>1 DEF Counts
      <3> QED
        BY <2>1, <3>1, <3>2
    <2> HIDE DEF answer
    <2>3. /\ bundle' \in [Contexts -> Counts \cup {Nil}]
          /\ \A d \in Contexts : bundle'[d] = IF d = c THEN answer.slices ELSE bundle[d]
      BY <1>2, <1>11, <2>1, <2>2 DEF TypeOK
    <2>4. \A d \in Contexts : d # c => task'[d] = task[d]
      BY <1>2, <1>11 DEF TypeOK
    <2>5. TypeOK'
      BY <1>1, <1>2, <1>11, <2>3 DEF TypeOK
    <2>6. ExportIsWhole'
      BY <1>1, <1>7, <2>1, <2>3, <2>4 DEF SagaInv, Safe, ExportIsWhole
    <2> QED
      BY <1>1, <1>11, <2>5, <2>6 DEF SagaInv, Safe, CompletedMeansErased, ReportIsBacked
  <1>12. CASE /\ answer.status = 200 /\ kind = "erase"
              /\ task' = [task EXCEPT ![c] = IF answer.blocked THEN "blocked" ELSE "done"]
              /\ report' = [report EXCEPT ![answer.service] =
                               [deleted |-> answer.deleted, anonymized |-> answer.anonymized]]
              /\ bundle' = bundle
    <2>1. /\ answer.service = c
          /\ answer.deleted \in Counts /\ answer.anonymized \in Counts
          /\ answer.deleted <= deleted[c] /\ answer.anonymized <= anonymized[c]
          /\ ~answer.blocked /\ Findable(c) => rows[c] = 0
      BY <1>2, <1>12 DEF Truthful
    <2> HIDE DEF answer
    <2> DEFINE filing == [deleted |-> answer.deleted, anonymized |-> answer.anonymized]
    <2>2. /\ report' \in [Contexts -> [deleted : Counts, anonymized : Counts]]
          /\ \A d \in Contexts : report'[d] = IF d = c THEN filing ELSE report[d]
      BY <1>2, <1>12, <2>1 DEF TypeOK
    <2>3. /\ \A d \in Contexts : d # c => task'[d] = task[d]
          /\ task'[c] = "done" => ~answer.blocked
          /\ task' \in [Contexts -> {"todo", "done", "blocked", "refused"}]
      BY <1>2, <1>12 DEF TypeOK
    <2>4. TypeOK'
      BY <1>1, <1>2, <1>12, <2>2, <2>3 DEF TypeOK
    <2>5. CompletedMeansErased'
      BY <1>1, <1>7, <2>1, <2>3 DEF SagaInv, Safe, CompletedMeansErased
    <2>6. ReportIsBacked'
      BY <1>1, <2>1, <2>2 DEF SagaInv, Safe, ReportIsBacked
    <2> QED
      BY <1>1, <1>12, <2>4, <2>5, <2>6 DEF ExportIsWhole
  <1> QED
    BY <1>9, <1>10, <1>11, <1>12 DEF Collect, filed

\* A hold that comes in time freezes what is there; one that is lifted
\* freezes nothing.
LEMMA GateKeeps == ASSUME SagaInv, PlaceHold \/ LiftHold PROVE SagaInv'
  <1>1. /\ kind' = kind /\ subject' = subject /\ call' = call /\ late' = late
        /\ task' = task /\ bundle' = bundle /\ report' = report
        /\ rows' = rows /\ deleted' = deleted /\ anonymized' = anonymized
    BY DEF PlaceHold, LiftHold, asked, data, filed
  <1>2. TypeOK
    BY DEF SagaInv, Shape
  <1>3. TypeOK' /\ HoldKeepsRows' /\ Frozen'
    <2>1. CASE PlaceHold
      <3>1. /\ hold' = TRUE
            /\ frozen' = [c \in Contexts |->
                             IF c \in SelfChecking \/ ~Unheld(c) THEN rows[c] ELSE Nil]
        BY <2>1 DEF PlaceHold
      <3>2. \A c \in Contexts : Unheld(c)' <=> Unheld(c)
        BY <1>1 DEF Unheld
      <3> QED
        BY <1>1, <1>2, <3>1, <3>2 DEF TypeOK, HoldKeepsRows, Frozen
    <2>2. CASE LiftHold
      <3>1. hold' = FALSE /\ frozen' = [c \in Contexts |-> Nil]
        BY <2>2 DEF LiftHold
      <3> QED
        BY <1>1, <1>2, <3>1 DEF TypeOK, HoldKeepsRows, Frozen
    <2> QED
      BY <2>1, <2>2
  <1>4. Asked' /\ Answering'
    BY <1>1 DEF SagaInv, Asked, Answering, Of, Truthful, Findable
  <1>5. Safe'
    BY <1>1, <1>3 DEF SagaInv, Safe, CompletedMeansErased, ModeIsFollowed, ReportIsBacked,
                      ExportIsWhole, Findable
  <1> QED
    BY <1>1, <1>3, <1>4, <1>5 DEF SagaInv, Shape

\* The inductive invariant: all the safety properties, what the answers in
\* flight say, and that nothing which would erase is on its way to a frozen
\* context.
THEOREM SagaInvariant == Spec => []SagaInv
  <1>1. ASSUME SagaInv, [Next]_dsarVars
        PROVE  SagaInv'
    <2>1. CASE PlaceHold \/ LiftHold
      BY <1>1, <2>1, GateKeeps
    <2>2. ASSUME NEW c \in Contexts, Step(c)
          PROVE  SagaInv'
      <3>1. CASE Send(c)
        BY <1>1, <3>1, SendKeeps
      <3>2. CASE Timeout(c)
        BY <1>1, <3>2, TimeoutKeeps
      <3>3. CASE Collect(c)
        BY <1>1, <3>3, CollectKeeps
      <3>4. CASE \E answer \in Answers : Serve(c, answer)
        BY <1>1, <3>4, ServeKeeps
      <3>5. CASE \E req \in late[c], answer \in Answers : ServeLate(c, req, answer)
        BY <1>1, <3>5, ServeLateKeeps
      <3> QED
        BY <2>2, <3>1, <3>2, <3>3, <3>4, <3>5 DEF Step
    <2>3. CASE UNCHANGED dsarVars
      <3>1. UNCHANGED <<asked, data, gate, filed>> /\ call' = call /\ late' = late
        BY <2>3 DEF dsarVars
      <3>2. /\ Safe' /\ TypeOK'
            /\ (\A d \in Contexts : rows[d] + deleted[d] + anonymized[d] <= MaxRows)'
            /\ \A a : \A d \in Contexts : Truthful(d, a) <=> Truthful(d, a)'
            /\ \A r : \A d \in Contexts : Of(d, r) <=> Of(d, r)'
        BY <1>1, <3>1, QuietKeeps
      <3>3. hold' = hold /\ frozen' = frozen
        BY <3>1 DEF gate
      <3> QED
        BY <1>1, <3>1, <3>2, <3>3 DEF SagaInv, Shape, Asked, Answering, Frozen, Unheld
    <2> QED
      BY <1>1, <2>1, <2>2, <2>3 DEF Next
  <1> QED
    BY <1>1, InitSaga, PTL DEF Spec

------------------------------------------------------------------------------

\* Every variable keeps its type: no context erases more rows than it has.
THEOREM TypeCorrect == Spec => []TypeOK
  <1>1. SagaInv => TypeOK
    BY DEF SagaInv, Shape
  <1> QED
    BY <1>1, SagaInvariant, PTL

\* An erasure taken for done has left nothing, after any failures, retries
\* and late requests.
THEOREM DoneMeansErased == Spec => []CompletedMeansErased
  <1>1. SagaInv => CompletedMeansErased
    BY DEF SagaInv, Safe
  <1> QED
    BY <1>1, SagaInvariant, PTL

\* A legal hold keeps the rows of every context it came in time for.
THEOREM HeldRowsStay == Spec => []HoldKeepsRows
  <1>1. SagaInv => HoldKeepsRows
    BY DEF SagaInv, Safe
  <1> QED
    BY <1>1, SagaInvariant, PTL

\* Every context erases in the mode the orchestrator gave it, whatever is
\* retried or arrives late.
THEOREM ModesAreFollowed == Spec => []ModeIsFollowed
  <1>1. SagaInv => ModeIsFollowed
    BY DEF SagaInv, Safe
  <1> QED
    BY <1>1, SagaInvariant, PTL

\* What is filed under a context's name happened there.
THEOREM ReportsAreBacked == Spec => []ReportIsBacked
  <1>1. SagaInv => ReportIsBacked
    BY DEF SagaInv, Safe
  <1> QED
    BY <1>1, SagaInvariant, PTL

\* An exported context is in the bundle under its own label, whole.
THEOREM ExportsAreWhole == Spec => []ExportIsWhole
  <1>1. SagaInv => ExportIsWhole
    BY DEF SagaInv, Safe
  <1> QED
    BY <1>1, SagaInvariant, PTL

==============================================================================
