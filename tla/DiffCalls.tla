------------------------------- MODULE DiffCalls -------------------------------
(***************************************************************************)
(* Calls of Diff on every pair of operands.                                *)
(***************************************************************************)
EXTENDS AuditDiff

VARIABLES before, after, result

diffVars == <<before, after, result>>

Init ==
    /\ before \in Operands /\ after \in Operands
    /\ result = Failed

Call ==
    /\ result' = Diff(before, after)
    /\ UNCHANGED <<before, after>>

Next == Call

Spec == Init /\ [][Next]_diffVars

------------------------------------------------------------------------------
(* Properties *)

\* "An error is returned if either operand fails to marshal or does not
\* encode to a JSON object" (diff.go 17-18, 91-92).
NonObjectsAreErrors ==
    result.ok => {before.kind, after.kind} \subseteq {"nil", "object"}

==============================================================================
