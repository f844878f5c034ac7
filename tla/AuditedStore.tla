----------------------------- MODULE AuditedStore -----------------------------
(***************************************************************************)
(* What go/audit is for: a store in which every change of an object and    *)
(* its record in an immutable trail are one step.  The record holds the    *)
(* object before and after the change, in full.                            *)
(***************************************************************************)
EXTENDS Sequences

CONSTANTS ObjectIds, Contents, Absent

VARIABLES
    row,     \* the content of each object, Absent before it is created
    trail    \* the records, oldest first

storeVars == <<row, trail>>

Init ==
    /\ row = [o \in ObjectIds |-> Absent]
    /\ trail = <<>>

Change(o, content) ==
    /\ row' = [row EXCEPT ![o] = content]
    /\ trail' = Append(trail, [object |-> o, from |-> row[o], to |-> content])

Next == \E o \in ObjectIds, content \in Contents \cup {Absent} : Change(o, content)

Spec == Init /\ [][Next]_storeVars

==============================================================================
