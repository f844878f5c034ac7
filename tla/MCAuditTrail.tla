----------------------------- MODULE MCAuditTrail -----------------------------
(***************************************************************************)
(* Callers that fill in everything, and one that forgets the tenant.  From *)
(* one content of a row to another a key changes, appears or disappears,   *)
(* beside one that stays the same, changes too, or is not there.           *)
(***************************************************************************)
EXTENDS AuditTrail

complete == [tenant |-> "t1", action |-> "update", objectType |-> "lead", service |-> "crm"]

MCContents ==
    {Side(fields) : fields \in {NoFields, [name |-> "v1"], [name |-> "v1", stage |-> "v1"],
                                [name |-> "v2", stage |-> "v1"]}}

MCParams == {complete, [complete EXCEPT !.tenant = ""]}

==============================================================================
