---------------------------- MODULE MCPolicyService ----------------------------
(***************************************************************************)
(* Values for checking PolicyService: the policies of MCPolicies signed, a *)
(* second one of version 2 and one of version 0, one never signed, and     *)
(* blobs that are wrong in each way Reload can notice.                     *)
(***************************************************************************)
EXTENDS PolicyService, MCPolicies

CONSTANT Garbage    \* a signed body that does not decode to a bundle

Versioned == {p \in Policies : p.version > 0}
             \cup {policy(2, ownRecord({"update"}), "ENABLED"),
                   policy(0, anyRecord({"read", "update"}), "ENABLED")}

unsigned == policy(9, anyRecord({"read", "update"}), "ENABLED")

MCBundles == Versioned \cup {unsigned}

signed(v, body) == [version |-> v, body |-> body, sig |-> <<v, body>>]

\* Signed as version 2 although its body says 9; and a body that is no bundle.
Odd == {signed(2, unsigned), signed(1, Garbage)}

Good == {signed(p.version, p) : p \in Versioned}

MCSigned == {blob.sig : blob \in Good \cup Odd}

\* A signature of another body or version, and no usable signature at all.
Tampered ==
    {[signed(9, unsigned) EXCEPT !.sig = <<2, unsigned>>],
     [signed(9, unsigned) EXCEPT !.sig = NoSignature]}

MCBlobs == Good \cup Odd \cup Tampered

ServiceRequests ==
    {r \in FewDecideRequests : r.risk = "LOW" /\ ~r.approved}

ServiceRecordRequests == {r \in FewRecordRequests : r.verb = "update"}

ServiceCanRequests == {r \in FewRequests : r.verb = "update"}

==============================================================================
