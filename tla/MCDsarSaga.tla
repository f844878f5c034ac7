------------------------------ MODULE MCDsarSaga ------------------------------
(***************************************************************************)
(* A CRM that gets no mode, and has enough rows for an erasure to fail     *)
(* halfway; and billing, which must anonymize.                             *)
(***************************************************************************)
EXTENDS DsarSaga

MCModeOf == [c \in Contexts |-> IF c = "billing" THEN "anonymize" ELSE ""]

\* With 1 row left of 2, crm is halfway through.
MCHoldings == {r \in [Contexts -> 0..MaxRows] : r["crm"] # 1 /\ r["billing"] <= 1}

==============================================================================
