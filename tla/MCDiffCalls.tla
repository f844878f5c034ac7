----------------------------- MODULE MCDiffCalls -----------------------------
(***************************************************************************)
(* Three top-level keys with two encodings each.                           *)
(***************************************************************************)
EXTENDS DiffCalls

MCKeys == {"name", "owner", "status"}

MCValues == {"v1", "null"}

==============================================================================
