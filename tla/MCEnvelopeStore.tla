--------------------------- MODULE MCEnvelopeStore ---------------------------
(***************************************************************************)
(* Two rows are alike, and so are two texts.                               *)
(***************************************************************************)
EXTENDS EnvelopeStore, TLC

MCSymmetry == Permutations(Slots) \cup Permutations(Texts)

==============================================================================
