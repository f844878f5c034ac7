SPECIFICATION Spec
CONSTANTS
    Slots = {s1, s2}
    CMKs = {"platform", "tenant"}
    Platform = "platform"
    Texts = {a, b}
    None = None
    MaxWrites = 2
SYMMETRY MCSymmetry
INVARIANTS
    DecryptedAsSealed
    OldEnvelopesOpen
    NeverPanics
