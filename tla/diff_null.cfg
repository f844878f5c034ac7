SPECIFICATION Spec
CONSTANTS
    Keys <- MCKeys
    Values <- MCValues
INVARIANTS
    NonObjectsAreErrors
