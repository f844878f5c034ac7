--------------------------- MODULE MonotonicBundle ---------------------------
(***************************************************************************)
(* What the bundle loader promises its readers, apart from how it keeps    *)
(* the promise (go/policy/bundle.go, the comment on Loader): the cached    *)
(* bundle is absent, or one the governance key signed, and it is only ever *)
(* replaced by a signed bundle of a strictly greater version.              *)
(***************************************************************************)
EXTENDS Integers

CONSTANTS
    Genuine,    \* the bundles the governance key has signed
    NoBundle    \* nothing has been loaded yet

VARIABLE cur    \* the bundle readers see

Init == cur = NoBundle

Adopt(bundle) ==
    /\ cur # NoBundle => bundle.version > cur.version
    /\ cur' = bundle

Next == \E bundle \in Genuine : Adopt(bundle)

Spec == Init /\ [][Next]_cur

==============================================================================
