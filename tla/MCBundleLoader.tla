---------------------------- MODULE MCBundleLoader ----------------------------
(***************************************************************************)
(* Values for checking BundleLoader: two bundles of one version, a bundle  *)
(* of version 0, and blobs that are wrong in each way Reload can notice.   *)
(***************************************************************************)
EXTENDS BundleLoader

CONSTANT Garbage    \* a signed body that does not decode to a bundle

bundle(v, name) == [version |-> v, name |-> name]

MCBundles == {bundle(0, "zero"), bundle(1, "one"), bundle(1, "other"),
              bundle(2, "two"), bundle(5, "five")}

signed(v, body) == [version |-> v, body |-> body, sig |-> canonicalMessage(v, body)]

Good == {signed(0, bundle(0, "zero")), signed(1, bundle(1, "one")),
         signed(1, bundle(1, "other")), signed(2, bundle(2, "two"))}

\* Signed as version 2 although its body says 5; and a body that is no bundle.
Odd == {signed(2, bundle(5, "five")), signed(1, Garbage)}

MCSigned == {blob.sig : blob \in Good \cup Odd}

\* The signatures of other messages on a body and on an envelope version that
\* changed afterwards, and no usable signature at all.
Tampered ==
    {[signed(2, bundle(2, "two")) EXCEPT !.body = bundle(5, "five")],
     [signed(2, bundle(5, "five")) EXCEPT !.version = 5],
     [signed(2, bundle(2, "two")) EXCEPT !.sig = NoSignature]}

MCBlobs == Good \cup Odd \cup Tampered

==============================================================================
