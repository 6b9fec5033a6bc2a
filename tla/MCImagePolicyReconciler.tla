----------------------- MODULE MCImagePolicyReconciler -----------------------
(* Small clusters for ImagePolicyReconciler. *)
EXTENDS ImagePolicyReconciler, TLC

CONSTANTS c1, c2, s1, k1, k2, u1, notAKey

MCKMSKey == u1 :> k1

Inline == <<[kind |-> "data", ref |-> k1]>>
BySecret == <<[kind |-> "secret", ref |-> s1]>>
ByKMSAndSecret ==
    <<[kind |-> "kms", ref |-> u1], [kind |-> "secret", ref |-> s1]>>

InlineSpecs == {Inline}
SecretSpecs == {BySecret, Inline}
MixedSpecs == {Inline, ByKMSAndSecret}

\* A key, a value that is no key, and two data entries in one Secret.
MCSecretData == {{k2}, {notAKey}, {k1, k2}}

FoundMaps == {NoMap, ShippedMap}
UnshippedMaps == {NoMap, EmptyMap}
ShippedOnly == {ShippedMap}
==============================================================================
