----------------------------- MODULE MCSigning -----------------------------
(***************************************************************************)
(* Small instances of Signing: two images, a randomized and a              *)
(* deterministic key, a certificate from the signer's own CA, and Fulcio   *)
(* with an intermediate CA.                                                *)
(***************************************************************************)
EXTENDS Signing

CONSTANTS k1, k2, s1, s2, p1, p2

TheCAs == [root |-> "root", inter |-> "root", own |-> "own"]
TheShards == <<s1, s2>>
TheCT == [ctlog |-> "Active"]

\* --cert of k1, issued by the signer's own CA and valid at time 0 only.
OwnCert == [key |-> k1, sans |-> {"builder"}, issuer |-> "none", nb |-> 0, na |-> 0,
            ca |-> "own", scts |-> {}]

Base == [op |-> "sign", imgs |-> <<"i1">>, ref |-> "file", key |-> k1, tokenCert |-> Nil,
         cert |-> Nil, chain |-> Nil, payload |-> Nil, id |-> Nil, skipSCT |-> FALSE,
         exp |-> TRUE, consent |-> "public", upload |-> TRUE, bundleOut |-> FALSE,
         type |-> "custom", predicate |-> "p", fulcioSCT |-> "embedded"]

Plain      == [Base EXCEPT !.exp = FALSE]
Logged     == [Base EXCEPT !.key = k2]
WithCert   == [Base EXCEPT !.cert = OwnCert, !.chain = <<"own">>]
OtherClaim == [Plain EXCEPT !.payload = [digest |-> "i2", optional |-> << >>]]
Keyless    == [Base EXCEPT !.ref = "none", !.key = Nil, !.id = "alice",
                           !.imgs = <<"i1", "i2">>]
Unlogged   == [Keyless EXCEPT !.consent = "N", !.imgs = <<"i2">>]
Attest     == [Base EXCEPT !.op = "attest", !.key = k2]
AttestFulcio == [Keyless EXCEPT !.op = "attest", !.id = "bob", !.imgs = <<"i1">>]
Printed    == [Attest EXCEPT !.upload = FALSE]
OnPiv      == [Plain EXCEPT !.ref = "sk"]
OnPkcs11   == [Plain EXCEPT !.ref = "pkcs11", !.tokenCert = OwnCert]
WrongToken == [OnPkcs11 EXCEPT !.tokenCert = [OwnCert EXCEPT !.key = k2]]
WrongCert  == [OnPkcs11 EXCEPT !.cert = [OwnCert EXCEPT !.key = k2]]
NoKey      == [Plain EXCEPT !.ref = "none", !.key = Nil]
TwoKeys    == [Base EXCEPT !.ref = "both"]

Blob(b)    == [kind |-> "raw", bytes |-> b]
BlobPlain  == [Plain EXCEPT !.op = "blob", !.imgs = <<Blob("b1")>>, !.bundleOut = TRUE]
BlobKey    == [Base EXCEPT !.op = "blob", !.imgs = <<Blob("b1"), Blob("b2")>>,
                           !.bundleOut = TRUE]
BlobFulcio == [BlobKey EXCEPT !.ref = "none", !.key = Nil, !.id = "alice"]
BlobFiles  == [BlobFulcio EXCEPT !.bundleOut = FALSE, !.imgs = <<Blob("b1")>>]
BlobKeyFiles == [BlobKey EXCEPT !.bundleOut = FALSE, !.key = k2]

Dsse       == [Plain EXCEPT !.op = "dsse"]
ByHeader   == [Keyless EXCEPT !.fulcioSCT = "header", !.imgs = <<"i1">>]
NoSCT      == [ByHeader EXCEPT !.fulcioSCT = "none"]

AllWorkloads ==
    {{Plain, Logged, WithCert, OtherClaim, Keyless, Unlogged, AttestFulcio},
     {OnPiv, OnPkcs11, WrongToken, WrongCert, NoKey, TwoKeys, Attest, Printed},
     {ByHeader, NoSCT, Dsse},
     {BlobPlain, BlobKey, BlobFulcio, BlobFiles, BlobKeyFiles}}
RetryWorkloads == {{Logged, Attest}, {AttestFulcio}}

Slots == Permutations(Procs)
=============================================================================
