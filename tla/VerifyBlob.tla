----------------------------- MODULE VerifyBlob -----------------------------
(***************************************************************************)
(* cosign verify-blob (cmd/cosign/cli/verify/verify_blob.go).  b is the    *)
(* command line: key, sk, cert, chain, sig (the signature file), bundle    *)
(* (the bundle file: [sig, cert, bundle], whose cert is the PEM of a       *)
(* certificate or key, or Nil), exp, email, issuer, sct.  A signature file *)
(* may hold the signature as it is or in base64: both decode to the same   *)
(* signature.                                                              *)
(***************************************************************************)
EXTENDS Verify

\* The signature file, else the signature in the bundle file, else an error.
signatures(b) ==
    IF b.sig # Nil THEN b.sig ELSE IF b.bundle # Nil THEN b.bundle.sig ELSE Nil

isIntotoDSSE(blob) == blob.kind = "in-toto envelope"

\* The DSSE verifier reads the envelope itself from the signature file.
VerifyBlobSignature(key, s, blob) ==
    IF isIntotoDSSE(blob) THEN "body" \in DOMAIN s /\ VerifyEnvelope(key, s)
    ELSE VerifySignature(key, s, blob)

verifyRekorBundle(file, cert, w) ==
    /\ file.bundle # Nil
    /\ KeyAccepts(w.pubs, file.bundle)
    /\ cert # Nil => CheckExpiry(cert, file.bundle.time)

\* Mutant: the log is always searched by public key.
SearchByKey(b, e, key, cert, s, blob, w) ==
    \/ b.bundle # Nil /\ verifyRekorBundle(b.bundle, cert, w)
    \/ ~b.exp
    \/ LET entry == IF e # Nil THEN e ELSE FindTlogEntry(w.log, s, blob, KeyPEM(key))
       IN  entry # Nil /\ (cert # Nil => CheckExpiry(cert, entry.time))

\* e is the entry already at hand, or Nil: then the log is searched.
verifyRekorEntry(b, e, key, cert, s, blob, w) ==
    \/ b.bundle # Nil /\ verifyRekorBundle(b.bundle, cert, w)
    \/ ~b.exp
    \/ LET entry == IF e # Nil THEN e
                    ELSE FindTlogEntry(w.log, s, blob,
                         IF cert # Nil THEN CertPEM(cert) ELSE KeyPEM(key))
       IN  /\ entry # Nil
           /\ VerifyTLogEntry(w.log, w.pubs, w.api, entry) /\ cert # Nil
                  => CheckExpiry(cert, entry.time)

\* The certificate of an entry, Nil when it holds a key or is an attestation.
extractCerts(e) ==
    IF e.body.kind = "hashedrekord" THEN e.body.pub.cert ELSE Nil

BlobCheckOpts(b, roots, inters) ==
    [roots |-> roots, inters |-> inters, email |-> b.email, issuer |-> b.issuer,
     sct |-> b.sct, identities |-> << >>]

verifySigByUUID(b, s, uuids, blob, w) ==
    \E u \in uuids :
        LET e    == GetTlogEntry(w.log, u)
            cert == IF e = Nil THEN Nil ELSE extractCerts(e)
            key  == IF cert = Nil THEN Nil
                    ELSE ValidateAndUnpackCert(cert, BlobCheckOpts(b, w.roots, w.inters), w)
        IN  /\ key # Nil
            /\ VerifyBlobSignature(key, s, blob)
            /\ verifyRekorEntry(b, e, key, cert, s, blob, w)

\* [key, cert] to check with, key Nil when there is none: the switch on flags.
BlobVerifier(b, w) ==
    IF b.key # Nil THEN [key |-> b.key, cert |-> Nil]
    ELSE IF b.sk # Nil THEN [key |-> b.sk, cert |-> Nil]
    ELSE IF b.cert # Nil
    THEN [cert |-> b.cert,
          key  |-> IF b.chain = Nil THEN b.cert.key
                   ELSE ValidateAndUnpackCertWithChain(b.cert, b.chain,
                                                       BlobCheckOpts(b, {}, {}), w)]
    ELSE IF b.bundle.cert = Nil THEN [key |-> Nil, cert |-> Nil]
    ELSE IF b.bundle.cert.cert # Nil
    THEN [key |-> b.bundle.cert.cert.key, cert |-> b.bundle.cert.cert]
    ELSE b.bundle.cert

VerifyBlobCmd(b, blob, w) ==
    /\ NOf(<<b.key, b.sk, b.cert>>) = 1 \/ b.exp \/ b.bundle # Nil
    /\ LET s == signatures(b) IN
       /\ s # Nil
       /\ IF NOf(<<b.key, b.sk, b.cert, b.bundle>>) = 0
          THEN verifySigByUUID(b, s, FindTLogEntriesByPayload(w.log, blob), blob, w)
          ELSE LET v == BlobVerifier(b, w)
               IN  /\ v.key # Nil
                   /\ VerifyBlobSignature(v.key, s, blob)
                   /\ verifyRekorEntry(b, Nil, v.key, v.cert, s, blob, w)
=============================================================================
