------------------------------- MODULE Verify -------------------------------
(***************************************************************************)
(* The decisions of cosign verify, verify-attestation and verify-blob:     *)
(* pkg/cosign/verify.go and verifiers.go, cmd/cosign/cli/verify, the SCT   *)
(* checks of fulcioverifier, and pkg/policy/attestation.go.                *)
(*                                                                         *)
(* A raw signature is [key, msg, nonce]: who made it, over what, and the   *)
(* nonce of a randomized scheme.  A certificate is [key, sans, issuer, nb, *)
(* na, ca, scts].  What hangs on an image is [payload, sig, cert, chain,   *)
(* bundle]; sig is Nil for an attestation, whose payload is a DSSE         *)
(* envelope [type, body, sig].  A payload claims a digest and annotations. *)
(* w is the world a command looks at: log, pubs (Rekor keys), api, ct (CT  *)
(* log keys), roots and inters (Fulcio), now.                              *)
(***************************************************************************)
EXTENDS Rekor

CONSTANT Parent       \* the CA above each CA; a root is its own parent

\* ------------------------------------------------------------ signatures
VerifySignature(key, s, msg) == s # Nil /\ s.key = key /\ s.msg = msg

PAE(type, body) == [pae |-> type, body |-> body]

verifyOCISignature(key, sig) == VerifySignature(key, sig.sig, sig.payload)

VerifyEnvelope(key, env) ==
    env.type = "in-toto" /\ VerifySignature(key, env.sig, PAE(env.type, env.body))

verifyOCIAttestation(key, att) == VerifyEnvelope(key, att.payload)

correctAnnotations(wanted, have) ==
    \A k \in DOMAIN wanted : k \in DOMAIN have /\ have[k] = wanted[k]

\* Mutant: the digest in the claim is not compared.
AnnotationsOnly(sig, h, annotations) ==
    annotations # Nil => correctAnnotations(annotations, sig.payload.optional)

SimpleClaimVerifier(sig, h, annotations) ==
    /\ sig.payload.digest = h
    /\ annotations # Nil => correctAnnotations(annotations, sig.payload.optional)

IntotoSubjectClaimVerifier(att, h) == h \in att.payload.body.subjects

\* ---------------------------------------------------------- certificates
CheckExpiry(cert, t) == t <= cert.na /\ cert.nb <= t

\* The CAs from the issuer of a certificate up to a root, through the pools.
Issuers(ca, inters) ==
    IF Parent[ca] # ca /\ ca \in inters THEN <<ca, Parent[ca]>> ELSE <<ca>>

\* The certificate is looked at as of its own NotBefore, never as of now.
TrustedCert(cert, roots, inters, now) ==
    Last(Issuers(cert.ca, inters)) \in roots /\ CheckExpiry(cert, cert.nb)

createLeaf(cert, chain, sct, embedded) ==
    IF embedded /\ (sct \notin cert.scts \/ chain = << >>) THEN Nil
    ELSE IF embedded THEN "precert" ELSE "x509"

\* ctutil.VerifySCT: the log of that key signed this (pre)certificate.
VerifySCTWithVerifier(pub, cert, chain, sct, embedded) ==
    sct.log = pub /\ sct.type = createLeaf(cert, chain, sct, embedded)

ContainsSCT(cert) == cert.scts # {}

\* Embedded SCTs must all verify; else the SCT of Fulcio's answer must.
VerifySCT(cert, chain, raw, ct) ==
    /\ DOMAIN ct # {}
    /\ chain # << >>
    /\ IF ContainsSCT(cert)
       THEN \A s \in cert.scts : /\ s.log \in DOMAIN ct
                                 /\ VerifySCTWithVerifier(s.log, cert, chain, s, TRUE)
       ELSE /\ raw # Nil
            /\ raw.log \in DOMAIN ct
            /\ VerifySCTWithVerifier(raw.log, cert, chain, raw, FALSE)

VerifyEmbeddedSCT(cert, chain, ct) == VerifySCT(cert, chain, Nil, ct)

\* A pattern is Nil (anything) or the set of strings it matches.
Matches(pattern, strings) == pattern = Nil \/ strings \cap pattern # {}

IdentityMatches(id, cert) ==
    Matches(id.issuer, {cert.issuer}) /\ Matches(id.subject, cert.sans)

\* The first identity that matches decides, unless a malformed one comes first.
IdentitiesAccept(ids, cert) ==
    \E i \in DOMAIN ids :
        /\ \A j \in 1 .. i : ~ids[j].malformed
        /\ IdentityMatches(ids[i], cert)

\* The certificate's key when it may be used, Nil otherwise.
ValidateAndUnpackCert(cert, co, w) ==
    IF /\ TrustedCert(cert, co.roots, co.inters, w.now)
       /\ co.email # Nil => co.email \in cert.sans
       /\ co.issuer # Nil => cert.issuer = co.issuer
       /\ IF co.identities # << >>
          THEN IdentitiesAccept(co.identities, cert)
          ELSE /\ co.sct => ContainsSCT(cert)
               /\ ContainsSCT(cert) =>
                      VerifyEmbeddedSCT(cert, Issuers(cert.ca, co.inters), w.ct)
    THEN cert.key ELSE Nil

ValidateAndUnpackCertWithChain(cert, chain, co, w) ==
    IF chain = << >> THEN Nil
    ELSE ValidateAndUnpackCert(cert,
            [co EXCEPT !.roots = {Last(chain)}, !.inters = ToSet(Front(chain))], w)

\* The chain annotation without its root; the pool of co is replaced by it.
Intermediates(chain) == IF Len(chain) <= 1 THEN {} ELSE ToSet(Front(chain))

\* The key to check with: the one given, or that of an acceptable certificate.
VerifierOf(sig, co, w) ==
    IF co.key # Nil THEN co.key
    ELSE IF sig.cert = Nil THEN Nil
    ELSE ValidateAndUnpackCert(sig.cert, [co EXCEPT !.inters = Intermediates(sig.chain)], w)

\* ----------------------------------------------------------- transparency
tlogValidatePublicKey(key, sig, w) ==
    FindTlogEntry(w.log, sig.sig, sig.payload, KeyPEM(key)) # Nil

\* Mutant: the certificate may have expired before the entry was made.
LoggedAnyTime(sig, w) ==
    LET e == FindTlogEntry(w.log, sig.sig, sig.payload, CertPEM(sig.cert))
    IN  e # Nil /\ VerifyTLogEntry(w.log, w.pubs, w.api, e)

tlogValidateCertificate(sig, w) ==
    LET e == FindTlogEntry(w.log, sig.sig, sig.payload, CertPEM(sig.cert))
    IN  /\ e # Nil
        /\ VerifyTLogEntry(w.log, w.pubs, w.api, e)
        /\ CheckExpiry(sig.cert, e.time)

\* Both read the entry as the kind that the signature being verified implies.
bundleSig(body) == body.sig
bundleHash(body, s) == IF (s = Nil) = (body.kind = "intoto") THEN body.hash ELSE Nil

\* Without a signature of its own this is an attestation: nothing to compare.
compareSigs(body, s) ==
    \/ s = Nil
    \/ body.kind = "hashedrekord" /\ bundleSig(body) \in {Nil, s}

\* "ok", "none" (no bundle, or one for another payload: no error), "error".
VerifyBundle(sig, w) ==
    LET b == sig.bundle IN
    IF b = Nil THEN "none"
    ELSE IF ~compareSigs(b.body, sig.sig) \/ ~KeyAccepts(w.pubs, b) THEN "error"
    ELSE IF sig.cert = Nil THEN "ok"
    ELSE IF \/ ~CheckExpiry(sig.cert, b.time)
            \/ bundleHash(b.body, sig.sig) = Nil THEN "error"
    ELSE IF bundleHash(b.body, sig.sig) # Sha256(sig.payload) THEN "none"
    ELSE "ok"

\* Mutant: offline, a bad bundle is as good as none.
BadBundleIgnored(sig, co, w) ==
    \/ VerifyBundle(sig, w) = "ok"
    \/ ~co.rekor
    \/ co.rekor /\ IF co.key # Nil THEN tlogValidatePublicKey(co.key, sig, w)
                                   ELSE tlogValidateCertificate(sig, w)

\* Offline a bad bundle refuses the signature; online the log is asked.
InLog(sig, co, w) ==
    \/ VerifyBundle(sig, w) = "ok"
    \/ ~co.rekor /\ VerifyBundle(sig, w) = "none"
    \/ co.rekor /\ IF co.key # Nil THEN tlogValidatePublicKey(co.key, sig, w)
                                   ELSE tlogValidateCertificate(sig, w)

VerifyImageSignature(sig, h, co, w) ==
    LET key == VerifierOf(sig, co, w)
    IN  /\ key # Nil
        /\ verifyOCISignature(key, sig)
        /\ co.claims => SimpleClaimVerifier(sig, h, co.annotations)
        /\ InLog(sig, co, w)

verifyImageAttestation(att, h, co, w) ==
    LET key == VerifierOf(att, co, w)
    IN  /\ key # Nil
        /\ verifyOCIAttestation(key, att)
        /\ co.claims => IntotoSubjectClaimVerifier(att, h)
        /\ InLog(att, co, w)

\* [checked, bundle]: the good ones, and whether some bundle was verified.
verifySignatures(sigs, h, co, w) ==
    LET checked == {s \in sigs : VerifyImageSignature(s, h, co, w)}
    IN  [checked |-> checked,
         bundle  |-> \E s \in checked : VerifyBundle(s, w) = "ok"]

verifyImageAttestations(atts, h, co, w) ==
    LET checked == {a \in atts : verifyImageAttestation(a, h, co, w)}
    IN  [checked |-> checked,
         bundle  |-> \E a \in checked : VerifyBundle(a, w) = "ok"]

Refused == [checked |-> {}, bundle |-> FALSE]

\* --signature: one signature over the payload cosign itself would write.
loadSignatureFromFile(s, h) ==
    {[payload |-> [digest |-> h, optional |-> << >>], sig |-> s, cert |-> Nil,
      chain |-> << >>, bundle |-> Nil]}

VerifyImageSignatures(sigs, h, co, w) ==
    IF co.roots = {} /\ co.key = Nil THEN Refused
    ELSE verifySignatures(IF co.sigRef = Nil THEN sigs
                          ELSE loadSignatureFromFile(co.sigRef, h), h, co, w)

VerifyImageAttestations(atts, h, co, w) ==
    IF co.roots = {} /\ co.key = Nil THEN Refused
    ELSE verifyImageAttestations(atts, h, co, w)

\* ---------------------------------------------------- the verify commands
\* How many of the flags are given: options.NOf, options.OneOf.
NOf(flags) == Cardinality({i \in DOMAIN flags : flags[i] # Nil})

\* c: key, sk, cert (flags), chain, exp, url, claims, annotations, email, ...
CheckOptsOf(c, w) ==
    LET base == [key |-> Nil, claims |-> c.claims, annotations |-> c.annotations,
                 email |-> c.email, issuer |-> c.issuer, sct |-> c.sct,
                 identities |-> << >>, sigRef |-> c.sigRef,
                 rekor |-> c.exp /\ c.url, inters |-> {},
                 roots |-> IF c.exp THEN w.roots ELSE {}]
    IN  CASE c.key # Nil -> [base EXCEPT !.key = c.key]
          [] c.key = Nil /\ c.sk # Nil -> [base EXCEPT !.key = c.sk]
          [] c.key = Nil /\ c.sk = Nil /\ c.cert # Nil ->
                IF c.chain = Nil THEN [base EXCEPT !.key = c.cert.key]
                ELSE LET k == ValidateAndUnpackCertWithChain(c.cert, c.chain, base, w)
                     IN  IF k = Nil THEN Nil ELSE [base EXCEPT !.key = k]
          [] OTHER -> base

FlagsAllowed(c) == NOf(<<c.key, c.sk, c.cert>>) = 1 \/ c.exp

VerifyCommand(c, sigs, h, w) ==
    IF ~FlagsAllowed(c) \/ CheckOptsOf(c, w) = Nil THEN Refused
    ELSE VerifyImageSignatures(sigs, h, CheckOptsOf(c, w), w)

\* A policy is the set of predicates it admits.  An attestation of another
\* predicate type yields no payload and is skipped.
AttestationToPayloadJSON(type, att) ==
    IF att.payload.body.type = type THEN att.payload.body.predicate ELSE Nil

VerifyAttestationCommand(c, atts, h, w) ==
    IF ~FlagsAllowed(c) \/ CheckOptsOf(c, w) = Nil THEN Refused
    ELSE LET r == VerifyImageAttestations(atts, h, CheckOptsOf(c, w), w)
             payloads == {AttestationToPayloadJSON(c.type, a) : a \in r.checked} \ {Nil}
         IN  IF \E p \in payloads, policy \in c.policies : p \notin policy
             THEN Refused ELSE r
=============================================================================
