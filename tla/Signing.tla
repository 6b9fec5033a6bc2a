------------------------------ MODULE Signing ------------------------------
(***************************************************************************)
(* cosign sign, attest and sign-blob from the key to the published         *)
(* signature: cmd/cosign/cli/sign, cmd/cosign/cli/attest, the signers of   *)
(* internal/pkg/cosign and the Fulcio client, against a transparency log   *)
(* that may answer late or not at all while time passes and the log moves  *)
(* to a new key.  How signatures are merged in the registry is modelled in *)
(* Registry; here a signature that is written is published for good.       *)
(*                                                                         *)
(* A command line is a record: op, imgs (images or blobs, in order), ref   *)
(* ("file", "pkcs11", "sk", "both" or "none": keyless), key, tokenCert,    *)
(* cert, chain, payload (--payload or Nil), id, skipSCT, exp, consent,     *)
(* upload, bundleOut.                                                      *)
(***************************************************************************)
EXTENDS VerifyBlob

CONSTANTS Procs,          \* slots in which users run commands
          Workloads,      \* sets of command lines that run side by side
          Deterministic,  \* keys whose signatures carry no nonce
          Shards,         \* the signing keys of the log, in the order of their use
          CTLogs,         \* trusted CT logs and their status
          Fulcio,         \* the CA that issues keyless certificates
          Roots,          \* trusted Fulcio roots
          Life,           \* how long a keyless certificate is valid
          MaxTime, MaxTries, MaxFaults

VARIABLES now,        \* the time
          log,        \* the entries of the transparency log
          shard,      \* the index of the key the log signs with
          proc,       \* what runs in each slot
          tokens,     \* slots that hold an open hardware token
          published,  \* [img, obj, cmd]: signatures and attestations in the registry
          files,      \* what each slot's output files hold
          signed,     \* history: [key, msg, id, time] of every signature made
          faults      \* calls that have failed

vars == <<now, log, shard, proc, tokens, published, files, signed, faults>>

World == [log |-> log, now |-> now, api |-> Nil, ct |-> CTLogs, roots |-> Roots,
          inters |-> {Fulcio},
          pubs |-> GetRekorPubs([k \in {Shards[i] : i \in 1 .. shard} |->
                                   IF k = Shards[shard] THEN "Active" ELSE "Expired"], Nil)]

Idle == [pc |-> "idle", cmd |-> Nil, todo |-> << >>, try |-> 0, sv |-> Nil, obj |-> Nil]

Init == /\ now = 0 /\ log = << >> /\ shard = 1
        /\ proc = [p \in Procs |-> Idle]
        /\ tokens = {} /\ published = {} /\ signed = {} /\ faults = 0
        /\ files = [p \in Procs |-> Nil]

Commands == UNION Workloads

\* -------------------------------------------------------------- the signer
KeyFlags(c) == CASE c.ref = "none" -> 0 [] c.ref = "both" -> 2 [] OTHER -> 1

\* sign and attest refuse two keys always, and none unless experimental;
\* sign-blob looks at the flags only when it is not experimental.
KeyFlagsAllowed(c) ==
    IF c.exp THEN KeyFlags(c) <= 1 \/ c.op = "blob" ELSE KeyFlags(c) = 1

OnToken(c) == c.ref \in {"pkcs11", "sk", "both"}

\* [ok, cert, chain]: an error after the token was opened leaves it open,
\* unless it is about the token's own certificate.
SignerVerifier(ok, cert, chain) == [ok |-> ok, cert |-> cert, chain |-> chain]
Refuse == SignerVerifier(FALSE, Nil, << >>)

signerFromSecurityKey(c) == SignerVerifier(TRUE, c.tokenCert, << >>)

TokenCertMismatch(c) ==
    c.ref = "pkcs11" /\ c.tokenCert # Nil /\ c.tokenCert.key # c.key

signerFromKeyRef(c) ==
    LET leaf == IF c.cert # Nil THEN c.cert ELSE c.tokenCert IN
    IF \/ TokenCertMismatch(c)
       \/ c.cert # Nil /\ c.cert.key # c.key
       \/ c.chain # Nil /\ (leaf = Nil \/ c.chain = << >>)
    THEN Refuse
    ELSE IF c.chain = Nil THEN SignerVerifier(TRUE, leaf, << >>)
    ELSE IF /\ TrustedCert(leaf, {Last(c.chain)}, ToSet(Front(c.chain)), now)
            /\ ContainsSCT(leaf) => VerifyEmbeddedSCT(leaf, c.chain, CTLogs)
    THEN SignerVerifier(TRUE, leaf, c.chain) ELSE Refuse

EphemeralKey(p) == <<p, proc[p].try, Len(proc[p].todo)>>

\* Fulcio certifies a fresh key for the identity that logged in.
FulcioCert(p) ==
    LET sct == {[log |-> CHOOSE l \in DOMAIN CTLogs : TRUE, type |-> "precert"]}
    IN  [key |-> EphemeralKey(p), sans |-> {proc[p].cmd.id}, issuer |-> "idp",
         nb |-> now, na |-> now + Life, ca |-> Fulcio,
         scts |-> IF proc[p].cmd.fulcioSCT = "embedded" THEN sct ELSE {}]

FulcioHeader(p) ==
    IF proc[p].cmd.fulcioSCT = "header" THEN [log |-> CHOOSE l \in DOMAIN CTLogs : TRUE, type |-> "x509"]
    ELSE Nil

keylessSigner(p) ==
    LET cert  == FulcioCert(p)
        chain == <<Fulcio, Parent[Fulcio]>>
    IN  IF proc[p].cmd.skipSCT \/ VerifySCT(cert, chain, FulcioHeader(p), CTLogs)
        THEN SignerVerifier(TRUE, cert, chain) ELSE Refuse

SignerFromKeyOpts(p) ==
    LET c == proc[p].cmd IN
    CASE c.ref \in {"sk", "both"} -> signerFromSecurityKey(c)
      [] c.ref \in {"file", "pkcs11"} -> signerFromKeyRef(c)
      [] OTHER -> keylessSigner(p)

SigningKey(p) == IF proc[p].cmd.ref = "none" THEN proc[p].sv.cert.key ELSE proc[p].cmd.key

\* ------------------------------------------------------------- the steps
Goto(p, pc) == proc' = [proc EXCEPT ![p].pc = pc]

\* Mutant: an error path that forgets to close the token.
FailOpen(p) == Goto(p, "failed") /\ UNCHANGED tokens

\* A command ends with an error; the deferred Close runs once it has a signer.
Fail(p) == /\ Goto(p, "failed")
           /\ tokens' = IF proc[p].sv # Nil THEN tokens \ {p} ELSE tokens

Begin(c, try) ==
    [pc |-> IF KeyFlagsAllowed(c) THEN "signer" ELSE "failed", cmd |-> c,
     todo |-> c.imgs, try |-> try, sv |-> Nil, obj |-> Nil]

\* Which commands run side by side is bounded by the workloads.
Start(p, c) ==
    /\ proc[p].pc = "idle"
    /\ \E w \in Workloads : {c} \cup {proc[q].cmd : q \in Procs} \subseteq w \cup {Nil}
    /\ proc' = [proc EXCEPT ![p] = Begin(c, 1)]
    /\ UNCHANGED <<now, log, shard, tokens, published, files, signed, faults>>

\* The user runs a failed command again.
Retry(p) ==
    /\ proc[p].pc = "failed"
    /\ KeyFlagsAllowed(proc[p].cmd)
    /\ proc[p].try < MaxTries
    /\ proc' = [proc EXCEPT ![p] = Begin(proc[p].cmd, proc[p].try + 1)]
    /\ tokens' = tokens \ {p}
    /\ UNCHANGED <<now, log, shard, published, files, signed, faults>>

GetSigner(p) ==
    /\ proc[p].pc = "signer"
    /\ LET sv == SignerFromKeyOpts(p) IN
       /\ proc' = [proc EXCEPT ![p].sv = IF sv.ok THEN sv ELSE Nil,
                               ![p].pc = IF sv.ok THEN "sign" ELSE "failed"]
       /\ tokens' = IF OnToken(proc[p].cmd) /\ ~TokenCertMismatch(proc[p].cmd)
                    THEN tokens \cup {p} ELSE tokens
    /\ UNCHANGED <<now, log, shard, published, files, signed, faults>>

\* A randomized scheme never makes the same signature twice.
SignMessage(p, msg) ==
    [key |-> SigningKey(p), msg |-> msg,
     nonce |-> IF SigningKey(p) \in Deterministic THEN Nil ELSE EphemeralKey(p)]

\* The payload of sign: --payload, or the image's digest and annotations.
CosignPayload(c, img) ==
    IF c.payload # Nil THEN c.payload ELSE [digest |-> img, optional |-> << >>]

\* payload.Sign inside fulcio.Sign, or the wrapped DSSE signer of attest.
ImageSignature(p, img) ==
    LET payload == CosignPayload(proc[p].cmd, img)
    IN  [payload |-> payload, sig |-> SignMessage(p, payload),
         cert |-> proc[p].sv.cert, chain |-> proc[p].sv.chain, bundle |-> Nil]

Statement(c, img) == [type |-> c.type, subjects |-> {img}, predicate |-> c.predicate]

Attestation(p, img) ==
    LET body == Statement(proc[p].cmd, img)
    IN  [payload |-> [type |-> "in-toto", body |-> body,
                      sig |-> SignMessage(p, PAE("in-toto", body))],
         sig |-> Nil, cert |-> proc[p].sv.cert, chain |-> proc[p].sv.chain,
         bundle |-> Nil]

\* payloadAttestor.DSSEAttest puts the PAE it signs into the envelope.
DSSEAttest(p, img) ==
    LET pae == PAE("in-toto", Statement(proc[p].cmd, img))
    IN  [Attestation(p, img) EXCEPT
           !.payload = [type |-> "in-toto", body |-> pae, sig |-> SignMessage(p, pae)]]

BlobSignature(p, blob) ==
    [payload |-> blob, sig |-> SignMessage(p, blob), cert |-> proc[p].sv.cert,
     chain |-> << >>, bundle |-> Nil]

NewObject(p, img) ==
    CASE proc[p].cmd.op = "sign" -> ImageSignature(p, img)
      [] proc[p].cmd.op = "attest" -> Attestation(p, img)
      [] proc[p].cmd.op = "dsse" -> DSSEAttest(p, img)
      [] proc[p].cmd.op = "blob" -> BlobSignature(p, img)

\* consent: "force", "public" (readable without credentials), "Y" or "N".
ShouldUploadToTlog(c) ==
    c.exp /\ (c.op = "blob" \/ c.consent \in {"force", "public", "Y"})

\* attest --no-upload prints the envelope and asks neither log nor registry.
Sign(p) ==
    /\ proc[p].pc = "sign"
    /\ LET c   == proc[p].cmd
           img == Head(proc[p].todo)
           obj == NewObject(p, img)
           raw == IF obj.sig # Nil THEN obj.sig ELSE obj.payload.sig
       IN  /\ proc' = [proc EXCEPT ![p].obj = obj,
                                   ![p].pc = IF c.op = "attest" /\ ~c.upload THEN "write"
                                             ELSE IF ShouldUploadToTlog(c) THEN "upload"
                                             ELSE "write"]
           /\ signed' = signed \cup {[key |-> raw.key, msg |-> raw.msg, id |-> c.id,
                                      time |-> now]}
    /\ UNCHANGED <<now, log, shard, tokens, published, files, faults>>

\* The certificate if there is one, else the public key: SignerVerifier.Bytes.
Bytes(p) == IF proc[p].sv.cert # Nil THEN CertPEM(proc[p].sv.cert)
            ELSE KeyPEM(SigningKey(p))

Proposed(p) == proposedEntry(proc[p].obj.sig, proc[p].obj.payload, Bytes(p))

\* mutate.WithBundle on the signature at hand.
AttachBundle(p, e) ==
    proc' = [proc EXCEPT ![p].obj.bundle = EntryToBundle(e), ![p].pc = "write"]

\* CreateLogEntry.  The server refuses a body it holds already; its answer may
\* come without verification material, or not at all.
UploadNew(p) ==
    /\ proc[p].pc = "upload"
    /\ GetTlogEntry(log, Proposed(p)) = Nil
    /\ LET e == LogEntry(Proposed(p), now, Shards[shard]) IN
       /\ log' = Append(log, e)
       /\ \/ AttachBundle(p, e) /\ UNCHANGED <<tokens, faults>>
          \/ /\ faults < MaxFaults
             /\ faults' = faults + 1
             /\ \/ AttachBundle(p, [e EXCEPT !.set = Nil]) /\ UNCHANGED tokens
                \/ Fail(p)
    /\ UNCHANGED <<now, shard, published, files, signed>>

\* Mutant: an entry that exists already is an error like any other.
ConflictFails(p) ==
    /\ proc[p].pc = "upload"
    /\ GetTlogEntry(log, Proposed(p)) # Nil
    /\ Fail(p)
    /\ UNCHANGED <<now, log, shard, published, files, signed, faults>>

\* The conflict names the entry; it is fetched and checked.
UploadConflict(p) ==
    /\ proc[p].pc = "upload"
    /\ LET e == GetTlogEntry(log, Proposed(p)) IN
       /\ e # Nil
       /\ IF VerifyTLogEntry(log, World.pubs, World.api, e)
          THEN AttachBundle(p, e) /\ UNCHANGED tokens
          ELSE Fail(p)
    /\ UNCHANGED <<now, log, shard, published, files, signed, faults>>

\* What sign-blob writes: without experimental mode no key or certificate.
BlobFile(p) ==
    [blob |-> Head(proc[p].todo), sig |-> proc[p].obj.sig,
     cert |-> IF proc[p].cmd.exp THEN Bytes(p) ELSE Nil,
     bundle |-> IF proc[p].cmd.bundleOut THEN proc[p].obj.bundle ELSE Nil]

\* The next image with the same signer, or the next run of sign-blob or attest.
Next1(p) ==
    LET rest == Tail(proc[p].todo)
        last == rest = << >>
        keep == proc[p].cmd.op = "sign" /\ ~last
    IN  /\ proc' = [proc EXCEPT ![p].todo = rest, ![p].obj = Nil,
                                ![p].sv = IF keep THEN @ ELSE Nil,
                                ![p].pc = IF last THEN "done"
                                          ELSE IF keep THEN "sign" ELSE "signer"]
        /\ tokens' = IF keep THEN tokens ELSE tokens \ {p}

Write(p) ==
    /\ proc[p].pc = "write"
    /\ LET c == proc[p].cmd IN
       /\ published' = IF c.op # "blob" /\ c.upload
                       THEN published \cup {[img |-> Head(proc[p].todo),
                                             obj |-> proc[p].obj, cmd |-> c]}
                       ELSE published
       /\ files' = IF c.op = "blob" THEN [files EXCEPT ![p] = BlobFile(p)]
                   ELSE IF c.op = "sign" THEN [files EXCEPT ![p] = proc[p].obj.sig]
                   ELSE files
    /\ Next1(p)
    /\ UNCHANGED <<now, log, shard, signed, faults>>

\* A call is refused, times out before it has an effect, or a file is not written.
CallFails(p) ==
    /\ proc[p].pc \in {"signer", "sign", "upload", "write"}
    /\ faults < MaxFaults
    /\ faults' = faults + 1
    /\ Fail(p)
    /\ UNCHANGED <<now, log, shard, published, files, signed>>

Tick == /\ now < MaxTime
        /\ now' = now + 1
        /\ UNCHANGED <<log, shard, proc, tokens, published, files, signed, faults>>

\* The log signs with its next key; the TUF targets mark the old one expired.
RotateLog == /\ shard < Len(Shards)
             /\ shard' = shard + 1
             /\ UNCHANGED <<now, log, proc, tokens, published, files, signed, faults>>

Step(p) == GetSigner(p) \/ Sign(p) \/ UploadNew(p) \/ UploadConflict(p) \/ Write(p)

Next == \/ \E p \in Procs : \/ \E c \in Commands : Start(p, c)
                            \/ Retry(p) \/ Step(p) \/ CallFails(p)
        \/ Tick \/ RotateLog

Spec == Init /\ [][Next]_vars

\* A started command goes on, and a user who sees it fail runs it again.
FairSpec == Spec /\ \A p \in Procs : WF_vars(Step(p)) /\ WF_vars(Retry(p))

\* ------------------------------------------------------------- properties
KeyOf(obj) == IF obj.sig # Nil THEN obj.sig.key ELSE obj.payload.sig.key

\* The entry that the log should hold for a published signature.
BodyOf(obj) == proposedEntry(obj.sig, obj.payload,
                  IF obj.cert # Nil THEN CertPEM(obj.cert) ELSE KeyPEM(KeyOf(obj)))

Entries(obj) == {e \in ToSet(log) : e.body = BodyOf(obj)}

Timely(obj) == \A e \in Entries(obj) : obj.cert # Nil => CheckExpiry(obj.cert, e.time)

\* verify --key k, or (k = Nil) verify --cert-email id, with claims checked.
VerifyLine(k, id, exp) ==
    [key |-> k, sk |-> Nil, cert |-> Nil, chain |-> Nil, exp |-> exp, url |-> TRUE,
     claims |-> TRUE, annotations |-> Nil, email |-> id, issuer |-> Nil,
     sct |-> FALSE, sigRef |-> Nil, type |-> "custom", policies |-> {}]

Accepts(v, r, img) ==
    IF r.cmd.op = "sign" THEN VerifyCommand(v, {r.obj}, img, World).checked # {}
    ELSE VerifyAttestationCommand(v, {r.obj}, img, World).checked # {}

ClaimedImage(r) == IF r.cmd.op = "sign" THEN r.obj.payload.digest ELSE r.img

VerifyLines ==
    {VerifyLine(k, Nil, exp) : k \in {c.key : c \in Commands} \ {Nil}, exp \in BOOLEAN}
        \cup {VerifyLine(Nil, c.id, TRUE) : c \in {x \in Commands : x.id # Nil}}

\* A bundle that is published with a signature is the log's entry for exactly
\* that signature, payload and certificate or key, whether the upload created
\* the entry or, after a lost answer, met it in a conflict (doUpload).
BundleIsItsEntry ==
    \A r \in published : r.obj.bundle # Nil => r.obj.bundle \in Entries(r.obj)

\* What sign and attest publish with a key, verify and verify-attestation
\* accept with that key, offline and online; the only exceptions are a
\* certificate that was not valid when the log dated the entry, and an online
\* search by key for an entry that was made under a certificate or not at all.
\* The envelopes of DSSEAttest, which carry the encoding that was signed in
\* the place of the payload, are never accepted.
KeySignaturesVerify ==
    \A r \in published : r.cmd.ref # "none" =>
        LET good == r.obj.bundle # Nil /\ Timely(r.obj) IN
        /\ Accepts(VerifyLine(r.cmd.key, Nil, FALSE), r, ClaimedImage(r))
              <=> r.cmd.op # "dsse" /\ (r.obj.bundle = Nil \/ good)
        /\ Accepts(VerifyLine(r.cmd.key, Nil, TRUE), r, ClaimedImage(r))
              <=> /\ r.cmd.op # "dsse"
                  /\ good \/ (r.obj.cert = Nil /\ Entries(r.obj) # {})

\* What is published without a key verifies for the signer's identity if and
\* only if the log holds its entry, dated while the certificate was valid:
\* also when the bundle is missing, the log has changed its key, or the
\* certificate has expired since.
KeylessSignaturesVerify ==
    \A r \in published : r.cmd.ref = "none" =>
        (Accepts(VerifyLine(Nil, r.cmd.id, TRUE), r, ClaimedImage(r))
            <=> Entries(r.obj) # {} /\ Timely(r.obj))

\* Whatever verify accepts for an image was signed, over that image, with the
\* key it was asked for or by the identity it was asked for while that
\* identity's certificate was valid or before it was.
VerifiedWasSigned ==
    \A r \in published, v \in VerifyLines, img \in {x.img : x \in published} :
        Accepts(v, r, img) =>
            \E s \in signed :
                /\ s.key = KeyOf(r.obj)
                /\ IF r.cmd.op = "sign" THEN s.msg.digest = img
                   ELSE img \in s.msg.body.subjects
                /\ IF v.key # Nil THEN s.key = v.key
                   ELSE s.id = v.email /\ s.time <= r.obj.cert.na

\* Once verify accepts a published signature it always will: neither time, nor
\* an expired certificate, nor a new key of the log takes it back.
StaysVerified ==
    [][\A r \in published, v \in VerifyLines :
          Accepts(v, r, ClaimedImage(r)) => Accepts(v, r, ClaimedImage(r))']_vars

\* A hardware token is held only by a command that is running, or by one that
\* signerFromKeyRef refused because of --cert or --cert-chain: those error
\* paths return without closing it.
TokenReleased ==
    \A p \in tokens : \/ proc[p].pc \notin {"idle", "done", "failed"}
                      \/ proc[p].sv = Nil /\ proc[p].pc = "failed"
                         /\ proc[p].cmd.ref = "pkcs11"
                         /\ (proc[p].cmd.cert # Nil \/ proc[p].cmd.chain # Nil)

\* When the answer to an upload is lost after the entry was made, running the
\* command again with a deterministic key finds that entry and publishes it.
LostUploadRecovers ==
    \A p \in Procs :
        (/\ proc[p].pc = "failed" /\ proc[p].try < MaxTries
         /\ proc[p].obj # Nil /\ Entries(proc[p].obj) # {}
         /\ faults = MaxFaults /\ proc[p].cmd.key \in Deterministic)
        ~> (\E r \in published : r.cmd = proc[p].cmd /\ r.obj.bundle # Nil)

BlobLine(key, cert, sig, bundle, email, exp) ==
    [key |-> key, sk |-> Nil, cert |-> cert, chain |-> Nil, sig |-> sig,
     bundle |-> bundle, exp |-> exp, email |-> email, issuer |-> Nil, sct |-> FALSE]

\* What sign-blob wrote in experimental mode verifies online from its bundle
\* alone, from the certificate or key and the signature, and, without a key,
\* from the signature alone, if and only if the entry was dated in time.
\* Without experimental mode the bundle names no key, and only verifies with
\* one.
BlobsVerify ==
    \A p \in Procs :
        LET f == files[p]
            c == proc[p].cmd
            timely(cert) == \A e \in ToSet(log) :
                e.body = rekorEntry(f.blob, f.sig, f.cert) => CheckExpiry(cert, e.time)
        IN  f # Nil /\ c.op = "blob" =>
            /\ c.ref # "none" =>
                  VerifyBlobCmd(BlobLine(c.key, Nil, f.sig, Nil, Nil, c.exp), f.blob, World)
            /\ c.bundleOut =>
                  VerifyBlobCmd(BlobLine(Nil, Nil, Nil, f, Nil, c.exp), f.blob, World)
                  = (f.cert # Nil /\ (f.cert.cert # Nil => timely(f.cert.cert)))
            /\ f.cert # Nil /\ f.cert.cert # Nil =>
                  /\ VerifyBlobCmd(BlobLine(Nil, f.cert.cert, f.sig, Nil, Nil, TRUE),
                                   f.blob, World) = timely(f.cert.cert)
                  /\ VerifyBlobCmd(BlobLine(Nil, Nil, f.sig, Nil, c.id, TRUE),
                                   f.blob, World) = timely(f.cert.cert)
=============================================================================
