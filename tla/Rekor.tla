------------------------------- MODULE Rekor -------------------------------
(***************************************************************************)
(* The client side of the transparency log (pkg/cosign/tlog.go and         *)
(* pkg/cosign/bundle/rekor.go) as operators on the entries of a log.       *)
(*                                                                         *)
(* A hash is injective, so the leaf hash that names an entry is stood for  *)
(* by the body it is a hash of.  An entry is what the server answers: its  *)
(* body, the time it was integrated, the log (shard) that holds it, and    *)
(* the key that signed the timestamp (Nil when the answer carries no       *)
(* verification material).  Pubs are the trusted log keys with the status  *)
(* that the TUF metadata give them.                                        *)
(***************************************************************************)
EXTENDS Naturals, Sequences, FiniteSets, SequencesExt

CONSTANT Nil

Sha256(x) == [alg |-> "sha256", of |-> x]

\* PEM, of a certificate or of a public key.
CertPEM(cert) == [cert |-> cert, key |-> Nil]
KeyPEM(key) == [cert |-> Nil, key |-> key]

intotoEntry(envelope, pem) ==
    [kind |-> "intoto", hash |-> Sha256(envelope), sig |-> Nil, pub |-> pem]

rekorEntry(payload, sig, pem) ==
    [kind |-> "hashedrekord", hash |-> Sha256(payload), sig |-> sig, pub |-> pem]

\* An empty signature means an attestation.
proposedEntry(sig, payload, pem) ==
    IF sig = Nil THEN intotoEntry(payload, pem) ELSE rekorEntry(payload, sig, pem)

LogEntry(body, time, shard) ==
    [body |-> body, time |-> time, shard |-> shard, set |-> shard]

ComputeLeafHash(e) == e.body

verifyUUID(uuid, e) == ComputeLeafHash(e) = uuid

\* Mutant: the newest entry is taken for the one that the conflict names.
NewestEntry(log, uuid) ==
    IF \E e \in ToSet(log) : e.body = uuid THEN Last(log) ELSE Nil

GetTlogEntry(log, uuid) ==
    LET answer == {e \in ToSet(log) : e.body = uuid}
    IN  IF \E e \in answer : verifyUUID(uuid, e)
        THEN CHOOSE e \in answer : verifyUUID(uuid, e)
        ELSE Nil

FindTlogEntry(log, sig, payload, pem) ==
    LET uuid  == proposedEntry(sig, payload, pem)
        found == {e \in ToSet(log) : e.body = uuid}
    IN  IF Cardinality(found) = 1 /\ \A e \in found : verifyUUID(uuid, e)
        THEN CHOOSE e \in found : TRUE
        ELSE Nil

FindTLogEntriesByPayload(log, payload) ==
    {e.body : e \in {x \in ToSet(log) : x.body.hash = Sha256(payload)}}

\* The keys of the TUF targets, or the one key of SIGSTORE_REKOR_PUBLIC_KEY.
GetRekorPubs(targets, alt) ==
    IF alt # Nil THEN [k \in {alt} |-> "Active"] ELSE targets

VerifySET(e, pub) == e.set = pub

\* Mutant: only the Active key is accepted.
ActiveKeyAccepts(pubs, e) ==
    e.shard \in DOMAIN pubs /\ pubs[e.shard] = "Active" /\ VerifySET(e, e.shard)

\* A key that is not Active any more still verifies: the code only says so.
KeyAccepts(pubs, e) == e.shard \in DOMAIN pubs /\ VerifySET(e, e.shard)

\* SIGSTORE_TRUST_REKOR_API_PUBLIC_KEY adds the key that the server names.
VerifyTLogEntry(log, pubs, apiKey, e) ==
    /\ e.set # Nil
    /\ e \in ToSet(log)
    /\ KeyAccepts(IF apiKey = Nil THEN pubs
                  ELSE [k \in DOMAIN pubs \cup {apiKey} |-> "Active"], e)

EntryToBundle(e) == IF e.set = Nil THEN Nil ELSE e
=============================================================================
