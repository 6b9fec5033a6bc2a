---------------------------- MODULE Blobs_proofs ----------------------------
(***************************************************************************)
(* sget with a key delivers only what the key vouches for, for any number  *)
(* of clients, tags and uploads, however tags move between its requests.   *)
(***************************************************************************)
EXTENDS Blobs, TLAPS

\* A client has the fields of Resting.
IsClient(c) ==
    c = [pc |-> c.pc, tag |-> c.tag, files |-> c.files, at |-> c.at, idx |-> c.idx,
         ref |-> c.ref, last |-> c.last, key |-> c.key, alone |-> c.alone]

\* What a client got with a key comes from a manifest of which it is known.
FromVouched(c, known) ==
    \E m \in known : m = c.last \/ (m.kind = "index"
                        /\ \E f \in m.of : File(f.content) = c.last)

\* A client that may fetch has verified its digest, if it has a key.
Verified(c, known) ==
    /\ c.pc = "fetch" /\ c.key => c.ref \in known
    /\ c.pc = "got" /\ c.key => FromVouched(c, known)

\* The inductive invariant: the digest, once verified, is what is fetched.
BlobInv ==
    /\ DOMAIN tags = Tags
    /\ \A t \in Tags : tags[t] = Absent \/ tags[t].kind \in {"file", "index"}
    /\ \A m \in vouched : m.kind \in {"file", "index"}
    /\ DOMAIN clients = Clients
    /\ \A p \in Clients : IsClient(clients[p]) /\ Verified(clients[p], vouched)

LEMMA VouchedGrows ==
    ASSUME NEW c, NEW known, NEW more, known \subseteq more, Verified(c, known)
    PROVE  Verified(c, more)
BY DEF Verified, FromVouched

\* Nothing is asked of a client that is not about to fetch.
LEMMA NotFetching ==
    ASSUME NEW c, NEW known, c.pc \notin {"fetch", "got"}
    PROVE  Verified(c, known)
BY DEF Verified

\* Setting some fields of a client leaves the others alone.
LEMMA ClientPcSet ==
    ASSUME NEW c, IsClient(c), NEW pc, NEW d, d = [c EXCEPT !.pc = pc]
    PROVE  IsClient(d) /\ d.pc = pc /\ d.key = c.key /\ d.ref = c.ref
BY DEF IsClient

LEMMA ClientAloneSet ==
    ASSUME NEW c, IsClient(c), NEW b, NEW d, d = [c EXCEPT !.alone = b]
    PROVE  IsClient(d) /\ d.pc = c.pc /\ d.key = c.key /\ d.ref = c.ref /\ d.last = c.last
BY DEF IsClient

\* A step of one client that ends in a good state of it.
LEMMA OneClient ==
    ASSUME BlobInv, NEW p \in Clients, NEW c, Became(p, c), vouched' = vouched,
           IsClient(c), Verified(c, vouched), DOMAIN tags' = Tags,
           \A t \in Tags : tags'[t] = tags[t] \/ tags'[t].kind \in {"file", "index"}
    PROVE  BlobInv'
BY DEF BlobInv, Became

LEMMA BlobInitInv == BlobInit => BlobInv
<1> SUFFICES ASSUME BlobInit PROVE BlobInv
    OBVIOUS
<1>1. IsClient(Resting) /\ Verified(Resting, vouched)
    BY DEF Resting, IsClient, Verified
<1> QED BY <1>1 DEF BlobInit, BlobInv

LEMMA BlobNextInv == BlobInv /\ [BlobNext]_blobVars => BlobInv'
<1> SUFFICES ASSUME BlobInv, [BlobNext]_blobVars PROVE BlobInv'
    OBVIOUS
<1>a. \A p \in Clients : IsClient(clients[p]) /\ Verified(clients[p], vouched)
    BY DEF BlobInv
\* The common case: a client that is not about to fetch, and perhaps a tag.
<1>b. ASSUME NEW p \in Clients, NEW d, Became(p, d), IsClient(d), d.pc \notin {"fetch", "got"},
             vouched' = vouched, DOMAIN tags' = Tags,
             \A t \in Tags : tags'[t] = tags[t] \/ tags'[t].kind \in {"file", "index"}
      PROVE  BlobInv'
    BY <1>b, NotFetching, OneClient
<1>c. UNCHANGED tags => DOMAIN tags' = Tags /\ \A t \in Tags : tags'[t] = tags[t]
    BY DEF BlobInv
<1>1. ASSUME NEW p \in Clients, NEW t \in Tags, NEW files, Upload(p, t, files)
      PROVE  BlobInv'
  <2>1. \A q \in Clients : IsClient(clients'[q]) /\ Verified(clients'[q], vouched)
    <3> SUFFICES ASSUME NEW q \in Clients
                 PROVE  IsClient(clients'[q]) /\ Verified(clients'[q], vouched)
        OBVIOUS
    <3>1. CASE q = p
      <4> DEFINE alone == ~Overlap(p, t)
      <4>1. clients'[q] = [Resting EXCEPT !.pc = "upload", !.tag = t, !.files = files,
                                          !.at = 1, !.alone = alone]
          BY <1>1, <3>1 DEF Upload
      <4>2. IsClient(clients'[q]) /\ clients'[q].pc = "upload"
        <5> HIDE DEF alone
        <5> QED BY <4>1 DEF Resting, IsClient
      <4> QED BY <4>2, NotFetching
    <3>2. CASE q # p
      <4>1. clients'[q] = clients[q] \/ clients'[q] = [clients[q] EXCEPT !.alone = FALSE]
          BY <1>1, <3>2 DEF Upload
      <4> QED BY <1>a, <4>1, ClientAloneSet DEF Verified, FromVouched
    <3> QED BY <3>1, <3>2
  <2> QED BY <1>1, <2>1 DEF BlobInv, Upload
<1>2. ASSUME NEW p \in Clients, WriteImage(p) PROVE BlobInv'
  <2> DEFINE c == clients[p]  f == c.files[c.at]
             at == c.at + 1  last == File(f.content)
             idx == IF f.platform # "" THEN c.idx \cup {f} ELSE c.idx
  <2>1. /\ IsClient(c) /\ c.pc = "upload" /\ vouched' = vouched /\ DOMAIN tags' = Tags
        /\ \A t \in Tags : tags'[t] = tags[t] \/ tags'[t].kind \in {"file", "index"}
      BY <1>2 DEF WriteImage, BlobInv, File
  <2>2. ASSUME NEW d, d = [c EXCEPT !.at = at, !.last = last, !.idx = idx], Became(p, d)
        PROVE  BlobInv'
    <3>1. IsClient(d) /\ d.pc = "upload"
      <4> HIDE DEF c, at, last, idx
      <4> QED BY <2>1, <2>2 DEF IsClient
    <3> QED BY <1>b, <2>1, <2>2, <3>1
  <2>3. ASSUME NEW d, d = [c EXCEPT !.pc = "failed"], Became(p, d) PROVE BlobInv'
      BY <1>b, <2>1, <2>3, ClientPcSet
  <2>4. \/ Became(p, [c EXCEPT !.at = at, !.last = last, !.idx = idx])
        \/ Became(p, [c EXCEPT !.pc = "failed"])
      BY <1>2 DEF WriteImage
  <2> QED BY <2>2, <2>3, <2>4
<1>3. ASSUME NEW p \in Clients, WriteIndex(p) PROVE BlobInv'
  <2> DEFINE c == clients[p]
             m == IF Len(c.files) > 1 THEN Index(c.idx) ELSE c.last
  <2>1. /\ IsClient(c) /\ vouched' = vouched /\ DOMAIN tags' = Tags
        /\ \A t \in Tags : tags'[t] = tags[t] \/ tags'[t].kind \in {"file", "index"}
      BY <1>3 DEF WriteIndex, BlobInv, Index
  <2>2. ASSUME NEW d, d = [c EXCEPT !.pc = "ok", !.last = m], Became(p, d) PROVE BlobInv'
    <3>1. IsClient(d) /\ d.pc = "ok"
      <4> HIDE DEF c, m
      <4> QED BY <2>1, <2>2 DEF IsClient
    <3> QED BY <1>b, <2>1, <2>2, <3>1
  <2>3. ASSUME NEW d, d = [c EXCEPT !.pc = "failed"], Became(p, d) PROVE BlobInv'
      BY <1>b, <2>1, <2>3, ClientPcSet
  <2>4. Became(p, [c EXCEPT !.pc = "ok", !.last = m]) \/ Became(p, [c EXCEPT !.pc = "failed"])
      BY <1>3 DEF WriteIndex
  <2> HIDE DEF m
  <2> QED BY <2>2, <2>3, <2>4
<1>4. ASSUME NEW p \in Clients, NEW t \in Tags, NEW key \in BOOLEAN, Sget(p, t, key)
      PROVE  BlobInv'
  <2> DEFINE c == [Resting EXCEPT !.tag = t, !.key = key]
             d == IF ~key \/ tags[t] = Absent THEN [c EXCEPT !.pc = "failed"]
                  ELSE [c EXCEPT !.pc = "verify", !.ref = tags[t]]
  <2>1. Became(p, d) /\ vouched' = vouched /\ UNCHANGED tags
      BY <1>4 DEF Sget
  <2>2. IsClient(d) /\ d.pc \in {"failed", "verify"}
      BY DEF Resting, IsClient
  <2> HIDE DEF d
  <2> QED BY <1>b, <1>c, <2>1, <2>2
<1>5. ASSUME NEW p \in Clients, NEW m, NEW key \in BOOLEAN, SgetDigest(p, m, key)
      PROVE  BlobInv'
  <2> DEFINE pc == IF key THEN "verify" ELSE "fetch"
  <2>1. /\ Became(p, [Resting EXCEPT !.pc = pc, !.key = key, !.ref = m])
        /\ vouched' = vouched /\ UNCHANGED tags
      BY <1>5 DEF SgetDigest
  <2>2. ASSUME NEW d, d = [Resting EXCEPT !.pc = pc, !.key = key, !.ref = m], Became(p, d)
        PROVE  BlobInv'
    <3>1. IsClient(d) /\ d.pc = pc /\ d.key = key
      <4> HIDE DEF pc
      <4> QED BY <2>2 DEF Resting, IsClient
    <3>2. Verified(d, vouched)
        BY <3>1 DEF Verified
    <3> QED BY <1>c, <2>1, <2>2, <3>1, <3>2, OneClient
  <2> QED BY <2>1, <2>2
<1>6. ASSUME NEW p \in Clients, VerifyDigest(p) PROVE BlobInv'
  <2> DEFINE c == clients[p]
             pc == IF c.ref \in vouched THEN "fetch" ELSE "failed"
  <2>1. /\ Became(p, [c EXCEPT !.pc = pc]) /\ IsClient(c)
        /\ vouched' = vouched /\ UNCHANGED tags
      BY <1>6 DEF VerifyDigest, BlobInv
  <2>2. ASSUME NEW d, d = [c EXCEPT !.pc = pc], Became(p, d) PROVE BlobInv'
    <3>1. IsClient(d) /\ d.pc = pc /\ d.ref = c.ref
      <4> HIDE DEF c, pc
      <4> QED BY <2>1, <2>2, ClientPcSet
    <3>2. Verified(d, vouched)
        BY <3>1 DEF Verified
    <3> QED BY <1>c, <2>1, <2>2, <3>1, <3>2, OneClient
  <2> QED BY <2>1, <2>2
<1>7. ASSUME NEW p \in Clients, Fetch(p) PROVE BlobInv'
  <2> DEFINE c == clients[p]
             choices == IF c.ref.kind = "file" THEN {c.ref}
                        ELSE {File(f.content) : f \in {g \in c.ref.of :
                                                        g.platform = "linux/amd64"}}
  <2>1. /\ IsClient(c) /\ c.pc = "fetch" /\ Verified(c, vouched)
        /\ vouched' = vouched /\ UNCHANGED tags
      BY <1>7 DEF Fetch, BlobInv
  <2>2. ASSUME NEW m \in choices, NEW d, d = [c EXCEPT !.pc = "got", !.last = m], Became(p, d)
        PROVE  BlobInv'
    <3>1. IsClient(d) /\ d.pc = "got" /\ d.key = c.key /\ d.last = m
      <4> HIDE DEF c, choices
      <4> QED BY <2>1, <2>2 DEF IsClient
    <3>2. ASSUME c.key PROVE FromVouched(d, vouched)
      <4>1. c.ref \in vouched /\ c.ref.kind \in {"file", "index"}
          BY <2>1, <3>2 DEF Verified, BlobInv
      <4> QED BY <2>2, <3>1, <4>1 DEF FromVouched
    <3>3. Verified(d, vouched)
        BY <3>1, <3>2 DEF Verified
    <3> QED BY <1>c, <2>1, <2>2, <3>1, <3>3, OneClient
  <2>3. ASSUME NEW d, d = [c EXCEPT !.pc = "failed"], Became(p, d) PROVE BlobInv'
      BY <1>b, <1>c, <2>1, <2>3, ClientPcSet
  <2>4. \/ \E m \in choices : Became(p, [c EXCEPT !.pc = "got", !.last = m])
        \/ Became(p, [c EXCEPT !.pc = "failed"])
      BY <1>7 DEF Fetch
  <2> HIDE DEF choices
  <2> QED BY <2>2, <2>3, <2>4
<1>8. ASSUME NEW t \in Tags, SignTag(t) PROVE BlobInv'
    BY <1>8, VouchedGrows DEF SignTag, BlobInv
<1>9. CASE UNCHANGED blobVars
    BY <1>9 DEF BlobInv, blobVars
<1> QED BY <1>1, <1>2, <1>3, <1>4, <1>5, <1>6, <1>7, <1>8, <1>9 DEF BlobNext

\* Whatever sget delivers to a user who gave a key is vouched for by that key.
THEOREM DeliversVouched == BlobSpec => []GotIsVouchedFor
<1>1. BlobInv => GotIsVouchedFor
    BY DEF BlobInv, Verified, FromVouched, GotIsVouchedFor
<1> QED BY BlobInitInv, BlobNextInv, <1>1, PTL DEF BlobSpec
=============================================================================
