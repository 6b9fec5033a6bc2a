------------------------------- MODULE Blobs -------------------------------
(***************************************************************************)
(* Files in a registry: cosign upload blob (UploadFiles of                 *)
(* pkg/cosign/remote, BlobCmd) and sget (pkg/sget).  A digest names its    *)
(* content for ever and is modelled by the content; a tag moves.           *)
(***************************************************************************)
EXTENDS Naturals, Sequences, FiniteSets

CONSTANTS
    Absent,
    Tags,
    Clients,       \* processes that upload and get
    Uploads,       \* lists of [content, platform] given on the command line
    MaxRequests, MaxLost

VARIABLES
    tags,          \* [Tags -> manifest or Absent]
    vouched,       \* manifests with a signature of the key that sget is given
    clients, requests, lost

blobVars == <<tags, vouched, clients, requests, lost>>

File(content) == [kind |-> "file", of |-> {content}]
Index(entries) == [kind |-> "index", of |-> entries]

Resting == [pc |-> "idle", tag |-> Absent, files |-> << >>, at |-> 0, idx |-> {},
            ref |-> Absent, last |-> Absent, key |-> FALSE, alone |-> TRUE]

Became(p, c) == clients' = [clients EXCEPT ![p] = c]

\* A registry request that fails.
Lost == lost < MaxLost /\ lost' = lost + 1

\* Another client that is at work on the same tag.
Overlap(p, t) == \E q \in Clients \ {p} : clients[q].tag = t /\ clients[q].pc = "upload"

\* ---------------------------------------------------------------- upload blob
Upload(p, t, files) ==
    /\ clients[p].pc \notin {"upload", "verify", "fetch"}
    /\ requests < MaxRequests
    /\ requests' = requests + 1
    /\ clients' = [q \in Clients |->
          IF q = p THEN [Resting EXCEPT !.pc = "upload", !.tag = t, !.files = files, !.at = 1,
                                        !.alone = ~Overlap(p, t)]
          ELSE IF clients[q].tag = t THEN [clients[q] EXCEPT !.alone = FALSE] ELSE clients[q]]
    /\ UNCHANGED <<tags, vouched, lost>>

\* Mutant: the index has the last file only.
IndexOverwritten(p) ==
    LET c == clients[p]  f == c.files[c.at] IN
    /\ c.pc = "upload" /\ c.at <= Len(c.files)
    /\ tags' = [tags EXCEPT ![c.tag] = File(f.content)]
    /\ Became(p, [c EXCEPT !.at = @ + 1, !.last = File(f.content),
                           !.idx = IF f.platform # "" THEN {f} ELSE @])
    /\ UNCHANGED <<vouched, requests, lost>>

\* Every file is an image of its own that is written to the one reference; it
\* joins the index only if a platform was given.
WriteImage(p) ==
    LET c == clients[p]  f == c.files[c.at] IN
    /\ c.pc = "upload" /\ c.at <= Len(c.files)
    /\ \/ /\ tags' = [tags EXCEPT ![c.tag] = File(f.content)]
          /\ Became(p, [c EXCEPT !.at = @ + 1, !.last = File(f.content),
                                 !.idx = IF f.platform # "" THEN @ \cup {f} ELSE @])
          /\ UNCHANGED lost
       \/ /\ Lost
          /\ Became(p, [c EXCEPT !.pc = "failed"])
          /\ UNCHANGED tags
    /\ UNCHANGED <<vouched, requests>>

\* More than one file: the index replaces the last image.  The digest that is
\* printed is that of what was written last.
WriteIndex(p) ==
    LET c == clients[p] IN
    /\ c.pc = "upload" /\ c.at > Len(c.files)
    /\ \/ /\ LET m == IF Len(c.files) > 1 THEN Index(c.idx) ELSE c.last
             IN  /\ tags' = IF Len(c.files) > 1 THEN [tags EXCEPT ![c.tag] = m] ELSE tags
                 /\ Became(p, [c EXCEPT !.pc = "ok", !.last = m])
          /\ UNCHANGED lost
       \/ /\ Len(c.files) > 1
          /\ Lost
          /\ Became(p, [c EXCEPT !.pc = "failed"])
          /\ UNCHANGED tags
    /\ UNCHANGED <<vouched, requests>>

\* The owner of the key signs what the tag holds.
SignTag(t) ==
    /\ tags[t] # Absent /\ tags[t] \notin vouched
    /\ requests < MaxRequests
    /\ requests' = requests + 1
    /\ vouched' = vouched \cup {tags[t]}
    /\ UNCHANGED <<tags, clients, lost>>

\* ----------------------------------------------------------------------- sget
\* key: a public key is given or keyless verification is enabled.  A tag needs
\* either; it is resolved to a digest before anything else.
Sget(p, t, key) ==
    /\ clients[p].pc \notin {"upload", "verify", "fetch"}
    /\ requests < MaxRequests
    /\ requests' = requests + 1
    /\ LET c == [Resting EXCEPT !.tag = t, !.key = key]
       IN  Became(p, IF ~key \/ tags[t] = Absent THEN [c EXCEPT !.pc = "failed"]
                     ELSE [c EXCEPT !.pc = "verify", !.ref = tags[t]])
    /\ UNCHANGED <<tags, vouched, lost>>

\* A digest may be fetched without a key.
SgetDigest(p, m, key) ==
    /\ clients[p].pc \notin {"upload", "verify", "fetch"}
    /\ requests < MaxRequests
    /\ requests' = requests + 1
    /\ Became(p, [Resting EXCEPT !.pc = IF key THEN "verify" ELSE "fetch", !.key = key, !.ref = m])
    /\ UNCHANGED <<tags, vouched, lost>>

\* VerifyImageSignatures of the digest.
VerifyDigest(p) ==
    /\ clients[p].pc = "verify"
    /\ Became(p, [clients[p] EXCEPT !.pc = IF clients[p].ref \in vouched
                                           THEN "fetch" ELSE "failed"])
    /\ UNCHANGED <<tags, vouched, requests, lost>>

\* Mutant: the tag is read again.
FetchedByTag(p) ==
    LET c == clients[p]  m == IF c.tag # Absent THEN tags[c.tag] ELSE c.ref IN
    /\ c.pc = "fetch"
    /\ Became(p, [c EXCEPT !.pc = IF m.kind = "file" THEN "got" ELSE "failed", !.last = m])
    /\ UNCHANGED <<tags, vouched, requests, lost>>

\* An artifact has one layer; remote.Image of an index picks the entry for the
\* platform that it runs on.
Fetch(p) ==
    LET c == clients[p]
        choices == IF c.ref.kind = "file" THEN {c.ref}
                   ELSE {File(f.content) : f \in {g \in c.ref.of : g.platform = "linux/amd64"}}
    IN
    /\ c.pc = "fetch"
    /\ \/ \E m \in choices : Became(p, [c EXCEPT !.pc = "got", !.last = m]) /\ UNCHANGED lost
       \/ choices = {} /\ Became(p, [c EXCEPT !.pc = "failed"]) /\ UNCHANGED lost
       \/ Lost /\ Became(p, [c EXCEPT !.pc = "failed"])
    /\ UNCHANGED <<tags, vouched, requests>>

BlobInit ==
    /\ tags = [t \in Tags |-> Absent]
    /\ vouched = {}
    /\ clients = [p \in Clients |-> Resting]
    /\ requests = 0 /\ lost = 0

BlobNext ==
    \/ \E p \in Clients :
         \/ \E t \in Tags, files \in Uploads : Upload(p, t, files)
         \/ WriteImage(p) \/ WriteIndex(p)
         \/ \E t \in Tags, key \in BOOLEAN : Sget(p, t, key)
         \/ \E t \in Tags, key \in BOOLEAN : tags[t] # Absent /\ SgetDigest(p, tags[t], key)
         \/ VerifyDigest(p) \/ Fetch(p)
    \/ \E t \in Tags : SignTag(t)

BlobSpec == BlobInit /\ [][BlobNext]_blobVars

\* ---------------------------------------------------------------- properties
\* sget with a key writes nothing but what that key vouches for, however the
\* tag it was given moves between its requests: it is the signed file, or the
\* entry of a signed index.
GotIsVouchedFor ==
    \A p \in Clients :
        LET c == clients[p] IN
        c.pc = "got" /\ c.key =>
            \E m \in vouched : m = c.last \/ (m.kind = "index"
                                /\ \E f \in m.of : File(f.content) = c.last)

\* An upload that succeeds, with no other to the same tag, leaves the tag at the
\* digest it prints, from which sget yields what was uploaded: the one file, or
\* the file that was given for sget's platform (a file that was given without a
\* platform, next to others, is in no index and only its blob remains).
UploadedIsServed ==
    \A p \in Clients :
        LET c == clients[p] IN
        c.pc = "ok" /\ c.alone =>
            /\ tags[c.tag] = c.last
            /\ IF Len(c.files) = 1 THEN c.last = File(c.files[1].content)
               ELSE \A i \in DOMAIN c.files :
                      c.files[i].platform # "" => c.files[i] \in c.last.of
=============================================================================
