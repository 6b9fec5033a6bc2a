------------------------------- MODULE Registry -------------------------------
(***************************************************************************)
(* Signatures, attestations and SBOMs in OCI registries.  What belongs to  *)
(* an image or index with digest d is kept in the same repository under    *)
(* the tags sha256-d.sig, .att and .sbom.  The commands sign, attest,      *)
(* attach, clean and copy run concurrently; a registry offers no           *)
(* compare-and-swap, so that adding a signature is a read, an append and a *)
(* write.  Users push images at the same time, which moves tags.  save and *)
(* load carry an image with its signatures through a directory.            *)
(***************************************************************************)
EXTENDS Integers, Sequences, SequencesExt

CONSTANTS
    Procs,        \* slots in which commands run
    Entities,     \* digests of images, indexes and SBOM files
    Children,     \* [Entities -> Seq(Entities)]: the manifests of an index
    Indexes,      \* the entities that are indexes
    Tags,         \* the tags users give to images
    Pushed,       \* the entities a user may tag
    Repos, Src, Dst,  \* the repositories, and those of copy
    Scenarios,    \* what users do, and the bounds for each:
                  \*   lines    the commands they run
                  \*   overlap  do commands run at the same time?
                  \*   commands, moves (of tags), faults: bounds
    NoImage       \* the answer 404

Kinds == {"sig", "att", "sbom"}

ASSUME RegistryAssumption ==
    /\ Indexes \subseteq Entities /\ Pushed \subseteq Entities
    /\ Children \in [Entities -> Seq(Entities)]
    /\ \A e \in Entities \ Indexes : Children[e] = <<>>
    /\ {Src, Dst} \subseteq Repos /\ Tags # {}
    /\ \A s \in Scenarios : /\ s.overlap \in BOOLEAN
                            /\ {s.commands, s.moves, s.faults} \subseteq Nat

VARIABLES
    store,     \* [Repos -> [Names -> manifests]]
    cmd,       \* [Procs -> the command running there]
    dir,       \* the layout in the directory of save and load: the entries
               \* [kind, of] of its index.json, or NoImage
    commands, moves, faults,
    scn        \* the scenario, chosen at the start

vars == <<store, cmd, dir, commands, moves, faults, scn>>

\* What a manifest can be asked for by: a tag, a digest, or the tag that
\* `normalize` makes of a digest and a suffix.
Names == Tags \cup Entities \cup (Entities \X Kinds)

normalize(e, suffix) == <<e, suffix>>

\* The entities of a tree in the order in which walk.SignedEntity visits them.
walk[e \in Entities] ==
    <<e>> \o FlattenSeq([i \in DOMAIN Children[e] |-> walk[Children[e][i]]])

\* An oci.Signatures: the image that is written, and what Get() returns.
Signatures(content) ==
    LET layers == IF content = NoImage THEN <<>> ELSE content
    IN  [image |-> layers, get |-> layers]

AppendSignatures(base, sigs) ==
    [image |-> base.image \o sigs, get |-> base.get \o sigs]

ReplaceSignatures(base) ==
    [image |-> base.get, get |-> base.get \o base.get]

\* dd.Find: is there a signature of the same payload that the signer's key
\* verifies and that has all the annotations of the new one?
FindReversed(base, new) ==
    \E i \in DOMAIN base.get :
        LET old == base.get[i]
        IN  /\ old.ann \subseteq new.ann
            /\ old.subject = new.subject
            /\ old.pred = new.pred
            /\ old.b64
            /\ old.key = new.key

Find(base, new) ==
    \E i \in DOMAIN base.get :
        LET old == base.get[i]
        IN  /\ new.ann \subseteq old.ann
            /\ old.subject = new.subject
            /\ old.pred = new.pred
            /\ old.b64
            /\ old.key = new.key

\* ro.Replace: the new attestation and those with another predicate type.
\* The result shows them in Get() and still embeds the image it started from.
ReplaceOthers(base, new) == [image |-> base.image, get |-> <<new>>]

Replace(base, new) ==
    [image |-> base.image,
     get |-> <<new>> \o SelectSeq(base.get, LAMBDA s : s.pred # new.pred)]

\* Signatures() of an image and of an index to which a signature was attached.
\* Of the commands, sign and attest pass the duplicate detector.
ImageSignatures(line, base, new) ==
    IF line.cmd = "sign" /\ Find(base, new) THEN base
                                            ELSE AppendSignatures(base, <<new>>)

IndexSignatures(line, base, new) ==
    IF line.cmd = "sign" /\ Find(base, new) THEN base
                                            ELSE AppendSignatures(base, <<new>>)

\* Attestations() of an image and of an index.
ImageAttestations(line, base, new) ==
    CASE line.cmd = "attest" /\ Find(base, new) -> base
      [] line.cmd = "attest" /\ line.replace    -> AppendSignatures(Replace(base, new), <<>>)
      [] OTHER                                  -> AppendSignatures(base, <<new>>)

\* Mutant: an attestation is added a second time in the form of a signature.
AttestedTwice(line, base, new) ==
    IF line.cmd = "attest" /\ Find(base, new) THEN base
    ELSE AppendSignatures(base, <<new, [new EXCEPT !.b64 = TRUE]>>)

IndexAttestations(line, base, new) ==
    CASE line.cmd = "attest" /\ Find(base, new) -> base
      [] line.cmd = "attest" /\ line.replace    -> ReplaceSignatures(Replace(base, new))
      [] OTHER                                  -> AppendSignatures(base, <<new>>)
------------------------------------------------------------------------------
Idle == [pc |-> "idle", line |-> [cmd |-> "none"], id |-> 0, root |-> NoImage,
         todo |-> <<>>, base |-> <<>>, had |-> {}]

Init ==
    /\ \E e \in Pushed :
        store = [r \in Repos |-> [n \in Names |->
                    CASE r = Src /\ n \in Entities -> n
                      [] r = Src /\ n \in Tags     -> e
                      [] OTHER                     -> NoImage]]
    /\ cmd = [p \in Procs |-> Idle]
    /\ dir = NoImage
    /\ commands = 0 /\ moves = 0 /\ faults = 0
    /\ scn \in Scenarios

Set(p, c) == cmd' = [cmd EXCEPT ![p] = c]
Put(r, n, content) == store' = [store EXCEPT ![r][n] = content]
Same == UNCHANGED <<dir, commands, moves, faults, scn>>

\* remote.Get: the digest a reference stands for at this moment.
Get(r, ref) == store[r][ref]

Start(p, line) ==
    /\ cmd[p].pc = "idle" /\ commands < scn.commands
    /\ scn.overlap \/ \A q \in Procs : cmd[q].pc = "idle"
    /\ Set(p, [Idle EXCEPT !.pc = "resolve", !.line = line, !.id = commands + 1,
                           !.had = IF line.cmd \notin {"copy", "save"} THEN {}
                                   ELSE {n \in Names : store[Src][n] # NoImage}])
    /\ commands' = commands + 1
    /\ UNCHANGED <<store, dir, moves, faults, scn>>

\* An error of the registry or the end of the process: what was written stays.
Fail(p) ==
    /\ cmd[p].pc # "idle" /\ faults < scn.faults
    /\ Set(p, Idle)
    /\ faults' = faults + 1
    /\ UNCHANGED <<store, dir, commands, moves, scn>>

Finish(p) ==
    /\ cmd[p].pc \in {"read", "sbom", "delete", "copy", "save", "load"} /\ cmd[p].todo = <<>>
    /\ Set(p, Idle)
    /\ Same /\ UNCHANGED store

PushImage(t, e) ==
    /\ moves < scn.moves /\ store[Src][t] # e
    /\ Put(Src, t, e)
    /\ moves' = moves + 1
    /\ UNCHANGED <<cmd, dir, commands, faults, scn>>
------------------------------------------------------------------------------
\* SignCmd, with --attachment sbom: the reference becomes the tag of the SBOM.
GetAttachedImageRef(p) ==
    LET e == Get(Src, cmd[p].line.ref)
    IN  /\ cmd[p].pc = "resolve"
        /\ cmd[p].line.cmd = "sign" /\ cmd[p].line.attachment
        /\ Set(p, IF e = NoImage THEN Idle
                  ELSE [cmd[p] EXCEPT !.line.attachment = FALSE,
                                      !.line.ref = normalize(e, "sbom")])
        /\ Same /\ UNCHANGED store

\* SignCmd: the reference is resolved once; the entity, or with --recursive
\* every entity below it, is then signed by its digest.
SignCmd(p) ==
    LET e == Get(Src, cmd[p].line.ref)
    IN  /\ cmd[p].pc = "resolve"
        /\ cmd[p].line.cmd = "sign" /\ ~cmd[p].line.attachment
        /\ IF e = NoImage THEN Set(p, Idle)
           ELSE Set(p, [cmd[p] EXCEPT !.pc = "read", !.root = e,
                          !.todo = IF cmd[p].line.recursive THEN walk[e] ELSE <<e>>])
        /\ Same /\ UNCHANGED store

\* ResolveDigest: everything that follows goes by digest.
ResolveDigest(p) ==
    LET e == Get(Src, cmd[p].line.ref)
    IN  /\ Set(p, IF e = NoImage THEN Idle
                  ELSE [cmd[p] EXCEPT !.pc = "read", !.root = e, !.todo = <<e>>])
        /\ Same /\ UNCHANGED store

AttestCmd(p) ==
    cmd[p].pc = "resolve" /\ cmd[p].line.cmd = "attest" /\ ResolveDigest(p)

AttachSignature(p) ==
    cmd[p].pc = "resolve" /\ cmd[p].line.cmd = "attach sig" /\ ResolveDigest(p)

AttachAttestation(p) ==
    cmd[p].pc = "resolve" /\ cmd[p].line.cmd = "attach att" /\ ResolveDigest(p)

KindOf(line) == IF line.cmd \in {"sign", "attach sig"} THEN "sig" ELSE "att"

\* A signature layer about an entity.  `key` verifies it; `b64` says whether the
\* annotation with the signature is filled, which it is not for attestations;
\* `ann` are the other annotations; `id` tells apart what commands produced.
NewSignature(subject, line, id) ==
    [subject |-> subject, key |-> line.key, ann |-> line.ann, pred |-> line.pred,
     b64 |-> KindOf(line) = "sig", by |-> line.cmd, id |-> id]

\* Mutant: the payload names what the tag points to by now.
PayloadByTag(p) == NewSignature(Get(Src, CHOOSE t \in Tags : TRUE), cmd[p].line, cmd[p].id)

\* The signature or attestation that the command makes of the digest it works
\* on; that of attach was made elsewhere and has no annotations.
NewLayer(p) == NewSignature(Head(cmd[p].todo), cmd[p].line, cmd[p].id)

\* WriteSignatures and WriteAttestations: the list published so far is
\* fetched, which is empty if there is none ...
ReadBase(p) ==
    /\ cmd[p].pc = "read" /\ cmd[p].todo # <<>>
    /\ LET n == normalize(Head(cmd[p].todo), KindOf(cmd[p].line))
       IN  Set(p, [cmd[p] EXCEPT !.pc = "write", !.base = Signatures(store[Src][n]).image])
    /\ Same /\ UNCHANGED store

\* ... and the image of the list with the new layer is written to the same
\* tag.
Publish(p, kind, list) ==
    /\ Put(Src, normalize(Head(cmd[p].todo), kind), list.image)
    /\ Set(p, [cmd[p] EXCEPT !.pc = "read", !.todo = Tail(@), !.base = <<>>])
    /\ Same

WriteSignatures(p) ==
    /\ cmd[p].pc = "write" /\ KindOf(cmd[p].line) = "sig"
    /\ LET base == Signatures(cmd[p].base)
       IN  Publish(p, "sig",
                IF Head(cmd[p].todo) \in Indexes
                THEN IndexSignatures(cmd[p].line, base, NewLayer(p))
                ELSE ImageSignatures(cmd[p].line, base, NewLayer(p)))

WriteAttestations(p) ==
    /\ cmd[p].pc = "write" /\ KindOf(cmd[p].line) = "att"
    /\ LET base == Signatures(cmd[p].base)
       IN  Publish(p, "att",
                IF Head(cmd[p].todo) \in Indexes
                THEN IndexAttestations(cmd[p].line, base, NewLayer(p))
                ELSE ImageAttestations(cmd[p].line, base, NewLayer(p)))

\* SBOMCmd of attach: the tag is derived from the reference and overwritten.
AttachSBOM(p) ==
    LET e == Get(Src, cmd[p].line.ref)
    IN  /\ cmd[p].pc = "resolve" /\ cmd[p].line.cmd = "attach sbom"
        /\ Set(p, IF e = NoImage THEN Idle
                  ELSE [cmd[p] EXCEPT !.pc = "sbom", !.root = e, !.todo = <<e>>])
        /\ Same /\ UNCHANGED store

WriteSBOM(p) ==
    /\ cmd[p].pc = "sbom" /\ cmd[p].todo # <<>>
    /\ store' = [store EXCEPT ![Src][normalize(cmd[p].root, "sbom")] = cmd[p].line.file,
                              ![Src][cmd[p].line.file] = cmd[p].line.file]
    /\ Set(p, [cmd[p] EXCEPT !.todo = <<>>])
    /\ Same
------------------------------------------------------------------------------
\* CleanCmd: the tags are derived one after the other, each from the reference.
CleanOrder == <<"sig", "att", "sbom">>

CleanResolve(p) ==
    LET n == Len(cmd[p].todo)
        e == Get(Src, cmd[p].line.ref)
    IN  /\ cmd[p].pc = "resolve" /\ cmd[p].line.cmd = "clean"
        /\ IF n = 3
             THEN Set(p, [cmd[p] EXCEPT !.pc = "delete",
                            !.todo = SelectSeq(@, LAMBDA t : t[2] \in cmd[p].line.type)])
           ELSE IF e = NoImage THEN Set(p, Idle)
           ELSE Set(p, [cmd[p] EXCEPT !.todo = Append(@, normalize(e, CleanOrder[n + 1])),
                                      !.root = IF n = 0 THEN e ELSE @])
        /\ Same /\ UNCHANGED store

\* An error of Delete is reported and the next tag is deleted.
CleanDelete(p) ==
    /\ cmd[p].pc = "delete" /\ cmd[p].todo # <<>>
    /\ \/ Put(Src, Head(cmd[p].todo), NoImage) /\ UNCHANGED faults
       \/ faults < scn.faults /\ faults' = faults + 1 /\ UNCHANGED store
    /\ Set(p, [cmd[p] EXCEPT !.todo = Tail(@)])
    /\ UNCHANGED <<dir, commands, moves, scn>>
------------------------------------------------------------------------------
\* CopyCmd: what is copied of one entity, and at the end the tag.
CopyList(e, sigOnly) ==
    IF sigOnly THEN <<normalize(e, "sig")>>
    ELSE <<normalize(e, "sig"), normalize(e, "att"), normalize(e, "sbom"), e>>

CopyTagFirst(root, line) ==
    (IF line.sigOnly THEN <<>> ELSE <<line.to>>)
    \o FlattenSeq([i \in DOMAIN walk[root] |-> CopyList(walk[root][i], line.sigOnly)])

CopyAll(root, line) ==
    FlattenSeq([i \in DOMAIN walk[root] |-> CopyList(walk[root][i], line.sigOnly)])
    \o (IF line.sigOnly THEN <<>> ELSE <<line.to>>)

CopyCmd(p) ==
    LET e == Get(Src, cmd[p].line.ref)
    IN  /\ cmd[p].pc = "resolve" /\ cmd[p].line.cmd = "copy"
        /\ Set(p, IF e = NoImage THEN Idle
                  ELSE [cmd[p] EXCEPT !.pc = "copy", !.root = e,
                                      !.todo = CopyAll(e, cmd[p].line)])
        /\ Same /\ UNCHANGED store

\* copyImage: the source, by digest for the final tag; nothing to do on a 404.
CopySource(p) == IF Head(cmd[p].todo) \in Tags THEN cmd[p].root ELSE Head(cmd[p].todo)

CopyGet(p) ==
    LET got == Get(Src, CopySource(p))
    IN  /\ cmd[p].pc = "copy" /\ cmd[p].todo # <<>>
        /\ Set(p, IF got = NoImage THEN [cmd[p] EXCEPT !.todo = Tail(@)]
                  ELSE [cmd[p] EXCEPT !.pc = IF cmd[p].line.force THEN "put" ELSE "head",
                                      !.base = got])
        /\ Same /\ UNCHANGED store

CopyHeadUnequal(p) ==
    LET there == store[Dst][Head(cmd[p].todo)]
    IN  /\ cmd[p].pc = "head"
        /\ Set(p, IF there = cmd[p].base
                  THEN [cmd[p] EXCEPT !.pc = "copy", !.todo = Tail(@), !.base = <<>>]
                  ELSE [cmd[p] EXCEPT !.pc = "put"])
        /\ Same /\ UNCHANGED store

\* copyImage without --force: an equal image is skipped, another is an error.
CopyHead(p) ==
    LET there == store[Dst][Head(cmd[p].todo)]
    IN  /\ cmd[p].pc = "head"
        /\ Set(p, CASE there = NoImage    -> [cmd[p] EXCEPT !.pc = "put"]
                    [] there = cmd[p].base -> [cmd[p] EXCEPT !.pc = "copy", !.todo = Tail(@),
                                                             !.base = <<>>]
                    [] OTHER              -> Idle)
        /\ Same /\ UNCHANGED store

\* remote.Write and remote.WriteIndex, which writes the manifests of an index
\* before the index.
CopyPut(p) ==
    LET n == Head(cmd[p].todo)
        below == IF cmd[p].base \in Entities THEN ToSet(walk[cmd[p].base]) ELSE {}
    IN  /\ cmd[p].pc = "put"
        /\ store' = [store EXCEPT ![Dst] = [m \in Names |->
                        IF m = n THEN cmd[p].base ELSE IF m \in below THEN m ELSE @[m]]]
        /\ Set(p, [cmd[p] EXCEPT !.pc = "copy", !.todo = Tail(@), !.base = <<>>])
        /\ Same
------------------------------------------------------------------------------
\* SaveCmd looks the reference up to learn whether it is an image or an index
\* and once more to get it.  Of an index that has come in the place of an image,
\* remote.Image picks the image for its platform; the reverse is an error.
SaveCmd(p) ==
    LET e == Get(Src, cmd[p].line.ref)
    IN  /\ cmd[p].pc = "resolve" /\ cmd[p].line.cmd = "save"
        /\ Set(p, IF e = NoImage THEN Idle
                  ELSE [cmd[p] EXCEPT !.pc = "again", !.root = e])
        /\ Same /\ UNCHANGED store

SignedImageOrIndex(p) ==
    LET e == Get(Src, cmd[p].line.ref)
        found == CASE e = NoImage -> {}
                   [] cmd[p].root \in Indexes -> {e} \cap Indexes
                   [] OTHER -> IF e \in Indexes THEN ToSet(Children[e]) \ Indexes ELSE {e}
    IN  /\ cmd[p].pc = "again"
        /\ \/ \E f \in found : Set(p, [cmd[p] EXCEPT !.pc = "save", !.root = f,
                                            !.todo = <<"empty", "entity", "sig", "att">>])
           \/ found = {} /\ Set(p, Idle)
        /\ Same /\ UNCHANGED store

\* Mutant: the signatures of what the tag names by now.
PartByTag(p, kind) ==
    IF kind = "entity" THEN cmd[p].root
                       ELSE store[Src][normalize(Get(Src, cmd[p].line.ref), kind)]

\* The entity, or its signatures or attestations, looked up by its digest.
LayoutPart(p, kind) ==
    IF kind = "entity" THEN cmd[p].root ELSE store[Src][normalize(cmd[p].root, kind)]

\* WriteSignedImage and WriteSignedImageIndex: an empty layout, to which the
\* entity is appended and of its signatures and attestations what there is.
WriteLayout(p) ==
    LET kind == Head(cmd[p].todo)
    IN  /\ cmd[p].pc = "save" /\ cmd[p].todo # <<>>
        /\ dir' = IF kind = "empty" THEN <<>>
                  ELSE IF LayoutPart(p, kind) = NoImage THEN dir
                  ELSE Append(dir, [kind |-> kind, of |-> LayoutPart(p, kind)])
        /\ Set(p, [cmd[p] EXCEPT !.todo = Tail(@)])
        /\ UNCHANGED <<store, commands, moves, faults, scn>>

\* imageByAnnotation and imageIndexByAnnotation: the first entry of a kind.
ByAnnotation(layout, kind) ==
    LET found == SelectSeq(layout, LAMBDA d : d.kind = kind)
    IN  IF found = <<>> THEN NoImage ELSE Head(found).of

\* Mutant: the attestations are not written.
LoadWithoutAttestations == <<"entity", "sig">>

LoadOrder == <<"entity", "sig", "att">>

\* LoadCmd: index.json is read once.
LoadCmd(p) ==
    /\ cmd[p].pc = "resolve" /\ cmd[p].line.cmd = "load"
    /\ Set(p, IF dir = NoImage THEN Idle
              ELSE [cmd[p] EXCEPT !.pc = "load", !.base = dir, !.todo = LoadOrder])
    /\ Same /\ UNCHANGED store

\* WriteSignedImageIndexImages: each part that the layout has is written, the
\* entity to the reference and the lists to the tags of what the reference
\* names by then.  Whatever was there is overwritten.
LoadWrite(p) ==
    LET kind == Head(cmd[p].todo)
        of == ByAnnotation(cmd[p].base, kind)
        there == store[Dst][cmd[p].line.to]
        below == IF kind = "entity" /\ of # NoImage THEN ToSet(walk[of]) ELSE {}
        n == IF kind = "entity" THEN cmd[p].line.to ELSE normalize(there, kind)
    IN  /\ cmd[p].pc = "load" /\ cmd[p].todo # <<>>
        /\ IF of # NoImage /\ kind # "entity" /\ there = NoImage
           THEN Set(p, Idle) /\ UNCHANGED store
           ELSE /\ store' = IF of = NoImage THEN store
                            ELSE [store EXCEPT ![Dst] = [m \in Names |->
                                    IF m = n THEN of ELSE IF m \in below THEN m ELSE @[m]]]
                /\ Set(p, [cmd[p] EXCEPT !.todo = Tail(@)])
        /\ Same
------------------------------------------------------------------------------
Next ==
    \/ \E p \in Procs :
        \/ \E line \in scn.lines : Start(p, line)
        \/ GetAttachedImageRef(p) \/ SignCmd(p)
        \/ AttestCmd(p) \/ AttachSignature(p) \/ AttachAttestation(p)
        \/ ReadBase(p) \/ WriteSignatures(p) \/ WriteAttestations(p)
        \/ AttachSBOM(p) \/ WriteSBOM(p)
        \/ CleanResolve(p) \/ CleanDelete(p)
        \/ CopyCmd(p) \/ CopyGet(p) \/ CopyHead(p) \/ CopyPut(p)
        \/ SaveCmd(p) \/ SignedImageOrIndex(p) \/ WriteLayout(p)
        \/ LoadCmd(p) \/ LoadWrite(p)
        \/ Finish(p) \/ Fail(p)
    \/ \E t \in Tags, e \in Pushed : PushImage(t, e)

Spec == Init /\ [][Next]_vars
------------------------------------------------------------------------------
Layers(content) == IF content = NoImage \/ content \in Entities THEN {} ELSE ToSet(content)

\* What is published for a digest is about that digest, although the tag the
\* user gave may have moved at any point of the command (SignCmd, AttestCmd).
SubjectMatches ==
    \A r \in Repos, e \in Entities, k \in {"sig", "att"} :
        \A s \in Layers(store[r][<<e, k>>]) : s.subject = e

\* `sign` never publishes a signature that the duplicate detector would have
\* found redundant, also when several commands write the list (NewDupeDetector).
NoRedundantSignature ==
    \A r \in Repos, e \in Entities :
        LET list == store[r][<<e, "sig">>]
        IN  Layers(list) # {} =>
            \A i, j \in DOMAIN list :
                i < j /\ list[j].by = "sign" /\ list[i].key = list[j].key
                    => ~(list[j].ann \subseteq list[i].ann)

\* The last write wins, and only in the case of contention: a layer goes away
\* by clean, by a forced copy, by load, by replacing its predicate type, or because it
\* was not there when the command that overwrites it read the list.
LastWriteWins ==
    [][\A r \in Repos, n \in Names :
        \A s \in Layers(store[r][n]) \ Layers(store'[r][n]) :
            \E p \in Procs :
                /\ cmd'[p] # cmd[p]
                /\ \/ cmd[p].line.cmd = "clean" /\ Head(cmd[p].todo) = n
                   \/ cmd[p].line.cmd = "copy" /\ cmd[p].line.force
                   \/ cmd[p].line.cmd = "load"
                   \/ cmd[p].line.cmd = "attest" /\ cmd[p].line.replace
                      /\ cmd[p].line.pred = s.pred
                   \/ s \notin Layers(cmd[p].base)]_vars

\* When the tag is copied, the destination has a signature list, attestations
\* and an SBOM for every entity of the tree for which the source had them when
\* the command started.
CopiedWithSignatures ==
    \A p \in Procs :
        cmd[p].pc \in {"put", "head"} /\ Head(cmd[p].todo) \in Tags =>
            \A e \in ToSet(walk[cmd[p].root]), k \in Kinds :
                <<e, k>> \in cmd[p].had => store[Dst][<<e, k>>] # NoImage

\* copy without --force overwrites nothing at the destination (copyImage).
NothingOverwritten ==
    [][\A n \in Names :
        store[Dst][n] # NoImage /\ store'[Dst][n] # store[Dst][n] =>
            \E p \in Procs : cmd'[p] # cmd[p] /\ (cmd[p].line.force \/ cmd[p].line.cmd = "load")]_vars

\* What save leaves in the directory belongs together although the tag moves
\* between its lookups: the signatures and attestations in a layout are of the
\* entity in it, and when save ends none is missing that the source had for
\* this entity from the start (WriteSignedImage, WriteSignedImageIndex).
SavedTogether ==
    /\ dir # NoImage =>
        \A i \in DOMAIN dir : dir[i].kind # "entity" =>
            \A s \in Layers(dir[i].of) : s.subject = ByAnnotation(dir, "entity")
    /\ \A p \in Procs : cmd[p].pc = "save" /\ cmd[p].todo = <<>> =>
        \A k \in {"sig", "att"} :
            <<cmd[p].root, k>> \in cmd[p].had => ByAnnotation(dir, k) # NoImage

\* A load that ends has put the entity of the layout under the reference, and
\* under the tags of that entity exactly the lists that were saved with it
\* (LoadCmd, WriteSignedImageIndexImages).
LoadedIsComplete ==
    \A p \in Procs :
        LET e == ByAnnotation(cmd[p].base, "entity")
        IN  cmd[p].pc = "load" /\ cmd[p].todo = <<>> /\ e # NoImage =>
                /\ store[Dst][cmd[p].line.to] = e /\ store[Dst][e] = e
                /\ \A k \in {"sig", "att"} :
                    ByAnnotation(cmd[p].base, k) # NoImage =>
                        store[Dst][<<e, k>>] = ByAnnotation(cmd[p].base, k)
------------------------------------------------------------------------------
\* What the commands promise when they do not overlap: each entity has a set
\* of signatures and one of attestations, changed by single atomic operations.
Sets == INSTANCE SignatureSets WITH
    sets <- [e \in Entities |-> [k \in {"sig", "att"} |->
                IF scn.overlap THEN {} ELSE Layers(store[Src][<<e, k>>])]],
    Subjects <- Entities

\* Commands that do not overlap are atomic operations on sets of signatures.
AtomicWhenSerial == Sets!Spec

\* attest --replace leaves the new attestation in the place of those of its
\* predicate type: after the write it is on the list.
ReplacedIsThere ==
    [][\A p \in Procs, e \in Entities :
        (cmd[p].pc = "write" /\ cmd[p].line.cmd = "attest" /\ cmd'[p].pc = "read"
            /\ e = Head(cmd[p].todo))
            => \E s \in Layers(store'[Src][<<e, "att">>]) : s.id = cmd[p].id]_vars
==============================================================================
