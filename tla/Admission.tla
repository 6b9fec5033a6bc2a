----------------------------- MODULE Admission -----------------------------
(***************************************************************************)
(* The cosigned admission webhook next to everything that changes while it *)
(* works: policies are applied and deleted, the reconciler writes them to  *)
(* the ConfigMap, the webhook's store follows the ConfigMap, tags move,    *)
(* signatures are added and the Secret with cosign.pub is rewritten.       *)
(*                                                                         *)
(* The API server calls the webhook twice for a workload: /mutations pins  *)
(* its tags, one registry lookup per container, and /validations checks    *)
(* the images, one after the other, with the config and the keys that it   *)
(* read when it began.  Reconcile stands for the reconciler as PolicyTable *)
(* describes it.                                                           *)
(***************************************************************************)
EXTENDS Policies

CONSTANTS
    Names,        \* of ClusterImagePolicies
    Secrets,      \* [Secret -> its PEM data, or Nil] for key references
    KMS,          \* [URI with a scheme -> PEM data, or Nil]
    Pods,         \* [images, deleting]; a workload of any of the kinds
    Tags,         \* [repo, tag]
    Digests,
    Scenarios,    \* by name: [tags, sigs, pub] that the cluster begins with, [specs]
                  \* that users apply, [adds] of signatures, [pubs] of the Secret
    World,        \* the log, the trusted keys and roots: see Verify
    MaxEdits,     \* of policies
    MaxWrites,    \* of tags, signatures and the Secret
    MaxPods

VARIABLES
    scn,          \* which scenario; never changes
    cips,         \* the policies that the API server holds
    cm,           \* the entries of config-image-policies
    store,        \* the webhook's config
    tags, sigs, pub,
    req,          \* the workload being admitted
    edits, writes, submitted

vars == <<scn, cips, cm, store, tags, sigs, pub, req, edits, writes, submitted>>

cluster == <<scn, cips, cm, store, tags, sigs, pub, edits, writes>>
policies == <<scn, cips, cm, store, edits>>
content == <<scn, tags, sigs, pub, writes>>

Idle == [pc |-> "idle", images |-> << >>, deleting |-> FALSE, at |-> 1, bad |-> FALSE,
         cfg |-> Nil, keys |-> << >>]

\* ------------------------------------------------ policies into the ConfigMap
InlinedKey(key) ==
    IF key = Nil THEN Nil
    ELSE IF key.secret # Nil
    THEN [key EXCEPT !.data = IF Secrets[key.secret] = Nil THEN NotAKey
                              ELSE IF IsValidKey(Secrets[key.secret])
                              THEN Secrets[key.secret] ELSE NotAKey]
    ELSE key

\* A KMS name without a scheme stays as it is, and with it the empty data.
InlinedKMS(key) ==
    IF key = Nil THEN Nil
    ELSE IF key.kms \in DOMAIN KMS
    THEN [key EXCEPT !.data = IF KMS[key.kms] = Nil THEN NotAKey ELSE KMS[key.kms]]
    ELSE key

\* NotAKey in the place of data: the key could not be had.
inlinePublicKeys(spec) ==
    [spec EXCEPT !.authorities =
        [i \in DOMAIN @ |->
            [@[i] EXCEPT !.key = InlinedKMS(InlinedKey(@)),
                         !.keyless = IF @ = Nil THEN Nil
                                     ELSE [@ EXCEPT !.caCert = InlinedKey(@)]]]]

Inlines(spec) ==
    \A i \in DOMAIN spec.authorities :
        LET a == inlinePublicKeys(spec).authorities[i]
            c == IF a.keyless = Nil THEN Nil ELSE a.keyless.caCert
        IN  (a.key = Nil \/ a.key.data # NotAKey) /\ (c = Nil \/ c.data # NotAKey)

\* The entry that ReconcileKind makes of each spec; Nil takes it away.
EntryOfSpec ==
    [spec \in UNION {Scenarios[x].specs : x \in DOMAIN Scenarios} |->
        IF Inlines(spec)
        THEN ConvertClusterImagePolicyV1alpha1ToWebhook(inlinePublicKeys(spec)) ELSE Nil]

EntryOf(c) == IF cips[c] = Nil THEN Nil ELSE EntryOfSpec[cips[c]]

\* Mutant: a policy that is gone leaves its entry.
ReconcileLive(c) ==
    /\ cips[c] # Nil /\ cm[c] # EntryOf(c)
    /\ cm' = [cm EXCEPT ![c] = EntryOf(c)]
    /\ UNCHANGED <<cips, store, content, req, edits, submitted>>

Reconcile(c) ==
    /\ cm[c] # EntryOf(c)
    /\ cm' = [cm EXCEPT ![c] = EntryOf(c)]
    /\ UNCHANGED <<cips, store, content, req, edits, submitted>>

\* The policy webhook: what does not validate is not stored.
ApplyPolicy(c, spec) ==
    /\ edits < MaxEdits
    /\ Validate(spec)
    /\ cips[c] # spec
    /\ cips' = [cips EXCEPT ![c] = spec]
    /\ edits' = edits + 1
    /\ UNCHANGED <<cm, store, content, req, submitted>>

DeletePolicy(c) ==
    /\ edits < MaxEdits
    /\ cips[c] # Nil
    /\ cips' = [cips EXCEPT ![c] = Nil]
    /\ edits' = edits + 1
    /\ UNCHANGED <<cm, store, content, req, submitted>>

\* UntypedStore.OnConfigChanged: a map that cannot be read is only logged.
OnConfigChanged ==
    LET config == NewImagePoliciesConfigFromMap(cm)
    IN  /\ config # Nil
        /\ store # config
        /\ store' = config
        /\ UNCHANGED <<cips, cm, content, req, edits, submitted>>

\* ------------------------------------------------- the registry and the Secret
MoveTag(t, d) ==
    /\ writes < MaxWrites
    /\ tags[t] # d
    /\ tags' = [tags EXCEPT ![t] = d]
    /\ writes' = writes + 1
    /\ UNCHANGED <<policies, sigs, pub, req, submitted>>

AddSignature(s) ==
    /\ writes < MaxWrites
    /\ s.sig \notin sigs[s.repo][s.digest]
    /\ sigs' = [sigs EXCEPT ![s.repo][s.digest] = @ \cup {s.sig}]
    /\ writes' = writes + 1
    /\ UNCHANGED <<policies, tags, pub, req, submitted>>

WriteSecret(p) ==
    /\ writes < MaxWrites
    /\ pub # p
    /\ pub' = p
    /\ writes' = writes + 1
    /\ UNCHANGED <<policies, tags, sigs, req, submitted>>

\* ------------------------------------------------------------- the two calls
Submit(p) ==
    /\ req.pc = "idle"
    /\ submitted < MaxPods
    /\ req' = [Idle EXCEPT !.pc = "resolve", !.images = p.images, !.deleting = p.deleting]
    /\ submitted' = submitted + 1
    /\ UNCHANGED cluster

\* resolvePodSpec for one container; what cannot be looked up stays a tag.
ResolveContainer ==
    /\ req.pc = "resolve" /\ ~req.deleting /\ req.at <= Len(req.images)
    /\ LET image == req.images[req.at]
           tag   == [repo |-> image.repo, tag |-> image.ref]
       IN  \E found \in BOOLEAN :
             req' = [req EXCEPT
                !.at = @ + 1,
                !.images[req.at] =
                    IF image.kind = "tag" /\ found /\ tags[tag] # Nil
                    THEN [image EXCEPT !.kind = "digest", !.ref = tags[tag]] ELSE @]
    /\ UNCHANGED <<cluster, submitted>>

\* The end of /mutations; without credentials it does not even start.
ResolveEnds ==
    /\ req.pc = "resolve"
    /\ req.deleting \/ req.at = 1 \/ req.at > Len(req.images)
    /\ req' = [req EXCEPT !.pc = "validate", !.at = 1]
    /\ UNCHANGED <<cluster, submitted>>

\* The context of /validations gets the config; then validatePodSpec reads
\* the Secret.  Without credentials or Secret it refuses.
ValidateBegins ==
    /\ req.pc = "validate"
    /\ \E credentials \in BOOLEAN :
         req' = IF req.deleting THEN [req EXCEPT !.pc = "admitted"]
                ELSE IF ~credentials \/ pub = Nil THEN [req EXCEPT !.pc = "refused"]
                ELSE [req EXCEPT !.pc = "check", !.cfg = store, !.keys = getKeys(pub)]
    /\ UNCHANGED <<cluster, submitted>>

\* Mutant: each container is checked with the policies of that moment.
ValidateWithCurrent ==
    /\ req.pc = "check" /\ req.at <= Len(req.images)
    /\ LET image == req.images[req.at]
       IN  req' = [req EXCEPT !.at = @ + 1,
                              !.bad = \/ @
                                      \/ image.kind # "digest"
                                      \/ ~CheckImage(store, req.keys,
                                             Append(image.repo, image.ref),
                                             [r \in DOMAIN sigs |-> sigs[r][image.ref]],
                                             image.ref, World, {})]
    /\ UNCHANGED <<cluster, submitted>>

\* checkContainers, one container: a digest, and good enough signatures.
ValidateContainer ==
    /\ req.pc = "check" /\ req.at <= Len(req.images)
    /\ LET image == req.images[req.at]
       IN  \E net \in {{}, {"registry"}, {"fulcio"}, {"rekor"}} :
             req' = [req EXCEPT !.at = @ + 1,
                                !.bad = \/ @
                                        \/ image.kind # "digest"
                                        \/ ~CheckImage(req.cfg, req.keys,
                                               Append(image.repo, image.ref),
                                               [r \in DOMAIN sigs |-> sigs[r][image.ref]],
                                               image.ref, World, net)]
    /\ UNCHANGED <<cluster, submitted>>

ValidateEnds ==
    /\ req.pc = "check" /\ req.at > Len(req.images)
    /\ req' = [req EXCEPT !.pc = IF req.bad THEN "refused" ELSE "admitted"]
    /\ UNCHANGED <<cluster, submitted>>

Answered ==
    /\ req.pc \in {"admitted", "refused"}
    /\ req' = Idle
    /\ UNCHANGED <<cluster, submitted>>

\* ------------------------------------------------------------- specification
Init ==
    /\ scn \in DOMAIN Scenarios
    /\ tags = Scenarios[scn].tags
    /\ sigs = Scenarios[scn].sigs
    /\ pub = Scenarios[scn].pub
    /\ cips = [c \in Names |-> Nil]
    /\ cm = [c \in Names |-> Nil]
    /\ store = << >>
    /\ req = Idle
    /\ edits = 0 /\ writes = 0 /\ submitted = 0

Next ==
    \/ \E c \in Names : Reconcile(c) \/ DeletePolicy(c)
    \/ \E c \in Names, spec \in Scenarios[scn].specs : ApplyPolicy(c, spec)
    \/ OnConfigChanged
    \/ \E t \in Tags, d \in Digests : MoveTag(t, d)
    \/ \E s \in Scenarios[scn].adds : AddSignature(s)
    \/ \E p \in Scenarios[scn].pubs : WriteSecret(p)
    \/ \E p \in Pods : Submit(p)
    \/ ResolveContainer \/ ResolveEnds
    \/ ValidateBegins \/ ValidateContainer \/ ValidateEnds \/ Answered

Spec == Init /\ [][Next]_vars

\* The reconciler retries and the informer of the ConfigMap always catches up.
FairSpec ==
    /\ Spec
    /\ WF_vars(\E c \in Names : Reconcile(c))
    /\ WF_vars(OnConfigChanged)

\* ---------------------------------------------------------------- properties
\* A signature over digest d, made with key k.
SignedBy(k, s, d) == s.sig.key = k /\ s.sig.msg = s.payload /\ s.payload.digest = d

\* A signature over digest d with a certificate of CA ca for one of ids.
SignedUnder(ca, ids, s, d) ==
    /\ s.cert # Nil
    /\ SignedBy(s.cert.key, s, d)
    /\ s.cert.ca = ca
    /\ ids \in {Nil, << >>} \/ \E i \in DOMAIN ids : IdentityMatches(ids[i], s.cert)

Vouches(a, d) ==
    \E s \in sigs[a.repo][d] :
        \/ \E k \in ToSet(a.keys) : SignedBy(k, s, d)
        \/ a.keyless # Nil /\ a.keyless.url # Nil
           /\ SignedUnder(a.keyless.url, a.keyless.identities, s, d)

\* No keys and no Fulcio to ask: such an authority can never say no.
Unusable(a) == a.keys = << >> /\ (a.keyless = Nil \/ a.keyless.url = Nil)

TrustedBySecret(keys, d) ==
    \E s \in sigs[Nil][d] :
        IF keys = << >> THEN \E ca \in World.roots : SignedUnder(ca, Nil, s, d)
        ELSE \E k \in ToSet(keys) : SignedBy(k, s, d)

\* validatePodSpec: a workload that was admitted runs pinned images only.  All
\* of them were judged by one and the same set of policies, the one in force
\* when validation began, however the store, the tags and the Secret moved
\* meanwhile and whatever could not be reached.  Each policy that names the
\* image has an authority that vouches for exactly that digest; the exception
\* are policies all of whose authorities are unusable.  An image that no policy
\* names is vouched for by the keys of the Secret or, if it has none, by the
\* public Fulcio.
AdmittedVouchedFor ==
    req.pc = "admitted" /\ ~req.deleting =>
        \A i \in DOMAIN req.images :
            LET image == req.images[i]
                name  == Append(image.repo, image.ref)
                named == {c \in DOMAIN req.cfg :
                            \E p \in ToSet(req.cfg[c].images) : PatternMatches(name, p)}
            IN  /\ image.kind = "digest"
                /\ named = {} => TrustedBySecret(req.keys, image.ref)
                /\ \A c \in named :
                       LET as == ToSet(req.cfg[c].authorities)
                       IN  (\E a \in as : Vouches(a, image.ref)) \/ (\A a \in as : Unusable(a))

\* A policy that the policy webhook stored and the reconciler could inline can
\* be read by the admission webhook, and never makes matching fail.  The
\* exceptions, which stop the store from following any policy, are a source
\* that is no repository name and a ca-cert that is not a public key: neither
\* is looked at by Validate.
AcceptedMeansUsable ==
    \A c \in Names :
        EntryOf(c) # Nil =>
            LET entry == EntryOf(c)
                Poisoned(a) == \/ MalformedRepository \in ToSet(a.sources)
                               \/ /\ a.keyless # Nil
                                  /\ a.keyless.caCert # Nil
                                  /\ a.keyless.caCert.data # Nil
                                  /\ NotAKey \in ToSet(a.keyless.caCert.data.blocks)
                                  /\ ~a.keyless.caCert.data.junk
            IN  /\ parseEntry(entry) = Nil <=> \E a \in ToSet(entry.authorities) : Poisoned(a)
                /\ parseEntry(entry) # Nil =>
                      ~GetMatchingPolicies([x \in {c} |-> parseEntry(entry)], << >>).err

\* Once the policies stop changing in a state whose entries can all be read,
\* the config of the webhook becomes exactly those policies and stays so: a
\* deleted policy is not enforced for ever, and a map that could not be read
\* on the way there leaves nothing behind.
Meant == NewImagePoliciesConfigFromMap([c \in Names |-> EntryOf(c)])
PoliciesTakeEffect == <>[](Meant # Nil) => <>[](store = Meant)
=============================================================================
