------------------------ MODULE ImagePolicyReconciler ------------------------
(***************************************************************************)
(* The controller that copies every ClusterImagePolicy (CIP) of a cluster  *)
(* into one ConfigMap, config-image-policies, from which the admission     *)
(* webhook reads its rules.  One reconcile per CIP runs at a time; the     *)
(* reconciles of different CIPs interleave, and each reads its inputs from *)
(* informer caches that lag behind the API server.                         *)
(*                                                                         *)
(* Every watched object is a log of versions: its Head is the copy in the  *)
(* informer's cache, its last element is the object on the API server, and *)
(* whatever lies between is on its way.                                    *)
(***************************************************************************)
EXTENDS Integers, Sequences

CONSTANTS
    CIPs,          \* names of ClusterImagePolicies
    Secrets,       \* names of Secrets
    Keys,          \* well-formed PEM public keys
    KMSKeys,       \* KMS key references (the ones with "://")
    KMSKey,        \* [KMSKeys -> Keys]: the public key behind a reference
    Specs,         \* the specifications users write: sequences of authorities
    SecretData,    \* the contents users give a Secret: sets of data values
    InitMaps,      \* the ConfigMaps the controller may find when installed
    MapDeletable,  \* may an operator delete the ConfigMap?
    MaxLag,        \* versions an informer can be behind before it relists
    MaxEdits,      \* bound on the edits users make
    MaxFaults,     \* bound on lost API calls, KMS outages and restarts
    NoSpec, NoSecret, NoEntry

(***************************************************************************)
(* An authority names its key inline, by Secret or by KMS reference.  Key  *)
(* and Keyless.CACert are treated alike by the code.                       *)
(***************************************************************************)
Authorities ==
    [kind : {"data"}, ref : Keys] \cup [kind : {"secret"}, ref : Secrets]
        \cup [kind : {"kms"}, ref : KMSKeys]

\* What a policy becomes in the ConfigMap: the keys of its authorities.
Entries == SUBSET Keys

\* A CIP on the API server: absent, "bare" before the controller has set its
\* finalizer, "held" with the finalizer, or "deleting".  An object without
\* finalizers is removed as soon as it is deleted, so one that is "deleting"
\* carries the finalizer.
Objects == [phase : {"absent", "bare", "held", "deleting"},
            spec : {NoSpec} \cup Specs]

AbsentObject == [phase |-> "absent", spec |-> NoSpec]
Finalized(o) == o.phase \in {"held", "deleting"}

\* The ConfigMap: absent, with an _example key next to the entries (as in
\* config/config-image-policies.yaml), or with entries only ("plain").
ConfigMaps == [kind : {"absent", "plain", "example"},
               data : [CIPs -> {NoEntry} \cup Entries]]

NoData == [c \in CIPs |-> NoEntry]
NoMap == [kind |-> "absent", data |-> NoData]
EmptyMap == [kind |-> "plain", data |-> NoData]
ShippedMap == [kind |-> "example", data |-> NoData]

ASSUME ReconcilerAssumption ==
    /\ MaxLag \in Nat /\ MaxLag >= 2
    /\ MaxEdits \in Nat /\ MaxFaults \in Nat
    /\ MapDeletable \in BOOLEAN
    /\ KMSKey \in [KMSKeys -> Keys]
    /\ Specs \subseteq Seq(Authorities)
    /\ NoSpec \notin Specs
    /\ \A e \in Entries : e # NoEntry
    /\ InitMaps \subseteq {NoMap, EmptyMap, ShippedMap}

VARIABLES
    cips,     \* [CIPs -> log of Objects]
    secrets,  \* [Secrets -> log of {NoSecret} \cup SecretData]
    cm,       \* log of ConfigMaps
    dirty,    \* the work queue: names waiting to be reconciled
    work,     \* [CIPs -> the reconcile running for that name]
    tracked,  \* the tracker: pairs <<CIP, Secret>>
    edits, faults

vars == <<cips, secrets, cm, dirty, work, tracked, edits, faults>>

Last(log) == log[Len(log)]
Lagging(log) == Len(log) > 1
Cached(c) == Head(cips[c])
Server(c) == Last(cips[c])
CachedMap == Head(cm)
ServerMap == Last(cm)

\* A write to the API server.  An informer MaxLag versions behind relists,
\* and so skips to the newest version.
Push(log, v) ==
    IF Len(log) < MaxLag THEN Append(log, v) ELSE [log EXCEPT ![Len(log)] = v]

-----------------------------------------------------------------------------
(***************************************************************************)
(* The state of one reconcile: the copy of the CIP it works on, what it    *)
(* wants of the ConfigMap (put the entry, drop it because the CIP is       *)
(* invalid, or drop it because the CIP is being deleted), the entry to     *)
(* put and the ConfigMap it read.  After FinalizeKind the finalizer is to  *)
(* be released, or kept because of an error.                               *)
(***************************************************************************)
Wants == {"none", "put", "drop", "finalize", "release", "keep"}
Steps == {"idle", "setFinalizer", "inline", "readMap", "writeMap",
          "clearFinalizer"}

Idle == [pc |-> "idle", res |-> AbsentObject, want |-> "none",
         entry |-> NoEntry, existing |-> NoMap]

Works == [pc : Steps, res : Objects, want : Wants,
          entry : {NoEntry} \cup Entries, existing : ConfigMaps]

TypeOK ==
    /\ cips \in [CIPs -> Seq(Objects)]
    /\ \A c \in CIPs : Len(cips[c]) \in 1..MaxLag
    /\ secrets \in [Secrets -> Seq({NoSecret} \cup SecretData)]
    /\ \A s \in Secrets : Len(secrets[s]) \in 1..MaxLag
    /\ cm \in Seq(ConfigMaps)
    /\ Len(cm) \in 1..MaxLag
    /\ dirty \subseteq CIPs
    /\ work \in [CIPs -> Works]
    /\ tracked \subseteq CIPs \X Secrets
    /\ edits \in 0..MaxEdits
    /\ faults \in 0..MaxFaults

Init ==
    /\ cips = [c \in CIPs |-> <<AbsentObject>>]
    /\ secrets = [s \in Secrets |-> <<NoSecret>>]
    /\ \E m \in InitMaps : cm = <<m>>
    /\ dirty = {}
    /\ work = [c \in CIPs |-> Idle]
    /\ tracked = {}
    /\ edits = 0
    /\ faults = 0

-----------------------------------------------------------------------------
(***************************************************************************)
(* The JSON patches of resources/configmap.go.  A patch is the difference  *)
(* between the ConfigMap that was read and that ConfigMap with one entry   *)
(* set or deleted.  ConfigMap.Data is omitted from JSON when it is empty,  *)
(* so the first entry is added, and the last one removed, by a patch of    *)
(* /data as a whole.                                                       *)
(***************************************************************************)
DataEmpty(m) == m.kind # "example" /\ m.data = NoData

Patch(op, c, e) == [op |-> op, cip |-> c, entry |-> e]

CreatePatch(c, m, e) ==
    Patch(CASE m.data[c] = e -> "none"
            [] m.data[c] # e /\ DataEmpty(m) -> "addData"
            [] m.data[c] = NoEntry /\ e # NoEntry /\ ~DataEmpty(m) -> "add"
            [] OTHER -> "replace",
          c, e)

\* Mutant of CreateRemovePatch: the patch always removes /data as a whole.
RemoveAllData(c, m) ==
    Patch(IF m.data[c] = NoEntry THEN "none" ELSE "removeData", c, NoEntry)

CreateRemovePatch(c, m) ==
    Patch(CASE m.data[c] = NoEntry -> "none"
            [] m.data[c] # NoEntry
               /\ DataEmpty([m EXCEPT !.data[c] = NoEntry]) -> "removeData"
            [] OTHER -> "remove",
          c, NoEntry)

\* The request a reconcile sends, from the ConfigMap it read.
Request(c, want, m, e) ==
    CASE want = "put" /\ m.kind = "absent" -> Patch("create", c, e)
      [] want = "put" /\ m.kind # "absent" -> CreatePatch(c, m, e)
      [] want # "put" /\ m.kind # "absent" -> CreateRemovePatch(c, m)
      [] OTHER -> Patch("none", c, NoEntry)

\* The API server: which requests it accepts, and what they do.
Accepts(p, m) ==
    \/ p.op = "create" /\ m.kind = "absent"
    \/ /\ m.kind # "absent"
       /\ \/ p.op = "addData"
          \/ p.op \in {"add", "removeData"} /\ ~DataEmpty(m)
          \/ p.op \in {"replace", "remove"} /\ m.data[p.cip] # NoEntry

Apply(p, m) ==
    IF p.op \in {"create", "addData", "removeData"}
    THEN [EmptyMap EXCEPT !.data[p.cip] = p.entry]
    ELSE [m EXCEPT !.data[p.cip] = p.entry]

-----------------------------------------------------------------------------
(***************************************************************************)
(* inlinePublicKeys: every authority must yield a key.  The Secret must    *)
(* hold exactly one value and that value must be a key.  The loop stops at *)
(* the first authority that fails; the Secrets it got to are tracked.      *)
(***************************************************************************)
\* Mutant of SecretKeys: the values are neither counted nor validated.
AnySecretData(s) ==
    IF Head(secrets[s]) = NoSecret THEN {} ELSE Head(secrets[s])

SecretKeys(s) == {k \in Keys : Head(secrets[s]) = {k}}

AuthorityKeys(a, kmsUp) ==
    CASE a.kind = "data" -> {a.ref}
      [] a.kind = "secret" -> SecretKeys(a.ref)
      [] OTHER -> {k \in Keys : kmsUp /\ k = KMSKey[a.ref]}

Visited(spec, kmsUp) ==
    {i \in DOMAIN spec : \A j \in 1..i-1 : AuthorityKeys(spec[j], kmsUp) # {}}

Inlines(spec, kmsUp) ==
    \A i \in DOMAIN spec : AuthorityKeys(spec[i], kmsUp) # {}

InlinedEntry(spec) ==
    UNION {AuthorityKeys(spec[i], TRUE) : i \in DOMAIN spec}

SecretsOf(spec, visited) ==
    {spec[i].ref : i \in {j \in visited : spec[j].kind = "secret"}}

-----------------------------------------------------------------------------
(***************************************************************************)
(* The steps of one reconcile.                                             *)
(***************************************************************************)
Goto(c, w) == work' = [work EXCEPT ![c] = w] /\ UNCHANGED dirty

\* The reconcile of c returned nil, or an error: then it is queued again.
Finish(c) == Goto(c, Idle)
Fail(c) == work' = [work EXCEPT ![c] = Idle] /\ dirty' = dirty \cup {c}

Fault == faults < MaxFaults /\ faults' = faults + 1

\* Reconcile up to the choice of ReconcileKind or FinalizeKind.
Take(c) ==
    /\ c \in dirty
    /\ work[c].pc = "idle"
    /\ dirty' = dirty \ {c}
    /\ work' = [work EXCEPT ![c] =
          CASE Cached(c).phase = "absent" -> Idle
            [] Cached(c).phase \in {"bare", "held"} ->
                 [Idle EXCEPT !.pc = "setFinalizer", !.res = Cached(c)]
            [] OTHER ->
                 [Idle EXCEPT !.pc = "readMap", !.res = Cached(c),
                              !.want = "finalize"]]
    /\ UNCHANGED <<cips, secrets, cm, tracked, edits, faults>>

\* The object with the finalizer added, or taken off: one that is being deleted
\* is then gone.
WithFinalizer(o, desired) ==
    CASE desired -> [o EXCEPT !.phase = "held"]
      [] ~desired /\ o.phase = "deleting" -> AbsentObject
      [] OTHER -> [o EXCEPT !.phase = "bare"]

(***************************************************************************)
(* updateFinalizersFiltered: reads the CIP from the lister again.  The     *)
(* patch carries that copy's resourceVersion, so the API server refuses it *)
(* when the copy is not the newest one.  A call that is lost may or may    *)
(* not have been carried out.                                              *)
(***************************************************************************)
PatchFinalizers(c, desired) ==
    /\ ~Lagging(cips[c])
    /\ cips' = [cips EXCEPT ![c] = Push(@, WithFinalizer(Cached(c), desired))]

updateFinalizersFiltered(c, desired, outcome) ==
    \/ /\ outcome = "error"
       /\ Cached(c).phase = "absent"
       /\ UNCHANGED <<cips, faults>>
    \/ /\ outcome = "same"
       /\ Cached(c).phase # "absent"
       /\ Finalized(Cached(c)) = desired
       /\ UNCHANGED <<cips, faults>>
    \/ /\ outcome = "updated"
       /\ Cached(c).phase # "absent"
       /\ Finalized(Cached(c)) # desired
       /\ PatchFinalizers(c, desired)
       /\ UNCHANGED faults
    \/ /\ outcome = "error"
       /\ Cached(c).phase # "absent"
       /\ Finalized(Cached(c)) # desired
       /\ \/ Lagging(cips[c]) /\ UNCHANGED <<cips, faults>>
          \/ Fault /\ (UNCHANGED cips \/ PatchFinalizers(c, desired))

\* Mutant of setFinalizerIfFinalizer: its error is dropped.
IgnoreFinalizerError(c) ==
    /\ work[c].pc = "setFinalizer"
    /\ \E outcome \in {"same", "updated", "error"} :
         updateFinalizersFiltered(c, TRUE, outcome)
    /\ Goto(c, [work[c] EXCEPT !.pc = "inline"])
    /\ UNCHANGED <<secrets, cm, tracked, edits>>

setFinalizerIfFinalizer(c) ==
    /\ work[c].pc = "setFinalizer"
    /\ \/ /\ updateFinalizersFiltered(c, TRUE, "same")
          /\ Goto(c, [work[c] EXCEPT !.pc = "inline"])
       \/ /\ updateFinalizersFiltered(c, TRUE, "updated")
          /\ Goto(c, [work[c] EXCEPT !.pc = "inline",
                                     !.res = WithFinalizer(Cached(c), TRUE)])
       \/ /\ updateFinalizersFiltered(c, TRUE, "error")
          /\ Fail(c)
    /\ UNCHANGED <<secrets, cm, tracked, edits>>

\* inlinePublicKeys, and with it the choice between writing the entry and
\* handleCIPError.
inlinePublicKeys(c) ==
    /\ work[c].pc = "inline"
    /\ \E kmsUp \in BOOLEAN :
         LET spec == work[c].res.spec IN
         /\ IF kmsUp THEN UNCHANGED faults
            ELSE Fault /\ \E i \in DOMAIN spec : spec[i].kind = "kms"
         /\ tracked' = tracked \cup
               ({c} \X SecretsOf(spec, Visited(spec, kmsUp)))
         /\ Goto(c, IF Inlines(spec, kmsUp)
                    THEN [work[c] EXCEPT !.pc = "readMap", !.want = "put",
                                         !.entry = InlinedEntry(spec)]
                    ELSE [work[c] EXCEPT !.pc = "readMap", !.want = "drop"])
    /\ UNCHANGED <<cips, secrets, cm, edits>>

\* Mutant of Return: FinalizeKind only logs the error of removeCIPEntry.
ReleaseAnyway(c, w, ok) ==
    CASE w.want = "put" /\ ok -> Finish(c)
      [] w.want = "finalize" ->
            Goto(c, [w EXCEPT !.pc = "clearFinalizer", !.want = "release"])
      [] OTHER -> Fail(c)

\* What follows the attempt on the ConfigMap: handleCIPError only logs and the
\* error about the CIP is returned; FinalizeKind's result decides what happens
\* to the finalizer.
Return(c, w, ok) ==
    CASE w.want = "put" /\ ok -> Finish(c)
      [] w.want = "finalize" ->
            Goto(c, [w EXCEPT !.pc = "clearFinalizer",
                              !.want = IF ok THEN "release" ELSE "keep"])
      [] OTHER -> Fail(c)

\* The lister's copy of the ConfigMap; with no patch to send there is no call.
readMap(c) ==
    /\ work[c].pc = "readMap"
    /\ LET w == [work[c] EXCEPT !.pc = "writeMap", !.existing = CachedMap] IN
       IF Request(c, w.want, w.existing, w.entry).op = "none"
       THEN Return(c, w, TRUE)
       ELSE Goto(c, w)
    /\ UNCHANGED <<cips, secrets, cm, tracked, edits, faults>>

writeMap(c) ==
    /\ work[c].pc = "writeMap"
    /\ LET w == work[c]
           p == Request(c, w.want, w.existing, w.entry)
           Applied == Accepts(p, ServerMap) /\ cm' = Push(cm, Apply(p, ServerMap))
       IN \/ Applied /\ Return(c, w, TRUE) /\ UNCHANGED faults
          \/ /\ ~Accepts(p, ServerMap)
             /\ Return(c, w, FALSE)
             /\ UNCHANGED <<cm, faults>>
          \/ /\ Fault
             /\ Return(c, w, FALSE)
             /\ Applied \/ UNCHANGED cm
    /\ UNCHANGED <<cips, secrets, tracked, edits>>

\* The finalizer goes only after a FinalizeKind that returned nil.
clearFinalizer(c) ==
    /\ work[c].pc = "clearFinalizer"
    /\ \E outcome \in {"same", "updated", "error"} :
         /\ updateFinalizersFiltered(c, work[c].want = "keep", outcome)
         /\ IF work[c].want = "release" /\ outcome # "error"
            THEN Finish(c) ELSE Fail(c)
    /\ UNCHANGED <<secrets, cm, tracked, edits>>

-----------------------------------------------------------------------------
(***************************************************************************)
(* Informers: the cache moves to the next version and the handler that     *)
(* NewController registered for it runs.                                   *)
(***************************************************************************)
CIPEvent(c) ==
    /\ Lagging(cips[c])
    /\ cips' = [cips EXCEPT ![c] = Tail(@)]
    /\ dirty' = dirty \cup {c}
    /\ UNCHANGED <<secrets, cm, work, tracked, edits, faults>>

\* tracker.OnChanged
SecretEvent(s) ==
    /\ Lagging(secrets[s])
    /\ secrets' = [secrets EXCEPT ![s] = Tail(@)]
    /\ dirty' = dirty \cup {c \in CIPs : <<c, s>> \in tracked}
    /\ UNCHANGED <<cips, cm, work, tracked, edits, faults>>

\* Mutant of MapEvent: nothing is resynchronised when the ConfigMap changes.
NoGlobalResync ==
    /\ Lagging(cm)
    /\ cm' = Tail(cm)
    /\ UNCHANGED <<cips, secrets, dirty, work, tracked, edits, faults>>

\* GlobalResync: every CIP the lister knows is queued.
MapEvent ==
    /\ Lagging(cm)
    /\ cm' = Tail(cm)
    /\ dirty' = dirty \cup {c \in CIPs : Cached(c).phase # "absent"}
    /\ UNCHANGED <<cips, secrets, work, tracked, edits, faults>>

\* The controller dies and starts again: running reconciles, the queue and the
\* tracker are lost; the informers list the server and queue what they find.
Restart ==
    /\ Fault
    /\ cips' = [c \in CIPs |-> <<Server(c)>>]
    /\ secrets' = [s \in Secrets |-> <<Last(secrets[s])>>]
    /\ cm' = <<ServerMap>>
    /\ work' = [c \in CIPs |-> Idle]
    /\ dirty' = {c \in CIPs : Server(c).phase # "absent"}
    /\ tracked' = {}
    /\ UNCHANGED edits

-----------------------------------------------------------------------------
(***************************************************************************)
(* The users of the cluster.                                               *)
(***************************************************************************)
Edit == edits < MaxEdits /\ edits' = edits + 1

EditCIP(c, o) ==
    /\ Edit
    /\ cips' = [cips EXCEPT ![c] = Push(@, o)]
    /\ UNCHANGED <<secrets, cm, dirty, work, tracked, faults>>

CreateCIP(c) ==
    /\ Server(c).phase = "absent"
    /\ \E spec \in Specs :
         EditCIP(c, [phase |-> "bare", spec |-> spec])

UpdateCIP(c) ==
    /\ Server(c).phase # "absent"
    /\ \E spec \in Specs \ {Server(c).spec} :
         EditCIP(c, [Server(c) EXCEPT !.spec = spec])

DeleteCIP(c) ==
    /\ Server(c).phase \in {"bare", "held"}
    /\ EditCIP(c, IF Server(c).phase = "held"
                  THEN [Server(c) EXCEPT !.phase = "deleting"]
                  ELSE AbsentObject)

EditSecret(s) ==
    /\ Edit
    /\ \E v \in ({NoSecret} \cup SecretData) \ {Last(secrets[s])} :
         secrets' = [secrets EXCEPT ![s] = Push(@, v)]
    /\ UNCHANGED <<cips, cm, dirty, work, tracked, faults>>

\* Somebody else removes an entry of the ConfigMap, or the ConfigMap.
EditMap ==
    /\ Edit
    /\ ServerMap.kind # "absent"
    /\ \/ MapDeletable /\ cm' = Push(cm, NoMap)
       \/ \E c \in CIPs :
            /\ ServerMap.data[c] # NoEntry
            /\ cm' = Push(cm, [ServerMap EXCEPT !.data[c] = NoEntry])
    /\ UNCHANGED <<cips, secrets, dirty, work, tracked, faults>>

-----------------------------------------------------------------------------
Reconcile(c) ==
    \/ Take(c)
    \/ setFinalizerIfFinalizer(c)
    \/ inlinePublicKeys(c)
    \/ readMap(c)
    \/ writeMap(c)
    \/ clearFinalizer(c)

Users ==
    \/ \E c \in CIPs : CreateCIP(c) \/ UpdateCIP(c) \/ DeleteCIP(c)
    \/ \E s \in Secrets : EditSecret(s)
    \/ EditMap

Next ==
    \/ \E c \in CIPs : Reconcile(c) \/ CIPEvent(c)
    \/ \E s \in Secrets : SecretEvent(s)
    \/ MapEvent
    \/ Restart
    \/ Users

Spec == Init /\ [][Next]_vars

\* The work queue hands out every name in it and informers keep watching;
\* users and faults owe nothing.
Fairness ==
    /\ \A c \in CIPs : WF_vars(Reconcile(c)) /\ WF_vars(CIPEvent(c))
    /\ \A s \in Secrets : WF_vars(SecretEvent(s))
    /\ WF_vars(MapEvent)

FairSpec == Spec /\ Fairness

-----------------------------------------------------------------------------
(***************************************************************************)
(* Properties.                                                             *)
(***************************************************************************)

\* An entry is only ever written for a CIP that carries the finalizer on the
\* API server at that moment, so that its deletion will pass by FinalizeKind:
\* Reconcile sets the finalizer before it calls ReconcileKind, from a lister
\* that may be several versions behind.
FinalizerGuardsEntry ==
    [][\A c \in CIPs :
          ServerMap'.data[c] \notin {NoEntry, ServerMap.data[c]}
             => Finalized(Server(c))]_vars

\* A CIP with the finalizer leaves the API server only when its entry has left
\* the ConfigMap, or when the copy of the ConfigMap that FinalizeKind read had
\* no such entry: a removal that failed or was lost keeps the finalizer.
FinalizerHeldUntilClean ==
    [][\A c \in CIPs :
          Finalized(Server(c)) /\ Server(c)'.phase = "absent"
             => NoEntry \in {ServerMap.data[c], work[c].existing.data[c]}]_vars

\* In the end a CIP that is gone has no entry in the ConfigMap.
NoOrphanedEntry ==
    \A c \in CIPs :
       Server(c).phase = "absent" => ServerMap.data[c] = NoEntry

OrphansRemoved == <>[]NoOrphanedEntry

\* When users and faults leave it alone, the controller brings the ConfigMap to
\* the entries of the live CIPs that can be inlined, drops those that cannot,
\* lets go of every CIP being deleted, and stops writing.
Converged ==
    /\ ~Lagging(cm)
    /\ \A s \in Secrets : ~Lagging(secrets[s])
    /\ \A c \in CIPs :
         /\ ~Lagging(cips[c])
         /\ Server(c).phase # "deleting"
         /\ Server(c).phase # "absent" =>
              ServerMap.data[c] = IF Inlines(Server(c).spec, TRUE)
                                  THEN InlinedEntry(Server(c).spec)
                                  ELSE NoEntry

EventuallyConverged == <>[]Converged

\* As long as the ConfigMap keeps the _example key it is shipped with, the
\* reconciles, whatever they read, change the ConfigMap one entry at a time,
\* their own, and write an entry only under the finalizer.
Table == INSTANCE PolicyTable
             WITH table <- ServerMap.data,
                  guarded <- [c \in CIPs |-> Finalized(Server(c))]

ImplementsPolicyTable == Table!TableSpec
=============================================================================
