---------------------- MODULE FinalizerRelease_proofs ----------------------
(***************************************************************************)
(* The finalizer goes only when the entry is gone.  A FinalizeKind that is *)
(* about to release has removed the entry, or has seen none; the steps of  *)
(* others in between can only take it away.                                *)
(***************************************************************************)
EXTENDS ImagePolicyReconciler_proofs

AbsentEmpty(m) == m.kind = "absent" => \A c \in CIPs : m.data[c] = NoEntry

Clean(c) == NoEntry \in {ServerMap.data[c], work[c].existing.data[c]}

HeldInv ==
    /\ \A i \in 1..Len(cm) : AbsentEmpty(cm[i])
    /\ \A c \in CIPs : work[c].want = "release" => Clean(c)

\* A ConfigMap that does not exist has no entries, in any of its versions.
LEMMA AbsentStep ==
    ASSUME IInv, [Next]_vars, \A i \in 1..Len(cm) : AbsentEmpty(cm[i])
    PROVE  \A i \in 1..Len(cm') : AbsentEmpty(cm'[i])
  <1>1. /\ cm \in Seq(ConfigMaps) /\ Len(cm) \in 1..MaxLag
        /\ ServerMap \in ConfigMaps /\ AbsentEmpty(ServerMap)
    BY EndFacts DEF IInv, TypeOK, ServerMap
  <1>2. ASSUME NEW m \in ConfigMaps, AbsentEmpty(m), cm' = Push(cm, m)
        PROVE  \A i \in 1..Len(cm') : AbsentEmpty(cm'[i])
    <2> DEFINE new == Push(cm, m)
    <2>1. /\ Len(new) \in 2..MaxLag /\ Last(new) = m
          /\ \A i \in 1..Len(new) :
                i < Len(new) => i \in 1..Len(cm) /\ new[i] = cm[i]
      BY <1>1, PushFacts
    <2> HIDE DEF new
    <2>2. \A i \in 1..Len(new) : AbsentEmpty(new[i])
      BY <1>2, <2>1 DEF Last
    <2>3. QED BY <1>2, <2>2 DEF new
  <1>3. CASE UNCHANGED cm
    BY <1>3
  <1>4. ASSUME NEW c \in CIPs, writeMap(c), cm' # cm
        PROVE  \A i \in 1..Len(cm') : AbsentEmpty(cm'[i])
    <2> DEFINE w == work[c]
               p == Request(c, w.want, w.existing, w.entry)
    <2>1. /\ w.pc = "writeMap" /\ Accepts(p, ServerMap)
          /\ cm' = Push(cm, Apply(p, ServerMap))
      BY <1>4 DEF writeMap
    <2>2. Apply(p, ServerMap) \in ConfigMaps
      BY <2>1, WriteMapType
    <2> HIDE DEF p
    <2>3. Apply(p, ServerMap).kind # "absent"
      <3>1. CASE p.op \in {"create", "addData", "removeData"}
        BY <3>1 DEF Apply, EmptyMap
      <3>2. CASE p.op \notin {"create", "addData", "removeData"}
        BY <1>1, <2>1, <3>2 DEF Apply, Accepts, ConfigMaps
      <3>3. QED BY <3>1, <3>2
    <2> DEFINE m == Apply(p, ServerMap)
    <2>4. m \in ConfigMaps /\ AbsentEmpty(m) /\ cm' = Push(cm, m)
      BY <2>1, <2>2, <2>3 DEF AbsentEmpty
    <2> HIDE DEF m
    <2>5. QED BY <1>2, <2>4
  <1>5. CASE MapEvent
    <2> DEFINE new == Tail(cm)
    <2>1. Len(new) = Len(cm) - 1 /\ \A i \in 1..Len(new) : new[i] = cm[i + 1]
      BY <1>1, <1>5, TailFacts DEF MapEvent
    <2>2. cm' = new
      BY <1>5 DEF MapEvent
    <2> HIDE DEF new
    <2>3. \A i \in 1..Len(new) : i + 1 \in 1..Len(cm)
      BY <1>1, <2>1
    <2>4. QED BY <2>1, <2>2, <2>3
  <1>6. CASE Restart
    BY <1>1, <1>6 DEF Restart
  <1>7. CASE EditMap
    <2>1. NoMap \in ConfigMaps /\ AbsentEmpty(NoMap)
      BY DEF NoMap, NoData, ConfigMaps, AbsentEmpty
    <2>2. ASSUME NEW c \in CIPs
          PROVE  /\ [ServerMap EXCEPT !.data[c] = NoEntry] \in ConfigMaps
                 /\ AbsentEmpty([ServerMap EXCEPT !.data[c] = NoEntry])
      BY <1>1 DEF ConfigMaps, AbsentEmpty
    <2>3. \/ cm' = Push(cm, NoMap)
          \/ \E c \in CIPs : cm' = Push(cm, [ServerMap EXCEPT !.data[c] = NoEntry])
      BY <1>7 DEF EditMap
    <2>4. QED BY <1>2, <2>1, <2>2, <2>3
  <1>8. QED BY <1>3, <1>4, <1>5, <1>6, <1>7, MapWriters

\* An entry that is missing stays missing unless its own reconcile puts it.
LEMMA StaysMissing ==
    ASSUME IInv, [Next]_vars, NEW c \in CIPs, ServerMap.data[c] = NoEntry,
           ~(writeMap(c) /\ work[c].want = "put")
    PROVE  ServerMap'.data[c] = NoEntry
  <1>1. ServerMap \in ConfigMaps
    BY EndFacts DEF IInv, TypeOK, ServerMap
  <1>2. ASSUME NEW d \in CIPs, writeMap(d),
               LET w == work[d]
                   p == Request(d, w.want, w.existing, w.entry)
               IN ServerMap' = Apply(p, ServerMap)
        PROVE  ServerMap'.data[c] = NoEntry
    <2> DEFINE w == work[d]
               p == Request(d, w.want, w.existing, w.entry)
    <2>1. /\ p.cip = d /\ p.entry \in {NoEntry} \cup Entries
          /\ w.want # "put" => p.entry = NoEntry
      BY <1>2, WriteMapType DEF writeMap
    <2>2. ServerMap' = Apply(p, ServerMap)
      BY <1>2
    <2> HIDE DEF p
    <2>3. QED BY <1>1, <1>2, <2>1, <2>2, ApplyFacts
  <1>3. NoMap.data[c] = NoEntry
    BY DEF NoMap, NoData
  <1>4. \A d \in CIPs : [ServerMap EXCEPT !.data[d] = NoEntry].data[c] = NoEntry
    BY <1>1 DEF ConfigMaps
  <1>5. QED BY <1>2, <1>3, <1>4, ServerMapStep

\* How a reconcile comes to be about to release the finalizer.
LEMMA ReleaseStep ==
    ASSUME IInv, [Next]_vars, NEW c \in CIPs, work'[c].want = "release"
    PROVE  \/ work'[c] = work[c]
           \/ /\ readMap(c) /\ work'[c].existing = CachedMap /\ work[c].want = "finalize"
              /\ Request(c, "finalize", CachedMap, work[c].entry).op = "none"
           \/ /\ writeMap(c) /\ work[c].want = "finalize"
              /\ LET p == Request(c, work[c].want, work[c].existing, work[c].entry)
                 IN cm' = Push(cm, Apply(p, ServerMap))
  <1>1. work[c] \in Works /\ DOMAIN work = CIPs /\ work \in [CIPs -> Works]
    BY DEF IInv, TypeOK
  <1>2. CASE work' = work
    BY <1>2
  <1>3. CASE Restart
    BY <1>3 DEF Restart, Idle
  <1>4. ASSUME NEW d \in CIPs, d # c, Reconcile(d)
        PROVE  work'[c] = work[c]
    BY <1>1, <1>4 DEF Reconcile, Take, setFinalizerIfFinalizer,
       inlinePublicKeys, readMap, writeMap, clearFinalizer, Return, Goto,
       Finish, Fail
  <1>5. CASE Reconcile(c)
    <2>a. WorkOK(work[c])
      BY DEF IInv
    <2>1. CASE Take(c)
      BY <1>1, <2>1 DEF Take, Idle
    <2>2. CASE setFinalizerIfFinalizer(c)
      <3>1. work[c].want = "none"
        BY <2>2, <2>a DEF setFinalizerIfFinalizer, WorkOK
      <3>2. CASE Goto(c, [work[c] EXCEPT !.pc = "inline"])
        BY <1>1, <3>1, <3>2 DEF Goto, Works
      <3>3. CASE Goto(c, [work[c] EXCEPT !.pc = "inline",
                                         !.res = WithFinalizer(Cached(c), TRUE)])
        BY <1>1, <3>1, <3>3 DEF Goto, Works
      <3>4. CASE Fail(c)
        BY <1>1, <3>4 DEF Fail, Idle
      <3>5. QED BY <2>2, <3>2, <3>3, <3>4 DEF setFinalizerIfFinalizer
    <2>3. CASE inlinePublicKeys(c)
      BY <1>1, <2>3 DEF inlinePublicKeys, Goto, Works
    <2>4. CASE readMap(c)
      <3> DEFINE w == [work[c] EXCEPT !.pc = "writeMap", !.existing = CachedMap]
      <3>1. /\ w.want = work[c].want /\ w.existing = CachedMap /\ w.entry = work[c].entry
            /\ work[c].pc = "readMap"
        BY <1>1, <2>4 DEF Works, readMap
      <3>2. work[c].want \in {"put", "drop", "finalize"}
        BY <2>a, <3>1 DEF WorkOK
      <3>3. CASE Goto(c, w)
        BY <1>1, <3>1, <3>2, <3>3 DEF Goto
      <3>4. CASE Return(c, w, TRUE) /\ Request(c, w.want, w.existing, w.entry).op = "none"
        <4>1. w.want = "finalize"
          BY <1>1, <3>2, <3>4 DEF Return, Finish, Fail, Goto, Idle
        <4>2. work'[c] = [w EXCEPT !.pc = "clearFinalizer", !.want = "release"]
          BY <1>1, <3>4, <4>1 DEF Return, Goto
        <4>3. w \in [pc : Steps, res : Objects, want : Wants,
                     entry : {NoEntry} \cup Entries, existing : {CachedMap}]
          BY <1>1 DEF Works, Steps
        <4>4. work'[c].existing = CachedMap
          BY <3>1, <4>2, <4>3
        <4>5. QED BY <2>4, <3>1, <3>4, <4>1, <4>4
      <3>5. QED BY <2>4, <3>3, <3>4 DEF readMap
    <2>5. CASE writeMap(c)
      <3> DEFINE w == work[c]
                 p == Request(c, w.want, w.existing, w.entry)
      <3>1. /\ w.pc = "writeMap"
            /\ \/ Return(c, w, TRUE) /\ cm' = Push(cm, Apply(p, ServerMap))
               \/ Return(c, w, FALSE)
        BY <2>5 DEF writeMap
      <3>2. w.want \in {"put", "drop", "finalize"}
        BY <2>a, <3>1 DEF WorkOK
      <3>3. CASE Return(c, w, FALSE)
        <4>1. CASE w.want = "finalize"
          <5>1. work'[c] = [w EXCEPT !.pc = "clearFinalizer", !.want = "keep"]
            BY <1>1, <3>3, <4>1 DEF Return, Goto
          <5>2. work'[c].want = "keep"
            BY <1>1, <5>1 DEF Works
          <5>3. QED BY <5>2
        <4>2. CASE w.want # "finalize"
          <5>1. work'[c] = Idle
            BY <1>1, <3>3, <4>2 DEF Return, Finish, Fail, Goto
          <5>2. QED BY <5>1 DEF Idle
        <4>3. QED BY <4>1, <4>2
      <3>4. CASE Return(c, w, TRUE) /\ cm' = Push(cm, Apply(p, ServerMap))
        <4>1. w.want = "finalize"
          BY <1>1, <3>2, <3>4 DEF Return, Finish, Fail, Goto, Idle
        <4>2. QED BY <2>5, <3>4, <4>1
      <3>5. QED BY <3>1, <3>3, <3>4
    <2>6. CASE clearFinalizer(c)
      BY <1>1, <2>6 DEF clearFinalizer, Goto, Finish, Fail, Idle
    <2>7. QED BY <1>5, <2>1, <2>2, <2>3, <2>4, <2>5, <2>6 DEF Reconcile
  <1>6. ASSUME \/ Users \/ MapEvent \/ UNCHANGED vars
               \/ \E d \in CIPs : CIPEvent(d)
               \/ \E s \in Secrets : SecretEvent(s)
        PROVE  work' = work
    BY <1>6 DEF Users, CreateCIP, UpdateCIP, DeleteCIP, EditCIP, EditSecret,
                EditMap, MapEvent, CIPEvent, SecretEvent, vars
  <1>7. QED BY <1>2, <1>3, <1>4, <1>5, <1>6 DEF Next

LEMMA HeldStep ==
    ASSUME IInv, HeldInv, [Next]_vars
    PROVE  HeldInv'
  <1>1. \A i \in 1..Len(cm') : AbsentEmpty(cm'[i])
    BY AbsentStep DEF HeldInv
  <1>2. ASSUME NEW c \in CIPs, work'[c].want = "release"
        PROVE  Clean(c)'
    <2>1. CASE work'[c] = work[c]
      <3>1. NoEntry \in {ServerMap.data[c], work[c].existing.data[c]}
        BY <1>2, <2>1 DEF HeldInv, Clean
      <3>2. work[c].want # "put"
        BY <1>2, <2>1
      <3>3. QED BY <2>1, <3>1, <3>2, StaysMissing DEF Clean
    <2>2. CASE /\ readMap(c) /\ work'[c].existing = CachedMap /\ work[c].want = "finalize"
               /\ Request(c, "finalize", CachedMap, work[c].entry).op = "none"
      <3>1. AbsentEmpty(CachedMap)
        BY EndFacts DEF HeldInv, IInv, TypeOK, CachedMap
      <3>2. CASE CachedMap.kind = "absent"
        BY <2>2, <3>1, <3>2 DEF AbsentEmpty, Clean
      <3>3. CASE CachedMap.kind # "absent"
        <4>1. CachedMap.data[c] = NoEntry
          BY <2>2, <3>3 DEF Request, CreateRemovePatch, Patch
        <4>2. QED BY <2>2, <4>1 DEF Clean
      <3>4. QED BY <3>2, <3>3
    <2>3. CASE /\ writeMap(c) /\ work[c].want = "finalize"
               /\ LET p == Request(c, work[c].want, work[c].existing, work[c].entry)
                  IN cm' = Push(cm, Apply(p, ServerMap))
      <3> DEFINE p == Request(c, work[c].want, work[c].existing, work[c].entry)
      <3>1. /\ p.cip = c /\ p.entry = NoEntry /\ ServerMap \in ConfigMaps
            /\ Last(Push(cm, Apply(p, ServerMap))) = Apply(p, ServerMap)
        BY <2>3, WriteMapType DEF writeMap
      <3>2. cm' = Push(cm, Apply(p, ServerMap))
        BY <2>3
      <3> HIDE DEF p
      <3>3. ServerMap' = Apply(p, ServerMap)
        BY <3>1, <3>2 DEF ServerMap
      <3>4. ServerMap'.data[c] = NoEntry
        BY <3>1, <3>3, ApplyFacts
      <3>5. QED BY <3>4 DEF Clean
    <2>4. QED BY <1>2, <2>1, <2>2, <2>3, ReleaseStep
  <1>3. QED BY <1>1, <1>2 DEF HeldInv

\* A CIP with the finalizer leaves only by clearFinalizer, after a FinalizeKind
\* that returned nil.
LEMMA LeavesReleased ==
    ASSUME IInv, [Next]_vars, NEW c \in CIPs, Finalized(Server(c)),
           Server(c)'.phase = "absent"
    PROVE  work[c].want = "release"
  <1>1. /\ cips[c] \in Seq(Objects) /\ Len(cips[c]) \in 1..MaxLag
        /\ Server(c) \in Objects /\ Cached(c) \in Objects /\ DOMAIN cips = CIPs
    BY Reads DEF IInv, TypeOK
  <1>2. ASSUME NEW v \in Objects PROVE Last(Push(cips[c], v)) = v
    <2> DEFINE log == cips[c]
    <2>1. log \in Seq(Objects) /\ Len(log) \in 1..MaxLag
      BY <1>1
    <2> HIDE DEF log
    <2>2. Last(Push(log, v)) = v
      BY <2>1, PushFacts
    <2>3. QED BY <2>2 DEF log
  <1>3. Server(c)' = Last(cips'[c])
    BY DEF Server
  <1>4. cips'[c] # cips[c]
    BY <1>3 DEF Finalized, Server
  <1>5. ASSUME NEW desired \in BOOLEAN, PatchFinalizers(c, desired)
        PROVE  ~desired
    <2> SUFFICES ASSUME desired PROVE FALSE
      OBVIOUS
    <2>1. WithFinalizer(Cached(c), TRUE) = [Cached(c) EXCEPT !.phase = "held"]
      BY DEF WithFinalizer
    <2>2. WithFinalizer(Cached(c), TRUE) \in Objects
          /\ WithFinalizer(Cached(c), TRUE).phase = "held"
      BY <1>1, <2>1 DEF Objects
    <2>3. cips'[c] = Push(cips[c], WithFinalizer(Cached(c), TRUE))
      BY <1>1, <1>5 DEF PatchFinalizers
    <2>4. QED BY <1>2, <1>3, <2>2, <2>3
  <1>6. ASSUME NEW d \in CIPs, setFinalizerIfFinalizer(d) PROVE FALSE
    <2>1. cips' = cips \/ PatchFinalizers(d, TRUE)
      BY <1>6 DEF setFinalizerIfFinalizer, updateFinalizersFiltered
    <2>2. d = c /\ PatchFinalizers(c, TRUE)
      BY <1>1, <1>4, <2>1 DEF PatchFinalizers
    <2>3. QED BY <1>5, <2>2
  <1>7. ASSUME NEW d \in CIPs, clearFinalizer(d) PROVE work[c].want = "release"
    <2>1. cips' = cips \/ PatchFinalizers(d, work[d].want = "keep")
      BY <1>7 DEF clearFinalizer, updateFinalizersFiltered
    <2>2. d = c /\ PatchFinalizers(c, work[c].want = "keep")
      BY <1>1, <1>4, <2>1 DEF PatchFinalizers
    <2>3. work[c].want # "keep"
      BY <1>5, <2>2
    <2>4. QED BY <1>7, <2>2, <2>3 DEF clearFinalizer, IInv, WorkOK
  <1>8. ASSUME NEW d \in CIPs, CIPEvent(d) PROVE FALSE
    <2>1. d = c /\ cips'[c] = Tail(cips[c]) /\ Lagging(cips[c])
      BY <1>1, <1>4, <1>8 DEF CIPEvent
    <2>2. Last(Tail(cips[c])) = Last(cips[c])
      BY <1>1, <2>1, TailFacts
    <2>3. QED BY <1>3, <2>1, <2>2 DEF Server, Finalized
  <1>9. ASSUME NEW d \in CIPs, CreateCIP(d) \/ UpdateCIP(d) \/ DeleteCIP(d) PROVE FALSE
    <2>1. PICK o : cips' = [cips EXCEPT ![d] = Push(cips[d], o)]
      BY <1>9 DEF CreateCIP, UpdateCIP, DeleteCIP, EditCIP
    <2>2. d = c
      BY <1>1, <1>4, <2>1
    <2>3. ASSUME NEW v \in Objects, v.phase # "absent", EditCIP(c, v) PROVE FALSE
      BY <1>1, <1>2, <1>3, <2>3 DEF EditCIP
    <2>4. CASE CreateCIP(c)
      BY <2>4 DEF CreateCIP, Finalized
    <2>5. CASE UpdateCIP(c)
      <3>1. PICK spec \in Specs : EditCIP(c, [Server(c) EXCEPT !.spec = spec])
        BY <2>5 DEF UpdateCIP
      <3>2. /\ [Server(c) EXCEPT !.spec = spec] \in Objects
            /\ [Server(c) EXCEPT !.spec = spec].phase # "absent"
        BY <1>1 DEF Objects, Finalized
      <3>3. QED BY <2>3, <3>1, <3>2
    <2>6. CASE DeleteCIP(c)
      <3>1. EditCIP(c, [Server(c) EXCEPT !.phase = "deleting"])
        BY <2>6 DEF DeleteCIP, Finalized
      <3>2. /\ [Server(c) EXCEPT !.phase = "deleting"] \in Objects
            /\ [Server(c) EXCEPT !.phase = "deleting"].phase # "absent"
        BY <1>1 DEF Objects
      <3>3. QED BY <2>3, <3>1, <3>2
    <2>7. QED BY <1>9, <2>2, <2>4, <2>5, <2>6
  <1>10. CASE Restart
    <2>1. cips'[c] = <<Server(c)>>
      BY <1>10 DEF Restart
    <2>2. Last(<<Server(c)>>) = Server(c)
      BY DEF Last
    <2>3. QED BY <1>3, <2>1, <2>2 DEF Finalized
  <1>11. ASSUME \/ EditMap \/ MapEvent \/ UNCHANGED vars
                \/ \E s \in Secrets : EditSecret(s) \/ SecretEvent(s)
                \/ \E d \in CIPs : Take(d) \/ inlinePublicKeys(d)
                                    \/ readMap(d) \/ writeMap(d)
         PROVE  FALSE
    BY <1>4, <1>11 DEF EditMap, MapEvent, vars, EditSecret, SecretEvent, Take,
                inlinePublicKeys, readMap, writeMap
  <1>12. QED BY <1>6, <1>7, <1>8, <1>9, <1>10, <1>11 DEF Next, Users, Reconcile

\* A removal that failed or was lost keeps the finalizer: a CIP leaves the API
\* server only when its entry is gone, or was missing in the copy FinalizeKind read.
THEOREM HeldUntilClean == Spec => FinalizerHeldUntilClean
  <1> DEFINE Left == \A c \in CIPs :
                Finalized(Server(c)) /\ Server(c)'.phase = "absent"
                   => NoEntry \in {ServerMap.data[c], work[c].existing.data[c]}
  <1>1. Init => HeldInv
    <2> SUFFICES ASSUME Init PROVE HeldInv
      OBVIOUS
    <2>1. \A m \in InitMaps : AbsentEmpty(m)
      BY ReconcilerAssumption DEF AbsentEmpty, NoMap, EmptyMap, ShippedMap, NoData
    <2>2. QED BY <2>1 DEF Init, HeldInv, Idle
  <1>2. IInv /\ HeldInv /\ [Next]_vars => HeldInv'
    BY HeldStep
  <1>3. IInv /\ HeldInv /\ [Next]_vars => [Left]_vars
    BY LeavesReleased DEF HeldInv, Clean
  <1>4. QED BY <1>1, <1>2, <1>3, Invariance, PTL DEF Spec, FinalizerHeldUntilClean
=============================================================================
