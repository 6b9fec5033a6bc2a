-------------------- MODULE ImagePolicyReconciler_proofs --------------------
(***************************************************************************)
(* Proofs about ImagePolicyReconciler, for every set of policies, Secrets, *)
(* keys and specifications, every informer lag and any number of edits and *)
(* faults.                                                                 *)
(***************************************************************************)
EXTENDS ImagePolicyReconciler, TLAPS

-----------------------------------------------------------------------------
(***************************************************************************)
(* The inductive invariant.  A log carries the finalizer's history: once   *)
(* some version has the finalizer the later ones keep it, except that the  *)
(* cached copy may still be the deleted one whose finalizer was cleared;   *)
(* and nothing after a version being deleted is both live and finalized.   *)
(***************************************************************************)
LogOK(log) ==
    /\ \A i \in 1..Len(log) : log[i].phase # "absent" => log[i].spec \in Specs
    /\ \A i, j \in 1..Len(log) : i < j =>
         /\ Finalized(log[i]) /\ (i > 1 \/ log[i].phase # "deleting")
               => Finalized(log[j])
         /\ log[i].phase = "deleting" => log[j].phase # "held"

\* A running ReconcileKind knows the finalizer is set on the API server; a
\* running FinalizeKind knows no live version of its CIP has the finalizer.
Reconciling(w) ==
    w.pc \in {"inline", "readMap", "writeMap"} /\ w.want # "finalize"
Finalizing(w) == w.want \in {"finalize", "release", "keep"}

WorkLogOK(w, log) ==
    /\ w.pc = "setFinalizer" =>
         \A i, j \in 1..Len(log) :
            i < j /\ Finalized(log[i]) => Finalized(log[j])
    /\ Reconciling(w) => Finalized(Last(log))
    /\ Finalizing(w) => \A i \in 1..Len(log) : log[i].phase # "held"

\* What the fields of a running reconcile hold at each of its steps.
WorkOK(w) ==
    /\ w.pc # "idle" => w.res.spec \in Specs
    /\ w.pc \in {"idle", "setFinalizer", "inline"} => w.want = "none"
    /\ w.pc \in {"readMap", "writeMap"} => w.want \in {"put", "drop", "finalize"}
    /\ w.pc = "clearFinalizer" => w.want \in {"release", "keep"}
    /\ w.want = "put" => w.entry \in Entries
    /\ w.want # "put" => w.entry = NoEntry

IInv ==
    /\ TypeOK
    /\ \A c \in CIPs :
         WorkOK(work[c]) /\ LogOK(cips[c]) /\ WorkLogOK(work[c], cips[c])

-----------------------------------------------------------------------------
(***************************************************************************)
(* Logs.                                                                   *)
(***************************************************************************)

\* A version pushed on a log becomes its last one; the cached one stays.
LEMMA PushFacts ==
    ASSUME NEW S, NEW log \in Seq(S), Len(log) \in 1..MaxLag, NEW v \in S
    PROVE  /\ Push(log, v) \in Seq(S)
           /\ Len(Push(log, v)) \in 2..MaxLag
           /\ Len(Push(log, v)) >= Len(log)
           /\ Len(Push(log, v)) <= Len(log) + 1
           /\ Last(Push(log, v)) = v
           /\ \A i \in 1..Len(Push(log, v)) :
                 i < Len(Push(log, v)) =>
                    i \in 1..Len(log) /\ Push(log, v)[i] = log[i]
  <1>1. CASE Len(log) < MaxLag
    BY <1>1, ReconcilerAssumption DEF Push, Last
  <1>2. CASE ~(Len(log) < MaxLag)
    BY <1>2, ReconcilerAssumption DEF Push, Last
  <1>3. QED BY <1>1, <1>2

\* A push keeps a log a non-empty sequence no longer than MaxLag.
LEMMA PushType ==
    ASSUME NEW S, NEW log \in Seq(S), Len(log) \in 1..MaxLag, NEW v \in S
    PROVE  Push(log, v) \in Seq(S) /\ Len(Push(log, v)) \in 1..MaxLag
  BY PushFacts, ReconcilerAssumption

\* An informer event drops the cached version and keeps the newest.
LEMMA TailFacts ==
    ASSUME NEW S, NEW log \in Seq(S), Len(log) \in 1..MaxLag, Lagging(log)
    PROVE  /\ Tail(log) \in Seq(S)
           /\ Len(Tail(log)) \in 1..MaxLag
           /\ Len(Tail(log)) = Len(log) - 1
           /\ Last(Tail(log)) = Last(log)
           /\ \A i \in 1..Len(Tail(log)) : Tail(log)[i] = log[i + 1]
  BY ReconcilerAssumption DEF Last, Lagging

\* The first and the last version of a log are elements of it.
LEMMA EndFacts ==
    ASSUME NEW S, NEW log \in Seq(S), Len(log) \in 1..MaxLag
    PROVE  /\ Head(log) \in S /\ Head(log) = log[1]
           /\ Last(log) \in S /\ Last(log) = log[Len(log)]
           /\ 1 \in 1..Len(log) /\ Len(log) \in 1..Len(log)
           /\ <<Last(log)>> \in Seq(S) /\ Len(<<Last(log)>>) \in 1..MaxLag
           /\ Last(<<Last(log)>>) = Last(log)
  BY ReconcilerAssumption DEF Last

\* A user's edit keeps the finalizer and does not revive an object.
LEMMA EditKeepsLogOK ==
    ASSUME NEW log \in Seq(Objects), Len(log) \in 1..MaxLag, LogOK(log),
           NEW w, WorkLogOK(w, log),
           NEW v \in Objects, Finalized(v) <=> Finalized(Last(log)),
           v.phase = "held" => Last(log).phase = "held",
           v.phase # "absent" => v.spec \in Specs
    PROVE  LogOK(Push(log, v)) /\ WorkLogOK(w, Push(log, v))
  <1> DEFINE new == Push(log, v)
  <1>1. /\ new \in Seq(Objects) /\ Len(new) \in 2..MaxLag
        /\ Len(new) >= Len(log) /\ Last(new) = v
        /\ \A i \in 1..Len(new) :
              i < Len(new) => i \in 1..Len(log) /\ new[i] = log[i]
    BY PushFacts
  <1> HIDE DEF new
  <1>2. new[Len(new)] = v
    BY <1>1 DEF Last
  <1>3. ASSUME NEW i \in 1..Len(new), NEW j \in 1..Len(new), i < j
        PROVE  /\ Finalized(new[i]) /\ (i > 1 \/ new[i].phase # "deleting")
                     => Finalized(new[j])
               /\ new[i].phase = "deleting" => new[j].phase # "held"
    <2>1. i \in 1..Len(log) /\ new[i] = log[i]
      BY <1>1, <1>3
    <2>2. CASE j < Len(new)
      BY <1>1, <1>3, <2>1, <2>2 DEF LogOK
    <2>3. CASE j = Len(new) /\ i = Len(log)
      BY <1>2, <2>1, <2>3 DEF Last
    <2>4. CASE j = Len(new) /\ i # Len(log)
      BY <1>2, <2>1, <2>4 DEF Last, LogOK
    <2>5. QED BY <1>1, <2>2, <2>3, <2>4
  <1>4. LogOK(new)
    BY <1>1, <1>2, <1>3 DEF LogOK
  <1>5. ASSUME w.pc = "setFinalizer", NEW i \in 1..Len(new),
               NEW j \in 1..Len(new), i < j, Finalized(new[i])
        PROVE  Finalized(new[j])
    <2>1. i \in 1..Len(log) /\ new[i] = log[i]
      BY <1>1, <1>5
    <2>2. CASE j < Len(new)
      BY <1>1, <1>5, <2>1, <2>2 DEF WorkLogOK
    <2>3. CASE j = Len(new)
      BY <1>2, <1>5, <2>1, <2>3 DEF WorkLogOK, Last
    <2>4. QED BY <1>1, <2>2, <2>3
  <1>6. Reconciling(w) => Finalized(Last(new))
    BY <1>1 DEF WorkLogOK
  <1>7. ASSUME Finalizing(w), NEW i \in 1..Len(new)
        PROVE  new[i].phase # "held"
    <2>1. CASE i < Len(new)
      BY <1>1, <1>7, <2>1 DEF WorkLogOK
    <2>2. CASE i = Len(new)
      BY <1>2, <1>7, <2>2 DEF WorkLogOK, Last
    <2>3. QED BY <1>1, <2>1, <2>2
  <1>8. QED BY <1>4, <1>5, <1>6, <1>7 DEF new, WorkLogOK

\* An informer event forgets the oldest version and weakens nothing.
LEMMA EventKeepsLogOK ==
    ASSUME NEW log \in Seq(Objects), Len(log) \in 1..MaxLag, LogOK(log),
           NEW w, WorkLogOK(w, log), Lagging(log)
    PROVE  LogOK(Tail(log)) /\ WorkLogOK(w, Tail(log))
  <1> DEFINE new == Tail(log)
  <1>1. /\ Len(new) = Len(log) - 1 /\ Last(new) = Last(log)
        /\ \A i \in 1..Len(new) : new[i] = log[i + 1]
    BY TailFacts
  <1> HIDE DEF new
  <1>2. \A i \in 1..Len(new) : i + 1 \in 1..Len(log) /\ i + 1 > 1
    BY <1>1
  <1>3. ASSUME NEW i \in 1..Len(new), NEW j \in 1..Len(new), i < j
        PROVE  /\ Finalized(new[i]) => Finalized(new[j])
               /\ new[i].phase = "deleting" => new[j].phase # "held"
    <2>1. /\ i + 1 \in 1..Len(log) /\ j + 1 \in 1..Len(log)
          /\ i + 1 < j + 1 /\ i + 1 > 1
      BY <1>2, <1>3
    <2>2. Finalized(log[i + 1]) => Finalized(log[j + 1])
      BY <2>1 DEF LogOK
    <2>3. log[i + 1].phase = "deleting" => log[j + 1].phase # "held"
      BY <2>1 DEF LogOK
    <2>4. QED BY <1>1, <2>2, <2>3
  <1>4. LogOK(new)
    BY <1>1, <1>2, <1>3 DEF LogOK
  <1>5. WorkLogOK(w, new)
    BY <1>1, <1>2, <1>3 DEF WorkLogOK
  <1>6. QED BY <1>4, <1>5 DEF new

\* A single version makes a log in order.
LEMMA FreshLogOK ==
    ASSUME NEW o, o.phase # "absent" => o.spec \in Specs
    PROVE  LogOK(<<o>>)
  BY DEF LogOK

\* An idle worker promises nothing.
LEMMA IdleOK ==
    /\ Idle \in Works /\ WorkOK(Idle)
    /\ \A log : WorkLogOK(Idle, log)
  BY DEF Idle, Works, WorkOK, WorkLogOK, Reconciling, Finalizing, Objects,
         AbsentObject, Steps, Wants, NoMap, NoData, ConfigMaps

\* The finalizer patch lands only on the version that was read: setting it on
\* a bare object, or clearing it on one that is being deleted, keeps the
\* history in order.
LEMMA PatchKeepsLogOK ==
    ASSUME NEW log \in Seq(Objects), Len(log) \in 1..MaxLag, ~Lagging(log),
           LogOK(log), NEW v \in Objects,
           \/ log[1].phase = "bare" /\ v.phase = "held" /\ v.spec \in Specs
           \/ log[1].phase = "deleting" /\ v.phase = "absent"
    PROVE  LogOK(Push(log, v))
  <1> DEFINE new == Push(log, v)
  <1>1. /\ Len(new) \in 2..MaxLag /\ Len(new) <= Len(log) + 1 /\ Last(new) = v
        /\ \A i \in 1..Len(new) :
              i < Len(new) => i \in 1..Len(log) /\ new[i] = log[i]
    <2>1. Len(new) \in 2..MaxLag
      BY PushFacts
    <2>2. Len(new) <= Len(log) + 1
      BY PushFacts
    <2>3. Last(new) = v
      BY PushFacts
    <2>4. \A i \in 1..Len(new) :
             i < Len(new) => i \in 1..Len(log) /\ new[i] = log[i]
      BY PushFacts
    <2>5. QED BY <2>1, <2>2, <2>3, <2>4
  <1> HIDE DEF new
  <1>2. Len(new) <= 2 /\ Len(new) >= 2
    BY <1>1, ReconcilerAssumption DEF Lagging
  <1>3. new[1] = log[1] /\ new[2] = v
    BY <1>1, <1>2 DEF Last
  <1>4. LogOK(new)
    BY <1>2, <1>3 DEF LogOK, Finalized
  <1>5. QED BY <1>4 DEF new

-----------------------------------------------------------------------------
(***************************************************************************)
(* The ConfigMap.                                                          *)
(***************************************************************************)

\* A request concerns the CIP it was made for, and carries an entry only when
\* it came from ReconcileKind.
LEMMA RequestFacts ==
    ASSUME NEW c \in CIPs, NEW want, NEW m, NEW e
    PROVE  /\ Request(c, want, m, e).cip = c
           /\ Request(c, want, m, e).entry \in {NoEntry, e}
           /\ want # "put" => Request(c, want, m, e).entry = NoEntry
  BY DEF Request, CreatePatch, CreateRemovePatch, Patch

\* Whatever the API server makes of a patch, an entry that is new came from
\* the patch.
LEMMA ApplyFacts ==
    ASSUME NEW p, p.cip \in CIPs, p.entry \in {NoEntry} \cup Entries,
           NEW m \in ConfigMaps
    PROVE  /\ Apply(p, m) \in ConfigMaps
           /\ Apply(p, m).data[p.cip] = p.entry
           /\ \A d \in CIPs : d # p.cip =>
                 Apply(p, m).data[d] \in {NoEntry, m.data[d]}
  <1>1. EmptyMap \in ConfigMaps /\ \A d \in CIPs : EmptyMap.data[d] = NoEntry
    BY DEF EmptyMap, ConfigMaps, NoData
  <1>2. CASE p.op \in {"create", "addData", "removeData"}
    BY <1>1, <1>2 DEF Apply, ConfigMaps
  <1>3. CASE p.op \notin {"create", "addData", "removeData"}
    BY <1>3 DEF Apply, ConfigMaps
  <1>4. QED BY <1>2, <1>3

-----------------------------------------------------------------------------
(***************************************************************************)
(* Type correctness and the finalizer's history.                           *)
(***************************************************************************)
RestOK ==
    /\ secrets \in [Secrets -> Seq({NoSecret} \cup SecretData)]
    /\ \A s \in Secrets : Len(secrets[s]) \in 1..MaxLag
    /\ cm \in Seq(ConfigMaps)
    /\ Len(cm) \in 1..MaxLag
    /\ dirty \subseteq CIPs
    /\ tracked \subseteq CIPs \X Secrets
    /\ edits \in 0..MaxEdits
    /\ faults \in 0..MaxFaults

\* A step that changes the log and the reconcile of one CIP only.
LEMMA LocalStep ==
    ASSUME IInv, RestOK', NEW c \in CIPs,
           NEW w \in Works, WorkOK(w),
           NEW log \in Seq(Objects), Len(log) \in 1..MaxLag, LogOK(log),
           WorkLogOK(w, log),
           work' = [work EXCEPT ![c] = w], cips' = [cips EXCEPT ![c] = log]
    PROVE  IInv'
  <1>1. TypeOK'
    BY DEF IInv, TypeOK, RestOK
  <1>2. ASSUME NEW d \in CIPs
        PROVE  /\ work'[d] = IF d = c THEN w ELSE work[d]
               /\ cips'[d] = IF d = c THEN log ELSE cips[d]
    BY DEF IInv, TypeOK
  <1>3. \A d \in CIPs :
           WorkOK(work'[d]) /\ LogOK(cips'[d]) /\ WorkLogOK(work'[d], cips'[d])
    BY <1>2 DEF IInv
  <1>4. QED BY <1>1, <1>3 DEF IInv

\* The invariant gives a step everything it reads.
LEMMA Reads ==
    ASSUME IInv, NEW c \in CIPs
    PROVE  /\ RestOK
           /\ work[c] \in Works /\ WorkOK(work[c])
           /\ cips[c] \in Seq(Objects) /\ Len(cips[c]) \in 1..MaxLag
           /\ LogOK(cips[c]) /\ WorkLogOK(work[c], cips[c])
           /\ Cached(c) \in Objects /\ Cached(c) = cips[c][1]
           /\ Cached(c).phase # "absent" => Cached(c).spec \in Specs
           /\ Server(c) \in Objects /\ Server(c) = Last(cips[c])
           /\ Server(c).phase # "absent" => Server(c).spec \in Specs
           /\ work = [work EXCEPT ![c] = work[c]]
           /\ cips = [cips EXCEPT ![c] = cips[c]]
  <1>1. /\ RestOK
        /\ work[c] \in Works /\ WorkOK(work[c])
        /\ cips[c] \in Seq(Objects) /\ Len(cips[c]) \in 1..MaxLag
        /\ LogOK(cips[c]) /\ WorkLogOK(work[c], cips[c])
        /\ work = [work EXCEPT ![c] = work[c]]
        /\ cips = [cips EXCEPT ![c] = cips[c]]
    BY DEF IInv, TypeOK, RestOK
  <1>2. Cached(c) \in Objects /\ Cached(c) = cips[c][1] /\ 1 \in 1..Len(cips[c])
    BY <1>1, EndFacts DEF Cached
  <1>3. /\ Server(c) \in Objects /\ Server(c) = Last(cips[c])
        /\ Server(c) = cips[c][Len(cips[c])]
        /\ Len(cips[c]) \in 1..Len(cips[c])
    BY <1>1, EndFacts DEF Server
  <1>4. Server(c).phase # "absent" => Server(c).spec \in Specs
    BY <1>1, <1>3 DEF LogOK
  <1>5. QED BY <1>1, <1>2, <1>3, <1>4 DEF LogOK

\* Taking a name from the queue (Reconcile up to the choice of ReconcileKind or
\* FinalizeKind) keeps the invariant.
LEMMA TakeStep ==
    ASSUME IInv, NEW c \in CIPs, Take(c)
    PROVE  IInv'
  <1> DEFINE w == CASE Cached(c).phase = "absent" -> Idle
                    [] Cached(c).phase \in {"bare", "held"} ->
                         [Idle EXCEPT !.pc = "setFinalizer", !.res = Cached(c)]
                    [] OTHER ->
                         [Idle EXCEPT !.pc = "readMap", !.res = Cached(c),
                                      !.want = "finalize"]
  <1>1. RestOK'
    BY Reads DEF Take, RestOK
  <1>2. w \in Works /\ WorkOK(w)
    <2>1. Idle \in Works /\ WorkOK(Idle)
      BY IdleOK
    <2>2. Cached(c) \in Objects
      BY Reads
    <2>3. Cached(c).phase # "absent" => Cached(c).spec \in Specs
      BY Reads
    <2>4. CASE Cached(c).phase = "absent"
      BY <2>1, <2>4
    <2>5. CASE Cached(c).phase \in {"bare", "held"}
      BY <2>1, <2>2, <2>3, <2>5 DEF Works, WorkOK, Idle, Steps
    <2>6. CASE Cached(c).phase \notin {"absent", "bare", "held"}
      BY <2>1, <2>2, <2>3, <2>6 DEF Works, WorkOK, Idle, Steps, Wants
    <2>7. QED BY <2>4, <2>5, <2>6
  <1>3. WorkLogOK(w, cips[c])
    <2>1. CASE Cached(c).phase = "absent"
      BY <2>1, IdleOK
    <2>2. CASE Cached(c).phase \in {"bare", "held"}
      <3>1. w.pc = "setFinalizer" /\ ~Reconciling(w) /\ ~Finalizing(w)
        BY <2>2 DEF Reconciling, Finalizing, Idle
      <3>2. ASSUME NEW i \in 1..Len(cips[c]), NEW j \in 1..Len(cips[c]), i < j,
                   Finalized(cips[c][i])
            PROVE  Finalized(cips[c][j])
        <4>1. i > 1 \/ cips[c][i].phase # "deleting"
          BY <2>2, Reads, <3>2
        <4>2. QED BY <3>2, <4>1, Reads DEF LogOK
      <3>3. QED BY <3>1, <3>2 DEF WorkLogOK
    <2>3. CASE Cached(c).phase = "deleting"
      <3>1. w.pc = "readMap" /\ w.want = "finalize" /\ ~Reconciling(w)
        BY <2>3 DEF Reconciling, Idle
      <3>2. ASSUME NEW i \in 1..Len(cips[c])
            PROVE  cips[c][i].phase # "held"
        <4>1. CASE i = 1
          BY <2>3, <4>1, Reads
        <4>2. CASE 1 < i /\ 1 \in 1..Len(cips[c])
          BY <2>3, <4>2, Reads DEF LogOK
        <4>3. QED BY <4>1, <4>2, Reads, ReconcilerAssumption
      <3>3. QED BY <3>1, <3>2 DEF WorkLogOK
    <2>4. QED BY <2>1, <2>2, <2>3, Reads DEF Objects
  <1>4. QED
    <2>1. work' = [work EXCEPT ![c] = w] /\ cips' = cips
      BY DEF Take
    <2> HIDE DEF w
    <2>2. QED BY <1>1, <1>2, <1>3, <2>1, Reads, LocalStep

\* updateFinalizersFiltered leaves the other CIPs alone; it either leaves the
\* log as it is or adds the version with the finalizer as desired.
LogKept(c, desired, outcome) ==
    /\ cips' = [cips EXCEPT ![c] = cips[c]]
    /\ outcome # "updated"
    /\ outcome = "same" => Finalized(Cached(c)) = desired

LogPatched(c, v, desired, outcome) ==
    /\ cips' = [cips EXCEPT ![c] = Push(cips[c], v)]
    /\ v = WithFinalizer(Cached(c), desired)
    /\ outcome # "same"
    /\ v.phase = IF desired THEN "held" ELSE "absent"
    /\ desired => v.spec \in Specs
    /\ Push(cips[c], v) \in Seq(Objects)
    /\ Len(Push(cips[c], v)) \in 1..MaxLag
    /\ Last(Push(cips[c], v)) = v
    /\ LogOK(Push(cips[c], v))

\* updateFinalizersFiltered leaves the log of the CIP as it is or pushes a
\* version that keeps it in order.
LEMMA FinalizerStep ==
    ASSUME IInv, NEW c \in CIPs, NEW desired \in BOOLEAN, NEW outcome,
           updateFinalizersFiltered(c, desired, outcome),
           ~desired => Cached(c).phase # "held"
    PROVE  /\ faults' \in 0..MaxFaults
           /\ \/ LogKept(c, desired, outcome)
              \/ \E v \in Objects : LogPatched(c, v, desired, outcome)
  <1> DEFINE v == WithFinalizer(Cached(c), desired)
  <1>1. faults \in 0..MaxFaults /\ MaxFaults \in Nat
    BY Reads, ReconcilerAssumption DEF RestOK
  <1>2. faults' \in 0..MaxFaults
    BY <1>1 DEF updateFinalizersFiltered, Fault
  <1>3. CASE UNCHANGED cips /\ outcome # "updated"
    <2>1. outcome = "same" => Finalized(Cached(c)) = desired
      BY <1>3 DEF updateFinalizersFiltered
    <2>2. QED BY <1>2, <1>3, <2>1, Reads DEF LogKept
  <1>4. CASE /\ PatchFinalizers(c, desired) /\ outcome # "same"
             /\ Cached(c).phase # "absent" /\ Finalized(Cached(c)) # desired
    <2>1. \/ Cached(c).phase = "bare" /\ desired
          \/ Cached(c).phase = "deleting" /\ ~desired
      BY <1>4, Reads DEF Finalized, Objects
    <2>2. /\ v \in Objects
          /\ v.phase = IF desired THEN "held" ELSE "absent"
          /\ desired => v.spec \in Specs
      <3>1. CASE desired
        BY <2>1, <3>1, Reads DEF WithFinalizer, Objects
      <3>2. CASE ~desired
        BY <2>1, <3>2, Reads DEF WithFinalizer, Objects, AbsentObject
      <3>3. QED BY <3>1, <3>2
    <2>3. cips' = [cips EXCEPT ![c] = Push(cips[c], v)] /\ ~Lagging(cips[c])
      BY <1>4, Reads DEF PatchFinalizers
    <2> HIDE DEF v
    <2>4. LogOK(Push(cips[c], v))
      BY <2>1, <2>2, <2>3, Reads, PatchKeepsLogOK
    <2>5. /\ Push(cips[c], v) \in Seq(Objects)
          /\ Len(Push(cips[c], v)) \in 1..MaxLag
          /\ Last(Push(cips[c], v)) = v
      BY <2>2, Reads, PushFacts, ReconcilerAssumption
    <2>6. LogPatched(c, v, desired, outcome)
      BY <1>4, <2>2, <2>3, <2>4, <2>5 DEF v, LogPatched
    <2>7. QED BY <1>2, <2>2, <2>6
  <1>5. QED BY <1>3, <1>4 DEF updateFinalizersFiltered

\* setFinalizerIfFinalizer keeps the invariant: past it, the CIP is finalized on
\* the API server or its log shows how it stopped being so.
LEMMA SetFinalizerStep ==
    ASSUME IInv, NEW c \in CIPs, setFinalizerIfFinalizer(c)
    PROVE  IInv'
  <1>1. PICK outcome \in {"same", "updated", "error"} :
           /\ updateFinalizersFiltered(c, TRUE, outcome)
           /\ outcome = "same" => Goto(c, [work[c] EXCEPT !.pc = "inline"])
           /\ outcome = "updated" =>
                Goto(c, [work[c] EXCEPT !.pc = "inline",
                                        !.res = WithFinalizer(Cached(c), TRUE)])
           /\ outcome = "error" => Fail(c)
    BY DEF setFinalizerIfFinalizer
  <1>2. work[c].pc = "setFinalizer"
        /\ UNCHANGED <<secrets, cm, tracked, edits>>
    BY DEF setFinalizerIfFinalizer
  <1>3. /\ faults' \in 0..MaxFaults
        /\ \/ LogKept(c, TRUE, outcome)
           \/ \E v \in Objects : LogPatched(c, v, TRUE, outcome)
    BY <1>1, FinalizerStep
  <1>4. RestOK'
    BY <1>1, <1>2, <1>3, Reads DEF RestOK, Goto, Fail
  <1>5. CASE outcome = "same"
    <2> DEFINE w == [work[c] EXCEPT !.pc = "inline"]
    <2>1. cips' = [cips EXCEPT ![c] = cips[c]] /\ Finalized(Cached(c))
      BY <1>3, <1>5 DEF LogKept, LogPatched
    <2>2. w \in Works /\ WorkOK(w) /\ w.pc = "inline" /\ w.want = "none"
      BY <1>2, Reads DEF Works, WorkOK, Steps
    <2>3. work' = [work EXCEPT ![c] = w]
      BY <1>1, <1>5 DEF Goto
    <2> HIDE DEF w
    <2>4. Finalized(Last(cips[c]))
      <3>1. CASE Lagging(cips[c])
        <4>1. /\ 1 \in 1..Len(cips[c]) /\ Len(cips[c]) \in 1..Len(cips[c])
              /\ 1 < Len(cips[c])
          BY <3>1, Reads, ReconcilerAssumption DEF Lagging
        <4>2. QED BY <1>2, <2>1, <4>1, Reads DEF WorkLogOK, Last
      <3>2. CASE ~Lagging(cips[c])
        <4>1. Last(cips[c]) = cips[c][1]
          BY <3>2, Reads, ReconcilerAssumption DEF Lagging, Last
        <4>2. QED BY <2>1, <4>1, Reads
      <3>3. QED BY <3>1, <3>2
    <2>5. WorkLogOK(w, cips[c])
      BY <2>2, <2>4 DEF WorkLogOK, Finalizing
    <2>6. QED BY <1>4, <2>1, <2>2, <2>3, <2>5, Reads, LocalStep
  <1>6. CASE outcome = "updated"
    <2>1. PICK v \in Objects : LogPatched(c, v, TRUE, outcome)
      BY <1>3, <1>6 DEF LogKept
    <2> DEFINE w == [work[c] EXCEPT !.pc = "inline", !.res = v]
    <2>2. w \in Works /\ WorkOK(w) /\ w.pc = "inline" /\ w.want = "none"
      BY <1>2, <2>1, Reads DEF Works, WorkOK, Steps, LogPatched
    <2>3. work' = [work EXCEPT ![c] = w]
      BY <1>1, <1>6, <2>1 DEF Goto, LogPatched
    <2> HIDE DEF w
    <2>4. WorkLogOK(w, Push(cips[c], v))
      BY <2>1, <2>2 DEF WorkLogOK, Finalizing, Finalized, LogPatched
    <2>5. QED BY <1>4, <2>1, <2>2, <2>3, <2>4, LocalStep DEF LogPatched
  <1>7. CASE outcome = "error"
    <2>1. work' = [work EXCEPT ![c] = Idle]
      BY <1>1, <1>7 DEF Fail
    <2>2. CASE LogKept(c, TRUE, outcome)
      BY <1>4, <2>1, <2>2, IdleOK, Reads, LocalStep DEF LogKept
    <2>3. ASSUME NEW v \in Objects, LogPatched(c, v, TRUE, outcome)
          PROVE  IInv'
      BY <1>4, <2>1, <2>3, IdleOK, LocalStep DEF LogPatched
    <2>4. QED BY <1>3, <2>2, <2>3
  <1>8. QED BY <1>1, <1>5, <1>6, <1>7

\* Inlining yields well-formed keys and Secrets of the cluster.
LEMMA InlineFacts ==
    ASSUME NEW spec \in Specs, NEW kmsUp \in BOOLEAN
    PROVE  /\ InlinedEntry(spec) \in Entries
           /\ SecretsOf(spec, Visited(spec, kmsUp)) \subseteq Secrets
  <1>1. spec \in Seq(Authorities)
    BY ReconcilerAssumption
  <1>2. \A i \in DOMAIN spec : spec[i] \in Authorities
    BY <1>1
  <1>3. \A a \in Authorities : AuthorityKeys(a, TRUE) \subseteq Keys
    BY DEF AuthorityKeys, Authorities, SecretKeys
  <1>4. \A a \in Authorities : a.kind = "secret" => a.ref \in Secrets
    BY DEF Authorities
  <1>5. QED BY <1>2, <1>3, <1>4 DEF InlinedEntry, SecretsOf, Visited, Entries

\* inlinePublicKeys keeps the invariant.
LEMMA InlineStep ==
    ASSUME IInv, NEW c \in CIPs, inlinePublicKeys(c)
    PROVE  IInv'
  <1>1. PICK w :
           /\ work' = [work EXCEPT ![c] = w]
           /\ \/ w = [work[c] EXCEPT !.pc = "readMap", !.want = "put",
                                     !.entry = InlinedEntry(work[c].res.spec)]
              \/ w = [work[c] EXCEPT !.pc = "readMap", !.want = "drop"]
    BY DEF inlinePublicKeys, Goto
  <1>2. /\ work[c].pc = "inline" /\ work[c].res.spec \in Specs
        /\ Finalized(Last(cips[c]))
    BY Reads DEF inlinePublicKeys, WorkOK, WorkLogOK, Reconciling
  <1>3. RestOK'
    <2>1. tracked' \subseteq CIPs \X Secrets
      BY <1>2, InlineFacts, Reads DEF inlinePublicKeys, RestOK
    <2>2. faults' \in 0..MaxFaults
      BY Reads, ReconcilerAssumption DEF inlinePublicKeys, RestOK, Fault
    <2>3. UNCHANGED <<secrets, cm, dirty, edits>>
      BY DEF inlinePublicKeys, Goto
    <2>4. QED BY <2>1, <2>2, <2>3, Reads DEF RestOK
  <1>4. /\ w \in Works /\ WorkOK(w) /\ w.pc = "readMap"
        /\ w.want \in {"put", "drop"}
    <2>1. work[c] \in Works /\ WorkOK(work[c]) /\ work[c].want = "none"
      BY <1>2, Reads DEF WorkOK
    <2>2. InlinedEntry(work[c].res.spec) \in Entries
      BY <1>2, InlineFacts
    <2>3. CASE w = [work[c] EXCEPT !.pc = "readMap", !.want = "put",
                                   !.entry = InlinedEntry(work[c].res.spec)]
      BY <1>2, <2>1, <2>2, <2>3 DEF Works, WorkOK, Steps, Wants
    <2>4. CASE w = [work[c] EXCEPT !.pc = "readMap", !.want = "drop"]
      BY <1>2, <2>1, <2>4 DEF Works, WorkOK, Steps, Wants
    <2>5. QED BY <1>1, <2>3, <2>4
  <1>5. WorkLogOK(w, cips[c])
    BY <1>2, <1>4 DEF WorkLogOK, Finalizing
  <1>6. cips' = [cips EXCEPT ![c] = cips[c]]
    BY Reads DEF inlinePublicKeys
  <1>7. QED BY <1>1, <1>3, <1>4, <1>5, <1>6, Reads, LocalStep

\* What Return leaves behind: an idle worker, or one about to clear or keep the
\* finalizer of a CIP that FinalizeKind was called for.
LEMMA ReturnFacts ==
    ASSUME IInv, NEW c \in CIPs, NEW w \in Works, WorkOK(w),
           w.pc = "writeMap", WorkLogOK(w, cips[c]),
           NEW ok \in BOOLEAN, Return(c, w, ok)
    PROVE  /\ dirty' \subseteq CIPs
           /\ \E x \in Works : /\ work' = [work EXCEPT ![c] = x]
                              /\ WorkOK(x) /\ WorkLogOK(x, cips[c])
  <1>1. dirty \subseteq CIPs
    BY Reads DEF RestOK
  <1>2. CASE w.want = "finalize"
    <2> DEFINE x == [w EXCEPT !.pc = "clearFinalizer",
                              !.want = IF ok THEN "release" ELSE "keep"]
    <2>1. x \in Works /\ WorkOK(x)
      BY <1>2 DEF Works, WorkOK, Steps, Wants
    <2>2. x.pc = "clearFinalizer" /\ WorkLogOK(x, cips[c])
      BY <1>2 DEF WorkLogOK, Finalizing, Reconciling, Works
    <2>3. work' = [work EXCEPT ![c] = x] /\ dirty' = dirty
      BY <1>2 DEF Return, Goto
    <2> HIDE DEF x
    <2>4. QED BY <1>1, <2>1, <2>2, <2>3
  <1>3. CASE w.want # "finalize"
    <2>1. work' = [work EXCEPT ![c] = Idle] /\ dirty' \subseteq CIPs
      BY <1>1, <1>3 DEF Return, Goto, Finish, Fail
    <2>2. QED BY <2>1, IdleOK
  <1>4. QED BY <1>2, <1>3

\* Reading the ConfigMap from the lister keeps the invariant.
LEMMA ReadMapStep ==
    ASSUME IInv, NEW c \in CIPs, readMap(c)
    PROVE  IInv'
  <1> DEFINE w == [work[c] EXCEPT !.pc = "writeMap", !.existing = CachedMap]
  <1>1. CachedMap \in ConfigMaps
    BY Reads, EndFacts DEF CachedMap, RestOK
  <1>2. work[c].pc = "readMap" /\ UNCHANGED <<cips, secrets, cm, tracked, edits, faults>>
    BY DEF readMap
  <1>3. w \in Works /\ WorkOK(w) /\ w.pc = "writeMap"
    BY <1>1, <1>2, Reads DEF Works, WorkOK, Steps
  <1>4. WorkLogOK(w, cips[c])
    BY <1>2, Reads DEF WorkLogOK, Finalizing, Reconciling, Works
  <1>5. Return(c, w, TRUE) \/ Goto(c, w)
    BY DEF readMap
  <1> HIDE DEF w
  <1>6. /\ dirty' \subseteq CIPs
        /\ \E x \in Works : /\ work' = [work EXCEPT ![c] = x]
                           /\ WorkOK(x) /\ WorkLogOK(x, cips[c])
    <2>1. CASE Return(c, w, TRUE)
      BY <1>3, <1>4, <2>1, ReturnFacts
    <2>2. CASE Goto(c, w)
      BY <1>3, <1>4, <2>2, Reads DEF Goto, RestOK
    <2>3. QED BY <1>5, <2>1, <2>2
  <1>7. RestOK'
    BY <1>2, <1>6, Reads DEF RestOK
  <1>8. QED BY <1>2, <1>6, <1>7, Reads, LocalStep

\* The ConfigMap after a write is well formed.
LEMMA WriteMapType ==
    ASSUME IInv, NEW c \in CIPs, work[c].pc = "writeMap"
    PROVE  LET w == work[c]
               p == Request(c, w.want, w.existing, w.entry)
           IN /\ p.cip = c /\ p.entry \in {NoEntry} \cup Entries
              /\ w.want # "put" => p.entry = NoEntry
              /\ ServerMap \in ConfigMaps
              /\ Apply(p, ServerMap) \in ConfigMaps
              /\ Push(cm, Apply(p, ServerMap)) \in Seq(ConfigMaps)
              /\ Len(Push(cm, Apply(p, ServerMap))) \in 1..MaxLag
              /\ Last(Push(cm, Apply(p, ServerMap))) = Apply(p, ServerMap)
  <1> DEFINE w == work[c]
             p == Request(c, w.want, w.existing, w.entry)
  <1>1. w.entry \in {NoEntry} \cup Entries /\ cm \in Seq(ConfigMaps)
        /\ Len(cm) \in 1..MaxLag
    BY Reads DEF Works, RestOK
  <1>2. /\ p.cip = c /\ p.entry \in {NoEntry, w.entry}
        /\ w.want # "put" => p.entry = NoEntry
    BY RequestFacts
  <1>3. ServerMap \in ConfigMaps
    BY <1>1, EndFacts DEF ServerMap
  <1> HIDE DEF p
  <1>4. Apply(p, ServerMap) \in ConfigMaps
    BY <1>1, <1>2, <1>3, ApplyFacts
  <1>5. /\ Push(cm, Apply(p, ServerMap)) \in Seq(ConfigMaps)
        /\ Len(Push(cm, Apply(p, ServerMap))) \in 1..MaxLag
        /\ Last(Push(cm, Apply(p, ServerMap))) = Apply(p, ServerMap)
    BY <1>1, <1>4, PushFacts, ReconcilerAssumption
  <1>6. QED BY <1>1, <1>2, <1>3, <1>4, <1>5 DEF p

\* The create or patch of the ConfigMap keeps the invariant, lost or not.
LEMMA WriteMapStep ==
    ASSUME IInv, NEW c \in CIPs, writeMap(c)
    PROVE  IInv'
  <1> DEFINE w == work[c]
             p == Request(c, w.want, w.existing, w.entry)
  <1>1. w.pc = "writeMap" /\ UNCHANGED <<cips, secrets, tracked, edits>>
    BY DEF writeMap
  <1>2. /\ \E ok \in BOOLEAN : Return(c, w, ok)
        /\ cm' = cm \/ cm' = Push(cm, Apply(p, ServerMap))
        /\ faults' = faults \/ Fault
    BY DEF writeMap
  <1>3. cm' \in Seq(ConfigMaps) /\ Len(cm') \in 1..MaxLag
    BY <1>1, <1>2, WriteMapType, Reads DEF RestOK
  <1>4. faults' \in 0..MaxFaults
    BY <1>2, Reads, ReconcilerAssumption DEF RestOK, Fault
  <1>5. /\ dirty' \subseteq CIPs
        /\ \E x \in Works : /\ work' = [work EXCEPT ![c] = x]
                           /\ WorkOK(x) /\ WorkLogOK(x, cips[c])
    BY <1>1, <1>2, Reads, ReturnFacts
  <1>6. RestOK'
    BY <1>1, <1>3, <1>4, <1>5, Reads DEF RestOK
  <1>7. QED BY <1>1, <1>5, <1>6, Reads, LocalStep

\* clearFinalizer keeps the invariant.
LEMMA ClearFinalizerStep ==
    ASSUME IInv, NEW c \in CIPs, clearFinalizer(c)
    PROVE  IInv'
  <1> DEFINE desired == work[c].want = "keep"
  <1>1. PICK outcome : /\ updateFinalizersFiltered(c, desired, outcome)
                       /\ Finish(c) \/ Fail(c)
    BY DEF clearFinalizer
  <1>2. work[c].pc = "clearFinalizer"
        /\ UNCHANGED <<secrets, cm, tracked, edits>>
    BY DEF clearFinalizer
  <1>3. Cached(c).phase # "held"
    BY <1>2, Reads, EndFacts DEF WorkOK, WorkLogOK, Finalizing
  <1>4. /\ faults' \in 0..MaxFaults
        /\ \/ LogKept(c, desired, outcome)
           \/ \E v \in Objects : LogPatched(c, v, desired, outcome)
    <2>1. desired \in BOOLEAN
      OBVIOUS
    <2> HIDE DEF desired
    <2>2. QED BY <1>1, <1>3, <2>1, FinalizerStep
  <1>5. work' = [work EXCEPT ![c] = Idle] /\ dirty' \subseteq CIPs
    BY <1>1, Reads DEF Finish, Goto, Fail, RestOK
  <1>6. RestOK'
    BY <1>2, <1>4, <1>5, Reads DEF RestOK
  <1>7. CASE LogKept(c, desired, outcome)
    BY <1>5, <1>6, <1>7, IdleOK, Reads, LocalStep DEF LogKept
  <1>8. ASSUME NEW v \in Objects, LogPatched(c, v, desired, outcome)
        PROVE  IInv'
    BY <1>5, <1>6, <1>8, IdleOK, LocalStep DEF LogPatched
  <1>9. QED BY <1>4, <1>7, <1>8

\* The informers' handlers keep the invariant.
LEMMA EventStep ==
    ASSUME IInv,
           \/ \E c \in CIPs : CIPEvent(c)
           \/ \E s \in Secrets : SecretEvent(s)
           \/ MapEvent
    PROVE  IInv'
  <1>1. ASSUME NEW c \in CIPs, CIPEvent(c) PROVE IInv'
    <2>1. /\ Lagging(cips[c]) /\ cips' = [cips EXCEPT ![c] = Tail(cips[c])]
          /\ UNCHANGED <<secrets, cm, work, tracked, edits, faults>>
          /\ dirty' \subseteq CIPs
      BY <1>1, Reads DEF CIPEvent, RestOK
    <2>2. RestOK'
      BY <2>1, Reads DEF RestOK
    <2>3. /\ Tail(cips[c]) \in Seq(Objects) /\ Len(Tail(cips[c])) \in 1..MaxLag
      BY <2>1, Reads, TailFacts
    <2>4. LogOK(Tail(cips[c])) /\ WorkLogOK(work[c], Tail(cips[c]))
      BY <2>1, Reads, EventKeepsLogOK
    <2>5. QED BY <2>1, <2>2, <2>3, <2>4, Reads, LocalStep
  <1>2. ASSUME NEW s \in Secrets, SecretEvent(s) PROVE IInv'
    <2>1. /\ secrets[s] \in Seq({NoSecret} \cup SecretData)
          /\ Len(secrets[s]) \in 1..MaxLag /\ Lagging(secrets[s])
      BY <1>2 DEF IInv, TypeOK, SecretEvent
    <2>2. /\ Tail(secrets[s]) \in Seq({NoSecret} \cup SecretData)
          /\ Len(Tail(secrets[s])) \in 1..MaxLag
      BY <2>1, TailFacts
    <2>3. TypeOK'
      BY <1>2, <2>2 DEF IInv, TypeOK, SecretEvent
    <2>4. QED BY <1>2, <2>3 DEF IInv, SecretEvent
  <1>3. ASSUME MapEvent PROVE IInv'
    <2>1. Tail(cm) \in Seq(ConfigMaps) /\ Len(Tail(cm)) \in 1..MaxLag
      BY <1>3, TailFacts DEF IInv, TypeOK, MapEvent
    <2>2. TypeOK'
      BY <1>3, <2>1 DEF IInv, TypeOK, MapEvent
    <2>3. QED BY <1>3, <2>2 DEF IInv, MapEvent
  <1>4. QED BY <1>1, <1>2, <1>3

\* A restart of the controller keeps the invariant.
LEMMA RestartStep ==
    ASSUME IInv, Restart
    PROVE  IInv'
  <1>1. ASSUME NEW c \in CIPs
        PROVE  /\ cips'[c] = <<Server(c)>> /\ work'[c] = Idle
               /\ <<Server(c)>> \in Seq(Objects)
               /\ Len(<<Server(c)>>) \in 1..MaxLag
               /\ LogOK(<<Server(c)>>)
    <2>1. cips'[c] = <<Server(c)>> /\ work'[c] = Idle
      BY DEF Restart
    <2>2. /\ <<Server(c)>> \in Seq(Objects)
          /\ Len(<<Server(c)>>) \in 1..MaxLag
      <3>1. Server(c) \in Objects
        BY Reads
      <3>2. MaxLag \in Nat /\ MaxLag >= 2
        BY ReconcilerAssumption
      <3>3. QED BY <3>1, <3>2
    <2>3. QED BY <2>1, <2>2, Reads, FreshLogOK
  <1>2. ASSUME NEW s \in Secrets
        PROVE  /\ <<Last(secrets[s])>> \in Seq({NoSecret} \cup SecretData)
               /\ Len(<<Last(secrets[s])>>) \in 1..MaxLag
    <2>1. /\ secrets[s] \in Seq({NoSecret} \cup SecretData)
          /\ Len(secrets[s]) \in 1..MaxLag
      BY DEF IInv, TypeOK
    <2>2. QED BY <2>1, EndFacts
  <1>3. /\ <<ServerMap>> \in Seq(ConfigMaps) /\ Len(<<ServerMap>>) \in 1..MaxLag
    <2>1. cm \in Seq(ConfigMaps) /\ Len(cm) \in 1..MaxLag
      BY DEF IInv, TypeOK
    <2>2. QED BY <2>1, EndFacts DEF ServerMap
  <1>4. faults' \in 0..MaxFaults
    BY ReconcilerAssumption DEF IInv, TypeOK, Restart, Fault
  <1>5. cips' \in [CIPs -> Seq(Objects)] /\ work' \in [CIPs -> Works]
    BY <1>1, IdleOK DEF Restart
  <1>6. /\ secrets' \in [Secrets -> Seq({NoSecret} \cup SecretData)]
        /\ \A s \in Secrets : Len(secrets'[s]) \in 1..MaxLag
    BY <1>2 DEF Restart
  <1>7. TypeOK'
    BY <1>1, <1>3, <1>4, <1>5, <1>6 DEF TypeOK, Restart, IInv
  <1>8. QED BY <1>1, <1>7, IdleOK DEF IInv

\* A user's change of a CIP keeps the invariant.
LEMMA EditCIPStep ==
    ASSUME IInv, NEW c \in CIPs, CreateCIP(c) \/ UpdateCIP(c) \/ DeleteCIP(c)
    PROVE  IInv'
  <1>1. /\ Server(c) \in Objects
        /\ Server(c).phase # "absent" => Server(c).spec \in Specs
    BY Reads
  <1>2. PICK v : /\ EditCIP(c, v) /\ v \in Objects
                 /\ Finalized(v) <=> Finalized(Server(c))
                 /\ v.phase = "held" => Server(c).phase = "held"
                 /\ v.phase # "absent" => v.spec \in Specs
    <2>1. CASE CreateCIP(c)
      BY <1>1, <2>1 DEF CreateCIP, Objects, Finalized
    <2>2. CASE UpdateCIP(c)
      BY <1>1, <2>2 DEF UpdateCIP, Objects, Finalized
    <2>3. CASE DeleteCIP(c)
      BY <1>1, <2>3 DEF DeleteCIP, Objects, Finalized, AbsentObject
    <2>4. QED BY <2>1, <2>2, <2>3
  <1>3. RestOK'
    BY <1>2, Reads, ReconcilerAssumption DEF EditCIP, Edit, RestOK
  <1>4. cips' = [cips EXCEPT ![c] = Push(cips[c], v)] /\ work' = work
    BY <1>2, Reads DEF EditCIP
  <1>5. /\ Push(cips[c], v) \in Seq(Objects)
        /\ Len(Push(cips[c], v)) \in 1..MaxLag
    BY <1>2, Reads, PushFacts, ReconcilerAssumption
  <1>6. LogOK(Push(cips[c], v)) /\ WorkLogOK(work[c], Push(cips[c], v))
    BY <1>2, Reads, EditKeepsLogOK DEF Server
  <1>7. QED BY <1>3, <1>4, <1>5, <1>6, Reads, LocalStep

\* Changes to Secrets and to the ConfigMap by others keep the invariant.
LEMMA OtherEditStep ==
    ASSUME IInv, (\E s \in Secrets : EditSecret(s)) \/ EditMap
    PROVE  IInv'
  <1>1. ASSUME NEW s \in Secrets, EditSecret(s) PROVE IInv'
    <2>1. PICK v \in {NoSecret} \cup SecretData :
             secrets' = [secrets EXCEPT ![s] = Push(secrets[s], v)]
      BY <1>1 DEF EditSecret, IInv, TypeOK
    <2>2. /\ secrets[s] \in Seq({NoSecret} \cup SecretData)
          /\ Len(secrets[s]) \in 1..MaxLag
      BY DEF IInv, TypeOK
    <2>3. /\ Push(secrets[s], v) \in Seq({NoSecret} \cup SecretData)
          /\ Len(Push(secrets[s], v)) \in 1..MaxLag
      BY <2>2, PushType
    <2>4. TypeOK'
      BY <1>1, <2>1, <2>3, ReconcilerAssumption
         DEF IInv, TypeOK, EditSecret, Edit
    <2>5. QED BY <1>1, <2>4 DEF IInv, EditSecret
  <1>2. ASSUME EditMap PROVE IInv'
    <2>1. cm \in Seq(ConfigMaps) /\ Len(cm) \in 1..MaxLag /\ ServerMap \in ConfigMaps
      BY EndFacts DEF IInv, TypeOK, ServerMap
    <2>2. PICK m \in ConfigMaps : cm' = Push(cm, m)
      <3>1. CASE cm' = Push(cm, NoMap)
        <4>1. NoMap \in ConfigMaps
          BY DEF ConfigMaps, NoMap, NoData
        <4>2. QED BY <3>1, <4>1
      <3>2. ASSUME NEW c \in CIPs,
                   cm' = Push(cm, [ServerMap EXCEPT !.data[c] = NoEntry])
            PROVE  \E m \in ConfigMaps : cm' = Push(cm, m)
        <4>1. [ServerMap EXCEPT !.data[c] = NoEntry] \in ConfigMaps
          BY <2>1 DEF ConfigMaps
        <4>2. QED BY <3>2, <4>1
      <3>3. QED BY <1>2, <3>1, <3>2 DEF EditMap
    <2>3. Push(cm, m) \in Seq(ConfigMaps) /\ Len(Push(cm, m)) \in 1..MaxLag
      BY <2>1, PushFacts, ReconcilerAssumption
    <2>4. TypeOK'
      BY <1>2, <2>2, <2>3, ReconcilerAssumption DEF IInv, TypeOK, EditMap, Edit
    <2>5. QED BY <1>2, <2>4 DEF IInv, EditMap
  <1>3. QED BY <1>1, <1>2

\* A fresh cluster satisfies the invariant.
LEMMA InitIInv == Init => IInv
  <1> SUFFICES ASSUME Init PROVE IInv
    OBVIOUS
  <1>1. AbsentObject \in Objects
    BY DEF AbsentObject, Objects
  <1>2. \A c \in CIPs :
           /\ cips[c] = <<AbsentObject>> /\ work[c] = Idle
           /\ <<AbsentObject>> \in Seq(Objects)
           /\ Len(<<AbsentObject>>) \in 1..MaxLag
    <2>1. \A c \in CIPs : cips[c] = <<AbsentObject>> /\ work[c] = Idle
      BY DEF Init
    <2>2. \A o \in Objects : <<o>> \in Seq(Objects) /\ Len(<<o>>) \in 1..MaxLag
      BY ReconcilerAssumption
    <2>3. QED BY <1>1, <2>1, <2>2
  <1>3. LogOK(<<AbsentObject>>)
    BY FreshLogOK DEF AbsentObject
  <1>4. {NoMap, EmptyMap, ShippedMap} \subseteq ConfigMaps
    BY DEF NoMap, EmptyMap, ShippedMap, NoData, ConfigMaps
  <1>5. cm \in Seq(ConfigMaps) /\ Len(cm) \in 1..MaxLag
    BY <1>4, ReconcilerAssumption DEF Init
  <1>6. /\ secrets \in [Secrets -> Seq({NoSecret} \cup SecretData)]
        /\ \A s \in Secrets : Len(secrets[s]) \in 1..MaxLag
    BY ReconcilerAssumption DEF Init
  <1>7. TypeOK
    BY <1>2, <1>5, <1>6, IdleOK, ReconcilerAssumption DEF Init, TypeOK
  <1>8. QED BY <1>2, <1>3, <1>7, IdleOK DEF IInv

\* Every step of the controller, the informers and the users keeps it.
LEMMA NextIInv == IInv /\ [Next]_vars => IInv'
  <1> SUFFICES ASSUME IInv, [Next]_vars PROVE IInv'
    OBVIOUS
  <1>1. ASSUME NEW c \in CIPs, Reconcile(c) PROVE IInv'
    BY <1>1, TakeStep, SetFinalizerStep, InlineStep, ReadMapStep,
       WriteMapStep, ClearFinalizerStep DEF Reconcile
  <1>2. CASE Users
    BY <1>2, EditCIPStep, OtherEditStep DEF Users
  <1>3. CASE UNCHANGED vars
    BY <1>3 DEF vars, IInv, TypeOK
  <1>4. QED BY <1>1, <1>2, <1>3, EventStep, RestartStep DEF Next

\* The inductive invariant holds of every reachable state: the finalizer that
\* Reconcile relies on is there for as long as it relies on it.
THEOREM Invariance == Spec => []IInv
  BY InitIInv, NextIInv, PTL DEF Spec

\* The logs, the queue, the tracker and every running reconcile stay well
\* formed; in particular only well-formed public keys enter the ConfigMap.
THEOREM TypeCorrect == Spec => []TypeOK
  <1>1. IInv => TypeOK
    BY DEF IInv
  <1>2. QED BY <1>1, Invariance, PTL

-----------------------------------------------------------------------------
(***************************************************************************)
(* Entries are written under the finalizer.                                *)
(***************************************************************************)

\* The steps that change the log of the ConfigMap.
LEMMA MapWriters ==
    ASSUME [Next]_vars
    PROVE  \/ UNCHANGED cm
           \/ \E c \in CIPs : writeMap(c) /\ cm' # cm
           \/ MapEvent \/ Restart \/ EditMap
  <1>1. ASSUME NEW c \in CIPs, Reconcile(c), ~writeMap(c) PROVE UNCHANGED cm
    BY <1>1 DEF Reconcile, Take, setFinalizerIfFinalizer, inlinePublicKeys,
                readMap, clearFinalizer
  <1>2. ASSUME Users, ~EditMap PROVE UNCHANGED cm
    BY <1>2 DEF Users, CreateCIP, UpdateCIP, DeleteCIP, EditCIP, EditSecret
  <1>3. ASSUME (\E c \in CIPs : CIPEvent(c)) \/ (\E s \in Secrets : SecretEvent(s))
        PROVE  UNCHANGED cm
    BY <1>3 DEF CIPEvent, SecretEvent
  <1>4. QED BY <1>1, <1>2, <1>3 DEF Next, vars

\* Which steps change the ConfigMap on the API server, and how.
LEMMA ServerMapStep ==
    ASSUME IInv, [Next]_vars
    PROVE  \/ ServerMap' = ServerMap
           \/ \E c \in CIPs :
                 /\ writeMap(c)
                 /\ LET w == work[c]
                        p == Request(c, w.want, w.existing, w.entry)
                    IN Accepts(p, ServerMap) /\ ServerMap' = Apply(p, ServerMap)
           \/ MapDeletable /\ ServerMap' = NoMap /\ UNCHANGED cips
           \/ \E c \in CIPs :
                 /\ ServerMap' = [ServerMap EXCEPT !.data[c] = NoEntry]
                 /\ UNCHANGED cips
  <1>1. cm \in Seq(ConfigMaps) /\ Len(cm) \in 1..MaxLag /\ ServerMap \in ConfigMaps
    BY EndFacts DEF IInv, TypeOK, ServerMap
  <1>2. CASE UNCHANGED cm
    BY <1>2 DEF ServerMap, Last
  <1>3. ASSUME NEW c \in CIPs, writeMap(c), cm' # cm
        PROVE  LET w == work[c]
                   p == Request(c, w.want, w.existing, w.entry)
               IN Accepts(p, ServerMap) /\ ServerMap' = Apply(p, ServerMap)
    <2> DEFINE w == work[c]
               p == Request(c, w.want, w.existing, w.entry)
    <2>1. Accepts(p, ServerMap) /\ cm' = Push(cm, Apply(p, ServerMap))
      BY <1>3 DEF writeMap
    <2>2. Last(Push(cm, Apply(p, ServerMap))) = Apply(p, ServerMap)
      BY <1>3, WriteMapType DEF writeMap
    <2> HIDE DEF p
    <2>3. ServerMap' = Apply(p, ServerMap)
      BY <2>1, <2>2 DEF ServerMap
    <2>4. QED BY <2>1, <2>3 DEF p
  <1>4. CASE MapEvent
    <2>1. Last(Tail(cm)) = Last(cm)
      BY <1>1, <1>4, TailFacts DEF MapEvent
    <2>2. QED BY <1>4, <2>1 DEF MapEvent, ServerMap
  <1>5. CASE Restart
    <2>1. Last(<<ServerMap>>) = ServerMap
      BY DEF Last
    <2>2. cm' = <<ServerMap>>
      BY <1>5 DEF Restart
    <2>3. ServerMap' = Last(cm')
      BY DEF ServerMap
    <2>4. QED BY <2>1, <2>2, <2>3
  <1>6. CASE EditMap
    <2>1. \A m \in ConfigMaps : Last(Push(cm, m)) = m
      BY <1>1, PushFacts
    <2>2. ServerMap' = Last(cm') /\ UNCHANGED cips
      BY <1>6 DEF ServerMap, EditMap
    <2>3. CASE MapDeletable /\ cm' = Push(cm, NoMap)
      <3>1. NoMap \in ConfigMaps
        BY DEF NoMap, NoData, ConfigMaps
      <3>2. QED BY <2>1, <2>2, <2>3, <3>1
    <2>4. ASSUME NEW c \in CIPs,
                 cm' = Push(cm, [ServerMap EXCEPT !.data[c] = NoEntry])
          PROVE  ServerMap' = [ServerMap EXCEPT !.data[c] = NoEntry]
      <3>1. [ServerMap EXCEPT !.data[c] = NoEntry] \in ConfigMaps
        BY <1>1 DEF ConfigMaps
      <3>2. QED BY <2>1, <2>2, <2>4, <3>1
    <2>5. QED BY <1>6, <2>2, <2>3, <2>4 DEF EditMap
  <1>7. QED BY <1>2, <1>3, <1>4, <1>5, <1>6, MapWriters

\* A ConfigMap entry is written only while its CIP carries the finalizer.
THEOREM EntriesGuarded == Spec => FinalizerGuardsEntry
  <1> DEFINE Guarded == \A c \in CIPs :
                ServerMap'.data[c] \notin {NoEntry, ServerMap.data[c]}
                   => Finalized(Server(c))
  <1>1. ASSUME IInv, [Next]_vars PROVE [Guarded]_vars
    <2> SUFFICES ASSUME NEW c \in CIPs,
                        ServerMap'.data[c] \notin {NoEntry, ServerMap.data[c]}
                 PROVE  Finalized(Server(c))
      OBVIOUS
    <2>1. PICK d \in CIPs :
             /\ writeMap(d)
             /\ LET w == work[d]
                    p == Request(d, w.want, w.existing, w.entry)
                IN ServerMap' = Apply(p, ServerMap)
      <3>1. ServerMap \in ConfigMaps
        BY <1>1, EndFacts DEF IInv, TypeOK, ServerMap
      <3>2. ServerMap' # NoMap /\ ServerMap' # ServerMap
        BY DEF NoMap, NoData
      <3>3. \A d \in CIPs : ServerMap' # [ServerMap EXCEPT !.data[d] = NoEntry]
        BY <3>1 DEF ConfigMaps
      <3>4. QED BY <1>1, <3>2, <3>3, ServerMapStep
    <2> DEFINE w == work[d]
               p == Request(d, w.want, w.existing, w.entry)
    <2>2. /\ w.pc = "writeMap" /\ p.cip = d
          /\ p.entry \in {NoEntry} \cup Entries
          /\ w.want # "put" => p.entry = NoEntry
          /\ ServerMap \in ConfigMaps
      BY <1>1, <2>1, WriteMapType DEF writeMap
    <2>3. ServerMap' = Apply(p, ServerMap)
      BY <2>1
    <2> HIDE DEF p
    <2>4. c = d /\ p.entry # NoEntry
      BY <2>2, <2>3, ApplyFacts
    <2>5. Finalized(Last(cips[c]))
      BY <1>1, <2>2, <2>4, Reads DEF WorkLogOK, Reconciling
    <2>6. QED BY <1>1, <2>5, Reads
  <1>2. QED BY <1>1, Invariance, PTL DEF Spec, FinalizerGuardsEntry

-----------------------------------------------------------------------------
(***************************************************************************)
(* With the shipped ConfigMap in place the controller implements           *)
(* PolicyTable.  The _example key keeps /data from ever being empty, in    *)
(* the copies that are read as well as on the API server, so no patch of   *)
(* /data as a whole is ever made.                                          *)
(***************************************************************************)
ExampleKept ==
    /\ \A i \in 1..Len(cm) : cm[i].kind = "example"
    /\ \A c \in CIPs : work[c].pc = "writeMap" => work[c].existing.kind = "example"

\* A ConfigMap with one entry set or removed.
WithEntry(m, c, e) == [m EXCEPT !.data[c] = e]

\* The request that the running reconcile of c is about to send.
RequestOf(c) ==
    Request(c, work[c].want, work[c].existing, work[c].entry)

\* Next to an _example key a request touches nothing but its own entry.
LEMMA ExampleRequest ==
    ASSUME NEW c \in CIPs, work[c].existing.kind = "example",
           Accepts(RequestOf(c), ServerMap)
    PROVE  Apply(RequestOf(c), ServerMap)
              = WithEntry(ServerMap, c, RequestOf(c).entry)
  <1> DEFINE w == work[c]
             p == Request(c, w.want, w.existing, w.entry)
  <1>1. p.op \in {"none", "add", "replace", "remove"}
    BY DEF Request, CreatePatch, CreateRemovePatch, Patch, DataEmpty
  <1>2. p.cip = c
    BY RequestFacts
  <1>3. RequestOf(c) = p
    BY DEF RequestOf
  <1> HIDE DEF p
  <1>4. QED BY <1>1, <1>2, <1>3 DEF Apply, WithEntry

\* After its attempt on the ConfigMap a reconcile is not about to write.
LEMMA ReturnEnds ==
    ASSUME IInv, NEW c \in CIPs, NEW w \in Works, NEW ok, Return(c, w, ok)
    PROVE  work'[c].pc # "writeMap"
  <1>1. c \in DOMAIN work
    BY DEF IInv, TypeOK
  <1>2. CASE w.want = "finalize"
    BY <1>1, <1>2 DEF Return, Goto, Works
  <1>3. CASE w.want # "finalize"
    BY <1>1, <1>3 DEF Return, Goto, Finish, Fail, Idle
  <1>4. QED BY <1>2, <1>3

\* A reconcile about to write has read its copy of the ConfigMap from the
\* informer's cache.
LEMMA WriterReadsMap ==
    ASSUME IInv, [Next]_vars, NEW c \in CIPs, work'[c].pc = "writeMap"
    PROVE  \/ work[c].pc = "writeMap" /\ work'[c].existing = work[c].existing
           \/ work'[c].existing = CachedMap
  <1>1. work[c] \in Works /\ DOMAIN work = CIPs /\ work \in [CIPs -> Works]
    BY DEF IInv, TypeOK
  <1>2. CASE work' = work
    BY <1>2
  <1>3. CASE Restart
    BY <1>3 DEF Restart, Idle
  <1>4. ASSUME NEW d \in CIPs, d # c, Reconcile(d)
        PROVE  work'[c] = work[c]
    BY <1>1, <1>4 DEF Reconcile, Take, setFinalizerIfFinalizer,
       inlinePublicKeys, readMap, writeMap, clearFinalizer, Return, Goto,
       Finish, Fail
  <1>5. CASE Reconcile(c)
    <2>1. CASE Take(c)
      BY <1>1, <2>1 DEF Take, Idle
    <2>2. CASE setFinalizerIfFinalizer(c)
      <3>1. CASE Goto(c, [work[c] EXCEPT !.pc = "inline"])
        BY <1>1, <3>1 DEF Goto, Works
      <3>2. CASE Goto(c, [work[c] EXCEPT !.pc = "inline",
                                         !.res = WithFinalizer(Cached(c), TRUE)])
        BY <1>1, <3>2 DEF Goto, Works
      <3>3. CASE Fail(c)
        BY <1>1, <3>3 DEF Fail, Idle
      <3>4. QED BY <2>2, <3>1, <3>2, <3>3 DEF setFinalizerIfFinalizer
    <2>3. CASE inlinePublicKeys(c)
      BY <1>1, <2>3 DEF inlinePublicKeys, Goto, Works
    <2>4. CASE readMap(c)
      <3> DEFINE w == [work[c] EXCEPT !.pc = "writeMap", !.existing = CachedMap]
      <3>1. CASE Goto(c, w)
        BY <1>1, <3>1 DEF Goto, Works
      <3>2. w \in Works
        <4>1. CachedMap \in ConfigMaps
          BY Reads, EndFacts DEF RestOK, CachedMap
        <4>2. QED BY <1>1, <4>1 DEF Works, Steps
      <3>3. CASE Return(c, w, TRUE)
        BY <3>2, <3>3, ReturnEnds
      <3>4. QED BY <2>4, <3>1, <3>3 DEF readMap
    <2>5. CASE writeMap(c)
      <3>1. Return(c, work[c], TRUE) \/ Return(c, work[c], FALSE)
        BY <2>5 DEF writeMap
      <3>2. QED BY <1>1, <3>1, ReturnEnds
    <2>6. CASE clearFinalizer(c)
      BY <1>1, <2>6 DEF clearFinalizer, Goto, Finish, Fail, Idle
    <2>7. QED BY <1>5, <2>1, <2>2, <2>3, <2>4, <2>5, <2>6 DEF Reconcile
  <1>6. ASSUME \/ Users \/ MapEvent \/ UNCHANGED vars
               \/ \E d \in CIPs : CIPEvent(d)
               \/ \E s \in Secrets : SecretEvent(s)
        PROVE  work' = work
    BY <1>6 DEF Users, CreateCIP, UpdateCIP, DeleteCIP, EditCIP, EditSecret,
                EditMap, MapEvent, CIPEvent, SecretEvent, vars
  <1>7. QED BY <1>2, <1>3, <1>4, <1>5, <1>6 DEF Next

\* A ConfigMap that nobody deletes keeps its _example key, on the API server, in
\* the cache and in the copies reconciles work on.
LEMMA ExampleStep ==
    ASSUME IInv, ExampleKept, [Next]_vars, ~MapDeletable
    PROVE  ExampleKept'
  <1> USE DEF ExampleKept
  <1>1. /\ cm \in Seq(ConfigMaps) /\ Len(cm) \in 1..MaxLag
        /\ ServerMap \in ConfigMaps /\ ServerMap.kind = "example"
        /\ CachedMap.kind = "example"
    BY EndFacts DEF IInv, TypeOK, ServerMap, CachedMap
  <1>2. ASSUME NEW m \in ConfigMaps, m.kind = "example", cm' = Push(cm, m)
        PROVE  \A i \in 1..Len(cm') : cm'[i].kind = "example"
    <2> DEFINE new == Push(cm, m)
    <2>1. /\ Len(new) \in 2..MaxLag /\ Last(new) = m
          /\ \A i \in 1..Len(new) :
                i < Len(new) => i \in 1..Len(cm) /\ new[i] = cm[i]
      BY <1>1, PushFacts
    <2> HIDE DEF new
    <2>2. \A i \in 1..Len(new) : new[i].kind = "example"
      BY <1>2, <2>1 DEF Last
    <2>3. QED BY <1>2, <2>2 DEF new
  <1>3. \A i \in 1..Len(cm') : cm'[i].kind = "example"
    <2>1. CASE UNCHANGED cm
      BY <2>1
    <2>2. ASSUME NEW c \in CIPs, writeMap(c), cm' # cm
          PROVE  \A i \in 1..Len(cm') : cm'[i].kind = "example"
      <3> DEFINE w == work[c]
                 p == Request(c, w.want, w.existing, w.entry)
      <3>1. /\ w.pc = "writeMap" /\ Accepts(p, ServerMap)
            /\ cm' = Push(cm, Apply(p, ServerMap))
        BY <2>2 DEF writeMap
      <3>2. Apply(p, ServerMap) \in ConfigMaps
        BY <3>1, WriteMapType
      <3>3. w.existing.kind = "example"
        BY <3>1
      <3>4. Apply(p, ServerMap) = WithEntry(ServerMap, c, p.entry)
        <4>1. p = RequestOf(c)
          BY DEF RequestOf
        <4> HIDE DEF p
        <4>2. QED BY <3>1, <3>3, <4>1, ExampleRequest
      <3> HIDE DEF p
      <3>5. Apply(p, ServerMap).kind = "example"
        <4>1. WithEntry(ServerMap, c, p.entry).kind = ServerMap.kind
          BY <1>1 DEF WithEntry, ConfigMaps
        <4>2. QED BY <1>1, <3>4, <4>1
      <3> DEFINE m == Apply(p, ServerMap)
      <3>6. m \in ConfigMaps /\ m.kind = "example" /\ cm' = Push(cm, m)
        BY <3>1, <3>2, <3>5
      <3> HIDE DEF m
      <3>7. QED BY <1>2, <3>6
    <2>3. CASE MapEvent
      <3>1. /\ Len(Tail(cm)) = Len(cm) - 1
            /\ \A i \in 1..Len(Tail(cm)) : Tail(cm)[i] = cm[i + 1]
        BY <1>1, <2>3, TailFacts DEF MapEvent
      <3> DEFINE new == Tail(cm)
      <3> HIDE DEF new
      <3>2. Len(new) = Len(cm) - 1 /\ \A i \in 1..Len(new) : new[i] = cm[i + 1]
        BY <3>1 DEF new
      <3>3. \A i \in 1..Len(new) : i + 1 \in 1..Len(cm)
        BY <1>1, <3>2
      <3>4. \A i \in 1..Len(new) : new[i].kind = "example"
        BY <3>2, <3>3
      <3>5. cm' = new
        BY <2>3 DEF MapEvent, new
      <3>6. QED BY <3>4, <3>5
    <2>4. CASE Restart
      BY <1>1, <2>4 DEF Restart
    <2>5. CASE EditMap
      <3>1. PICK c \in CIPs : cm' = Push(cm, [ServerMap EXCEPT !.data[c] = NoEntry])
        BY <2>5 DEF EditMap
      <3>2. /\ [ServerMap EXCEPT !.data[c] = NoEntry] \in ConfigMaps
            /\ [ServerMap EXCEPT !.data[c] = NoEntry].kind = "example"
        BY <1>1 DEF ConfigMaps
      <3>3. QED BY <1>2, <3>1, <3>2
    <2>6. QED BY <2>1, <2>2, <2>3, <2>4, <2>5, MapWriters
  <1>4. \A c \in CIPs : work'[c].pc = "writeMap" =>
           work'[c].existing.kind = "example"
    BY <1>1, WriterReadsMap
  <1>5. QED BY <1>3, <1>4

\* A step that leaves every CIP as it is changes at most one row of the table.
LEMMA TableStep ==
    ASSUME IInv, ExampleKept, [Next]_vars, ~MapDeletable, UNCHANGED cips
    PROVE  \/ ServerMap'.data = ServerMap.data
           \/ \E c \in CIPs :
                 ServerMap'.data = [ServerMap.data EXCEPT ![c] = NoEntry]
           \/ \E c \in CIPs :
                 /\ Finalized(Server(c))
                 /\ \E e \in Entries :
                      ServerMap'.data = [ServerMap.data EXCEPT ![c] = e]
  <1>1. ServerMap \in ConfigMaps /\ ServerMap.kind = "example"
    BY EndFacts DEF IInv, TypeOK, ServerMap, ExampleKept
  <1>2. ASSUME NEW c \in CIPs, writeMap(c),
               LET w == work[c]
                   p == Request(c, w.want, w.existing, w.entry)
               IN Accepts(p, ServerMap) /\ ServerMap' = Apply(p, ServerMap)
        PROVE  \E e \in {NoEntry} \cup Entries :
                  /\ ServerMap'.data = [ServerMap.data EXCEPT ![c] = e]
                  /\ e # NoEntry => Finalized(Server(c))
    <2> DEFINE w == work[c]
               p == Request(c, w.want, w.existing, w.entry)
    <2>1. /\ w.pc = "writeMap" /\ w.existing.kind = "example"
          /\ p.entry \in {NoEntry} \cup Entries
          /\ w.want # "put" => p.entry = NoEntry
      BY <1>2, WriteMapType DEF writeMap, ExampleKept
    <2>2. ServerMap' = WithEntry(ServerMap, c, p.entry)
      <3>1. p = RequestOf(c)
        BY DEF RequestOf
      <3>2. Accepts(p, ServerMap) /\ ServerMap' = Apply(p, ServerMap)
        BY <1>2
      <3> HIDE DEF p
      <3>3. QED BY <2>1, <3>1, <3>2, ExampleRequest
    <2>3. w.want = "put" => Finalized(Server(c))
      BY <2>1, Reads DEF WorkLogOK, Reconciling
    <2> HIDE DEF p
    <2>4. ServerMap'.data = [ServerMap.data EXCEPT ![c] = p.entry]
      BY <1>1, <2>2 DEF WithEntry, ConfigMaps
    <2>5. QED BY <2>1, <2>3, <2>4
  <1>3. ASSUME NEW c \in CIPs, ServerMap' = [ServerMap EXCEPT !.data[c] = NoEntry]
        PROVE  ServerMap'.data = [ServerMap.data EXCEPT ![c] = NoEntry]
    BY <1>1, <1>3 DEF ConfigMaps
  <1>4. QED BY <1>2, <1>3, ServerMapStep

\* A step that changes a CIP leaves the table alone and changes the finalizer
\* of at most that CIP.
LEMMA GuardStep ==
    ASSUME IInv, [Next]_vars, ~UNCHANGED cips
    PROVE  LET guarded == [c \in CIPs |-> Finalized(Server(c))] IN
           /\ ServerMap'.data = ServerMap.data
           /\ \/ guarded' = guarded
              \/ \E c \in CIPs, g \in BOOLEAN :
                    guarded' = [guarded EXCEPT ![c] = g]
  <1> DEFINE guarded == [c \in CIPs |-> Finalized(Server(c))]
  <1>1. ASSUME NEW c \in CIPs, NEW log, cips' = [cips EXCEPT ![c] = log],
               UNCHANGED cm
        PROVE  /\ ServerMap'.data = ServerMap.data
               /\ \E g \in BOOLEAN : guarded' = [guarded EXCEPT ![c] = g]
    <2>1. \A d \in CIPs : d # c => cips'[d] = cips[d]
      BY <1>1 DEF IInv, TypeOK
    <2>2. \A d \in CIPs : d # c => Server(d)' = Server(d)
      BY <2>1 DEF Server, Last
    <2>3. guarded' = [guarded EXCEPT ![c] = Finalized(Server(c))']
      BY <2>2 DEF Finalized
    <2>4. Finalized(Server(c))' \in BOOLEAN
      BY DEF Finalized
    <2>5. ServerMap' = ServerMap
      BY <1>1 DEF ServerMap, Last
    <2>6. QED BY <2>3, <2>4, <2>5
  <1>2. ASSUME NEW c \in CIPs, \/ setFinalizerIfFinalizer(c)
                               \/ clearFinalizer(c) \/ CIPEvent(c)
                               \/ CreateCIP(c) \/ UpdateCIP(c) \/ DeleteCIP(c)
        PROVE  UNCHANGED cm /\ \E log : cips' = [cips EXCEPT ![c] = log]
    BY <1>2 DEF setFinalizerIfFinalizer, clearFinalizer, CIPEvent, CreateCIP,
       UpdateCIP, DeleteCIP, EditCIP, updateFinalizersFiltered, PatchFinalizers
  <1>3. CASE Restart
    <2>1. \A c \in CIPs : Server(c)' = Server(c)
      <3>1. \A c \in CIPs : cips'[c] = <<Server(c)>>
        BY <1>3 DEF Restart
      <3>2. \A v : Last(<<v>>) = v
        BY DEF Last
      <3>3. \A c \in CIPs : Server(c)' = Last(cips'[c])
        BY DEF Server, Last
      <3>4. QED BY <3>1, <3>2, <3>3
    <2>2. guarded' = guarded
      BY <2>1 DEF Finalized
    <2>3. ServerMap' = ServerMap
      BY <1>3 DEF Restart, ServerMap, Last
    <2>4. QED BY <2>2, <2>3
  <1>4. ASSUME \/ EditMap \/ MapEvent \/ UNCHANGED vars
               \/ \E s \in Secrets : EditSecret(s) \/ SecretEvent(s)
               \/ \E c \in CIPs : Take(c) \/ inlinePublicKeys(c)
                                   \/ readMap(c) \/ writeMap(c)
        PROVE  UNCHANGED cips
    BY <1>4 DEF EditMap, MapEvent, vars, EditSecret, SecretEvent, Take,
                inlinePublicKeys, readMap, writeMap
  <1>5. QED BY <1>1, <1>2, <1>3, <1>4 DEF Next, Users, Reconcile

\* As long as nobody deletes the ConfigMap the controller was shipped with, its
\* writes change one entry at a time and only under the finalizer.
THEOREM ShippedRefinement ==
    ASSUME InitMaps = {ShippedMap}, ~MapDeletable
    PROVE  Spec => ImplementsPolicyTable
  <1>1. Init => ExampleKept
    BY DEF Init, ExampleKept, ShippedMap, Idle
  <1>2. Init => Table!TableInit
    <2> SUFFICES ASSUME Init PROVE Table!TableInit
      OBVIOUS
    <2>1. ServerMap.data = [c \in CIPs |-> NoEntry]
      BY DEF Init, ServerMap, Last, ShippedMap, NoData
    <2>2. \A c \in CIPs : Finalized(Server(c)) = FALSE
      <3>1. \A c \in CIPs : Server(c).phase = "absent"
        BY DEF Init, Server, Last, AbsentObject
      <3>2. \A c \in CIPs : ~Finalized(Server(c))
        BY <3>1 DEF Finalized
      <3>3. \A c \in CIPs : Finalized(Server(c)) \in BOOLEAN
        BY DEF Finalized
      <3>4. QED BY <3>2, <3>3
    <2>3. QED BY <2>1, <2>2 DEF Table!TableInit
  <1>3. ASSUME IInv, ExampleKept, [Next]_vars
        PROVE  [Table!TableNext]_(Table!tableVars)
    <2> DEFINE table == ServerMap.data
               guarded == [c \in CIPs |-> Finalized(Server(c))]
    <2>1. CASE UNCHANGED cips
      <3>1. guarded' = guarded
        BY <2>1 DEF Server, Last
      <3>2. \/ table' = table
            \/ \E c \in CIPs : table' = [table EXCEPT ![c] = NoEntry]
            \/ \E c \in CIPs : /\ guarded[c]
                              /\ \E e \in Entries : table' = [table EXCEPT ![c] = e]
        BY <1>3, <2>1, TableStep
      <3>3. QED BY <3>1, <3>2
            DEF Table!TableNext, Table!Put, Table!Drop, Table!tableVars
    <2>2. CASE ~UNCHANGED cips
      <3>1. /\ table' = table
            /\ guarded' = guarded
                  \/ \E c \in CIPs, g \in BOOLEAN :
                        guarded' = [guarded EXCEPT ![c] = g]
        BY <1>3, <2>2, GuardStep
      <3>2. QED BY <3>1 DEF Table!TableNext, Table!Guard, Table!tableVars
    <2>3. QED BY <2>1, <2>2
  <1>4. IInv /\ ExampleKept /\ [Next]_vars => ExampleKept'
    BY ExampleStep
  <1>5. QED
    BY <1>1, <1>2, <1>3, <1>4, Invariance, PTL
       DEF Spec, ImplementsPolicyTable, Table!TableSpec
=============================================================================
