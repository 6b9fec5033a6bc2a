-------------------------- MODULE TufClient_proofs --------------------------
(***************************************************************************)
(* Whatever commands share TUF_ROOT, and however they are interrupted: a   *)
(* target that is served is the one its metadata describes, a command that *)
(* found its timestamp expired never serves an older release than the one  *)
(* its mirror had, and tuf.db is closed by every command that is over.     *)
(***************************************************************************)
EXTENDS TufClient, TLAPS

Held == {"init", "update", "download", "set", "write", "ready"}

\* The command has tuf.db open.
HasDb(r) == r.pc \in Held /\ r.local = "file"

\* Stores and commands have the fields of NoStore and Done.
IsStore(s) ==
    /\ s = [root |-> s.root, from |-> s.from, version |-> s.version, age |-> s.age]
    /\ s.version \in Nat

IsRun(r) ==
    r = [pc |-> r.pc, cmd |-> r.cmd, local |-> r.local, mirror |-> r.mirror,
         root |-> r.root, store |-> r.store, files |-> r.files, buf |-> r.buf,
         need |-> r.need]

StoreOfRun(r, d) == IF r.local = "embedded" THEN r.store ELSE d

\* What a command needs is what its mirror serves and then what its store describes.
\* A command that has come to open a store knows which one, and its mirror.
Good(r, d, served) ==
    /\ r.need \in Nat /\ IsStore(r.store)
    /\ r.pc \in Held \cup {"mirror", "open"} => r.local \in {"embedded", "file"}
    /\ r.pc \in Held \cup {"open", "remote", "writeRemote"} => r.mirror \in Mirrors
    /\ r.pc = "update" => r.need <= served[r.mirror]
    /\ r.pc \in {"download", "set", "write", "ready"} => r.need <= StoreOfRun(r, d).version

\* What a command obtained.
GoodResult(g) ==
    g.targets # {} =>
       /\ g.from = g.root
       /\ \A x \in g.targets : x[2] = Releases[g.from][g.version][x[1]]
       /\ g.version >= g.need

\* The inductive invariant.  tuf.db is open for exactly the command that is at
\* work on it, so that nobody else can replace the metadata it updated.
TufInv ==
    /\ IsStore(db) /\ IsStore(embedded)
    /\ lock \in {"free"} \cup Procs
    /\ remote \in {NoMirror} \cup Mirrors
    /\ pub \in [Mirrors -> Nat]
    /\ DOMAIN run = Procs /\ DOMAIN got = Procs
    /\ \A p \in Procs : IsRun(run[p]) /\ Good(run[p], db, pub) /\ GoodResult(got[p])
    /\ \A p \in Procs : HasDb(run[p]) <=> lock = p

\* A step of one command.  It may write to tuf.db only when it ends up having it
\* open, and may open tuf.db only when nobody else has.
LEMMA Moves ==
    ASSUME TufInv, NEW p \in Procs, NEW d, Goto(p, d), IsRun(d), Good(d, db', pub),
           IsStore(db'), db' = db \/ lock' = p,
           lock' = lock \/ (lock \in {p, "free"} /\ lock' \in {p, "free"}),
           HasDb(d) <=> lock' = p,
           remote' \in {NoMirror} \cup Mirrors, pub' = pub, embedded' = embedded,
           DOMAIN got' = Procs, \A q \in Procs : GoodResult(got'[q])
    PROVE  TufInv'
<1>1. DOMAIN run' = Procs /\ run'[p] = d /\ \A q \in Procs \ {p} : run'[q] = run[q]
    BY DEF Goto, TufInv
<1>2. ASSUME NEW q \in Procs \ {p} PROVE Good(run'[q], db', pub') /\ IsRun(run'[q])
  <2>1. Good(run[q], db, pub) /\ IsRun(run[q]) /\ run'[q] = run[q]
      BY <1>1 DEF TufInv
  <2>2. CASE db' = db
      BY <2>1, <2>2
  <2>3. CASE lock' = p
    <3>1. ~HasDb(run[q])
        BY <2>3, TufAssumption DEF TufInv
    <3>2. run[q].pc \in {"download", "set", "write", "ready"} => run[q].local = "embedded"
        BY <2>1, <3>1 DEF Good, HasDb, Held
    <3>3. run[q].pc \in {"download", "set", "write", "ready"} =>
              run[q].need <= StoreOfRun(run[q], db').version
        BY <2>1, <3>2 DEF Good, StoreOfRun
    <3> QED BY <2>1, <3>3 DEF Good
  <2> QED BY <2>2, <2>3
<1>3. ASSUME NEW q \in Procs \ {p} PROVE HasDb(run'[q]) <=> lock' = q
    BY <1>1, TufAssumption DEF TufInv
<1>4. lock' \in {"free"} \cup Procs
    BY DEF TufInv
<1> QED BY <1>1, <1>2, <1>3, <1>4 DEF TufInv

\* A command that is over: whatever it had open is closed.
LEMMA DoneIsGood == IsRun(Done) /\ ~HasDb(Done) /\ \A d, served : Good(Done, d, served)
BY DEF Done, IsRun, HasDb, Held, Good, NoStore, IsStore

LEMMA Aborts ==
    ASSUME TufInv, NEW p \in Procs, Abort(p), UNCHANGED <<db, pub, embedded>>,
           remote' \in {NoMirror} \cup Mirrors,
           DOMAIN got' = Procs, \A q \in Procs : GoodResult(got'[q])
    PROVE  TufInv'
<1>1. Goto(p, Done) /\ lock' # p
    BY TufAssumption DEF Abort, Close
<1>2. lock' = lock \/ (lock = p /\ lock' = "free")
    BY DEF Abort, Close
<1>3. IsStore(db)
    BY DEF TufInv
<1> QED BY <1>1, <1>2, <1>3, DoneIsGood, Moves

\* A step that leaves everything shared alone but the command itself.
LEMMA MovesAlone ==
    ASSUME TufInv, NEW p \in Procs, NEW d, Goto(p, d), IsRun(d), Good(d, db, pub),
           UNCHANGED <<db, lock, pub, embedded, got>>, HasDb(d) <=> HasDb(run[p]),
           remote' \in {NoMirror} \cup Mirrors
    PROVE  TufInv'
<1>1. HasDb(d) <=> lock' = p
    BY DEF TufInv
<1>2. IsStore(db') /\ DOMAIN got' = Procs /\ \A q \in Procs : GoodResult(got'[q])
    BY DEF TufInv
<1> QED BY <1>1, <1>2, Moves

LEMMA TufInitInv == Init => TufInv
<1> SUFFICES ASSUME Init PROVE TufInv
    OBVIOUS
<1>1. EmbeddedVersion \in Nat
    BY TufAssumption
<1>2. IsStore(NoStore) /\ IsStore(StoreOf(DefaultRemoteRoot, EmbeddedVersion))
    BY <1>1 DEF IsStore, NoStore, StoreOf
<1>3. IsStore(db) /\ IsStore(embedded) /\ remote \in {NoMirror} \cup Mirrors
    BY <1>2, TufAssumption DEF Init
<1>4. pub \in [Mirrors -> Nat]
    BY <1>1 DEF Init
<1>5. GoodResult(Nothing)
    BY DEF GoodResult, Nothing
<1>6. \A p \in Procs : run[p] = Done /\ got[p] = Nothing
    BY DEF Init
<1>7. \A p \in Procs : lock # p
    BY TufAssumption DEF Init
<1>8. DOMAIN run = Procs /\ DOMAIN got = Procs /\ lock = "free"
    BY DEF Init
<1> QED BY <1>3, <1>4, <1>5, <1>6, <1>7, <1>8, DoneIsGood DEF TufInv

LEMMA StartInv == ASSUME TufInv, NEW p \in Procs, Start(p) PROVE TufInv'
<1>1. /\ ~HasDb(run[p]) /\ UNCHANGED <<db, lock, pub, embedded, remote>>
      /\ DOMAIN got' = Procs
    BY DEF Start, HasDb, Held, env, TufInv
<1>2. \A q \in Procs : GoodResult(got'[q])
    BY DEF Start, TufInv, GoodResult, Nothing
<1>3. ASSUME NEW d, Goto(p, d), IsRun(d), Good(d, db, pub), ~HasDb(d) PROVE TufInv'
  <2>1. lock' # p /\ IsStore(db') /\ remote' \in {NoMirror} \cup Mirrors
      BY <1>1 DEF TufInv
  <2> QED BY <1>1, <1>2, <1>3, <2>1, Moves
<1>4. ASSUME NEW d, d = [Done EXCEPT !.pc = "stat", !.cmd = "get"], Goto(p, d) PROVE TufInv'
  <2>1. IsRun(d) /\ ~HasDb(d) /\ Good(d, db, pub)
      BY <1>4 DEF Done, IsRun, HasDb, Held, Good, NoStore, IsStore
  <2> QED BY <1>3, <1>4, <2>1
<1>5. ASSUME NEW m \in Mirrors, NEW root, NEW d, Goto(p, d),
             d = [Done EXCEPT !.pc = "open", !.cmd = "initialize", !.local = "file",
                              !.mirror = m, !.root = root]
      PROVE  TufInv'
  <2>1. IsRun(d) /\ ~HasDb(d) /\ Good(d, db, pub)
      BY <1>5 DEF Done, IsRun, HasDb, Held, Good, NoStore, IsStore
  <2> QED BY <1>3, <1>5, <2>1
<1> QED BY <1>4, <1>5 DEF Start

LEMMA StatInv == ASSUME TufInv, NEW p \in Procs, Stat(p) \/ ReadRemote(p) PROVE TufInv'
<1>1. /\ UNCHANGED <<db, lock, pub, embedded, got>> /\ ~HasDb(run[p])
      /\ remote' \in {NoMirror} \cup Mirrors
      /\ run[p].pc \in {"stat", "mirror"}
    BY DEF Stat, ReadRemote, env, HasDb, Held, TufInv
<1>2. IsRun(run[p]) /\ Good(run[p], db, pub)
    BY DEF TufInv
<1>3. CASE Stat(p)
  <2> DEFINE local == IF db.age = "absent" THEN "embedded" ELSE "file"
  <2>1. ASSUME NEW d, d = [run[p] EXCEPT !.pc = "mirror", !.local = local], Goto(p, d)
        PROVE  TufInv'
    <3>1. /\ IsRun(d) /\ d.pc = "mirror" /\ d.need = run[p].need /\ d.store = run[p].store
          /\ d.local = local
      <4> HIDE DEF local
      <4> QED BY <1>2, <2>1 DEF IsRun
    <3>2. Good(d, db, pub) /\ ~HasDb(d)
        BY <1>2, <3>1 DEF Good, HasDb, Held
    <3> QED BY <1>1, <2>1, <3>1, <3>2, MovesAlone
  <2> QED BY <1>3, <2>1 DEF Stat
<1>4. CASE ReadRemote(p)
  <2> DEFINE m == IF remote = NoMirror THEN DefaultRemoteRoot ELSE remote
  <2>1. m \in Mirrors
      BY TufAssumption DEF TufInv
  <2>2. run[p].local \in {"embedded", "file"}
      BY <1>2, <1>4 DEF ReadRemote, Good
  <2>3. ASSUME NEW d, d = [run[p] EXCEPT !.pc = "open", !.mirror = m], Goto(p, d)
        PROVE  TufInv'
    <3>1. /\ IsRun(d) /\ d.pc = "open" /\ d.mirror = m /\ d.local = run[p].local
          /\ d.need = run[p].need /\ d.store = run[p].store
      <4> HIDE DEF m
      <4> QED BY <1>2, <2>3 DEF IsRun
    <3>2. Good(d, db, pub) /\ ~HasDb(d)
        BY <1>2, <2>1, <2>2, <3>1 DEF Good, HasDb, Held
    <3> QED BY <1>1, <2>3, <3>1, <3>2, MovesAlone
  <2> QED BY <1>4, <2>3 DEF ReadRemote
<1> QED BY <1>3, <1>4

LEMMA OpenInv == ASSUME TufInv, NEW p \in Procs, Open(p) PROVE TufInv'
<1>1. /\ UNCHANGED <<pub, embedded, got>> /\ ~HasDb(run[p]) /\ lock # p
      /\ remote' \in {NoMirror} \cup Mirrors /\ run[p].pc = "open"
    BY DEF Open, env, HasDb, Held, TufInv
<1>2. /\ IsRun(run[p]) /\ Good(run[p], db, pub) /\ IsStore(embedded) /\ IsStore(db)
      /\ DOMAIN got' = Procs /\ \A q \in Procs : GoodResult(got'[q])
    BY <1>1 DEF TufInv
<1>3. ASSUME NEW d, d = [run[p] EXCEPT !.pc = "init", !.store = embedded], Goto(p, d),
             run[p].local = "embedded", UNCHANGED <<db, lock>>
      PROVE  TufInv'
  <2>1. /\ IsRun(d) /\ d.pc = "init" /\ d.mirror = run[p].mirror /\ d.local = run[p].local
        /\ d.need = run[p].need /\ d.store = embedded
      BY <1>2, <1>3 DEF IsRun
  <2>2. Good(d, db, pub) /\ ~HasDb(d)
      BY <1>1, <1>2, <1>3, <2>1 DEF Good, HasDb, Held
  <2> QED BY <1>1, <1>3, <2>1, <2>2, MovesAlone
<1>4. ASSUME NEW d, d = [run[p] EXCEPT !.pc = "init"], Goto(p, d), lock = "free",
             run[p].local # "embedded", lock' = p,
             db' = IF db.age = "absent" THEN EmptyStore ELSE db
      PROVE  TufInv'
  <2>1. /\ IsRun(d) /\ d.pc = "init" /\ d.mirror = run[p].mirror /\ d.local = run[p].local
        /\ d.need = run[p].need /\ d.store = run[p].store
      BY <1>2, <1>4 DEF IsRun
  <2>2. Good(d, db', pub) /\ HasDb(d)
      BY <1>1, <1>2, <1>4, <2>1 DEF Good, HasDb, Held
  <2>3. IsStore(db')
      BY <1>2, <1>4 DEF EmptyStore, NoStore, IsStore
  <2> QED BY <1>1, <1>2, <1>4, <2>1, <2>2, <2>3, Moves
<1>5. ASSUME Goto(p, Done), UNCHANGED <<db, lock>> PROVE TufInv'
    BY <1>1, <1>5, DoneIsGood, MovesAlone
<1> QED BY <1>3, <1>4, <1>5 DEF Open

\* A step on the store that the command has, which it may replace.
LEMMA SetsLocal ==
    ASSUME TufInv, NEW p \in Procs, run[p].pc \in Held, NEW store, IsStore(store),
           NEW r, SetLocal(p, store, r), IsRun(r), r.pc \in Held,
           r.local = run[p].local, r.mirror \in Mirrors, r.need \in Nat, IsStore(r.store),
           r.pc = "update" => r.need <= pub[r.mirror],
           r.pc \in {"download", "set", "write", "ready"} => r.need <= store.version,
           UNCHANGED <<lock, pub, embedded, remote, got>>
    PROVE  TufInv'
<1>1. /\ run[p].local \in {"embedded", "file"} /\ IsStore(db)
      /\ remote' \in {NoMirror} \cup Mirrors
      /\ DOMAIN got' = Procs /\ \A q \in Procs : GoodResult(got'[q])
    BY DEF TufInv, Good
<1>2. ASSUME run[p].local = "embedded", NEW d, d = [r EXCEPT !.store = store], Goto(p, d),
             db' = db
      PROVE  TufInv'
  <2>1. /\ IsRun(d) /\ d.pc = r.pc /\ d.mirror = r.mirror /\ d.local = r.local
        /\ d.need = r.need /\ d.store = store
      BY <1>2 DEF IsRun
  <2>2. Good(d, db, pub)
      BY <1>2, <2>1 DEF Good, StoreOfRun
  <2>3. ~HasDb(d) /\ ~HasDb(run[p])
      BY <1>2, <2>1 DEF HasDb
  <2> QED BY <1>1, <1>2, <2>1, <2>2, <2>3, MovesAlone
<1>3. ASSUME run[p].local # "embedded", Goto(p, r), db' = store PROVE TufInv'
  <2>1. HasDb(r) /\ HasDb(run[p])
      BY <1>1, <1>3 DEF HasDb
  <2>2. lock = p
      BY <2>1 DEF TufInv
  <2>3. Good(r, db', pub)
      BY <1>1, <1>3 DEF Good, StoreOfRun
  <2> QED BY <1>1, <1>3, <2>1, <2>2, <2>3, Moves
<1> QED BY <1>2, <1>3 DEF SetLocal

LEMMA InitLocalInv == ASSUME TufInv, NEW p \in Procs, InitLocal(p) PROVE TufInv'
<1> DEFINE r == run[p]
           store == Local(p)
           root == CASE r.root # NoMirror -> r.root
                     [] r.root = NoMirror /\ store.root # NoMirror -> store.root
                     [] OTHER -> DefaultRemoteRoot
           current == ~isExpiredTimestamp(store) /\ r.cmd # "initialize"
           pc == IF current THEN "ready" ELSE "update"
           need == IF store.age = "fresh" /\ r.cmd # "initialize" THEN 0 ELSE pub[r.mirror]
<1>1. /\ UNCHANGED <<pub, embedded, remote, got>> /\ r.pc = "init"
      /\ IsRun(r) /\ Good(r, db, pub) /\ IsStore(db)
    BY DEF InitLocal, env, TufInv
<1>2. /\ remote' \in {NoMirror} \cup Mirrors
      /\ DOMAIN got' = Procs /\ \A q \in Procs : GoodResult(got'[q])
    BY <1>1 DEF TufInv
<1>3. r.mirror \in Mirrors /\ IsStore(store) /\ pub[r.mirror] \in Nat
    BY <1>1 DEF Good, Held, Local, TufInv
<1>4. /\ pc \in {"ready", "update"} /\ need \in Nat
      /\ pc = "update" => need <= pub[r.mirror]
      /\ pc = "ready" => need = 0
    BY <1>3 DEF isExpiredTimestamp
<1>5. \/ SetLocal(p, [store EXCEPT !.root = root], [r EXCEPT !.pc = pc, !.need = need])
         /\ UNCHANGED lock
      \/ Abort(p) /\ UNCHANGED db
    BY DEF InitLocal
<1>6. ASSUME NEW s, s = [store EXCEPT !.root = root], NEW d,
             d = [r EXCEPT !.pc = pc, !.need = need], SetLocal(p, s, d), UNCHANGED lock
      PROVE  TufInv'
  <2>1. IsStore(s)
    <3> HIDE DEF store, root
    <3> QED BY <1>3, <1>6 DEF IsStore
  <2>2. /\ IsRun(d) /\ d.pc = pc /\ d.need = need /\ d.mirror = r.mirror
        /\ d.local = r.local /\ d.store = r.store
    <3> HIDE DEF r, pc, need
    <3> QED BY <1>1, <1>6 DEF IsRun
  <2>3. r.local = run[p].local /\ run[p].pc \in Held /\ IsStore(r.store)
      BY <1>1 DEF Held, Good
  <2>4. 0 <= s.version
      BY <2>1 DEF IsStore
  <2> HIDE DEF r, store, root, current, pc, need
  <2>5. /\ d.pc \in Held /\ d.mirror \in Mirrors /\ d.need \in Nat
        /\ d.pc = "update" => d.need <= pub[d.mirror]
        /\ d.pc \in {"download", "set", "write", "ready"} => d.need <= s.version
      BY <1>3, <1>4, <2>2, <2>4 DEF Held
  <2> QED BY <1>1, <1>6, <2>1, <2>2, <2>3, <2>5, SetsLocal
<1>7. ASSUME Abort(p), UNCHANGED db PROVE TufInv'
    BY <1>1, <1>2, <1>7, Aborts
<1> HIDE DEF r, store, root, current, pc, need
<1> QED BY <1>5, <1>6, <1>7

LEMMA UpdateInv == ASSUME TufInv, NEW p \in Procs, Update(p) PROVE TufInv'
<1> DEFINE r == run[p]
           new == StoreOf(r.mirror, pub[r.mirror])
<1>1. /\ UNCHANGED <<pub, embedded, remote, got>> /\ r.pc = "update"
      /\ IsRun(r) /\ Good(r, db, pub)
    BY DEF Update, env, TufInv
<1>2. /\ remote' \in {NoMirror} \cup Mirrors
      /\ DOMAIN got' = Procs /\ \A q \in Procs : GoodResult(got'[q])
    BY <1>1 DEF TufInv
<1>3. r.mirror \in Mirrors /\ pub[r.mirror] \in Nat /\ r.need <= pub[r.mirror] /\ r.need \in Nat
    BY <1>1 DEF Good, Held, TufInv
<1>4. IsStore(new) /\ new.version = pub[r.mirror]
    BY <1>3 DEF StoreOf, IsStore
<1>5. \/ \E files : SetLocal(p, new, [r EXCEPT !.pc = "download", !.files = files])
                    /\ UNCHANGED lock
      \/ Abort(p) /\ UNCHANGED db
    BY DEF Update
<1>6. ASSUME NEW files, NEW d, d = [r EXCEPT !.pc = "download", !.files = files],
             SetLocal(p, new, d), UNCHANGED lock
      PROVE  TufInv'
  <2>1. /\ IsRun(d) /\ d.pc = "download" /\ d.need = r.need /\ d.mirror = r.mirror
        /\ d.local = r.local /\ d.store = r.store
    <3> HIDE DEF r
    <3> QED BY <1>1, <1>6 DEF IsRun
  <2>2. r.local = run[p].local /\ run[p].pc \in Held /\ IsStore(r.store)
      BY <1>1 DEF Held, Good
  <2> HIDE DEF r, new
  <2>3. /\ d.pc \in Held /\ d.mirror \in Mirrors /\ d.need \in Nat
        /\ d.pc = "update" => d.need <= pub[d.mirror]
        /\ d.pc \in {"download", "set", "write", "ready"} => d.need <= new.version
      BY <1>3, <1>4, <2>1 DEF Held
  <2> QED BY <1>1, <1>4, <1>6, <2>1, <2>2, <2>3, SetsLocal
<1>7. ASSUME Abort(p), UNCHANGED db PROVE TufInv'
    BY <1>1, <1>2, <1>7, Aborts
<1> HIDE DEF r, new
<1> QED BY <1>5, <1>6, <1>7

\* Downloads leave the metadata alone.
LEMMA Downloading ==
    ASSUME TufInv, NEW p \in Procs, run[p].pc \in {"download", "set", "write"},
           NEW pc \in {"download", "set", "write", "ready"}, NEW files, NEW buf,
           NEW d, d = [run[p] EXCEPT !.pc = pc, !.files = files, !.buf = buf], Goto(p, d),
           UNCHANGED <<db, lock, remote, pub, embedded, got>>
    PROVE  TufInv'
<1>1. /\ IsRun(run[p]) /\ Good(run[p], db, pub) /\ remote' \in {NoMirror} \cup Mirrors
    BY DEF TufInv
<1>2. /\ IsRun(d) /\ d.pc = pc /\ d.need = run[p].need /\ d.mirror = run[p].mirror
      /\ d.local = run[p].local /\ d.store = run[p].store
    BY <1>1 DEF IsRun
<1>3. Good(d, db, pub)
    BY <1>1, <1>2 DEF Good, Held, StoreOfRun
<1>4. HasDb(d) <=> HasDb(run[p])
    BY <1>2 DEF HasDb, Held
<1> QED BY <1>1, <1>2, <1>3, <1>4, MovesAlone

LEMMA DownloadInv ==
    ASSUME TufInv, NEW p \in Procs, Download(p) \/ Set(p) \/ Write(p) PROVE TufInv'
<1> DEFINE r == run[p]
<1>1. /\ UNCHANGED <<db, remote, pub, embedded, got>> /\ IsRun(r)
      /\ r.pc \in {"download", "set", "write"}
    BY DEF Download, Set, Write, env, TufInv
<1>2. /\ remote' \in {NoMirror} \cup Mirrors
      /\ DOMAIN got' = Procs /\ \A q \in Procs : GoodResult(got'[q])
    BY <1>1 DEF TufInv
<1>3. ASSUME Abort(p) PROVE TufInv'
    BY <1>1, <1>2, <1>3, Aborts
<1>4. ASSUME NEW pc \in {"download", "set", "write", "ready"}, NEW files, NEW buf,
             Goto(p, [r EXCEPT !.pc = pc, !.files = files, !.buf = buf]), UNCHANGED lock
      PROVE  TufInv'
    BY <1>1, <1>4, Downloading
<1>5. CASE Download(p)
  <2>1. \/ UNCHANGED lock /\ Goto(p, [r EXCEPT !.pc = "ready"])
        \/ UNCHANGED lock /\ \E b : Goto(p, [r EXCEPT !.pc = "set", !.buf = b])
        \/ Abort(p)
      BY <1>5 DEF Download
  <2>2. /\ [r EXCEPT !.pc = "ready"] = [r EXCEPT !.pc = "ready", !.files = r.files, !.buf = r.buf]
        /\ \A b : [r EXCEPT !.pc = "set", !.buf = b]
                     = [r EXCEPT !.pc = "set", !.files = r.files, !.buf = b]
    <3> HIDE DEF r
    <3> QED BY <1>1 DEF IsRun
  <2> HIDE DEF r
  <2> QED BY <1>3, <1>4, <2>1, <2>2
<1>6. CASE Set(p)
  <2> DEFINE files == r.files \ {r.buf[1]}
  <2>1. \/ UNCHANGED lock /\ Goto(p, [r EXCEPT !.pc = "download", !.files = files, !.buf = <<>>])
        \/ UNCHANGED lock /\ Goto(p, [r EXCEPT !.pc = "write"])
        \/ Abort(p)
      BY <1>6 DEF Set
  <2>2. [r EXCEPT !.pc = "write"] = [r EXCEPT !.pc = "write", !.files = r.files, !.buf = r.buf]
    <3> HIDE DEF r
    <3> QED BY <1>1 DEF IsRun
  <2> HIDE DEF r, files
  <2> QED BY <1>3, <1>4, <2>1, <2>2
<1>7. CASE Write(p)
  <2> DEFINE files == r.files \ {r.buf[1]}
  <2>1. \/ UNCHANGED lock /\ Goto(p, [r EXCEPT !.pc = "download", !.files = files, !.buf = <<>>])
        \/ Abort(p)
      BY <1>7 DEF Write
  <2> HIDE DEF r, files
  <2> QED BY <1>3, <1>4, <2>1
<1> QED BY <1>5, <1>6, <1>7

LEMMA UseInv == ASSUME TufInv, NEW p \in Procs, Use(p) PROVE TufInv'
<1>1. UNCHANGED <<db, remote, pub, embedded>> /\ Abort(p) /\ run[p].pc = "ready"
    BY DEF Use, env
<1>2. run[p].need <= Local(p).version /\ run[p].need \in Nat /\ Local(p).version \in Nat
    BY <1>1 DEF TufInv, Good, StoreOfRun, Local, IsStore
<1>3. PICK usage \in Usages :
          got' = [got EXCEPT ![p] =
                    [root |-> Local(p).root, from |-> Local(p).from,
                     version |-> Local(p).version, need |-> run[p].need,
                     targets |-> IF run[p].cmd = "status" THEN {}
                                 ELSE {<<t, Get(p, t)>> : t \in GetTargetsByMeta(p, usage)}]]
    BY DEF Use
<1>4. \A t \in GetTargetsByMeta(p, usage) : GetTarget(p, t)
    BY DEF GetTargetsByMeta
<1>5. GoodResult(got'[p])
  <2>1. /\ got'[p].root = Local(p).root /\ got'[p].from = Local(p).from
        /\ got'[p].version = Local(p).version /\ got'[p].need = run[p].need
        /\ \A x \in got'[p].targets :
              \E t \in GetTargetsByMeta(p, usage) : x = <<t, Get(p, t)>>
      BY <1>3 DEF TufInv
  <2>2. \A x \in got'[p].targets :
            /\ Local(p).from = Local(p).root
            /\ x[2] = Releases[Local(p).from][Local(p).version][x[1]]
      BY <1>4, <2>1 DEF GetTarget
  <2> QED BY <1>2, <2>1, <2>2 DEF GoodResult
<1>6. DOMAIN got' = Procs /\ \A q \in Procs : GoodResult(got'[q])
    BY <1>3, <1>5 DEF TufInv
<1>7. remote' \in {NoMirror} \cup Mirrors
    BY <1>1 DEF TufInv
<1> QED BY <1>1, <1>6, <1>7, Aborts

LEMMA InitializeInv ==
    ASSUME TufInv, NEW p \in Procs, Initialized(p) \/ WriteRemote(p) PROVE TufInv'
<1>1. UNCHANGED <<db, pub, embedded, got>> /\ IsRun(run[p]) /\ Good(run[p], db, pub) /\ IsStore(db)
    BY DEF Initialized, WriteRemote, env, TufInv
<1>2. DOMAIN got' = Procs /\ \A q \in Procs : GoodResult(got'[q])
    BY <1>1 DEF TufInv
<1>3. CASE Initialized(p)
  <2>1. /\ Goto(p, [run[p] EXCEPT !.pc = "remote"]) /\ run[p].pc = "ready"
        /\ lock' # p /\ (lock' = lock \/ (lock = p /\ lock' = "free"))
        /\ remote' \in {NoMirror} \cup Mirrors
      BY <1>3, TufAssumption DEF Initialized, Close, TufInv
  <2>2. ASSUME NEW d, d = [run[p] EXCEPT !.pc = "remote"], Goto(p, d) PROVE TufInv'
    <3>1. /\ IsRun(d) /\ d.pc = "remote" /\ d.need = run[p].need
          /\ d.mirror = run[p].mirror /\ d.store = run[p].store
        BY <1>1, <2>2 DEF IsRun
    <3>2. Good(d, db', pub) /\ ~HasDb(d)
        BY <1>1, <2>1, <3>1 DEF Good, Held, HasDb
    <3> QED BY <1>1, <1>2, <2>1, <2>2, <3>1, <3>2, Moves
  <2> QED BY <2>1, <2>2
<1>4. CASE WriteRemote(p)
  <2>1. /\ UNCHANGED lock /\ run[p].pc \in {"remote", "writeRemote"}
        /\ remote' \in {remote, NoMirror, run[p].mirror}
      BY <1>4 DEF WriteRemote
  <2>2. remote' \in {NoMirror} \cup Mirrors /\ ~HasDb(run[p])
      BY <1>1, <2>1 DEF TufInv, Good, HasDb, Held
  <2>3. ASSUME NEW d, Goto(p, d), IsRun(d), Good(d, db, pub), ~HasDb(d) PROVE TufInv'
      BY <1>1, <2>1, <2>2, <2>3, MovesAlone
  <2>4. ASSUME Goto(p, Done) PROVE TufInv'
      BY <2>3, <2>4, DoneIsGood
  <2>5. ASSUME NEW d, d = [Done EXCEPT !.pc = "stat", !.cmd = "status"], Goto(p, d) PROVE TufInv'
    <3>1. IsRun(d) /\ ~HasDb(d) /\ Good(d, db, pub)
        BY <2>5 DEF Done, IsRun, HasDb, Held, Good, NoStore, IsStore
    <3> QED BY <2>3, <2>5, <3>1
  <2>6. ASSUME NEW d, d = [run[p] EXCEPT !.pc = "writeRemote"], Goto(p, d),
               run[p].pc = "remote"
        PROVE  TufInv'
    <3>1. /\ IsRun(d) /\ d.pc = "writeRemote" /\ d.need = run[p].need
          /\ d.mirror = run[p].mirror /\ d.store = run[p].store
        BY <1>1, <2>6 DEF IsRun
    <3>2. Good(d, db, pub) /\ ~HasDb(d)
        BY <1>1, <2>6, <3>1 DEF Good, Held, HasDb
    <3> QED BY <2>3, <2>6, <3>1, <3>2
  <2>7. \/ Goto(p, Done) \/ Goto(p, [Done EXCEPT !.pc = "stat", !.cmd = "status"])
        \/ run[p].pc = "remote" /\ Goto(p, [run[p] EXCEPT !.pc = "writeRemote"])
      BY <1>4 DEF WriteRemote
  <2> QED BY <2>4, <2>5, <2>6, <2>7
<1> QED BY <1>3, <1>4

\* Timestamps expire: no store describes another release for it.
LEMMA ExpireInv == ASSUME TufInv, Expire PROVE TufInv'
<1> DEFINE Age(store) == IF store.age = "fresh" THEN "expired" ELSE store.age
           Old(store) == [store EXCEPT !.age = Age(store)]
<1>1. /\ db' = Old(db) /\ embedded' = Old(embedded)
      /\ run' = [p \in Procs |-> [run[p] EXCEPT !.store = Old(run[p].store)]]
      /\ UNCHANGED <<lock, remote, pub, got>>
    BY DEF Expire
<1>2. ASSUME NEW s, IsStore(s) PROVE IsStore(Old(s)) /\ Old(s).version = s.version
  <2> DEFINE a == Age(s)
  <2>1. ASSUME NEW t, t = [s EXCEPT !.age = a] PROVE IsStore(t) /\ t.version = s.version
    <3> HIDE DEF a
    <3> QED BY <1>2, <2>1 DEF IsStore
  <2> QED BY <2>1
<1> HIDE DEF Old, Age
<1>3. IsStore(db') /\ db'.version = db.version /\ IsStore(embedded')
    BY <1>1, <1>2 DEF TufInv
<1>4. ASSUME NEW p \in Procs
      PROVE  IsRun(run'[p]) /\ Good(run'[p], db', pub') /\ (HasDb(run'[p]) <=> HasDb(run[p]))
  <2> DEFINE r == run[p]  s == Old(run[p].store)
  <2>1. IsRun(r) /\ Good(r, db, pub) /\ IsStore(r.store)
      BY DEF TufInv, Good
  <2>2. IsStore(s) /\ s.version = r.store.version
      BY <1>2, <2>1
  <2>3. ASSUME NEW d, d = [r EXCEPT !.store = s]
        PROVE  /\ IsRun(d) /\ d.pc = r.pc /\ d.need = r.need /\ d.mirror = r.mirror
               /\ d.local = r.local /\ d.store = s
    <3> HIDE DEF r, s
    <3> QED BY <2>1, <2>3 DEF IsRun
  <2>4. run'[p] = [r EXCEPT !.store = s]
      BY <1>1
  <2> HIDE DEF r, s
  <2>5. /\ IsRun(run'[p]) /\ run'[p].pc = r.pc /\ run'[p].need = r.need
        /\ run'[p].mirror = r.mirror /\ run'[p].local = r.local /\ run'[p].store = s
      BY <2>3, <2>4
  <2>6. StoreOfRun(run'[p], db').version = StoreOfRun(r, db).version
      BY <1>3, <2>2, <2>5 DEF StoreOfRun
  <2>7. Good(run'[p], db', pub')
      BY <1>1, <2>1, <2>2, <2>5, <2>6 DEF Good
  <2>8. HasDb(run'[p]) <=> HasDb(r)
      BY <2>5 DEF HasDb
  <2> QED BY <2>5, <2>7, <2>8 DEF r
<1>5. DOMAIN run' = Procs
    BY <1>1
<1> QED BY <1>1, <1>3, <1>4, <1>5 DEF TufInv

\* A mirror only ever serves a later release.
LEMMA PublishInv == ASSUME TufInv, NEW m \in Mirrors, Publish(m) PROVE TufInv'
<1>1. /\ pub' = [pub EXCEPT ![m] = pub[m] + 1]
      /\ UNCHANGED <<db, lock, remote, embedded, run, got>>
    BY DEF Publish
<1>2. pub' \in [Mirrors -> Nat] /\ \A n \in Mirrors : pub[n] <= pub'[n]
    BY <1>1 DEF TufInv
<1>3. ASSUME NEW p \in Procs PROVE Good(run'[p], db', pub')
  <2>1. Good(run[p], db, pub)
      BY DEF TufInv
  <2>2. run[p].pc = "update" => run[p].need <= pub'[run[p].mirror]
    <3> SUFFICES ASSUME run[p].pc = "update" PROVE run[p].need <= pub'[run[p].mirror]
        OBVIOUS
    <3>1. run[p].mirror \in Mirrors /\ run[p].need <= pub[run[p].mirror] /\ run[p].need \in Nat
        BY <2>1 DEF Good, Held
    <3>2. pub[run[p].mirror] \in Nat /\ pub'[run[p].mirror] \in Nat
        BY <1>2, <3>1 DEF TufInv
    <3> QED BY <1>2, <3>1, <3>2
  <2> QED BY <1>1, <2>1, <2>2 DEF Good
<1> QED BY <1>1, <1>2, <1>3 DEF TufInv

LEMMA TufNextInv == TufInv /\ [Next]_vars => TufInv'
<1> SUFFICES ASSUME TufInv, [Next]_vars PROVE TufInv'
    OBVIOUS
<1>1. ASSUME NEW p \in Procs, Crash(p) PROVE TufInv'
  <2>1. UNCHANGED <<db, pub, embedded, remote, got>> /\ Abort(p)
      BY <1>1 DEF Crash, env
  <2>2. /\ remote' \in {NoMirror} \cup Mirrors
        /\ DOMAIN got' = Procs /\ \A q \in Procs : GoodResult(got'[q])
      BY <2>1 DEF TufInv
  <2> QED BY <2>1, <2>2, Aborts
<1>2. ASSUME NEW p \in Procs, Step(p) PROVE TufInv'
    BY <1>1, <1>2, StartInv, StatInv, OpenInv, InitLocalInv, UpdateInv, DownloadInv, UseInv,
       InitializeInv DEF Step
<1>3. CASE UNCHANGED vars
    BY <1>3 DEF vars, TufInv
<1> QED BY <1>2, <1>3, ExpireInv, PublishInv DEF Next

LEMMA TufInvariance == Spec => []TufInv
BY TufInitInv, TufNextInv, PTL DEF Spec

\* GetTarget checks the file against the metadata and the metadata against the
\* root: commands that update, fail or crash next to it change nothing about that.
THEOREM ServedIsVerified == Spec => []VerifiedTargets
<1>1. TufInv => VerifiedTargets
    BY DEF TufInv, VerifiedTargets, GoodResult
<1> QED BY <1>1, TufInvariance, PTL

\* A command that had to update never serves a release older than the one its
\* mirror had when it found that out.
THEOREM UpdatedIsServed == Spec => []ExpiredMeansUpdated
<1>1. TufInv => ExpiredMeansUpdated
    BY DEF TufInv, ExpiredMeansUpdated, GoodResult
<1> QED BY <1>1, TufInvariance, PTL

\* initializeTUF, Initialize and the callers of NewFromEnv close tuf.db on every
\* way out.
THEOREM AlwaysClosed == Spec => []ClosedWhenDone
<1>1. TufInv => ClosedWhenDone
    BY DEF TufInv, ClosedWhenDone, HasDb, Held
<1> QED BY <1>1, TufInvariance, PTL
=============================================================================
