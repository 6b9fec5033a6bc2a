------------------------------ MODULE TufClient ------------------------------
(***************************************************************************)
(* The TUF client: cosign commands get the keys and certificates they      *)
(* verify with as targets of a TUF repository.  Commands run concurrently  *)
(* and share the directory TUF_ROOT: the metadata store tuf.db, the target *)
(* files and remote.json.  Without tuf.db a command uses the repository    *)
(* embedded in the binary.  go-tuf, leveldb and the mirrors are external.  *)
(***************************************************************************)
EXTENDS Integers, Sequences

CONSTANTS
    Procs,        \* slots in which commands run
    Targets,      \* names of targets
    Contents,     \* contents of target files
    Mirrors,      \* repositories, each with its own root
    DefaultRemoteRoot,
    Releases,     \* [Mirrors -> sequences of [Targets -> Contents]]
    EmbeddedVersion,
    Usages,       \* what a command asks for
    Usage,        \* [Targets -> {NoUsage} \cup Usages]: the custom metadata
    Fallbacks,    \* [Usages -> SUBSET Targets]
    Worlds,       \* the surroundings to look at, and the bounds for each:
                  \*   noCache    the slots with SIGSTORE_NO_CACHE set
                  \*   installed  does the directory hold an up-to-date tuf.db at first?
                  \*   keepsOld   do mirrors go on serving the targets of old releases?
                  \*   commands, expiries, faults (network, files, crashes): bounds
    NoMirror, NoUsage, NoContent

ASSUME TufAssumption ==
    /\ DefaultRemoteRoot \in Mirrors
    /\ Releases \in [Mirrors -> Seq([Targets -> Contents])]
    /\ \A m \in Mirrors : Len(Releases[m]) >= 1
    /\ EmbeddedVersion \in 1..Len(Releases[DefaultRemoteRoot])
    /\ Usage \in [Targets -> {NoUsage} \cup Usages]
    /\ Fallbacks \in [Usages -> SUBSET Targets]
    /\ Worlds \subseteq [noCache : SUBSET Procs, installed : BOOLEAN, keepsOld : BOOLEAN,
                         commands : Nat, expiries : Nat, faults : Nat]
    /\ \A p \in Procs : p # "free"
    /\ NoMirror \notin Mirrors /\ NoContent \notin Contents

VARIABLES
    db,        \* tuf.db
    lock,      \* the command that has it open, or "free"
    disk,      \* the target files: NoContent if missing or half written
    remote,    \* remote.json: a mirror, or NoMirror if absent or malformed
    embedded,  \* the embedded metadata store
    pub,       \* [Mirrors -> the release the mirror serves]
    run,       \* [Procs -> the command in that slot]
    got,       \* [Procs -> what the last command in that slot obtained]
    commands, expiries, faults,
    world      \* the surroundings, chosen at the start

env == <<embedded, pub, expiries, world>>
vars == <<db, lock, disk, remote, embedded, pub, run, got, commands, expiries,
          faults, world>>

\* A metadata store: the root it trusts, the release its metadata describes,
\* whose it is, and the state of its timestamp ("absent": no store at all).
NoStore == [root |-> NoMirror, from |-> NoMirror, version |-> 0, age |-> "absent"]
EmptyStore == [NoStore EXCEPT !.age = "none"]
StoreOf(m, v) == [root |-> m, from |-> m, version |-> v, age |-> "fresh"]

\* A command.  "need" remembers the release its mirror served when the command
\* decided to update; "store" is the in-memory store of an embedded client.
Done == [pc |-> "idle", cmd |-> "none", local |-> "none", mirror |-> NoMirror,
         root |-> NoMirror, store |-> NoStore, files |-> {}, buf |-> <<>>,
         need |-> 0]

Nothing == [root |-> NoMirror, from |-> NoMirror, version |-> 0, need |-> 0,
            targets |-> {}]

EmbeddedTargets == Releases[DefaultRemoteRoot][EmbeddedVersion]

Init ==
    /\ world \in Worlds
    /\ IF world.installed
       THEN /\ db = StoreOf(DefaultRemoteRoot, EmbeddedVersion)
            /\ disk = EmbeddedTargets
            /\ remote = DefaultRemoteRoot
       ELSE /\ db = NoStore
            /\ disk = [t \in Targets |-> NoContent]
            /\ remote = NoMirror
    /\ lock = "free"
    /\ embedded = StoreOf(DefaultRemoteRoot, EmbeddedVersion)
    /\ pub = [m \in Mirrors |->
                 IF m = DefaultRemoteRoot THEN EmbeddedVersion ELSE 1]
    /\ run = [p \in Procs |-> Done]
    /\ got = [p \in Procs |-> Nothing]
    /\ commands = 0 /\ expiries = 0 /\ faults = 0

-----------------------------------------------------------------------------
Fault == faults < world.faults /\ faults' = faults + 1

Goto(p, r) == run' = [run EXCEPT ![p] = r]

\* The store a command works on: its own, or tuf.db, which it has open.
Local(p) == IF run[p].local = "embedded" THEN run[p].store ELSE db

\* t.Close(): an embedded store has nothing to close.
Close(p) == lock' = IF lock = p THEN "free" ELSE lock

\* Mutant: an error path without t.Close().
AbortOpen(p) == Goto(p, Done) /\ UNCHANGED lock

\* Every error of initializeTUF after the store was opened closes it.
Abort(p) == Close(p) /\ Goto(p, Done)

SetLocal(p, store, r) ==
    IF run[p].local = "embedded"
    THEN Goto(p, [r EXCEPT !.store = store]) /\ UNCHANGED db
    ELSE Goto(p, r) /\ db' = store

-----------------------------------------------------------------------------
(***************************************************************************)
(* A command starts: GetRekorPubs, initRoots and VerifySCT call NewFromEnv *)
(* ("get"), cosign initialize calls Initialize, with or without a root.    *)
(***************************************************************************)
Start(p) ==
    /\ run[p].pc = "idle"
    /\ commands < world.commands
    /\ commands' = commands + 1
    /\ got' = [got EXCEPT ![p] = Nothing]
    /\ \/ Goto(p, [Done EXCEPT !.pc = "stat", !.cmd = "get"])
       \/ \E m \in Mirrors, root \in {NoMirror} \cup Mirrors :
            Goto(p, [Done EXCEPT !.pc = "open", !.cmd = "initialize",
                                 !.local = "file", !.mirror = m, !.root = root])
    /\ UNCHANGED <<db, lock, disk, remote, faults, env>>

\* NewFromEnv looks for tuf.db, then for remote.json.
Stat(p) ==
    /\ run[p].pc = "stat"
    /\ Goto(p, [run[p] EXCEPT !.pc = "mirror",
                  !.local = IF db.age = "absent" THEN "embedded" ELSE "file"])
    /\ UNCHANGED <<db, lock, disk, remote, got, commands, faults, env>>

ReadRemote(p) ==
    /\ run[p].pc = "mirror"
    /\ Goto(p, [run[p] EXCEPT !.pc = "open",
                  !.mirror = IF remote = NoMirror THEN DefaultRemoteRoot ELSE remote])
    /\ UNCHANGED <<db, lock, disk, remote, got, commands, faults, env>>

\* initializeTUF: leveldb lets only one client open tuf.db, and creates it.
Open(p) ==
    /\ run[p].pc = "open"
    /\ IF run[p].local = "embedded"
       THEN /\ Goto(p, [run[p] EXCEPT !.pc = "init", !.store = embedded])
            /\ UNCHANGED <<db, lock>>
       ELSE IF lock = "free"
       THEN /\ Goto(p, [run[p] EXCEPT !.pc = "init"])
            /\ db' = IF db.age = "absent" THEN EmptyStore ELSE db
            /\ lock' = p
       ELSE Goto(p, Done) /\ UNCHANGED <<db, lock>>
    /\ UNCHANGED <<disk, remote, got, commands, faults, env>>

\* Mutant: only a missing timestamp calls for an update.
MissingTimestamp(store) == store.age \in {"absent", "none"}

\* No timestamp.json, or an expired one.
isExpiredTimestamp(store) == store.age # "fresh"

\* initializeTUF: the root given, the one in the store, or the embedded one;
\* then whether the store must be updated.
InitLocal(p) ==
    /\ run[p].pc = "init"
    /\ LET r == run[p]
           store == Local(p)
           root == CASE r.root # NoMirror -> r.root
                     [] r.root = NoMirror /\ store.root # NoMirror -> store.root
                     [] OTHER -> DefaultRemoteRoot
           current == ~isExpiredTimestamp(store) /\ r.cmd # "initialize"
       IN \/ /\ SetLocal(p, [store EXCEPT !.root = root],
                         [r EXCEPT !.pc = IF current THEN "ready" ELSE "update",
                                   !.need = IF store.age = "fresh"
                                               /\ r.cmd # "initialize"
                                            THEN 0 ELSE pub[r.mirror]])
             /\ UNCHANGED <<lock, faults>>
          \/ Fault /\ Abort(p) /\ UNCHANGED db
    /\ UNCHANGED <<disk, remote, got, commands, env>>

(***************************************************************************)
(* client.Update: the mirror's metadata must be signed under the trusted   *)
(* root, and then is stored; the files to download are at least those that *)
(* changed.  IsLatestSnapshot is no error, and comes with no files.        *)
(***************************************************************************)
Changed(old, new) ==
    {t \in Targets : \/ old.version = 0
                     \/ Releases[old.from][old.version][t]
                           # Releases[new.from][new.version][t]}

Update(p) ==
    /\ run[p].pc = "update"
    /\ LET r == run[p]
           old == Local(p)
           new == StoreOf(r.mirror, pub[r.mirror])
       IN \/ /\ old.root = r.mirror
             /\ \E files \in {f \in SUBSET Targets : Changed(old, new) \subseteq f} :
                  /\ old.from = new.from /\ old.version = new.version => files = {}
                  /\ SetLocal(p, new, [r EXCEPT !.pc = "download", !.files = files])
             /\ UNCHANGED <<lock, faults>>
          \/ /\ old.root # r.mirror \/ old.from \notin {NoMirror, old.root}
             /\ Abort(p)
             /\ UNCHANGED <<db, faults>>
          \/ Fault /\ Abort(p) /\ UNCHANGED db
    /\ UNCHANGED <<disk, remote, got, commands, env>>

-----------------------------------------------------------------------------
(***************************************************************************)
(* updateMetadataAndDownloadTargets: one target after the other is         *)
(* downloaded, verified and set.  With SIGSTORE_NO_CACHE it goes to memory *)
(* that Get never looks at.                                                *)
(***************************************************************************)
Download(p) ==
    /\ run[p].pc = "download"
    /\ LET r == run[p]
           Valid(t) == Releases[Local(p).from][Local(p).version][t]
           Served(t) == Releases[r.mirror][pub[r.mirror]][t]
       IN \/ /\ r.files = {}
             /\ Goto(p, [r EXCEPT !.pc = "ready"])
             /\ UNCHANGED <<lock, faults>>
          \/ \E t \in r.files :
               /\ world.keepsOld \/ Served(t) = Valid(t)
               /\ Goto(p, [r EXCEPT !.pc = "set", !.buf = <<t, Valid(t)>>])
               /\ UNCHANGED <<lock, faults>>
          \/ \E t \in r.files :
               /\ ~world.keepsOld /\ Served(t) # Valid(t)
               /\ Abort(p) /\ UNCHANGED faults
          \/ r.files # {} /\ Fault /\ Abort(p)
    /\ UNCHANGED <<db, disk, remote, got, commands, env>>

\* Mutant: a file that is there already is not written again.
SetMissing(p) ==
    /\ run[p].pc = "set"
    /\ LET r == run[p]
           t == r.buf[1]
           next == [r EXCEPT !.pc = "download", !.files = @ \ {t}, !.buf = <<>>]
       IN IF disk[t] # NoContent
          THEN Goto(p, next) /\ UNCHANGED disk
          ELSE Goto(p, [r EXCEPT !.pc = "write"]) /\ UNCHANGED disk
    /\ UNCHANGED <<db, lock, remote, got, commands, faults, env>>

\* diskCache.Set truncates the file and then writes it; memoryCache.Set does
\* not fail.
Set(p) ==
    /\ run[p].pc = "set"
    /\ LET r == run[p]
           t == r.buf[1]
           next == [r EXCEPT !.pc = "download", !.files = @ \ {t}, !.buf = <<>>]
       IN IF p \in world.noCache
          THEN Goto(p, next) /\ UNCHANGED <<disk, lock, faults>>
          ELSE \/ /\ disk' = [disk EXCEPT ![t] = NoContent]
                  /\ Goto(p, [r EXCEPT !.pc = "write"])
                  /\ UNCHANGED <<lock, faults>>
               \/ Fault /\ Abort(p) /\ UNCHANGED disk
    /\ UNCHANGED <<db, remote, got, commands, env>>

Write(p) ==
    /\ run[p].pc = "write"
    /\ LET r == run[p] IN
       \/ /\ disk' = [disk EXCEPT ![r.buf[1]] = r.buf[2]]
          /\ Goto(p, [r EXCEPT !.pc = "download", !.files = @ \ {r.buf[1]},
                               !.buf = <<>>])
          /\ UNCHANGED <<lock, faults>>
       \/ Fault /\ Abort(p) /\ UNCHANGED disk
    /\ UNCHANGED <<db, remote, got, commands, env>>

-----------------------------------------------------------------------------
\* embedded.Get reads the binary, file.Get the directory.
Get(p, t) == IF run[p].local = "embedded" THEN EmbeddedTargets[t] ELSE disk[t]

\* Mutant: without TargetFileMetaEqual.
GetTargetUnchecked(p, t) ==
    /\ Local(p).version > 0
    /\ Local(p).from = Local(p).root
    /\ Get(p, t) # NoContent

\* GetTarget: the metadata is verified against the root, the file against the
\* metadata.
GetTarget(p, t) ==
    /\ Local(p).version > 0
    /\ Local(p).from = Local(p).root
    /\ Get(p, t) = Releases[Local(p).from][Local(p).version][t]

\* GetTargetsByMeta: all targets with the usage, or the fallbacks there are.
GetTargetsByMeta(p, usage) ==
    LET tagged == {t \in Targets : Usage[t] = usage} IN
    CASE tagged # {} ->
           IF \A t \in tagged : GetTarget(p, t) THEN tagged ELSE {}
      [] OTHER -> {t \in Fallbacks[usage] : GetTarget(p, t)}

\* The command uses the client, and closes it.
Use(p) ==
    /\ run[p].pc = "ready"
    /\ run[p].cmd \in {"get", "status"}
    /\ \E usage \in Usages :
         got' = [got EXCEPT ![p] =
                    [root |-> Local(p).root, from |-> Local(p).from,
                     version |-> Local(p).version, need |-> run[p].need,
                     targets |-> IF run[p].cmd = "status" THEN {}
                                 ELSE {<<t, Get(p, t)>> :
                                         t \in GetTargetsByMeta(p, usage)}]]
    /\ Abort(p)
    /\ UNCHANGED <<db, disk, remote, commands, faults, env>>

\* Initialize closes the store before it stores the mirror, and DoInitialize
\* then asks for the status.
Initialized(p) ==
    /\ run[p].pc = "ready"
    /\ run[p].cmd = "initialize"
    /\ Close(p)
    /\ Goto(p, [run[p] EXCEPT !.pc = "remote"])
    /\ UNCHANGED <<db, disk, remote, got, commands, faults, env>>

WriteRemote(p) ==
    /\ \/ /\ run[p].pc = "remote"
          /\ \/ /\ remote' = NoMirror
                /\ Goto(p, [run[p] EXCEPT !.pc = "writeRemote"])
                /\ UNCHANGED faults
             \/ Fault /\ Goto(p, Done) /\ UNCHANGED remote
       \/ /\ run[p].pc = "writeRemote"
          /\ \/ /\ remote' = run[p].mirror
                /\ Goto(p, [Done EXCEPT !.pc = "stat", !.cmd = "status"])
                /\ UNCHANGED faults
             \/ Fault /\ Goto(p, Done) /\ UNCHANGED remote
    /\ UNCHANGED <<db, lock, disk, got, commands, env>>

-----------------------------------------------------------------------------
\* The process dies, or one of its remaining calls fails (os.Stat, say).
Crash(p) ==
    /\ run[p].pc # "idle"
    /\ Fault
    /\ Abort(p)
    /\ UNCHANGED <<db, disk, remote, got, commands, env>>

\* The timestamps that exist expire; a mirror always serves a fresh one.
Expire ==
    /\ expiries < world.expiries
    /\ expiries' = expiries + 1
    /\ LET Age(store) == IF store.age = "fresh" THEN "expired" ELSE store.age
           Old(store) == [store EXCEPT !.age = Age(store)]
       IN /\ db' = Old(db) /\ embedded' = Old(embedded)
          /\ run' = [p \in Procs |-> [run[p] EXCEPT !.store = Old(run[p].store)]]
    /\ UNCHANGED <<lock, disk, remote, pub, got, commands, faults, world>>

Publish(m) ==
    /\ pub[m] < Len(Releases[m])
    /\ pub' = [pub EXCEPT ![m] = @ + 1]
    /\ UNCHANGED <<db, lock, disk, remote, embedded, run, got, commands,
                   expiries, faults, world>>

Step(p) ==
    \/ Start(p) \/ Stat(p) \/ ReadRemote(p) \/ Open(p) \/ InitLocal(p)
    \/ Update(p) \/ Download(p) \/ Set(p) \/ Write(p)
    \/ Use(p) \/ Initialized(p) \/ WriteRemote(p) \/ Crash(p)

Next ==
    \/ \E p \in Procs : Step(p)
    \/ Expire
    \/ \E m \in Mirrors : Publish(m)

Spec == Init /\ [][Next]_vars

-----------------------------------------------------------------------------
(***************************************************************************)
(* Properties.                                                             *)
(***************************************************************************)

\* Every target a command obtains is the one the metadata in its store
\* describes, and that metadata belongs to the root it trusts, although the
\* files are shared with commands that update, fail or crash in the middle.
VerifiedTargets ==
    \A p \in Procs : got[p].targets # {} =>
       /\ got[p].from = got[p].root
       /\ \A x \in got[p].targets :
             x[2] = Releases[got[p].from][got[p].version][x[1]]

\* GetRekorPubs: "If expired, makes a network call to retrieve the updated
\* targets."  A command that found its timestamp expired obtains targets of the
\* release its mirror served then, or a later one, or none.
ExpiredMeansUpdated ==
    \A p \in Procs : got[p].targets # {} => got[p].version >= got[p].need

\* tuf.db is open only while the command that opened it runs: every way out of
\* initializeTUF, Initialize and the callers of NewFromEnv closes it.
ClosedWhenDone ==
    lock # "free" => run[lock].pc \notin {"idle", "remote", "writeRemote"}

\* A client that has just updated its metadata and targets can serve every one
\* of those targets.
UpdatedTargetsServed ==
    \A p \in Procs : run[p].pc = "ready" /\ run[p].need > 0 =>
       \A t \in Targets : GetTarget(p, t)

\* That holds where a tuf.db was installed and its files are used, mirrors keep
\* the targets of old releases, and no call has failed so far.
QuietUpdatesServed ==
    world.installed /\ world.keepsOld /\ world.noCache = {} /\ faults = 0
        => UpdatedTargetsServed
==============================================================================
