-------------------------- MODULE KeyStores_proofs --------------------------
(***************************************************************************)
(* A private key file is replaced only after its user was asked, unless    *)
(* commands overlap; a Kubernetes Secret or a set of GitLab variables that *)
(* works goes on working.  Both for any number of processes, commands and  *)
(* failures.                                                               *)
(***************************************************************************)
EXTENDS KeyStores, TLAPS

\* A command has the fields of NoCommand.
IsMaker(c) ==
    c = [pc |-> c.pc, to |-> c.to, pass |-> c.pass, pair |-> c.pair, todo |-> c.todo,
         found |-> c.found, alone |-> c.alone]

\* What the question that was asked, or not, says of the file by the time it is
\* written.
Asked(c, fs) ==
    /\ c.pc = "ask" => c.found
    /\ c.pc = "key" /\ c.alone /\ ~c.found => fs[KeyFile(c.to)] = Nil

\* The inductive invariant: nobody runs next to a command that is alone, so the
\* file is still missing that it found missing.
AskInv ==
    /\ DOMAIN files = FileNames /\ DOMAIN cmds = Makers
    /\ \A p \in Makers : IsMaker(cmds[p]) /\ Asked(cmds[p], files)
    /\ \A p \in Makers : cmds[p].alone /\ cmds[p].pc # "idle" =>
            \A q \in Makers \ {p} : cmds[q].pc = "idle"

\* A step of a command that is under way: what it becomes is over or as alone
\* as it was, and what it knows of its file is true.
LEMMA Moves ==
    ASSUME AskInv, NEW p \in Makers, cmds[p].pc # "idle", DOMAIN files' = FileNames,
           NEW d, Goto(p, d), IsMaker(d), Asked(d, files'),
           d.pc = "idle" \/ d.alone = cmds[p].alone
    PROVE  AskInv'
<1>1. DOMAIN cmds' = Makers /\ cmds'[p] = d /\ \A q \in Makers \ {p} : cmds'[q] = cmds[q]
    BY DEF Goto, AskInv
<1>2. \A q \in Makers : cmds'[q].alone /\ cmds'[q].pc # "idle" =>
          \A r \in Makers \ {q} : cmds'[r].pc = "idle"
    BY <1>1 DEF AskInv
<1>3. ASSUME NEW q \in Makers \ {p} PROVE IsMaker(cmds'[q]) /\ Asked(cmds'[q], files')
    BY <1>1 DEF AskInv, Asked
<1> QED BY <1>1, <1>2, <1>3 DEF AskInv

\* In particular when it is neither asking nor about to write the key.
LEMMA MovesOn ==
    ASSUME AskInv, NEW p \in Makers, cmds[p].pc # "idle", DOMAIN files' = FileNames,
           NEW d, Goto(p, d), IsMaker(d), d.pc \notin {"ask", "key"},
           d.pc = "idle" \/ d.alone = cmds[p].alone
    PROVE  AskInv'
<1>1. Asked(d, files')
    BY DEF Asked
<1> QED BY <1>1, Moves

LEMMA MakerPcSet ==
    ASSUME NEW c, IsMaker(c), NEW pc, NEW d, d = [c EXCEPT !.pc = pc]
    PROVE  IsMaker(d) /\ d.pc = pc /\ d.alone = c.alone /\ d.found = c.found
BY DEF IsMaker

\* A command that has ended.
LEMMA Ends ==
    ASSUME NEW c, IsMaker(c), NEW how, NEW d, d = End(c, how)
    PROVE  IsMaker(d) /\ d.pc \in {"ok", "idle"} /\ (d.pc = "idle" \/ d.alone = c.alone)
<1>1. CASE how = "ok"
    BY <1>1, MakerPcSet DEF End
<1>2. CASE how # "ok"
    BY <1>2 DEF End, NoCommand, IsMaker
<1> QED BY <1>1, <1>2

LEMMA Puts ==
    ASSUME NEW c, IsMaker(c), NEW ok, NEW d, d = AfterPut(c, ok)
    PROVE  /\ IsMaker(d) /\ d.pc \in {"pub", "put", "ok", "idle"}
           /\ d.pc = "idle" \/ d.alone = c.alone
<1>1. CASE ~ok
    BY <1>1, Ends DEF AfterPut
<1>2. CASE ok
  <2> DEFINE todo == Tail(c.todo)  pc == IF Len(c.todo) = 1 THEN "pub" ELSE "put"
  <2>1. d = [c EXCEPT !.todo = todo, !.pc = pc]
      BY <1>2 DEF AfterPut
  <2>2. pc \in {"pub", "put"}
      OBVIOUS
  <2>3. IsMaker(d) /\ d.pc = pc /\ d.alone = c.alone
    <3> HIDE DEF todo, pc
    <3> QED BY <2>1 DEF IsMaker
  <2> QED BY <2>2, <2>3
<1> QED BY <1>1, <1>2

LEMMA AskInitInv == StoresInit => AskInv
<1> SUFFICES ASSUME StoresInit PROVE AskInv
    OBVIOUS
<1>1. IsMaker(NoCommand) /\ Asked(NoCommand, files) /\ NoCommand.pc = "idle"
    BY DEF NoCommand, IsMaker, Asked
<1> QED BY <1>1 DEF StoresInit, AskInv

\* A command that starts ends the solitude of those under way.
LEMMA StartInv ==
    ASSUME AskInv, NEW p \in Makers, NEW to \in Targets, NEW pass, Start(p, to, pass)
    PROVE  AskInv'
<1> DEFINE first == FirstStep(to)
           todo == IF to \in {"gitlab", "github"} THEN <<"password", "private", "public">>
                   ELSE << >>
           alone == \A q \in Makers : cmds[q].pc = "idle"
           pair == pairs + 1
           c == [NoCommand EXCEPT !.to = to, !.pass = pass, !.pair = pair, !.pc = first,
                                  !.todo = todo, !.alone = alone]
<1>1. PICK accepted \in BOOLEAN :
          cmds' = [q \in Makers |->
                     IF q = p THEN IF accepted THEN c ELSE End(c, "failed")
                     ELSE [cmds[q] EXCEPT !.alone = @ /\ cmds[q].pc = "idle"]]
    BY DEF Start
<1>2. first \notin {"idle", "ask", "key"}
    BY DEF FirstStep, Targets
<1>3. /\ IsMaker(cmds'[p]) /\ cmds'[p].pc \notin {"ask", "key"}
      /\ cmds'[p].pc = "idle" \/ cmds'[p].alone = alone
  <2>1. CASE accepted
    <3>1. cmds'[p] = c
        BY <1>1, <2>1
    <3>2. IsMaker(cmds'[p]) /\ cmds'[p].pc = first /\ cmds'[p].alone = alone
      <4> HIDE DEF first, todo, alone, pair
      <4> QED BY <3>1 DEF NoCommand, IsMaker
    <3> HIDE DEF c
    <3> QED BY <1>2, <3>2
  <2>2. CASE ~accepted
    <3>1. cmds'[p] = NoCommand
        BY <1>1, <2>2 DEF End
    <3> QED BY <3>1 DEF NoCommand, IsMaker
  <2> QED BY <2>1, <2>2
<1>4. ASSUME NEW q \in Makers \ {p}
      PROVE  /\ IsMaker(cmds'[q]) /\ cmds'[q].pc = cmds[q].pc /\ cmds'[q].to = cmds[q].to
             /\ cmds'[q].found = cmds[q].found
             /\ cmds'[q].alone = (cmds[q].alone /\ cmds[q].pc = "idle")
  <2> DEFINE b == cmds[q].alone /\ cmds[q].pc = "idle"
  <2>1. cmds'[q] = [cmds[q] EXCEPT !.alone = b] /\ IsMaker(cmds[q])
      BY <1>1 DEF AskInv
  <2> HIDE DEF b
  <2>2. IsMaker(cmds'[q]) /\ cmds'[q].pc = cmds[q].pc /\ cmds'[q].to = cmds[q].to
        /\ cmds'[q].found = cmds[q].found /\ cmds'[q].alone = b
      BY <2>1 DEF IsMaker
  <2> QED BY <2>2 DEF b
<1>5. files' = files /\ DOMAIN cmds' = Makers
    BY <1>1 DEF Start, stores
<1>6. \A q \in Makers : IsMaker(cmds'[q]) /\ Asked(cmds'[q], files')
    BY <1>3, <1>4, <1>5 DEF AskInv, Asked
<1>7. ASSUME NEW q \in Makers, cmds'[q].alone, cmds'[q].pc # "idle", NEW r \in Makers \ {q}
      PROVE  cmds'[r].pc = "idle"
  <2>1. q = p
      BY <1>4, <1>7
  <2> QED BY <1>3, <1>4, <1>7, <2>1
<1> QED BY <1>5, <1>6, <1>7 DEF AskInv

LEMMA AskNextInv == AskInv /\ [StoresNext]_storeVars => AskInv'
<1> SUFFICES ASSUME AskInv, [StoresNext]_storeVars PROVE AskInv'
    OBVIOUS
<1>a. \A p \in Makers : IsMaker(cmds[p]) /\ Asked(cmds[p], files)
    BY DEF AskInv
<1>b. files' = files => DOMAIN files' = FileNames
    BY DEF AskInv
<1>1. ASSUME NEW p \in Makers, NEW to \in Targets, NEW pass, Start(p, to, pass) PROVE AskInv'
    BY <1>1, StartInv
<1>2. ASSUME NEW p \in Makers, FileExists(p) PROVE AskInv'
  <2> DEFINE c == cmds[p]
             found == files[KeyFile(c.to)] # Nil
             pc == IF found THEN "ask" ELSE "key"
  <2>1. /\ Goto(p, [c EXCEPT !.pc = pc, !.found = found])
        /\ c.pc = "exists" /\ files' = files /\ IsMaker(c)
      BY <1>2, <1>a DEF FileExists, stores
  <2>2. ASSUME NEW d, d = [c EXCEPT !.pc = pc, !.found = found], Goto(p, d) PROVE AskInv'
    <3>1. /\ IsMaker(d) /\ d.pc = pc /\ d.found = found /\ d.alone = c.alone /\ d.to = c.to
      <4> HIDE DEF c, pc, found
      <4> QED BY <2>1, <2>2 DEF IsMaker
    <3>2. Asked(d, files')
        BY <2>1, <3>1 DEF Asked
    <3> QED BY <1>b, <2>1, <2>2, <3>1, <3>2, Moves
  <2> HIDE DEF c, pc, found
  <2> QED BY <2>1, <2>2
<1>3. ASSUME NEW p \in Makers, Overwrite(p) PROVE AskInv'
  <2> DEFINE c == cmds[p]
  <2>1. c.pc = "ask" /\ c.found /\ files' = files /\ IsMaker(c)
      BY <1>3, <1>a DEF Overwrite, stores, Asked
  <2>2. ASSUME NEW d, d = [c EXCEPT !.pc = "key"], Goto(p, d) PROVE AskInv'
    <3>1. IsMaker(d) /\ d.pc = "key" /\ d.found /\ d.alone = c.alone
        BY <2>1, <2>2, MakerPcSet
    <3>2. Asked(d, files')
        BY <3>1 DEF Asked
    <3> QED BY <1>b, <2>1, <2>2, <3>1, <3>2, Moves
  <2>3. ASSUME NEW d, d = End(c, "declined"), Goto(p, d) PROVE AskInv'
      BY <1>b, <2>1, <2>3, Ends, MovesOn
  <2>4. Goto(p, [c EXCEPT !.pc = "key"]) \/ Goto(p, End(c, "declined"))
      BY <1>3 DEF Overwrite
  <2> QED BY <2>2, <2>3, <2>4
<1>4. ASSUME NEW p \in Makers, WriteKey(p) PROVE AskInv'
  <2> DEFINE c == cmds[p]
  <2>1. c.pc = "key" /\ DOMAIN files' = FileNames /\ IsMaker(c)
      BY <1>4, <1>a DEF WriteKey, WriteFile, AskInv
  <2>2. ASSUME NEW d, d = [c EXCEPT !.pc = "pub"], Goto(p, d) PROVE AskInv'
    <3>1. IsMaker(d) /\ d.pc = "pub" /\ d.alone = c.alone
        BY <2>1, <2>2, MakerPcSet
    <3> QED BY <2>1, <2>2, <3>1, MovesOn
  <2>3. ASSUME NEW d, d = End(c, "failed"), Goto(p, d) PROVE AskInv'
      BY <2>1, <2>3, Ends, MovesOn
  <2>4. Goto(p, [c EXCEPT !.pc = "pub"]) \/ Goto(p, End(c, "failed"))
      BY <1>4 DEF WriteKey, WriteFile
  <2> QED BY <2>2, <2>3, <2>4
<1>5. ASSUME NEW p \in Makers, WritePub(p) PROVE AskInv'
  <2> DEFINE c == cmds[p]
  <2>1. c.pc = "pub" /\ DOMAIN files' = FileNames /\ IsMaker(c)
      BY <1>5, <1>a DEF WritePub, WriteFile, AskInv
  <2>2. ASSUME NEW how, NEW d, d = End(c, how), Goto(p, d) PROVE AskInv'
      BY <2>1, <2>2, Ends, MovesOn
  <2>3. Goto(p, End(c, "ok")) \/ Goto(p, End(c, "failed"))
      BY <1>5 DEF WritePub, WriteFile
  <2> QED BY <2>2, <2>3
<1>6. ASSUME NEW p \in Makers, GetSecret(p) PROVE AskInv'
  <2> DEFINE c == cmds[p]  found == secret # Nil
  <2>1. c.pc = "get" /\ files' = files /\ IsMaker(c)
      BY <1>6, <1>a DEF GetSecret, stores
  <2>2. ASSUME NEW d, d = [c EXCEPT !.pc = "set", !.found = found], Goto(p, d) PROVE AskInv'
    <3>1. IsMaker(d) /\ d.pc = "set" /\ d.alone = c.alone
      <4> HIDE DEF c, found
      <4> QED BY <2>1, <2>2 DEF IsMaker
    <3> QED BY <1>b, <2>1, <2>2, <3>1, MovesOn
  <2>3. ASSUME NEW d, d = End(c, "failed"), Goto(p, d) PROVE AskInv'
      BY <1>b, <2>1, <2>3, Ends, MovesOn
  <2>4. Goto(p, [c EXCEPT !.pc = "set", !.found = found]) \/ Goto(p, End(c, "failed"))
      BY <1>6 DEF GetSecret
  <2> HIDE DEF found
  <2> QED BY <2>2, <2>3, <2>4
<1>7. ASSUME NEW p \in Makers, KeyPairSecret(p) PROVE AskInv'
  <2> DEFINE c == cmds[p]
  <2>1. c.pc = "set" /\ files' = files /\ IsMaker(c)
      BY <1>7, <1>a DEF KeyPairSecret
  <2>2. ASSUME NEW d, d = [c EXCEPT !.pc = "pub"], Goto(p, d) PROVE AskInv'
    <3>1. IsMaker(d) /\ d.pc = "pub" /\ d.alone = c.alone
        BY <2>1, <2>2, MakerPcSet
    <3> QED BY <1>b, <2>1, <2>2, <3>1, MovesOn
  <2>3. ASSUME NEW d, d = End(c, "failed"), Goto(p, d) PROVE AskInv'
      BY <1>b, <2>1, <2>3, Ends, MovesOn
  <2>4. Goto(p, [c EXCEPT !.pc = "pub"]) \/ Goto(p, End(c, "failed"))
      BY <1>7 DEF KeyPairSecret
  <2> QED BY <2>2, <2>3, <2>4
<1>8. ASSUME NEW p \in Makers, CreateVariable(p) \/ CreateOrUpdateRepoSecret(p) PROVE AskInv'
  <2> DEFINE c == cmds[p]
  <2>1. c.pc = "put" /\ files' = files /\ IsMaker(c)
      BY <1>8, <1>a DEF CreateVariable, CreateOrUpdateRepoSecret
  <2>2. \E ok \in BOOLEAN : Goto(p, AfterPut(c, ok))
    <3>1. CASE CreateVariable(p)
        BY <3>1 DEF CreateVariable
    <3>2. CASE CreateOrUpdateRepoSecret(p)
        BY <3>2 DEF CreateOrUpdateRepoSecret
    <3> QED BY <1>8, <3>1, <3>2
  <2>3. ASSUME NEW ok \in BOOLEAN, NEW d, d = AfterPut(c, ok), Goto(p, d) PROVE AskInv'
      BY <1>b, <2>1, <2>3, Puts, MovesOn
  <2> QED BY <2>2, <2>3
<1>9. ASSUME NEW p \in Makers, CreateKey(p) PROVE AskInv'
  <2> DEFINE c == cmds[p]
  <2>1. c.pc = "create" /\ files' = files /\ IsMaker(c)
      BY <1>9, <1>a DEF CreateKey
  <2>2. ASSUME NEW d, d = [c EXCEPT !.pc = "pub", !.pair = kms'], Goto(p, d) PROVE AskInv'
    <3>1. IsMaker(d) /\ d.pc = "pub" /\ d.alone = c.alone
      <4> HIDE DEF c
      <4> QED BY <2>1, <2>2 DEF IsMaker
    <3> QED BY <1>b, <2>1, <2>2, <3>1, MovesOn
  <2>3. ASSUME NEW d, d = End(c, "failed"), Goto(p, d) PROVE AskInv'
      BY <1>b, <2>1, <2>3, Ends, MovesOn
  <2>4. Goto(p, [c EXCEPT !.pc = "pub", !.pair = kms']) \/ Goto(p, End(c, "failed"))
      BY <1>9 DEF CreateKey
  <2> QED BY <2>2, <2>3, <2>4
<1>10. ASSUME NEW p \in Makers, Exit(p) PROVE AskInv'
  <2>1. IsMaker(NoCommand) /\ NoCommand.pc = "idle"
      BY DEF NoCommand, IsMaker
  <2>2. Goto(p, NoCommand) /\ cmds[p].pc = "ok" /\ files' = files
      BY <1>10 DEF Exit, stores
  <2> QED BY <1>b, <2>1, <2>2, MovesOn
<1>11. CASE DeleteVariables
    BY <1>11 DEF DeleteVariables, AskInv
<1>12. CASE UNCHANGED storeVars
    BY <1>12 DEF storeVars, AskInv
<1> QED BY <1>1, <1>2, <1>3, <1>4, <1>5, <1>6, <1>7, <1>8, <1>9, <1>10, <1>11, <1>12
        DEF StoresNext

\* A private key file that exists is replaced only by a command that asked, or
\* by one that was not alone.
THEOREM AsksFirst == StoresSpec => AskedBeforeOverwrite
<1> DEFINE Step == \A f \in {"cosign.key", "import-cosign.key"} :
                files[f] # Nil /\ files'[f] # files[f] =>
                    \E p \in Makers : cmds[p].pc = "key" /\ (cmds[p].found \/ ~cmds[p].alone)
<1>1. AskInv /\ [StoresNext]_storeVars => [Step]_storeVars
  <2> SUFFICES ASSUME AskInv, StoresNext, NEW f \in {"cosign.key", "import-cosign.key"},
                      files[f] # Nil, files'[f] # files[f]
               PROVE  \E p \in Makers : cmds[p].pc = "key" /\ (cmds[p].found \/ ~cmds[p].alone)
      OBVIOUS
  <2>1. PICK p \in Makers : WriteKey(p) \/ WritePub(p)
      BY DEF StoresNext, Start, FileExists, Overwrite, GetSecret, KeyPairSecret, CreateVariable,
             CreateOrUpdateRepoSecret, CreateKey, Exit, DeleteVariables, stores
  <2>2. ASSUME NEW name, NEW content, NEW next, WriteFile(p, name, content, next)
        PROVE  name = f
    <3>1. PICK x : files' = [files EXCEPT ![name] = x]
        BY <2>2 DEF WriteFile
    <3> QED BY <3>1 DEF AskInv, FileNames
  <2>3. PubFile(cmds[p].to) # f
      BY DEF PubFile
  <2>4. cmds[p].pc = "key" /\ KeyFile(cmds[p].to) = f
      BY <2>1, <2>2, <2>3 DEF WriteKey, WritePub
  <2> QED BY <2>4 DEF AskInv, Asked
<1> QED BY AskInitInv, AskNextInv, <1>1, PTL DEF StoresSpec, AskedBeforeOverwrite
------------------------------------------------------------------------------
Pairs == Nat \ {0}

\* A command under way has a pair and a password.
HasPair(c) == c.pc # "idle" => c.pass \in Passwords /\ c.pair \in Pairs

\* The inductive invariant behind UsableStaysUsable: what is kept is never Nil by
\* accident.
UseInv ==
    /\ DOMAIN cmds = Makers
    /\ \A p \in Makers : IsMaker(cmds[p]) /\ HasPair(cmds[p])
    /\ pairs \in Nat /\ kms \in Pairs \cup {Nil}
    /\ DOMAIN gitlab = Variables
    /\ gitlab["private"] = Nil \/ gitlab["private"].pass \in Passwords

\* The pair that a Secret written by a command yields.
LEMMA SecretUsable ==
    ASSUME NEW pass \in Passwords, NEW pair \in Pairs
    PROVE  /\ [pair |-> pair, pass |-> pass] # Nil
           /\ LoadPrivateKey([pair |-> pair, pass |-> pass], pass) = pair /\ pair # Nil
<1>1. [pair |-> pair, pass |-> pass] # Nil
    BY NilIsNothing DEF Pairs
<1>2. [pair |-> pair, pass |-> pass] # Torn
    BY DEF Torn, Pairs
<1> QED BY <1>1, <1>2, NilIsNothing DEF LoadPrivateKey, Pairs

\* A step of a command that keeps its pair or is over.
LEMMA KeepsPair ==
    ASSUME UseInv, NEW p \in Makers, NEW d, Goto(p, d), IsMaker(d), HasPair(d),
           pairs' = pairs, kms' \in Pairs \cup {Nil}, DOMAIN gitlab' = Variables,
           gitlab'["private"] = Nil \/ gitlab'["private"].pass \in Passwords
    PROVE  UseInv'
BY DEF UseInv, Goto

LEMMA EndsWithPair ==
    ASSUME NEW c, IsMaker(c), HasPair(c), c.pc # "idle", NEW how, NEW d, d = End(c, how)
    PROVE  IsMaker(d) /\ HasPair(d)
<1>1. CASE how = "ok"
  <2>1. d = [c EXCEPT !.pc = "ok"]
      BY <1>1 DEF End
  <2>2. IsMaker(d) /\ d.pass = c.pass /\ d.pair = c.pair
      BY <2>1 DEF IsMaker
  <2> QED BY <2>2 DEF HasPair
<1>2. CASE how # "ok"
    BY <1>2 DEF End, NoCommand, IsMaker, HasPair
<1> QED BY <1>1, <1>2

LEMMA PcWithPair ==
    ASSUME NEW c, IsMaker(c), HasPair(c), c.pc # "idle", NEW pc, NEW d, d = [c EXCEPT !.pc = pc]
    PROVE  IsMaker(d) /\ HasPair(d)
<1>1. IsMaker(d) /\ d.pass = c.pass /\ d.pair = c.pair
    BY DEF IsMaker
<1> QED BY <1>1 DEF HasPair

LEMMA FoundWithPair ==
    ASSUME NEW c, IsMaker(c), HasPair(c), c.pc # "idle", NEW pc, NEW f, NEW d,
           d = [c EXCEPT !.pc = pc, !.found = f]
    PROVE  IsMaker(d) /\ HasPair(d)
<1>1. IsMaker(d) /\ d.pass = c.pass /\ d.pair = c.pair
    BY DEF IsMaker
<1> QED BY <1>1 DEF HasPair

LEMMA PutsWithPair ==
    ASSUME NEW c, IsMaker(c), HasPair(c), c.pc # "idle", NEW ok, NEW d, d = AfterPut(c, ok)
    PROVE  IsMaker(d) /\ HasPair(d)
<1>1. CASE ~ok
    BY <1>1, EndsWithPair DEF AfterPut
<1>2. CASE ok
  <2> DEFINE todo == Tail(c.todo)  pc == IF Len(c.todo) = 1 THEN "pub" ELSE "put"
  <2>1. d = [c EXCEPT !.todo = todo, !.pc = pc]
      BY <1>2 DEF AfterPut
  <2>2. IsMaker(d) /\ d.pass = c.pass /\ d.pair = c.pair
    <3> HIDE DEF todo, pc
    <3> QED BY <2>1 DEF IsMaker
  <2> QED BY <2>2 DEF HasPair
<1> QED BY <1>1, <1>2

LEMMA UseInitInv == StoresInit => UseInv
<1> SUFFICES ASSUME StoresInit PROVE UseInv
    OBVIOUS
<1>1. IsMaker(NoCommand) /\ HasPair(NoCommand)
    BY DEF NoCommand, IsMaker, HasPair
<1> QED BY <1>1 DEF StoresInit, UseInv, Variables

LEMMA StartUse ==
    ASSUME UseInv, NEW p \in Makers, NEW to \in Targets, NEW pass \in Passwords,
           Start(p, to, pass)
    PROVE  UseInv'
<1> DEFINE first == FirstStep(to)
           todo == IF to \in {"gitlab", "github"} THEN <<"password", "private", "public">>
                   ELSE << >>
           alone == \A q \in Makers : cmds[q].pc = "idle"
           pair == pairs + 1
           c == [NoCommand EXCEPT !.to = to, !.pass = pass, !.pair = pair, !.pc = first,
                                  !.todo = todo, !.alone = alone]
<1>1. PICK accepted \in BOOLEAN :
          cmds' = [q \in Makers |->
                     IF q = p THEN IF accepted THEN c ELSE End(c, "failed")
                     ELSE [cmds[q] EXCEPT !.alone = @ /\ cmds[q].pc = "idle"]]
    BY DEF Start
<1>2. pair \in Pairs
    BY DEF UseInv, Pairs
<1>3. IsMaker(cmds'[p]) /\ HasPair(cmds'[p])
  <2>1. CASE accepted
    <3>1. cmds'[p] = c
        BY <1>1, <2>1
    <3>2. IsMaker(cmds'[p]) /\ cmds'[p].pass = pass /\ cmds'[p].pair = pair
      <4> HIDE DEF first, todo, alone, pair
      <4> QED BY <3>1 DEF NoCommand, IsMaker
    <3> HIDE DEF c, pair
    <3> QED BY <1>2, <3>2 DEF HasPair
  <2>2. CASE ~accepted
    <3>1. cmds'[p] = NoCommand
        BY <1>1, <2>2 DEF End
    <3> QED BY <3>1 DEF NoCommand, IsMaker, HasPair
  <2> QED BY <2>1, <2>2
<1>4. ASSUME NEW q \in Makers \ {p} PROVE IsMaker(cmds'[q]) /\ HasPair(cmds'[q])
  <2> DEFINE b == cmds[q].alone /\ cmds[q].pc = "idle"
  <2>1. cmds'[q] = [cmds[q] EXCEPT !.alone = b] /\ IsMaker(cmds[q]) /\ HasPair(cmds[q])
      BY <1>1 DEF UseInv
  <2> HIDE DEF b
  <2>2. /\ IsMaker(cmds'[q]) /\ cmds'[q].pc = cmds[q].pc /\ cmds'[q].pass = cmds[q].pass
        /\ cmds'[q].pair = cmds[q].pair
      BY <2>1 DEF IsMaker
  <2> QED BY <2>1, <2>2 DEF HasPair
<1>5. DOMAIN cmds' = Makers
    BY <1>1
<1>6. pairs' = pairs + 1 /\ gitlab' = gitlab /\ kms' = kms
    BY DEF Start, stores
<1>7. pairs' \in Nat
    BY <1>6 DEF UseInv
<1> QED BY <1>3, <1>4, <1>5, <1>6, <1>7 DEF UseInv

LEMMA UseNextInv == UseInv /\ [StoresNext]_storeVars => UseInv'
<1> SUFFICES ASSUME UseInv, [StoresNext]_storeVars PROVE UseInv'
    OBVIOUS
<1>a. \A p \in Makers : IsMaker(cmds[p]) /\ HasPair(cmds[p])
    BY DEF UseInv
<1> DEFINE Kept == pairs' = pairs /\ kms' \in Pairs \cup {Nil} /\ DOMAIN gitlab' = Variables
                   /\ (gitlab'["private"] = Nil \/ gitlab'["private"].pass \in Passwords)
<1>b. pairs' = pairs /\ kms' = kms /\ gitlab' = gitlab => Kept
    BY DEF UseInv
<1>c. ASSUME NEW p \in Makers, NEW d, Goto(p, d), IsMaker(d), HasPair(d), Kept PROVE UseInv'
    BY <1>c, KeepsPair
<1> HIDE DEF Kept
<1>1. ASSUME NEW p \in Makers, NEW to \in Targets, NEW pass \in Passwords, Start(p, to, pass)
      PROVE  UseInv'
    BY <1>1, StartUse
<1>2. ASSUME NEW p \in Makers, FileExists(p) PROVE UseInv'
  <2> DEFINE c == cmds[p]
             found == files[KeyFile(c.to)] # Nil
             pc == IF found THEN "ask" ELSE "key"
  <2>1. /\ Goto(p, [c EXCEPT !.pc = pc, !.found = found])
        /\ c.pc = "exists" /\ Kept /\ IsMaker(c) /\ HasPair(c)
      BY <1>2, <1>a, <1>b DEF FileExists, stores
  <2>2. ASSUME NEW d, d = [c EXCEPT !.pc = pc, !.found = found], Goto(p, d) PROVE UseInv'
    <3> HIDE DEF c, pc, found
    <3> QED BY <1>c, <2>1, <2>2, FoundWithPair
  <2> HIDE DEF c, pc, found
  <2> QED BY <2>1, <2>2
<1>d. ASSUME NEW p \in Makers, cmds[p].pc # "idle", Kept, NEW pc, NEW how, NEW d, Goto(p, d),
             d = [cmds[p] EXCEPT !.pc = pc] \/ d = End(cmds[p], how)
      PROVE  UseInv'
  <2>1. IsMaker(d) /\ HasPair(d)
      BY <1>a, <1>d, PcWithPair, EndsWithPair
  <2> QED BY <1>c, <1>d, <2>1
<1>3. ASSUME NEW p \in Makers, Overwrite(p) PROVE UseInv'
  <2>1. cmds[p].pc # "idle" /\ Kept
      BY <1>3, <1>b DEF Overwrite, stores
  <2>2. Goto(p, [cmds[p] EXCEPT !.pc = "key"]) \/ Goto(p, End(cmds[p], "declined"))
      BY <1>3 DEF Overwrite
  <2> QED BY <1>d, <2>1, <2>2
<1>4. ASSUME NEW p \in Makers, WriteKey(p) \/ WritePub(p) PROVE UseInv'
  <2>1. cmds[p].pc # "idle" /\ Kept
      BY <1>4, <1>b DEF WriteKey, WritePub, WriteFile
  <2>2. \/ Goto(p, [cmds[p] EXCEPT !.pc = "pub"])
        \/ Goto(p, End(cmds[p], "failed")) \/ Goto(p, End(cmds[p], "ok"))
      BY <1>4 DEF WriteKey, WritePub, WriteFile
  <2> QED BY <1>d, <2>1, <2>2
<1>5. ASSUME NEW p \in Makers, GetSecret(p) PROVE UseInv'
  <2> DEFINE c == cmds[p]  found == secret # Nil
  <2>1. c.pc = "get" /\ Kept /\ IsMaker(c) /\ HasPair(c)
      BY <1>5, <1>a, <1>b DEF GetSecret, stores
  <2>2. ASSUME NEW d, d = [c EXCEPT !.pc = "set", !.found = found], Goto(p, d) PROVE UseInv'
    <3> HIDE DEF c, found
    <3> QED BY <1>c, <2>1, <2>2, FoundWithPair
  <2>3. Goto(p, [c EXCEPT !.pc = "set", !.found = found]) \/ Goto(p, End(c, "failed"))
      BY <1>5 DEF GetSecret
  <2> HIDE DEF found
  <2> QED BY <1>d, <2>1, <2>2, <2>3
<1>6. ASSUME NEW p \in Makers, KeyPairSecret(p) PROVE UseInv'
  <2>1. cmds[p].pc # "idle" /\ Kept
      BY <1>6, <1>b DEF KeyPairSecret
  <2>2. Goto(p, [cmds[p] EXCEPT !.pc = "pub"]) \/ Goto(p, End(cmds[p], "failed"))
      BY <1>6 DEF KeyPairSecret
  <2> QED BY <1>d, <2>1, <2>2
<1>7. ASSUME NEW p \in Makers, CreateVariable(p) \/ CreateOrUpdateRepoSecret(p) PROVE UseInv'
  <2> DEFINE c == cmds[p]
  <2>1. c.pc = "put" /\ IsMaker(c) /\ HasPair(c)
      BY <1>7, <1>a DEF CreateVariable, CreateOrUpdateRepoSecret
  <2>2. Kept
    <3>1. CASE CreateVariable(p)
      <4>1. \/ gitlab' = gitlab
            \/ gitlab' = [gitlab EXCEPT ![Head(c.todo)] = ValueOf(c, Head(c.todo))]
          BY <3>1 DEF CreateVariable
      <4>2. Head(c.todo) = "private" => ValueOf(c, Head(c.todo)).pass \in Passwords
          BY <2>1 DEF ValueOf, PrivateBytes, HasPair
      <4>3. DOMAIN gitlab' = Variables
            /\ (gitlab'["private"] = Nil \/ gitlab'["private"].pass \in Passwords)
        <5> DEFINE v == Head(c.todo)  x == ValueOf(c, v)
        <5> HIDE DEF v, x
        <5> QED BY <4>1, <4>2 DEF UseInv, Variables, v, x
      <4> QED BY <3>1, <4>3 DEF CreateVariable, Kept, UseInv
    <3>2. CASE CreateOrUpdateRepoSecret(p)
        BY <3>2, <1>b DEF CreateOrUpdateRepoSecret
    <3> QED BY <1>7, <3>1, <3>2
  <2>3. \E ok \in BOOLEAN : Goto(p, AfterPut(c, ok))
    <3>1. CASE CreateVariable(p)
        BY <3>1 DEF CreateVariable
    <3>2. CASE CreateOrUpdateRepoSecret(p)
        BY <3>2 DEF CreateOrUpdateRepoSecret
    <3> QED BY <1>7, <3>1, <3>2
  <2>4. ASSUME NEW ok \in BOOLEAN, NEW d, d = AfterPut(c, ok), Goto(p, d) PROVE UseInv'
      BY <1>c, <2>1, <2>2, <2>4, PutsWithPair
  <2> QED BY <2>3, <2>4
<1>8. ASSUME NEW p \in Makers, CreateKey(p) PROVE UseInv'
  <2> DEFINE c == cmds[p]
  <2>1. c.pc = "create" /\ IsMaker(c) /\ HasPair(c)
      BY <1>8, <1>a DEF CreateKey
  <2>2. kms' \in Pairs \cup {Nil} /\ Kept
      BY <1>8, <2>1 DEF CreateKey, Kept, UseInv, HasPair
  <2>3. \/ Goto(p, [c EXCEPT !.pc = "pub", !.pair = kms']) /\ kms' \in Pairs
        \/ Goto(p, End(c, "failed"))
      BY <1>8, <2>1 DEF CreateKey, UseInv, HasPair
  <2>4. ASSUME NEW d, d = [c EXCEPT !.pc = "pub", !.pair = kms'], kms' \in Pairs, Goto(p, d)
        PROVE  UseInv'
    <3>1. IsMaker(d) /\ d.pass = c.pass /\ d.pair = kms'
      <4> HIDE DEF c
      <4> QED BY <2>1, <2>4 DEF IsMaker
    <3>2. HasPair(d)
        BY <2>1, <2>4, <3>1 DEF HasPair
    <3> QED BY <1>c, <2>2, <2>4, <3>1, <3>2
  <2> QED BY <1>d, <2>1, <2>2, <2>3, <2>4
<1>9. ASSUME NEW p \in Makers, Exit(p) PROVE UseInv'
  <2>1. IsMaker(NoCommand) /\ HasPair(NoCommand)
      BY DEF NoCommand, IsMaker, HasPair
  <2>2. Goto(p, NoCommand) /\ Kept
      BY <1>9, <1>b DEF Exit, stores
  <2> QED BY <1>c, <2>1, <2>2
<1>10. CASE DeleteVariables
    BY <1>10 DEF DeleteVariables, UseInv, Variables
<1>11. CASE UNCHANGED storeVars
    BY <1>11 DEF storeVars, UseInv
<1> QED BY <1>1, <1>2, <1>3, <1>4, <1>5, <1>6, <1>7, <1>8, <1>9, <1>10, <1>11 DEF StoresNext

\* A Secret is written as a whole and a GitLab variable only once: a store that
\* works goes on working, unless its variables are deleted.
THEOREM KeepsWorking == StoresSpec => UsableStaysUsable
<1> DEFINE Deleted == gitlab # gitlab' /\ \A v \in Variables : gitlab'[v] = Nil
           Step == \A to \in {"k8s", "gitlab"} : Usable(to) /\ ~Deleted => Usable(to)'
<1>1. UseInv /\ [StoresNext]_storeVars => [Step]_storeVars
  <2> SUFFICES ASSUME UseInv, StoresNext PROVE Step
      OBVIOUS
  <2>1. ASSUME Usable("k8s") PROVE Usable("k8s")'
    <3>1. CASE secret' = secret
        BY <2>1, <3>1 DEF Usable, SignerVerifierFromKeyRef, PublicKeyFromKeyRef
    <3>2. CASE secret' # secret
      <4>1. PICK p \in Makers, immutable \in BOOLEAN :
                cmds[p].pc = "set" /\ secret' = secretOf(cmds[p], immutable)
          BY <3>2 DEF StoresNext, Start, FileExists, Overwrite, WriteKey, WritePub, WriteFile,
                 GetSecret, KeyPairSecret, CreateVariable, CreateOrUpdateRepoSecret, CreateKey,
                 Exit, DeleteVariables, stores
      <4>2. cmds[p].pass \in Passwords /\ cmds[p].pair \in Pairs
          BY <4>1 DEF UseInv, HasPair
      <4>3. secret' # Nil
          BY <4>1, <4>2, NilIsNothing DEF secretOf, PrivateBytes, Pairs
      <4>4. /\ secret'.private = [pair |-> cmds[p].pair, pass |-> cmds[p].pass]
            /\ secret'.password = cmds[p].pass /\ secret'.public = cmds[p].pair
          BY <4>1 DEF secretOf, PrivateBytes
      <4> QED BY <4>2, <4>3, <4>4, SecretUsable
              DEF Usable, SignerVerifierFromKeyRef, PublicKeyFromKeyRef
    <3> QED BY <3>1, <3>2
  <2>2. ASSUME Usable("gitlab"), ~Deleted PROVE Usable("gitlab")'
    <3>1. gitlab["private"] # Nil /\ gitlab["password"] # Nil /\ gitlab["public"] # Nil
        BY <2>2, NilIsNothing
           DEF Usable, SignerVerifierFromKeyRef, PublicKeyFromKeyRef, LoadPrivateKey, UseInv
    <3>2. \A v \in Variables : gitlab'[v] = gitlab[v]
      <4>1. CASE \E p \in Makers : CreateVariable(p)
        <5>1. PICK p \in Makers : CreateVariable(p)
            BY <4>1
        <5>2. PICK x : \/ gitlab' = gitlab
                       \/ /\ gitlab[Head(cmds[p].todo)] = Nil
                          /\ gitlab' = [gitlab EXCEPT ![Head(cmds[p].todo)] = x]
            BY <5>1 DEF CreateVariable
        <5> DEFINE w == Head(cmds[p].todo)
        <5> HIDE DEF w
        <5> QED BY <3>1, <5>2 DEF UseInv, Variables, w
      <4>2. CASE ~\E p \in Makers : CreateVariable(p)
        <5>1. gitlab' = gitlab \/ DeleteVariables
            BY <4>2 DEF StoresNext, Start, FileExists, Overwrite, WriteKey, WritePub, WriteFile,
                   GetSecret, KeyPairSecret, CreateOrUpdateRepoSecret, CreateKey, Exit, stores
        <5> QED BY <2>2, <5>1 DEF DeleteVariables
      <4> QED BY <4>1, <4>2
    <3> QED BY <2>2, <3>2
            DEF Usable, SignerVerifierFromKeyRef, PublicKeyFromKeyRef, LoadPrivateKey, Variables
  <2> QED BY <2>1, <2>2
<1> QED BY UseInitInv, UseNextInv, <1>1, PTL DEF StoresSpec, UsableStaysUsable
=============================================================================
