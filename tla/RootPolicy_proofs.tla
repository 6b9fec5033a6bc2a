------------------------- MODULE RootPolicy_proofs -------------------------
(***************************************************************************)
(* The published root has only signatures of its maintainers, for any      *)
(* number of operators, identities, issuers and files.                     *)
(***************************************************************************)
EXTENDS RootPolicy, TLAPS

\* A signature that belongs to a root with this signed part.
GoodSig(body, s) ==
    /\ s.key \in body.keys
    /\ s.over = body
    /\ s.by.identity = s.key.identity /\ s.key.issuer \in {"", s.by.issuer}

Logged(body, s, log) == Experimental => [body |-> body, by |-> s.by] \in log

\* What may be published: no root, an empty file, or a root all of whose
\* signatures are good, logged and of different keys.
GoodRoot(r, log) ==
    \/ r \in {NoRoot, Empty}
    \/ /\ r = Root(r.body, r.sigs)
       /\ \A s \in r.sigs : GoodSig(r.body, s) /\ Logged(r.body, s, log)
       /\ \A s, t \in r.sigs : s.key = t.key => s = t

\* The same of a root on its way to the log: the signatures of its author are
\* not there yet.
UnloggedRoot(r, who, log) ==
    /\ r = Root(r.body, r.sigs)
    /\ \A s \in r.sigs : GoodSig(r.body, s) /\ (s.by = who \/ Logged(r.body, s, log))
    /\ \A s, t \in r.sigs : s.key = t.key => s = t

\* A command has the fields of Waiting.
IsCommand(c) ==
    /\ c.out \in OutFiles \cup {""}
    /\ c = [pc |-> c.pc, cmd |-> c.cmd, who |-> c.who, out |-> c.out, read |-> c.read,
            made |-> c.made, alone |-> c.alone]

\* What a command that may still write holds may be published.
GoodCommand(c, log) ==
    /\ c.pc = "log" => UnloggedRoot(c.made, c.who, log)
    /\ c.pc \in {"out", "push"} => GoodRoot(c.made, log)

\* The inductive invariant: not only the tag, every file and every command that
\* may still write holds a root that may be published.
RootInv ==
    /\ GoodRoot(rootTag, rootLog)
    /\ DOMAIN outFile = OutFiles
    /\ \A f \in OutFiles : GoodRoot(outFile[f], rootLog)
    /\ DOMAIN ops = Operators
    /\ \A p \in Operators :
        IsCommand(ops[p]) /\ GoodCommand(ops[p], rootLog)

\* A root stays publishable while the log grows.
LEMMA LogGrows ==
    ASSUME NEW r, NEW log, NEW more, log \subseteq more, GoodRoot(r, log)
    PROVE  GoodRoot(r, more)
BY DEF GoodRoot, Logged

LEMMA UnloggedGrows ==
    ASSUME NEW r, NEW who, NEW log, NEW more, log \subseteq more, UnloggedRoot(r, who, log)
    PROVE  UnloggedRoot(r, who, more)
BY DEF UnloggedRoot, Logged

\* A signature over a publishable root by an identity that matches one of its
\* keys makes a root that is publishable once that signature is logged.
LEMMA SignedIsGood ==
    ASSUME NEW r, NEW who, NEW log, GoodRoot(r, log), r \notin {NoRoot, Empty},
           NEW k \in ValidKey(r.body, who)
    PROVE  LET sig == [key |-> k, by |-> who, over |-> r.body]
               made == AddOrUpdateSignature(r, k, sig)
           IN  /\ UnloggedRoot(made, who, log)
               /\ ~Experimental => GoodRoot(made, log)
<1> DEFINE sig == [key |-> k, by |-> who, over |-> r.body]
           made == AddOrUpdateSignature(r, k, sig)
<1>1. made.body = r.body /\ made.sigs = {s \in r.sigs : s.key # k} \cup {sig}
      /\ made = Root(made.body, made.sigs)
    BY DEF AddOrUpdateSignature, Root
<1>2. GoodSig(r.body, sig)
    BY DEF GoodSig, ValidKey
<1>3. \A s \in made.sigs : GoodSig(r.body, s) /\ (s.by = who \/ Logged(r.body, s, log))
    BY <1>1, <1>2 DEF GoodRoot
<1>4. \A s, t \in made.sigs : s.key = t.key => s = t
    BY <1>1 DEF GoodRoot
<1>5. UnloggedRoot(made, who, log)
    BY <1>1, <1>3, <1>4 DEF UnloggedRoot
<1>6. ~Experimental => GoodRoot(made, log)
    BY <1>1, <1>3, <1>4 DEF GoodRoot, Logged
<1> QED BY <1>5, <1>6

\* A root whose author's entries are in the log is publishable.
LEMMA LoggedIsGood ==
    ASSUME NEW r, NEW who, NEW log, UnloggedRoot(r, who, log)
    PROVE  GoodRoot(r, log \cup {[body |-> r.body, by |-> who]})
BY DEF UnloggedRoot, GoodRoot, Logged

LEMMA CommandGrows ==
    ASSUME NEW c, NEW log, NEW more, log \subseteq more, GoodCommand(c, log)
    PROVE  GoodCommand(c, more)
BY LogGrows, UnloggedGrows DEF GoodCommand

\* A command that is over holds nothing that it may still write.
LEMMA OverIsGood ==
    ASSUME NEW c, IsCommand(c), NEW how, NEW log
    PROVE  IsCommand(Over(c, how)) /\ GoodCommand(Over(c, how), log)
BY DEF Over, Waiting, IsCommand, GoodCommand

\* Setting some fields of a command leaves the others alone.
LEMMA OpAloneSet ==
    ASSUME NEW c, IsCommand(c), NEW b, NEW d, d = [c EXCEPT !.alone = b]
    PROVE  IsCommand(d) /\ d.pc = c.pc /\ d.made = c.made /\ d.who = c.who
BY DEF IsCommand

LEMMA OpPcSet ==
    ASSUME NEW c, IsCommand(c), NEW pc, NEW d, d = [c EXCEPT !.pc = pc]
    PROVE  IsCommand(d) /\ d.pc = pc /\ d.made = c.made /\ d.who = c.who
BY DEF IsCommand

LEMMA RootInitInv == RootInit => RootInv
<1> SUFFICES ASSUME RootInit PROVE RootInv
    OBVIOUS
<1>1. IsCommand(Waiting) /\ GoodCommand(Waiting, rootLog)
    BY DEF Waiting, IsCommand, GoodCommand
<1>2. GoodRoot(NoRoot, rootLog)
    BY DEF GoodRoot
<1> QED BY <1>1, <1>2 DEF RootInit, RootInv

LEMMA RootNextInv == RootInv /\ [RootNext]_rootVars => RootInv'
<1> SUFFICES ASSUME RootInv, [RootNext]_rootVars PROVE RootInv'
    OBVIOUS
<1>1. ASSUME NEW p \in Operators, NEW ms, NEW issuer, NEW n, NEW out \in OutFiles,
             InitPolicy(p, ms, issuer, n, out)
      PROVE  RootInv'
  <2> DEFINE made == Root(NewRoot(inits + 1, ms, issuer, n), {})
  <2>1. GoodRoot(made, rootLog)
      <3>1. made.sigs = {} /\ made = Root(made.body, made.sigs)
          BY DEF Root
      <3> QED BY <3>1 DEF GoodRoot
  <2>2. \A q \in Operators : IsCommand(ops'[q]) /\ GoodCommand(ops'[q], rootLog)
      <3> SUFFICES ASSUME NEW q \in Operators
                   PROVE  IsCommand(ops'[q]) /\ GoodCommand(ops'[q], rootLog)
          OBVIOUS
      <3>1. CASE q = p
          BY <1>1, <2>1, <3>1 DEF InitPolicy, Enter, Waiting, IsCommand, GoodCommand
      <3>2. CASE q # p
          <4>1. ops'[q] = [ops[q] EXCEPT !.alone = FALSE]
              BY <1>1, <3>2 DEF InitPolicy, Enter
          <4>2. IsCommand(ops[q]) /\ GoodCommand(ops[q], rootLog)
              BY DEF RootInv
          <4> QED BY <4>1, <4>2, OpAloneSet DEF GoodCommand
      <3> QED BY <3>1, <3>2
  <2> QED BY <1>1, <2>2 DEF RootInv, InitPolicy, Enter
<1>2. ASSUME NEW p \in Operators, NEW who, NEW issuer, NEW out \in OutFiles,
             SignPolicy(p, who, issuer, out)
      PROVE  RootInv'
  <2>1. \A q \in Operators : IsCommand(ops'[q]) /\ GoodCommand(ops'[q], rootLog)
      <3> SUFFICES ASSUME NEW q \in Operators
                   PROVE  IsCommand(ops'[q]) /\ GoodCommand(ops'[q], rootLog)
          OBVIOUS
      <3>1. CASE q = p
          BY <1>2, <3>1 DEF SignPolicy, Enter, Waiting, IsCommand, GoodCommand
      <3>2. CASE q # p
          <4>1. ops'[q] = [ops[q] EXCEPT !.alone = FALSE]
              BY <1>2, <3>2 DEF SignPolicy, Enter
          <4>2. IsCommand(ops[q]) /\ GoodCommand(ops[q], rootLog)
              BY DEF RootInv
          <4> QED BY <4>1, <4>2, OpAloneSet DEF GoodCommand
      <3> QED BY <3>1, <3>2
  <2> QED BY <1>2, <2>1 DEF RootInv, SignPolicy, Enter
<1>3. ASSUME NEW p \in Operators, ReadAndSign(p) PROVE RootInv'
  <2> DEFINE c == ops[p]
  <2>1. IsCommand(ops'[p]) /\ GoodCommand(ops'[p], rootLog)
      <3>1. ASSUME rootTag \notin {NoRoot, Empty}, NEW k \in ValidKey(rootTag.body, c.who),
                   Is(p, [c EXCEPT !.pc = IF Experimental THEN "log" ELSE "out",
                            !.read = rootTag,
                            !.made = AddOrUpdateSignature(rootTag, k,
                                        [key |-> k, by |-> c.who, over |-> rootTag.body])])
            PROVE  IsCommand(ops'[p]) /\ GoodCommand(ops'[p], rootLog)
          <4> DEFINE made == AddOrUpdateSignature(rootTag, k,
                                [key |-> k, by |-> c.who, over |-> rootTag.body])
          <4>1. UnloggedRoot(made, c.who, rootLog) /\ (~Experimental => GoodRoot(made, rootLog))
              BY <3>1, SignedIsGood DEF RootInv
          <4> DEFINE pc == IF Experimental THEN "log" ELSE "out"
          <4>2. ops'[p] = [c EXCEPT !.pc = pc, !.read = rootTag, !.made = made]
              BY <3>1 DEF RootInv, Is
          <4>3. IsCommand(c)
              BY DEF RootInv
          <4>4. /\ IsCommand(ops'[p])
                /\ ops'[p].pc = pc /\ ops'[p].made = made /\ ops'[p].who = c.who
              <5> HIDE DEF made, pc, c
              <5> QED BY <4>2, <4>3 DEF IsCommand
          <4> HIDE DEF made
          <4> QED BY <4>1, <4>4 DEF GoodCommand
      <3>2. ASSUME NEW how, Is(p, Over(c, how))
            PROVE  IsCommand(ops'[p]) /\ GoodCommand(ops'[p], rootLog)
          BY <3>2, OverIsGood DEF RootInv, Is
      <3> QED BY <1>3, <3>1, <3>2 DEF ReadAndSign
  <2>2. DOMAIN ops' = Operators /\ \A q \in Operators \ {p} : ops'[q] = ops[q]
      BY <1>3 DEF ReadAndSign, Is, RootInv
  <2> QED BY <1>3, <2>1, <2>2 DEF RootInv, ReadAndSign
<1>4. ASSUME NEW p \in Operators, LogUpload(p) PROVE RootInv'
  <2> DEFINE c == ops[p]
             entry == [body |-> c.made.body, by |-> c.who]
  <2>1. rootLog \subseteq rootLog'
      BY <1>4 DEF LogUpload
  <2>2. DOMAIN ops' = Operators /\ \A q \in Operators \ {p} : ops'[q] = ops[q]
      BY <1>4 DEF LogUpload, Is, RootInv
  <2>3. IsCommand(ops'[p]) /\ GoodCommand(ops'[p], rootLog')
      <3>1. ASSUME rootLog' = rootLog \cup {entry}, Is(p, [c EXCEPT !.pc = "out"])
            PROVE  IsCommand(ops'[p]) /\ GoodCommand(ops'[p], rootLog')
          <4>1. GoodRoot(c.made, rootLog')
              BY <1>4, <3>1, LoggedIsGood DEF RootInv, GoodCommand, LogUpload
          <4>2. IsCommand(c) /\ ops'[p] = [c EXCEPT !.pc = "out"]
              BY <3>1 DEF RootInv, Is
          <4> QED BY <4>1, <4>2, OpPcSet DEF GoodCommand
      <3>2. ASSUME NEW how, Is(p, Over(c, how))
            PROVE  IsCommand(ops'[p]) /\ GoodCommand(ops'[p], rootLog')
          BY <3>2, OverIsGood DEF RootInv, Is
      <3> QED BY <1>4, <3>1, <3>2 DEF LogUpload
  <2>4. \A q \in Operators : IsCommand(ops'[q]) /\ GoodCommand(ops'[q], rootLog')
      BY <2>1, <2>2, <2>3, CommandGrows DEF RootInv
  <2>5. GoodRoot(rootTag', rootLog') /\ \A f \in OutFiles : GoodRoot(outFile'[f], rootLog')
      BY <1>4, <2>1, LogGrows DEF RootInv, LogUpload
  <2> QED BY <1>4, <2>2, <2>4, <2>5 DEF RootInv, LogUpload
<1>5. ASSUME NEW p \in Operators, WriteOut(p) PROVE RootInv'
  <2> DEFINE c == ops[p]
  <2>1. IsCommand(ops'[p]) /\ GoodCommand(ops'[p], rootLog)
      <3>1. ASSUME Is(p, [c EXCEPT !.pc = "push"])
            PROVE  IsCommand(ops'[p]) /\ GoodCommand(ops'[p], rootLog)
          <4>1. ops'[p] = [c EXCEPT !.pc = "push"]
              BY <3>1 DEF RootInv, Is
          <4>2. IsCommand(c) /\ c.pc = "out" /\ GoodCommand(c, rootLog)
              BY <1>5 DEF RootInv, WriteOut
          <4> QED BY <4>1, <4>2, OpPcSet DEF GoodCommand
      <3>2. ASSUME NEW how, Is(p, Over(c, how))
            PROVE  IsCommand(ops'[p]) /\ GoodCommand(ops'[p], rootLog)
          BY <3>2, OverIsGood DEF RootInv, Is
      <3> QED BY <1>5, <3>1, <3>2 DEF WriteOut
  <2>2. DOMAIN ops' = Operators /\ \A q \in Operators \ {p} : ops'[q] = ops[q]
      BY <1>5 DEF WriteOut, Is, RootInv
  <2>3. GoodRoot(c.made, rootLog)
      BY <1>5 DEF WriteOut, RootInv, GoodCommand
  <2>4. DOMAIN outFile' = OutFiles /\ \A f \in OutFiles : GoodRoot(outFile'[f], rootLog)
      BY <1>5, <2>3 DEF WriteOut, RootInv
  <2> QED BY <1>5, <2>1, <2>2, <2>4 DEF RootInv, WriteOut
<1>6. ASSUME NEW p \in Operators, Push(p) PROVE RootInv'
  <2>1. PICK how \in {"ok", "failed"} : Is(p, Over(ops[p], how))
      BY <1>6 DEF Push
  <2>2. IsCommand(ops'[p]) /\ GoodCommand(ops'[p], rootLog)
      BY <2>1, OverIsGood DEF Is, RootInv
  <2>3. DOMAIN ops' = Operators /\ \A q \in Operators \ {p} : ops'[q] = ops[q]
      BY <2>1 DEF Is, RootInv
  <2>4. GoodRoot(rootTag', rootLog)
      <3>1. GoodRoot(Empty, rootLog) /\ GoodRoot(rootTag, rootLog)
          BY DEF GoodRoot, RootInv
      <3>2. ops[p].out \in OutFiles => GoodRoot(outFile[ops[p].out], rootLog)
          BY DEF RootInv
      <3>3. ops[p].out \in OutFiles \cup {""}
          BY DEF RootInv, IsCommand
      <3> QED BY <1>6, <3>1, <3>2, <3>3 DEF Push
  <2> QED BY <1>6, <2>2, <2>3, <2>4 DEF RootInv, Push
<1>7. CASE UNCHANGED rootVars
    BY <1>7 DEF RootInv, rootVars
<1> QED BY <1>1, <1>2, <1>3, <1>4, <1>5, <1>6, <1>7 DEF RootNext

\* Whatever overlaps or fails, the published root has only signatures over this
\* very root by the identities its keys name, one for each key, and logged.
THEOREM MaintainersOnly == RootSpec => []SignaturesAreOfMaintainers
<1>1. RootInv => SignaturesAreOfMaintainers
    BY DEF RootInv, GoodRoot, GoodSig, Logged, SignaturesAreOfMaintainers
<1> QED BY RootInitInv, RootNextInv, <1>1, PTL DEF RootSpec
=============================================================================
