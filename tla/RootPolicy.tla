----------------------------- MODULE RootPolicy ----------------------------
(***************************************************************************)
(* cosign policy init and cosign policy sign: a root.json that names the   *)
(* maintainers of a namespace, which they sign one after the other.  It is *)
(* kept as a blob under <namespace>/root; init and sign write it to the    *)
(* file of --out and upload that file (BlobCmd).  sign reads the root by   *)
(* digest, adds its signature and replaces the tag.                        *)
(***************************************************************************)
EXTENDS Naturals

CONSTANTS
    NoRoot,
    People,        \* identities; those of the certificates and of --maintainers
    Issuers,       \* OIDC issuers of certificates
    Thresholds,    \* what --threshold is given
    Operators,     \* processes, all in one working directory
    OutFiles,      \* what --out is given; "" is none
    Experimental,  \* COSIGN_EXPERIMENTAL
    MaxInits, MaxSigns, MaxOutages

VARIABLES
    rootTag,       \* what <namespace>/root holds
    outFile,       \* [OutFiles -> content], files of the working directory
    rootLog,       \* entries of the transparency log, [body, by]
    ops,           \* [Operators -> command]
    inits, signs, outages

rootVars == <<rootTag, outFile, rootLog, ops, inits, signs, outages>>

\* A root.json: its signed part (a version stands for the expiry and the rest)
\* and the set of its signatures, each [key, by, over].  An empty file is no root.
Empty == [kind |-> "empty"]
Root(body, sigs) == [kind |-> "root", body |-> body, sigs |-> sigs]

Waiting == [pc |-> "idle", cmd |-> "init", who |-> NoRoot, out |-> "", read |-> NoRoot,
            made |-> NoRoot, alone |-> TRUE]

\* FulcioVerificationKey: the ID of a key is a digest of identity and issuer.
FulcioKey(who, issuer) == [identity |-> who, issuer |-> issuer]

\* init: every maintainer with the one issuer of --issuer, which may be "".
NewRoot(no, maintainers, issuer, threshold) ==
    [no |-> no, keys |-> {FulcioKey(m, issuer) : m \in maintainers}, threshold |-> threshold]

\* Mutant: the issuer of a key is not compared.
AnyIssuer(body, key) == {k \in body.keys : k.identity = key.identity}

\* The keys of the role root that a certificate's identity and issuer match.
ValidKey(body, key) ==
    {k \in body.keys : k.identity = key.identity /\ k.issuer \in {"", key.issuer}}

\* Mutant: only the signature that is added is kept.
OthersDropped(root, k, sig) == Root(root.body, {sig})

AddOrUpdateSignature(root, k, sig) ==
    Root(root.body, {s \in root.sigs : s.key # k} \cup {sig})

\* -------------------------------------------------------------------- commands
Is(p, c) == ops' = [ops EXCEPT ![p] = c]

\* Only of a command that succeeded is it remembered what it did.
Over(c, how) == IF how = "ok" THEN [c EXCEPT !.pc = "ok"] ELSE Waiting
Running(c) == c.pc \in {"read", "log", "out", "push"}
Outage == outages < MaxOutages /\ outages' = outages + 1

\* A command starts; it and those under way are no longer alone.
Enter(p, c) ==
    ops' = [q \in Operators |->
              IF q = p THEN [c EXCEPT !.alone = \A r \in Operators \ {p} : ~Running(ops[r])]
              ELSE [ops[q] EXCEPT !.alone = FALSE]]

\* policy init.  The threshold is not compared with the number of maintainers.
InitPolicy(p, maintainers, issuer, threshold, out) ==
    /\ ~Running(ops[p])
    /\ inits < MaxInits
    /\ inits' = inits + 1
    /\ Enter(p, [Waiting EXCEPT !.pc = "out", !.out = out,
                    !.made = Root(NewRoot(inits + 1, maintainers, issuer, threshold), {})])
    /\ UNCHANGED <<rootTag, outFile, rootLog, signs, outages>>

\* policy sign, with a certificate for who.
SignPolicy(p, who, issuer, out) ==
    /\ ~Running(ops[p])
    /\ signs < MaxSigns
    /\ signs' = signs + 1
    /\ Enter(p, [Waiting EXCEPT !.pc = "read", !.cmd = "sign", !.out = out,
                                !.who = FulcioKey(who, issuer)])
    /\ UNCHANGED <<rootTag, outFile, rootLog, inits, outages>>

\* The digest of the tag, then sget of the digest; signs it, and looks for a key
\* that the certificate matches.
ReadAndSign(p) ==
    LET c == ops[p] IN
    /\ c.pc = "read"
    /\ \/ /\ rootTag \notin {NoRoot, Empty}
          /\ \E k \in ValidKey(rootTag.body, c.who) :
               Is(p, [c EXCEPT !.pc = IF Experimental THEN "log" ELSE "out", !.read = rootTag,
                        !.made = AddOrUpdateSignature(rootTag, k,
                                    [key |-> k, by |-> c.who, over |-> rootTag.body])])
          /\ UNCHANGED outages
       \/ /\ IF rootTag \in {NoRoot, Empty} THEN TRUE ELSE ValidKey(rootTag.body, c.who) = {}
          /\ Is(p, Over(c, "refused"))
          /\ UNCHANGED outages
       \/ Outage /\ Is(p, Over(c, "failed"))
    /\ UNCHANGED <<rootTag, outFile, rootLog, inits, signs>>

\* TLogUpload; its answer may be lost.
LogUpload(p) ==
    LET c == ops[p] IN
    /\ c.pc = "log"
    /\ \/ /\ rootLog' = rootLog \cup {[body |-> c.made.body, by |-> c.who]}
          /\ \/ Is(p, [c EXCEPT !.pc = "out"]) /\ UNCHANGED outages
             \/ Outage /\ Is(p, Over(c, "failed"))
       \/ Outage /\ Is(p, Over(c, "failed")) /\ UNCHANGED rootLog
    /\ UNCHANGED <<rootTag, outFile, inits, signs>>

\* With --out the root is written there.  Without, a temporary file is created,
\* which stays empty.
WriteOut(p) ==
    LET c == ops[p] IN
    /\ c.pc = "out"
    /\ \/ /\ outFile' = IF c.out = "" THEN outFile ELSE [outFile EXCEPT ![c.out] = c.made]
          /\ Is(p, [c EXCEPT !.pc = "push"])
          /\ UNCHANGED outages
       \/ Outage /\ Is(p, Over(c, "failed")) /\ UNCHANGED outFile
    /\ UNCHANGED <<rootTag, rootLog, inits, signs>>

\* BlobCmd reads the file and uploads what it holds by then.
Push(p) ==
    LET c == ops[p]  content == IF c.out = "" THEN Empty ELSE outFile[c.out] IN
    /\ c.pc = "push"
    /\ \/ rootTag' = content /\ Is(p, Over(c, "ok")) /\ UNCHANGED outages
       \/ Outage /\ Is(p, Over(c, "failed")) /\ UNCHANGED rootTag
    /\ UNCHANGED <<outFile, rootLog, inits, signs>>

RootInit ==
    /\ rootTag = NoRoot
    /\ outFile = [f \in OutFiles |-> NoRoot]
    /\ rootLog = {}
    /\ ops = [p \in Operators |-> Waiting]
    /\ inits = 0 /\ signs = 0 /\ outages = 0

RootNext ==
    \E p \in Operators :
        \/ \E ms \in (SUBSET People) \ {{}}, issuer \in Issuers \cup {""}, n \in Thresholds,
              out \in OutFiles : InitPolicy(p, ms, issuer, n, out)
        \/ \E who \in People, issuer \in Issuers, out \in OutFiles : SignPolicy(p, who, issuer, out)
        \/ ReadAndSign(p) \/ LogUpload(p) \/ WriteOut(p) \/ Push(p)

RootSpec == RootInit /\ [][RootNext]_rootVars

\* ---------------------------------------------------------------- properties
\* Whatever commands overlap, fail or use the same --out file, the root that is
\* published has at most one signature for each of its keys, each of them made
\* over this very root by an identity that its key names, with the issuer that
\* the key asks for, and (in experimental mode) entered in the log before the
\* root was published with it.
SignaturesAreOfMaintainers ==
    rootTag \notin {NoRoot, Empty} =>
        \A s \in rootTag.sigs :
            /\ s.key \in rootTag.body.keys
            /\ s.over = rootTag.body
            /\ s.by.identity = s.key.identity /\ s.key.issuer \in {"", s.by.issuer}
            /\ \A t \in rootTag.sigs : t.key = s.key => t = s
            /\ Experimental => [body |-> rootTag.body, by |-> s.by] \in rootLog

\* policy sign with --out that reports success, no other command of the
\* namespace having overlapped, adds its signature and takes none away: the
\* root that it read is published again with the same signed part and the
\* signatures of every other key.  Signers that overlap lose signatures.
SigningAdds ==
    \A p \in Operators :
        LET c == ops[p] IN
        c.pc = "ok" /\ c.alone /\ c.cmd = "sign" /\ c.out # "" =>
            /\ rootTag # Empty
            /\ rootTag.body = c.read.body
            /\ \E s \in rootTag.sigs : s.by = c.who
            /\ \A s \in c.read.sigs : \E t \in rootTag.sigs : t.key = s.key

\* "Push updated root.json to the registry": what a command that succeeds, alone,
\* has published is the root that it made.
MadeIsPushed == \A p \in Operators : ops[p].pc = "ok" /\ ops[p].alone => rootTag = ops[p].made
=============================================================================
