----------------------------- MODULE KeyStores -----------------------------
(***************************************************************************)
(* cosign generate-key-pair and import-key-pair, and the places where they *)
(* leave keys: files of the working directory, a Kubernetes Secret, the    *)
(* variables of a GitLab project, the secrets of a GitHub repository and a *)
(* KMS.  What a key reference then yields is modelled by the operators     *)
(* SignerVerifierFromKeyRef and PublicKeyFromKeyRef of pkg/signature.      *)
(*                                                                         *)
(* A key pair is a number.  Its private half is kept encrypted, as         *)
(* [pair, pass]; the public half is the number itself.  Commands interleave*)
(* call by call.  A call fails, or takes effect while its answer is lost   *)
(* (a command that dies between two calls is one whose call failed).       *)
(***************************************************************************)
EXTENDS Naturals, Sequences, FiniteSets

CONSTANTS
    Nil,
    Makers,       \* processes that run the commands
    Passwords,
    MaxPairs,     \* commands that are started
    MaxFaults     \* calls that fail or whose answer is lost

\* Nil is neither a key, a password nor a Secret.
ASSUME NilIsNothing ==
    /\ Nil \notin Nat /\ Nil \notin Passwords
    /\ Nil \notin [pair : Nat, pass : Passwords]
    /\ Nil \notin [private : [pair : Nat, pass : Passwords], public : Nat,
                   password : Passwords, immutable : BOOLEAN]

VARIABLES
    files,        \* [name -> content]; Nil when there is none
    secret,       \* the Secret of k8s://<namespace>/<name>
    gitlab, github,
    kms,          \* the key of --kms
    cmds,         \* [Makers -> command]
    pairs, faults

storeVars == <<files, secret, gitlab, github, kms, cmds, pairs, faults>>
stores == <<files, secret, gitlab, github, kms>>

FileNames == {"cosign.key", "cosign.pub", "import-cosign.key", "import-cosign.pub"}
Variables == {"password", "private", "public"}
Targets == {"file", "import", "k8s", "gitlab", "github", "kms"}

\* What a write that was cut short leaves behind.
Torn == [pair |-> 0, pass |-> "torn"]

NoCommand == [pc |-> "idle", to |-> "file", pass |-> Nil, pair |-> 0, todo |-> << >>,
              found |-> FALSE, alone |-> TRUE]

\* marshalKeyPair: the private key under the password that was given.
PrivateBytes(c) == [pair |-> c.pair, pass |-> c.pass]

ValueOf(c, v) ==
    CASE v = "password" -> c.pass [] v = "private" -> PrivateBytes(c) [] v = "public" -> c.pair

\* ------------------------------------------------------------ key references
\* The pair whose private key this is, Nil when it cannot be decrypted.
LoadPrivateKey(key, pass) ==
    IF key = Nil THEN Nil ELSE IF key # Torn /\ key.pass = pass THEN key.pair ELSE Nil

KeyFile(to) == IF to = "import" THEN "import-cosign.key" ELSE "cosign.key"
PubFile(to) == IF to = "import" THEN "import-cosign.pub" ELSE "cosign.pub"

\* The password of a file is asked for; the other stores keep it.
SignerVerifierFromKeyRef(to, pass) ==
    CASE to \in {"file", "import"} -> LoadPrivateKey(files[KeyFile(to)], pass)
      [] to = "k8s" -> IF secret = Nil THEN Nil
                       ELSE LoadPrivateKey(secret.private, secret.password)
      [] to = "gitlab" -> LoadPrivateKey(gitlab.private, gitlab.password)
      [] to = "github" -> Nil
      [] to = "kms" -> kms

\* github:// is no reference for a public key either: cosign.pub is used.
PublicKeyFromKeyRef(to) ==
    CASE to \in {"file", "import", "github"} ->
            IF files[PubFile(to)] = Nil THEN Nil ELSE files[PubFile(to)].pair
      [] to = "k8s" -> IF secret = Nil THEN Nil ELSE secret.public
      [] to = "gitlab" -> gitlab.public
      [] to = "kms" -> kms

\* In a GitHub workflow the secrets arrive as environment variables.
WorkflowKey == LoadPrivateKey(github.private, github.password)

\* -------------------------------------------------------------------- commands
Goto(p, c) == cmds' = [cmds EXCEPT ![p] = c]

\* Only of a command that succeeded is it remembered what it did.
End(c, how) == IF how = "ok" THEN [c EXCEPT !.pc = "ok"] ELSE NoCommand

\* How a call goes: as it should, without effect, or with an answer that is lost.
Outcome(out) ==
    /\ out # "ok" => faults < MaxFaults
    /\ faults' = IF out = "ok" THEN faults ELSE faults + 1
Outcomes == {"ok", "fail", "lost"}

FirstStep(to) ==
    CASE to \in {"file", "import"} -> "exists" [] to = "k8s" -> "get"
      [] to \in {"gitlab", "github"} -> "put" [] to = "kms" -> "create"

\* GenerateKeyPair, or ImportKeyPair of a key of a supported type, once the
\* password has been read.  An unusable reference, an unsupported key and two
\* passwords that differ end the command before anything is written.
Start(p, to, pass) ==
    /\ cmds[p].pc = "idle"
    /\ pairs < MaxPairs
    /\ pairs' = pairs + 1
    /\ LET c == [NoCommand EXCEPT
                    !.to = to, !.pass = pass, !.pair = pairs + 1, !.pc = FirstStep(to),
                    !.todo = IF to \in {"gitlab", "github"}
                             THEN <<"password", "private", "public">> ELSE << >>,
                    !.alone = \A q \in Makers : cmds[q].pc = "idle"]
       IN  \E accepted \in BOOLEAN :
             cmds' = [q \in Makers |->
                        IF q = p THEN IF accepted THEN c ELSE End(c, "failed")
                        ELSE [cmds[q] EXCEPT !.alone = @ /\ cmds[q].pc = "idle"]]
    /\ UNCHANGED <<stores, faults>>

\* Mutant: an existing file is not noticed.
FileIgnored(p) ==
    /\ cmds[p].pc = "exists"
    /\ Goto(p, [cmds[p] EXCEPT !.pc = "key"])
    /\ UNCHANGED <<stores, pairs, faults>>

FileExists(p) ==
    /\ cmds[p].pc = "exists"
    /\ LET found == files[KeyFile(cmds[p].to)] # Nil
       IN  Goto(p, [cmds[p] EXCEPT !.pc = IF found THEN "ask" ELSE "key", !.found = found])
    /\ UNCHANGED <<stores, pairs, faults>>

\* "Overwrite (y/n)?": no, and anything that is neither, ends in success.
Overwrite(p) ==
    /\ cmds[p].pc = "ask"
    /\ \E yes \in BOOLEAN :
         Goto(p, IF yes THEN [cmds[p] EXCEPT !.pc = "key"] ELSE End(cmds[p], "declined"))
    /\ UNCHANGED <<stores, pairs, faults>>

\* os.WriteFile truncates the file before it writes.
WriteFile(p, name, content, next) ==
    \E out \in Outcomes :
        /\ Outcome(out)
        /\ files' = [files EXCEPT ![name] = CASE out = "ok" -> content
                                              [] out = "fail" -> @ [] out = "lost" -> Torn]
        /\ Goto(p, IF out = "ok" THEN next ELSE End(cmds[p], "failed"))
        /\ UNCHANGED <<secret, gitlab, github, kms, pairs>>

WriteKey(p) ==
    /\ cmds[p].pc = "key"
    /\ WriteFile(p, KeyFile(cmds[p].to), PrivateBytes(cmds[p]), [cmds[p] EXCEPT !.pc = "pub"])

\* Every target ends here; nobody is asked about an existing public key.
WritePub(p) ==
    /\ cmds[p].pc = "pub"
    /\ WriteFile(p, PubFile(cmds[p].to), [pair |-> cmds[p].pair, pass |-> Nil],
                 End(cmds[p], "ok"))

\* KeyPairSecret: get, then create or update; only found is kept of the answer.
GetSecret(p) ==
    /\ cmds[p].pc = "get"
    /\ \E out \in {"ok", "fail"} :
         /\ Outcome(out)
         /\ Goto(p, IF out = "fail" THEN End(cmds[p], "failed")
                    ELSE [cmds[p] EXCEPT !.pc = "set", !.found = secret # Nil])
    /\ UNCHANGED <<stores, pairs>>

secretOf(c, immutable) ==
    [private |-> PrivateBytes(c), public |-> c.pair, password |-> c.pass,
     immutable |-> immutable]

\* A Secret that was created meanwhile refuses the creation, one that is
\* immutable the update, one that is gone both.
KeyPairSecret(p) ==
    /\ cmds[p].pc = "set"
    /\ \E out \in Outcomes, immutable \in BOOLEAN :
         LET allowed == IF secret = Nil THEN ~cmds[p].found
                        ELSE cmds[p].found /\ ~secret.immutable
         IN  /\ Outcome(out)
             /\ secret' = IF allowed /\ out # "fail" THEN secretOf(cmds[p], immutable)
                          ELSE secret
             /\ Goto(p, IF allowed /\ out = "ok" THEN [cmds[p] EXCEPT !.pc = "pub"]
                        ELSE End(cmds[p], "failed"))
    /\ UNCHANGED <<files, gitlab, github, kms, pairs>>

\* What a put leads to: the next one, the public key file, or failure.
AfterPut(c, ok) ==
    IF ~ok THEN End(c, "failed")
    ELSE [c EXCEPT !.todo = Tail(@), !.pc = IF Len(c.todo) = 1 THEN "pub" ELSE "put"]

\* Mutant: a variable that exists is updated.
CreateOrUpdateVariable(p) ==
    /\ cmds[p].pc = "put" /\ cmds[p].to = "gitlab"
    /\ gitlab' = [gitlab EXCEPT ![Head(cmds[p].todo)] = ValueOf(cmds[p], Head(cmds[p].todo))]
    /\ Goto(p, AfterPut(cmds[p], TRUE))
    /\ UNCHANGED <<files, secret, github, kms, pairs, faults>>

\* GitLab: CreateVariable refuses a variable that exists.
CreateVariable(p) ==
    /\ cmds[p].pc = "put" /\ cmds[p].to = "gitlab"
    /\ LET v == Head(cmds[p].todo)
       IN  \E out \in Outcomes :
             /\ Outcome(out)
             /\ gitlab' = IF gitlab[v] = Nil /\ out # "fail"
                          THEN [gitlab EXCEPT ![v] = ValueOf(cmds[p], v)] ELSE gitlab
             /\ Goto(p, AfterPut(cmds[p], gitlab[v] = Nil /\ out = "ok"))
    /\ UNCHANGED <<files, secret, github, kms, pairs>>

\* GitHub: CreateOrUpdateRepoSecret takes whatever was there before.
CreateOrUpdateRepoSecret(p) ==
    /\ cmds[p].pc = "put" /\ cmds[p].to = "github"
    /\ LET v == Head(cmds[p].todo)
       IN  \E out \in Outcomes :
             /\ Outcome(out)
             /\ github' = IF out # "fail" THEN [github EXCEPT ![v] = ValueOf(cmds[p], v)]
                          ELSE github
             /\ Goto(p, AfterPut(cmds[p], out = "ok"))
    /\ UNCHANGED <<files, secret, gitlab, kms, pairs>>

\* Mutant: the public key that is written is not that of the KMS.
OwnKeyWritten(p) ==
    /\ cmds[p].pc = "create"
    /\ kms' = IF kms = Nil THEN cmds[p].pair ELSE kms
    /\ Goto(p, [cmds[p] EXCEPT !.pc = "pub"])
    /\ UNCHANGED <<files, secret, gitlab, github, pairs, faults>>

\* A key that the KMS has already is the one that the command gets.
CreateKey(p) ==
    /\ cmds[p].pc = "create"
    /\ \E out \in Outcomes :
         /\ Outcome(out)
         /\ kms' = IF kms = Nil /\ out # "fail" THEN cmds[p].pair ELSE kms
         /\ Goto(p, IF out = "ok" THEN [cmds[p] EXCEPT !.pc = "pub", !.pair = kms']
                    ELSE End(cmds[p], "failed"))
    /\ UNCHANGED <<files, secret, gitlab, github, pairs>>

Exit(p) ==
    /\ cmds[p].pc = "ok"
    /\ Goto(p, NoCommand)
    /\ UNCHANGED <<stores, pairs, faults>>

\* The way out of a half-done GitLab project: its variables are deleted.
DeleteVariables ==
    /\ \A p \in Makers : cmds[p].pc = "idle"
    /\ \E v \in Variables : gitlab[v] # Nil
    /\ gitlab' = [v \in Variables |-> Nil]
    /\ UNCHANGED <<files, secret, github, kms, cmds, pairs, faults>>

StoresInit ==
    /\ files = [f \in FileNames |-> Nil]
    /\ secret = Nil
    /\ gitlab = [v \in Variables |-> Nil]
    /\ github = [v \in Variables |-> Nil]
    /\ kms = Nil
    /\ cmds = [p \in Makers |-> NoCommand]
    /\ pairs = 0 /\ faults = 0

StoresNext ==
    \/ \E p \in Makers :
         \/ \E to \in Targets, pass \in Passwords : Start(p, to, pass)
         \/ FileExists(p) \/ Overwrite(p) \/ WriteKey(p) \/ WritePub(p)
         \/ GetSecret(p) \/ KeyPairSecret(p)
         \/ CreateVariable(p) \/ CreateOrUpdateRepoSecret(p) \/ CreateKey(p)
         \/ Exit(p)
    \/ DeleteVariables

StoresSpec == StoresInit /\ [][StoresNext]_storeVars

\* ---------------------------------------------------------------- properties
Usable(to) ==
    /\ SignerVerifierFromKeyRef(to, Nil) # Nil
    /\ SignerVerifierFromKeyRef(to, Nil) = PublicKeyFromKeyRef(to)

\* KeyPairSecret writes one object and GitLab's variables cannot be overwritten:
\* a Secret or a set of variables that works (the private key opens with the
\* stored password and is that of the stored public key) goes on working
\* through rotations, overlapping commands, lost answers and failures, until
\* the variables are deleted.  GitHub and the files promise no such thing.
UsableStaysUsable ==
    [][\A to \in {"k8s", "gitlab"} :
          Usable(to) /\ ~(gitlab # gitlab' /\ \A v \in Variables : gitlab'[v] = Nil)
              => Usable(to)']_storeVars

\* A command that reports success and was alone on its machine leaves a working
\* pair behind: the reference it wrote yields its private key, cosign.pub (or
\* import-cosign.pub) is the public key of the same pair, and so is what the
\* reference yields for verification.
SuccessIsUsable ==
    \A p \in Makers :
        LET c == cmds[p] IN
        c.pc = "ok" /\ c.alone =>
            /\ files[PubFile(c.to)].pair = c.pair
            /\ PublicKeyFromKeyRef(c.to) = c.pair
            /\ IF c.to = "github" THEN WorkflowKey = c.pair
               ELSE SignerVerifierFromKeyRef(c.to, c.pass) = c.pair

\* A private key file that exists is replaced only by a command whose user was
\* asked, unless commands overlap: two of them may both find no file.
AskedBeforeOverwrite ==
    [][\A f \in {"cosign.key", "import-cosign.key"} :
          files[f] # Nil /\ files'[f] # files[f] =>
              \E p \in Makers : cmds[p].pc = "key" /\ (cmds[p].found \/ ~cmds[p].alone)]_storeVars
=============================================================================
