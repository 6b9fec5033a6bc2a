------------------------------ MODULE PivTool ------------------------------
(***************************************************************************)
(* cosign piv-tool: the commands of cmd/cosign/cli/pivcli on a hardware    *)
(* token, through pkg/cosign/pivkey.  Several processes share one token,   *)
(* which piv.Open gives to one of them at a time.  A command is the        *)
(* sequence of its steps; it may be declined at each prompt, refused by    *)
(* the token, or lose the token (Unplug).                                  *)
(***************************************************************************)
EXTENDS Naturals, Sequences

CONSTANTS
    None,
    Tools,         \* processes
    Slots,         \* the slots that are used
    SlotNames,     \* what --slot is given
    Secrets,       \* values of management keys, PINs and PUKs a user may give
    Randoms,       \* management keys that randomManagementKey may draw
    PinPolicies, TouchPolicies,   \* what --pin-policy and --touch-policy are given
    MaxCommands

ASSUME NoneIsNoTool == None \notin Tools

VARIABLES
    token,         \* [mgmt, pin, puk, slots]
    holder,        \* the process that has the token open, None if there is none
    tools,         \* [Tools -> command]
    commands

pivVars == <<token, holder, tools, commands>>

\* The device as it leaves the factory; every secret has a default.
Default == "default"
Factory == [mgmt |-> Default, pin |-> Default, puk |-> Default,
            slots |-> [s \in Slots |-> None]]

Commands == {"set-management-key", "set-pin", "set-puk", "unblock", "reset",
             "attestation", "generate-key"}

Idle == [pc |-> "idle", cmd |-> "reset", args |-> None, todo |-> << >>, no |-> 0,
         said |-> {}, mgmt |-> None, made |-> None, opened |-> None,
         disturbed |-> FALSE]

\* ---------------------------------------------------------------- flag values
SlotForName(name) == IF name = "" THEN "signature" ELSE IF name \in Slots THEN name ELSE None

defaultPINPolicyForSlot(s) ==
    CASE s = "signature" -> "always" [] s = "card-authentication" -> "never" [] OTHER -> "once"
defaultTouchPolicyForSlot(s) ==
    CASE s = "signature" -> "always" [] s = "card-authentication" -> "never" [] OTHER -> "cached"

PINPolicyForName(name, s) ==
    IF name = "" THEN defaultPINPolicyForSlot(s)
    ELSE IF name \in {"never", "once", "always"} THEN name ELSE None

TouchPolicyForName(name, s) ==
    IF name = "" THEN defaultTouchPolicyForSlot(s)
    ELSE IF name \in {"never", "cached", "always"} THEN name ELSE None

\* The policies of the key that generate-key asks for.  Both come from
\* --pin-policy: --touch-policy is not looked at.
KeyPolicies(a) ==
    LET s == SlotForName(a.slot)
    IN  [pin |-> PINPolicyForName(a.pin, s), touch |-> TouchPolicyForName(a.pin, s)]

\* The checks of generate-key that come before the token is opened.
Refused(cmd, a) ==
    /\ cmd = "generate-key"
    /\ SlotForName(a.slot) = None \/ None \in {KeyPolicies(a).pin, KeyPolicies(a).touch}

\* ---------------------------------------------------------------------- steps
\* Mutant: the token is not closed before it is opened again.
StepsHeld(cmd, random) ==
    CASE cmd = "generate-key" ->
            (IF random THEN <<"confirm-random", "set-mgmt">> ELSE << >>)
                \o <<"confirm", "generate", "open", "attest">>
      [] cmd = "set-management-key" ->
            (IF random THEN <<"confirm-random">> ELSE << >>) \o <<"confirm", "set-mgmt">>
      [] cmd = "attestation" -> <<"attest">>
      [] OTHER -> <<"confirm", "set">>

\* Mutant: the random management key is set before anybody was asked.
StepsUnasked(cmd, random) ==
    CASE cmd = "generate-key" ->
            (IF random THEN <<"set-mgmt", "confirm-random">> ELSE << >>)
                \o <<"confirm", "generate", "close", "open", "attest">>
      [] cmd = "set-management-key" ->
            (IF random THEN <<"confirm-random">> ELSE << >>) \o <<"confirm", "set-mgmt">>
      [] cmd = "attestation" -> <<"attest">>
      [] OTHER -> <<"confirm", "set">>

\* What a command does once it has the token open.
Steps(cmd, random) ==
    CASE cmd = "generate-key" ->
            (IF random THEN <<"confirm-random", "set-mgmt">> ELSE << >>)
                \o <<"confirm", "generate", "close", "open", "attest">>
      [] cmd = "set-management-key" ->
            (IF random THEN <<"confirm-random">> ELSE << >>) \o <<"confirm", "set-mgmt">>
      [] cmd = "attestation" -> <<"attest">>
      [] OTHER -> <<"confirm", "set">>

Doing(p, step) == tools[p].pc = "running" /\ tools[p].todo # << >> /\ Head(tools[p].todo) = step
Proceed(c) == [c EXCEPT !.todo = Tail(@)]

Ended(how) == [Idle EXCEPT !.pc = how]

\* Mutant: only a command that succeeds closes the token.
ReturnHolding(p, how) ==
    /\ tools' = [tools EXCEPT ![p] = Ended(how)]
    /\ holder' = IF holder = p /\ how = "ok" THEN None ELSE holder

\* A return, whatever its cause: the deferred Close gives up the token.
Return(p, how) ==
    /\ tools' = [tools EXCEPT ![p] = Ended(how)]
    /\ holder' = IF holder = p THEN None ELSE holder

\* GetKey: there has to be exactly one token, and nobody else may have it.
Opens(p, c) ==
    IF holder = None
    THEN \E plugged \in BOOLEAN :
           /\ holder' = IF plugged THEN p ELSE None
           /\ tools' = [tools EXCEPT ![p] = IF plugged THEN [c EXCEPT !.opened = token]
                                            ELSE Ended("unplugged")]
    ELSE Return(p, "busy")

\* Empty strings on the command line stand for the factory values.
Args == [old : Secrets \cup {Default}, new : Secrets \cup {Default}, random : BOOLEAN,
         slot : SlotNames, pin : PinPolicies, touch : TouchPolicies]

\* Only the arguments that the command has are chosen freely.
Given(cmd, a) ==
    /\ cmd \in {"set-management-key", "generate-key"} \/ ~a.random
    /\ cmd \in {"attestation", "generate-key"} \/ a.slot = ""
    /\ cmd = "generate-key" \/ (a.pin = "" /\ a.touch = "")
    /\ cmd \notin {"attestation", "reset"} \/ a.old = Default
    /\ cmd \notin {"attestation", "reset", "generate-key"} \/ a.new = Default

Run(p, cmd, a) ==
    /\ tools[p].pc # "running"
    /\ commands < MaxCommands
    /\ commands' = commands + 1
    /\ LET c == [Idle EXCEPT !.pc = "running", !.cmd = cmd, !.args = a,
                             !.no = commands + 1, !.todo = Steps(cmd, a.random)]
       IN  IF Refused(cmd, a)
           THEN /\ tools' = [tools EXCEPT ![p] = Ended("help")]
                /\ holder' = holder
           ELSE Opens(p, c)
    /\ UNCHANGED token

\* A prompt: every answer but y ends the command, which reports success.
Confirm(p) ==
    /\ Doing(p, "confirm") \/ Doing(p, "confirm-random")
    /\ \/ /\ tools' = [tools EXCEPT ![p] =
                          [Proceed(tools[p]) EXCEPT !.said = @ \cup {Head(tools[p].todo)}]]
          /\ holder' = holder
       \/ Return(p, "declined")
    /\ UNCHANGED <<token, commands>>

\* The management key that a command presents to the token.
ManagementKey(c) == IF c.mgmt # None THEN c.mgmt ELSE c.args.old

\* Commands whose key is on the token notice when that is no longer so.
After(p, c, wiped) ==
    [q \in Tools |-> IF q = p THEN c
                    ELSE [tools[q] EXCEPT !.disturbed = @ \/ (wiped /\ tools[q].made # None)]]

SetManagementKey(p) ==
    /\ Doing(p, "set-mgmt")
    /\ LET c == tools[p] IN
       IF c.args.old # token.mgmt
       THEN Return(p, "refused") /\ UNCHANGED token
       ELSE \E key \in IF c.args.random THEN Randoms ELSE {c.args.new} :
              /\ token' = [token EXCEPT !.mgmt = key]
              /\ tools' = [tools EXCEPT ![p] = [Proceed(c) EXCEPT !.mgmt = key]]
              /\ holder' = holder
    /\ UNCHANGED commands

\* set-pin, set-puk, unblock and reset; each is the last step of its command.
SetSecret(p) ==
    /\ Doing(p, "set")
    /\ LET c == tools[p]
           right == CASE c.cmd = "set-pin" -> c.args.old = token.pin
                      [] c.cmd \in {"set-puk", "unblock"} -> c.args.old = token.puk
                      [] c.cmd = "reset" -> TRUE
       IN  IF right
           THEN /\ token' = CASE c.cmd \in {"set-pin", "unblock"} ->
                                    [token EXCEPT !.pin = c.args.new]
                              [] c.cmd = "set-puk" -> [token EXCEPT !.puk = c.args.new]
                              [] c.cmd = "reset" -> Factory
                /\ tools' = After(p, Proceed(c), c.cmd = "reset")
                /\ holder' = holder
           ELSE Return(p, "refused") /\ UNCHANGED token
    /\ UNCHANGED commands

\* The key in a slot is known by the command that generated it.
GenerateKey(p) ==
    /\ Doing(p, "generate")
    /\ LET c == tools[p] IN
       IF ManagementKey(c) # token.mgmt
       THEN Return(p, "refused") /\ UNCHANGED token
       ELSE LET s == SlotForName(c.args.slot)
                key == [by |-> c.no, pin |-> KeyPolicies(c.args).pin,
                        touch |-> KeyPolicies(c.args).touch]
            IN  /\ token' = [token EXCEPT !.slots[s] = key]
                /\ tools' = After(p, [Proceed(c) EXCEPT !.made = key], TRUE)
                /\ holder' = holder
    /\ UNCHANGED commands

\* generate-key closes the token itself, for AttestationCmd to open it again.
Close(p) ==
    /\ Doing(p, "close")
    /\ tools' = [tools EXCEPT ![p] = Proceed(@)]
    /\ holder' = IF holder = p THEN None ELSE holder
    /\ UNCHANGED <<token, commands>>

Reopen(p) ==
    /\ Doing(p, "open")
    /\ Opens(p, Proceed(tools[p]))
    /\ UNCHANGED <<token, commands>>

\* AttestationCmd.  A slot name that is unknown is a nil slot, which Attest
\* dereferences; the deferred Close still runs.  generate-key closes once more
\* than it opens.
Attest(p) ==
    /\ Doing(p, "attest")
    /\ LET s == SlotForName(tools[p].args.slot) IN
       IF s = None THEN Return(p, "panic")
       ELSE IF token.slots[s] = None THEN Return(p, "refused")
       ELSE Return(p, "ok")
    /\ UNCHANGED <<token, commands>>

\* The last step is done.
Finish(p) ==
    /\ tools[p].pc = "running" /\ tools[p].todo = << >>
    /\ Return(p, "ok")
    /\ UNCHANGED <<token, commands>>

\* The token is pulled out: the call that needs it fails.
Unplug(p) ==
    /\ tools[p].pc = "running" /\ holder = p
    /\ Return(p, "unplugged")
    /\ UNCHANGED <<token, commands>>

PivInit ==
    /\ token = Factory
    /\ holder = None
    /\ tools = [p \in Tools |-> Idle]
    /\ commands = 0

PivStep(p) ==
    \/ \E cmd \in Commands, a \in Args : Given(cmd, a) /\ Run(p, cmd, a)
    \/ Confirm(p) \/ SetManagementKey(p) \/ SetSecret(p) \/ GenerateKey(p)
    \/ Close(p) \/ Reopen(p) \/ Attest(p) \/ Finish(p) \/ Unplug(p)

PivNext == \E p \in Tools : PivStep(p)

PivSpec == PivInit /\ [][PivNext]_pivVars

\* ---------------------------------------------------------------- properties
\* Every way out of a command, panics and refusals included, runs the deferred
\* Close: a process that is done does not keep the token from the others.
TokenReleased == \A p \in Tools : tools[p].pc # "running" => holder # p

\* generate-key gives the token up before AttestationCmd opens it again: it
\* never waits for itself, and the attestation that it prints is that of the
\* key it has just printed, unless another process generated a key or reset the
\* token in between.
AttestsOwnKey ==
    [][\A p \in Tools :
          /\ tools[p].pc = "running" /\ tools'[p].pc = "busy" => holder # p
          /\ tools[p].made # None /\ tools'[p].pc = "ok" =>
                 \/ token.slots[SlotForName(tools[p].args.slot)] = tools[p].made
                 \/ tools[p].disturbed]_pivVars

\* Whoever declines a prompt finds the token as it was when the command opened
\* it, but for a random management key agreed to before (which generate-key has
\* set by the time it asks whether to generate, and which nobody is shown).
DeclinedLeavesAlone ==
    [][\A p \in Tools :
          LET c == tools[p] IN
          c.pc = "running" /\ tools'[p].pc = "declined" =>
              token = [c.opened EXCEPT
                          !.mgmt = IF "confirm-random" \in c.said THEN token.mgmt ELSE @]]_pivVars
=============================================================================
