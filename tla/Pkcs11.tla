------------------------------ MODULE Pkcs11 -------------------------------
(***************************************************************************)
(* Keys in PKCS#11 modules: the URIs that cosign pkcs11-tool prints and    *)
(* every --key accepts (pkg/cosign/pkcs11key/util.go), the calls that list *)
(* tokens and keys (cmd/cosign/cli/pkcs11cli) and the call that opens a    *)
(* key (GetKeyWithURIConfig).  A module can be initialized once at a time  *)
(* in a process.                                                           *)
(*                                                                         *)
(* A string is a sequence of characters, of which only those that the      *)
(* encoding tells apart are used; "%x" is the escape of x.                 *)
(***************************************************************************)
EXTENDS Naturals, Sequences, FiniteSets

CONSTANTS
    Nothing,
    Hsms,          \* the tokens that a behaviour may find, see hsm
    ModulePaths,   \* strings given as the path of the module
    PinsGiven,     \* strings given as PIN; << >> is none
    EnvPin,        \* COSIGN_PKCS11_PIN
    MaxCalls, MaxErrors

VARIABLES
    hsm,           \* [slot, label, pin, login, objects]; objects is a sequence
    held,          \* what the process holds: "module", "session", "login"
    call,          \* the call in progress
    opened,        \* the Key of GetKeyWithURIConfig, until its caller closes it
    listed,        \* the URIs printed so far, with the object each was printed for
    leaked, calls, errors

tokVars == <<hsm, held, call, opened, listed, leaked, calls, errors>>

Alphabet == {"a", "b", "1", "/", "+", "&", ";", "%", " "}
PathChars == {"a", "b", "1", "+", "&"}
QueryChars == {"a", "b", "1", "+", "/"}

\* ----------------------------------------------------------------------- URIs
percentEncode(s) == [i \in DOMAIN s |-> "%" \o s[i]]
EncodeURIComponent(s, allowed) ==
    [i \in DOMAIN s |-> IF s[i] \in allowed THEN s[i] ELSE "%" \o s[i]]

\* url.QueryUnescape, of one character or escape.
Unescape(c) ==
    IF c = "+" THEN " "
    ELSE IF \E x \in Alphabet : c = "%" \o x THEN CHOOSE x \in Alphabet : c = "%" \o x ELSE c

\* Path and query, between which stands the first "?": neither holds one.
Construct(c) ==
    [path  |-> (IF c.token # << >> THEN <<"token", "=">> \o EncodeURIComponent(c.token, PathChars)
                ELSE << >>)
               \o (IF c.slot # << >> THEN <<";", "slot-id", "=">> \o c.slot ELSE << >>)
               \o (IF c.id # << >> THEN <<";", "id", "=">> \o percentEncode(c.id) ELSE << >>)
               \o (IF c.label # << >>
                   THEN <<";", "object", "=">> \o EncodeURIComponent(c.label, PathChars)
                   ELSE << >>),
     query |-> <<"module-path", "=">> \o EncodeURIComponent(c.module, QueryChars)
               \o (IF c.pin # << >>
                   THEN <<"&", "pin-value", "=">> \o EncodeURIComponent(c.pin, QueryChars)
                   ELSE << >>)]

Separators == {"&", ";"}

\* url.ParseQuery(...).Get(name): the value of the first attribute of that name.
Attribute(s, name) ==
    LET starts == {i \in DOMAIN s : s[i] = name /\ (i = 1 \/ s[i - 1] \in Separators)}
    IN  IF starts = {} THEN << >>
        ELSE LET from == (CHOOSE i \in starts : \A j \in starts : i <= j) + 2
                 ends == {j \in from .. Len(s) : s[j] \in Separators} \cup {Len(s) + 1}
                 upto == CHOOSE j \in ends : \A k \in ends : j <= k
             IN  [i \in 1 .. (upto - from) |-> Unescape(s[from + i - 1])]

\* Nothing when the URI is refused (COSIGN_PKCS11_MODULE_PATH is not set).
Parse(u) ==
    LET c == [token |-> Attribute(u.path, "token"), slot |-> Attribute(u.path, "slot-id"),
              id |-> Attribute(u.path, "id"), label |-> Attribute(u.path, "object"),
              module |-> Attribute(u.query, "module-path"),
              pin |-> Attribute(u.query, "pin-value")]
    IN  IF \/ c.token = << >> /\ c.slot = << >>
           \/ c.module = << >>
           \/ c.label = << >> /\ c.id = << >>
        THEN Nothing ELSE c

\* Mutant: the label of the token comes before the number of its slot.
SlotByLabel(c) ==
    IF c.token # << >> THEN c.token = hsm.label ELSE c.slot = hsm.slot

\* "SlotID has priority over tokenLabel."
SlotFound(c) == IF c.slot # << >> THEN c.slot = hsm.slot ELSE c.token = hsm.label

\* "If both keyID and keyLabel are set, keyID has priority."
Named(c, o) == IF c.id # << >> THEN o.id = c.id ELSE o.label = c.label

\* The first key pair of that name, Nothing if there is none: then the signer of
\* the Key is nil, and no error is reported.
FindKeyPair(c) ==
    LET matches == {i \in DOMAIN hsm.objects : Named(c, hsm.objects[i]) /\ hsm.objects[i].pair}
    IN  IF matches = {} THEN Nothing
        ELSE hsm.objects[CHOOSE i \in matches : \A j \in matches : i <= j]

\* ---------------------------------------------------------------------- calls
NoCall == [fn |-> "none", at |-> "idle", conf |-> Nothing, pin |-> << >>, key |-> Nothing]
At(fn, step) == call.fn \in fn /\ call.at = step
Step(step) == call' = [call EXCEPT !.at = step]

\* The deferred calls: Logout, CloseSession, Finalize, Destroy, as far as they
\* were registered.
Release == call' = NoCall /\ held' = {}

\* An error of the module, the token or the terminal.
Error == errors < MaxErrors /\ errors' = errors + 1

\* pkcs11.New has loaded a module of that path.
Begin(c) ==
    /\ call.at = "idle"
    /\ calls < MaxCalls
    /\ calls' = calls + 1
    /\ call' = c
    /\ UNCHANGED <<hsm, held, opened, listed, leaked, errors>>

GetTokens == Begin([NoCall EXCEPT !.fn = "tokens", !.at = "initialize"])

GetKeysInfo(module, pin) ==
    Begin([NoCall EXCEPT !.fn = "keys", !.at = "initialize", !.pin = pin,
              !.conf = [token |-> hsm.label, slot |-> hsm.slot, id |-> << >>, label |-> << >>,
                        module |-> module, pin |-> pin]])

\* A URI that was printed is used, or one that leaves the PIN or the slot out.
\* Only a PIN that is not known is asked for.
GetKeyWithURIConfig(u, withPin, withSlot) ==
    /\ opened = Nothing
    /\ Parse(u) # Nothing
    /\ LET c == [Parse(u) EXCEPT !.pin = IF withPin THEN @ ELSE << >>,
                                 !.slot = IF withSlot THEN @ ELSE << >>]
           pin == IF c.pin # << >> THEN c.pin ELSE EnvPin
       IN  /\ c.token # << >> \/ c.slot # << >>
           /\ c.module \in ModulePaths
           /\ Begin([NoCall EXCEPT !.fn = "open", !.conf = c, !.pin = pin,
                        !.at = IF pin = << >> THEN "initialize" ELSE "configure"])

\* A module that is initialized already refuses.
Initialize ==
    /\ call.at = "initialize"
    /\ \/ /\ "module" \notin held
          /\ held' = held \cup {"module"}
          /\ Step("query")
          /\ UNCHANGED errors
       \/ /\ "module" \in held \/ errors < MaxErrors
          /\ errors' = IF "module" \in held THEN errors ELSE errors + 1
          /\ call' = NoCall
          /\ held' = held
    /\ UNCHANGED <<hsm, opened, listed, leaked, calls>>

\* GetTokens skips a token that gives no information and is done.
Query ==
    /\ At({"tokens"}, "query")
    /\ Release
    /\ errors' \in {errors} \cup {e \in {errors + 1} : errors < MaxErrors}
    /\ UNCHANGED <<hsm, opened, listed, leaked, calls>>

\* GetKeysInfo: the PIN given, that of the environment, or the one asked for.
GetTokenInfo ==
    /\ At({"keys"}, "query")
    /\ \/ \E typed \in {hsm.pin, <<"b">>} :
            /\ call' = [call EXCEPT !.at = "session",
                           !.pin = IF @ # << >> THEN @ ELSE IF EnvPin # << >> THEN EnvPin
                                   ELSE IF hsm.login THEN typed ELSE @]
            /\ held' = held /\ UNCHANGED errors
       \/ Error /\ Release
    /\ UNCHANGED <<hsm, opened, listed, leaked, calls>>

OpenSession ==
    /\ At({"keys"}, "session")
    /\ \/ held' = held \cup {"session"} /\ Step("login") /\ UNCHANGED errors
       \/ Error /\ Release
    /\ UNCHANGED <<hsm, opened, listed, leaked, calls>>

\* Login is called whether or not the token requires it.
Login ==
    /\ At({"keys"}, "login")
    /\ IF call.pin = hsm.pin
       THEN held' = held \cup {"login"} /\ Step("find") ELSE Release
    /\ UNCHANGED <<hsm, opened, listed, leaked, calls, errors>>

\* The private keys that have an id or a label, each with its URI.
FindObjects ==
    /\ At({"keys"}, "find")
    /\ \/ /\ listed' = listed \cup
                {[object |-> o, conf |-> [call.conf EXCEPT !.id = o.id, !.label = o.label,
                                                           !.pin = call.pin]] :
                 o \in {hsm.objects[i] : i \in {j \in DOMAIN hsm.objects :
                            hsm.objects[j].id # << >> \/ hsm.objects[j].label # << >>}}}
          /\ UNCHANGED errors
       \/ Error /\ UNCHANGED listed
    /\ Release
    /\ UNCHANGED <<hsm, opened, leaked, calls>>

\* Mutant: the module stays initialized while the key is opened.
PinAskedHolding ==
    /\ At({"open"}, "query")
    /\ \/ /\ SlotFound(call.conf)
          /\ \E typed \in {hsm.pin, <<"b">>} :
                call' = [call EXCEPT !.at = "configure", !.pin = IF hsm.login THEN typed ELSE @]
          /\ held' = held /\ UNCHANGED errors
       \/ Error /\ Release
    /\ UNCHANGED <<hsm, opened, listed, leaked, calls>>

\* askForPinIfNeededFunc: the token is looked up, the PIN read if it requires
\* one, and the module finalized again.
AskForPin ==
    /\ At({"open"}, "query")
    /\ \/ /\ SlotFound(call.conf)
          /\ \E typed \in {hsm.pin, <<"b">>} :
                call' = [call EXCEPT !.at = "configure", !.pin = IF hsm.login THEN typed ELSE @]
          /\ held' = {} /\ UNCHANGED errors
       \/ ~SlotFound(call.conf) /\ Release /\ UNCHANGED errors
       \/ Error /\ Release
    /\ UNCHANGED <<hsm, opened, listed, leaked, calls>>

\* crypto11.Configure: initializes, opens a session and logs in, or none of it.
Configure ==
    /\ At({"open"}, "configure")
    /\ IF "module" \notin held /\ SlotFound(call.conf) /\ call.pin = hsm.pin
       THEN held' = {"module", "session", "login"} /\ Step("lookup")
       ELSE call' = NoCall /\ held' = held
    /\ UNCHANGED <<hsm, opened, listed, leaked, calls, errors>>

\* The Key, with a nil signer when there is no such pair.  An error of the
\* lookup is returned without the context being closed.
Lookup ==
    /\ At({"open"}, "lookup")
    /\ \/ /\ opened' = [conf |-> call.conf, signer |-> FindKeyPair(call.conf)]
          /\ UNCHANGED <<leaked, errors>>
       \/ Error /\ leaked' = TRUE /\ UNCHANGED opened
    /\ call' = NoCall
    /\ UNCHANGED <<hsm, held, listed, calls>>

\* Key.Close, by whoever has the Key.
CloseKey ==
    /\ call.at = "idle"
    /\ opened # Nothing
    /\ opened' = Nothing /\ held' = {}
    /\ UNCHANGED <<hsm, call, listed, leaked, calls, errors>>

TokInit ==
    /\ hsm \in Hsms
    /\ held = {} /\ call = NoCall /\ opened = Nothing /\ listed = {}
    /\ leaked = FALSE /\ calls = 0 /\ errors = 0

TokNext ==
    \/ GetTokens
    \/ \E m \in ModulePaths, pin \in PinsGiven : GetKeysInfo(m, pin)
    \/ \E l \in listed, withPin, withSlot \in BOOLEAN :
         GetKeyWithURIConfig(Construct(l.conf), withPin, withSlot)
    \/ Initialize \/ Query \/ GetTokenInfo \/ OpenSession \/ Login \/ FindObjects
    \/ AskForPin \/ Configure \/ Lookup \/ CloseKey

\* ---------------------------------------------------------------- properties
\* Every call finalizes what it initialized, on every path, before it returns:
\* between calls the process holds the module only for a Key that it has not
\* closed, or after a lookup that failed, whose context GetKeyWithURIConfig
\* drops (no later call of the process can then initialize the module).
ModuleFreed == call.at = "idle" /\ opened = Nothing /\ ~leaked => held = {}

Contains(s, cs) == \E i \in DOMAIN s : s[i] \in cs

\* The URI that list-keys-uris prints opens the key it was printed for: it is
\* accepted, and finds the token and the first pair of the same id (or, without
\* an id, of the same label) with the PIN that was used.  The exceptions are
\* what Construct leaves unescaped and Parse reads differently: "+" in a
\* module path, a PIN or a label that counts, and "&" in such a label.
ListedUriOpens ==
    \A l \in listed :
        ~(\/ Contains(l.conf.module, {"+"}) \/ Contains(l.conf.pin, {"+"})
          \/ l.conf.id = << >> /\ Contains(l.conf.label, {"+", "&"})) =>
            LET c == Parse(Construct(l.conf)) IN
            /\ c # Nothing
            /\ SlotFound(c)
            /\ c.module = l.conf.module /\ c.pin = l.conf.pin
            /\ l.object.pair =>
                  LET o == FindKeyPair(c)
                  IN  IF l.object.id # << >> THEN o.id = l.object.id
                      ELSE o.label = l.object.label
=============================================================================
