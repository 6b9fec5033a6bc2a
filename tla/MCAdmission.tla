----------------------------- MODULE MCAdmission -----------------------------
(***************************************************************************)
(* A small cluster: two repositories, one of whose names is a prefix of    *)
(* the other, a tag, two digests, two keys and a Fulcio, and one policy of *)
(* each kind that the code tells apart.                                    *)
(***************************************************************************)
EXTENDS Admission

CONSTANTS k1, k2

TheCAs == [root |-> "root", corp |-> "corp"]

App == <<"reg/", "app">>
Apps == <<"reg/", "app", "s">>
TheTags == {[repo |-> App, tag |-> "latest"]}

PEM(blocks) == [blocks |-> blocks, junk |-> FALSE]
Junk(blocks) == [blocks |-> blocks, junk |-> TRUE]

\* --------------------------------------------------------------- signatures
ByKey(k, d) ==
    LET payload == [digest |-> d, optional |-> << >>]
    IN  [payload |-> payload, sig |-> [key |-> k, msg |-> payload, nonce |-> 0],
         cert |-> Nil, chain |-> << >>, bundle |-> Nil]

Cert(ca, san) == [key |-> ca, sans |-> {san}, issuer |-> "idp", nb |-> 0, na |-> 1,
                  ca |-> ca, scts |-> {}]
ByCA(ca, san, d) ==
    [ByKey(ca, d) EXCEPT !.cert = Cert(ca, san), !.chain = <<ca>>]

AliceD1 == ByCA("corp", "alice", "d1")
TheWorld ==
    [log   |-> <<LogEntry(proposedEntry(AliceD1.sig, AliceD1.payload, CertPEM(AliceD1.cert)),
                          0, "log")>>,
     pubs  |-> [log |-> "Active"], api |-> Nil, ct |-> [ctlog |-> "Active"],
     roots |-> {"root"}, inters |-> {}, now |-> 9]

On(r, d, s) == [repo |-> r, digest |-> d, sig |-> s]

SigsOf(own, mirror) ==
    [r \in {Nil, "mirror"} |->
        [d \in {"d1", "d2"} |-> {s \in IF r = Nil THEN own ELSE mirror : s.payload.digest = d}]]

\* ------------------------------------------------------------------ policies
Glob(pieces, stars) == [glob |-> [pieces |-> pieces, stars |-> stars], regex |-> Nil]
Regex(images, malformed) ==
    [glob |-> Nil, regex |-> [images |-> images, malformed |-> malformed]]

Data(pem) == [data |-> pem, kms |-> Nil, secret |-> Nil]
Key(ref) == [key |-> ref, keyless |-> Nil, sources |-> << >>, ctlog |-> Nil]
Keyless(url, ids, ca) ==
    [key |-> Nil, keyless |-> [url |-> url, identities |-> ids, caCert |-> ca],
     sources |-> << >>, ctlog |-> Nil]
Alice == <<[issuer |-> Nil, subject |-> {"alice"}, malformed |-> FALSE]>>

Policy(images, authorities) == [images |-> images, authorities |-> authorities]
AppStar == Glob(App, "end")
Everything == Regex({Append(r, d) : r \in {App, Apps}, d \in {"d1", "d2"}}, FALSE)
K1 == Key(Data(PEM(<<k1>>)))

\* Policies that Validate must refuse.
Refusable ==
    {Policy(<<Regex({}, TRUE)>>, <<K1>>),
     Policy(<<Glob(App, "inside")>>, <<K1>>),
     Policy(<<AppStar>>, <<Key(Data(Junk(<<k1>>)))>>)}

TheSecrets == [good |-> PEM(<<k2>>), bad |-> PEM(<<NotAKey>>)]
TheKMS == [u \in {"kms://key"} |-> PEM(<<k2>>)]

\* ----------------------------------------------------------------- scenarios
Start(own, pem, specs, adds, pubs) ==
    [tags |-> [t \in TheTags |-> "d1"], sigs |-> SigsOf(own, {}), pub |-> pem,
     specs |-> specs, adds |-> adds, pubs |-> pubs]

\* Policies with something to say, over images whose names nest.
Matching ==
    Start({ByKey(k1, "d1"), AliceD1}, PEM(<<k1>>),
          {Policy(<<AppStar>>, <<K1>>),
           Policy(<<Glob(App, "none"), Everything>>,
               <<[Key([Data(Nil) EXCEPT !.secret = "good"]) EXCEPT !.sources = <<"mirror">>]>>),
           Policy(<<Glob(Append(App, "s"), "end"), Everything>>,
               <<[Keyless("corp", Alice, Nil) EXCEPT !.ctlog = "log"]>>)},
          {On(Nil, "d2", ByKey(k1, "d2")), On(Nil, "d2", ByKey(k1, "d1")),
           On("mirror", "d1", ByKey(k2, "d1"))},
          {Nil})

\* Policies whose authorities have no key and nobody to ask.
Silent ==
    Start({ByKey(k2, "d1"), ByCA("corp", "bob", "d1")}, PEM(<<k1>>),
          {Policy(<<Everything>>, <<Keyless(Nil, Alice, Nil)>>),
           Policy(<<AppStar>>, <<Key([Data(Nil) EXCEPT !.kms = "alias"]),
                                 Keyless("corp", Alice, Nil)>>),
           Policy(<<AppStar>>, <<Key([Data(Nil) EXCEPT !.kms = "kms://key"])>>)},
          {On(Nil, "d1", AliceD1)},
          {PEM(<<NotAKey>>), Junk(<<NotAKey, k2>>)})

\* Policies that the webhook cannot read, or that must never get that far.
Unreadable ==
    Start({ByKey(k1, "d1"), ByCA("root", "bob", "d1")}, PEM(<<NotAKey>>),
          {Policy(<<AppStar>>, <<K1>>),
           Policy(<<AppStar>>, <<[K1 EXCEPT !.sources = <<"mirror", MalformedRepository>>]>>),
           Policy(<<AppStar>>, <<Keyless(Nil, Nil, Data(PEM(<<NotAKey>>)))>>),
           Policy(<<AppStar>>, <<Key([Data(Nil) EXCEPT !.secret = "bad"])>>)} \cup Refusable,
          {},
          {PEM(<<k1>>)})

TheScenarios == [matching |-> Matching, silent |-> Silent, unreadable |-> Unreadable]

\* ----------------------------------------------------------------- workloads
Image(repo, kind, ref) == [repo |-> repo, kind |-> kind, ref |-> ref]
ThePods ==
    {[images |-> <<Image(Apps, "digest", "d1"), Image(App, "tag", "latest")>>,
      deleting |-> FALSE],
     [images |-> <<Image(App, "digest", "d2"), Image(App, "digest", "d1")>>,
      deleting |-> FALSE],
     [images |-> <<Image(App, "malformed", "")>>, deleting |-> FALSE],
     [images |-> <<Image(App, "tag", "latest")>>, deleting |-> TRUE]}
=============================================================================
