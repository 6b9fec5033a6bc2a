------------------------------ MODULE Policies ------------------------------
(***************************************************************************)
(* A ClusterImagePolicy on its way to the admission webhook, as operators: *)
(* its validation (pkg/apis/cosigned/v1alpha1), its conversion to the form *)
(* kept in the ConfigMap and back (webhook/clusterimagepolicy), the config *)
(* made of the ConfigMap (pkg/apis/config), and what the webhook decides   *)
(* about an image with it (pkg/cosign/kubernetes/webhook).                 *)
(*                                                                         *)
(* An image name is a sequence of pieces, the last one its digest.  A glob *)
(* is [pieces, stars], stars one of "none", "end" or "inside"; a regexp is *)
(* [images, malformed].  PEM data are [blocks, junk]: a block is a public  *)
(* key or something else (NotAKey), junk is text after the last block.     *)
(***************************************************************************)
EXTENDS Verify

CONSTANT NotAKey

\* ------------------------------------------------------------------- PEM
\* utils.parsePEMKey and webhookcip.parsePEMKey: something, and only blocks.
parsePEMKey(pem) == pem.blocks # << >> /\ ~pem.junk

IsValidKey(pem) == parsePEMKey(pem) /\ NotAKey \notin ToSet(pem.blocks)

\* [ok, keys]; data that is not PEM yields no key, and no error either.
ConvertKeyDataToPublicKeys(pem) ==
    IF ~parsePEMKey(pem) THEN [ok |-> TRUE, keys |-> << >>]
    ELSE IF NotAKey \in ToSet(pem.blocks) THEN [ok |-> FALSE, keys |-> << >>]
    ELSE [ok |-> TRUE, keys |-> pem.blocks]

\* parsePems and getKeys of cosign.pub: what is no key is passed over.
getKeys(pem) == SelectSeq(pem.blocks, LAMBDA b : b # NotAKey)

\* ------------------------------------------ validation of the custom resource
ValidateGlob(glob) == glob.stars \in {"none", "end"}

\* Mutant: a regular expression is taken as it comes.
AnyRegex(regex) == TRUE

ValidateRegex(regex) == ~regex.malformed

ValidateImagePattern(image) ==
    /\ image.regex = Nil <=> image.glob # Nil
    /\ image.glob # Nil => ValidateGlob(image.glob)
    /\ image.regex # Nil => ValidateRegex(image.regex)

ValidateKeyRef(key) ==
    /\ Cardinality({f \in {"data", "kms", "secret"} : key[f] # Nil}) = 1
    /\ key.data # Nil => IsValidKey(key.data)

ValidateIdentity(id) ==
    (id.issuer # Nil \/ id.subject # Nil) /\ ~id.malformed

\* ca-cert is not looked into.
ValidateKeylessRef(keyless) ==
    /\ keyless.url # Nil \/ keyless.identities # Nil \/ keyless.caCert # Nil
    /\ keyless.url = Nil \/ keyless.caCert = Nil
    /\ keyless.identities # Nil =>
          /\ keyless.identities # << >>
          /\ \A i \in DOMAIN keyless.identities : ValidateIdentity(keyless.identities[i])

\* A source is the name of a repository: not empty is all that is asked.
ValidateSource(source) == source # ""

ValidateAuthority(a) ==
    /\ a.key = Nil <=> a.keyless # Nil
    /\ a.key # Nil => ValidateKeyRef(a.key)
    /\ a.keyless # Nil => ValidateKeylessRef(a.keyless)
    /\ \A i \in DOMAIN a.sources : ValidateSource(a.sources[i])

Validate(spec) ==
    /\ spec.images # << >>
    /\ \A i \in DOMAIN spec.images : ValidateImagePattern(spec.images[i])
    /\ spec.authorities # << >>
    /\ \A i \in DOMAIN spec.authorities : ValidateAuthority(spec.authorities[i])

\* ----------------------------------------------- into the ConfigMap and back
\* What is left of a key reference: its data, or Nil.
convertKeyRef(key) == IF key = Nil THEN Nil ELSE [data |-> key.data]

convertKeylessRef(keyless) ==
    IF keyless = Nil THEN Nil
    ELSE [url |-> keyless.url, identities |-> keyless.identities,
          caCert |-> convertKeyRef(keyless.caCert)]

convertAuthority(a) ==
    [key |-> convertKeyRef(a.key), keyless |-> convertKeylessRef(a.keyless),
     sources |-> a.sources, ctlog |-> a.ctlog]

ConvertClusterImagePolicyV1alpha1ToWebhook(spec) ==
    [images      |-> spec.images,
     authorities |-> [i \in DOMAIN spec.authorities |->
                          convertAuthority(spec.authorities[i])]]

\* A repository name that name.NewRepository refuses.
MalformedRepository == "Not A Repository"

UnmarshalKeyRef(key) ==
    IF key = Nil \/ key.data = Nil THEN [ok |-> TRUE, keys |-> << >>]
    ELSE ConvertKeyDataToPublicKeys(key.data)

\* The last WithTargetRepository wins; without one it is the image's own.
UnmarshalAuthority(a) ==
    LET key    == UnmarshalKeyRef(a.key)
        caCert == IF a.keyless = Nil THEN UnmarshalKeyRef(Nil)
                  ELSE UnmarshalKeyRef(a.keyless.caCert)
    IN  IF ~key.ok \/ ~caCert.ok \/ MalformedRepository \in ToSet(a.sources) THEN Nil
        ELSE [hasKey  |-> a.key # Nil, keys |-> key.keys,
              keyless |-> a.keyless, ctlog |-> a.ctlog,
              repo    |-> IF a.sources = << >> THEN Nil ELSE Last(a.sources)]

parseEntry(entry) ==
    LET out == [i \in DOMAIN entry.authorities |-> UnmarshalAuthority(entry.authorities[i])]
    IN  IF Nil \in Range(out) THEN Nil
        ELSE [images |-> entry.images, authorities |-> out]

\* One entry that cannot be read fails the whole map.
NewImagePoliciesConfigFromMap(data) ==
    LET named == {c \in DOMAIN data : data[c] # Nil}
    IN  IF \E c \in named : parseEntry(data[c]) = Nil THEN Nil
        ELSE [c \in named |-> parseEntry(data[c])]

\* --------------------------------------------------------- matching policies
GlobMatch(image, glob) ==
    IF glob.stars = "none" THEN image = glob.pieces ELSE IsPrefix(glob.pieces, image)

PatternMatches(image, p) ==
    IF p.glob # Nil THEN GlobMatch(image, p.glob)
    ELSE ~p.regex.malformed /\ image \in p.regex.images

\* A policy is listed with its authorities once for each pattern that matches.
GetMatchingPolicies(config, image) ==
    LET matched(c) == SelectSeq(config[c].images, LAMBDA p : PatternMatches(image, p))
    IN  [err      |-> \E c \in DOMAIN config : \E p \in ToSet(config[c].images) :
                          p.glob = Nil /\ p.regex.malformed,
         policies |-> [c \in {x \in DOMAIN config : matched(x) # << >>} |->
                          FlattenSeq([i \in DOMAIN matched(c) |-> config[c].authorities])]]

\* -------------------------------------------------------- what an image needs
\* net is what cannot be reached; sigs(repo) are the signatures of digest h
\* kept in a repository.
CheckOpts ==
    [key |-> Nil, claims |-> TRUE, annotations |-> Nil, email |-> Nil, issuer |-> Nil,
     sct |-> FALSE, identities |-> << >>, sigRef |-> Nil, rekor |-> FALSE,
     inters |-> {}, roots |-> {}]

validSignatures(sigs, h, key, w) ==
    VerifyImageSignatures(sigs, h, [CheckOpts EXCEPT !.key = key], w).checked

\* Without a Rekor client nothing is looked up: a bundle is used if there is one.
validSignaturesWithFulcio(sigs, h, roots, rekor, identities, w) ==
    VerifyImageSignatures(sigs, h, [CheckOpts EXCEPT !.roots = roots, !.rekor = rekor,
                                                     !.identities = identities], w).checked

\* The signatures of the first key that has any; {} is an error.
valid(sigs, h, keys, w) ==
    IF keys = << >> THEN validSignaturesWithFulcio(sigs, h, w.roots, FALSE, << >>, w)
    ELSE LET found == SelectSeq(keys, LAMBDA k : validSignatures(sigs, h, k, w) # {})
         IN  IF found = << >> THEN {} ELSE validSignatures(sigs, h, found[1], w)

\* The roots of the Fulcio at url; {} when it does not answer.
getFulcioCert(url, net) == IF "fulcio" \in net THEN {} ELSE {url}

\* "sigs", "error" or "skipped".  An authority with neither keys nor a Fulcio
\* URL is passed over without an error.
CheckAuthority(a, sigs, h, w, net) ==
    LET here  == IF "registry" \in net THEN {} ELSE sigs[a.repo]
        roots == getFulcioCert(a.keyless.url, net)
        seen  == IF "rekor" \in net THEN [w EXCEPT !.log = << >>] ELSE w
    IN  IF a.hasKey /\ a.keys # << >>
        THEN IF valid(here, h, a.keys, w) # {} THEN "sigs" ELSE "error"
        ELSE IF a.keyless = Nil THEN "skipped"
        ELSE IF a.keyless.url = Nil THEN "skipped"
        ELSE IF roots # {} /\ validSignaturesWithFulcio(here, h, roots, a.ctlog # Nil,
                    IF a.keyless.identities = Nil THEN << >> ELSE a.keyless.identities,
                    seen) # {}
             THEN "sigs" ELSE "error"

\* The first authority with signatures decides.
ValidatePolicy(authorities, sigs, h, w, net) ==
    LET out == {CheckAuthority(authorities[i], sigs, h, w, net) : i \in DOMAIN authorities}
    IN  "sigs" \in out \/ "error" \notin out

validatePolicies(policies, sigs, h, w, net) ==
    \A c \in DOMAIN policies : ValidatePolicy(policies[c], sigs, h, w, net)

\* checkContainers for one image that is a digest reference.
CheckImage(config, keys, image, sigs, h, w, net) ==
    LET m == GetMatchingPolicies(config, image)
    IN  /\ ~m.err
        /\ IF DOMAIN m.policies # {} THEN validatePolicies(m.policies, sigs, h, w, net)
           ELSE valid(IF "registry" \in net THEN {} ELSE sigs[Nil], h, keys, w) # {}
=============================================================================
