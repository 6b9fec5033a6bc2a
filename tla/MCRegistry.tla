------------------------------ MODULE MCRegistry ------------------------------
(***************************************************************************)
(* Small instances of Registry: an index with one image, an SBOM file, one *)
(* tag, and the command lines that each question needs.                    *)
(***************************************************************************)
EXTENDS Registry, TLC

CONSTANTS ix, im, bom, latest, k1, k2

MCChildren == [e \in {ix, im, bom} |-> IF e = ix THEN <<im>> ELSE <<>>]

Sign(ref, recursive, attachment, key, ann) ==
    [cmd |-> "sign", ref |-> ref, recursive |-> recursive, attachment |-> attachment,
     key |-> key, ann |-> ann, pred |-> "", force |-> FALSE]
Attest(ref, pred, replace) ==
    [cmd |-> "attest", ref |-> ref, replace |-> replace, key |-> k1, ann |-> {},
     pred |-> pred, force |-> FALSE]
Attach(what) ==
    [cmd |-> what, ref |-> latest, key |-> k1, ann |-> {}, pred |-> "", file |-> bom,
     force |-> FALSE]
Clean(type) == [cmd |-> "clean", ref |-> latest, type |-> type, force |-> FALSE]
Copy(sigOnly, force) ==
    [cmd |-> "copy", ref |-> latest, to |-> latest, sigOnly |-> sigOnly, force |-> force]

ProcSymmetry == Permutations(Procs)

OverlapLines ==
    {Sign(latest, TRUE, FALSE, k1, {}), Sign(latest, FALSE, FALSE, k1, {"a"}),
     Attach("attach sig"), Attach("attach att"), Attest(ix, "slsa", TRUE), Clean({"sig"})}
SerialLines ==
    {Sign(latest, TRUE, FALSE, k1, {}), Sign(latest, FALSE, TRUE, k2, {}),
     Attest(ix, "slsa", TRUE), Attest(ix, "custom", FALSE),
     Attach("attach sig"), Attach("attach sbom"), Clean(Kinds)}
CopyLines ==
    {Sign(latest, TRUE, FALSE, k1, {}), Attach("attach sbom"),
     Copy(FALSE, FALSE), Copy(TRUE, FALSE), Copy(FALSE, TRUE)}
Save == [cmd |-> "save", ref |-> latest, force |-> FALSE]
Load == [cmd |-> "load", ref |-> latest, to |-> latest, force |-> FALSE]
SaveLines == {Sign(latest, TRUE, FALSE, k1, {}), Attest(latest, "slsa", FALSE), Save, Load}
ReplaceLines == {Attest(im, "slsa", FALSE), Attest(im, "slsa", TRUE)}

AllScenarios ==
    {[lines |-> OverlapLines, overlap |-> TRUE, commands |-> 3, moves |-> 1, faults |-> 1],
     [lines |-> SerialLines, overlap |-> FALSE, commands |-> 4, moves |-> 1, faults |-> 1],
     [lines |-> CopyLines, overlap |-> FALSE, commands |-> 4, moves |-> 1, faults |-> 1],
     [lines |-> SaveLines, overlap |-> FALSE, commands |-> 5, moves |-> 1, faults |-> 1]}
ReplaceScenarios ==
    {[lines |-> ReplaceLines, overlap |-> FALSE, commands |-> 2, moves |-> 0, faults |-> 0]}
=============================================================================
