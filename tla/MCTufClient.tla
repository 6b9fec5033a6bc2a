----------------------------- MODULE MCTufClient -----------------------------
(***************************************************************************)
(* Small instances of TufClient: the default mirror changes one target in  *)
(* its second release and the other in its third; a private mirror has one *)
(* release of its own.                                                     *)
(***************************************************************************)
EXTENDS TufClient

CONSTANTS fulcio, rekor, main, private

MCContents == 1..4
MCReleases ==
    [m \in Mirrors |->
        IF m = main THEN <<[t \in Targets |-> 1],
                           [t \in Targets |-> IF t = fulcio THEN 2 ELSE 1],
                           [t \in Targets |-> IF t = fulcio THEN 2 ELSE 3]>>
        ELSE <<[t \in Targets |-> 4]>>]

\* Only one of the targets carries custom metadata; the other is a fallback.
MCUsage == [t \in {fulcio, rekor} |-> IF t = fulcio THEN "Fulcio" ELSE NoUsage]
MCFallbacks == [u \in {"Fulcio", "Rekor"} |->
                  IF u = "Fulcio" THEN {fulcio} ELSE {rekor, fulcio}]
MCUsages == {"Fulcio", "Rekor"}

FirstUse == [noCache |-> {"p2"}, installed |-> FALSE, keepsOld |-> FALSE,
             commands |-> 2, expiries |-> 1, faults |-> 1]
Quiet    == [noCache |-> {}, installed |-> TRUE, keepsOld |-> TRUE,
             commands |-> 3, expiries |-> 2, faults |-> 0]
Crashing == [Quiet EXCEPT !.expiries = 1, !.faults = 1]
SharedWorlds == {FirstUse, Quiet}
CrashWorlds  == {Crashing}
==============================================================================
