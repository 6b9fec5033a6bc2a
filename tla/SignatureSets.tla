---------------------------- MODULE SignatureSets ----------------------------
(***************************************************************************)
(* What the commands that publish signatures promise: with every digest go *)
(* a set of signatures and a set of attestations, and a command adds a     *)
(* layer, replaces the layers of one predicate type, or clears a set, in   *)
(* one step each.                                                          *)
(***************************************************************************)
CONSTANT Subjects
VARIABLE sets

Init == sets = [e \in Subjects |-> [k \in {"sig", "att"} |-> {}]]

Add(e, k) ==
    \E s \in sets'[e][k] \ sets[e][k] :
        /\ s.subject = e
        /\ sets' = [sets EXCEPT ![e][k] = @ \cup {s}]

Replace(e) ==
    \E s \in sets'[e]["att"] \ sets[e]["att"] :
        /\ s.subject = e
        /\ sets' = [sets EXCEPT ![e]["att"] = {x \in @ : x.pred # s.pred} \cup {s}]

Clear(e, k) == sets' = [sets EXCEPT ![e][k] = {}]

Next == \E e \in Subjects : \/ \E k \in {"sig", "att"} : Add(e, k) \/ Clear(e, k)
                             \/ Replace(e)

Spec == Init /\ [][Next]_sets
==============================================================================
