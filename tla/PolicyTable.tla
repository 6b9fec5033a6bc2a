----------------------------- MODULE PolicyTable -----------------------------
(***************************************************************************)
(* What the ClusterImagePolicy controller promises the webhook: a table    *)
(* with one row per policy, in which rows change one at a time and only a  *)
(* policy that is guarded by the finalizer gains or changes its row.       *)
(***************************************************************************)
CONSTANTS CIPs, Entries, NoEntry

VARIABLES table, guarded

tableVars == <<table, guarded>>

TableInit ==
    /\ table = [c \in CIPs |-> NoEntry]
    /\ guarded = [c \in CIPs |-> FALSE]

Put(c) ==
    /\ guarded[c]
    /\ \E e \in Entries : table' = [table EXCEPT ![c] = e]
    /\ UNCHANGED guarded

Drop(c) ==
    /\ table' = [table EXCEPT ![c] = NoEntry]
    /\ UNCHANGED guarded

Guard(c) ==
    /\ \E g \in BOOLEAN : guarded' = [guarded EXCEPT ![c] = g]
    /\ UNCHANGED table

TableNext == \E c \in CIPs : Put(c) \/ Drop(c) \/ Guard(c)

TableSpec == TableInit /\ [][TableNext]_tableVars
==============================================================================
