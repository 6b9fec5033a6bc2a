--------------------------- MODULE PivTool_proofs ---------------------------
(***************************************************************************)
(* A token is never kept by a process that is done, for any number of      *)
(* processes, slots and secrets and on every path out of a command.        *)
(***************************************************************************)
EXTENDS PivTool, TLAPS

\* A command has the fields of Idle.
IsTool(c) ==
    c = [pc |-> c.pc, cmd |-> c.cmd, args |-> c.args, todo |-> c.todo, no |-> c.no,
         said |-> c.said, mgmt |-> c.mgmt, made |-> c.made, opened |-> c.opened,
         disturbed |-> c.disturbed]

\* The inductive invariant.
HoldInv ==
    /\ DOMAIN tools = Tools
    /\ \A p \in Tools : IsTool(tools[p])
    /\ TokenReleased

\* Every return gives the token up.
LEMMA Returns ==
    ASSUME HoldInv, NEW p \in Tools, NEW how, how # "running", Return(p, how)
    PROVE  HoldInv'
<1>1. DOMAIN tools' = Tools /\ \A q \in Tools \ {p} : tools'[q] = tools[q]
    BY DEF Return, HoldInv
<1>2. IsTool(tools'[p]) /\ tools'[p].pc = how
  <2>1. tools'[p] = [Idle EXCEPT !.pc = how]
      BY DEF Return, Ended, HoldInv
  <2> QED BY <2>1 DEF Idle, IsTool
<1> QED BY <1>1, <1>2, NoneIsNoTool DEF HoldInv, TokenReleased, Return

\* Steps that go on, with the token in the same hands or in none.
LEMMA GoesOn ==
    ASSUME HoldInv, NEW p \in Tools, NEW c, tools' = [tools EXCEPT ![p] = c],
           IsTool(c), c.pc = "running", holder' \in {holder, p, None}
    PROVE  HoldInv'
BY NoneIsNoTool DEF HoldInv, TokenReleased

LEMMA Proceeds ==
    ASSUME NEW c, IsTool(c), NEW d, d = Proceed(c)
    PROVE  IsTool(d) /\ d.pc = c.pc
BY DEF IsTool, Proceed

\* GetKey takes the token or leaves it.
LEMMA OpensInv ==
    ASSUME HoldInv, NEW p \in Tools, NEW c, IsTool(c), c.pc = "running", Opens(p, c)
    PROVE  HoldInv'
<1>1. CASE holder # None
    BY <1>1, Returns DEF Opens
<1>2. CASE holder = None
  <2>1. ASSUME tools' = [tools EXCEPT ![p] = [c EXCEPT !.opened = token]], holder' = p
        PROVE  HoldInv'
    <3>1. ASSUME NEW d, d = [c EXCEPT !.opened = token] PROVE IsTool(d) /\ d.pc = "running"
        BY <3>1 DEF IsTool
    <3>2. ASSUME NEW d, d = [c EXCEPT !.opened = token], tools' = [tools EXCEPT ![p] = d]
          PROVE  HoldInv'
        BY <2>1, <3>1, <3>2, GoesOn
    <3> QED BY <2>1, <3>2
  <2>2. ASSUME tools' = [tools EXCEPT ![p] = Ended("unplugged")], holder' = None
        PROVE  HoldInv'
      BY <1>2, <2>2, Returns, NoneIsNoTool DEF Return
  <2> QED BY <1>2, <2>1, <2>2 DEF Opens
<1> QED BY <1>1, <1>2

\* A step that also tells the others that their key is gone.
LEMMA AfterInv ==
    ASSUME HoldInv, NEW p \in Tools, NEW c, IsTool(c), c.pc = "running", NEW wiped,
           tools' = After(p, c, wiped), holder' = holder
    PROVE  HoldInv'
<1>1. ASSUME NEW q \in Tools
      PROVE  IsTool(tools'[q]) /\ (tools'[q].pc = tools[q].pc \/ tools'[q].pc = "running")
  <2>1. CASE q = p
      BY <2>1 DEF After
  <2>2. CASE q # p
    <3> DEFINE b == tools[q].disturbed \/ (wiped /\ tools[q].made # None)
    <3>1. tools'[q] = [tools[q] EXCEPT !.disturbed = b] /\ IsTool(tools[q])
        BY <2>2 DEF After, HoldInv
    <3> HIDE DEF b
    <3> QED BY <3>1 DEF IsTool
  <2> QED BY <2>1, <2>2
<1> QED BY <1>1 DEF HoldInv, TokenReleased, After

LEMMA HoldInitInv == PivInit => HoldInv
<1> SUFFICES ASSUME PivInit PROVE HoldInv
    OBVIOUS
<1>1. IsTool(Idle)
    BY DEF Idle, IsTool
<1> QED BY <1>1, NoneIsNoTool DEF PivInit, HoldInv, TokenReleased

LEMMA HoldNextInv == HoldInv /\ [PivNext]_pivVars => HoldInv'
<1> SUFFICES ASSUME HoldInv, [PivNext]_pivVars PROVE HoldInv'
    OBVIOUS
<1>a. \A p \in Tools : IsTool(tools[p])
    BY DEF HoldInv
<1>1. ASSUME NEW p \in Tools, NEW cmd, NEW a, Run(p, cmd, a) PROVE HoldInv'
  <2> DEFINE no == commands + 1  todo == Steps(cmd, a.random)
  <2>1. CASE Refused(cmd, a)
    <3>1. Return(p, "help")
        BY <1>1, <2>1 DEF Run, Return, HoldInv, TokenReleased
    <3> QED BY <3>1, Returns
  <2>2. CASE ~Refused(cmd, a)
    <3>1. ASSUME NEW c, c = [Idle EXCEPT !.pc = "running", !.cmd = cmd, !.args = a,
                                         !.no = no, !.todo = todo], Opens(p, c)
          PROVE  HoldInv'
      <4>1. IsTool(c) /\ c.pc = "running"
        <5> HIDE DEF no, todo
        <5> QED BY <3>1 DEF Idle, IsTool
      <4> QED BY <3>1, <4>1, OpensInv
    <3>2. Opens(p, [Idle EXCEPT !.pc = "running", !.cmd = cmd, !.args = a,
                                !.no = no, !.todo = todo])
        BY <1>1, <2>2 DEF Run
    <3> QED BY <3>1, <3>2
  <2> QED BY <2>1, <2>2
<1>2. ASSUME NEW p \in Tools, Confirm(p) PROVE HoldInv'
  <2> DEFINE said == Proceed(tools[p]).said \cup {Head(tools[p].todo)}
  <2>1. ASSUME NEW c, c = Proceed(tools[p]), NEW d, d = [c EXCEPT !.said = said],
               tools' = [tools EXCEPT ![p] = d], holder' = holder
        PROVE  HoldInv'
    <3>1. IsTool(c) /\ c.pc = "running"
        BY <1>2, <1>a, <2>1, Proceeds DEF Confirm, Doing
    <3>2. IsTool(d) /\ d.pc = "running"
      <4> HIDE DEF said
      <4> QED BY <2>1, <3>1 DEF IsTool
    <3> QED BY <2>1, <3>2, GoesOn
  <2>2. \/ /\ tools' = [tools EXCEPT ![p] = [Proceed(tools[p]) EXCEPT !.said = said]]
           /\ holder' = holder
        \/ Return(p, "declined")
      BY <1>2 DEF Confirm, HoldInv
  <2> HIDE DEF said
  <2> QED BY <2>1, <2>2, Returns
<1>3. ASSUME NEW p \in Tools, SetManagementKey(p) PROVE HoldInv'
  <2>1. ASSUME NEW key, NEW c, c = Proceed(tools[p]), NEW d, d = [c EXCEPT !.mgmt = key],
               tools' = [tools EXCEPT ![p] = d], holder' = holder
        PROVE  HoldInv'
    <3>1. IsTool(c) /\ c.pc = "running"
        BY <1>3, <1>a, <2>1, Proceeds DEF SetManagementKey, Doing
    <3>2. IsTool(d) /\ d.pc = "running"
        BY <2>1, <3>1 DEF IsTool
    <3> QED BY <2>1, <3>2, GoesOn
  <2>2. \/ Return(p, "refused")
        \/ \E key : /\ tools' = [tools EXCEPT ![p] = [Proceed(tools[p]) EXCEPT !.mgmt = key]]
                    /\ holder' = holder
      BY <1>3 DEF SetManagementKey
  <2> QED BY <2>1, <2>2, Returns
<1>4. ASSUME NEW p \in Tools, SetSecret(p) PROVE HoldInv'
  <2>1. ASSUME NEW c, c = Proceed(tools[p]), NEW wiped, tools' = After(p, c, wiped),
               holder' = holder
        PROVE  HoldInv'
    <3>1. IsTool(c) /\ c.pc = "running"
        BY <1>4, <1>a, <2>1, Proceeds DEF SetSecret, Doing
    <3> QED BY <2>1, <3>1, AfterInv
  <2>2. \/ Return(p, "refused")
        \/ \E wiped : tools' = After(p, Proceed(tools[p]), wiped) /\ holder' = holder
      BY <1>4 DEF SetSecret
  <2> QED BY <2>1, <2>2, Returns
<1>5. ASSUME NEW p \in Tools, GenerateKey(p) PROVE HoldInv'
  <2>1. ASSUME NEW key, NEW c, c = Proceed(tools[p]), NEW d, d = [c EXCEPT !.made = key],
               tools' = After(p, d, TRUE), holder' = holder
        PROVE  HoldInv'
    <3>1. IsTool(c) /\ c.pc = "running"
        BY <1>5, <1>a, <2>1, Proceeds DEF GenerateKey, Doing
    <3>2. IsTool(d) /\ d.pc = "running"
        BY <2>1, <3>1 DEF IsTool
    <3> QED BY <2>1, <3>2, AfterInv
  <2>2. \/ Return(p, "refused")
        \/ \E key : /\ tools' = After(p, [Proceed(tools[p]) EXCEPT !.made = key], TRUE)
                    /\ holder' = holder
      BY <1>5 DEF GenerateKey
  <2> QED BY <2>1, <2>2, Returns
<1>6. ASSUME NEW p \in Tools, Close(p) PROVE HoldInv'
  <2>1. ASSUME NEW c, c = Proceed(tools[p]), tools' = [tools EXCEPT ![p] = c] PROVE HoldInv'
    <3>1. IsTool(c) /\ c.pc = "running"
        BY <1>6, <1>a, <2>1, Proceeds DEF Close, Doing
    <3>2. holder' \in {holder, p, None}
        BY <1>6 DEF Close
    <3> QED BY <2>1, <3>1, <3>2, GoesOn
  <2>2. tools' = [tools EXCEPT ![p] = Proceed(tools[p])]
      BY <1>6 DEF Close, HoldInv
  <2> QED BY <2>1, <2>2
<1>7. ASSUME NEW p \in Tools, Reopen(p) PROVE HoldInv'
  <2>1. ASSUME NEW c, c = Proceed(tools[p]), Opens(p, c) PROVE HoldInv'
    <3>1. IsTool(c) /\ c.pc = "running"
        BY <1>7, <1>a, <2>1, Proceeds DEF Reopen, Doing
    <3> QED BY <2>1, <3>1, OpensInv
  <2>2. Opens(p, Proceed(tools[p]))
      BY <1>7 DEF Reopen
  <2> QED BY <2>1, <2>2
<1>8. ASSUME NEW p \in Tools, Attest(p) \/ Finish(p) \/ Unplug(p) PROVE HoldInv'
  <2>1. PICK how \in {"panic", "refused", "ok", "unplugged"} : Return(p, how)
      BY <1>8 DEF Attest, Finish, Unplug
  <2> QED BY <2>1, Returns
<1>9. CASE UNCHANGED pivVars
    BY <1>9 DEF HoldInv, TokenReleased, pivVars
<1> QED BY <1>1, <1>2, <1>3, <1>4, <1>5, <1>6, <1>7, <1>8, <1>9 DEF PivNext, PivStep

\* Every way out of a command gives the token up.
THEOREM AlwaysReleased == PivSpec => []TokenReleased
<1>1. HoldInv => TokenReleased
    BY DEF HoldInv
<1> QED BY HoldInitInv, HoldNextInv, <1>1, PTL DEF PivSpec
=============================================================================
