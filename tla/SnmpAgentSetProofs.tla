------------------------- MODULE SnmpAgentSetProofs -------------------------
(***************************************************************************)
(* A set-request changes all its variables or none, for every MIB, every   *)
(* request and all results of bindings that unset no variables.            *)
(***************************************************************************)
EXTENDS SnmpAgentSet, TLAPS

LEMMA RequestShape ==
    ASSUME NEW r \in SetRequests
    PROVE  /\ r \in Seq(Varbinds)
           /\ Len(r) \in Nat /\ Len(r) >= 1
           /\ DOMAIN r = 1 .. Len(r)
           /\ \A k \in 1 .. Len(r) : r[k].inst \in Insts /\ r[k].value \in Values
                                     /\ r[k].typed \in BOOLEAN
<1>1. PICK n \in 1 .. MaxVarbinds : r \in [1 .. n -> Varbinds]
  BY DEF SetRequests
<1>2. n \in Nat /\ n >= 1
  BY SetAssumption
<1>3. r \in Seq(Varbinds) /\ Len(r) = n
  BY <1>1, <1>2
<1>4. DOMAIN r = 1 .. n
  BY <1>1
<1>5. \A k \in 1 .. n : r[k] \in Varbinds
  BY <1>1
<1> QED
  BY <1>2, <1>3, <1>4, <1>5 DEF Varbinds

\* What the invariant says of a request in progress.
LEMMA InProgress ==
    ASSUME SetInv, pc # "idle"
    PROVE  /\ vbs \in SetRequests
           /\ Len(vbs) \in Nat /\ Len(vbs) >= 1 /\ DOMAIN vbs = 1 .. Len(vbs)
           /\ \A k \in 1 .. Len(vbs) : vbs[k].inst \in Insts /\ vbs[k].value \in Values
           /\ i \in Nat /\ i <= Len(vbs) + 1
           /\ val \in [Insts -> Values \cup {None}]
           /\ before \in [Insts -> Values \cup {None}]
           /\ saved \in [1 .. Len(vbs) -> Values \cup {None}]
           /\ created \subseteq 1 .. Len(vbs)
           /\ inScript \in BOOLEAN
           /\ ~freed /\ ~wild
           /\ inScript => i \in 1 .. Len(vbs)
<1>1. vbs \in SetRequests
  BY DEF SetInv
<1>2. /\ Len(vbs) \in Nat /\ Len(vbs) >= 1 /\ DOMAIN vbs = 1 .. Len(vbs)
      /\ \A k \in 1 .. Len(vbs) : vbs[k].inst \in Insts /\ vbs[k].value \in Values
  BY <1>1, RequestShape
<1>3. TypeOK /\ ~freed /\ ~wild
  BY DEF SetInv
<1>4. i \in 0 .. Len(vbs) + 1
  BY <1>3 DEF TypeOK
<1>5. i \in Nat /\ i <= Len(vbs) + 1
  BY <1>2, <1>4
<1>6. val \in [Insts -> Values \cup {None}] /\ before \in [Insts -> Values \cup {None}]
  BY <1>3 DEF TypeOK
<1>7. /\ saved \in [1 .. Len(vbs) -> Values \cup {None}]
      /\ created \subseteq 1 .. Len(vbs)
      /\ inScript => i \in 1 .. Len(vbs)
  BY <1>2, <1>3 DEF TypeOK
<1>8. inScript \in BOOLEAN
  BY <1>3 DEF TypeOK
<1> QED
  BY <1>1, <1>2, <1>3, <1>5, <1>6, <1>7, <1>8

-----------------------------------------------------------------------------
(* One lemma per action.                                                   *)

LEMMA ReceiveStep ==
    ASSUME SetInv, NEW r \in SetRequests, Receive(r)
    PROVE  SetInv'
<1>1. /\ Len(r) \in Nat /\ Len(r) >= 1 /\ DOMAIN r = 1 .. Len(r)
  BY RequestShape
<1>2. TypeOK'
  <2>1. saved' \in [DOMAIN r -> Values \cup {None}]
    BY <1>1 DEF Receive
  <2>2. vbs' \in SetRequests \cup {<<>>} /\ i' \in 0 .. Len(vbs') + 1 /\ created' = {}
    BY <1>1 DEF Receive
  <2>3. val' = val /\ before' = val /\ freed' = freed /\ wild' = wild /\ ~inScript'
    BY DEF Receive
  <2>4. val \in [Insts -> Values \cup {None}] /\ {freed, wild} \subseteq BOOLEAN
    BY DEF SetInv, TypeOK
  <2>5. pc' = "set" /\ status' = "noError" /\ vbs' = r
    BY DEF Receive
  <2>6. inScript' = FALSE
    BY DEF Receive
  <2> QED
    BY <1>1, <2>1, <2>2, <2>3, <2>4, <2>5, <2>6 DEF TypeOK
<1>3. Touched' = {}
  BY DEF Receive, Touched
<1>4. OldValuesKept'
  BY <1>3 DEF OldValuesKept, Receive
<1>5. NewValuesSet'
  BY DEF NewValuesSet, Receive
<1>6. BindingsEvaluated'
  BY DEF BindingsEvaluated, Receive
<1> QED
  BY <1>2, <1>3, <1>4, <1>5, <1>6 DEF SetInv, Receive

LEMMA CreateStep ==
    ASSUME SetInv, CreateVarbind
    PROVE  SetInv'
<1> DEFINE x == vbs[i].inst
<1>1. pc = "set" /\ ~inScript /\ i \in 1 .. Len(vbs)
  BY InProgress DEF CreateVarbind, SetInv
<1>2. pc # "idle"
  BY <1>1
<1> USE <1>2, InProgress
<1>3. x \in Insts /\ val[x] = None
  BY <1>1 DEF CreateVarbind, FindInstance, Inst
<1>4. /\ val' = [val EXCEPT ![x] = Empty]
      /\ created' = created \cup {i} /\ saved' = saved
      /\ inScript' /\ begun' = Append(begun, i)
      /\ UNCHANGED <<pc, vbs, i, status, freed, wild, before, undone>>
  BY DEF CreateVarbind, EvalSet, Inst
<1>5. Empty \in Values /\ Empty # None
  BY SetAssumption
<1>6. TypeOK'
  BY <1>1, <1>4, <1>5 DEF SetInv, TypeOK
<1>7. Touched = 1 .. i - 1 /\ Touched' = 1 .. i
  BY <1>1, <1>4 DEF Touched
<1>8. OldValuesKept /\ created \subseteq 1 .. i - 1
  BY <1>1, <1>7 DEF SetInv
<1>9. \A k \in 1 .. i - 1 : vbs[k].inst # x
  BY <1>3, <1>7, <1>8 DEF OldValuesKept
<1>10. before[x] = None
  BY <1>3, <1>7, <1>8, <1>9 DEF OldValuesKept
<1>11. OldValuesKept'
  <2>1. ASSUME NEW y \in Insts, \A k \in 1 .. i : vbs[k].inst # y
        PROVE  val'[y] = before[y]
    BY <1>1, <1>4, <1>7, <1>8, <2>1 DEF OldValuesKept
  <2>2. ASSUME NEW k \in 1 .. i - 1
        PROVE  /\ val'[vbs[k].inst] # None
               /\ First(k) => Old(k)' = before[vbs[k].inst]
               /\ ~First(k) => Old(k)' # None
               /\ k \notin created' => saved[k] # None
    <3>1. k # i /\ k \in 1 .. Len(vbs)
      BY <1>1
    <3>2. Old(k)' = Old(k)
      BY <1>1, <1>4, <3>1 DEF Old
    <3> QED
      BY <1>1, <1>4, <1>5, <1>7, <1>8, <1>9, <3>1, <3>2 DEF OldValuesKept
  <2>3. /\ val'[x] # None
        /\ First(i)
        /\ Old(i)' = before[x]
        /\ i \in created'
    BY <1>3, <1>4, <1>5, <1>9, <1>10 DEF First, Old
  <2>4. \A k : First(k)' <=> First(k)
    BY <1>4 DEF First
  <2>5. \A k \in 1 .. i : k \in 1 .. i - 1 \/ k = i
    BY <1>1
  <2> QED
    BY <1>4, <1>7, <2>1, <2>2, <2>3, <2>4, <2>5 DEF OldValuesKept
<1>12. NewValuesSet'
  <2> SUFFICES ASSUME NEW y \in Insts, NEW m \in 1 .. i - 1, vbs[m].inst = y
               PROVE  \E k \in 1 .. i - 1 : /\ vbs[k].inst = y
                                             /\ \A l \in 1 .. i - 1 : vbs[l].inst = y => l <= k
                                             /\ val'[y] = vbs[k].value
    BY <1>1, <1>4 DEF NewValuesSet
  <2>1. PICK k \in 1 .. i - 1 : /\ vbs[k].inst = y
                                /\ \A l \in 1 .. i - 1 : vbs[l].inst = y => l <= k
                                /\ val[y] = vbs[k].value
    BY <1>1 DEF SetInv, NewValuesSet
  <2>2. val'[y] = val[y]
    BY <1>4, <1>9
  <2> QED
    BY <2>1, <2>2
<1>13. BindingsEvaluated'
  BY <1>1, <1>4 DEF SetInv, BindingsEvaluated
<1>14. created' \subseteq Touched'
  BY <1>1, <1>4, <1>7, <1>8
<1> QED
  BY <1>1, <1>4, <1>6, <1>11, <1>12, <1>13, <1>14 DEF SetInv

LEMMA SetStep ==
    ASSUME SetInv, SetVarbind
    PROVE  SetInv'
<1> DEFINE x == vbs[i].inst
<1>1. pc = "set" /\ ~inScript /\ i \in 1 .. Len(vbs)
  BY InProgress DEF SetVarbind, SetInv
<1>2. pc # "idle"
  BY <1>1
<1> USE <1>2, InProgress
<1>3. x \in Insts /\ val[x] # None
  BY <1>1 DEF SetVarbind, FindInstance, Inst
<1>4. /\ saved' = [saved EXCEPT ![i] = val[x]]
      /\ inScript' /\ begun' = Append(begun, i)
      /\ UNCHANGED <<val, created, pc, vbs, i, status, freed, wild, before, undone>>
  BY DEF SetVarbind, EvalSet, Inst
<1>6. TypeOK'
  <2>1. saved' \in [DOMAIN vbs -> Values \cup {None}]
    BY <1>3, <1>4
  <2> QED
    BY <1>1, <1>4, <2>1 DEF SetInv, TypeOK
<1>7. Touched = 1 .. i - 1 /\ Touched' = 1 .. i
  BY <1>1, <1>4 DEF Touched
<1>8. OldValuesKept /\ created \subseteq 1 .. i - 1
  BY <1>1, <1>7 DEF SetInv
<1>11. OldValuesKept'
  <2>1. ASSUME NEW y \in Insts, \A k \in 1 .. i : vbs[k].inst # y
        PROVE  val'[y] = before[y]
    BY <1>1, <1>4, <1>7, <1>8, <2>1 DEF OldValuesKept
  <2>2. ASSUME NEW k \in 1 .. i - 1
        PROVE  /\ val'[vbs[k].inst] # None
               /\ First(k) => Old(k)' = before[vbs[k].inst]
               /\ ~First(k) => Old(k)' # None
               /\ k \notin created' => saved'[k] # None
    <3>1. k # i /\ k \in 1 .. Len(vbs)
      BY <1>1
    <3>2. Old(k)' = Old(k) /\ saved'[k] = saved[k]
      BY <1>1, <1>4, <3>1 DEF Old
    <3> QED
      BY <1>1, <1>4, <1>7, <1>8, <3>1, <3>2 DEF OldValuesKept
  <2>3. val'[x] # None /\ saved'[i] = val[x] /\ Old(i)' = val[x]
    BY <1>1, <1>3, <1>4, <1>8 DEF Old
  <2>4. First(i) => val[x] = before[x]
    BY <1>3, <1>7, <1>8 DEF First, OldValuesKept
  <2>5. \A k : First(k)' <=> First(k)
    BY <1>4 DEF First
  <2>6. \A k \in 1 .. i : k \in 1 .. i - 1 \/ k = i
    BY <1>1
  <2> QED
    BY <1>3, <1>4, <1>7, <2>1, <2>2, <2>3, <2>4, <2>5, <2>6 DEF OldValuesKept
<1>12. NewValuesSet'
  BY <1>1, <1>4 DEF SetInv, NewValuesSet
<1>13. BindingsEvaluated'
  BY <1>1, <1>4 DEF SetInv, BindingsEvaluated
<1>14. created' \subseteq Touched'
  BY <1>1, <1>4, <1>7, <1>8
<1> QED
  BY <1>1, <1>4, <1>6, <1>11, <1>12, <1>13, <1>14 DEF SetInv

\* Leaving the first two phases for the rollback of the touched varbinds.
LEMMA ErrorStep ==
    ASSUME SetInv, pc \in {"set", "check"}, NEW n \in 0 .. Len(vbs),
           Touched = 1 .. n, Len(begun) = n, VarBindError(n), inScript' = FALSE,
           UNCHANGED <<val, vbs, saved, created, wild, before, begun, undone>>, freed' = FALSE
    PROVE  SetInv'
<1>1. pc # "idle"
  OBVIOUS
<1> USE <1>1, InProgress
<1>2. i' = n /\ pc' = "rollback" /\ status' = "error"
  BY DEF VarBindError
<1>3. n \in Nat
  OBVIOUS
<1>4. TypeOK'
  <2>1. i' \in 0 .. Len(vbs') + 1
    BY <1>2, <1>3
  <2> QED
    BY <1>2, <2>1 DEF SetInv, TypeOK
<1>5. Touched' = Touched
  BY <1>2 DEF Touched
<1>6. OldValuesKept'
  <2>1. OldValuesKept
    BY DEF SetInv
  <2>2. \A k : (First(k)' <=> First(k)) /\ Old(k)' = Old(k)
    BY DEF First, Old
  <2> QED
    BY <1>5, <2>1, <2>2 DEF OldValuesKept
<1>7. BindingsEvaluated'
  BY <1>2, <1>3 DEF SetInv, BindingsEvaluated
<1> QED
  BY <1>2, <1>4, <1>6, <1>7 DEF SetInv

LEMMA RejectStep ==
    ASSUME SetInv, RejectVarbind
    PROVE  SetInv'
<1>1. pc = "set" /\ ~inScript /\ i \in 1 .. Len(vbs)
  BY InProgress DEF RejectVarbind, SetInv
<1>2. Len(vbs) \in Nat
  BY <1>1, InProgress
<1>3. i - 1 \in 0 .. Len(vbs)
  BY <1>1, <1>2
<1>4. Touched = 1 .. i - 1 /\ Len(begun) = i - 1
  BY <1>1 DEF Touched, SetInv, BindingsEvaluated
<1>5. VarBindError(i - 1)
      /\ UNCHANGED <<val, vbs, saved, created, wild, before, begun, undone>>
  BY DEF RejectVarbind
<1>6. inScript' = FALSE /\ freed' = FALSE
  BY <1>1 DEF RejectVarbind, SetInv, TypeOK
<1> QED
  BY <1>1, <1>3, <1>4, <1>5, <1>6, ErrorStep

LEMMA SetReturnStep ==
    ASSUME SetInv, NEW code \in Codes, SetReturn(code)
    PROVE  SetInv'
<1> DEFINE x == vbs[i].inst
<1>1. pc = "set" /\ inScript
  BY DEF SetReturn
<1>2. pc # "idle"
  BY <1>1
<1> USE <1>2, InProgress
<1>3. i \in 1 .. Len(vbs) /\ x \in Insts
  BY <1>1
<1>4. Touched = 1 .. i /\ Len(begun) = i
  BY <1>1 DEF Touched, SetInv, BindingsEvaluated
<1>5. inScript' = FALSE /\ freed' = FALSE
      /\ UNCHANGED <<vbs, saved, created, before, begun, undone>>
  BY DEF SetReturn, Returns
<1>6. CASE EvalNodeBinding(code) = "error"
  <2>1. VarBindError(i) /\ UNCHANGED <<val, wild>>
    BY <1>6 DEF SetReturn
  <2>2. i \in 0 .. Len(vbs)
    BY <1>3
  <2> QED
    BY <1>1, <1>4, <1>5, <2>1, <2>2, ErrorStep
<1>7. CASE EvalNodeBinding(code) # "error"
  <2>1. /\ wild' = wild /\ UNCHANGED <<pc, status>>
        /\ i' = i + 1
        /\ val' = [val EXCEPT ![x] = vbs[i].value]
    BY <1>7 DEF SetReturn, Inst, SetInv, TypeOK
  <2>2. vbs[i].value \in Values /\ vbs[i].value # None
    BY <1>3, SetAssumption
  <2>3. TypeOK'
    <3>1. val' \in [Insts -> Values \cup {None}] /\ i' \in 0 .. Len(vbs') + 1
      BY <1>3, <1>5, <2>1, <2>2
    <3> QED
      BY <1>5, <2>1, <3>1 DEF SetInv, TypeOK
  <2>4. Touched' = 1 .. i
    BY <1>1, <1>3, <1>5, <2>1 DEF Touched
  <2>5. OldValuesKept'
    <3>1. OldValuesKept
      BY <1>1 DEF SetInv
    <3>2. \A k : (First(k)' <=> First(k)) /\ Old(k)' = Old(k)
      BY <1>5 DEF First, Old
    <3>3. \A k \in 1 .. i : k \in 1 .. Len(vbs) /\ vbs[k].inst \in Insts
      BY <1>3
    <3>4. \A y \in Insts : y # x => val'[y] = val[y]
      BY <2>1
    <3>5. val'[x] # None
      BY <1>3, <2>1, <2>2
    <3>6. \A k \in 1 .. i : val'[vbs[k].inst] # None
      BY <1>4, <3>1, <3>3, <3>4, <3>5 DEF OldValuesKept
    <3>7. i \in 1 .. i
      BY <1>3
    <3> QED
      BY <1>4, <1>5, <2>4, <3>1, <3>2, <3>3, <3>4, <3>6, <3>7 DEF OldValuesKept
  <2>6. NewValuesSet'
    <3> SUFFICES ASSUME NEW y \in Insts, NEW m \in 1 .. i, vbs[m].inst = y
                 PROVE  \E k \in 1 .. i : /\ vbs[k].inst = y
                                          /\ \A l \in 1 .. i : vbs[l].inst = y => l <= k
                                          /\ val'[y] = vbs[k].value
      BY <1>1, <1>3, <1>5, <2>1 DEF NewValuesSet
    <3>1. CASE y = x
      BY <1>3, <2>1, <3>1
    <3>2. CASE y # x
      <4>1. m \in 1 .. i - 1
        BY <1>3, <3>2
      <4>2. PICK k \in 1 .. i - 1 : /\ vbs[k].inst = y
                                    /\ \A l \in 1 .. i - 1 : vbs[l].inst = y => l <= k
                                    /\ val[y] = vbs[k].value
        BY <1>1, <4>1 DEF SetInv, NewValuesSet
      <4>3. val'[y] = val[y]
        BY <2>1, <3>2
      <4>4. \A l \in 1 .. i : vbs[l].inst = y => l \in 1 .. i - 1
        BY <1>3, <3>2
      <4>5. k \in 1 .. i
        BY <1>3
      <4> QED
        BY <4>2, <4>3, <4>4, <4>5
    <3> QED
      BY <3>1, <3>2
  <2>7. BindingsEvaluated'
    BY <1>1, <1>3, <1>4, <1>5, <2>1 DEF SetInv, BindingsEvaluated
  <2>8. created' \subseteq Touched' /\ i' >= 1
    BY <1>1, <1>3, <1>4, <1>5, <2>1, <2>4 DEF SetInv
  <2> QED
    BY <1>1, <1>5, <2>1, <2>3, <2>5, <2>6, <2>7, <2>8 DEF SetInv
<1> QED
  BY <1>6, <1>7

LEMMA SetDoneStep ==
    ASSUME SetInv, SetDone
    PROVE  SetInv'
<1>1. pc = "set" /\ ~inScript /\ pc # "idle"
  BY DEF SetDone
<1> USE <1>1, InProgress
<1>2. i = Len(vbs) + 1
  BY DEF SetDone
<1>3. inScript' = inScript /\ inScript = FALSE /\ freed' = FALSE
      /\ UNCHANGED <<val, vbs, saved, created, freed, wild, before, begun, undone>>
  BY DEF SetDone, SetInv, TypeOK
<1>4. Touched = 1 .. Len(vbs) /\ Len(begun) = Len(vbs)
  BY <1>2 DEF Touched, SetInv, BindingsEvaluated
<1>5. CASE VarBindError(Len(vbs))
  <2>1. Len(vbs) \in 0 .. Len(vbs)
    OBVIOUS
  <2> QED
    BY <1>3, <1>4, <1>5, <2>1, ErrorStep
<1>6. CASE pc' = "check" /\ i' = 1 /\ UNCHANGED status
  <2>1. TypeOK'
    BY <1>3, <1>6 DEF SetInv, TypeOK
  <2>2. Touched' = 1 .. Len(vbs)
    BY <1>3, <1>6 DEF Touched
  <2>3. OldValuesKept'
    <3>1. OldValuesKept
      BY DEF SetInv
    <3>2. \A k : (First(k)' <=> First(k)) /\ Old(k)' = Old(k)
      BY <1>3 DEF First, Old
    <3> QED
      BY <1>3, <1>4, <2>2, <3>1, <3>2 DEF OldValuesKept
  <2>4. NewValuesSet'
    <3>1. i - 1 = Len(vbs)
      BY <1>2
    <3> QED
      BY <1>3, <1>6, <3>1 DEF SetInv, NewValuesSet
  <2>5. BindingsEvaluated'
    BY <1>3, <1>4, <1>6 DEF SetInv, BindingsEvaluated
  <2> QED
    BY <1>3, <1>6, <2>1, <2>3, <2>4, <2>5 DEF SetInv
<1> QED
  BY <1>5, <1>6 DEF SetDone

LEMMA CheckPhase ==
    ASSUME SetInv, pc = "check"
    PROVE  Touched = 1 .. Len(vbs) /\ Len(begun) = Len(vbs) /\ Len(vbs) \in 0 .. Len(vbs)
BY InProgress DEF Touched, SetInv, BindingsEvaluated

\* Steps of the check phase that change nothing but the position.
LEMMA CheckFrame ==
    ASSUME SetInv, pc = "check", pc' = "check", i' \in 1 .. Len(vbs) + 1, freed' = FALSE,
           inScript' \in BOOLEAN, inScript' => i' \in 1 .. Len(vbs),
           UNCHANGED <<val, vbs, saved, created, status, wild, before, begun, undone>>
    PROVE  SetInv'
<1>1. pc # "idle"
  OBVIOUS
<1> USE <1>1, InProgress
<1>2. TypeOK'
  <2>1. i' \in 0 .. Len(vbs') + 1
    OBVIOUS
  <2> QED
    BY <2>1 DEF SetInv, TypeOK
<1>3. Touched' = Touched
  BY DEF Touched
<1>4. OldValuesKept'
  <2>1. \A k : (First(k)' <=> First(k)) /\ Old(k)' = Old(k)
    BY DEF First, Old
  <2> QED
    BY <1>3, <2>1 DEF SetInv, OldValuesKept
<1>5. NewValuesSet' /\ BindingsEvaluated'
  BY DEF SetInv, NewValuesSet, BindingsEvaluated
<1> QED
  BY <1>2, <1>4, <1>5 DEF SetInv

LEMMA CheckStep ==
    ASSUME SetInv, Check
    PROVE  SetInv'
<1>1. pc = "check" /\ ~inScript /\ pc # "idle" /\ i <= Len(vbs)
  BY DEF Check
<1> USE <1>1, InProgress
<1>2. UNCHANGED <<val, vbs, saved, created, freed, wild, before, begun, undone>>
  BY DEF Check
<1>3. freed' = FALSE /\ inScript = FALSE
  BY <1>2 DEF SetInv, TypeOK
<1>4. CASE FindInstance /\ inScript' = TRUE /\ UNCHANGED <<pc, i, status>>
  <2>1. i \in 1 .. Len(vbs) /\ i \in 1 .. Len(vbs) + 1
    BY DEF SetInv
  <2> QED
    BY <1>2, <1>3, <1>4, <2>1, CheckFrame
<1>5. CASE VarBindError(Len(vbs)) /\ UNCHANGED inScript
  BY <1>2, <1>3, <1>5, CheckPhase, ErrorStep
<1> QED
  BY <1>4, <1>5 DEF Check

LEMMA CheckReturnStep ==
    ASSUME SetInv, NEW code \in Codes, CheckReturn(code)
    PROVE  SetInv'
<1>1. pc = "check" /\ inScript /\ pc # "idle"
  BY DEF CheckReturn
<1> USE <1>1, InProgress
<1>2. inScript' = FALSE /\ freed' = FALSE
      /\ UNCHANGED <<val, vbs, saved, created, wild, before, begun, undone>>
  BY DEF CheckReturn, Returns
<1>3. CASE i' = i + 1 /\ UNCHANGED <<pc, status>>
  <2>1. i' \in 1 .. Len(vbs) + 1
    BY <1>3 DEF SetInv
  <2> QED
    BY <1>2, <1>3, <2>1, CheckFrame
<1>4. CASE VarBindError(Len(vbs))
  BY <1>2, <1>4, CheckPhase, ErrorStep
<1> QED
  BY <1>3, <1>4 DEF CheckReturn

\* In the commit phase only the types and the request matter.
LEMMA CommitFrame ==
    ASSUME SetInv, pc \in {"check", "commit"}, pc' = "commit", i' \in 1 .. Len(vbs) + 1,
           freed' = FALSE, inScript' \in BOOLEAN, inScript' => i' \in 1 .. Len(vbs),
           UNCHANGED <<val, vbs, saved, created, status, wild, before, begun, undone>>
    PROVE  SetInv'
<1>1. pc # "idle"
  OBVIOUS
<1> USE <1>1, InProgress
<1>2. TypeOK'
  <2>1. i' \in 0 .. Len(vbs') + 1
    OBVIOUS
  <2> QED
    BY <2>1 DEF SetInv, TypeOK
<1>3. BindingsEvaluated'
  BY DEF SetInv, BindingsEvaluated
<1> QED
  BY <1>2, <1>3 DEF SetInv

LEMMA CheckDoneStep ==
    ASSUME SetInv, CheckDone
    PROVE  SetInv'
<1>1. pc = "check" /\ ~inScript /\ pc # "idle"
  BY DEF CheckDone
<1> USE <1>1, InProgress
<1>2. pc' = "commit" /\ i' = 1
      /\ UNCHANGED <<val, inScript, vbs, saved, created, status, freed, wild, before, begun, undone>>
  BY DEF CheckDone
<1>3. freed' = FALSE /\ i' \in 1 .. Len(vbs) + 1
  BY <1>2 DEF SetInv, TypeOK
<1> QED
  BY <1>2, <1>3, CommitFrame

LEMMA CommitStep ==
    ASSUME SetInv, Commit
    PROVE  SetInv'
<1>1. pc = "commit" /\ ~inScript /\ pc # "idle" /\ i <= Len(vbs)
  BY DEF Commit
<1> USE <1>1, InProgress
<1>2. UNCHANGED <<pc, val, vbs, saved, created, status, freed, wild, before, begun, undone>>
  BY DEF Commit
<1>3. freed' = FALSE
  BY <1>2 DEF SetInv, TypeOK
<1>4. CASE FindInstance /\ inScript' = TRUE /\ UNCHANGED i
  <2>1. i \in 1 .. Len(vbs) /\ i \in 1 .. Len(vbs) + 1
    BY DEF SetInv
  <2> QED
    BY <1>2, <1>3, <1>4, <2>1, CommitFrame
<1>5. CASE i' = i + 1 /\ UNCHANGED inScript
  <2>1. i' \in 1 .. Len(vbs) + 1
    BY <1>5 DEF SetInv
  <2> QED
    BY <1>2, <1>3, <1>5, <2>1, CommitFrame
<1> QED
  BY <1>4, <1>5 DEF Commit

LEMMA CommitReturnStep ==
    ASSUME SetInv, CommitReturn
    PROVE  SetInv'
<1>1. pc = "commit" /\ inScript /\ pc # "idle"
  BY DEF CommitReturn
<1> USE <1>1, InProgress
<1>2. inScript' = FALSE /\ freed' = FALSE /\ i' = i + 1
      /\ UNCHANGED <<pc, val, vbs, saved, created, status, wild, before, begun, undone>>
  BY DEF CommitReturn, Returns
<1>3. i' \in 1 .. Len(vbs) + 1
  BY <1>2 DEF SetInv
<1> QED
  BY <1>2, <1>3, CommitFrame

LEMMA RollbackStep ==
    ASSUME SetInv, Rollback
    PROVE  SetInv'
<1>1. pc = "rollback" /\ ~inScript /\ pc # "idle" /\ i >= 1
  BY DEF Rollback
<1> USE <1>1, InProgress
<1>2. OldValuesKept /\ Touched = 1 .. i /\ i \in Touched
  BY DEF SetInv, Touched
<1>3. Len(begun) = Len(undone) + i /\ undone \in Seq(Nat) /\ begun \in Seq(Nat)
  BY DEF SetInv, BindingsEvaluated
<1>4. i <= Len(vbs)
  BY DEF SetInv
<1>5. FindInstance
  BY <1>2 DEF OldValuesKept, FindInstance, Inst
<1>6. /\ inScript' = TRUE /\ undone' = Append(undone, i)
      /\ UNCHANGED <<i, val, pc, vbs, saved, created, status, freed, wild, before, begun>>
  BY <1>5 DEF Rollback
<1>7. i \in DOMAIN vbs
  BY <1>4
<1>8. TypeOK'
  BY <1>6, <1>7 DEF SetInv, TypeOK
<1>9. Touched' = Touched
  BY <1>6 DEF Touched
<1>10. OldValuesKept'
  <2>1. \A k : (First(k)' <=> First(k)) /\ Old(k)' = Old(k)
    BY <1>6 DEF First, Old
  <2> QED
    BY <1>2, <1>6, <1>9, <2>1 DEF OldValuesKept
<1>11. BindingsEvaluated'
  <2>1. Len(undone') = Len(undone) + 1 /\ undone' \in Seq(Nat)
    BY <1>3, <1>6
  <2>2. undone'[Len(undone) + 1] = i /\ \A k \in 1 .. Len(undone) : undone'[k] = undone[k]
    BY <1>3, <1>6
  <2>3. i = Len(begun) + 1 - (Len(undone) + 1)
    BY <1>3
  <2>4. \A k \in 1 .. Len(undone') : k \in 1 .. Len(undone) \/ k = Len(undone) + 1
    BY <1>3, <2>1
  <2>5. \A k \in 1 .. Len(undone') : undone'[k] = Len(begun') + 1 - k
    BY <1>6, <2>2, <2>3, <2>4 DEF SetInv, BindingsEvaluated
  <2>6. Len(begun') = Len(undone') + i' - 1
    BY <1>3, <1>6, <2>1
  <2> QED
    BY <1>3, <1>6, <2>1, <2>5, <2>6 DEF SetInv, BindingsEvaluated
<1> QED
  BY <1>6, <1>8, <1>10, <1>11 DEF SetInv

LEMMA RollbackReturnStep ==
    ASSUME SetInv, RollbackReturn
    PROVE  SetInv'
<1> DEFINE x == vbs[i].inst
<1>1. pc = "rollback" /\ inScript /\ pc # "idle"
  BY DEF RollbackReturn
<1> USE <1>1, InProgress
<1>2. i \in 1 .. Len(vbs) /\ x \in Insts
  OBVIOUS
<1>3. OldValuesKept /\ Touched = 1 .. i /\ i \in Touched
  BY <1>2 DEF SetInv, Touched
<1>4. /\ inScript' = FALSE /\ freed' = FALSE /\ i' = i - 1
      /\ UNCHANGED <<pc, vbs, saved, created, status, before, begun, undone>>
      /\ wild' = FALSE
      /\ val' = Restored
  BY DEF RollbackReturn, Returns, SetInv, TypeOK
<1>5. val' = [val EXCEPT ![x] = Old(i)]
  <2>1. i \notin created => saved[i] # None
    BY <1>3 DEF OldValuesKept
  <2> QED
    BY <1>4, <2>1 DEF Restored, Old, Inst
<1>6. Old(i) \in Values \cup {None}
  BY <1>2 DEF Old
<1>7. TypeOK'
  <2>1. val' \in [Insts -> Values \cup {None}] /\ i' \in 0 .. Len(vbs') + 1
    BY <1>2, <1>4, <1>5, <1>6
  <2> QED
    BY <1>4, <2>1 DEF SetInv, TypeOK
<1>8. Touched' = 1 .. i - 1
  BY <1>4 DEF Touched
<1>9. \A y \in Insts : val'[y] = IF y = x THEN Old(i) ELSE val[y]
  BY <1>2, <1>5
<1>10. OldValuesKept'
  <2>1. \A k : (First(k)' <=> First(k)) /\ Old(k)' = Old(k)
    BY <1>4 DEF First, Old
  <2>2. ASSUME NEW y \in Insts, \A k \in 1 .. i - 1 : vbs[k].inst # y
        PROVE  val'[y] = before[y]
    <3>1. CASE y = x
      <4>1. First(i)
        BY <2>2, <3>1 DEF First
      <4> QED
        BY <1>3, <1>9, <3>1, <4>1 DEF OldValuesKept
    <3>2. CASE y # x
      <4>1. \A k \in 1 .. i : vbs[k].inst # y
        BY <1>2, <2>2, <3>2
      <4> QED
        BY <1>3, <1>9, <3>2, <4>1 DEF OldValuesKept
    <3> QED
      BY <3>1, <3>2
  <2>3. ASSUME NEW k \in 1 .. i - 1
        PROVE  val'[vbs[k].inst] # None
    <3>1. k \in 1 .. i /\ k \in 1 .. Len(vbs) /\ vbs[k].inst \in Insts
      BY <1>2
    <3>2. CASE vbs[k].inst = x
      <4>1. ~First(i)
        BY <3>2 DEF First
      <4> QED
        BY <1>2, <1>3, <1>9, <3>2, <4>1 DEF OldValuesKept
    <3>3. CASE vbs[k].inst # x
      BY <1>3, <1>9, <3>1, <3>3 DEF OldValuesKept
    <3> QED
      BY <3>2, <3>3
  <2>4. \A k \in 1 .. i - 1 : k \in Touched
    BY <1>2, <1>3
  <2> QED
    BY <1>3, <1>4, <1>8, <2>1, <2>2, <2>3, <2>4 DEF OldValuesKept
<1>11. BindingsEvaluated'
  BY <1>2, <1>4 DEF SetInv, BindingsEvaluated
<1>12. i' <= Len(vbs')
  BY <1>2, <1>4
<1> QED
  BY <1>4, <1>7, <1>10, <1>11, <1>12 DEF SetInv

LEMMA DoneStep ==
    ASSUME SetInv, Done
    PROVE  SetInv'
<1>1. ~inScript /\ pc' = "idle" /\ vbs' = <<>> /\ i' = 0 /\ saved' = <<>> /\ created' = {}
      /\ begun' = <<>> /\ undone' = <<>> /\ before' = val
      /\ UNCHANGED <<val, inScript, status, freed, wild>>
  BY DEF Done
<1>2. saved' \in [DOMAIN vbs' -> Values \cup {None}]
  BY <1>1
<1>3. TypeOK'
  BY <1>1, <1>2 DEF SetInv, TypeOK
<1>4. BindingsEvaluated'
  BY <1>1 DEF BindingsEvaluated
<1> QED
  BY <1>1, <1>3, <1>4 DEF SetInv

-----------------------------------------------------------------------------
LEMMA InitInv == Init => SetInv
<1> SUFFICES ASSUME Init PROVE SetInv
  OBVIOUS
<1>1. saved \in [DOMAIN vbs -> Values \cup {None}]
  BY DEF Init
<1>2. i \in 0 .. Len(vbs) + 1 /\ vbs = <<>> /\ inScript = FALSE
  BY DEF Init
<1>3. TypeOK
  BY <1>1, <1>2 DEF Init, TypeOK
<1>4. BindingsEvaluated
  BY DEF Init, BindingsEvaluated
<1> QED
  BY <1>3, <1>4 DEF Init, SetInv

LEMMA NextInv ==
    ASSUME UnsetIn = {}, SetInv, [Next]_vars
    PROVE  SetInv'
<1>1. CASE UNCHANGED vars
  <2>2. Touched' = Touched
    BY <1>1 DEF vars, Touched
  <2>3. OldValuesKept' <=> OldValuesKept
    BY <1>1, <2>2 DEF vars, OldValuesKept, First, Old
  <2>4. TypeOK' /\ BindingsEvaluated'
    BY <1>1 DEF vars, SetInv, TypeOK, BindingsEvaluated
  <2>5. NewValuesSet' <=> NewValuesSet
    BY <1>1 DEF vars, NewValuesSet
  <2> QED
    BY <1>1, <2>2, <2>3, <2>4, <2>5 DEF vars, SetInv
<1>2. CASE Next
  <2>1. ~ \E x \in Insts : ScriptUnset(x)
    BY DEF ScriptUnset
  <2> QED
    BY <1>2, <2>1, ReceiveStep, CreateStep, SetStep, RejectStep, SetReturnStep, SetDoneStep,
       CheckStep, CheckReturnStep, CheckDoneStep, CommitStep, CommitReturnStep,
       RollbackStep, RollbackReturnStep, DoneStep DEF Next
<1> QED
  BY <1>1, <1>2

\* The inductive invariant holds if bindings unset no variables.
THEOREM SetInvariant ==
    ASSUME UnsetIn = {}
    PROVE  Spec => []SetInv
<1>1. SetInv /\ [Next]_vars => SetInv'
  BY NextInv
<1> QED
  BY <1>1, InitInv, PTL DEF Spec

\* Types are correct.
THEOREM SetTypeCorrect ==
    ASSUME UnsetIn = {}
    PROVE  Spec => []TypeOK
<1>1. SetInv => TypeOK
  BY DEF SetInv
<1> QED
  BY <1>1, SetInvariant, PTL

\* Rollback bindings are evaluated for the processed variables, last first.
THEOREM RollbackOrderCorrect ==
    ASSUME UnsetIn = {}
    PROVE  Spec => []RollbackOrder
<1>1. SetInv => RollbackOrder
  <2> SUFFICES ASSUME SetInv, pc = "rollback" PROVE RollbackOrder
    BY DEF RollbackOrder
  <2>1. BindingsEvaluated /\ i \in Nat /\ inScript \in BOOLEAN
        /\ (inScript => i \in 1 .. Len(vbs)) /\ Len(vbs) \in Nat
    BY InProgress DEF SetInv
  <2>2. /\ Len(begun) \in Nat /\ Len(undone) \in Nat
        /\ \A k \in 1 .. Len(begun) : begun[k] = k
        /\ \A k \in 1 .. Len(undone) : undone[k] = Len(begun) + 1 - k
        /\ Len(begun) = Len(undone) + IF inScript THEN i - 1 ELSE i
    BY <2>1 DEF BindingsEvaluated
  <2>3. Len(undone) <= Len(begun) /\ (i = 0 => Len(undone) = Len(begun))
    BY <2>1, <2>2
  <2>4. \A k \in 1 .. Len(undone) : undone[k] = begun[Len(begun) + 1 - k]
    BY <2>2, <2>3
  <2> QED
    BY <2>3, <2>4 DEF RollbackOrder
<1> QED
  BY <1>1, SetInvariant, PTL

-----------------------------------------------------------------------------
(* Refinement of AtomicSet.                                                *)

Pending == pc \in {"set", "check"}
Mib == IF pc \in {"set", "check", "rollback"} THEN before ELSE val
Request == IF Pending THEN vbs ELSE <<>>
Answer == IF Pending THEN "none" ELSE status

\* A successful check phase is the moment all variables change at once.
LEMMA CommitPoint ==
    ASSUME SetInv, CheckDone
    PROVE  Atomic!SetAll
<1>1. pc = "check" /\ pc # "idle" /\ pc' = "commit" /\ val' = val
  BY DEF CheckDone
<1> USE <1>1, InProgress
<1>2. OldValuesKept /\ NewValuesSet /\ Touched = 1 .. Len(vbs)
  BY CheckPhase DEF SetInv
<1>3. ASSUME NEW x \in Insts
      PROVE  val[x] = IF \E k \in DOMAIN vbs : Atomic!LastFor(vbs, x, k)
                      THEN vbs[CHOOSE k \in DOMAIN vbs : Atomic!LastFor(vbs, x, k)].value
                      ELSE before[x]
  <2>1. CASE \E l \in 1 .. Len(vbs) : vbs[l].inst = x
    <3>1. PICK k \in 1 .. Len(vbs) : /\ vbs[k].inst = x
                                     /\ \A l \in 1 .. Len(vbs) : vbs[l].inst = x => l <= k
                                     /\ val[x] = vbs[k].value
      BY <1>2, <2>1 DEF NewValuesSet
    <3>2. Atomic!LastFor(vbs, x, k)
      BY <3>1 DEF Atomic!LastFor
    <3>3. \A j \in DOMAIN vbs : Atomic!LastFor(vbs, x, j) => j = k
      BY <3>1 DEF Atomic!LastFor
    <3>4. (CHOOSE j \in DOMAIN vbs : Atomic!LastFor(vbs, x, j)) = k
      BY <3>2, <3>3
    <3> QED
      BY <3>1, <3>2, <3>4
  <2>2. CASE ~ \E l \in 1 .. Len(vbs) : vbs[l].inst = x
    <3>1. ~ \E k \in DOMAIN vbs : Atomic!LastFor(vbs, x, k)
      BY <2>2 DEF Atomic!LastFor
    <3>2. val[x] = before[x]
      BY <1>2, <2>2 DEF OldValuesKept
    <3> QED
      BY <3>1, <3>2
  <2> QED
    BY <2>1, <2>2
<1>4. val = Atomic!Assigned(before, vbs)
  BY <1>3 DEF Atomic!Assigned
<1>5. vbs # <<>> /\ status' = "noError"
  BY DEF CheckDone, SetInv
<1> QED
  BY <1>4, <1>5 DEF Atomic!SetAll

\* The end of a rollback: every variable has its old value.
LEMMA RollbackEnd ==
    ASSUME SetInv, pc = "rollback", i < 1
    PROVE  val = before
<1>1. pc # "idle"
  OBVIOUS
<1> USE <1>1, InProgress
<1>2. OldValuesKept /\ Touched = {}
  BY DEF SetInv, Touched
<1> QED
  BY <1>2 DEF OldValuesKept

\* Leaving the first two phases with an error.
LEMMA RefineError ==
    ASSUME SetInv, Pending, NEW n, VarBindError(n), before' = before
    PROVE  Atomic!SetNone
<1>1. vbs # <<>>
  BY InProgress DEF Pending
<1> QED
  BY <1>1 DEF Atomic!SetNone, VarBindError, Pending

LEMMA RefineStep ==
    ASSUME UnsetIn = {}, SetInv, [Next]_vars
    PROVE  Atomic!AtomicNext \/ UNCHANGED <<Mib, Request, Answer>>
<1> USE DEF Pending
<1>1. CASE UNCHANGED vars
  BY <1>1 DEF vars, Mib, Request, Answer
<1>2. ASSUME NEW r \in SetRequests, Receive(r)
      PROVE  Atomic!ReceiveSet
  BY <1>2 DEF Receive, Atomic!ReceiveSet
<1>3. CASE CreateVarbind \/ SetVarbind
  BY <1>3 DEF CreateVarbind, SetVarbind, EvalSet, Mib, Request, Answer
<1>4. CASE RejectVarbind
  BY <1>4, RefineError DEF RejectVarbind, Atomic!AtomicNext
<1>5. CASE SetDone
  <2>1. CASE VarBindError(Len(vbs))
    BY <1>5, <2>1, RefineError DEF SetDone, Atomic!AtomicNext
  <2>2. CASE pc' = "check"
    BY <1>5, <2>2 DEF SetDone, Mib, Request, Answer
  <2> QED
    BY <1>5, <2>1, <2>2 DEF SetDone
<1>6. ASSUME NEW code \in Codes, SetReturn(code) \/ CheckReturn(code)
      PROVE  Atomic!AtomicNext \/ UNCHANGED <<Mib, Request, Answer>>
  <2>1. CASE UNCHANGED pc
    BY <1>6, <2>1 DEF SetReturn, CheckReturn, Mib, Request, Answer
  <2>2. CASE VarBindError(i) \/ VarBindError(Len(vbs))
    BY <1>6, <2>2, RefineError DEF SetReturn, CheckReturn, Atomic!AtomicNext
  <2> QED
    BY <1>6, <2>1, <2>2 DEF SetReturn, CheckReturn
<1>7. CASE Check
  <2>1. CASE UNCHANGED pc
    BY <1>7, <2>1 DEF Check, Mib, Request, Answer
  <2>2. CASE VarBindError(Len(vbs))
    BY <1>7, <2>2, RefineError DEF Check, Atomic!AtomicNext
  <2> QED
    BY <1>7, <2>1, <2>2 DEF Check
<1>8. CASE CheckDone
  BY <1>8, CommitPoint DEF Atomic!AtomicNext
<1>9. CASE Commit \/ CommitReturn
  BY <1>9 DEF Commit, CommitReturn, Mib, Request, Answer
<1>10. CASE Rollback \/ RollbackReturn
  BY <1>10 DEF Rollback, RollbackReturn, Mib, Request, Answer
<1>11. CASE Done
  <2>1. CASE pc = "rollback" /\ i < 1
    BY <1>11, <2>1, RollbackEnd DEF Done, Mib, Request, Answer
  <2>2. CASE pc = "commit"
    BY <1>11, <2>2 DEF Done, Mib, Request, Answer
  <2> QED
    BY <1>11, <2>1, <2>2 DEF Done
<1>12. ~ \E x \in Insts : ScriptUnset(x)
  BY DEF ScriptUnset
<1> QED
  BY <1>1, <1>2, <1>3, <1>4, <1>5, <1>6, <1>7, <1>8, <1>9, <1>10, <1>11, <1>12
     DEF Next, Atomic!AtomicNext

\* SetRequest() implements AtomicSet: a set-request changes all its variables
\* and answers noError, or none and answers an error, whatever its bindings
\* return.
THEOREM AllOrNothingCorrect ==
    ASSUME UnsetIn = {}
    PROVE  Spec => AllOrNothing
<1>1. Init => Atomic!AtomicInit
  BY DEF Init, Atomic!AtomicInit
<1>2. SetInv /\ [Next]_vars => [Atomic!AtomicNext]_<<Mib, Request, Answer>>
  BY RefineStep
<1> QED
  BY <1>1, <1>2, SetInvariant, PTL
     DEF Spec, AllOrNothing, Atomic!AtomicSpec, Atomic!atomicVars, Mib, Request, Answer, Pending
=============================================================================
