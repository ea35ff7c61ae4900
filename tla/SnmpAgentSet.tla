---------------------------- MODULE SnmpAgentSet ----------------------------
(***************************************************************************)
(* SetRequest() of the SNMP agent.  MIB instances are linked to Tcl        *)
(* variables: unsetting the variable frees the instance.  Every step of a  *)
(* request evaluates a binding, a script that may fail, return break, or   *)
(* unset variables; one action ends where a script starts.                 *)
(*                                                                         *)
(* A script that returns break to a set or create event has stored the     *)
(* value itself.  `wild' notes the use of an instance that was freed.      *)
(***************************************************************************)
EXTENDS Naturals, Sequences, FiniteSets

CONSTANTS
    Insts, Access,      \* instances, "ro", "rw" or "rc" (read-create) each
    Values, None, Empty,
    MaxVarbinds,        \* variable bindings of a request
    Codes,              \* codes bindings return: "ok", "break", "error"
    UnsetIn,            \* events whose bindings may unset variables
    Level               \* bindings are at the "instance" or at an "ancestor"

Varbinds == [inst : Insts, value : Values, typed : BOOLEAN]
SetRequests == UNION {[1 .. n -> Varbinds] : n \in 1 .. MaxVarbinds}

ASSUME SetAssumption ==
    /\ Access \in [Insts -> {"ro", "rw", "rc"}]
    /\ None \notin Values /\ Empty \in Values
    /\ MaxVarbinds \in Nat
    /\ Codes \subseteq {"ok", "break", "error"}
    /\ UnsetIn \subseteq {"set", "check", "commit", "rollback"}
    /\ Level \in {"instance", "ancestor"}

VARIABLES
    val,        \* the Tcl variable of every instance
    pc,         \* the phase, "idle" if there is no request
    inScript,   \* a binding of this phase is being evaluated
    vbs, i,     \* the variable bindings, and the current one
    saved,      \* clientData: the old value of a processed variable
    created,    \* NODE_CREATED
    status,     \* "noError" or "error"
    freed,      \* the current instance was freed by the script
    wild,
    before,     \* history: all values before the request
    begun, undone   \* history: set/create and rollback bindings evaluated

vars == <<val, pc, inScript, vbs, i, saved, created, status, freed, wild,
          before, begun, undone>>

Inst == vbs[i].inst
FindInstance == val[Inst] # None

-----------------------------------------------------------------------------
(* The first phase: set and create.                                        *)

Receive(r) ==
    /\ pc = "idle"
    /\ pc' = "set" /\ inScript' = FALSE
    /\ vbs' = r /\ i' = 1
    /\ saved' = [k \in 1 .. Len(r) |-> None]
    /\ created' = {}
    /\ status' = "noError"
    /\ before' = val
    /\ begun' = <<>> /\ undone' = <<>>
    /\ UNCHANGED <<val, freed, wild>>

\* varBindError: leave the loop; the rollback starts at varsToRollback.
VarBindError(n) ==
    /\ status' = "error"
    /\ pc' = "rollback"
    /\ i' = n

EvalSet ==
    /\ inScript' = TRUE
    /\ begun' = Append(begun, i)
    /\ UNCHANGED <<pc, vbs, i, status, freed, wild, before, undone>>

\* No instance: a read-create object is created and its create binding is
\* evaluated.  TnmSnmpCreateNode() makes the variable empty.
CreateVarbind ==
    /\ pc = "set" /\ ~inScript /\ i <= Len(vbs)
    /\ ~FindInstance /\ Access[Inst] = "rc"
    /\ val' = [val EXCEPT ![Inst] = Empty]
    /\ created' = created \cup {i}
    /\ saved' = saved
    /\ EvalSet

\* The old value is saved and the set binding is evaluated.
SetVarbind ==
    /\ pc = "set" /\ ~inScript /\ i <= Len(vbs)
    /\ FindInstance /\ Access[Inst] # "ro" /\ vbs[i].typed
    /\ saved' = [saved EXCEPT ![i] = val[Inst]]
    /\ UNCHANGED <<val, created>>
    /\ EvalSet

\* Mutant: the rejected variable is rolled back as well.
MutRejectVarbind ==
    /\ pc = "set" /\ ~inScript /\ i <= Len(vbs)
    /\ \/ ~FindInstance /\ Access[Inst] # "rc"
       \/ FindInstance /\ (Access[Inst] = "ro" \/ ~vbs[i].typed)
    /\ VarBindError(i)
    /\ UNCHANGED <<val, inScript, vbs, saved, created, freed, wild, before, begun, undone>>

\* noCreation, notWritable, wrongType
RejectVarbind ==
    /\ pc = "set" /\ ~inScript /\ i <= Len(vbs)
    /\ \/ ~FindInstance /\ Access[Inst] # "rc"
       \/ FindInstance /\ (Access[Inst] = "ro" \/ ~vbs[i].typed)
    /\ VarBindError(i - 1)
    /\ UNCHANGED <<val, inScript, vbs, saved, created, freed, wild, before, begun, undone>>

-----------------------------------------------------------------------------
(* Scripts.                                                                *)

\* The script of a binding unsets the variable of an instance, which
\* DeleteNodeProc() removes from the tree.
ScriptUnset(x) ==
    /\ inScript /\ pc \in UnsetIn
    /\ val[x] # None
    /\ val' = [val EXCEPT ![x] = None]
    /\ freed' = (freed \/ x = Inst)
    /\ UNCHANGED <<pc, inScript, vbs, i, saved, created, status, wild, before,
                   begun, undone>>

\* The code of TnmSnmpEvalNodeBinding().  It looks for the node the binding
\* belongs to, which may be an ancestor of the instance.
EvalNodeBinding(code) ==
    IF code = "ok" /\ freed /\ Level = "instance" THEN "error" ELSE code

Returns == inScript' = FALSE /\ freed' = FALSE

\* After the set or create binding the value is stored.  The response is
\* built from the instance in any case.
SetReturn(code) ==
    /\ pc = "set" /\ inScript
    /\ Returns
    /\ \/ /\ EvalNodeBinding(code) # "error"
          /\ wild' = (wild \/ freed)
          /\ val' = IF freed THEN val ELSE [val EXCEPT ![Inst] = vbs[i].value]
          /\ i' = i + 1
          /\ UNCHANGED <<pc, status>>
       \/ /\ EvalNodeBinding(code) = "error"
          /\ VarBindError(i)
          /\ UNCHANGED <<val, wild>>
    /\ UNCHANGED <<vbs, saved, created, before, begun, undone>>

\* All variables are set: the response may be too big.
SetDone ==
    /\ pc = "set" /\ ~inScript /\ i > Len(vbs)
    /\ \/ pc' = "check" /\ i' = 1 /\ UNCHANGED status
       \/ VarBindError(Len(vbs))
    /\ UNCHANGED <<val, inScript, vbs, saved, created, freed, wild, before, begun, undone>>

-----------------------------------------------------------------------------
(* The check phase.                                                        *)

Check ==
    /\ pc = "check" /\ ~inScript /\ i <= Len(vbs)
    /\ \/ FindInstance /\ inScript' = TRUE /\ UNCHANGED <<pc, i, status>>
       \/ ~FindInstance /\ VarBindError(Len(vbs)) /\ UNCHANGED inScript
    /\ UNCHANGED <<val, vbs, saved, created, freed, wild, before, begun, undone>>

\* Every code but ok is an error.
CheckReturn(code) ==
    /\ pc = "check" /\ inScript
    /\ Returns
    /\ \/ EvalNodeBinding(code) = "ok" /\ i' = i + 1 /\ UNCHANGED <<pc, status>>
       \/ EvalNodeBinding(code) # "ok" /\ VarBindError(Len(vbs))
    /\ UNCHANGED <<val, vbs, saved, created, wild, before, begun, undone>>

CheckDone ==
    /\ pc = "check" /\ ~inScript /\ i > Len(vbs)
    /\ pc' = "commit" /\ i' = 1
    /\ UNCHANGED <<val, inScript, vbs, saved, created, status, freed, wild,
                   before, begun, undone>>

-----------------------------------------------------------------------------
(* The commit or rollback phase; codes are ignored.                        *)

Commit ==
    /\ pc = "commit" /\ ~inScript /\ i <= Len(vbs)
    /\ \/ FindInstance /\ inScript' = TRUE /\ UNCHANGED i
       \/ ~FindInstance /\ i' = i + 1 /\ UNCHANGED inScript
    /\ UNCHANGED <<val, pc, vbs, saved, created, status, freed, wild,
                   before, begun, undone>>

CommitReturn ==
    /\ pc = "commit" /\ inScript
    /\ Returns
    /\ i' = i + 1
    /\ UNCHANGED <<val, pc, vbs, saved, created, status, wild, before, begun, undone>>

Rollback ==
    /\ pc = "rollback" /\ ~inScript /\ i >= 1
    /\ \/ /\ FindInstance
          /\ inScript' = TRUE
          /\ undone' = Append(undone, i)
          /\ UNCHANGED i
       \/ ~FindInstance /\ i' = i - 1 /\ UNCHANGED <<inScript, undone>>
    /\ UNCHANGED <<val, pc, vbs, saved, created, status, freed, wild, before, begun>>

\* Mutant: a created instance stays.
MutRestored ==
    IF saved[i] # None THEN [val EXCEPT ![Inst] = saved[i]] ELSE val

\* A created instance is removed with its variable, others get the old value.
Restored ==
    IF i \in created THEN [val EXCEPT ![Inst] = None]
    ELSE IF saved[i] # None THEN [val EXCEPT ![Inst] = saved[i]] ELSE val

RollbackReturn ==
    /\ pc = "rollback" /\ inScript
    /\ Returns
    /\ wild' = (wild \/ freed)
    /\ val' = IF freed THEN val ELSE Restored
    /\ i' = i - 1
    /\ UNCHANGED <<pc, vbs, saved, created, status, before, begun, undone>>

Done ==
    /\ \/ pc = "commit" /\ ~inScript /\ i > Len(vbs)
       \/ pc = "rollback" /\ ~inScript /\ i < 1
    /\ pc' = "idle"
    /\ vbs' = <<>> /\ i' = 0 /\ saved' = <<>> /\ created' = {}
    /\ begun' = <<>> /\ undone' = <<>>
    /\ before' = val
    /\ UNCHANGED <<val, inScript, status, freed, wild>>

-----------------------------------------------------------------------------
Init ==
    /\ val \in [Insts -> Values \cup {None}]
    /\ pc = "idle" /\ inScript = FALSE
    /\ vbs = <<>> /\ i = 0 /\ saved = <<>> /\ created = {}
    /\ status = "noError"
    /\ freed = FALSE /\ wild = FALSE
    /\ before = val
    /\ begun = <<>> /\ undone = <<>>

Next ==
    \/ \E r \in SetRequests : Receive(r)
    \/ CreateVarbind \/ SetVarbind \/ RejectVarbind \/ SetDone
    \/ \E code \in Codes : SetReturn(code) \/ CheckReturn(code)
    \/ Check \/ CheckDone
    \/ Commit \/ CommitReturn
    \/ Rollback \/ RollbackReturn
    \/ Done
    \/ \E x \in Insts : ScriptUnset(x)

Spec == Init /\ [][Next]_vars

-----------------------------------------------------------------------------
(* Properties.                                                             *)

TypeOK ==
    /\ {val, before} \subseteq [Insts -> Values \cup {None}]
    /\ pc \in {"idle", "set", "check", "commit", "rollback"}
    /\ {inScript, freed, wild} \subseteq BOOLEAN
    /\ vbs \in SetRequests \cup {<<>>}
    /\ i \in 0 .. Len(vbs) + 1
    /\ inScript => i \in DOMAIN vbs
    /\ saved \in [DOMAIN vbs -> Values \cup {None}]
    /\ created \subseteq DOMAIN vbs
    /\ status \in {"noError", "error"}

(* The inductive invariant behind them, for scripts that unset nothing.    *)

\* The varbinds whose variable may differ from its value before the request.
Touched ==
    IF pc = "check" THEN DOMAIN vbs
    ELSE IF pc = "set" /\ ~inScript THEN 1 .. i - 1 ELSE 1 .. i

First(k) == \A l \in 1 .. k - 1 : vbs[l].inst # vbs[k].inst
Old(k) == IF k \in created THEN None ELSE saved[k]

\* The first varbind of a variable holds the value before the request, later
\* ones a value the request has set.
OldValuesKept ==
    /\ \A x \in Insts : (\A k \in Touched : vbs[k].inst # x) => val[x] = before[x]
    /\ \A k \in Touched :
          /\ val[vbs[k].inst] # None
          /\ First(k) => Old(k) = before[vbs[k].inst]
          /\ ~First(k) => Old(k) # None
          /\ k \notin created => saved[k] # None

\* The last processed varbind of a variable is its value.
NewValuesSet ==
    LET n == IF pc = "check" THEN Len(vbs) ELSE i - 1 IN
    \A x \in Insts : (\E l \in 1 .. n : vbs[l].inst = x) =>
        \E k \in 1 .. n : /\ vbs[k].inst = x
                          /\ \A l \in 1 .. n : vbs[l].inst = x => l <= k
                          /\ val[x] = vbs[k].value

\* The bindings evaluated so far: a prefix of the request, and backwards.
BindingsEvaluated ==
    /\ pc = "set" => Len(begun) = IF inScript THEN i ELSE i - 1
    /\ pc = "check" => Len(begun) = Len(vbs)
    /\ pc \in {"set", "check"} => undone = <<>>
    /\ pc = "rollback" => Len(begun) = Len(undone) + IF inScript THEN i - 1 ELSE i
    /\ begun \in Seq(Nat) /\ undone \in Seq(Nat)
    /\ \A k \in 1 .. Len(begun) : begun[k] = k
    /\ \A k \in 1 .. Len(undone) : undone[k] = Len(begun) + 1 - k

SetInv ==
    /\ TypeOK
    /\ ~freed /\ ~wild
    /\ pc \in {"set", "check", "rollback"} => OldValuesKept
    /\ pc \in {"set", "check", "commit"} => i >= 1 /\ status = "noError"
    /\ pc = "rollback" => i <= Len(vbs)
    /\ pc = "set" => created \subseteq Touched
    /\ pc \in {"set", "check"} => NewValuesSet
    /\ pc # "idle" => vbs \in SetRequests
    /\ BindingsEvaluated

\* "as if simultaneously": a set-request of any number of variable bindings,
\* also of the same variable, changes all its variables or, if any step before
\* the commit phase fails, none.
Atomic == INSTANCE AtomicSet WITH
    mib <- IF pc \in {"set", "check", "rollback"} THEN before ELSE val,
    request <- IF pc \in {"set", "check"} THEN vbs ELSE <<>>,
    answer <- IF pc \in {"set", "check"} THEN "none" ELSE status
AllOrNothing == Atomic!AtomicSpec

\* "we must be careful to do rollbacks in the correct order and only on those
\* instances that were actually processed": rollback bindings are evaluated
\* for the variables whose set or create binding was, once each, last first.
RollbackOrder ==
    pc = "rollback" =>
        LET n == Len(undone) IN
        /\ n <= Len(begun)
        /\ \A k \in 1 .. n : undone[k] = begun[Len(begun) + 1 - k]
        /\ i = 0 => n = Len(begun)

\* "check if the instance is still there after we complete the binding": no
\* instance is used after the script of a binding deleted it.
NoUseAfterFree == ~wild
=============================================================================
