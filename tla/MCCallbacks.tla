---------------------------- MODULE MCCallbacks ----------------------------
(***************************************************************************)
(* The parts of Tnm whose scripts may free what the calling C function     *)
(* uses or call it again from the event loop: the SNMP request engine, the *)
(* job scheduler, and the bindings of a set request, here with scripts     *)
(* that unset the variables of MIB instances.  The parts share no state: a *)
(* behaviour exercises one of them.                                        *)
(***************************************************************************)
EXTENDS SnmpEngine, JobScheduler, TLC

CONSTANTS rw, rc, None

VARIABLES
    which,
    setVal, setPc, setInScript, setVbs, setI, setSaved, setCreated, setStatus,
    setFreed, setWild, setBefore, setBegun, setUndone

setVars == <<setVal, setPc, setInScript, setVbs, setI, setSaved, setCreated,
             setStatus, setFreed, setWild, setBefore, setBegun, setUndone>>

Set == INSTANCE SnmpAgentSet WITH
    Insts <- {rw, rc}, Access <- (rw :> "rw" @@ rc :> "rc"),
    Values <- {1, 2}, Empty <- 1, MaxVarbinds <- 2, Codes <- {"ok", "error"},
    UnsetIn <- {"set", "check", "commit"}, Level <- "instance",
    val <- setVal, pc <- setPc, inScript <- setInScript, vbs <- setVbs, i <- setI,
    saved <- setSaved, created <- setCreated, status <- setStatus,
    freed <- setFreed, wild <- setWild, before <- setBefore, begun <- setBegun,
    undone <- setUndone

CallbacksInit ==
    /\ which \in {"engine", "jobs", "set"}
    /\ Init /\ JobInit /\ Set!Init
    /\ which # "set" => setVal = [x \in {rw, rc} |-> None]
CallbacksNext ==
    /\ UNCHANGED which
    /\ \/ which = "engine" /\ Next /\ UNCHANGED <<schedVars, setVars>>
       \/ which = "jobs" /\ JobNext /\ UNCHANGED <<vars, setVars>>
       \/ which = "set" /\ Set!Next /\ UNCHANGED <<vars, schedVars>>
CallbacksSpec == CallbacksInit /\ [][CallbacksNext]_<<which, vars, schedVars, setVars>>

Symmetry == Permutations(Sessions) \cup Permutations(Requests)

-----------------------------------------------------------------------------
\* Whatever a script destroys, deletes or unsets, the function that called it
\* does not use it afterwards, and destroyed sessions leave no request behind:
\* Tcl_Preserve() in the engine and the scheduler, the second look at the
\* instance in EvalNodeBinding().
NothingFreedUsed == DestroyedSafely /\ JobNoUseAfterFree /\ Set!NoUseAfterFree
=============================================================================
