--------------------------- MODULE MCInedSession ----------------------------
(***************************************************************************)
(* Instances of the ined protocol: one tool that the user gives work, and  *)
(* a second one that makes a single call; and, in behaviours of their own, *)
(* flashing objects.                                                       *)
(***************************************************************************)
EXTENDS InedSession, TkinedFlash

CONSTANTS Busy, Calls, Cmds     \* the busy tool and its bounds

VARIABLE which

MCMaxCalls == [t \in Tools |-> IF t = Busy THEN Calls ELSE 1]
MCMaxCmds == [t \in Tools |-> IF t = Busy THEN Cmds ELSE 0]
MCKinds ==
    [t \in Tools |-> IF t = Busy THEN {"ask", "menu", "change", "dialog"} ELSE {"ask", "log", "dialog"}]
MCParent == <<0, 1>>

allVars == <<svars, fvars, which>>

Init == which \in {"session", "flash"} /\ SessionInit /\ FlashInit

InSession(A) == which = "session" /\ A /\ UNCHANGED <<fvars, which>>
InFlash(A) == which = "flash" /\ A /\ UNCHANGED <<svars, which>>

Spec ==
    /\ Init /\ [][InSession(SessionNext) \/ InFlash(FlashNext)]_allVars
    /\ WF_allVars(InSession(EditorNext /\ UNCHANGED cvars))
    /\ \A t \in Tools : WF_allVars(InSession(Client(t)))
    /\ WF_allVars(InFlash(FlashProc)) /\ WF_allVars(InFlash(FlashProcReturns))

(* With tools that are killed, trace the editor or delete interpreters. *)
Crashes ==
    /\ which = "session" /\ SessionInit /\ FlashInit
    /\ [][InSession(CrashNext)]_allVars
=============================================================================
