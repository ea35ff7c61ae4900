---------------------------- MODULE InedSession -----------------------------
(***************************************************************************)
(* The Tkined editor and its tools, composed over the ined channel.        *)
(***************************************************************************)
EXTENDS TkinedTools, InedClient

svars == <<channel, evars, cvars>>

SessionInit ==
    /\ up = [t \in Tools |-> <<>>] /\ down = [t \in Tools |-> <<>>] /\ alive = {}
    /\ itp = [t \in Tools |-> NewInterpreter]
    /\ menus = [t \in Tools |-> 0] /\ logs = [t \in Tools |-> "none"]
    /\ stack = <<>> /\ traceCount = 0
    /\ clicks = [t \in Tools |-> 0] /\ ewild = FALSE
    /\ queue = [t \in Tools |-> <<>>] /\ frame = [t \in Tools |-> Idle]
    /\ flushes = [t \in Tools |-> 0] /\ calls = [t \in Tools |-> 0]
    /\ executed = [t \in Tools |-> <<>>]
    /\ mismatch = FALSE /\ cwild = FALSE

Client(t) == ClientNext(t) /\ UNCHANGED evars

SessionNext ==
    \/ EditorNext /\ UNCHANGED cvars
    \/ \E t \in Tools : Client(t) \/ (ToolExits(t) /\ UNCHANGED evars)

SessionSpec ==
    /\ SessionInit /\ [][SessionNext]_svars
    /\ WF_svars(EditorNext /\ UNCHANGED cvars)
    /\ \A t \in Tools : WF_svars(Client(t))

(* The same with tools that are killed, trace the editor or delete tools. *)
CrashNext ==
    \/ EditorNextTraced /\ UNCHANGED cvars
    \/ \E t \in Tools : Client(t) \/ (ToolDies(t) /\ UNCHANGED evars)

CrashSpec == SessionInit /\ [][CrashNext]_svars

-----------------------------------------------------------------------------
(* AnswersMatch: an ined call returns the answer to its own line, whatever *)
(* commands, queue reports and dialogs of other tools come in between.     *)
AnswersMatch == ~mismatch

(* EditorSurvives: no receive() of the editor works on a freed object or   *)
(* on a command buffer another receive() has taken over.                   *)
EditorSurvives == ~ewild

(* MenusHaveTool: a menu exists only while its interpreter does, so a menu *)
(* command is never sent to a deleted one.                                 *)
MenusHaveTool == \A t \in Tools : menus[t] > 0 => itp[t].state \in {"connected", "live"}

(* QueueShown: when a tool has nothing to do and the editor has read all   *)
(* it wrote, the editor shows an empty queue for it.                       *)
Quiet(t) == frame[t] = Idle /\ queue[t] = <<>> /\ up[t] = <<>> /\ ~Receiving(t)
QueueShown == \A t \in alive : Quiet(t) => itp[t].queue = 0

(* CommandsInOrder: the commands of the user are evaluated in the order in *)
(* which they were sent, none of them twice.                               *)
CommandsInOrder ==
    \A t \in Tools : \A i, j \in DOMAIN executed[t] :
        i < j => executed[t][i] < executed[t][j]

(* What a tool sees of its session is right in these three ways. *)
SessionExact == AnswersMatch /\ QueueShown /\ CommandsInOrder

(* CallsReturn: a tool that waits for an answer gets it, unless it ends.   *)
(* Queue reports, other tools and open dialogs cannot keep it waiting.     *)
CallsReturn == \A t \in Tools : frame[t].wait > 0 ~> (frame[t].wait = 0 \/ t \notin alive)

(* DeadToolsGo: the editor deletes the interpreter of a tool that ended.   *)
DeadToolsGo == \A t \in Tools : itp[t].state = "live" /\ t \notin alive ~> itp[t].state = "gone"
=============================================================================
