---------------------------- MODULE TkinedTools -----------------------------
(***************************************************************************)
(* The editor's end of the ined protocol (tkiObjects.c, tkiMethods.c):     *)
(* INTERPRETER objects start a tool and wait for it to connect, read the   *)
(* commands it sends, execute them and acknowledge them; MENU objects send *)
(* commands to the tool.                                                   *)
(*                                                                         *)
(* The editor is one thread, but several of its functions run the event    *)
(* loop: m_interpreter_create() until the tool connects, dialogs until the *)
(* user answers, TkiTrace() until no event is pending.  stack holds the C  *)
(* functions that are active, the innermost last.                          *)
(***************************************************************************)
EXTENDS InedChannel

CONSTANTS
    MaxMenus,    \* bound on the menus of one tool
    MaxDepth     \* the C stack: active functions before it overflows

VARIABLES
    itp,         \* itp[t]: the INTERPRETER object of tool t
    menus,       \* menus[t]: number of MENUs whose links field names t
    logs,        \* logs[t]: LOGs bound to t: "none", "bound", "unbound"
    stack,       \* the active functions of the editor
    traceCount,  \* editor->traceCount
    clicks,      \* clicks[t]: commands the user sent to tool t so far
    ewild        \* the editor used freed memory or overran its stack

evars == <<itp, menus, logs, stack, traceCount, clicks, ewild>>

NewInterpreter ==
    [state |-> "none", done |-> TRUE, buf |-> <<>>, queue |-> 0, trace |-> FALSE]

(* In the object table, and therefore freed when its command is deleted.   *)
Registered(t) == itp[t].state = "live"
HasChannel(t) == itp[t].state \in {"connected", "live"}

Top == Last(stack)
Loops == {"connect", "dialog", "trace"}
InLoop == stack # <<>> => Top.fn \in Loops
Depth == Len(stack)
Receiving(t) == \E i \in DOMAIN stack : stack[i].fn = "receive" /\ stack[i].t = t

Push(f) == /\ stack' = Append(stack, f)
           /\ ewild' = (ewild \/ Depth >= MaxDepth)

-----------------------------------------------------------------------------
(* Starting a tool.                                                        *)

(* The tool's process is started and the event loop runs until it connects *)
(* or ten seconds are over.  If the program is not found, no port is free  *)
(* or no process can be started, no object remains and nothing changes.    *)
m_interpreter_create(t) ==
    /\ InLoop /\ itp[t].state = "none" /\ Depth < MaxDepth
    /\ itp' = [itp EXCEPT ![t] = [NewInterpreter EXCEPT !.state = "starting"]]
    /\ Push([fn |-> "connect", t |-> t])
    /\ UNCHANGED <<channel, menus, logs, traceCount, clicks>>

AcceptProc(t) ==
    /\ InLoop /\ itp[t].state = "starting"
    /\ itp' = [itp EXCEPT ![t].state = "connected"]
    /\ alive' = alive \cup {t}
    /\ UNCHANGED <<up, down, menus, logs, stack, traceCount, clicks, ewild>>

TimeOutProc(t) ==
    /\ InLoop /\ itp[t].state = "starting"
    /\ itp' = [itp EXCEPT ![t].state = "timeout"]
    /\ UNCHANGED <<channel, menus, logs, stack, traceCount, clicks, ewild>>

(* The wait is over; nested waits of other tools must end first.  The new  *)
(* object enters the table, or is dropped with its server socket.          *)
Connected(t) ==
    /\ stack # <<>> /\ Top.fn = "connect" /\ Top.t = t
    /\ itp[t].state \in {"connected", "timeout"}
    /\ itp' = [itp EXCEPT ![t].state = IF @ = "connected" THEN "live" ELSE "gone"]
    /\ stack' = Front(stack)
    /\ UNCHANGED <<channel, menus, logs, traceCount, clicks, ewild>>

-----------------------------------------------------------------------------
(* Traces and deletion.                                                    *)

(* TkiTrace() tells every tracing tool about a command ... *)
Tracers == {t \in Tools : Registered(t) /\ itp[t].trace}
TkiTrace(d, count) ==
    [t \in Tools |-> IF count > 0 /\ t \in Tracers THEN Append(d[t], TraceLine) ELSE d[t]]

(* m_interpreter_delete(): the menus go with the tool, the logs stay. *)
m_interpreter_delete(t) ==
    /\ menus' = [menus EXCEPT ![t] = 0]
    /\ logs' = [logs EXCEPT ![t] = IF @ = "bound" THEN "unbound" ELSE @]

TraceCountAfter(t) == traceCount - (IF itp[t].trace THEN 1 ELSE 0)

(* Mutant: the object stays in the table. *)
MutFree(t) == itp

(* Tki_DeleteObject() runs when the command of a registered object goes.   *)
(* A second deletion finds neither command nor object.                     *)
Free(t) == [itp EXCEPT ![t].state = IF @ = "live" THEN "gone" ELSE @]

(* The answer to the line the innermost receive() works on. *)
Acknowledge(d, f, code) ==
    IF code = "none" THEN d ELSE [d EXCEPT ![f.t] = Append(@, Answer(Head(f.lines).n, code))]

(* receive() takes the next line, or returns. *)
NextLine(s) ==
    LET f == Last(s)
    IN  IF Len(f.lines) > 1 THEN Append(Front(s), [f EXCEPT !.lines = Tail(@)])
        ELSE Front(s)

(* What the functions above do when the loop at the top of s ends: the     *)
(* receive() below acknowledges its line, through the object it works for. *)
Return(s, d, code, it) ==
    IF s = <<>> \/ Last(s).fn # "receive"
    THEN /\ stack' = s /\ down' = d /\ UNCHANGED ewild
    ELSE LET f == Last(s)
         IN  /\ stack' = NextLine(s)
             /\ down' = IF it[f.t].state = "gone" THEN d ELSE Acknowledge(d, f, code)
             /\ ewild' = (ewild \/ it[f.t].state = "gone")

(* m_delete() of the interpreter x, called with the stack s: what belongs  *)
(* to x goes first, then the trace is written and the event loop run, and  *)
(* only then is the object freed.                                          *)
m_delete(x, s, code) ==
    LET count == TraceCountAfter(x)
    IN
    /\ m_interpreter_delete(x)
    /\ traceCount' = count
    /\ IF count > 0
       THEN /\ down' = TkiTrace(down, count)
            /\ stack' = Append(s, [fn |-> "trace", t |-> x, then |-> "free", code |-> code])
            /\ ewild' = (ewild \/ Depth >= MaxDepth)
            /\ UNCHANGED itp
       ELSE /\ itp' = Free(x)
            /\ Return(s, down, code, Free(x))

(* No event is pending any more, and TkiTrace() returns. *)
Readable(t) == HasChannel(t) /\ (up[t] # <<>> \/ t \notin alive)

TraceReturns ==
    /\ stack # <<>> /\ Top.fn = "trace"
    /\ ~\E t \in Tools : Readable(t)
    /\ LET it == IF Top.then = "free" THEN Free(Top.t) ELSE itp
       IN  /\ itp' = it
           /\ Return(Front(stack), down, Top.code, it)
    /\ UNCHANGED <<up, alive, menus, logs, traceCount, clicks>>

-----------------------------------------------------------------------------
(* Commands of tools.                                                      *)

(* The channel of t is readable and its tool has closed it.  A tool that   *)
(* ended within a line is not deleted.                                     *)
ReceiveEof(t) ==
    /\ InLoop /\ HasChannel(t) /\ t \notin alive /\ up[t] = <<>>
    /\ itp[t].done
    /\ Depth < MaxDepth
    /\ m_delete(t, stack, "none")
    /\ UNCHANGED <<up, alive, clicks>>

(* The command buffer belongs to the object: a receive() that is still     *)
(* active for the same tool reads on in freed or overwritten memory when   *)
(* it looks for its next line, and may lose the rest of its text.          *)
Overwritten(s, t) ==
    {s, [i \in DOMAIN s |-> IF s[i].fn = "receive" /\ s[i].t = t
                           THEN [s[i] EXCEPT !.lines = <<Head(@)>>] ELSE s[i]]}

(* receive() takes what is there, at most a buffer.  If that ends within a *)
(* line it waits for the rest.                                             *)
receive(t) ==
    \E k \in 1 .. Len(up[t]) : \E s \in Overwritten(stack, t) :
        LET data == SubSeq(up[t], 1, k)
            buf == IF itp[t].done THEN data ELSE itp[t].buf \o data
            complete == Last(buf).op # "piece"
        IN
        /\ InLoop /\ HasChannel(t)
        /\ up' = [up EXCEPT ![t] = SubSeq(@, k + 1, Len(@))]
        /\ itp' = [itp EXCEPT ![t].done = complete,
                              ![t].buf = IF complete THEN <<>> ELSE buf]
        /\ stack' = IF complete
                    THEN Append(s, [fn |-> "receive", t |-> t,
                             lines |-> SelectSeq(buf, LAMBDA l : l.op # "piece")])
                    ELSE s
        /\ ewild' = (ewild \/ Depth >= MaxDepth)
        /\ UNCHANGED <<down, alive, menus, logs, traceCount, clicks>>

(* ined(): what one line does. *)
Line(what) ==
    /\ stack # <<>> /\ Top.fn = "receive" /\ Head(Top.lines).what = what
    /\ UNCHANGED <<up, alive, clicks>>

(* "ined queue" is not acknowledged. *)
InedQueueLine ==
    /\ Line("queue")
    /\ itp' = [itp EXCEPT ![Top.t].queue = Head(Top.lines).n]
    /\ Return(stack, down, "none", itp)
    /\ UNCHANGED <<menus, logs, traceCount>>

(* Mutant: a method that fails is not acknowledged. *)
MutAsk ==
    /\ Line("ask")
    /\ \E code \in {"ok", "none"} : Return(stack, down, code, itp)
    /\ UNCHANGED <<itp, menus, logs, traceCount>>

(* Commands that only ask (retrieve, size, select, restart, page), and     *)
(* commands nobody knows, answer ok; a method may answer with an error.    *)
InedAsk ==
    /\ Line("ask")
    /\ \E code \in {"ok", "error"} : Return(stack, down, code, itp)
    /\ UNCHANGED <<itp, menus, logs, traceCount>>

(* "ined create": a MENU or LOG belongs to the tool that creates it.       *)
InedMenu ==
    /\ Line("menu")
    /\ menus' = [menus EXCEPT ![Top.t] = IF @ < MaxMenus THEN @ + 1 ELSE @]
    /\ Return(stack, down, "ok", itp)
    /\ UNCHANGED <<itp, logs, traceCount>>

InedLog ==
    /\ Line("log")
    /\ logs' = [logs EXCEPT ![Top.t] = "bound"]
    /\ Return(stack, down, "ok", itp)
    /\ UNCHANGED <<itp, menus, traceCount>>

(* A command that changes an object is traced before it is acknowledged.   *)
InedChange ==
    /\ Line("change")
    /\ IF traceCount > 0
       THEN /\ down' = TkiTrace(down, traceCount)
            /\ Push([fn |-> "trace", t |-> Top.t, then |-> "return", code |-> "ok"])
       ELSE Return(stack, down, "ok", itp)
    /\ UNCHANGED <<itp, menus, logs, traceCount>>

InedDialog ==
    /\ Line("dialog")
    /\ Push([fn |-> "dialog", t |-> Top.t])
    /\ UNCHANGED <<itp, down, menus, logs, traceCount>>

InedTrace ==
    /\ Line("trace")
    /\ itp' = [itp EXCEPT ![Top.t].trace = TRUE]
    /\ traceCount' = traceCount + 1
    /\ Return(stack, down, "ok", itp)
    /\ UNCHANGED <<menus, logs>>

(* "ined delete" of an interpreter, perhaps the one that sends the line.   *)
InedDelete ==
    /\ Line("delete")
    /\ \E x \in Tools : Registered(x) /\ m_delete(x, stack, "ok")

(* The user answers the innermost dialog; only that one can return. *)
DialogAnswered ==
    /\ stack # <<>> /\ Top.fn = "dialog"
    /\ Return(Front(stack), down, "ok", itp)
    /\ UNCHANGED <<up, alive, itp, menus, logs, traceCount, clicks>>

(* The user chooses an entry of a menu: m_send() to its interpreter.  An    *)
(* open dialog has grabbed the input.                                      *)
m_send(t) ==
    /\ InLoop /\ ~\E i \in DOMAIN stack : stack[i].fn = "dialog"
    /\ menus[t] > 0 /\ clicks[t] < MaxCmds[t]
    /\ clicks' = [clicks EXCEPT ![t] = @ + 1]
    /\ down' = [down EXCEPT ![t] = Append(@, UserCmd(clicks[t] + 1))]
    /\ UNCHANGED <<up, alive, itp, menus, logs, stack, traceCount, ewild>>

EditorNext ==
    \/ \E t \in Tools :
        \/ m_interpreter_create(t) \/ AcceptProc(t) \/ TimeOutProc(t) \/ Connected(t)
        \/ ReceiveEof(t) \/ receive(t) \/ m_send(t)
    \/ InedQueueLine \/ InedAsk \/ InedMenu \/ InedLog \/ InedChange
    \/ InedDialog \/ DialogAnswered

(* With tools that trace the editor or delete interpreters. *)
EditorNextTraced == EditorNext \/ InedTrace \/ InedDelete \/ TraceReturns
=============================================================================
