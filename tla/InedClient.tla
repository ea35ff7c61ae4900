----------------------------- MODULE InedClient -----------------------------
(***************************************************************************)
(* The tool's end of the ined protocol (tnmIned.c).  A tool runs commands  *)
(* it gets from the editor, and jobs of its own; either may call "ined",   *)
(* which writes a line and blocks until its answer arrives.  Other lines   *)
(* that arrive meanwhile are put on a queue of messages.                   *)
(*                                                                         *)
(* A command that runs does not enter the event loop by itself, so the     *)
(* callbacks of the event loop run only while nothing else does.           *)
(***************************************************************************)
EXTENDS InedChannel

CONSTANTS
    Kinds,       \* Kinds[t]: the kinds of ined commands that tool t sends
    Long         \* the kinds whose line arrives in two pieces

VARIABLES
    queue,       \* queue[t]: the list control->queue; messages stay in it
                 \* after they are freed, until the list is dropped
    frame,       \* frame[t]: what the tool executes
    flushes,     \* flushes[t]: timers that call InedFlushProc()
    calls,       \* calls[t]: number of ined calls made so far
    executed,    \* executed[t]: the messages evaluated so far
    mismatch,    \* an ined call returned the answer of another one
    cwild        \* a tool used a message it had freed

cvars == <<queue, frame, flushes, calls, executed, mismatch, cwild>>

(* The tool is in the event loop, evaluates a job, or flushes the queue:   *)
(* m is the message being evaluated and p the next one, 0 for NULL.  wait  *)
(* is the call whose answer is awaited.                                    *)
Idle == [fn |-> "loop", m |-> 0, p |-> 0, wait |-> 0]
Job == [fn |-> "job", m |-> 0, p |-> 0, wait |-> 0]

Freed(q) == \E i \in DOMAIN q : q[i].freed

(* InedQueue() reports the length of the queue; it walks the whole list. *)
InedQueue(q) == <<Report(Len(q))>>

(* InedAppendQueue(): the first message is not reported. *)
InedAppendQueue(q, msg) ==
    [queue |-> Append(q, [n |-> msg.n, freed |-> FALSE]),
     sent |-> IF q = <<>> THEN <<>> ELSE InedQueue(Append(q, msg)),
     wild |-> Freed(q)]

(* InedFlushQueue() evaluates the messages from the head of the list. *)
StartFlush(t, q, sent) ==
    /\ queue' = [queue EXCEPT ![t] = q]
    /\ frame' = [frame EXCEPT ![t] =
                    IF q = <<>> THEN Idle
                    ELSE [fn |-> "flush", m |-> 1, p |-> IF Len(q) > 1 THEN 2 ELSE 0,
                          wait |-> 0]]
    /\ up' = [up EXCEPT ![t] = @ \o sent \o (IF q = <<>> THEN <<>> ELSE InedQueue(q))]
    /\ executed' = [executed EXCEPT ![t] =
                    IF q = <<>> THEN @ ELSE Append(@, q[1].n)]

(* A line arrives while the tool is in the event loop. *)
InedReceiveProc(t) ==
    /\ t \in alive /\ frame[t] = Idle /\ down[t] # <<>>
    /\ LET a == InedAppendQueue(queue[t], Head(down[t]))
       IN  /\ StartFlush(t, a.queue, a.sent)
           /\ cwild' = (cwild \/ a.wild)
    /\ down' = [down EXCEPT ![t] = Tail(@)]
    /\ UNCHANGED <<alive, flushes, calls, mismatch>>

InedFlushProc(t) ==
    /\ t \in alive /\ frame[t] = Idle /\ flushes[t] > 0
    /\ flushes' = [flushes EXCEPT ![t] = @ - 1]
    /\ StartFlush(t, queue[t], <<>>)
    /\ UNCHANGED <<down, alive, calls, mismatch, cwild>>

(* The message m has been evaluated: free it and go on with p. *)
FlushNext(t) ==
    LET f == frame[t]
        q == [queue[t] EXCEPT ![f.m].freed = TRUE]
    IN
    /\ t \in alive /\ f.fn = "flush" /\ f.wait = 0
    /\ IF f.p = 0
       THEN /\ queue' = [queue EXCEPT ![t] = <<>>]
            /\ frame' = [frame EXCEPT ![t] = Idle]
            /\ up' = [up EXCEPT ![t] = @ \o InedQueue(<<>>)]
            /\ UNCHANGED executed
       ELSE /\ queue' = [queue EXCEPT ![t] = q]
            /\ frame' = [frame EXCEPT ![t] =
                    [f EXCEPT !.m = f.p, !.p = IF f.p < Len(q) THEN f.p + 1 ELSE 0]]
            /\ executed' = [executed EXCEPT ![t] = Append(@, q[f.p].n)]
            /\ UNCHANGED up
    /\ UNCHANGED <<down, alive, flushes, calls, mismatch, cwild>>

(* A job of the tool starts or ends; commands that are answered from the   *)
(* list of an object (InedCompCmd) send nothing.                           *)
JobStart(t) ==
    /\ t \in alive /\ frame[t] = Idle /\ calls[t] < MaxCalls[t]
    /\ frame' = [frame EXCEPT ![t] = Job]
    /\ UNCHANGED <<channel, queue, flushes, calls, executed, mismatch, cwild>>

JobEnd(t) ==
    /\ t \in alive /\ frame[t].fn = "job" /\ frame[t].wait = 0
    /\ frame' = [frame EXCEPT ![t] = Idle]
    /\ UNCHANGED <<channel, queue, flushes, calls, executed, mismatch, cwild>>

(* Tnm_InedObjCmd() writes the command and then reads until its answer.    *)
InedCall(t, what) ==
    LET n == calls[t] + 1
        line == Call(n, what)
    IN
    /\ t \in alive /\ frame[t].fn # "loop" /\ frame[t].wait = 0
    /\ n <= MaxCalls[t]
    /\ calls' = [calls EXCEPT ![t] = n]
    /\ frame' = [frame EXCEPT ![t].wait = n]
    /\ up' = [up EXCEPT ![t] = @ \o (IF what \in Long THEN <<Piece, line>> ELSE <<line>>)]
    /\ UNCHANGED <<down, alive, queue, flushes, executed, mismatch, cwild>>

(* Mutant: the next line is taken for the answer. *)
MutInedGets(t) ==
    /\ t \in alive /\ frame[t].wait > 0 /\ down[t] # <<>>
    /\ down' = [down EXCEPT ![t] = Tail(@)]
    /\ frame' = [frame EXCEPT ![t].wait = 0]
    /\ mismatch' = (mismatch \/ Head(down[t]).n # frame[t].wait)
    /\ UNCHANGED <<up, alive, queue, flushes, calls, executed, cwild>>

InedGets(t) ==
    LET line == Head(down[t])
        a == InedAppendQueue(queue[t], line)
    IN
    /\ t \in alive /\ frame[t].wait > 0 /\ down[t] # <<>>
    /\ down' = [down EXCEPT ![t] = Tail(@)]
    /\ IF line.op \in {"ok", "error"}
       THEN /\ frame' = [frame EXCEPT ![t].wait = 0]
            /\ mismatch' = (mismatch \/ line.n # frame[t].wait)
            /\ UNCHANGED <<up, queue, flushes, cwild>>
       ELSE /\ queue' = [queue EXCEPT ![t] = a.queue]
            /\ up' = [up EXCEPT ![t] = @ \o a.sent]
            /\ cwild' = (cwild \/ a.wild)
            /\ flushes' = [flushes EXCEPT ![t] = @ + 1]
            /\ UNCHANGED <<frame, mismatch>>
    /\ UNCHANGED <<alive, calls, executed>>

(* The process ends between two calls, or is killed while it waits; then   *)
(* perhaps only the first piece of its long line was written.              *)
ToolExits(t) ==
    /\ t \in alive /\ frame[t].wait = 0
    /\ alive' = alive \ {t}
    /\ UNCHANGED <<up, down, cvars>>

ToolDies(t) ==
    /\ t \in alive
    /\ alive' = alive \ {t}
    /\ \/ UNCHANGED up
       \/ /\ Len(up[t]) > 1 /\ up[t][Len(up[t]) - 1].op = "piece"
          /\ up' = [up EXCEPT ![t] = Front(@)]
    /\ UNCHANGED <<down, cvars>>

ClientNext(t) ==
    \/ InedReceiveProc(t) \/ InedFlushProc(t) \/ FlushNext(t)
    \/ JobStart(t) \/ JobEnd(t) \/ InedGets(t)
    \/ \E what \in Kinds[t] : InedCall(t, what)
=============================================================================
