----------------------------- MODULE SnmpEngine -----------------------------
(***************************************************************************)
(* The asynchronous request engine of the SNMP manager: sessions, the      *)
(* global request queue with its window, retransmission timers, and the    *)
(* Tcl callbacks that run in the middle of all this.                       *)
(*                                                                         *)
(* The process is single threaded.  What makes it hard is re-entrancy: a   *)
(* callback or binding script may issue requests, destroy or reconfigure   *)
(* sessions, or enter the event loop again, and only then does the C       *)
(* function that evaluated it go on.  `stack' holds the C functions that   *)
(* are suspended below the running script; one action of this module is    *)
(* the code between two points where a script runs.                        *)
(***************************************************************************)
EXTENDS Integers, Sequences, FiniteSets

CONSTANTS
    Sessions,      \* session structures the application may create
    Requests,      \* request identifiers; one is never drawn twice
    Windows,       \* values of the -window option
    Retries,       \* values of the -retries option
    Commands,      \* session commands used outside of callback scripts
    ScriptCommands,\* commands used inside of callback scripts; "update" stands
                   \* for all that enter the event loop
    Bindings,      \* bindings the sessions have: a subset of {"send", "recv"}
    MaxDepth,      \* bound on nested entries of the event loop
    NoSession, NoRequest

ASSUME EngineAssumption ==
    /\ IsFiniteSet(Requests)
    /\ Windows \subseteq Nat /\ Windows # {}
    /\ Retries \subseteq Nat /\ Retries # {}
    /\ NoSession \notin Sessions
    /\ NoRequest \notin Requests
    /\ MaxDepth \in Nat

VARIABLES
    status,    \* "none", "live" (in tnmSnmpList), "dead" (deleted)
    conf,      \* the options of a session
    active,    \* session->active, the requests on the wire
    waiting,   \* session->waiting, the requests held back
    queued,    \* the requests linked into the list at queueHead ...
    link,      \* ... in the order of these stamps (new ones go to the tail)
    owner,     \* request->session
    sends,     \* request->sends
    walking,   \* request->proc: AsyncWalkProc rather than ResponseProc
    used,      \* the request identifiers drawn so far
    calls,     \* how often the callback of a request was started
    scan,      \* the session on whose behalf the queue is being processed
    stack,     \* the suspended C functions, innermost last
    wild       \* freed memory was used; what happens next is undefined

sessionVars == <<status, conf, active, waiting>>
requestVars == <<queued, link, owner, sends, walking, used, calls>>
vars == <<sessionVars, requestVars, scan, stack, wild>>

Configs == [window : Windows, retries : Retries]

\* A script runs on top of the first three kinds of frame, the event loop on
\* top of the next two; "tail" is AsyncWalkProc past its callback.
ScriptKinds == {"callback", "recv", "send"}
WaitKinds == {"wait", "configure"}
Kinds == ScriptKinds \cup WaitKinds \cup {"tail"}

Frame == [kind : Kinds, session : Sessions, request : Requests \cup {NoRequest},
          walk : BOOLEAN, fresh : BOOLEAN, conf : Configs]

NoFrame == [kind |-> "none", fresh |-> TRUE]
Top == IF stack = <<>> THEN NoFrame ELSE stack[Len(stack)]
Pop == SubSeq(stack, 1, Len(stack) - 1)

MkFrame(kind, s, r, w) ==
    [kind |-> kind, session |-> s, request |-> r, walk |-> w,
     fresh |-> FALSE, conf |-> conf[s]]

\* Tcl_Preserve: every frame but that of "snmp# wait" holds its session.
Held(frames, s) ==
    \E i \in DOMAIN frames : frames[i].session = s /\ frames[i].kind # "wait"

\* Tcl_EventuallyFree: a deleted session is freed once nobody holds it.
Freed(frames, s) == status[s] = "dead" /\ ~Held(frames, s)

Own(s) == {r \in queued : owner[r] = s}
OnWire == {r \in queued : sends[r] > 0}
ActiveOf(s) == {r \in Own(s) : sends[r] > 0}
WaitingOf(s) == {r \in Own(s) : sends[r] = 0}
Linked == {r \in Requests : link[r] > 0}

-----------------------------------------------------------------------------
(* When code may run.                                                      *)

Quiet == scan = NoSession /\ ~wild

\* A script (or top level code, when nothing is suspended) is running.
InScript == Quiet /\ (stack = <<>> \/ Top.kind \in ScriptKinds)

MayCommand(c) ==
    /\ InScript
    /\ c \in (IF stack = <<>> THEN Commands ELSE ScriptCommands)

\* WaitSession() leaves its loop: the session is gone or has no request left.
WaitOver(s) == status[s] # "live" \/ active[s] + waiting[s] = 0

\* Events are taken by the main loop, by a script that enters the event loop
\* ("update", "vwait") and by WaitSession().
InEventLoop ==
    /\ Quiet
    /\ Len(stack) < MaxDepth
    /\ \/ stack = <<>>
       \/ Top.kind \in ScriptKinds /\ "update" \in ScriptCommands
       \/ Top.kind \in WaitKinds /\ Top.fresh /\ ~WaitOver(Top.session)

\* After an event WaitSession() looks at the queue again ("goto repeat").
Stale(frames) ==
    IF frames # <<>> /\ frames[Len(frames)].kind \in WaitKinds
    THEN [frames EXCEPT ![Len(frames)].fresh = FALSE]
    ELSE frames

-----------------------------------------------------------------------------
(* The queue.                                                              *)

\* The total number of active requests has reached the window of the session
\* the queue is processed for.
WindowFull(s) == conf[s].window # 0 /\ Cardinality(OnWire) >= conf[s].window

\* A waiting request whose own session has room in its window.
Eligible(r) ==
    /\ r \in queued
    /\ sends[r] = 0
    /\ \/ active[owner[r]] < conf[owner[r]].window
       \/ conf[owner[r]].window = 0

\* Mutant: the queue is not processed in order.
MutFirstEligible(r) == Eligible(r)

FirstEligible(r) ==
    Eligible(r) /\ \A q \in queued : Eligible(q) => link[r] <= link[q]

\* One activation by TnmSnmpQueueRequest(): the first send of a request.
Activate(r) ==
    /\ ~wild
    /\ scan # NoSession
    /\ ~WindowFull(scan)
    /\ FirstEligible(r)
    /\ IF Freed(stack, owner[r])
       THEN wild' = TRUE /\ UNCHANGED <<sends, active, waiting>>
       ELSE /\ sends' = [sends EXCEPT ![r] = 1]
            /\ active' = [active EXCEPT ![owner[r]] = @ + 1]
            /\ waiting' = [waiting EXCEPT ![owner[r]] = @ - 1]
            /\ wild' = wild
    /\ UNCHANGED <<status, conf, queued, link, owner, walking, used, calls,
                   scan, stack>>

\* TnmSnmpQueueRequest() returns: the window is full or nothing is eligible.
ScanDone ==
    /\ ~wild
    /\ scan # NoSession
    /\ WindowFull(scan) \/ ~ \E r \in queued : Eligible(r)
    /\ scan' = NoSession
    /\ UNCHANGED <<sessionVars, requestVars, stack, wild>>

\* TnmSnmpCreateRequest() and the append in TnmSnmpQueueRequest(); the
\* activation loop follows.
Enqueue(s, r, w) ==
    /\ queued' = queued \cup {r}
    /\ link' = [link EXCEPT ![r] = Cardinality(Linked) + 1]
    /\ owner' = [owner EXCEPT ![r] = s]
    /\ sends' = [sends EXCEPT ![r] = 0]
    /\ walking' = [walking EXCEPT ![r] = w]
    /\ waiting' = [waiting EXCEPT ![s] = @ + 1]
    /\ scan' = s

\* Mutants: the counters are not updated; the queue is not processed
\* when a request leaves it.
MutDeleteCounts(r) ==
    /\ queued' = queued \ {r}
    /\ scan' = IF status[owner[r]] = "live" THEN owner[r] ELSE scan
    /\ active' = active
    /\ waiting' = waiting

MutDeleteNoScan(r) ==
    /\ queued' = queued \ {r}
    /\ active' = IF status[owner[r]] = "live"
                 THEN [active EXCEPT ![owner[r]] = @ - 1] ELSE active
    /\ UNCHANGED <<waiting, scan>>

\* TnmSnmpDeleteRequest() for a request that is still linked.
DeleteRequest(r) ==
    LET s == owner[r] IN
    /\ queued' = queued \ {r}
    /\ IF status[s] # "live"
       THEN UNCHANGED <<active, waiting, scan>>
       ELSE /\ scan' = s
            /\ IF sends[r] > 0
               THEN active' = [active EXCEPT ![s] = @ - 1] /\ waiting' = waiting
               ELSE waiting' = [waiting EXCEPT ![s] = @ - 1] /\ active' = active

\* Mutant: the callback runs while the request is still queued.
MutComplete(frames, r, more) ==
    /\ calls' = [calls EXCEPT ![r] = @ + 1]
    /\ stack' = Append(frames, MkFrame("callback", owner[r], r, more))
    /\ UNCHANGED <<queued, active, waiting, scan>>

\* Hand the answer (or the lack of one) to the application: the request is
\* deleted before its callback runs, and both structures are preserved.
Complete(frames, r, more) ==
    /\ DeleteRequest(r)
    /\ calls' = [calls EXCEPT ![r] = @ + 1]
    /\ stack' = Append(frames, MkFrame("callback", owner[r], r, more))

-----------------------------------------------------------------------------
(* Session commands.                                                       *)

\* snmp generator -window w -retries n
CreateSession(s, c) ==
    /\ InScript
    /\ status[s] = "none"
    /\ status' = [status EXCEPT ![s] = "live"]
    /\ conf' = [conf EXCEPT ![s] = c]
    /\ UNCHANGED <<active, waiting, requestVars, scan, stack, wild>>

\* TnmSnmpEncode() for an asynchronous request: the send binding is evaluated
\* after the identifier was drawn and before the request is queued.
Encode(s, r, w, frames) ==
    /\ used' = used \cup {r}
    /\ IF "send" \in Bindings
       THEN /\ stack' = Append(frames, MkFrame("send", s, r, w))
            /\ UNCHANGED <<queued, link, owner, sends, walking, waiting, scan>>
       ELSE /\ Enqueue(s, r, w)
            /\ stack' = frames
    /\ UNCHANGED <<status, conf, active, calls, wild>>

\* snmp# get vbl script, and getnext, getbulk and set with a script
Request(s) ==
    /\ MayCommand("get")
    /\ status[s] = "live"
    /\ \E r \in Requests \ used : Encode(s, r, FALSE, stack)

\* snmp# walk vbl script
AsyncWalk(s) ==
    /\ MayCommand("walk")
    /\ status[s] = "live"
    /\ \E r \in Requests \ used : Encode(s, r, TRUE, stack)

\* The send binding returns and TnmSnmpEncode() queues the request.
SendReturn ==
    LET f == Top
        s == f.session
    IN /\ Quiet
       /\ f.kind = "send"
       /\ stack' = Pop
       /\ IF Freed(Pop, s)
          THEN wild' = TRUE /\ UNCHANGED <<queued, link, owner, sends, walking,
                                           waiting, scan>>
          ELSE Enqueue(s, f.request, f.walk) /\ wild' = wild
       /\ UNCHANGED <<status, conf, active, used, calls>>

MutDestroyActive(s) ==
    /\ MayCommand("destroy")
    /\ status[s] = "live"
    /\ status' = [status EXCEPT ![s] = "dead"]
    /\ queued' = queued \ ActiveOf(s)
    /\ UNCHANGED <<conf, active, waiting, link, owner, sends, walking, used,
                   calls, scan, stack, wild>>

\* snmp# destroy: DeleteProc() and TnmSnmpDeleteSession()
Destroy(s) ==
    /\ MayCommand("destroy")
    /\ status[s] = "live"
    /\ status' = [status EXCEPT ![s] = "dead"]
    /\ queued' = queued \ Own(s)
    /\ UNCHANGED <<conf, active, waiting, link, owner, sends, walking, used,
                   calls, scan, stack, wild>>

\* snmp# wait, and the wait at the start of snmp# configure
WaitSession(s) ==
    /\ MayCommand("wait")
    /\ Len(stack) < MaxDepth
    /\ status[s] = "live"
    /\ stack' = Append(stack, MkFrame("wait", s, NoRequest, FALSE))
    /\ UNCHANGED <<sessionVars, requestVars, scan, wild>>

Configure(s, c) ==
    /\ MayCommand("configure")
    /\ Len(stack) < MaxDepth
    /\ status[s] = "live"
    /\ stack' = Append(stack, [MkFrame("configure", s, NoRequest, FALSE)
                               EXCEPT !.conf = c])
    /\ UNCHANGED <<sessionVars, requestVars, scan, wild>>

\* WaitSession() calls TnmSnmpQueueRequest(session, NULL) before each event.
WaitRescan ==
    LET f == Top IN
    /\ Quiet
    /\ f.kind \in WaitKinds /\ ~f.fresh
    /\ stack' = [stack EXCEPT ![Len(stack)].fresh = TRUE]
    /\ scan' = IF status[f.session] = "live" THEN f.session ELSE NoSession
    /\ UNCHANGED <<sessionVars, requestVars, wild>>

\* The wait is over; configure then changes the options, of a session that
\* may have been deleted meanwhile but is preserved.
WaitExit ==
    LET f == Top IN
    /\ Quiet
    /\ f.kind \in WaitKinds /\ f.fresh /\ WaitOver(f.session)
    /\ stack' = Pop
    /\ conf' = IF f.kind = "configure" THEN [conf EXCEPT ![f.session] = f.conf]
                                       ELSE conf
    /\ UNCHANGED <<status, active, waiting, requestVars, scan, wild>>

-----------------------------------------------------------------------------
(* Events.                                                                 *)

MutTimeoutForever(r) ==
    /\ InEventLoop
    /\ r \in OnWire
    /\ stack' = Stale(stack)
    /\ UNCHANGED <<sessionVars, requestVars, scan, wild>>

\* TnmSnmpTimeoutProc(): retransmit, or give up with noResponse.
TimeoutProc(r) ==
    LET s == owner[r] IN
    /\ InEventLoop
    /\ r \in OnWire
    /\ IF Freed(stack, s)
       THEN wild' = TRUE /\ UNCHANGED <<active, waiting, queued, sends, calls,
                                        scan, stack>>
       ELSE /\ wild' = wild
            /\ IF sends[r] < 1 + conf[s].retries
               THEN /\ sends' = [sends EXCEPT ![r] = @ + 1]
                    /\ stack' = Stale(stack)
                    /\ UNCHANGED <<active, waiting, queued, calls, scan>>
               ELSE Complete(Stale(stack), r, FALSE) /\ sends' = sends
    /\ UNCHANGED <<status, conf, link, owner, walking, used>>

\* TnmSnmpDecode() for an authentic response to a queued request: the recv
\* binding first, if there is one.  `more' tells whether a walk goes on.
ResponseProc(r, more) ==
    LET s == owner[r] IN
    /\ InEventLoop
    /\ r \in OnWire
    /\ more => walking[r]
    /\ IF Freed(stack, s)
       THEN wild' = TRUE /\ UNCHANGED <<active, waiting, queued, calls, scan, stack>>
       ELSE /\ wild' = wild
            /\ IF "recv" \in Bindings
               THEN /\ stack' = Append(Stale(stack), MkFrame("recv", s, r, more))
                    /\ UNCHANGED <<active, waiting, queued, calls, scan>>
               ELSE Complete(Stale(stack), r, more)
    /\ UNCHANGED <<status, conf, link, owner, sends, walking, used>>

\* The recv binding returns.  TnmSnmpDecode() goes on with the request it
\* looked up before, which the binding may have caused to be freed.
RecvReturn ==
    LET f == Top IN
    /\ Quiet
    /\ f.kind = "recv"
    /\ IF f.request \notin queued
       THEN /\ wild' = TRUE
            /\ stack' = Pop
            /\ UNCHANGED <<active, waiting, queued, calls, scan>>
       ELSE Complete(Pop, f.request, f.walk) /\ wild' = wild
    /\ UNCHANGED <<status, conf, link, owner, sends, walking, used>>

\* A callback returns.  AsyncWalkProc() then sends the next request of the
\* walk (as long as identifiers are left), its session still preserved.
CallbackReturn ==
    LET f == Top
        s == f.session
    IN /\ Quiet
       /\ f.kind = "callback"
       /\ IF f.walk /\ Requests # used
          THEN \E r \in Requests \ used :
                 Encode(s, r, TRUE, Append(Pop, [f EXCEPT !.kind = "tail"]))
          ELSE /\ stack' = Pop
               /\ UNCHANGED <<sessionVars, requestVars, scan, wild>>

\* AsyncWalkProc() returns and the session is released.
TailReturn ==
    /\ Quiet
    /\ Top.kind = "tail"
    /\ stack' = Pop
    /\ UNCHANGED <<sessionVars, requestVars, scan, wild>>

-----------------------------------------------------------------------------
Init ==
    /\ status = [s \in Sessions |-> "none"]
    /\ conf \in [Sessions -> {CHOOSE c \in Configs : TRUE}]
    /\ active = [s \in Sessions |-> 0]
    /\ waiting = [s \in Sessions |-> 0]
    /\ queued = {}
    /\ link = [r \in Requests |-> 0]
    /\ owner = [r \in Requests |-> NoSession]
    /\ sends = [r \in Requests |-> 0]
    /\ walking = [r \in Requests |-> FALSE]
    /\ used = {}
    /\ calls = [r \in Requests |-> 0]
    /\ scan = NoSession
    /\ stack = <<>>
    /\ wild = FALSE

Returns == SendReturn \/ RecvReturn \/ CallbackReturn \/ TailReturn
Queueing == ScanDone \/ \E r \in Requests : Activate(r)
Waiting == WaitRescan \/ WaitExit

Work ==
    \/ \E s \in Sessions, c \in Configs : CreateSession(s, c) \/ Configure(s, c)
    \/ \E s \in Sessions : Request(s) \/ AsyncWalk(s) \/ WaitSession(s)
    \/ \E r \in Requests : TimeoutProc(r)
    \/ \E r \in Requests, more \in BOOLEAN : ResponseProc(r, more)
    \/ Queueing
    \/ Waiting
    \/ Returns

Next == Work \/ \E s \in Sessions : Destroy(s)

Spec == Init /\ [][Next]_vars

\* C code runs on, scripts return, and timers expire: top level code comes
\* back to the event loop however often it calls "snmp# wait" in between.
Fairness ==
    /\ WF_vars(Queueing)
    /\ WF_vars(Waiting)
    /\ WF_vars(Returns)
    /\ \A r \in Requests : SF_vars(TimeoutProc(r))

FairSpec == Spec /\ Fairness

-----------------------------------------------------------------------------
(* Properties.                                                             *)

TypeOK ==
    /\ status \in [Sessions -> {"none", "live", "dead"}]
    /\ conf \in [Sessions -> Configs]
    /\ active \in [Sessions -> Int]
    /\ waiting \in [Sessions -> Int]
    /\ queued \in SUBSET used
    /\ used \in SUBSET Requests
    /\ link \in [Requests -> Nat]
    /\ owner \in [Requests -> Sessions \cup {NoSession}]
    /\ sends \in [Requests -> Nat]
    /\ walking \in [Requests -> BOOLEAN]
    /\ calls \in [Requests -> Nat]
    /\ scan \in Sessions \cup {NoSession}
    /\ stack \in Seq(Frame)
    /\ wild \in BOOLEAN
    /\ \A r \in queued : owner[r] \in Sessions

\* The counters TnmSnmpQueueRequest() and WaitSession() decide by agree with
\* the queue, whatever callbacks did to it.
CountersMatchQueue ==
    \A s \in Sessions : status[s] = "live" =>
        /\ active[s] = Cardinality(ActiveOf(s))
        /\ waiting[s] = Cardinality(WaitingOf(s))

\* -window: a session never has more requests on the wire than its window,
\* across activations by other sessions and changes of the option.
WindowRespected ==
    \A s \in Sessions : status[s] = "live" /\ conf[s].window # 0 =>
        Cardinality(ActiveOf(s)) <= conf[s].window

\* -retries: a request is transmitted at most once plus the number of retries
\* its session is configured for now.
SendsBounded ==
    \A r \in queued : status[owner[r]] = "live" =>
        sends[r] <= 1 + conf[owner[r]].retries

\* What TnmSnmpQueueRequest() promises of the queue: right counters, and both
\* the window and the number of retransmissions kept.
QueueDiscipline == CountersMatchQueue /\ WindowRespected /\ SendsBounded

\* "The queue is processed in FIFO order": no request of a session is on the
\* wire while an earlier one of that session is still held back.
SessionFifo ==
    \A q, r \in queued :
        owner[q] = owner[r] /\ link[q] < link[r] /\ sends[r] > 0 => sends[q] > 0

\* A request is removed before its callback runs, so that events processed by
\* the callback do not complete it again.
CompletedOnce == \A r \in Requests : calls[r] <= 1 /\ (r \in queued => calls[r] = 0)

\* Tcl_Preserve() and the checks in TnmSnmpDeleteRequest() keep the engine
\* away from requests and sessions that were freed by a script.
NoUseAfterFree == ~wild

\* snmp# destroy: "outstanding asynchronous requests are cancelled".
DestroyCancels == \A r \in queued : status[owner[r]] = "live"

\* Whatever a script destroys, nothing of it is left in the queue and the engine
\* never touches it again.
DestroyedSafely == NoUseAfterFree /\ DestroyCancels

\* Some timer is running whenever a request is held back, so that the queue is
\* processed again.
NoStall == Quiet => (queued # {} => OnWire # {})

\* The options of a session do not change under a pending request.
ConfiguredWhenIdle ==
    [][\A s \in Sessions :
         conf'[s] # conf[s] /\ status[s] = "live" => Own(s) = {}]_vars

\* "processes callback scripts once an answer for an asynchronous request is
\* received or the request times out": no request stays queued for ever.
RequestsComplete == \A r \in Requests : r \in queued ~> r \notin queued

\* snmp# wait and snmp# configure return.
WaitReturns == [](stack # <<>> => <>(stack = <<>>))
=============================================================================
