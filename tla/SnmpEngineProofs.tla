-------------------------- MODULE SnmpEngineProofs --------------------------
(***************************************************************************)
(* Proofs about SnmpEngine for any number of sessions and requests, any    *)
(* nesting of callbacks and any use of the commands and bindings.  The     *)
(* invariant IInv is defined in SnmpEngineLemmas; every action has one     *)
(* lemma here, and the properties follow.                                  *)
(***************************************************************************)
EXTENDS SnmpEngineLemmas

-----------------------------------------------------------------------------
(* The invariant.                                                          *)

\* No request is queued and no function suspended at the start.
LEMMA InitInv == Init => IInv
  <1> SUFFICES ASSUME Init PROVE IInv
    OBVIOUS
  <1> USE DEF Init
  <1>0. conf \in [Sessions -> Configs]
    <2>1. Configs # {}
      <3>1. PICK w \in Windows, n \in Retries : TRUE
        BY ZenonT(40), EngineAssumption DEF EngineAssumption
      <3>2. [window |-> w, retries |-> n] \in Configs
        BY <3>1 DEF Configs
      <3> QED
        BY <3>2
    <2>2. (CHOOSE c \in Configs : TRUE) \in Configs
      BY <2>1
    <2> QED
      BY <2>2
  <1>1. QueueTypeOK
    <2>1. /\ status \in [Sessions -> {"none", "live", "dead"}]
          /\ active \in [Sessions -> Int] /\ waiting \in [Sessions -> Int]
          /\ link \in [Requests -> Nat] /\ sends \in [Requests -> Nat]
          /\ calls \in [Requests -> Nat]
      OBVIOUS
    <2>2. owner \in [Requests -> Sessions \cup {NoSession}]
      OBVIOUS
    <2>3. walking \in [Requests -> BOOLEAN] /\ wild \in BOOLEAN
      BY Zenon
    <2> QED
      BY <1>0, <2>1, <2>2, <2>3 DEF QueueTypeOK
  <1>6. Owned /\ Untouched
    BY DEF Owned, Untouched
  <1>2. CountersMatchQueue /\ ActiveBounded /\ SendsBounded /\ SessionFifo
    BY DEF CountersMatchQueue, ActiveBounded, SendsBounded, SessionFifo
  <1>3. LinksBounded
    <2>1. Linked = {}
      BY DEF Linked
    <2> QED
      BY <2>1, FS_EmptySet DEF LinksBounded
  <1>4. UnusedNotCalled /\ CompletedOnce
    BY DEF UnusedNotCalled, CompletedOnce
  <1>5. StackInv
    <2>1. stack \in Seq(Frame) /\ Len(stack) = 0
      BY EmptySeq
    <2> QED
      BY <2>1 DEF StackInv, Frames
  <1> QED
    BY <1>1, <1>2, <1>3, <1>4, <1>5, <1>6 DEF IInv, QueueInv

\* Steps of the engine that touch neither sessions nor requests.
LEMMA StackStep ==
    ASSUME QueueInv, Frames(stack', status, used, queued, calls, link),
           UNCHANGED <<sessionVars, requestVars>>,
           scan' \in Sessions \cup {NoSession}, wild' \in BOOLEAN
    PROVE  IInv'
  <1>1. QueueInv'
    BY IdleInv DEF sessionVars
  <1>2. StackInv'
    BY DEF StackInv, sessionVars, requestVars
  <1> QED
    BY <1>1, <1>2 DEF IInv

LEMMA CommandStep ==
    ASSUME IInv, NEW s \in Sessions, NEW c \in Configs,
           \/ CreateSession(s, c) \/ Configure(s, c)
           \/ Request(s) \/ AsyncWalk(s) \/ Destroy(s) \/ WaitSession(s)
    PROVE  IInv'
  <1> USE DEF IInv
  <1>1. CASE CreateSession(s, c)
    <2>1. QueueInv'
      BY <1>1, CreateInv
    <2>2. /\ UNCHANGED <<used, queued, calls, link, stack>>
          /\ \A t \in Sessions : status[t] # "none" => status'[t] # "none"
      BY <1>1 DEF CreateSession, requestVars, QueueInv, QueueTypeOK
    <2>3. Frames(stack, status', used', queued', calls', link')
      <3>1. \A i \in 1..Len(stack) : stack[i].kind = "send" =>
              stack[i].request \notin queued
        BY ZenonT(40) DEF StackInv, Frames
      <3> QED
        BY ZenonT(40), <2>2, <3>1, FramesStep DEF StackInv
    <2>4. StackInv'
      BY <2>2, <2>3 DEF StackInv
    <2> QED
      BY <2>1, <2>4
  <1>2. CASE Configure(s, c)
    <2> DEFINE f == [MkFrame("configure", s, NoRequest, FALSE) EXCEPT !.conf = c]
    <2>1. f \in Frame /\ f.kind = "configure" /\ f.session = s
      BY ZenonT(40), MkFrameType DEF MkFrame, Frame, QueueInv, Kinds, WaitKinds
    <2>2. status[s] # "none" /\ stack' = Append(stack, f)
      BY <1>2 DEF Configure
    <2> HIDE DEF f
    <2>3. Frames(stack', status, used, queued, calls, link)
      BY ZenonT(40), <2>1, <2>2, FramesPush DEF StackInv
    <2> QED
      BY <1>2, <2>3, StackStep DEF Configure, QueueInv, QueueTypeOK
  <1>3. CASE Request(s)
    BY ZenonT(40), <1>3, EncodeInv DEF Request, StackInv
  <1>4. CASE AsyncWalk(s)
    BY ZenonT(40), <1>4, EncodeInv DEF AsyncWalk, StackInv
  <1>5. CASE Destroy(s)
    <2>1. QueueInv'
      BY <1>5, DestroyInv
    <2>2. /\ UNCHANGED <<used, calls, link, stack>>
          /\ queued' \subseteq queued
          /\ \A t \in Sessions : status[t] # "none" => status'[t] # "none"
      BY <1>5 DEF Destroy, QueueInv, QueueTypeOK
    <2>3. Frames(stack, status', used', queued', calls', link')
      <3>1. \A i \in 1..Len(stack) : stack[i].kind = "send" =>
              stack[i].request \notin queued'
        BY ZenonT(40), <2>2 DEF StackInv, Frames
      <3> QED
        BY ZenonT(40), <2>2, <3>1, FramesStep DEF StackInv
    <2>4. StackInv'
      BY <2>2, <2>3 DEF StackInv
    <2> QED
      BY <2>1, <2>4
  <1>6. CASE WaitSession(s)
    <2> DEFINE f == MkFrame("wait", s, NoRequest, FALSE)
    <2>1. f \in Frame /\ f.kind = "wait" /\ f.session = s
      <3>1. "wait" \in Kinds /\ NoRequest \in Requests \cup {NoRequest} /\ QueueTypeOK
        BY DEF Kinds, WaitKinds, QueueInv
      <3> QED
        BY ZenonT(40), <3>1, MkFrameType
    <2>2. status[s] # "none" /\ stack' = Append(stack, f)
      BY <1>6 DEF WaitSession
    <2> HIDE DEF f
    <2>3. Frames(stack', status, used, queued, calls, link)
      BY ZenonT(40), <2>1, <2>2, FramesPush DEF StackInv
    <2> QED
      BY <1>6, <2>3, StackStep DEF WaitSession, QueueInv, QueueTypeOK
  <1> QED
    BY <1>1, <1>2, <1>3, <1>4, <1>5, <1>6

LEMMA QueueingStep ==
    ASSUME IInv, Queueing
    PROVE  IInv'
  <1> USE DEF IInv
  <1>1. CASE ScanDone
    BY <1>1, StackStep DEF ScanDone, StackInv, QueueInv, QueueTypeOK
  <1>2. ASSUME NEW r \in Requests, Activate(r) PROVE IInv'
    <2>1. QueueInv'
      BY <1>2, ActivateInv
    <2>2. StackInv'
      BY <1>2 DEF Activate, StackInv
    <2> QED
      BY <2>1, <2>2
  <1> QED
    BY <1>1, <1>2 DEF Queueing

LEMMA WaitingStep ==
    ASSUME IInv, Waiting
    PROVE  IInv'
  <1> USE DEF IInv
  <1>0. Top.kind \in Kinds
    BY DEF Waiting, WaitRescan, WaitExit, Kinds
  <1>1. CASE WaitRescan
    <2>1. Frames(stack', status, used, queued, calls, link)
      BY ZenonT(40), <1>0, <1>1, TopFrame, FramesMark DEF WaitRescan, StackInv
    <2>2. scan' \in Sessions \cup {NoSession} /\ wild' \in BOOLEAN
      BY <1>0, <1>1, TopFrame DEF WaitRescan, QueueInv, QueueTypeOK
    <2> QED
      BY <1>1, <2>1, <2>2, StackStep DEF WaitRescan
  <1>2. CASE WaitExit
    <2>1. /\ Top.session \in Sessions /\ status[Top.session] # "none"
          /\ Frames(Pop, status, used, queued, calls, link)
          /\ Top.conf \in Configs
      BY ZenonT(40), <1>0, TopFrame DEF Frame
    <2>2. /\ stack' = Pop /\ WaitOver(Top.session)
          /\ UNCHANGED <<status, active, waiting, requestVars, scan, wild>>
      BY <1>2 DEF WaitExit
    <2>3. StackInv'
      BY <2>1, <2>2 DEF StackInv, requestVars
    <2>4. CASE Top.kind = "configure"
      <3>1. conf' = [conf EXCEPT ![Top.session] = Top.conf]
        BY <1>2, <2>4 DEF WaitExit
      <3>2. QueueInv'
        BY ZenonT(40), <2>1, <2>2, <3>1, ConfigureInv
      <3> QED
        BY <2>3, <3>2
    <2>5. CASE Top.kind # "configure"
      <3>1. conf' = conf
        BY <1>2, <2>5 DEF WaitExit
      <3>2. scan' \in Sessions \cup {NoSession} /\ wild' \in BOOLEAN
        BY <2>2 DEF QueueInv, QueueTypeOK
      <3>3. QueueInv'
        BY <2>2, <3>1, <3>2, IdleInv
      <3> QED
        BY <2>3, <3>3
    <2> QED
      BY <2>4, <2>5
  <1> QED
    BY <1>1, <1>2 DEF Waiting

LEMMA EventStep ==
    ASSUME IInv, NEW r \in Requests, NEW more \in BOOLEAN,
           TimeoutProc(r) \/ ResponseProc(r, more)
    PROVE  IInv'
  <1> USE DEF IInv
  <1>0. r \in OnWire /\ r \in queued /\ owner[r] \in Sessions
        /\ status[owner[r]] # "none"
    BY ZenonT(40) DEF TimeoutProc, ResponseProc, OnWire, QueueInv, Owned
  <1>1. Frames(Stale(stack), status, used, queued, calls, link)
    BY StaleFrames
  <1>2. CASE Freed(stack, owner[r])
    <2>1. /\ UNCHANGED <<status, conf, active, waiting, queued, link, owner, walking,
                         used, calls, scan, stack>>
          /\ wild' \in BOOLEAN
      BY ZenonT(40), <1>2 DEF TimeoutProc, ResponseProc
    <2>2. sends' = sends
      BY <1>2 DEF TimeoutProc, ResponseProc
    <2>3. scan' \in Sessions \cup {NoSession}
      BY <2>1 DEF QueueInv, QueueTypeOK
    <2>4. QueueInv'
      BY <2>1, <2>2, <2>3, IdleInv DEF requestVars
    <2> QED
      BY <2>1, <2>4 DEF StackInv
  <1>3. CASE TimeoutProc(r) /\ ~Freed(stack, owner[r])
    <2>0. UNCHANGED <<status, conf, link, owner, walking, used, wild>>
      BY ZenonT(40), <1>3 DEF TimeoutProc
    <2>1. CASE sends[r] < 1 + conf[owner[r]].retries
      <3>1. /\ sends' = [sends EXCEPT ![r] = @ + 1]
            /\ stack' = Stale(stack)
            /\ UNCHANGED <<active, waiting, queued, calls, scan>>
        BY ZenonT(40), <1>3, <2>1 DEF TimeoutProc
      <3>2. QueueInv'
        BY ZenonT(40), <1>0, <2>0, <2>1, <3>1, ResendInv
      <3>3. StackInv'
        BY <1>1, <2>0, <3>1 DEF StackInv
      <3> QED
        BY <3>2, <3>3
    <2>2. CASE ~(sends[r] < 1 + conf[owner[r]].retries)
      <3>1. Complete(Stale(stack), r, FALSE) /\ sends' = sends
        BY ZenonT(40), <1>3, <2>2 DEF TimeoutProc
      <3> QED
        BY ZenonT(40), <1>0, <1>1, <2>0, <3>1, CompleteInv DEF Complete
    <2> QED
      BY <2>1, <2>2
  <1>4. CASE ResponseProc(r, more) /\ ~Freed(stack, owner[r])
    <2>0. UNCHANGED <<status, conf, link, owner, sends, walking, used, wild>>
      BY ZenonT(40), <1>4 DEF ResponseProc
    <2>1. CASE "recv" \in Bindings
      <3> DEFINE f == MkFrame("recv", owner[r], r, more)
      <3>1. /\ stack' = Append(Stale(stack), f)
            /\ UNCHANGED <<active, waiting, queued, calls, scan>>
        BY <1>4, <2>1 DEF ResponseProc
      <3>2. f \in Frame /\ f.kind # "send" /\ status[f.session] # "none"
        <4>1. "recv" \in Kinds /\ r \in Requests \cup {NoRequest} /\ QueueTypeOK
          BY DEF Kinds, ScriptKinds, QueueInv
        <4>2. owner[r] \in Sessions /\ status[owner[r]] # "none"
          BY <1>0
        <4>3. f \in Frame /\ f.kind = "recv" /\ f.session = owner[r]
          <5> HIDE DEF IInv
          <5> QED
            BY ONLY <4>1, <4>2, MkFrameType, r \in Requests, more \in BOOLEAN
        <4> QED
          BY <4>2, <4>3
      <3> HIDE DEF f
      <3>3. Frames(stack', status, used, queued, calls, link)
        BY ZenonT(40), <1>1, <3>1, <3>2, FramesPush
      <3>4. scan' \in Sessions \cup {NoSession} /\ wild' \in BOOLEAN
        BY <2>0, <3>1 DEF QueueInv, QueueTypeOK
      <3> QED
        BY <2>0, <3>1, <3>3, <3>4, StackStep DEF sessionVars, requestVars
    <2>2. CASE "recv" \notin Bindings
      <3>1. Complete(Stale(stack), r, more)
        BY ZenonT(40), <1>4, <2>2 DEF ResponseProc
      <3> QED
        BY ZenonT(40), <1>0, <1>1, <2>0, <3>1, CompleteInv DEF Complete
    <2> QED
      BY <2>1, <2>2
  <1> QED
    BY <1>2, <1>3, <1>4

LEMMA ReturnStep ==
    ASSUME IInv, Returns
    PROVE  IInv'
  <1> USE DEF IInv
  <1>0. Top.kind \in Kinds
    BY ZenonT(40) DEF Returns, SendReturn, RecvReturn, CallbackReturn, TailReturn, Kinds, ScriptKinds
  <1>1. /\ stack # <<>> /\ Len(stack) \in Nat /\ Len(stack) > 0
        /\ Top = stack[Len(stack)]
        /\ Top \in Frame /\ Top.session \in Sessions
        /\ Top.request \in Requests \cup {NoRequest} /\ Top.walk \in BOOLEAN
        /\ status[Top.session] # "none"
        /\ Frames(Pop, status, used, queued, calls, link)
    BY ZenonT(40), <1>0, TopFrame DEF Frame
  <1>2. CASE SendReturn
    <2>0. /\ Top.kind = "send" /\ stack' = Pop
          /\ UNCHANGED <<status, conf, active, used, calls>>
      BY <1>2 DEF SendReturn
    <2>1. CASE Freed(Pop, Top.session)
      <3>1. wild' = TRUE /\ UNCHANGED <<queued, link, owner, sends, walking, waiting, scan>>
        BY <1>2, <2>1 DEF SendReturn
      <3>2. scan' \in Sessions \cup {NoSession} /\ wild' \in BOOLEAN
        BY <3>1 DEF QueueInv, QueueTypeOK
      <3> QED
        BY ZenonT(40), <1>1, <2>0, <3>1, <3>2, StackStep DEF sessionVars, requestVars
    <2>2. CASE ~Freed(Pop, Top.session)
      <3> DEFINE r == Top.request
                 n == Len(stack)
      <3>1. Enqueue(Top.session, r, Top.walk) /\ wild' = wild
        BY <1>2, <2>2 DEF SendReturn
      <3>2. r \in used /\ r \notin queued /\ calls[r] = 0 /\ link[r] = 0
        BY <1>1, <2>0 DEF StackInv, Frames
      <3>3. \A i \in 1..Len(Pop) : Pop[i].kind = "send" => Pop[i].request # r
        <4>1. /\ Len(Pop) = n - 1 /\ \A i \in 1..Len(Pop) : Pop[i] = stack[i]
          BY <1>1, FramesPop DEF StackInv, Pop
        <4>2. \A i \in 1..Len(Pop) : i \in 1..n /\ n \in 1..n /\ i # n
          BY <1>1, <4>1
        <4>3. \A i \in 1..n : stack[i].kind = "send" /\ i # n =>
                 stack[i].request # stack[n].request
          BY <1>1, <2>0, <4>2 DEF StackInv, Frames
        <4> QED
          BY <1>1, <4>1, <4>2, <4>3
      <3>4. used' \in SUBSET Requests /\ used \subseteq used' /\ r \in used' /\ r \in Requests
        BY <2>0, <3>2 DEF QueueInv, QueueTypeOK
      <3> HIDE DEF r
      <3> QED
        BY <1>1, <2>0, <3>1, <3>2, <3>3, <3>4, EnqueueStep
    <2> QED
      BY <2>1, <2>2
  <1>3. CASE RecvReturn
    <2>0. UNCHANGED <<status, conf, link, owner, sends, walking, used>>
      BY <1>3 DEF RecvReturn
    <2>1. CASE Top.request \notin queued
      <3>1. /\ wild' = TRUE /\ stack' = Pop
            /\ UNCHANGED <<active, waiting, queued, calls, scan>>
        BY <1>3, <2>1 DEF RecvReturn
      <3>2. scan' \in Sessions \cup {NoSession} /\ wild' \in BOOLEAN
        BY <3>1 DEF QueueInv, QueueTypeOK
      <3> QED
        BY <1>1, <2>0, <3>1, <3>2, StackStep DEF sessionVars, requestVars
    <2>2. CASE Top.request \in queued
      <3>1. Complete(Pop, Top.request, Top.walk) /\ wild' = wild
        BY <1>3, <2>2 DEF RecvReturn
      <3> QED
        BY ZenonT(40), <1>1, <2>0, <2>2, <3>1, CompleteInv DEF Complete
    <2> QED
      BY <2>1, <2>2
  <1>4. CASE CallbackReturn
    <2>1. CASE Top.walk /\ Requests # used
      <3> DEFINE fr == Append(Pop, [Top EXCEPT !.kind = "tail"])
      <3>1. PICK r \in Requests \ used : Encode(Top.session, r, TRUE, fr)
        BY ZenonT(40), <1>4, <2>1 DEF CallbackReturn
      <3>2. Frames(fr, status, used, queued, calls, link)
        <4> DEFINE f == [Top EXCEPT !.kind = "tail"]
        <4>1. f \in Frame /\ f.kind # "send" /\ f.session = Top.session
          BY <1>1 DEF Frame, Kinds
        <4> HIDE DEF f
        <4>2. Frames(Append(Pop, f), status, used, queued, calls, link)
          BY <1>1, <4>1, FramesPush
        <4> QED
          BY <1>1, <4>2 DEF f
      <3> HIDE DEF fr
      <3> QED
        BY ZenonT(40), <1>1, <3>1, <3>2, EncodeInv
    <2>2. CASE ~(Top.walk /\ Requests # used)
      <3>1. stack' = Pop /\ UNCHANGED <<sessionVars, requestVars, scan, wild>>
        BY ZenonT(40), <1>4, <2>2 DEF CallbackReturn
      <3> QED
        BY ZenonT(40), <1>1, <3>1, StackStep DEF QueueInv, QueueTypeOK
    <2> QED
      BY <2>1, <2>2
  <1>5. CASE TailReturn
    BY ZenonT(40), <1>1, <1>5, StackStep DEF TailReturn, QueueInv, QueueTypeOK
  <1> QED
    BY <1>2, <1>3, <1>4, <1>5 DEF Returns

LEMMA NextInv == IInv /\ [Next]_vars => IInv'
  <1> SUFFICES ASSUME IInv, [Next]_vars PROVE IInv'
    OBVIOUS
  <1>1. ASSUME NEW s \in Sessions, NEW c \in Configs, CreateSession(s, c) \/ Configure(s, c)
        PROVE  IInv'
    BY <1>1, CommandStep
  <1>2. ASSUME NEW s \in Sessions,
               Request(s) \/ AsyncWalk(s) \/ Destroy(s) \/ WaitSession(s)
        PROVE  IInv'
    <2>1. conf[s] \in Configs
      BY DEF IInv, QueueInv, QueueTypeOK
    <2> QED
      BY <1>2, <2>1, CommandStep
  <1>3. ASSUME NEW r \in Requests, TimeoutProc(r) PROVE IInv'
    <2>1. FALSE \in BOOLEAN
      OBVIOUS
    <2> QED
      BY ZenonT(40), <1>3, <2>1, EventStep
  <1>4. ASSUME NEW r \in Requests, NEW more \in BOOLEAN, ResponseProc(r, more) PROVE IInv'
    BY <1>4, EventStep
  <1>5. CASE Queueing
    BY <1>5, QueueingStep
  <1>6. CASE Waiting
    BY <1>6, WaitingStep
  <1>7. CASE Returns
    BY <1>7, ReturnStep
  <1>8. CASE UNCHANGED vars
    <2>1. UNCHANGED <<sessionVars, requestVars, scan, stack, wild>>
      BY <1>8 DEF vars
    <2> QED
      BY <2>1, StackStep DEF IInv, StackInv, QueueInv, QueueTypeOK
  <1> QED
    BY <1>1, <1>2, <1>3, <1>4, <1>5, <1>6, <1>7, <1>8 DEF Next, Work

\* The inductive invariant holds in every reachable state.
THEOREM InvariantHolds == Spec => []IInv
  BY InitInv, NextInv, PTL DEF Spec

-----------------------------------------------------------------------------
(* What it gives.                                                          *)

\* The state is well typed whatever scripts do, the suspended functions and
\* the owners of queued requests included.
THEOREM TypeCorrect == Spec => []TypeOK
  <1>1. IInv => TypeOK
    BY ZenonT(40) DEF IInv, QueueInv, QueueTypeOK, Owned, StackInv, Frames, TypeOK
  <1> QED
    BY <1>1, InvariantHolds, PTL

\* session->active and session->waiting agree with the queue.
THEOREM CountersCorrect == Spec => []CountersMatchQueue
  <1>1. IInv => CountersMatchQueue
    BY DEF IInv, QueueInv
  <1> QED
    BY <1>1, InvariantHolds, PTL

\* No session has more requests on the wire than its window allows.
THEOREM WindowCorrect == Spec => []WindowRespected
  <1>1. IInv => WindowRespected
    BY ZenonT(40) DEF IInv, QueueInv, CountersMatchQueue, ActiveBounded, WindowRespected
  <1> QED
    BY <1>1, InvariantHolds, PTL

\* No request is transmitted more often than -retries allows.
THEOREM SendsCorrect == Spec => []SendsBounded
  <1>1. IInv => SendsBounded
    BY DEF IInv, QueueInv
  <1> QED
    BY <1>1, InvariantHolds, PTL

\* The counters, the window and the number of transmissions together: the
\* discipline of the queue, under every callback.
THEOREM QueueDisciplineCorrect == Spec => []QueueDiscipline
  <1>1. CountersMatchQueue /\ WindowRespected /\ SendsBounded => QueueDiscipline
    BY DEF QueueDiscipline
  <1> QED
    BY <1>1, CountersCorrect, WindowCorrect, SendsCorrect, PTL

\* The requests of one session are put on the wire in the order they were made.
THEOREM FifoCorrect == Spec => []SessionFifo
  <1>1. IInv => SessionFifo
    BY DEF IInv, QueueInv
  <1> QED
    BY <1>1, InvariantHolds, PTL

\* No request is completed twice, even if its callback enters the event loop.
THEOREM CompletedOnceCorrect == Spec => []CompletedOnce
  <1>1. IInv => CompletedOnce
    BY DEF IInv, QueueInv
  <1> QED
    BY <1>1, InvariantHolds, PTL

\* The options of a live session never change while it has a request queued.
THEOREM ConfigureCorrect == Spec => ConfiguredWhenIdle
  <1> DEFINE Idle == \A s \in Sessions :
                       conf'[s] # conf[s] /\ status[s] = "live" => Own(s) = {}
  <1>1. IInv /\ [Next]_vars => [Idle]_vars
    <2> SUFFICES ASSUME IInv, Next, NEW s \in Sessions,
                        conf'[s] # conf[s], status[s] = "live"
                 PROVE  Own(s) = {}
      BY DEF vars
    <2> USE DEF IInv
    <2>1. ASSUME NEW t \in Sessions, NEW c \in Configs, CreateSession(t, c) \/ Configure(t, c)
          PROVE  Own(s) = {}
      BY <2>1 DEF CreateSession, Configure, sessionVars, QueueInv, QueueTypeOK
    <2>2. ASSUME NEW t \in Sessions,
                 Request(t) \/ AsyncWalk(t) \/ Destroy(t) \/ WaitSession(t)
          PROVE  Own(s) = {}
      BY ZenonT(40), <2>2 DEF Request, AsyncWalk, Encode, Destroy, WaitSession, sessionVars
    <2>3. ASSUME NEW r \in Requests, NEW more \in BOOLEAN,
                 TimeoutProc(r) \/ ResponseProc(r, more)
          PROVE  Own(s) = {}
      BY ZenonT(40), <2>3 DEF TimeoutProc, ResponseProc
    <2>4. CASE Queueing
      BY ZenonT(40), <2>4 DEF Queueing, ScanDone, Activate, sessionVars
    <2>5. CASE WaitRescan
      BY <2>5 DEF WaitRescan, sessionVars
    <2>6. CASE WaitExit
      <3>1. Top.session = s /\ WaitOver(Top.session)
        <4>1. Top.session \in Sessions
          BY <2>6, TopFrame DEF WaitExit, Kinds
        <4> QED
          BY <2>6, <4>1 DEF WaitExit, QueueInv, QueueTypeOK
      <3> QED
        BY <3>1, IdleSession
    <2>7. CASE Returns
      BY ZenonT(40), <2>7 DEF Returns, SendReturn, RecvReturn, CallbackReturn, TailReturn, Encode,
           sessionVars
    <2> QED
      BY ZenonT(40), <2>1, <2>2, <2>3, <2>4, <2>5, <2>6, <2>7 DEF Next, Work, Waiting
  <1>2. ConfiguredWhenIdle <=> [][Idle]_vars
    BY DEF ConfiguredWhenIdle
  <1> QED
    BY <1>1, <1>2, InvariantHolds, PTL DEF Spec

-----------------------------------------------------------------------------
(* As long as no session is destroyed the queue cannot stall.              *)

NotDestroyed == "destroy" \notin Commands \cup ScriptCommands

Moving ==
    /\ \A s \in Sessions : status[s] # "dead"
    /\ scan = NoSession /\ queued # {} => OnWire # {}

\* TnmSnmpQueueRequest() never returns with requests queued and none on the
\* wire: its limits only hold requests back in favour of active ones.
LEMMA ScanLeavesActive ==
    ASSUME QueueInv, \A s \in Sessions : status[s] # "dead", ScanDone, queued # {}
    PROVE  OnWire # {}
  <1> USE DEF QueueInv
  <1>0. scan \in Sessions /\ OnWire \subseteq Requests
    BY DEF ScanDone, QueueTypeOK, OnWire
  <1>1. CASE WindowFull(scan)
    <2>1. conf[scan].window \in Nat
      BY ZenonT(40), <1>0, EngineAssumption DEF QueueTypeOK, Configs, EngineAssumption
    <2>2. Cardinality(OnWire) # 0
      BY <1>0, <1>1, <2>1, Finite DEF WindowFull
    <2> QED
      BY <2>2, FS_EmptySet
  <1>2. CASE ~WindowFull(scan)
    <2>1. PICK r \in queued : ~Eligible(r)
      BY <1>2 DEF ScanDone
    <2>2. r \in Requests /\ owner[r] \in Sessions /\ status[owner[r]] = "live"
      BY DEF QueueTypeOK, Owned
    <2>3. CASE sends[r] > 0
      BY <2>3 DEF OnWire
    <2>4. CASE ~(sends[r] > 0)
      <3>4. sends[r] = 0
        BY <2>2, <2>4 DEF QueueTypeOK
      <3>5. conf[owner[r]].window \in Nat
        BY ZenonT(40), <2>2, EngineAssumption DEF QueueTypeOK, Configs, EngineAssumption
      <3>0. sends[r] = 0 /\ conf[owner[r]].window \in Nat
        BY ZenonT(40), <3>4, <3>5
      <3>1. active[owner[r]] # 0
        BY <2>1, <2>2, <3>0 DEF Eligible, QueueTypeOK
      <3>2. Cardinality(ActiveOf(owner[r])) # 0
        BY <2>2, <3>1 DEF CountersMatchQueue
      <3>3. ActiveOf(owner[r]) # {}
        BY <3>2, FS_EmptySet
      <3> QED
        BY <3>3 DEF ActiveOf, Own, OnWire
    <2> QED
      BY <2>3, <2>4
  <1> QED
    BY <1>1, <1>2

LEMMA MovingNext ==
    ASSUME NotDestroyed, IInv, Moving, [Next]_vars
    PROVE  Moving'
  <1> USE DEF IInv, Moving
  <1>1. ASSUME NEW s \in Sessions, NEW c \in Configs, CreateSession(s, c) \/ Configure(s, c)
        PROVE  Moving'
    BY <1>1 DEF CreateSession, Configure, sessionVars, requestVars, OnWire,
         QueueInv, QueueTypeOK
  <1>2. ASSUME NEW s \in Sessions,
               Request(s) \/ AsyncWalk(s) \/ Destroy(s) \/ WaitSession(s)
        PROVE  Moving'
    <2>1. ~Destroy(s)
      BY DEF NotDestroyed, Destroy, MayCommand
    <2> QED
      BY ZenonT(40), <1>2, <2>1, EngineAssumption DEF EngineAssumption, Request, AsyncWalk, Encode,
           Enqueue, WaitSession, sessionVars, requestVars, OnWire
  <1>3. ASSUME NEW r \in Requests, NEW more \in BOOLEAN,
               TimeoutProc(r) \/ ResponseProc(r, more)
        PROVE  Moving'
    <2>1. r \in OnWire /\ r \in queued /\ owner[r] \in Sessions /\ status[owner[r]] = "live"
      BY ZenonT(40), <1>3 DEF TimeoutProc, ResponseProc, OnWire, QueueInv, Owned, QueueTypeOK
    <2>2. status' = status
      BY ZenonT(40), <1>3 DEF TimeoutProc, ResponseProc
    <2>3. \/ queued' = queued /\ scan' = scan /\ OnWire' # {}
          \/ scan' # NoSession
      <3>0. ~Freed(stack, owner[r])
        BY <2>1 DEF Freed
      <3>1. ASSUME NEW fr, NEW b, Complete(fr, r, b) PROVE scan' # NoSession
        BY <3>1, <2>1, EngineAssumption DEF EngineAssumption, Complete, DeleteRequest
      <3>2. CASE TimeoutProc(r) /\ sends[r] < 1 + conf[owner[r]].retries
        <4>1. /\ queued' = queued /\ scan' = scan
              /\ sends' = [sends EXCEPT ![r] = @ + 1]
          BY <3>0, <3>2 DEF TimeoutProc
        <4>2. sends'[r] > 0
          BY <2>1, <4>1 DEF OnWire, QueueInv, QueueTypeOK
        <4> QED
          BY <2>1, <4>1, <4>2 DEF OnWire
      <3>3. CASE TimeoutProc(r) /\ ~(sends[r] < 1 + conf[owner[r]].retries)
        BY ZenonT(40), <3>0, <3>1, <3>3 DEF TimeoutProc
      <3>4. CASE ResponseProc(r, more) /\ "recv" \in Bindings
        BY <2>1, <3>0, <3>4 DEF ResponseProc, OnWire
      <3>5. CASE ResponseProc(r, more) /\ "recv" \notin Bindings
        BY <3>0, <3>1, <3>5 DEF ResponseProc
      <3> QED
        BY ZenonT(40), <1>3, <3>2, <3>3, <3>4, <3>5
    <2> QED
      BY <2>2, <2>3
  <1>4. CASE Queueing
    <2>1. CASE ScanDone
      BY <2>1, ScanLeavesActive DEF ScanDone, sessionVars, requestVars, OnWire
    <2>2. ASSUME NEW r \in Requests, Activate(r) PROVE Moving'
      BY <2>2 DEF Activate
    <2> QED
      BY <1>4, <2>1, <2>2 DEF Queueing
  <1>5. CASE Waiting
    BY <1>5 DEF Waiting, WaitRescan, WaitExit, sessionVars, requestVars, OnWire, Quiet
  <1>6. CASE Returns
    <2>1. CASE SendReturn \/ CallbackReturn \/ TailReturn
      BY ZenonT(40), <2>1, TopFrame, EngineAssumption DEF EngineAssumption, SendReturn, CallbackReturn,
           TailReturn, Encode, Enqueue, sessionVars, requestVars, OnWire, Kinds, ScriptKinds
    <2>2. CASE RecvReturn
      <3>1. CASE Top.request \notin queued
        BY ZenonT(40), <2>2, <3>1 DEF RecvReturn, OnWire
      <3>2. CASE Top.request \in queued
        <4>1. /\ owner[Top.request] \in Sessions
              /\ status[owner[Top.request]] = "live"
          BY <3>2 DEF QueueInv, Owned, QueueTypeOK
        <4> QED
          BY <2>2, <3>2, <4>1, EngineAssumption DEF EngineAssumption, RecvReturn, Complete,
               DeleteRequest
      <3> QED
        BY <3>1, <3>2
    <2> QED
      BY <1>6, <2>1, <2>2 DEF Returns
  <1>7. CASE UNCHANGED vars
    BY <1>7 DEF vars, sessionVars, requestVars, OnWire
  <1> QED
    BY ZenonT(40), <1>1, <1>2, <1>3, <1>4, <1>5, <1>6, <1>7 DEF Next, Work

\* Without snmp# destroy, some retransmission timer runs whenever a request is
\* held back by a window.
THEOREM NoStallCorrect ==
    ASSUME NotDestroyed
    PROVE  Spec => []NoStall
  <1>1. Init => Moving
    BY DEF Init, Moving
  <1>2. IInv /\ Moving /\ [Next]_vars => Moving'
    BY MovingNext
  <1>3. Moving => NoStall
    BY DEF Moving, NoStall, Quiet
  <1> QED
    BY <1>1, <1>2, <1>3, InvariantHolds, PTL DEF Spec
=============================================================================
