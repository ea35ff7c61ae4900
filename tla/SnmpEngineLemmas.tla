-------------------------- MODULE SnmpEngineLemmas --------------------------
(***************************************************************************)
(* The inductive invariant of SnmpEngine and the lemmas its proof rests    *)
(* on: what each operation does to the queue and to the suspended calls.   *)
(*                                                                         *)
(* The invariants of SnmpEngine are not inductive.  QueueInv adds what     *)
(* relates the counters, the link stamps and the completion counts to the  *)
(* queue; StackInv what the suspended C functions rely on.                 *)
(***************************************************************************)
EXTENDS SnmpEngine, FiniteSetTheorems, SequenceTheorems, TLAPS

QueueTypeOK ==
    /\ status \in [Sessions -> {"none", "live", "dead"}]
    /\ conf \in [Sessions -> Configs]
    /\ active \in [Sessions -> Int]
    /\ waiting \in [Sessions -> Int]
    /\ queued \in SUBSET used
    /\ used \in SUBSET Requests
    /\ link \in [Requests -> Nat]
    /\ owner \in [Requests -> Sessions \cup {NoSession}]
    /\ sends \in [Requests -> Nat]
    /\ walking \in [Requests -> BOOLEAN]
    /\ calls \in [Requests -> Nat]
    /\ scan \in Sessions \cup {NoSession}
    /\ wild \in BOOLEAN

\* Queued requests belong to a session that was created, and were not
\* completed yet.
Owned == \A r \in queued : owner[r] \in Sessions /\ status[owner[r]] # "none"

Untouched == \A s \in Sessions : status[s] = "none" => active[s] = 0 /\ waiting[s] = 0

ActiveBounded ==
    \A s \in Sessions : status[s] = "live" /\ conf[s].window # 0 =>
        active[s] <= conf[s].window

LinksBounded == \A r \in Requests : link[r] <= Cardinality(Linked)

UnusedNotCalled == \A r \in Requests : r \notin used => calls[r] = 0 /\ link[r] = 0

QueueInv ==
    /\ QueueTypeOK
    /\ Owned
    /\ Untouched
    /\ CountersMatchQueue
    /\ ActiveBounded
    /\ SendsBounded
    /\ SessionFifo
    /\ LinksBounded
    /\ UnusedNotCalled
    /\ CompletedOnce

\* A request whose send binding runs was drawn, is not queued and cannot be
\* confused with another one; sessions of suspended functions were created.
Frames(fr, st, us, qu, ca, li) ==
    /\ fr \in Seq(Frame)
    /\ \A i \in 1..Len(fr) :
         /\ st[fr[i].session] # "none"
         /\ fr[i].kind = "send" =>
              /\ fr[i].request \in us \ qu
              /\ ca[fr[i].request] = 0
              /\ li[fr[i].request] = 0
    /\ \A i, j \in 1..Len(fr) :
         fr[i].kind = "send" /\ fr[j].kind = "send" /\ i # j =>
              fr[i].request # fr[j].request

StackInv == Frames(stack, status, used, queued, calls, link)

IInv == QueueInv /\ StackInv

-----------------------------------------------------------------------------
(* Sets of requests are finite, so that they can be counted.               *)

LEMMA Finite ==
    ASSUME NEW S, S \subseteq Requests
    PROVE  IsFiniteSet(S) /\ Cardinality(S) \in Nat
  <1>1. S \in SUBSET Requests
    OBVIOUS
  <1>2. IsFiniteSet(S)
    BY <1>1, FS_Subset, EngineAssumption DEF EngineAssumption
  <1> QED
    BY <1>2, FS_CardinalityType

LEMMA CountAdd ==
    ASSUME NEW S, S \subseteq Requests, NEW r \in Requests, r \notin S
    PROVE  Cardinality(S \cup {r}) = Cardinality(S) + 1
  BY Finite, FS_AddElement

LEMMA CountRemove ==
    ASSUME NEW S, S \subseteq Requests, NEW r \in S
    PROVE  Cardinality(S \ {r}) = Cardinality(S) - 1
  BY Finite, FS_RemoveElement

LEMMA CountZero ==
    ASSUME NEW S, S \subseteq Requests, Cardinality(S) = 0
    PROVE  S = {}
  BY Finite, FS_EmptySet

\* Facts on the sets the counters count, for the current state.
LEMMA OwnSubset ==
    ASSUME QueueTypeOK, NEW s \in Sessions
    PROVE  /\ Own(s) \subseteq Requests
           /\ ActiveOf(s) \subseteq Requests
           /\ WaitingOf(s) \subseteq Requests
  BY DEF QueueTypeOK, Own, ActiveOf, WaitingOf

-----------------------------------------------------------------------------
(* The queue under the operations of the engine.                           *)

\* Steps that leave the sessions and the queue alone.
LEMMA IdleInv ==
    ASSUME QueueInv, UNCHANGED <<status, conf, active, waiting, requestVars>>,
           scan' \in Sessions \cup {NoSession}, wild' \in BOOLEAN
    PROVE  QueueInv'
  <1> USE DEF QueueInv, requestVars
  <1>1. QueueTypeOK' /\ Owned' /\ Untouched'
    BY DEF QueueTypeOK, Owned, Untouched
  <1>2. CountersMatchQueue'
    <2>1. \A s : ActiveOf(s)' = ActiveOf(s) /\ WaitingOf(s)' = WaitingOf(s)
      BY DEF ActiveOf, WaitingOf, Own
    <2> QED
      BY <2>1 DEF CountersMatchQueue
  <1>3. ActiveBounded' /\ SendsBounded' /\ SessionFifo'
    BY DEF ActiveBounded, SendsBounded, SessionFifo
  <1>4. LinksBounded' /\ UnusedNotCalled' /\ CompletedOnce'
    BY DEF LinksBounded, UnusedNotCalled, CompletedOnce, Linked
  <1> QED
    BY <1>1, <1>2, <1>3, <1>4

\* Putting a new request at the tail of the queue.
LEMMA EnqueueInv ==
    ASSUME QueueInv,
           NEW s \in Sessions, status[s] # "none",
           NEW r \in Requests, r \notin queued, calls[r] = 0, link[r] = 0,
           NEW w \in BOOLEAN,
           Enqueue(s, r, w),
           used' \in SUBSET Requests, used \subseteq used', r \in used',
           UNCHANGED <<status, conf, active, calls, wild>>
    PROVE  QueueInv'
  <1> USE DEF QueueInv
  <1>1. QueueTypeOK'
    <2>1. Linked \subseteq Requests
      BY DEF Linked
    <2>2. Cardinality(Linked) + 1 \in Nat
      BY <2>1, Finite
    <2> QED
      BY <2>2 DEF QueueTypeOK, Enqueue
  <1>2. Owned'
    BY DEF QueueTypeOK, Enqueue, Owned
  <1>3. Untouched'
    BY DEF QueueTypeOK, Enqueue, Untouched
  <1>4. CountersMatchQueue'
    <2> SUFFICES ASSUME NEW t \in Sessions, status[t] = "live"
                 PROVE  /\ active'[t] = Cardinality(ActiveOf(t)')
                        /\ waiting'[t] = Cardinality(WaitingOf(t)')
      BY DEF CountersMatchQueue
    <2>1. ActiveOf(t)' = ActiveOf(t)
      BY DEF ActiveOf, Own, Enqueue, QueueTypeOK
    <2>2. CASE t = s
      <3>1. WaitingOf(t)' = WaitingOf(t) \cup {r}
        BY <2>2 DEF WaitingOf, Own, Enqueue, QueueTypeOK
      <3>2. r \notin WaitingOf(t)
        BY DEF WaitingOf, Own
      <3>3. Cardinality(WaitingOf(t)') = Cardinality(WaitingOf(t)) + 1
        BY <3>1, <3>2, OwnSubset, CountAdd
      <3> QED
        BY <2>1, <2>2, <3>3 DEF CountersMatchQueue, Enqueue, QueueTypeOK
    <2>3. CASE t # s
      <3>1. WaitingOf(t)' = WaitingOf(t)
        BY <2>3 DEF WaitingOf, Own, Enqueue, QueueTypeOK
      <3> QED
        BY <2>1, <2>3, <3>1 DEF CountersMatchQueue, Enqueue, QueueTypeOK
    <2> QED
      BY <2>2, <2>3
  <1>5. ActiveBounded'
    BY DEF ActiveBounded, Enqueue
  <1>6. SendsBounded'
    <2> SUFFICES ASSUME NEW q \in queued', status'[owner'[q]] = "live"
                 PROVE  sends'[q] <= 1 + conf'[owner'[q]].retries
      BY DEF SendsBounded
    <2>1. CASE q = r
      <3>1. sends'[q] = 0 /\ owner'[q] = s
        BY <2>1 DEF Enqueue, QueueTypeOK
      <3>2. conf[s].retries \in Nat
        BY ZenonT(40), EngineAssumption DEF QueueTypeOK, Configs, EngineAssumption
      <3> QED
        BY <3>1, <3>2
    <2>2. CASE q # r
      BY <2>2 DEF SendsBounded, Enqueue, QueueTypeOK
    <2> QED
      BY <2>1, <2>2
  <1>7. LinksBounded' /\ link'[r] > Cardinality(Linked)
    <2>1. Linked \subseteq Requests /\ r \notin Linked
      BY DEF Linked, QueueTypeOK
    <2>2. Cardinality(Linked) \in Nat
      BY <2>1, Finite
    <2>3. Linked' = Linked \cup {r}
      <3> DEFINE n == Cardinality(Linked)
      <3>1. link' = [link EXCEPT ![r] = n + 1]
        BY DEF Enqueue
      <3>2. n \in Nat
        BY <2>2
      <3> HIDE DEF n
      <3> QED
        BY <3>1, <3>2 DEF Linked, QueueTypeOK
    <2>4. Cardinality(Linked') = Cardinality(Linked) + 1
      BY <2>1, <2>3, CountAdd
    <2> QED
      BY <2>2, <2>4 DEF LinksBounded, Enqueue, QueueTypeOK
  <1>8. SessionFifo'
    <2>1. Linked \subseteq Requests
      BY DEF Linked
    <2>2. Cardinality(Linked) \in Nat
      BY <2>1, Finite
    <2> QED
      BY <1>7, <2>2 DEF SessionFifo, LinksBounded, Enqueue, QueueTypeOK
  <1>9. UnusedNotCalled'
    BY DEF UnusedNotCalled, Enqueue, QueueTypeOK
  <1>10. CompletedOnce'
    BY DEF CompletedOnce, Enqueue, QueueTypeOK
  <1> QED
    BY <1>1, <1>2, <1>3, <1>4, <1>5, <1>6, <1>7, <1>8, <1>9, <1>10

\* Taking a request out of the queue to complete it.
LEMMA DeleteInv ==
    ASSUME QueueInv, NEW r \in queued, DeleteRequest(r),
           calls' = [calls EXCEPT ![r] = @ + 1],
           UNCHANGED <<status, conf, link, owner, sends, walking, used, wild>>
    PROVE  QueueInv'
  <1> USE DEF QueueInv
  <1> DEFINE s == owner[r]
  <1>a. r \in Requests /\ s \in Sessions /\ calls[r] = 0
    BY DEF Owned, QueueTypeOK, CompletedOnce
  <1>1. QueueTypeOK'
    BY <1>a DEF QueueTypeOK, DeleteRequest
  <1>2. Owned'
    BY DEF Owned, DeleteRequest
  <1>3. Untouched'
    BY <1>a DEF Untouched, DeleteRequest, QueueTypeOK, Owned
  <1>4. CountersMatchQueue'
    <2> SUFFICES ASSUME NEW t \in Sessions, status[t] = "live"
                 PROVE  /\ active'[t] = Cardinality(ActiveOf(t)')
                        /\ waiting'[t] = Cardinality(WaitingOf(t)')
      BY DEF CountersMatchQueue
    <2>0. /\ active[t] = Cardinality(ActiveOf(t))
          /\ waiting[t] = Cardinality(WaitingOf(t))
      BY DEF CountersMatchQueue
    <2>1. CASE t # s
      <3>1. ActiveOf(t)' = ActiveOf(t) /\ WaitingOf(t)' = WaitingOf(t)
        BY <2>1 DEF ActiveOf, WaitingOf, Own, DeleteRequest
      <3>2. active'[t] = active[t] /\ waiting'[t] = waiting[t]
        BY <2>1, <1>a DEF DeleteRequest, QueueTypeOK
      <3> QED
        BY <2>0, <3>1, <3>2
    <2>2. CASE t = s /\ sends[r] > 0
      <3>1. ActiveOf(t)' = ActiveOf(t) \ {r} /\ WaitingOf(t)' = WaitingOf(t)
        BY <2>2 DEF ActiveOf, WaitingOf, Own, DeleteRequest
      <3>2. r \in ActiveOf(t)
        BY <2>2 DEF ActiveOf, Own
      <3>3. active'[t] = active[t] - 1 /\ waiting'[t] = waiting[t]
        BY <2>2, <1>a DEF DeleteRequest, QueueTypeOK
      <3> QED
        BY <2>0, <3>1, <3>2, <3>3, OwnSubset, CountRemove
    <2>3. CASE t = s /\ ~(sends[r] > 0)
      <3>0. sends[r] = 0
        BY <2>3, <1>a DEF QueueTypeOK
      <3>1. ActiveOf(t)' = ActiveOf(t) /\ WaitingOf(t)' = WaitingOf(t) \ {r}
        BY <2>3, <3>0 DEF ActiveOf, WaitingOf, Own, DeleteRequest
      <3>2. r \in WaitingOf(t)
        BY <2>3, <3>0 DEF WaitingOf, Own
      <3>3. active'[t] = active[t] /\ waiting'[t] = waiting[t] - 1
        BY <2>3, <1>a DEF DeleteRequest, QueueTypeOK
      <3> QED
        BY <2>0, <3>1, <3>2, <3>3, OwnSubset, CountRemove
    <2> QED
      BY <2>1, <2>2, <2>3
  <1>5. ActiveBounded'
    <2>1. \A t \in Sessions : active'[t] <= active[t]
      BY <1>a DEF DeleteRequest, QueueTypeOK
    <2>2. \A t \in Sessions : conf[t].window \in Nat
      BY ZenonT(40), EngineAssumption DEF QueueTypeOK, Configs, EngineAssumption
    <2>3. \A t \in Sessions : active'[t] \in Int
      BY <1>1 DEF QueueTypeOK
    <2> QED
      BY <2>1, <2>2, <2>3 DEF ActiveBounded, QueueTypeOK
  <1>6. SendsBounded'
    BY DEF SendsBounded, DeleteRequest
  <1>7. SessionFifo'
    BY DEF SessionFifo, DeleteRequest
  <1>8. LinksBounded'
    BY DEF LinksBounded, Linked
  <1>9. UnusedNotCalled'
    BY DEF UnusedNotCalled, QueueTypeOK
  <1>10. CompletedOnce'
    BY <1>a DEF CompletedOnce, QueueTypeOK, DeleteRequest
  <1> QED
    BY <1>1, <1>2, <1>3, <1>4, <1>5, <1>6, <1>7, <1>8, <1>9, <1>10

\* The first transmission of a request that was held back.
LEMMA ActivateInv ==
    ASSUME QueueInv, NEW r \in Requests, Activate(r)
    PROVE  QueueInv'
  <1> USE DEF QueueInv
  <1> DEFINE s == owner[r]
  <1>a. r \in queued /\ s \in Sessions /\ sends[r] = 0
    BY DEF Owned, Activate, FirstEligible, Eligible
  <1>b. CASE Freed(stack, s)
    <2>1. /\ UNCHANGED <<status, conf, active, waiting, requestVars>>
          /\ scan' \in Sessions \cup {NoSession} /\ wild' \in BOOLEAN
      BY <1>b DEF Activate, requestVars, QueueTypeOK
    <2> QED
      BY <2>1, IdleInv
  <1>c. CASE ~Freed(stack, s)
    <2>0. /\ sends' = [sends EXCEPT ![r] = 1]
          /\ active' = [active EXCEPT ![s] = @ + 1]
          /\ waiting' = [waiting EXCEPT ![s] = @ - 1]
          /\ UNCHANGED <<status, conf, queued, link, owner, walking, used, calls, scan>>
          /\ wild' = wild
      BY <1>c DEF Activate
    <2>1. QueueTypeOK'
      BY <1>a, <2>0 DEF QueueTypeOK
    <2>2. Owned' /\ Untouched'
      BY <1>a, <2>0 DEF Owned, Untouched, QueueTypeOK
    <2>3. CountersMatchQueue'
      <3> SUFFICES ASSUME NEW t \in Sessions, status[t] = "live"
                   PROVE  /\ active'[t] = Cardinality(ActiveOf(t)')
                          /\ waiting'[t] = Cardinality(WaitingOf(t)')
        BY <2>0 DEF CountersMatchQueue
      <3>0. /\ active[t] = Cardinality(ActiveOf(t))
            /\ waiting[t] = Cardinality(WaitingOf(t))
        BY DEF CountersMatchQueue
      <3>1. CASE t # s
        <4>1. ActiveOf(t)' = ActiveOf(t) /\ WaitingOf(t)' = WaitingOf(t)
          BY <3>1, <2>0, <1>a DEF ActiveOf, WaitingOf, Own, QueueTypeOK
        <4> QED
          BY <4>1, <3>0, <3>1, <2>0, <1>a DEF QueueTypeOK
      <3>2. CASE t = s
        <4>1. ActiveOf(t)' = ActiveOf(t) \cup {r} /\ WaitingOf(t)' = WaitingOf(t) \ {r}
          BY <3>2, <2>0, <1>a DEF ActiveOf, WaitingOf, Own, QueueTypeOK
        <4>2. r \notin ActiveOf(t) /\ r \in WaitingOf(t)
          BY <3>2, <1>a DEF ActiveOf, WaitingOf, Own
        <4>3. /\ Cardinality(ActiveOf(t)') = Cardinality(ActiveOf(t)) + 1
              /\ Cardinality(WaitingOf(t)') = Cardinality(WaitingOf(t)) - 1
          BY <4>1, <4>2, OwnSubset, CountAdd, CountRemove
        <4> QED
          BY <4>3, <3>0, <3>2, <2>0, <1>a DEF QueueTypeOK
      <3> QED
        BY <3>1, <3>2
    <2>4. ActiveBounded'
      <3>1. conf[s].window \in Nat
        BY ZenonT(40), <1>a, EngineAssumption DEF QueueTypeOK, Configs, EngineAssumption
      <3>2. active[s] < conf[s].window \/ conf[s].window = 0
        BY DEF Activate, FirstEligible, Eligible
      <3> QED
        BY <1>a, <2>0, <3>1, <3>2 DEF ActiveBounded, QueueTypeOK
    <2>5. SendsBounded'
      <3>1. conf[s].retries \in Nat
        BY ZenonT(40), <1>a, EngineAssumption DEF QueueTypeOK, Configs, EngineAssumption
      <3> QED
        BY <1>a, <2>0, <3>1 DEF SendsBounded, QueueTypeOK
    <2>6. SessionFifo'
      <3> SUFFICES ASSUME NEW q \in queued, NEW p \in queued,
                          owner[q] = owner[p], link[q] < link[p], sends'[p] > 0
                   PROVE  sends'[q] > 0
        BY <2>0 DEF SessionFifo
      <3>1. q \in Requests /\ p \in Requests
        BY DEF QueueTypeOK
      <3>2. CASE p # r
        <4>1. sends[q] > 0
          BY <3>1, <3>2, <2>0 DEF SessionFifo, QueueTypeOK
        <4> QED
          BY <4>1, <3>1, <2>0 DEF QueueTypeOK
      <3>3. CASE p = r /\ sends[q] = 0
        <4>1. Eligible(q)
          BY <3>3, <1>a DEF Activate, FirstEligible, Eligible
        <4>2. link[r] <= link[q]
          BY <4>1 DEF Activate, FirstEligible
        <4> QED
          BY <4>2, <3>1, <3>3 DEF QueueTypeOK
      <3>4. CASE p = r /\ sends[q] # 0
        <4>1. q # r
          BY <3>4, <1>a
        <4> QED
          BY <4>1, <3>1, <3>4, <2>0 DEF QueueTypeOK
      <3> QED
        BY <3>2, <3>3, <3>4
    <2>7. LinksBounded' /\ UnusedNotCalled' /\ CompletedOnce'
      BY <2>0 DEF LinksBounded, Linked, UnusedNotCalled, CompletedOnce
    <2> QED
      BY <2>1, <2>2, <2>3, <2>4, <2>5, <2>6, <2>7
  <1> QED
    BY <1>b, <1>c

\* A retransmission.
LEMMA ResendInv ==
    ASSUME QueueInv, NEW r \in OnWire,
           sends[r] < 1 + conf[owner[r]].retries,
           sends' = [sends EXCEPT ![r] = @ + 1],
           UNCHANGED <<status, conf, active, waiting, queued, link, owner, walking,
                       used, calls, scan, wild>>
    PROVE  QueueInv'
  <1> USE DEF QueueInv
  <1>a. r \in queued /\ r \in Requests /\ sends[r] \in Nat /\ sends[r] > 0
    BY DEF OnWire, QueueTypeOK
  <1>1. QueueTypeOK' /\ Owned' /\ Untouched'
    BY <1>a DEF QueueTypeOK, Owned, Untouched
  <1>2. CountersMatchQueue'
    <2>1. \A s : ActiveOf(s)' = ActiveOf(s) /\ WaitingOf(s)' = WaitingOf(s)
      BY <1>a DEF ActiveOf, WaitingOf, Own, QueueTypeOK
    <2> QED
      BY <2>1 DEF CountersMatchQueue
  <1>3. ActiveBounded'
    BY DEF ActiveBounded
  <1>4. SendsBounded'
    <2>1. conf[owner[r]].retries \in Nat
      BY ZenonT(40), <1>a, EngineAssumption DEF QueueTypeOK, Owned, Configs, EngineAssumption
    <2> QED
      BY <1>a, <2>1 DEF SendsBounded, QueueTypeOK
  <1>5. SessionFifo'
    BY <1>a DEF SessionFifo, QueueTypeOK
  <1>6. LinksBounded' /\ UnusedNotCalled' /\ CompletedOnce'
    BY DEF LinksBounded, UnusedNotCalled, CompletedOnce, Linked
  <1> QED
    BY <1>1, <1>2, <1>3, <1>4, <1>5, <1>6

\* Destroying a session takes its requests out of the queue.
LEMMA DestroyInv ==
    ASSUME QueueInv, NEW s \in Sessions, Destroy(s)
    PROVE  QueueInv'
  <1> USE DEF QueueInv, Destroy
  <1>1. QueueTypeOK' /\ Owned' /\ Untouched'
    BY DEF QueueTypeOK, Owned, Untouched, Own
  <1>2. CountersMatchQueue'
    <2> SUFFICES ASSUME NEW t \in Sessions, status'[t] = "live"
                 PROVE  /\ active'[t] = Cardinality(ActiveOf(t)')
                        /\ waiting'[t] = Cardinality(WaitingOf(t)')
      BY DEF CountersMatchQueue
    <2>1. t # s /\ status[t] = "live"
      BY DEF QueueTypeOK
    <2>2. ActiveOf(t)' = ActiveOf(t) /\ WaitingOf(t)' = WaitingOf(t)
      BY <2>1 DEF ActiveOf, WaitingOf, Own
    <2> QED
      BY <2>1, <2>2 DEF CountersMatchQueue
  <1>3. ActiveBounded' /\ SendsBounded' /\ SessionFifo'
    BY DEF ActiveBounded, SendsBounded, SessionFifo, QueueTypeOK, Owned
  <1>4. LinksBounded' /\ UnusedNotCalled' /\ CompletedOnce'
    BY DEF LinksBounded, UnusedNotCalled, CompletedOnce, Linked
  <1> QED
    BY <1>1, <1>2, <1>3, <1>4

\* Creating a session.
LEMMA CreateInv ==
    ASSUME QueueInv, NEW s \in Sessions, NEW c \in Configs, CreateSession(s, c)
    PROVE  QueueInv'
  <1> USE DEF QueueInv, CreateSession, requestVars
  <1>a. status[s] = "none" /\ active[s] = 0 /\ waiting[s] = 0 /\ Own(s) = {}
    BY DEF Untouched, Owned, Own
  <1>b. c.window \in Nat /\ c.retries \in Nat
    BY ZenonT(40), EngineAssumption DEF Configs, EngineAssumption
  <1>1. QueueTypeOK' /\ Owned' /\ Untouched'
    BY DEF QueueTypeOK, Owned, Untouched
  <1>2. CountersMatchQueue'
    <2> SUFFICES ASSUME NEW t \in Sessions, status'[t] = "live"
                 PROVE  /\ active'[t] = Cardinality(ActiveOf(t)')
                        /\ waiting'[t] = Cardinality(WaitingOf(t)')
      BY DEF CountersMatchQueue
    <2>2. ActiveOf(t)' = ActiveOf(t) /\ WaitingOf(t)' = WaitingOf(t)
      BY DEF ActiveOf, WaitingOf, Own
    <2>3. CASE t = s
      <3>1. ActiveOf(t) = {} /\ WaitingOf(t) = {}
        BY <1>a, <2>3 DEF ActiveOf, WaitingOf
      <3> QED
        BY <1>a, <2>2, <2>3, <3>1, FS_EmptySet
    <2>4. CASE t # s
      BY <2>2, <2>4 DEF CountersMatchQueue, QueueTypeOK
    <2> QED
      BY <2>3, <2>4
  <1>3. ActiveBounded'
    BY <1>a, <1>b DEF ActiveBounded, QueueTypeOK
  <1>4. SendsBounded'
    BY <1>a DEF SendsBounded, QueueTypeOK, Owned, Own
  <1>5. SessionFifo' /\ LinksBounded' /\ UnusedNotCalled' /\ CompletedOnce'
    BY DEF SessionFifo, LinksBounded, UnusedNotCalled, CompletedOnce, Linked
  <1> QED
    BY <1>1, <1>2, <1>3, <1>4, <1>5

\* A session that is live and has nothing counted has nothing queued.
LEMMA IdleSession ==
    ASSUME QueueInv, NEW s \in Sessions, status[s] = "live", WaitOver(s)
    PROVE  active[s] = 0 /\ waiting[s] = 0 /\ Own(s) = {}
  <1> USE DEF QueueInv
  <1>1. /\ active[s] = Cardinality(ActiveOf(s)) /\ active[s] \in Nat
        /\ waiting[s] = Cardinality(WaitingOf(s)) /\ waiting[s] \in Nat
    BY OwnSubset, Finite DEF CountersMatchQueue
  <1>2. active[s] = 0 /\ waiting[s] = 0
    BY <1>1 DEF WaitOver
  <1>3. ActiveOf(s) = {} /\ WaitingOf(s) = {}
    BY ZenonT(40), <1>1, <1>2, OwnSubset, CountZero
  <1>4. Own(s) = ActiveOf(s) \cup WaitingOf(s)
    BY DEF Own, ActiveOf, WaitingOf, QueueTypeOK
  <1> QED
    BY <1>2, <1>3, <1>4

\* Changing the options of a session whose wait is over.
LEMMA ConfigureInv ==
    ASSUME QueueInv, NEW s \in Sessions, WaitOver(s), status[s] # "none",
           NEW c \in Configs, conf' = [conf EXCEPT ![s] = c],
           UNCHANGED <<status, active, waiting, requestVars, scan, wild>>
    PROVE  QueueInv'
  <1> USE DEF QueueInv, requestVars
  <1>a. status[s] = "live" => active[s] = 0 /\ Own(s) = {}
    BY IdleSession
  <1>b. c.window \in Nat /\ c.retries \in Nat
    BY ZenonT(40), EngineAssumption DEF Configs, EngineAssumption
  <1>1. QueueTypeOK' /\ Owned' /\ Untouched'
    BY DEF QueueTypeOK, Owned, Untouched
  <1>2. CountersMatchQueue'
    <2>1. \A t : ActiveOf(t)' = ActiveOf(t) /\ WaitingOf(t)' = WaitingOf(t)
      BY DEF ActiveOf, WaitingOf, Own
    <2> QED
      BY ZenonT(40), <2>1 DEF CountersMatchQueue
  <1>3. ActiveBounded'
    BY <1>a, <1>b DEF ActiveBounded, QueueTypeOK
  <1>4. SendsBounded'
    BY <1>a DEF SendsBounded, QueueTypeOK, Owned, Own
  <1>5. SessionFifo' /\ LinksBounded' /\ UnusedNotCalled' /\ CompletedOnce'
    BY DEF SessionFifo, LinksBounded, UnusedNotCalled, CompletedOnce, Linked
  <1> QED
    BY <1>1, <1>2, <1>3, <1>4, <1>5

-----------------------------------------------------------------------------
(* The suspended functions.                                                *)

\* Returning to the function below.
LEMMA FramesPop ==
    ASSUME NEW fr, NEW st, NEW us, NEW qu, NEW ca, NEW li,
           Frames(fr, st, us, qu, ca, li), fr # <<>>
    PROVE  LET low == SubSeq(fr, 1, Len(fr) - 1) IN
           /\ Frames(low, st, us, qu, ca, li)
           /\ Len(low) = Len(fr) - 1
           /\ \A i \in 1..Len(low) : low[i] = fr[i]
  <1> DEFINE low == SubSeq(fr, 1, Len(fr) - 1)
  <1>0. fr \in Seq(Frame) /\ Len(fr) \in Nat /\ Len(fr) > 0
    BY EmptySeq, LenProperties DEF Frames
  <1>1. /\ low \in Seq(Frame)
        /\ Len(low) = Len(fr) - 1
        /\ \A i \in 1..Len(low) : low[i] = fr[i]
    <2> DEFINE n == Len(fr) - 1
    <2>1. n \in Nat /\ \A i \in 1..n : fr[i] \in Frame
      BY <1>0
    <2>2. low = SubSeq(fr, 1, n)
      OBVIOUS
    <2> HIDE DEF n, low
    <2>3. /\ low \in Seq(Frame)
          /\ Len(low) = IF 1 <= n THEN n - 1 + 1 ELSE 0
          /\ \A i \in 1..(n - 1 + 1) : low[i] = fr[1 + i - 1]
      BY <2>1, <2>2, SubSeqProperties
    <2>4. Len(low) = n
      BY <2>1, <2>3
    <2>5. \A i \in 1..n : i \in 1..(n - 1 + 1) /\ 1 + i - 1 = i
      BY <2>1
    <2> QED
      BY <2>3, <2>4, <2>5 DEF n
  <1> HIDE DEF low
  <1>2. Frames(low, st, us, qu, ca, li)
    BY <1>0, <1>1 DEF Frames
  <1> QED
    BY <1>1, <1>2 DEF low

\* Suspending one more function.
LEMMA FramesPush ==
    ASSUME NEW fr, NEW st, NEW us, NEW qu, NEW ca, NEW li,
           Frames(fr, st, us, qu, ca, li),
           NEW f \in Frame, st[f.session] # "none",
           f.kind = "send" =>
              /\ f.request \in us \ qu /\ ca[f.request] = 0 /\ li[f.request] = 0
              /\ \A i \in 1..Len(fr) : fr[i].kind = "send" => fr[i].request # f.request
    PROVE  Frames(Append(fr, f), st, us, qu, ca, li)
  <1> DEFINE g == Append(fr, f)
  <1>0. fr \in Seq(Frame) /\ Len(fr) \in Nat
    BY LenProperties DEF Frames
  <1>1. /\ g \in Seq(Frame)
        /\ Len(g) = Len(fr) + 1
        /\ g[Len(fr) + 1] = f
        /\ \A i \in 1..Len(fr) : g[i] = fr[i]
    BY <1>0
  <1>2. \A i \in 1..Len(g) : i \in 1..Len(fr) \/ i = Len(fr) + 1
    BY <1>0, <1>1
  <1> HIDE DEF g
  <1>3. Frames(g, st, us, qu, ca, li)
    BY <1>0, <1>1, <1>2 DEF Frames
  <1> QED
    BY <1>3 DEF g

\* Marking the innermost wait as stale, or fresh again.
LEMMA FramesMark ==
    ASSUME NEW fr, NEW st, NEW us, NEW qu, NEW ca, NEW li,
           Frames(fr, st, us, qu, ca, li), fr # <<>>, NEW b \in BOOLEAN
    PROVE  Frames([fr EXCEPT ![Len(fr)].fresh = b], st, us, qu, ca, li)
  <1> DEFINE g == [fr EXCEPT ![Len(fr)].fresh = b]
             n == Len(fr)
             f == [fr[n] EXCEPT !.fresh = b]
  <1>0. fr \in Seq(Frame) /\ n \in Nat /\ n > 0 /\ fr[n] \in Frame
    BY EmptySeq, LenProperties DEF Frames
  <1>1. /\ f \in Frame /\ f.kind = fr[n].kind /\ f.session = fr[n].session
        /\ f.request = fr[n].request
    BY <1>0 DEF Frame
  <1>2. g = [fr EXCEPT ![n] = f]
    OBVIOUS
  <1>3. /\ g \in Seq(Frame) /\ Len(g) = n
        /\ g[n] = f /\ \A i \in 1..n : i # n => g[i] = fr[i]
    BY <1>0, <1>1, <1>2, ExceptSeq
  <1> HIDE DEF g, f, n
  <1>4. Frames(g, st, us, qu, ca, li)
    <2>1. n = Len(fr)
      BY DEF n
    <2>2. \A i \in 1..n : /\ g[i].kind = fr[i].kind /\ g[i].session = fr[i].session
                         /\ g[i].request = fr[i].request
      BY <1>0, <1>1, <1>3
    <2> QED
      BY <2>1, <2>2, <1>3 DEF Frames
  <1> QED
    BY <1>4 DEF g

\* The state below suspended functions changes.
LEMMA FramesStep ==
    ASSUME NEW fr, NEW st, NEW us, NEW qu, NEW ca, NEW li,
           NEW st2, NEW us2, NEW qu2, NEW ca2, NEW li2,
           Frames(fr, st, us, qu, ca, li),
           \A s \in Sessions : st[s] # "none" => st2[s] # "none",
           us \subseteq us2,
           \A i \in 1..Len(fr) : fr[i].kind = "send" =>
              LET r == fr[i].request IN
              r \notin qu2 /\ ca2[r] = ca[r] /\ li2[r] = li[r]
    PROVE  Frames(fr, st2, us2, qu2, ca2, li2)
  <1>1. \A i \in 1..Len(fr) : fr[i].session \in Sessions
    <2>1. fr \in Seq(Frame)
      BY DEF Frames
    <2>2. \A i \in 1..Len(fr) : fr[i] \in Frame
      BY <2>1
    <2> QED
      BY <2>2 DEF Frame
  <1> QED
    BY <1>1 DEF Frames

\* The function at the top of the stack.
LEMMA TopFrame ==
    ASSUME QueueInv, StackInv, Top.kind \in Kinds
    PROVE  /\ stack # <<>>
           /\ Len(stack) \in Nat /\ Len(stack) > 0
           /\ Top = stack[Len(stack)]
           /\ Top \in Frame
           /\ Top.session \in Sessions
           /\ status[Top.session] # "none"
           /\ Frames(Pop, status, used, queued, calls, link)
  <1>1. stack # <<>>
    BY DEF Top, NoFrame, Kinds, ScriptKinds, WaitKinds
  <1>2. Top = stack[Len(stack)]
    BY <1>1 DEF Top
  <1>3. stack \in Seq(Frame) /\ Len(stack) \in Nat /\ Len(stack) > 0
    BY <1>1, EmptySeq, LenProperties DEF StackInv, Frames
  <1>4. Top \in Frame
    BY <1>2, <1>3
  <1>5. status[Top.session] # "none"
    BY <1>2, <1>3 DEF StackInv, Frames
  <1>6. Frames(Pop, status, used, queued, calls, link)
    BY <1>1, FramesPop DEF StackInv, Pop
  <1> QED
    BY <1>1, <1>2, <1>3, <1>4, <1>5, <1>6 DEF Frame

LEMMA MkFrameType ==
    ASSUME QueueTypeOK, NEW k \in Kinds, NEW s \in Sessions,
           NEW r \in Requests \cup {NoRequest}, NEW w \in BOOLEAN
    PROVE  /\ MkFrame(k, s, r, w) \in Frame
           /\ MkFrame(k, s, r, w).kind = k
           /\ MkFrame(k, s, r, w).session = s
           /\ MkFrame(k, s, r, w).request = r
  BY DEF QueueTypeOK, MkFrame, Frame

LEMMA StaleFrames ==
    ASSUME StackInv
    PROVE  Frames(Stale(stack), status, used, queued, calls, link)
  BY ZenonT(40), FramesMark DEF StackInv, Stale

\* Completing a request preserves the invariant.
LEMMA CompleteInv ==
    ASSUME QueueInv, NEW fr, Frames(fr, status, used, queued, calls, link),
           NEW r \in queued, NEW more \in BOOLEAN,
           DeleteRequest(r), calls' = [calls EXCEPT ![r] = @ + 1],
           stack' = Append(fr, MkFrame("callback", owner[r], r, more)),
           UNCHANGED <<status, conf, link, owner, sends, walking, used, wild>>
    PROVE  IInv'
  <1>1. QueueInv'
    BY ZenonT(40), DeleteInv
  <1>2. r \in Requests /\ owner[r] \in Sessions /\ status[owner[r]] # "none"
    BY DEF QueueInv, Owned, QueueTypeOK
  <1>3. Frames(fr, status', used', queued', calls', link')
    <2>1. queued' = queued \ {r}
      BY ZenonT(40) DEF DeleteRequest
    <2>2. \A i \in 1..Len(fr) : fr[i].kind = "send" =>
             fr[i].request \in Requests \ queued
      BY DEF Frames, QueueInv, QueueTypeOK
    <2>3. \A i \in 1..Len(fr) : fr[i].kind = "send" =>
             LET q == fr[i].request IN
             q \notin queued' /\ calls'[q] = calls[q] /\ link'[q] = link[q]
      BY <2>1, <2>2 DEF QueueInv, QueueTypeOK
    <2>4. used \subseteq used' /\ \A s \in Sessions : status'[s] = status[s]
      OBVIOUS
    <2> QED
      BY ZenonT(40), <2>3, <2>4 DEF Frames
  <1>4. /\ MkFrame("callback", owner[r], r, more) \in Frame
        /\ MkFrame("callback", owner[r], r, more).kind # "send"
        /\ status'[MkFrame("callback", owner[r], r, more).session] # "none"
    BY <1>2, MkFrameType DEF QueueInv, Kinds, ScriptKinds
  <1>5. StackInv'
    BY <1>3, <1>4, FramesPush DEF StackInv
  <1> QED
    BY <1>1, <1>5 DEF IInv

\* Queueing a request preserves the invariant.
LEMMA EnqueueStep ==
    ASSUME QueueInv, NEW fr, Frames(fr, status, used, queued, calls, link),
           NEW s \in Sessions, status[s] # "none",
           NEW r \in Requests, r \notin queued, calls[r] = 0, link[r] = 0,
           \A i \in 1..Len(fr) : fr[i].kind = "send" => fr[i].request # r,
           NEW w \in BOOLEAN,
           Enqueue(s, r, w), stack' = fr,
           used' \in SUBSET Requests, used \subseteq used', r \in used',
           UNCHANGED <<status, conf, active, calls, wild>>
    PROVE  IInv'
  <1>1. QueueInv'
    BY EnqueueInv
  <1>2. /\ queued' = queued \cup {r}
        /\ \A q \in Requests : q # r => link'[q] = link[q]
    BY DEF Enqueue, QueueInv, QueueTypeOK
  <1>3. \A i \in 1..Len(fr) : fr[i].kind = "send" =>
             fr[i].request \in Requests \ queued
    BY DEF Frames, QueueInv, QueueTypeOK
  <1>4. \A i \in 1..Len(fr) : fr[i].kind = "send" =>
             LET q == fr[i].request IN
             q \notin queued' /\ calls'[q] = calls[q] /\ link'[q] = link[q]
    BY <1>2, <1>3
  <1>5. Frames(fr, status', used', queued', calls', link')
    BY ZenonT(40), <1>4, FramesStep
  <1> QED
    BY <1>1, <1>5 DEF IInv, StackInv

\* TnmSnmpEncode() preserves the invariant.
LEMMA EncodeInv ==
    ASSUME QueueInv, NEW fr, Frames(fr, status, used, queued, calls, link),
           NEW s \in Sessions, status[s] # "none",
           NEW r \in Requests \ used, NEW w \in BOOLEAN,
           Encode(s, r, w, fr)
    PROVE  IInv'
  <1>0. /\ r \notin queued /\ calls[r] = 0 /\ link[r] = 0
        /\ used' = used \cup {r} /\ used' \in SUBSET Requests
        /\ UNCHANGED <<status, conf, active, calls, wild>>
    BY DEF QueueInv, QueueTypeOK, UnusedNotCalled, Encode
  <1>1. \A i \in 1..Len(fr) : fr[i].kind = "send" => fr[i].request # r
    BY DEF Frames
  <1>2. CASE "send" \notin Bindings
    BY <1>0, <1>1, <1>2, EnqueueStep DEF Encode
  <1>3. CASE "send" \in Bindings
    <2>1. /\ stack' = Append(fr, MkFrame("send", s, r, w))
          /\ UNCHANGED <<queued, link, owner, sends, walking, waiting, scan>>
      BY <1>3 DEF Encode
    <2>2. QueueInv'
      <3>1. QueueTypeOK' /\ Owned' /\ Untouched'
        BY <1>0, <2>1 DEF QueueInv, QueueTypeOK, Owned, Untouched
      <3>2. CountersMatchQueue'
        <4>1. \A t : ActiveOf(t)' = ActiveOf(t) /\ WaitingOf(t)' = WaitingOf(t)
          BY <2>1 DEF ActiveOf, WaitingOf, Own
        <4> QED
          BY <4>1, <1>0, <2>1 DEF CountersMatchQueue, QueueInv
      <3>3. ActiveBounded' /\ SendsBounded' /\ SessionFifo'
        BY <1>0, <2>1 DEF QueueInv, ActiveBounded, SendsBounded, SessionFifo
      <3>4. LinksBounded' /\ UnusedNotCalled' /\ CompletedOnce'
        BY ZenonT(40), <1>0, <2>1 DEF QueueInv, LinksBounded, UnusedNotCalled, CompletedOnce, Linked
      <3> QED
        BY <3>1, <3>2, <3>3, <3>4 DEF QueueInv
    <2>3. Frames(fr, status', used', queued', calls', link')
      <3>1. \A i \in 1..Len(fr) : fr[i].kind = "send" => fr[i].request \notin queued
        BY DEF Frames
      <3> QED
        BY ZenonT(40), <1>0, <2>1, <3>1, FramesStep
    <2>4. /\ MkFrame("send", s, r, w) \in Frame
          /\ MkFrame("send", s, r, w).session = s
          /\ MkFrame("send", s, r, w).request = r
      BY MkFrameType DEF QueueInv, Kinds, ScriptKinds
    <2>5. Frames(Append(fr, MkFrame("send", s, r, w)),
                 status', used', queued', calls', link')
      <3> DEFINE f == MkFrame("send", s, r, w)
      <3>1. /\ status'[f.session] # "none" /\ f.request \in used' \ queued'
            /\ calls'[f.request] = 0 /\ link'[f.request] = 0
            /\ \A i \in 1..Len(fr) : fr[i].kind = "send" => fr[i].request # f.request
        BY <1>0, <1>1, <2>1, <2>4
      <3> HIDE DEF f
      <3>2. f \in Frame
        BY <2>4 DEF f
      <3>3. Frames(Append(fr, f), status', used', queued', calls', link')
        BY <2>3, <3>1, <3>2, FramesPush
      <3> QED
        BY <3>3 DEF f
    <2> QED
      BY <2>1, <2>2, <2>5 DEF IInv, StackInv
  <1> QED
    BY <1>2, <1>3
=============================================================================
