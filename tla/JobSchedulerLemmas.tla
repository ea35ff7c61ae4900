------------------------- MODULE JobSchedulerLemmas -------------------------
(***************************************************************************)
(* What the operators of the job scheduler do to its stack, its list and   *)
(* its clocks, and the invariant that the proofs about it start from:      *)
(* types, a list that holds the jobs that exist, and frames that name jobs *)
(* that were created.                                                      *)
(***************************************************************************)
EXTENDS JobScheduler, SequenceTheorems, WellFoundedInduction, TLAPS

-----------------------------------------------------------------------------
(* The invariant of types, list and frames.                                *)

HistoryOK ==
    /\ activated \in [Jobs -> Nat]
    /\ limit \in [Jobs -> Nat]
    /\ owed \in [Jobs -> 0 .. MaxInterval]

Statuses == {"none", "suspended", "waiting", "running", "expired", "gone"}

\* A job that is not created yet is due at once when it will be, and owes nothing.
Fresh == \A j \in Jobs : jobStatus[j] = "none" => remtime[j] = 0 /\ activated[j] = 0

\* The list holds the jobs that exist, each of them once.
Entries == \A i, k \in DOMAIN jobList : jobList[i] = jobList[k] => i = k
Living == \A j \in Jobs : j \in Listed <=> jobStatus[j] \notin {"none", "gone"}

\* The frame of a script names a job that was created.
FramesOK ==
    \A i \in DOMAIN jobStack : jobStack[i].kind \in JobScriptKinds =>
        jobStack[i].job \in Jobs /\ jobStatus[jobStack[i].job] # "none"

\* The clock does not run after an AdjustTime() that stopped it.
Base ==
    /\ JobTypeOK /\ HistoryOK /\ Fresh
    /\ Entries /\ Living /\ FramesOK
    /\ ~running => elapsed = 0

-----------------------------------------------------------------------------
(* Operators.                                                              *)

\* A nonempty set of natural numbers has a least element.
LEMMA LeastNat ==
    ASSUME NEW S, S \subseteq Nat, S # {}
    PROVE  Least(S) \in S /\ \A y \in S : Least(S) <= y
<1>1. PICK x \in S : \A y \in S : ~ (<<y, x>> \in OpToRel(<, Nat))
  BY NatLessThanWellFounded, WFMin
<1>2. \A y \in S : ~ (y < x)
  BY <1>1, ZenonT(30) DEF OpToRel
<1>3. \A y \in S : x <= y
  BY <1>2
<1> QED
  BY <1>3, ZenonT(30) DEF Least

\* The longest interval exists, and is one of the positive intervals.
LEMMA MaxIntervalFacts ==
    /\ MaxInterval \in Intervals /\ MaxInterval \in Nat /\ MaxInterval > 0
    /\ \A i \in Intervals : i \in Nat /\ i > 0 /\ i <= MaxInterval
<1>1. \E i \in Intervals : \A k \in Intervals : k <= i
  BY SchedulerAssumption
<1>2. MaxInterval \in Intervals /\ \A k \in Intervals : k <= MaxInterval
  BY <1>1 DEF MaxInterval
<1>3. Intervals \subseteq Nat \ {0}
  BY SchedulerAssumption
<1>4. \A i \in Intervals : i \in Nat /\ i > 0
  BY <1>3
<1> QED
  BY <1>2, <1>4

\* NextSchedule() never sets the timer later than a job of its list is due.
LEMMA NextTimerEarly ==
    ASSUME NEW list \in Seq(Jobs), NEW st, NEW rem \in [Jobs -> Nat]
    PROVE  /\ NextTimer(list, st, rem) \in {NoTimer} \cup Nat
           /\ \A i \in DOMAIN list : st[list[i]] \in {"waiting", "expired"} =>
                /\ NextTimer(list, st, rem) # NoTimer
                /\ NextTimer(list, st, rem) <= rem[list[i]]
<1> DEFINE due == {rem[list[i]] :
                      i \in {k \in DOMAIN list : st[list[k]] \in {"waiting", "expired"}}}
<1>1. due \subseteq Nat
  OBVIOUS
<1>2. CASE due = {}
  BY <1>2 DEF NextTimer
<1>3. CASE due # {}
  <2>1. Least(due) \in due /\ \A y \in due : Least(due) <= y
    BY <1>1, <1>3, LeastNat, ZenonT(30)
  <2>2. NextTimer(list, st, rem) = Least(due)
    BY <1>3, ZenonT(30) DEF NextTimer
  <2>3. \A i \in DOMAIN list : st[list[i]] \in {"waiting", "expired"} => rem[list[i]] \in due
    OBVIOUS
  <2>4. Least(due) \in Nat
    BY <1>1, <2>1
  <2> HIDE DEF due
  <2> QED
    BY <2>1, <2>2, <2>3, <2>4 DEF NoTimer
<1> QED
  BY <1>2, <1>3

\* Frames: what pushing, popping and moving on do to the stack.
LEMMA PushFacts ==
    ASSUME jobStack \in Seq(JobFrame), NEW kind \in JobKinds, NEW j \in Jobs \cup {NoJob}
    PROVE  LET s == Push(kind, j) IN
           /\ s \in Seq(JobFrame)
           /\ Len(s) = Len(jobStack) + 1 /\ DOMAIN s = 1 .. Len(jobStack) + 1
           /\ \A i \in DOMAIN jobStack : s[i] = jobStack[i]
           /\ s[Len(jobStack) + 1] = [kind |-> kind, job |-> j, age |-> 0]
<1>1. [kind |-> kind, job |-> j, age |-> 0] \in JobFrame
  BY MaxIntervalFacts DEF JobFrame
<1> QED
  BY <1>1 DEF Push

\* A return takes the innermost frame away.
LEMMA PopFacts ==
    ASSUME jobStack \in Seq(JobFrame), jobStack # <<>>
    PROVE  /\ JobPop \in Seq(JobFrame)
           /\ DOMAIN JobPop = 1 .. Len(jobStack) - 1
           /\ \A i \in 1 .. Len(jobStack) - 1 : JobPop[i] = jobStack[i]
BY DEF JobPop

\* A frame with a kind is the last one of a stack that is not empty.
LEMMA TopFacts ==
    ASSUME jobStack \in Seq(JobFrame), JobTop.kind # "none"
    PROVE  /\ jobStack # <<>> /\ Len(jobStack) \in Nat /\ Len(jobStack) >= 1
           /\ Len(jobStack) \in DOMAIN jobStack /\ DOMAIN jobStack = 1 .. Len(jobStack)
           /\ JobTop = jobStack[Len(jobStack)]
           /\ JobTop \in JobFrame
<1>1. jobStack # <<>>
  BY DEF JobTop, JobNoFrame
<1> QED
  BY <1>1 DEF JobTop

\* A function that moves on changes its own frame and keeps its clock.
LEMMA GotoFacts ==
    ASSUME jobStack \in Seq(JobFrame), jobStack # <<>>,
           NEW kind \in JobKinds, NEW j \in Jobs \cup {NoJob}
    PROVE  LET s == Goto(kind, j) IN
           /\ s \in Seq(JobFrame)
           /\ Len(s) = Len(jobStack) /\ DOMAIN s = DOMAIN jobStack
           /\ \A i \in DOMAIN jobStack : i # Len(jobStack) => s[i] = jobStack[i]
           /\ s[Len(jobStack)] = [kind |-> kind, job |-> j, age |-> jobStack[Len(jobStack)].age]
<1> DEFINE n == Len(jobStack)
           f == [kind |-> kind, job |-> j, age |-> jobStack[n].age]
<1>1. n \in DOMAIN jobStack /\ jobStack[n] \in JobFrame
  OBVIOUS
<1>2. f \in JobFrame
  BY <1>1 DEF JobFrame
<1>3. Goto(kind, j) = [jobStack EXCEPT ![n] = f]
  BY DEF Goto, JobTop
<1> QED
  BY <1>1, <1>2, <1>3

\* AdjustTime() takes the elapsed time from every job that is not suspended.
LEMMA AdjustedFacts ==
    ASSUME JobTypeOK, NEW st
    PROVE  /\ Adjusted(st) \in [Jobs -> 0 .. MaxInterval]
           /\ \A j \in Jobs : Adjusted(st)[j] = IF running /\ j \in Listed /\ st[j] # "suspended"
                                                THEN AtLeastZero(remtime[j] - elapsed)
                                                ELSE remtime[j]
<1>1. /\ MaxInterval \in Nat
      /\ elapsed \in 0 .. MaxInterval /\ remtime \in [Jobs -> 0 .. MaxInterval]
  BY MaxIntervalFacts DEF JobTypeOK
<1>2. \A j \in Jobs : AtLeastZero(remtime[j] - elapsed) \in 0 .. MaxInterval
  BY <1>1 DEF AtLeastZero
<1> QED
  BY <1>1, <1>2 DEF Adjusted

\* DeleteProc() takes one entry out of the list.
LEMMA WithoutFacts ==
    ASSUME jobList \in Seq(Jobs), NEW j \in Listed
    PROVE  /\ Without(j) \in Seq(Jobs)
           /\ \E i \in DOMAIN jobList :
                /\ jobList[i] = j
                /\ DOMAIN Without(j) = 1 .. Len(jobList) - 1
                /\ \A k \in 1 .. Len(jobList) - 1 :
                     Without(j)[k] = IF k < i THEN jobList[k] ELSE jobList[k + 1]
<1> DEFINE i == CHOOSE k \in DOMAIN jobList : jobList[k] = j
           n == Len(jobList)
           front == SubSeq(jobList, 1, i - 1)
           back == SubSeq(jobList, i + 1, n)
<1>1. i \in DOMAIN jobList /\ jobList[i] = j
  BY DEF Listed
<1>2. i \in 1 .. n /\ n \in Nat
  BY <1>1
<1>3. Without(j) = front \o back
  BY DEF Without
<1> HIDE DEF i
<1>4. front \in Seq(Jobs) /\ Len(front) = i - 1 /\ \A k \in 1 .. i - 1 : front[k] = jobList[k]
  BY <1>2
<1>5. back \in Seq(Jobs) /\ Len(back) = n - i /\ \A k \in 1 .. n - i : back[k] = jobList[i + k]
  BY <1>2
<1> HIDE DEF front, back
<1>6. /\ front \o back \in Seq(Jobs)
      /\ Len(front \o back) = n - 1
      /\ \A k \in 1 .. n - 1 : (front \o back)[k] = IF k < i THEN jobList[k] ELSE jobList[k + 1]
  <2>1. front \o back \in Seq(Jobs) /\ Len(front \o back) = n - 1
    <3>1. front \o back \in Seq(Jobs) /\ Len(front \o back) = Len(front) + Len(back)
      BY <1>4, <1>5, ConcatProperties, Zenon
    <3>2. (i - 1) + (n - i) = n - 1
      BY <1>2
    <3> QED
      BY <3>1, <3>2, <1>4, <1>5
  <2>2. ASSUME NEW k \in 1 .. n - 1
        PROVE  (front \o back)[k] = IF k < i THEN jobList[k] ELSE jobList[k + 1]
    <3>1. (front \o back)[k] = IF k <= i - 1 THEN front[k] ELSE back[k - (i - 1)]
      BY <1>2, <1>4, <1>5
    <3>2. CASE k < i
      BY <3>1, <3>2, <1>2, <1>4
    <3>3. CASE ~(k < i)
      <4>1. PICK m \in 1 .. n - i : m = k - (i - 1) /\ i + m = k + 1
        BY <3>3, <1>2
      <4>2. back[m] = jobList[k + 1]
        BY <4>1, <1>5
      <4>3. ~(k <= i - 1)
        BY <3>3, <1>2
      <4> QED
        BY <4>1, <4>2, <4>3, <3>1, <3>3
    <3> QED
      BY <3>2, <3>3, ZenonT(30)
  <2> QED
    BY <2>1, <2>2
<1>7. DOMAIN (front \o back) = 1 .. n - 1
  BY <1>6
<1> QED
  BY <1>1, <1>3, <1>6, <1>7

\* A job that is taken out is the only one to leave the list.
LEMMA WithoutListed ==
    ASSUME jobList \in Seq(Jobs), NEW j \in Listed, jobList' = Without(j)
    PROVE  /\ jobList' \in Seq(Jobs)
           /\ Listed' \subseteq Listed
           /\ (\A i, k \in DOMAIN jobList : jobList[i] = jobList[k] => i = k) =>
                /\ Listed' = Listed \ {j}
                /\ \A i, k \in DOMAIN jobList' : jobList'[i] = jobList'[k] => i = k
<1>1. PICK d \in DOMAIN jobList :
                /\ jobList[d] = j
                /\ DOMAIN jobList' = 1 .. Len(jobList) - 1
                /\ \A k \in 1 .. Len(jobList) - 1 :
                     jobList'[k] = IF k < d THEN jobList[k] ELSE jobList[k + 1]
  BY WithoutFacts, ZenonT(30)
<1>2. Len(jobList) \in Nat /\ DOMAIN jobList = 1 .. Len(jobList)
  OBVIOUS
<1>3. \A k \in DOMAIN jobList' : \E i \in DOMAIN jobList : i # d /\ jobList'[k] = jobList[i]
  BY <1>1, <1>2
<1>4. \A i \in DOMAIN jobList : i # d => \E k \in DOMAIN jobList' : jobList'[k] = jobList[i]
  <2> SUFFICES ASSUME NEW i \in DOMAIN jobList, i # d
               PROVE  \E k \in DOMAIN jobList' : jobList'[k] = jobList[i]
    OBVIOUS
  <2>1. CASE i < d
    BY <2>1, <1>1, <1>2
  <2>2. CASE i > d
    <3>1. i - 1 \in 1 .. Len(jobList) - 1 /\ ~(i - 1 < d) /\ (i - 1) + 1 = i
      BY <2>2, <1>2
    <3> QED
      BY <3>1, <1>1
  <2> QED
    BY <2>1, <2>2, <1>2
<1>5. ASSUME \A i, k \in DOMAIN jobList : jobList[i] = jobList[k] => i = k
      PROVE  /\ Listed' = Listed \ {j}
             /\ \A i, k \in DOMAIN jobList' : jobList'[i] = jobList'[k] => i = k
  <2>1. Listed' = Listed \ {j}
    BY <1>1, <1>3, <1>4, <1>5 DEF Listed
  <2>2. ASSUME NEW i \in DOMAIN jobList', NEW k \in DOMAIN jobList', jobList'[i] = jobList'[k]
        PROVE  i = k
    <3> DEFINE at(x) == IF x < d THEN x ELSE x + 1
    <3>1. at(i) \in DOMAIN jobList /\ jobList'[i] = jobList[at(i)]
      BY <1>1, <1>2
    <3>2. at(k) \in DOMAIN jobList /\ jobList'[k] = jobList[at(k)]
      BY <1>1, <1>2
    <3>3. at(i) = at(k)
      BY <3>1, <3>2, <2>2, <1>5, ZenonT(30)
    <3>4. i \in Nat /\ k \in Nat /\ d \in Nat
      BY <1>1, <1>2
    <3> QED
      BY <3>3, <3>4
  <2> QED
    BY <2>1, <2>2
<1>6. Listed' \subseteq Listed
  BY <1>3 DEF Listed
<1> QED
  BY <1>5, <1>6, WithoutFacts

\* Deleting a job: what is left of it, and that the others are not touched.
LEMMA RemoveFacts ==
    ASSUME Base, NEW j \in Jobs, j \in Listed, Remove(j)
    PROVE  /\ jobList' \in Seq(Jobs) /\ Entries' /\ Living' /\ Fresh' /\ HistoryOK'
           /\ Listed' = Listed \ {j}
           /\ jobStatus' = [jobStatus EXCEPT ![j] = "gone"]
           /\ jobStatus' \in [Jobs -> Statuses]
           /\ remtime' \in [Jobs -> 0 .. MaxInterval]
           /\ interval' \in [Jobs -> Intervals]
           /\ iterations' \in [Jobs -> Nat]
<1>1. jobList \in Seq(Jobs) /\ Entries
  BY DEF Base, JobTypeOK
<1>2. jobList' = Without(j)
  BY DEF Remove
<1>3. jobList' \in Seq(Jobs) /\ Listed' = Listed \ {j} /\ Entries'
  BY <1>1, <1>2, WithoutListed DEF Entries
<1>4. /\ jobStatus \in [Jobs -> Statuses] /\ remtime \in [Jobs -> 0 .. MaxInterval]
      /\ interval \in [Jobs -> Intervals] /\ iterations \in [Jobs -> Nat]
  BY DEF Base, JobTypeOK, Statuses
<1>5. /\ jobStatus' = [jobStatus EXCEPT ![j] = "gone"]
      /\ jobStatus' \in [Jobs -> Statuses]
      /\ remtime' \in [Jobs -> 0 .. MaxInterval]
      /\ interval' \in [Jobs -> Intervals]
      /\ iterations' \in [Jobs -> Nat]
  BY <1>4, MaxIntervalFacts DEF Remove, Statuses
<1>6. HistoryOK'
  BY MaxIntervalFacts DEF Remove, Base, HistoryOK
<1>7. Living'
  BY <1>3, <1>4, <1>5 DEF Base, Living
<1>8. Fresh'
  BY <1>4 DEF Base, Fresh, HistoryOK, Remove
<1> QED
  BY <1>3, <1>5, <1>6, <1>7, <1>8

\* No command takes a job back to the time before its creation.
Onward == \A k \in Jobs : jobStatus[k] # "none" => jobStatus'[k] # "none"

\* A call without a script keeps the frames in order.
LEMMA FramesPush ==
    ASSUME Base, NEW kind \in JobKinds, NEW j \in Jobs \cup {NoJob}, Onward,
           kind \notin JobScriptKinds, jobStack' = Push(kind, j)
    PROVE  jobStack' \in Seq(JobFrame) /\ FramesOK'
<1>1. jobStack \in Seq(JobFrame) /\ FramesOK
  BY DEF Base, JobTypeOK
<1>2. /\ jobStack' \in Seq(JobFrame) /\ DOMAIN jobStack' = 1 .. Len(jobStack) + 1
      /\ \A i \in DOMAIN jobStack : jobStack'[i] = jobStack[i]
      /\ jobStack'[Len(jobStack) + 1] = [kind |-> kind, job |-> j, age |-> 0]
  BY <1>1, PushFacts
<1>3. Len(jobStack) \in Nat /\ DOMAIN jobStack = 1 .. Len(jobStack)
  BY <1>1
<1>4. jobStack'[Len(jobStack) + 1].kind \notin JobScriptKinds
  BY <1>2
<1>5. \A i \in DOMAIN jobStack' : i \in DOMAIN jobStack \/ i = Len(jobStack) + 1
  BY <1>2, <1>3
<1>6. FramesOK'
  BY <1>1, <1>2, <1>4, <1>5 DEF FramesOK, Onward
<1> QED
  BY <1>2, <1>6

\* So does moving on, when a script that starts has a job.
LEMMA FramesGoto ==
    ASSUME Base, NEW kind \in JobKinds, NEW j \in Jobs \cup {NoJob}, Onward, jobStack # <<>>,
           kind \in JobScriptKinds => j \in Jobs /\ jobStatus'[j] # "none",
           jobStack' = Goto(kind, j)
    PROVE  jobStack' \in Seq(JobFrame) /\ FramesOK'
<1>1. jobStack \in Seq(JobFrame) /\ FramesOK
  BY DEF Base, JobTypeOK
<1>2. /\ jobStack' \in Seq(JobFrame) /\ DOMAIN jobStack' = DOMAIN jobStack
      /\ \A i \in DOMAIN jobStack : i # Len(jobStack) => jobStack'[i] = jobStack[i]
      /\ jobStack'[Len(jobStack)] = [kind |-> kind, job |-> j, age |-> jobStack[Len(jobStack)].age]
  BY <1>1, GotoFacts
<1>3. jobStack'[Len(jobStack)].kind = kind /\ jobStack'[Len(jobStack)].job = j
  BY <1>2
<1>4. FramesOK'
  BY <1>1, <1>2, <1>3 DEF FramesOK, Onward
<1> QED
  BY <1>2, <1>4

\* So does a return.
LEMMA FramesPop ==
    ASSUME Base, Onward, jobStack # <<>>, jobStack' = JobPop
    PROVE  jobStack' \in Seq(JobFrame) /\ FramesOK'
<1>1. jobStack \in Seq(JobFrame) /\ FramesOK
  BY DEF Base, JobTypeOK
<1>2. /\ JobPop \in Seq(JobFrame)
      /\ DOMAIN JobPop = 1 .. Len(jobStack) - 1
      /\ \A i \in 1 .. Len(jobStack) - 1 : JobPop[i] = jobStack[i]
  BY <1>1, PopFacts
<1>3. DOMAIN JobPop \subseteq DOMAIN jobStack
  BY <1>1, <1>2
<1>4. FramesOK'
  BY <1>1, <1>2, <1>3 DEF FramesOK, Onward
<1> QED
  BY <1>2, <1>4

\* So does a step that leaves the stack alone.
LEMMA FramesSame ==
    ASSUME Base, Onward, jobStack' = jobStack
    PROVE  jobStack' \in Seq(JobFrame) /\ FramesOK'
BY DEF Base, JobTypeOK, FramesOK, Onward

-----------------------------------------------------------------------------
(* Types, the list, and the clock.                                         *)

\* Before any job exists.
LEMMA BaseInit == JobInit => Base
<1> SUFFICES ASSUME JobInit PROVE Base
  OBVIOUS
<1>1. JobTypeOK
  <2>1. jobList \in Seq(Jobs) /\ jobStack \in Seq(JobFrame)
    BY DEF JobInit
  <2>2. remtime \in [Jobs -> 0 .. MaxInterval] /\ interval \in [Jobs -> Intervals]
    BY MaxIntervalFacts DEF JobInit
  <2>3. elapsed \in 0 .. MaxInterval /\ iterations \in [Jobs -> Nat]
    BY MaxIntervalFacts DEF JobInit
  <2> QED
    BY <2>1, <2>2, <2>3, ZenonT(30) DEF JobInit, JobTypeOK
<1>2. HistoryOK /\ Fresh
  BY MaxIntervalFacts DEF JobInit, HistoryOK, Fresh
<1>3. Entries /\ Living /\ FramesOK
  BY DEF JobInit, Entries, Living, FramesOK, Listed
<1> QED
  BY <1>1, <1>2, <1>3 DEF Base, JobInit

\* An action that changes neither the list nor which jobs exist.
LEMMA SameList ==
    ASSUME Base, jobList' = jobList, jobStatus' \in [Jobs -> Statuses],
           \A k \in Jobs : /\ jobStatus'[k] = "none" <=> jobStatus[k] = "none"
                           /\ jobStatus'[k] = "gone" <=> jobStatus[k] = "gone"
    PROVE  Entries' /\ Living' /\ Onward /\ Listed' = Listed
BY DEF Base, Entries, Living, Onward, Listed

\* Time passes for the frames of Schedule(), and changes nothing else of them.
LEMMA TickStack ==
    ASSUME Base, Tick
    PROVE  /\ jobStack' \in Seq(JobFrame) /\ DOMAIN jobStack' = DOMAIN jobStack
           /\ Len(jobStack') = Len(jobStack)
           /\ \A i \in DOMAIN jobStack :
                /\ jobStack'[i].kind = jobStack[i].kind
                /\ jobStack'[i].job = jobStack[i].job
                /\ jobStack[i].kind \notin JobWaitKinds => jobStack'[i].age = Later(jobStack[i].age)
<1>1. jobStack \in Seq(JobFrame) /\ MaxInterval \in Nat
  BY MaxIntervalFacts DEF Base, JobTypeOK
<1>2. DOMAIN jobStack = 1 .. Len(jobStack) /\ Len(jobStack) \in Nat
  BY <1>1
<1> DEFINE later(i) == IF jobStack[i].kind \in JobWaitKinds THEN jobStack[i]
                       ELSE [jobStack[i] EXCEPT !.age = Later(@)]
<1>3. jobStack' = [i \in DOMAIN jobStack |-> later(i)]
  BY DEF Tick
<1>4. ASSUME NEW i \in DOMAIN jobStack
      PROVE  /\ later(i) \in JobFrame
             /\ later(i).kind = jobStack[i].kind
             /\ later(i).job = jobStack[i].job
             /\ jobStack[i].kind \notin JobWaitKinds => later(i).age = Later(jobStack[i].age)
  <2>1. jobStack[i] \in JobFrame
    BY <1>1
  <2>2. Later(jobStack[i].age) \in 0 .. MaxInterval
    BY <1>1, <2>1 DEF Later, JobFrame
  <2> QED
    BY <2>1, <2>2 DEF JobFrame
<1> HIDE DEF later
<1>5. jobStack' \in Seq(JobFrame)
  BY <1>2, <1>3, <1>4
<1> QED
  BY <1>1, <1>2, <1>3, <1>4, <1>5

\* Time passes.
LEMMA BaseTick ==
    ASSUME Base, Tick
    PROVE  Base'
<1>1. /\ UNCHANGED <<jobVars, current, running, jobWild, activated, limit>>
      /\ elapsed' = IF running THEN Later(elapsed) ELSE 0
      /\ timer' = IF timer > 0 THEN timer - 1 ELSE timer
      /\ owed' = [j \in Jobs |-> AtLeastZero(owed[j] - 1)]
  BY DEF Tick
<1>2. MaxInterval \in Nat /\ JobTypeOK /\ HistoryOK
  BY MaxIntervalFacts DEF Base
<1>3. elapsed' \in 0 .. MaxInterval /\ timer' \in {NoTimer} \cup Nat
  BY <1>1, <1>2 DEF JobTypeOK, Later, NoTimer
<1>4. owed' \in [Jobs -> 0 .. MaxInterval]
  BY <1>1, <1>2 DEF HistoryOK, AtLeastZero
<1>5. JobTypeOK' /\ HistoryOK'
  BY <1>1, <1>2, <1>3, <1>4, TickStack DEF JobTypeOK, HistoryOK, jobVars
<1>6. Entries' /\ Living' /\ Fresh'
  BY <1>1 DEF Base, Entries, Living, Listed, Fresh, jobVars
<1>7. FramesOK'
  BY <1>1, TickStack DEF Base, FramesOK, jobVars
<1> QED
  BY <1>1, <1>5, <1>6, <1>7 DEF Base

\* ScheduleProc() and job schedule
LEMMA BaseSchedule ==
    ASSUME Base, ScheduleProc \/ CmdSchedule
    PROVE  Base'
<1>1. /\ UNCHANGED <<jobList, jobStatus, interval, iterations, current, jobWild, history>>
      /\ remtime' = Adjusted(jobStatus) /\ running' = TRUE /\ elapsed' = 0
      /\ timer' \in {NoTimer, timer}
      /\ jobStack' = Push("pass", NoJob)
  BY DEF ScheduleProc, CmdSchedule, AdjustTime
<1>2. MaxInterval \in Nat /\ JobTypeOK /\ HistoryOK
  BY MaxIntervalFacts DEF Base
<1>3. remtime' \in [Jobs -> 0 .. MaxInterval] /\ \A j \in Jobs : j \notin Listed => remtime'[j] = remtime[j]
  BY <1>1, <1>2, AdjustedFacts
<1>4. Entries' /\ Living' /\ Onward
  BY <1>1 DEF Base, Entries, Living, Onward, Listed
<1>5. jobStack' \in Seq(JobFrame) /\ FramesOK'
  BY <1>1, <1>4, FramesPush DEF JobKinds, JobScriptKinds
<1>6. JobTypeOK' /\ HistoryOK'
  BY <1>1, <1>2, <1>3, <1>5 DEF JobTypeOK, HistoryOK, history
<1>7. Fresh'
  BY <1>1, <1>3 DEF Base, Fresh, Living, history
<1> QED
  BY <1>1, <1>4, <1>5, <1>6, <1>7 DEF Base

\* Schedule() starts a script.
LEMMA BaseRun ==
    ASSUME Base, NEW j \in Jobs, RunJob(j)
    PROVE  Base'
<1>1. /\ JobTop.kind = "pass" /\ j \in Listed
      /\ jobStatus' = [jobStatus EXCEPT ![j] = "running"]
      /\ current' = j /\ jobStack' = Goto("run", j)
      /\ activated' = [activated EXCEPT ![j] = IF limit[j] = 0 THEN 0 ELSE @ + 1]
      /\ UNCHANGED <<jobList, remtime, interval, iterations, clockVars, jobWild, limit, owed>>
  BY DEF RunJob, First, Listed
<1>2. JobTypeOK /\ HistoryOK /\ Living /\ Fresh
  BY DEF Base
<1>3. jobStatus[j] \notin {"none", "gone"}
  BY <1>1, <1>2 DEF Living
<1>4. jobStatus' \in [Jobs -> Statuses]
  BY <1>1, <1>2 DEF JobTypeOK, Statuses
<1>5. Entries' /\ Living' /\ Onward
  BY <1>1, <1>2, <1>3, <1>4, SameList DEF JobTypeOK
<1>6. jobStack # <<>>
  BY <1>1 DEF JobTop, JobNoFrame
<1>7. jobStack' \in Seq(JobFrame) /\ FramesOK'
  BY <1>1, <1>2, <1>5, <1>6, FramesGoto DEF JobKinds, JobScriptKinds, JobTypeOK
<1>8. JobTypeOK'
  BY <1>1, <1>2, <1>4, <1>7 DEF JobTypeOK, Statuses, clockVars
<1>9. HistoryOK' /\ Fresh'
  BY <1>1, <1>2, <1>3 DEF HistoryOK, Fresh, JobTypeOK
<1> QED
  BY <1>1, <1>5, <1>7, <1>8, <1>9 DEF Base, clockVars

\* What the end of an activation may do to the job.
LEMMA FinishFacts ==
    ASSUME Base, JobTop.kind \in {"run", "error"}, NEW st \in Statuses,
           Finish(JobTop.job, st)
    PROVE  LET j == JobTop.job IN
           /\ j \in Jobs
           /\ jobStatus' \in [Jobs -> Statuses]
           /\ jobStatus'[j] = IF iterations[j] = 1 THEN "expired"
                              ELSE IF st = "running" THEN "waiting" ELSE st
           /\ \A k \in Jobs : k # j => jobStatus'[k] = jobStatus[k]
           /\ remtime' \in [Jobs -> 0 .. MaxInterval] /\ remtime'[j] = interval[j]
           /\ \A k \in Jobs : k # j => remtime'[k] = remtime[k]
           /\ iterations' \in [Jobs -> Nat]
           /\ iterations'[j] = IF iterations[j] > 0 THEN iterations[j] - 1 ELSE iterations[j]
           /\ \A k \in Jobs : k # j => iterations'[k] = iterations[k]
           /\ owed' \in [Jobs -> 0 .. MaxInterval]
           /\ owed'[j] = AtLeastZero(interval[j] - JobTop.age)
           /\ \A k \in Jobs : k # j => owed'[k] = owed[k]
           /\ UNCHANGED <<running, elapsed>>
<1> DEFINE j == JobTop.job
<1>1. JobTypeOK /\ HistoryOK /\ FramesOK /\ MaxInterval \in Nat
  BY MaxIntervalFacts DEF Base
<1>2. JobTop \in JobFrame /\ JobTop = jobStack[Len(jobStack)] /\ Len(jobStack) \in DOMAIN jobStack
  BY <1>1, TopFacts DEF JobTypeOK
<1>3. j \in Jobs
  BY <1>1, <1>2 DEF FramesOK, JobScriptKinds
<1>4. interval[j] \in Nat /\ interval[j] <= MaxInterval
  BY <1>1, <1>3, MaxIntervalFacts, ZenonT(30) DEF JobTypeOK
<1>5. JobTop.age \in 0 .. MaxInterval
  BY <1>2 DEF JobFrame
<1>6. AtLeastZero(interval[j] - JobTop.age) \in 0 .. MaxInterval
  BY <1>1, <1>4, <1>5 DEF AtLeastZero
<1>7. iterations[j] \in Nat
  BY <1>1, <1>3 DEF JobTypeOK
<1>8. /\ jobStatus' = [jobStatus EXCEPT ![j] = IF iterations[j] = 1 THEN "expired"
                                               ELSE IF st = "running" THEN "waiting" ELSE st]
      /\ remtime' = [remtime EXCEPT ![j] = interval[j]]
      /\ iterations' = [iterations EXCEPT ![j] = IF iterations[j] > 0 THEN iterations[j] - 1
                                                 ELSE iterations[j]]
      /\ owed' = [owed EXCEPT ![j] = AtLeastZero(interval[j] - JobTop.age)]
      /\ UNCHANGED <<running, elapsed>>
  BY <1>1, <1>3 DEF Finish, JobTypeOK
<1> HIDE DEF j
<1>9. /\ jobStatus' \in [Jobs -> Statuses]
      /\ jobStatus'[j] = IF iterations[j] = 1 THEN "expired"
                         ELSE IF st = "running" THEN "waiting" ELSE st
      /\ \A k \in Jobs : k # j => jobStatus'[k] = jobStatus[k]
  BY <1>1, <1>3, <1>8 DEF JobTypeOK, Statuses
<1>10. /\ remtime' \in [Jobs -> 0 .. MaxInterval] /\ remtime'[j] = interval[j]
       /\ \A k \in Jobs : k # j => remtime'[k] = remtime[k]
  BY <1>1, <1>3, <1>4, <1>8 DEF JobTypeOK
<1>11. /\ iterations' \in [Jobs -> Nat]
       /\ iterations'[j] = IF iterations[j] > 0 THEN iterations[j] - 1 ELSE iterations[j]
       /\ \A k \in Jobs : k # j => iterations'[k] = iterations[k]
  BY <1>1, <1>3, <1>7, <1>8 DEF JobTypeOK
<1>12. /\ owed' \in [Jobs -> 0 .. MaxInterval]
       /\ owed'[j] = AtLeastZero(interval[j] - JobTop.age)
       /\ \A k \in Jobs : k # j => owed'[k] = owed[k]
  BY <1>1, <1>3, <1>6, <1>8 DEF HistoryOK
<1> QED
  BY <1>3, <1>8, <1>9, <1>10, <1>11, <1>12 DEF j

\* The three ways in which a script returns.
ToErrorCommand ==
    /\ JobTop.kind = "run" /\ jobStack' = Goto("error", JobTop.job)
    /\ UNCHANGED <<jobStatus, remtime, iterations, running, elapsed, current, jobWild, owed>>
Wild ==
    /\ jobWild' = TRUE
    /\ UNCHANGED <<jobStatus, remtime, iterations, running, elapsed, current, jobStack, owed>>
Forgotten ==
    /\ jobStatus[JobTop.job] = "gone" /\ jobStack' = Goto("pass", NoJob)
    /\ current' = NoJob /\ jobWild' = jobWild
    /\ UNCHANGED <<jobStatus, remtime, iterations, running, elapsed, owed>>
Finished ==
    /\ jobStatus[JobTop.job] # "gone" /\ jobStack' = Goto("pass", NoJob)
    /\ current' = NoJob /\ jobWild' = jobWild
    /\ \E st \in {"expired", jobStatus[JobTop.job]} : Finish(JobTop.job, st)

\* How the script of a job may end.
LEMMA ScriptReturnCases ==
    ASSUME NEW code \in Codes, ScriptReturn(code)
    PROVE  /\ JobTop.kind \in {"run", "error"}
           /\ UNCHANGED <<jobList, interval, timer, activated, limit>>
           /\ ToErrorCommand \/ Wild \/ Forgotten \/ Finished
<1> DEFINE j == JobTop.job
           failed == JobTop.kind = "run" /\ code = "error"
<1>1. /\ JobTop.kind \in {"run", "error"}
      /\ UNCHANGED <<jobList, interval, timer, activated, limit>>
  BY DEF ScriptReturn
<1>2. CASE failed /\ j \in ErrorJobs
  BY <1>1, <1>2 DEF ScriptReturn, ToErrorCommand
<1>3. CASE ~(failed /\ j \in ErrorJobs)
  <2>1. CASE JobFreed(j) \/ (failed /\ jobStatus[j] = "gone")
    BY <1>1, <1>3, <2>1 DEF ScriptReturn, Wild
  <2>2. CASE ~(JobFreed(j) \/ (failed /\ jobStatus[j] = "gone")) /\ jobStatus[j] = "gone"
    BY <1>1, <1>3, <2>2 DEF ScriptReturn, Forgotten
  <2>3. CASE ~(JobFreed(j) \/ (failed /\ jobStatus[j] = "gone")) /\ jobStatus[j] # "gone"
    <3>1. Finish(j, IF failed THEN "expired" ELSE jobStatus[j])
      BY <1>3, <2>3 DEF ScriptReturn
    <3>2. current' = NoJob /\ jobStack' = Goto("pass", NoJob) /\ jobWild' = jobWild
      BY <1>3, <2>3 DEF ScriptReturn
    <3>3. \E st \in {"expired", jobStatus[j]} : Finish(j, st)
      BY <3>1
    <3> QED
      BY <1>1, <2>3, <3>2, <3>3, SMTT(60) DEF Finished
  <2> QED
    BY <2>1, <2>2, <2>3
<1> QED
  BY <1>2, <1>3

\* A script ends.
LEMMA BaseReturn ==
    ASSUME Base, NEW code \in Codes, ScriptReturn(code)
    PROVE  Base'
<1> DEFINE j == JobTop.job
<1>1. JobTypeOK /\ HistoryOK /\ FramesOK /\ Living /\ Fresh
  BY DEF Base
<1>2. /\ JobTop.kind \in {"run", "error"} /\ JobTop = jobStack[Len(jobStack)]
      /\ Len(jobStack) \in DOMAIN jobStack /\ jobStack # <<>>
      /\ UNCHANGED <<jobList, interval, timer, activated, limit>>
  BY <1>1, ScriptReturnCases, TopFacts DEF JobTypeOK
<1>3. j \in Jobs /\ jobStatus[j] # "none"
  BY <1>1, <1>2 DEF FramesOK, JobScriptKinds
<1>4. CASE ToErrorCommand
  <2>1. Entries' /\ Living' /\ Onward
    BY <1>1, <1>2, <1>4, SameList DEF ToErrorCommand, JobTypeOK, Statuses
  <2>2. jobStack' \in Seq(JobFrame) /\ FramesOK'
    BY <1>2, <1>3, <1>4, <2>1, FramesGoto DEF ToErrorCommand, JobKinds, JobScriptKinds
  <2>3. JobTypeOK' /\ HistoryOK' /\ Fresh'
    BY <1>1, <1>2, <1>4, <2>2, SMTT(30) DEF ToErrorCommand, JobTypeOK, HistoryOK, Fresh
  <2> QED
    BY <1>4, <2>1, <2>2, <2>3 DEF Base, ToErrorCommand
<1>5. CASE Wild
  BY <1>2, <1>5, SMTT(60) DEF Wild, Base, JobTypeOK, HistoryOK, Fresh, Entries, Living, Listed, FramesOK
<1>6. CASE Forgotten
  <2>1. Entries' /\ Living' /\ Onward
    BY <1>1, <1>2, <1>6, SameList DEF Forgotten, JobTypeOK, Statuses
  <2>2. jobStack' \in Seq(JobFrame) /\ FramesOK'
    BY <1>2, <1>6, <2>1, FramesGoto DEF Forgotten, JobKinds, JobScriptKinds, JobWaitKinds
  <2>3. JobTypeOK' /\ HistoryOK' /\ Fresh'
    BY <1>1, <1>2, <1>6, <2>2, ZenonT(30) DEF Forgotten, JobTypeOK, HistoryOK, Fresh
  <2> QED
    BY <1>6, <2>1, <2>2, <2>3 DEF Base, Forgotten
<1>7. CASE Finished
  <2>1. PICK st \in {"expired", jobStatus[j]} : Finish(j, st)
    BY <1>7 DEF Finished
  <2>2. st \in Statuses /\ st \notin {"none", "gone"}
    BY <1>1, <1>3, <1>7, <2>1, ZenonT(30) DEF Finished, JobTypeOK, Statuses
  <2>3. /\ jobStatus' \in [Jobs -> Statuses] /\ jobStatus'[j] \notin {"none", "gone"}
        /\ \A k \in Jobs : k # j => jobStatus'[k] = jobStatus[k]
        /\ remtime' \in [Jobs -> 0 .. MaxInterval]
        /\ \A k \in Jobs : k # j => remtime'[k] = remtime[k]
        /\ iterations' \in [Jobs -> Nat]
        /\ owed' \in [Jobs -> 0 .. MaxInterval]
        /\ UNCHANGED <<running, elapsed>>
    BY <1>2, <2>1, <2>2, FinishFacts
  <2>4. Entries' /\ Living' /\ Onward
    BY <1>2, <1>3, <1>7, <2>3, SameList, SMTT(60) DEF Finished
  <2>5. jobStack' \in Seq(JobFrame) /\ FramesOK'
    BY <1>2, <1>7, <2>4, FramesGoto, SMTT(60) DEF Finished, JobKinds, JobScriptKinds, JobWaitKinds
  <2>6. JobTypeOK'
    BY <1>1, <1>2, <1>7, <2>3, <2>5 DEF Finished, JobTypeOK, Statuses
  <2>7. HistoryOK' /\ Fresh'
    BY <1>1, <1>2, <1>3, <2>3, ZenonT(30) DEF HistoryOK, Fresh
  <2> QED
    BY <2>3, <2>4, <2>5, <2>6, <2>7 DEF Base
<1> QED
  BY <1>4, <1>5, <1>6, <1>7, ScriptReturnCases

\* PassDone and the two wait commands change the stack only.
LEMMA BaseWait ==
    ASSUME Base, \/ PassDone
                 \/ \E j \in Jobs : Wait("wait", j)
                 \/ Wait("waitall", NoJob)
                 \/ WaitReturn
    PROVE  Base'
<1>1. UNCHANGED <<jobVars, current, clockVars, jobWild, history>>
  BY DEF PassDone, Wait, WaitReturn
<1>2. UNCHANGED <<jobList, jobStatus, remtime, interval, iterations, current, timer, running,
                  elapsed, jobWild, activated, limit, owed>>
  BY <1>1 DEF jobVars, clockVars, history
<1>3. JobTypeOK /\ HistoryOK /\ Living /\ Fresh
  BY DEF Base
<1>4. Entries' /\ Living' /\ Onward
  BY <1>2, <1>3, SameList DEF JobTypeOK, Statuses
<1>5. jobStack' \in Seq(JobFrame) /\ FramesOK'
  <2>1. CASE PassDone
    <3>1. jobStack # <<>> /\ jobStack' = Goto("sweep", NoJob)
      BY <2>1 DEF PassDone, JobTop, JobNoFrame
    <3> QED
      BY <3>1, <1>4, FramesGoto DEF JobKinds, JobScriptKinds, JobWaitKinds
  <2>2. CASE \E j \in Jobs : Wait("wait", j)
    <3>1. PICK j \in Jobs : jobStack' = Push("wait", j)
      BY <2>2 DEF Wait
    <3> QED
      BY <3>1, <1>4, FramesPush DEF JobKinds, JobScriptKinds, JobWaitKinds
  <2>3. CASE Wait("waitall", NoJob)
    <3>1. jobStack' = Push("waitall", NoJob)
      BY <2>3 DEF Wait
    <3> QED
      BY <3>1, <1>4, FramesPush DEF JobKinds, JobScriptKinds, JobWaitKinds
  <2>4. CASE WaitReturn
    <3>1. jobStack # <<>> /\ jobStack' = JobPop
      BY <2>4 DEF WaitReturn, JobTop, JobNoFrame, JobWaitKinds
    <3> QED
      BY <3>1, <1>4, FramesPop
  <2> QED
    BY <2>1, <2>2, <2>3, <2>4
<1>6. JobTypeOK' /\ HistoryOK' /\ Fresh'
  BY <1>2, <1>3, <1>5, ZenonT(30) DEF JobTypeOK, HistoryOK, Fresh
<1> QED
  BY <1>2, <1>4, <1>5, <1>6 DEF Base

\* An action that deletes a job and leaves the clock alone.
LEMMA BaseRemove ==
    ASSUME Base, NEW j \in Jobs, j \in Listed, Remove(j), UNCHANGED <<current, clockVars>>,
           jobWild' = jobWild,
           jobStack' = jobStack \/ (jobStack # <<>> /\ jobStack' = Goto("sweep", NoJob))
    PROVE  Base'
<1>1. JobTypeOK
  BY DEF Base
<1>2. /\ jobList' \in Seq(Jobs) /\ Entries' /\ Living' /\ Fresh' /\ HistoryOK'
      /\ jobStatus' = [jobStatus EXCEPT ![j] = "gone"] /\ jobStatus' \in [Jobs -> Statuses]
      /\ remtime' \in [Jobs -> 0 .. MaxInterval] /\ interval' \in [Jobs -> Intervals]
      /\ iterations' \in [Jobs -> Nat]
  BY RemoveFacts
<1>3. Onward
  BY <1>1, <1>2 DEF Onward, JobTypeOK
<1>4. jobStack' \in Seq(JobFrame) /\ FramesOK'
  BY <1>3, FramesSame, FramesGoto DEF JobKinds, JobScriptKinds
<1>5. JobTypeOK'
  BY <1>1, <1>2, <1>4 DEF JobTypeOK, Statuses, clockVars
<1> QED
  BY <1>2, <1>4, <1>5 DEF Base, clockVars

\* The second loop removes a job, or starts its exit command.
LEMMA BaseSweep ==
    ASSUME Base, NEW j \in Jobs, Sweep(j)
    PROVE  Base'
<1>1. JobTop.kind = "sweep" /\ j \in Listed /\ UNCHANGED <<current, clockVars, jobWild>>
  BY DEF Sweep, First, Listed
<1>2. CASE j \in ExitJobs
  <2>1. jobStack # <<>> /\ jobStack' = Goto("exit", j) /\ UNCHANGED <<jobVars, history>>
    BY <1>1, <1>2 DEF Sweep, JobTop, JobNoFrame
  <2>2. JobTypeOK /\ HistoryOK /\ Living /\ Fresh /\ jobStatus[j] # "none"
    BY <1>1 DEF Base, Living
  <2>3. Entries' /\ Living' /\ Onward
    BY <2>1, <2>2, SameList DEF JobTypeOK, Statuses, jobVars
  <2>4. jobStack' \in Seq(JobFrame) /\ FramesOK'
    BY <2>1, <2>2, <2>3, FramesGoto DEF JobKinds, JobScriptKinds, jobVars
  <2>5. JobTypeOK' /\ HistoryOK' /\ Fresh'
    BY <1>1, <2>1, <2>2, <2>4, ZenonT(30) DEF JobTypeOK, HistoryOK, Fresh, jobVars, history, clockVars
  <2> QED
    BY <1>1, <2>3, <2>4, <2>5 DEF Base, clockVars
<1>3. CASE j \notin ExitJobs
  BY <1>1, <1>3, BaseRemove DEF Sweep
<1> QED
  BY <1>2, <1>3, SMTT(60)

\* The job whose exit command returns.
LEMMA ExitFacts ==
    ASSUME Base, ExitReturn
    PROVE  /\ JobTop.kind = "exit" /\ JobTop.job \in Jobs /\ jobStack # <<>>
           /\ UNCHANGED <<current, clockVars>>
           /\ \/ jobWild' = TRUE /\ UNCHANGED <<jobVars, jobStack, history>>
              \/ /\ JobTop.job \in Listed /\ Remove(JobTop.job)
                 /\ jobStack' = Goto("sweep", NoJob) /\ jobWild' = jobWild
<1>1. JobTypeOK /\ FramesOK /\ Living /\ JobTop.kind = "exit"
  BY DEF Base, ExitReturn
<1>2. JobTop = jobStack[Len(jobStack)] /\ Len(jobStack) \in DOMAIN jobStack /\ jobStack # <<>>
  BY <1>1, TopFacts DEF JobTypeOK
<1>3. JobTop.job \in Jobs /\ jobStatus[JobTop.job] # "none"
  BY <1>1, <1>2 DEF FramesOK, JobScriptKinds
<1>4. CASE jobStatus[JobTop.job] = "gone"
  BY <1>1, <1>2, <1>3, <1>4 DEF ExitReturn
<1>5. CASE jobStatus[JobTop.job] # "gone"
  <2>1. JobTop.job \in Listed
    BY <1>1, <1>3, <1>5 DEF Living
  <2> QED
    BY <1>1, <1>2, <1>3, <1>5, <2>1 DEF ExitReturn
<1> QED
  BY <1>4, <1>5, ZenonT(30)

\* An exit command ends.
LEMMA BaseExit ==
    ASSUME Base, ExitReturn
    PROVE  Base'
<1>1. CASE jobWild' = TRUE /\ UNCHANGED <<jobVars, jobStack, history>>
  <2>1. UNCHANGED <<current, clockVars>>
    BY ExitFacts
  <2> QED
    BY <1>1, <2>1 DEF Base, JobTypeOK, HistoryOK, Fresh, Entries, Living, Listed, FramesOK,
                      jobVars, history, clockVars
<1>2. CASE ~(jobWild' = TRUE /\ UNCHANGED <<jobVars, jobStack, history>>)
  BY <1>2, ExitFacts, BaseRemove, ZenonT(30)
<1> QED
  BY <1>1, <1>2

\* A job is deleted by its command.
LEMMA BaseDelete ==
    ASSUME Base, NEW j \in Jobs, DeleteProc(j)
    PROVE  Base'
BY BaseRemove DEF DeleteProc

\* Rearm: AdjustTime() and NextSchedule() with statuses st of the same list.
LEMMA RearmFacts ==
    ASSUME Base, NEW st, Rearm(jobList, st),
           \A j \in Jobs : j \notin Listed => st[j] = jobStatus[j]
    PROVE  /\ remtime' = Adjusted(st) /\ remtime' \in [Jobs -> 0 .. MaxInterval]
           /\ \A j \in Jobs : j \notin Listed => remtime'[j] = remtime[j]
           /\ timer' \in {NoTimer} \cup Nat
           /\ running' \in BOOLEAN /\ elapsed' = 0 /\ elapsed' \in 0 .. MaxInterval
           /\ \A i \in DOMAIN jobList : st[jobList[i]] \in {"waiting", "expired"} =>
                timer' # NoTimer /\ timer' <= remtime'[jobList[i]]
<1>1. JobTypeOK /\ MaxInterval \in Nat
  BY MaxIntervalFacts, SMTT(60) DEF Base
<1>2. /\ remtime' = Adjusted(st) /\ remtime' \in [Jobs -> 0 .. MaxInterval]
      /\ \A j \in Jobs : j \notin Listed => remtime'[j] = remtime[j]
  <2>1. remtime' = Adjusted(st)
    BY ZenonT(30) DEF Rearm
  <2>2. \A j \in Jobs : j \notin Listed => Adjusted(st)[j] = remtime[j]
    BY <1>1, AdjustedFacts, ZenonT(30)
  <2>3. Adjusted(st) \in [Jobs -> 0 .. MaxInterval]
    BY <1>1, AdjustedFacts, ZenonT(30)
  <2> QED
    BY <2>1, <2>2, <2>3, ZenonT(30)
<1>3. remtime' \in [Jobs -> Nat]
  BY <1>1, <1>2
<1>4. timer' = NextTimer(jobList, st, remtime')
  BY DEF Rearm
<1>5. /\ timer' \in {NoTimer} \cup Nat
      /\ \A i \in DOMAIN jobList : st[jobList[i]] \in {"waiting", "expired"} =>
           timer' # NoTimer /\ timer' <= remtime'[jobList[i]]
  <2> DEFINE rem == remtime'
  <2>1. jobList \in Seq(Jobs) /\ rem \in [Jobs -> Nat]
    BY <1>1, <1>3 DEF JobTypeOK
  <2>2. timer' = NextTimer(jobList, st, rem)
    BY <1>4
  <2> HIDE DEF rem
  <2>3. /\ NextTimer(jobList, st, rem) \in {NoTimer} \cup Nat
        /\ \A i \in DOMAIN jobList : st[jobList[i]] \in {"waiting", "expired"} =>
             /\ NextTimer(jobList, st, rem) # NoTimer
             /\ NextTimer(jobList, st, rem) <= rem[jobList[i]]
    BY <2>1, NextTimerEarly
  <2> QED
    BY <2>2, <2>3 DEF rem
<1> QED
  BY <1>1, <1>2, <1>5 DEF Rearm

\* Schedule() returns.
LEMMA BaseSweepDone ==
    ASSUME Base, SweepDone
    PROVE  Base'
<1>1. /\ JobTop.kind = "sweep" /\ Rearm(jobList, jobStatus) /\ jobStack' = JobPop /\ jobStack # <<>>
      /\ UNCHANGED <<jobList, jobStatus, interval, iterations, current, jobWild, history>>
  BY DEF SweepDone, JobTop, JobNoFrame
<1>2. JobTypeOK /\ HistoryOK /\ Living /\ Fresh
  BY DEF Base
<1>3. /\ remtime' \in [Jobs -> 0 .. MaxInterval] /\ timer' \in {NoTimer} \cup Nat
      /\ running' \in BOOLEAN /\ elapsed' = 0 /\ elapsed' \in 0 .. MaxInterval
      /\ \A j \in Jobs : j \notin Listed => remtime'[j] = remtime[j]
  BY <1>1, RearmFacts
<1>4. Entries' /\ Living' /\ Onward
  BY <1>1, <1>2, SameList DEF JobTypeOK, Statuses
<1>5. jobStack' \in Seq(JobFrame) /\ FramesOK'
  BY <1>1, <1>4, FramesPop
<1>6. JobTypeOK' /\ HistoryOK' /\ Fresh'
  BY <1>1, <1>2, <1>3, <1>5 DEF JobTypeOK, HistoryOK, Fresh, Living, history
<1> QED
  BY <1>3, <1>4, <1>5, <1>6 DEF Base

\* A new job is listed once, and the timer is set to fire at once.
LEMMA BaseCreate ==
    ASSUME Base, NEW j \in Jobs, NEW i \in Intervals, NEW n \in Iterations, CreateJob(j, i, n)
    PROVE  /\ Base'
           /\ Listed' = Listed \cup {j} /\ j \notin Listed /\ remtime[j] = 0
           /\ timer' = 0
<1>1. /\ jobStatus[j] = "none" /\ jobList' = Append(jobList, j)
      /\ jobStatus' = [jobStatus EXCEPT ![j] = "waiting"]
      /\ interval' = [interval EXCEPT ![j] = i]
      /\ iterations' = [iterations EXCEPT ![j] = n]
      /\ limit' = [limit EXCEPT ![j] = n]
      /\ timer' = NextTimer(jobList', jobStatus', remtime)
      /\ UNCHANGED <<remtime, current, running, elapsed, jobStack, jobWild, activated, owed>>
  BY DEF CreateJob
<1>2. JobTypeOK /\ HistoryOK /\ Living /\ Fresh /\ Entries /\ MaxInterval \in Nat
  BY MaxIntervalFacts DEF Base
<1>3. n \in Nat
  <2>1. Iterations \subseteq Nat
    BY SchedulerAssumption
  <2> QED
    BY <2>1
<1>4. j \notin Listed /\ remtime[j] = 0
  BY <1>1, <1>2 DEF Living, Fresh
<1>5. /\ jobList' \in Seq(Jobs) /\ DOMAIN jobList' = 1 .. Len(jobList) + 1
      /\ Len(jobList) \in Nat /\ DOMAIN jobList = 1 .. Len(jobList)
      /\ \A k \in DOMAIN jobList : jobList'[k] = jobList[k]
      /\ jobList'[Len(jobList) + 1] = j
  BY <1>1, <1>2 DEF JobTypeOK
<1>6. Listed' = Listed \cup {j}
  BY <1>5 DEF Listed
<1>7. Entries'
  <2> SUFFICES ASSUME NEW k \in DOMAIN jobList', NEW m \in DOMAIN jobList',
                      jobList'[k] = jobList'[m]
               PROVE  k = m
    BY DEF Entries
  <2>1. \A x \in DOMAIN jobList' : x \in DOMAIN jobList \/ x = Len(jobList) + 1
    BY <1>5
  <2>2. \A x \in DOMAIN jobList : jobList'[x] \in Listed
    BY <1>5 DEF Listed
  <2> QED
    BY <1>2, <1>4, <1>5, <2>1, <2>2 DEF Entries
<1>8. Living' /\ Onward
  BY <1>1, <1>2, <1>6 DEF Living, Onward, JobTypeOK
<1>9. jobStack' \in Seq(JobFrame) /\ FramesOK'
  BY <1>1, <1>8, FramesSame
<1>10. remtime \in [Jobs -> Nat]
  BY <1>2 DEF JobTypeOK
<1>11. timer' = 0
  <2> DEFINE list == jobList'
             st == jobStatus'
  <2>1. list \in Seq(Jobs) /\ Len(jobList) + 1 \in DOMAIN list /\ list[Len(jobList) + 1] = j
    BY <1>5
  <2>2. st[j] = "waiting" /\ timer' = NextTimer(list, st, remtime)
    BY <1>1, <1>2 DEF JobTypeOK
  <2> HIDE DEF list, st
  <2>3. /\ NextTimer(list, st, remtime) \in {NoTimer} \cup Nat
        /\ \A k \in DOMAIN list : st[list[k]] \in {"waiting", "expired"} =>
             /\ NextTimer(list, st, remtime) # NoTimer
             /\ NextTimer(list, st, remtime) <= remtime[list[k]]
    BY <2>1, <1>10, NextTimerEarly, SMTT(60)
  <2>4. timer' \in Nat /\ timer' <= remtime[j]
    BY <2>1, <2>2, <2>3
  <2> QED
    BY <1>4, <2>4
<1>12. JobTypeOK'
  <2>1. jobStatus' \in [Jobs -> {"none", "suspended", "waiting", "running", "expired", "gone"}]
    BY <1>1, <1>2 DEF JobTypeOK
  <2>2. interval' \in [Jobs -> Intervals]
    BY <1>1, <1>2 DEF JobTypeOK
  <2>3. iterations' \in [Jobs -> Nat]
    BY <1>1, <1>2, <1>3 DEF JobTypeOK
  <2>4. /\ remtime' = remtime /\ current' = current /\ running' = running /\ elapsed' = elapsed
        /\ jobWild' = jobWild
    BY <1>1
  <2>5. timer' \in {NoTimer} \cup Nat
    BY <1>11
  <2> QED
    BY <1>2, <1>5, <1>9, <2>1, <2>2, <2>3, <2>4, <2>5, Zenon DEF JobTypeOK
<1>13. HistoryOK' /\ Fresh'
  BY <1>1, <1>2, <1>3 DEF HistoryOK, Fresh, JobTypeOK
<1> QED
  BY <1>1, <1>4, <1>6, <1>7, <1>8, <1>9, <1>11, <1>12, <1>13 DEF Base

\* A status is set, and the timer with it.
LEMMA BaseStatus ==
    ASSUME Base, NEW j \in Jobs, NEW st \in {"suspended", "waiting", "expired"}, SetStatus(j, st)
    PROVE  /\ Base'
           /\ j \in Listed /\ jobStatus' = [jobStatus EXCEPT ![j] = st]
           /\ Listed' = Listed /\ Rearm(jobList, jobStatus')
           /\ \A k \in Jobs : k \notin Listed => jobStatus'[k] = jobStatus[k]
<1>1. /\ j \in Listed /\ jobStatus' = [jobStatus EXCEPT ![j] = st] /\ Rearm(jobList, jobStatus')
      /\ UNCHANGED <<jobList, interval, iterations, current, jobStack, jobWild, history>>
  BY DEF SetStatus
<1>2. JobTypeOK /\ HistoryOK /\ Living /\ Fresh
  BY DEF Base
<1>3. jobStatus' \in [Jobs -> Statuses] /\ jobStatus[j] \notin {"none", "gone"}
  BY <1>1, <1>2 DEF JobTypeOK, Statuses, Living
<1>4. \A k \in Jobs : k \notin Listed => jobStatus'[k] = jobStatus[k]
  BY <1>1, <1>2 DEF JobTypeOK
<1>5. /\ remtime' \in [Jobs -> 0 .. MaxInterval] /\ timer' \in {NoTimer} \cup Nat
      /\ running' \in BOOLEAN /\ elapsed' = 0 /\ elapsed' \in 0 .. MaxInterval
      /\ \A k \in Jobs : k \notin Listed => remtime'[k] = remtime[k]
  BY <1>1, <1>4, RearmFacts, ZenonT(30)
<1>6. Entries' /\ Living' /\ Onward /\ Listed' = Listed
  BY <1>1, <1>2, <1>3, SameList DEF JobTypeOK
<1>7. jobStack' \in Seq(JobFrame) /\ FramesOK'
  BY <1>1, <1>6, FramesSame
<1>8. JobTypeOK'
  BY <1>1, <1>2, <1>3, <1>5, <1>7 DEF JobTypeOK, Statuses
<1>9. HistoryOK' /\ Fresh'
  BY <1>1, <1>2, <1>3, <1>4, <1>5, SMTT(30) DEF HistoryOK, Fresh, Living, history, JobTypeOK
<1> QED
  BY <1>1, <1>4, <1>5, <1>6, <1>7, <1>8, <1>9 DEF Base

\* The other commands.
LEMMA BaseSettings ==
    ASSUME Base, NEW j \in Jobs,
           \/ \E i \in Intervals : SetInterval(j, i)
           \/ \E n \in Iterations : SetIterations(j, n)
           \/ GetTime(j)
           \/ JobDestroy(j)
    PROVE  Base' /\ Listed' = Listed
<1>1. JobTypeOK /\ HistoryOK /\ Living /\ Fresh
  BY DEF Base
<1>2. /\ UNCHANGED <<jobList, current, jobStack, jobWild, owed>>
      /\ limit' \in [Jobs -> Nat]
      /\ activated' \in {activated, [activated EXCEPT ![j] = 0]}
  <2>1. CASE \E n \in Iterations : SetIterations(j, n)
    BY <1>1, <2>1 DEF SetIterations, HistoryOK
  <2>2. CASE ~ \E n \in Iterations : SetIterations(j, n)
    <3>1. UNCHANGED <<jobList, current, jobStack, jobWild, history>>
      BY <2>2 DEF SetInterval, GetTime, JobDestroy
    <3> QED
      BY <1>1, <3>1 DEF HistoryOK, history
  <2> QED
    BY <2>1, <2>2
<1>3. interval' \in [Jobs -> Intervals] /\ iterations' \in [Jobs -> Nat]
  <2>1. Iterations \subseteq Nat
    BY SchedulerAssumption
  <2>2. interval \in [Jobs -> Intervals] /\ iterations \in [Jobs -> Nat]
    BY <1>1 DEF JobTypeOK
  <2>3. \/ interval' = interval
        \/ \E i \in Intervals : interval' = [interval EXCEPT ![j] = i]
    BY DEF SetInterval, SetIterations, GetTime, JobDestroy
  <2>4. \/ iterations' = iterations
        \/ \E n \in Iterations : iterations' = [iterations EXCEPT ![j] = n]
    BY DEF SetInterval, SetIterations, GetTime, JobDestroy
  <2>5. interval' \in [Jobs -> Intervals]
    BY <2>2, <2>3
  <2>6. iterations' \in [Jobs -> Nat]
    BY <2>1, <2>2, <2>4
  <2> QED
    BY <2>5, <2>6
<1>4. /\ j \in Listed
      /\ jobStatus' = jobStatus \/ jobStatus' = [jobStatus EXCEPT ![j] = "expired"]
  BY DEF SetInterval, SetIterations, GetTime, JobDestroy
<1>5. jobStatus' \in [Jobs -> Statuses] /\ jobStatus[j] \notin {"none", "gone"}
  BY <1>1, <1>4, ZenonT(30) DEF JobTypeOK, Statuses, Living
<1>6. Entries' /\ Living' /\ Onward /\ Listed' = Listed
  BY <1>1, <1>2, <1>4, <1>5, SameList DEF JobTypeOK
<1>7. jobStack' \in Seq(JobFrame) /\ FramesOK'
  BY <1>2, <1>6, FramesSame
<1>8. /\ remtime' \in [Jobs -> 0 .. MaxInterval] /\ timer' \in {NoTimer} \cup Nat
      /\ running' \in BOOLEAN /\ elapsed' \in 0 .. MaxInterval
      /\ ~running' => elapsed' = 0
      /\ \A k \in Jobs : k \notin Listed => remtime'[k] = remtime[k]
  <2>1. CASE GetTime(j)
    BY <1>1, <2>1, AdjustedFacts, MaxIntervalFacts DEF GetTime, AdjustTime, JobTypeOK
  <2>2. CASE UNCHANGED <<remtime, clockVars>>
    BY <1>1, <2>2 DEF Base, JobTypeOK, clockVars
  <2> QED
    BY <2>1, <2>2 DEF SetInterval, SetIterations, JobDestroy
<1>9. JobTypeOK'
  BY <1>1, <1>2, <1>3, <1>5, <1>7, <1>8 DEF JobTypeOK, Statuses
<1>10. HistoryOK'
  BY <1>1, <1>2 DEF HistoryOK
<1>11. Fresh'
  BY <1>1, <1>2, <1>4, <1>5, <1>8, ZenonT(30) DEF Fresh, Living, JobTypeOK, HistoryOK
<1> QED
  BY <1>6, <1>7, <1>8, <1>9, <1>10, <1>11 DEF Base

\* Every step keeps the types, the list and the frames of scripts right.
LEMMA BaseStep == Base /\ [JobNext]_schedVars => Base'
<1> SUFFICES ASSUME Base, [JobNext]_schedVars PROVE Base'
  OBVIOUS
<1>1. CASE Tick
  BY <1>1, BaseTick
<1>2. CASE ScheduleProc \/ CmdSchedule
  BY <1>2, BaseSchedule
<1>3. CASE Looping
  BY <1>3, BaseWait, BaseSweepDone, BaseRun, BaseSweep DEF Looping
<1>4. CASE JobReturns
  BY <1>4, BaseExit, BaseReturn DEF JobReturns
<1>5. CASE Settings
  <2>1. PICK j \in Jobs :
             \/ \E i \in Intervals, n \in Iterations : CreateJob(j, i, n)
             \/ \E st \in {"suspended", "waiting", "expired"} : SetStatus(j, st)
             \/ \E i \in Intervals : SetInterval(j, i)
             \/ \E n \in Iterations : SetIterations(j, n)
             \/ GetTime(j)
             \/ JobDestroy(j)
             \/ DeleteProc(j)
             \/ Wait("wait", j)
    BY <1>5 DEF Settings
  <2> QED
    BY <2>1, BaseCreate, BaseStatus, BaseSettings, BaseDelete, BaseWait
<1>6. CASE Wait("waitall", NoJob)
  BY <1>6, BaseWait, SMTT(60)
<1>7. CASE UNCHANGED schedVars
  <2>1. UNCHANGED <<jobVars, current, clockVars, jobStack, jobWild, history>>
    BY <1>7 DEF schedVars
  <2> QED
    BY <2>1 DEF Base, JobTypeOK, HistoryOK, Fresh, Entries, Living, Listed, FramesOK,
                jobVars, history, clockVars
<1> QED
  BY <1>1, <1>2, <1>3, <1>4, <1>5, <1>6, <1>7 DEF JobNext

\* Types, the list and the frames, in every reachable state.
THEOREM BaseHolds == JobSpec => []Base
  BY BaseInit, BaseStep, PTL DEF JobSpec

-----------------------------------------------------------------------------
(* When Schedule() is active.                                              *)

\* Schedule() is active after a step that enters it or moves it on.
LEMMA SchedulingGoto ==
    ASSUME jobStack \in Seq(JobFrame), jobStack # <<>>, NEW kind \in JobKinds \ JobWaitKinds,
           NEW j \in Jobs \cup {NoJob}, jobStack' = Goto(kind, j)
    PROVE  Scheduling'
<1>1. jobStack'[Len(jobStack)] = [kind |-> kind, job |-> j, age |-> jobStack[Len(jobStack)].age]
  BY GotoFacts, ZenonT(30)
<1>2. jobStack'[Len(jobStack)].kind \notin JobWaitKinds
  BY <1>1
<1>3. DOMAIN jobStack' = DOMAIN jobStack
  BY GotoFacts, ZenonT(30)
<1>4. Len(jobStack) \in DOMAIN jobStack
  OBVIOUS
<1> QED
  BY <1>2, <1>3, <1>4 DEF Scheduling

\* A new pass is active.
LEMMA SchedulingPush ==
    ASSUME jobStack \in Seq(JobFrame), jobStack' = Push("pass", NoJob)
    PROVE  Scheduling'
<1>1. "pass" \in JobKinds /\ NoJob \in Jobs \cup {NoJob} /\ Len(jobStack) \in Nat
  BY DEF JobKinds
<1>2. DOMAIN jobStack' = 1 .. Len(jobStack) + 1
  BY <1>1, PushFacts, ZenonT(30)
<1>3. jobStack'[Len(jobStack) + 1] = [kind |-> "pass", job |-> NoJob, age |-> 0]
  BY <1>1, PushFacts, ZenonT(30)
<1>4. Len(jobStack) + 1 \in DOMAIN jobStack'
  BY <1>1, <1>2, SMTT(60)
<1>5. jobStack'[Len(jobStack) + 1].kind \notin JobWaitKinds
  BY <1>3 DEF JobWaitKinds
<1> QED
  BY <1>4, <1>5 DEF Scheduling

\* A frame of Schedule() at the top makes it active.
LEMMA SchedulingTop ==
    ASSUME jobStack \in Seq(JobFrame), JobTop.kind \notin JobWaitKinds \cup {"none"}
    PROVE  Scheduling
BY TopFacts DEF Scheduling

\* The wait commands do not make a difference.
LEMMA SchedulingWait ==
    ASSUME Base, ~Scheduling',
           \/ \E j \in Jobs : Wait("wait", j)
           \/ Wait("waitall", NoJob)
           \/ WaitReturn
    PROVE  ~Scheduling
<1>1. jobStack \in Seq(JobFrame)
  BY DEF Base, JobTypeOK
<1>2. CASE WaitReturn
  <2>1. jobStack' = JobPop /\ JobTop.kind \in JobWaitKinds
    BY <1>2 DEF WaitReturn
  <2>2. /\ jobStack # <<>> /\ Len(jobStack) \in Nat /\ DOMAIN jobStack = 1 .. Len(jobStack)
        /\ jobStack[Len(jobStack)].kind \in JobWaitKinds
    BY <1>1, <2>1, TopFacts DEF JobWaitKinds
  <2>3. /\ DOMAIN jobStack' = 1 .. Len(jobStack) - 1
        /\ \A i \in 1 .. Len(jobStack) - 1 : jobStack'[i] = jobStack[i]
    BY <1>1, <2>1, <2>2, PopFacts
  <2>4. \A i \in DOMAIN jobStack : i \in DOMAIN jobStack' \/ i = Len(jobStack)
    BY <2>2, <2>3
  <2> QED
    BY <2>2, <2>3, <2>4 DEF Scheduling
<1>3. CASE ~WaitReturn
  <2>1. PICK kind \in JobKinds, j \in Jobs \cup {NoJob} : jobStack' = Push(kind, j)
    BY <1>3 DEF Wait, JobKinds, JobWaitKinds
  <2>2. /\ DOMAIN jobStack' = 1 .. Len(jobStack) + 1
        /\ \A i \in DOMAIN jobStack : jobStack'[i] = jobStack[i]
    BY <1>1, <2>1, PushFacts, ZenonT(30)
  <2>3. Len(jobStack) \in Nat /\ DOMAIN jobStack = 1 .. Len(jobStack)
    BY <1>1
  <2> QED
    BY <2>2, <2>3 DEF Scheduling
<1> QED
  BY <1>2, <1>3


\* The steps of Schedule() itself leave it active.
LEMMA SchedulingStays ==
    ASSUME Base,
           \/ ScheduleProc \/ CmdSchedule \/ PassDone \/ JobReturns
           \/ \E j \in Jobs : RunJob(j) \/ Sweep(j)
    PROVE  Scheduling'
<1>1. jobStack \in Seq(JobFrame) /\ FramesOK
  BY DEF Base, JobTypeOK
<1>2. ASSUME NEW kind \in JobKinds \ JobWaitKinds, NEW j \in Jobs \cup {NoJob},
             JobTop.kind # "none", jobStack' = Goto(kind, j)
      PROVE  Scheduling'
  BY <1>1, <1>2, TopFacts, SchedulingGoto
<1>3. ASSUME JobTop.kind \notin JobWaitKinds \cup {"none"}, jobStack' = jobStack
      PROVE  Scheduling'
  BY <1>1, <1>3, SchedulingTop DEF Scheduling
<1>4. CASE ScheduleProc \/ CmdSchedule
  BY <1>1, <1>4, SchedulingPush DEF ScheduleProc, CmdSchedule
<1>5. CASE PassDone
  BY <1>2, <1>5 DEF PassDone, JobKinds, JobScriptKinds, JobWaitKinds
<1>6. ASSUME NEW j \in Jobs, RunJob(j)
      PROVE  Scheduling'
  BY <1>2, <1>6 DEF RunJob, JobKinds, JobScriptKinds, JobWaitKinds
<1>7. ASSUME NEW j \in Jobs, Sweep(j)
      PROVE  Scheduling'
  <2>1. JobTop.kind = "sweep" /\ (jobStack' = Goto("exit", j) \/ jobStack' = jobStack)
    BY <1>7 DEF Sweep
  <2> QED
    BY <1>2, <1>3, <2>1 DEF JobKinds, JobScriptKinds, JobWaitKinds
<1>8. CASE ExitReturn
  <2>1. JobTop.kind = "exit" /\ (jobStack' = Goto("sweep", NoJob) \/ jobStack' = jobStack)
    BY <1>8 DEF ExitReturn
  <2> QED
    BY <1>2, <1>3, <2>1 DEF JobKinds, JobScriptKinds, JobWaitKinds
<1>9. ASSUME NEW code \in Codes, ScriptReturn(code)
      PROVE  Scheduling'
  <2>1. JobTop.kind \in {"run", "error"} /\ (ToErrorCommand \/ Wild \/ Forgotten \/ Finished)
    BY <1>9, ScriptReturnCases
  <2>2. JobTop.job \in Jobs
    BY <1>1, <2>1, TopFacts, SMTT(60) DEF FramesOK, JobScriptKinds
  <2>3. \/ jobStack' = Goto("error", JobTop.job)
        \/ jobStack' = jobStack
        \/ jobStack' = Goto("pass", NoJob)
    BY <2>1 DEF ToErrorCommand, Wild, Forgotten, Finished
  <2> QED
    BY <1>2, <1>3, <2>1, <2>2, <2>3 DEF JobKinds, JobScriptKinds, JobWaitKinds
<1> QED
  BY <1>4, <1>5, <1>6, <1>7, <1>8, <1>9 DEF JobReturns
=============================================================================
