------------------------- MODULE JobSchedulerTimes --------------------------
(***************************************************************************)
(* The timer of the job scheduler and the time between the activations of  *)
(* a job, for any number of jobs, any intervals, and any nesting of        *)
(* scripts in the event loop.                                              *)
(***************************************************************************)
EXTENDS JobSchedulerLemmas

-----------------------------------------------------------------------------
(* The timer.                                                              *)

Covered == \A j \in Listed : jobStatus[j] = "waiting" =>
              timer # NoTimer /\ timer <= AtLeastZero(remtime[j] - elapsed)

\* The timer that NextSchedule() sets is early enough, since AdjustTime() came first.
LEMMA CoveredRearm ==
    ASSUME Base, Rearm(jobList, jobStatus'), jobList' = jobList,
           \A j \in Jobs : j \notin Listed => jobStatus'[j] = jobStatus[j]
    PROVE  Covered'
<1> DEFINE st == jobStatus'
<1>1. /\ Rearm(jobList, st) /\ \A j \in Jobs : j \notin Listed => st[j] = jobStatus[j]
      /\ jobList \in Seq(Jobs)
  BY DEF Base, JobTypeOK
<1> HIDE DEF st
<1>2. /\ remtime' \in [Jobs -> 0 .. MaxInterval] /\ elapsed' = 0
      /\ \A i \in DOMAIN jobList : st[jobList[i]] \in {"waiting", "expired"} =>
           timer' # NoTimer /\ timer' <= remtime'[jobList[i]]
  BY <1>1, RearmFacts
<1>3. \A j \in Listed : j \in Jobs /\ AtLeastZero(remtime'[j] - elapsed') = remtime'[j]
  BY <1>1, <1>2, MaxIntervalFacts DEF Listed, AtLeastZero
<1>4. Listed' = Listed
  BY DEF Listed
<1>5. \A j \in Listed : st[j] = "waiting" => timer' # NoTimer /\ timer' <= remtime'[j]
  BY <1>2 DEF Listed
<1> QED
  BY <1>3, <1>4, <1>5 DEF Covered, st

\* The timer and what is left of every waiting job run down together.
LEMMA CoveredTick ==
    ASSUME Base, Covered, Tick
    PROVE  Covered'
<1>1. /\ UNCHANGED <<jobList, jobStatus, remtime, running>>
      /\ elapsed' = IF running THEN Later(elapsed) ELSE 0
      /\ timer' = IF timer > 0 THEN timer - 1 ELSE timer
  BY DEF Tick, jobVars
<1>2. /\ MaxInterval \in Nat /\ elapsed \in 0 .. MaxInterval /\ timer \in {NoTimer} \cup Nat
      /\ remtime \in [Jobs -> 0 .. MaxInterval] /\ jobList \in Seq(Jobs)
      /\ ~running => elapsed = 0
  BY MaxIntervalFacts DEF Base, JobTypeOK
<1> SUFFICES ASSUME NEW j \in Listed, jobStatus[j] = "waiting"
             PROVE  timer' # NoTimer /\ timer' <= AtLeastZero(remtime[j] - elapsed')
  BY <1>1 DEF Covered, Listed
<1>3. j \in Jobs /\ remtime[j] \in 0 .. MaxInterval
  BY <1>2 DEF Listed
<1>4. timer \in Nat /\ timer <= AtLeastZero(remtime[j] - elapsed)
  BY <1>2 DEF Covered
<1>5. elapsed' \in Nat /\ elapsed' <= elapsed + 1 /\ (elapsed' # elapsed + 1 => elapsed' = elapsed)
  BY <1>1, <1>2 DEF Later
<1> QED
  BY <1>1, <1>2, <1>3, <1>4, <1>5 DEF AtLeastZero, NoTimer

\* Commands other than Rearm.
LEMMA CoveredCommand ==
    ASSUME Base, Covered, NEW j \in Jobs,
           \/ \E i \in Intervals : SetInterval(j, i)
           \/ \E n \in Iterations : SetIterations(j, n)
           \/ JobDestroy(j)
           \/ DeleteProc(j)
    PROVE  Covered'
<1>1. timer' = timer /\ elapsed' = elapsed
  BY DEF SetInterval, SetIterations, JobDestroy, DeleteProc, clockVars
<1>2. /\ Listed' \subseteq Listed /\ jobList \in Seq(Jobs)
      /\ \A k \in Listed : jobStatus'[k] = "waiting" =>
           jobStatus[k] = "waiting" /\ remtime'[k] = remtime[k]
  <2>1. JobTypeOK
    BY DEF Base
  <2>2. CASE DeleteProc(j)
    <3>1. /\ j \in Listed /\ Remove(j)
      BY <2>2 DEF DeleteProc
    <3>2. Listed' = Listed \ {j} /\ jobStatus' = [jobStatus EXCEPT ![j] = "gone"]
      BY <3>1, RemoveFacts
    <3>3. remtime' = [remtime EXCEPT ![j] = 0]
      BY <3>1 DEF Remove
    <3>4. \A k \in Listed : k \in Jobs
      BY <2>1 DEF JobTypeOK, Listed
    <3>5. \A k \in Jobs : jobStatus'[k] = "waiting" => jobStatus[k] = "waiting" /\ remtime'[k] = remtime[k]
      BY <2>1, <3>2, <3>3 DEF JobTypeOK
    <3> QED
      BY <2>1, <3>2, <3>4, <3>5 DEF JobTypeOK
  <2>3. CASE ~DeleteProc(j)
    BY <2>1, <2>3 DEF SetInterval, SetIterations, JobDestroy, JobTypeOK, Listed
  <2> QED
    BY <2>1, <2>2, <2>3 DEF JobTypeOK
<1> QED
  BY <1>1, <1>2 DEF Covered

\* A look at the clock moves time from the clock to the jobs.
LEMMA CoveredGetTime ==
    ASSUME Base, Covered, NEW j \in Jobs, GetTime(j)
    PROVE  Covered'
<1>1. /\ UNCHANGED <<jobList, jobStatus, timer>> /\ remtime' = Adjusted(jobStatus) /\ elapsed' = 0
  BY DEF GetTime, AdjustTime
<1>2. /\ MaxInterval \in Nat /\ JobTypeOK /\ (~running => elapsed = 0)
  BY MaxIntervalFacts DEF Base
<1> SUFFICES ASSUME NEW k \in Listed, jobStatus[k] = "waiting"
             PROVE  timer # NoTimer /\ timer <= AtLeastZero(remtime'[k] - 0)
  BY <1>1 DEF Covered, Listed
<1>3. k \in Jobs
  BY <1>2 DEF Listed, JobTypeOK
<1>4. remtime'[k] = IF running THEN AtLeastZero(remtime[k] - elapsed) ELSE remtime[k]
  BY <1>1, <1>2, <1>3, AdjustedFacts
<1>5. remtime[k] \in Nat /\ elapsed \in Nat /\ timer # NoTimer /\ timer <= AtLeastZero(remtime[k] - elapsed)
  BY <1>2, <1>3 DEF JobTypeOK, Covered
<1> QED
  BY <1>2, <1>4, <1>5 DEF AtLeastZero

\* No job waits in the beginning.
LEMMA TimerInit == JobInit => TimerCoversJobs
  BY DEF JobInit, TimerCoversJobs, Listed

\* Every step keeps the timer early enough, or is one of Schedule(), which sets it.
LEMMA TimerStep == Base /\ TimerCoversJobs /\ [JobNext]_schedVars => TimerCoversJobs'
<1> SUFFICES ASSUME Base, ~Scheduling => Covered, [JobNext]_schedVars, ~Scheduling'
             PROVE  Covered'
  BY DEF TimerCoversJobs, Covered
<1>1. JobTypeOK
  BY DEF Base
<1>2. ~Scheduling /\ jobStack' = jobStack => Covered
  BY DEF Scheduling
<1>3. CASE Tick
  <2>1. ~Scheduling
    BY <1>3, TickStack DEF Scheduling
  <2> QED
    BY <1>3, <2>1, CoveredTick
<1>4. CASE \/ ScheduleProc \/ CmdSchedule \/ PassDone \/ JobReturns
           \/ \E j \in Jobs : RunJob(j) \/ Sweep(j)
  BY <1>4, SchedulingStays
<1>5. CASE SweepDone
  <2>1. Rearm(jobList, jobStatus') /\ jobList' = jobList /\ jobStatus' = jobStatus
    BY <1>5 DEF SweepDone
  <2> QED
    BY <2>1, CoveredRearm
<1>6. CASE Settings
  <2>1. PICK j \in Jobs :
             \/ \E i \in Intervals, n \in Iterations : CreateJob(j, i, n)
             \/ \E st \in {"suspended", "waiting", "expired"} : SetStatus(j, st)
             \/ \E i \in Intervals : SetInterval(j, i)
             \/ \E n \in Iterations : SetIterations(j, n)
             \/ GetTime(j)
             \/ JobDestroy(j)
             \/ DeleteProc(j)
             \/ Wait("wait", j)
    BY <1>6 DEF Settings
  <2>2. CASE \E i \in Intervals, n \in Iterations : CreateJob(j, i, n)
    <3>1. timer' = 0
      BY <2>2, BaseCreate
    <3>2. Base'
      BY <2>2, BaseCreate
    <3>3. \A k \in Listed' : k \in Jobs /\ remtime'[k] \in Int /\ elapsed' \in Int
      BY <3>2 DEF Base, JobTypeOK, Listed
    <3> QED
      BY <3>1, <3>3 DEF Covered, AtLeastZero, NoTimer
  <2>3. CASE \E st \in {"suspended", "waiting", "expired"} : SetStatus(j, st)
    <3>1. jobList' = jobList
      BY <2>3 DEF SetStatus
    <3> QED
      BY <2>3, <3>1, BaseStatus, CoveredRearm
  <2>4. CASE \/ \E i \in Intervals : SetInterval(j, i)
             \/ \E n \in Iterations : SetIterations(j, n)
             \/ JobDestroy(j)
             \/ DeleteProc(j)
    <3>1. jobStack' = jobStack
      BY <2>4 DEF SetInterval, SetIterations, JobDestroy, DeleteProc
    <3>2. Covered
      BY <3>1 DEF Scheduling
    <3> QED
      BY <2>4, <3>2, CoveredCommand
  <2>5. CASE GetTime(j)
    <3>1. Covered
      BY <2>5 DEF GetTime, Scheduling
    <3> QED
      BY <2>5, <3>1, CoveredGetTime
  <2>6. CASE Wait("wait", j)
    <3>1. Covered
      BY <2>6, SchedulingWait
    <3> QED
      BY <2>6, <3>1 DEF Wait, Covered, Listed, jobVars, clockVars
  <2> QED
    BY <2>1, <2>2, <2>3, <2>4, <2>5, <2>6
<1>7. CASE Wait("waitall", NoJob) \/ WaitReturn
  <2>1. Covered
    BY <1>7, SchedulingWait
  <2> QED
    BY <1>7, <2>1 DEF Wait, WaitReturn, Covered, Listed, jobVars, clockVars
<1>8. CASE UNCHANGED schedVars
  BY <1>8 DEF schedVars, jobVars, clockVars, Covered, Listed, Scheduling
<1> QED
  BY <1>3, <1>4, <1>5, <1>6, <1>7, <1>8 DEF JobNext, Looping

\* Whenever Schedule() is not active, the timer fires in time for every job that
\* waits: creating a job, changing its status, asking for its time and the end
\* of every pass set it so, and nothing else needs to.
THEOREM TimerCorrect == JobSpec => []TimerCoversJobs
  BY BaseHolds, BaseInit, BaseStep, TimerInit, TimerStep, PTL DEF JobSpec

-----------------------------------------------------------------------------
(* The time between activations.                                           *)

\* The clocks of suspended passes are not behind that of the scheduler, and no
\* job is due before the time it owes has passed.
Ages == \A i \in DOMAIN jobStack :
            jobStack[i].kind \notin JobWaitKinds => jobStack[i].age >= elapsed
Debts == \A j \in Jobs : owed[j] <= AtLeastZero(remtime[j] - elapsed)
OwedOK == Ages /\ Debts

\* What a frame is made of.
LEMMA FrameFacts ==
    ASSUME NEW s \in Seq(JobFrame), NEW i \in DOMAIN s
    PROVE  /\ s[i].kind \in JobKinds /\ s[i].job \in Jobs \cup {NoJob}
           /\ s[i].age \in 0 .. MaxInterval
<1>1. s[i] \in JobFrame
  OBVIOUS
<1> QED
  BY <1>1 DEF JobFrame

\* After a look at the clock no pass can be behind it.
LEMMA AgesZero ==
    ASSUME Base', elapsed' = 0
    PROVE  Ages'
<1>1. jobStack' \in Seq(JobFrame)
  BY DEF Base, JobTypeOK
<1>2. \A i \in DOMAIN jobStack' : jobStack'[i].age \in 0 .. MaxInterval
  BY <1>1, FrameFacts
<1> QED
  BY <1>2, MaxIntervalFacts DEF Ages

\* The innermost frame moves on, or stays.
LEMMA AgesGoto ==
    ASSUME Base, Ages, elapsed' = elapsed,
           \/ jobStack' = jobStack
           \/ /\ JobTop.kind \notin JobWaitKinds \cup {"none"}
              /\ \E kind \in JobKinds, j \in Jobs \cup {NoJob} : jobStack' = Goto(kind, j)
    PROVE  Ages'
<1>1. CASE jobStack' = jobStack
  BY <1>1 DEF Ages
<1>2. CASE jobStack' # jobStack
  <2>1. jobStack \in Seq(JobFrame) /\ JobTop.kind \notin JobWaitKinds \cup {"none"}
    BY <1>2 DEF Base, JobTypeOK
  <2>2. PICK kind \in JobKinds, j \in Jobs \cup {NoJob} : jobStack' = Goto(kind, j)
    BY <1>2
  <2>3. /\ jobStack # <<>> /\ Len(jobStack) \in DOMAIN jobStack
        /\ jobStack[Len(jobStack)].kind \notin JobWaitKinds
    BY <2>1, TopFacts
  <2>4. /\ DOMAIN jobStack' = DOMAIN jobStack
        /\ \A i \in DOMAIN jobStack : i # Len(jobStack) => jobStack'[i] = jobStack[i]
    BY <2>1, <2>2, <2>3, GotoFacts, ZenonT(30)
  <2>5. jobStack'[Len(jobStack)] = [kind |-> kind, job |-> j, age |-> jobStack[Len(jobStack)].age]
    BY <2>1, <2>2, <2>3, GotoFacts
  <2> QED
    BY <2>3, <2>4, <2>5 DEF Ages
<1> QED
  BY <1>1, <1>2

\* The wait commands have no clock.
LEMMA AgesWait ==
    ASSUME Base, Ages, elapsed' = elapsed,
           \/ \E j \in Jobs : Wait("wait", j)
           \/ Wait("waitall", NoJob)
           \/ WaitReturn
    PROVE  Ages'
<1>1. jobStack \in Seq(JobFrame)
  BY DEF Base, JobTypeOK
<1>2. CASE WaitReturn
  <2>1. jobStack' = JobPop /\ JobTop.kind \in JobWaitKinds
    BY <1>2 DEF WaitReturn
  <2>2. jobStack # <<>> /\ Len(jobStack) \in Nat /\ DOMAIN jobStack = 1 .. Len(jobStack)
    BY <1>1, <2>1, TopFacts DEF JobWaitKinds
  <2>3. /\ DOMAIN jobStack' = 1 .. Len(jobStack) - 1
        /\ \A i \in 1 .. Len(jobStack) - 1 : jobStack'[i] = jobStack[i]
    BY <1>1, <2>1, <2>2, PopFacts
  <2> QED
    BY <2>2, <2>3 DEF Ages
<1>3. CASE ~WaitReturn
  <2>1. PICK kind \in JobWaitKinds, j \in Jobs \cup {NoJob} : jobStack' = Push(kind, j)
    BY <1>3 DEF Wait, JobWaitKinds
  <2>2. kind \in JobKinds
    BY DEF JobKinds
  <2>3. /\ DOMAIN jobStack' = 1 .. Len(jobStack) + 1
        /\ \A i \in DOMAIN jobStack : jobStack'[i] = jobStack[i]
        /\ jobStack'[Len(jobStack) + 1] = [kind |-> kind, job |-> j, age |-> 0]
    BY <1>1, <2>1, <2>2, PushFacts
  <2>4. Len(jobStack) \in Nat /\ DOMAIN jobStack = 1 .. Len(jobStack)
    BY <1>1
  <2>5. \A i \in DOMAIN jobStack' : i \in DOMAIN jobStack \/ i = Len(jobStack) + 1
    BY <2>3, <2>4
  <2> QED
    BY <2>3, <2>5 DEF Ages
<1> QED
  BY <1>2, <1>3

\* AdjustTime() takes nothing off that has not passed.
LEMMA DebtsAdjusted ==
    ASSUME Base, Debts, NEW st, remtime' = Adjusted(st), elapsed' = 0, owed' = owed
    PROVE  Debts'
<1>1. JobTypeOK /\ HistoryOK /\ MaxInterval \in Nat
  BY MaxIntervalFacts DEF Base
<1> SUFFICES ASSUME NEW j \in Jobs PROVE owed[j] <= AtLeastZero(remtime'[j] - 0)
  BY DEF Debts
<1>2. remtime'[j] = AtLeastZero(remtime[j] - elapsed) \/ remtime'[j] = remtime[j]
  BY <1>1, AdjustedFacts
<1>3. remtime[j] \in Nat /\ elapsed \in Nat /\ owed[j] \in Nat
  BY <1>1 DEF JobTypeOK, HistoryOK
<1>4. owed[j] <= AtLeastZero(remtime[j] - elapsed)
  BY DEF Debts
<1> QED
  BY <1>2, <1>3, <1>4 DEF AtLeastZero

\* Nothing is owed to a deleted job.
LEMMA DebtsRemove ==
    ASSUME Base, Debts, NEW j \in Jobs, Remove(j), elapsed' = elapsed
    PROVE  Debts'
<1>1. JobTypeOK /\ HistoryOK /\ MaxInterval \in Nat
  BY MaxIntervalFacts DEF Base
<1>2. owed' = [owed EXCEPT ![j] = 0] /\ remtime' = [remtime EXCEPT ![j] = 0]
  BY DEF Remove
<1>3. owed'[j] = 0 /\ remtime'[j] = 0 /\ elapsed \in Nat
  BY <1>1, <1>2 DEF JobTypeOK, HistoryOK
<1>4. \A k \in Jobs : k # j => owed'[k] = owed[k] /\ remtime'[k] = remtime[k]
  BY <1>1, <1>2 DEF JobTypeOK, HistoryOK
<1>5. owed'[j] <= AtLeastZero(remtime'[j] - elapsed)
  BY <1>3 DEF AtLeastZero
<1> QED
  BY <1>4, <1>5 DEF Debts

\* Time runs down what is owed as fast as what remains.
LEMMA OwedTick ==
    ASSUME Base, OwedOK, Tick
    PROVE  OwedOK'
<1>1. /\ elapsed' = IF running THEN Later(elapsed) ELSE 0
      /\ owed' = [j \in Jobs |-> AtLeastZero(owed[j] - 1)] /\ remtime' = remtime
  BY DEF Tick, jobVars
<1>2. /\ MaxInterval \in Nat /\ elapsed \in 0 .. MaxInterval /\ (~running => elapsed = 0)
      /\ jobStack \in Seq(JobFrame)
      /\ \A j \in Jobs : remtime[j] \in 0 .. MaxInterval /\ owed[j] \in Nat
  BY MaxIntervalFacts DEF Base, JobTypeOK, HistoryOK
<1>3. elapsed' \in Nat /\ elapsed' <= elapsed + 1
  BY <1>1, <1>2 DEF Later
<1>4. Debts'
  <2> SUFFICES ASSUME NEW j \in Jobs PROVE AtLeastZero(owed[j] - 1) <= AtLeastZero(remtime[j] - elapsed')
    BY <1>1 DEF Debts
  <2>1. owed[j] <= AtLeastZero(remtime[j] - elapsed)
    BY DEF OwedOK, Debts
  <2> QED
    BY <1>2, <1>3, <2>1 DEF AtLeastZero
<1>5. Ages'
  <2> SUFFICES ASSUME NEW i \in DOMAIN jobStack', jobStack'[i].kind \notin JobWaitKinds
               PROVE  jobStack'[i].age >= elapsed'
    BY DEF Ages
  <2>1. i \in DOMAIN jobStack /\ jobStack[i].kind \notin JobWaitKinds
        /\ jobStack'[i].age = Later(jobStack[i].age)
    BY TickStack
  <2>2. jobStack[i].age >= elapsed
    BY <2>1 DEF OwedOK, Ages
  <2>3. jobStack[i].age \in 0 .. MaxInterval
    BY <1>2, <2>1, FrameFacts
  <2> QED
    BY <1>1, <1>2, <2>1, <2>2, <2>3 DEF Later
<1> QED
  BY <1>4, <1>5 DEF OwedOK

\* After its script a job owes its interval from the start of the pass, which is
\* what is charged to it at the next look at the clock.
LEMMA OwedReturn ==
    ASSUME Base, OwedOK, NEW code \in Codes, ScriptReturn(code)
    PROVE  OwedOK'
<1>1. jobStack \in Seq(JobFrame) /\ JobTypeOK /\ FramesOK /\ MaxInterval \in Nat
  BY MaxIntervalFacts DEF Base, JobTypeOK
<1>2. JobTop.kind \in {"run", "error"} /\ (ToErrorCommand \/ Wild \/ Forgotten \/ Finished)
  BY ScriptReturnCases
<1>3. JobTop.job \in Jobs
  BY <1>1, <1>2, TopFacts DEF FramesOK, JobScriptKinds
<1>4. CASE ToErrorCommand \/ Wild \/ Forgotten
  <2>1. /\ elapsed' = elapsed /\ remtime' = remtime /\ owed' = owed
        /\ \/ jobStack' = Goto("error", JobTop.job)
           \/ jobStack' = jobStack
           \/ jobStack' = Goto("pass", NoJob)
    BY <1>4 DEF ToErrorCommand, Wild, Forgotten
  <2>2. Ages'
    BY <1>2, <1>3, <2>1, AgesGoto DEF OwedOK, JobWaitKinds, JobKinds, JobScriptKinds
  <2> QED
    BY <2>1, <2>2 DEF OwedOK, Debts
<1>5. CASE Finished
  <2>1. /\ jobStack' = Goto("pass", NoJob)
        /\ \E st \in Statuses : Finish(JobTop.job, st)
    BY <1>1, <1>3, <1>5, ZenonT(30) DEF Finished, JobTypeOK, Statuses
  <2>2. /\ remtime'[JobTop.job] = interval[JobTop.job]
        /\ \A k \in Jobs : k # JobTop.job => remtime'[k] = remtime[k]
        /\ owed'[JobTop.job] = AtLeastZero(interval[JobTop.job] - JobTop.age)
        /\ \A k \in Jobs : k # JobTop.job => owed'[k] = owed[k]
        /\ elapsed' = elapsed
    BY <1>2, <2>1, FinishFacts
  <2>3. Ages'
    BY <1>2, <2>1, <2>2, AgesGoto DEF OwedOK, JobWaitKinds, JobKinds
  <2>4. JobTop.age >= elapsed /\ JobTop.age \in Nat /\ elapsed \in Nat
    <3>1. Len(jobStack) \in DOMAIN jobStack /\ JobTop = jobStack[Len(jobStack)] /\ JobTop \in JobFrame
      BY <1>1, <1>2, TopFacts
    <3>2. JobTop.age >= elapsed
      BY <1>2, <3>1 DEF OwedOK, Ages, JobWaitKinds
    <3> QED
      BY <1>1, <3>1, <3>2, SMTT(60) DEF JobFrame, JobTypeOK
  <2>5. interval[JobTop.job] \in Nat
    BY <1>1, <1>3, MaxIntervalFacts, ZenonT(30) DEF JobTypeOK
  <2>6. owed'[JobTop.job] <= AtLeastZero(remtime'[JobTop.job] - elapsed)
    BY <2>2, <2>4, <2>5 DEF AtLeastZero
  <2>7. Debts'
    BY <2>2, <2>6 DEF OwedOK, Debts
  <2> QED
    BY <2>3, <2>7 DEF OwedOK
<1> QED
  BY <1>2, <1>4, <1>5

\* Nothing is owed in the beginning.
LEMMA OwedInit == JobInit => OwedOK
<1> SUFFICES ASSUME JobInit PROVE OwedOK
  OBVIOUS
<1>1. Ages
  BY DEF JobInit, Ages
<1>2. Debts
  BY DEF JobInit, Debts, AtLeastZero
<1> QED
  BY <1>1, <1>2 DEF OwedOK

\* Every step keeps what is owed below what remains.
LEMMA OwedStep == Base /\ OwedOK /\ [JobNext]_schedVars => OwedOK'
<1> SUFFICES ASSUME Base, OwedOK, [JobNext]_schedVars
             PROVE  OwedOK'
  OBVIOUS
<1>1. Ages /\ Debts /\ Base'
  BY BaseStep DEF OwedOK
<1>2. ASSUME remtime' = remtime, elapsed' = elapsed, owed' = owed
      PROVE  Debts'
  BY <1>1, <1>2 DEF Debts
<1>3. CASE ScheduleProc \/ CmdSchedule \/ \E j \in Jobs : GetTime(j)
  <2>1. remtime' = Adjusted(jobStatus) /\ elapsed' = 0 /\ owed' = owed
    BY <1>3 DEF ScheduleProc, CmdSchedule, GetTime, AdjustTime, history
  <2> QED
    BY <1>1, <2>1, AgesZero, DebtsAdjusted DEF OwedOK
<1>4. CASE SweepDone \/ \E j \in Jobs, st \in {"suspended", "waiting", "expired"} : SetStatus(j, st)
  <2> DEFINE st == jobStatus'
  <2>1. remtime' = Adjusted(st) /\ elapsed' = 0 /\ owed' = owed
    BY <1>4 DEF SweepDone, SetStatus, Rearm, history
  <2> HIDE DEF st
  <2> QED
    BY <1>1, <2>1, AgesZero, DebtsAdjusted DEF OwedOK
<1>5. CASE PassDone \/ \E j \in Jobs : RunJob(j)
  <2>1. remtime' = remtime /\ elapsed' = elapsed /\ owed' = owed /\ JobTop.kind = "pass"
    BY <1>5, ZenonT(30) DEF PassDone, RunJob, jobVars, clockVars, history
  <2>2. \E kind \in JobKinds, j \in Jobs \cup {NoJob} : jobStack' = Goto(kind, j)
    BY <1>5, ZenonT(30) DEF PassDone, RunJob, JobKinds, JobScriptKinds
  <2> QED
    BY <1>1, <1>2, <2>1, <2>2, AgesGoto DEF OwedOK, JobWaitKinds
<1>6. ASSUME NEW j \in Jobs, Sweep(j)
      PROVE  OwedOK'
  <2>1. elapsed' = elapsed /\ JobTop.kind = "sweep"
    BY <1>6 DEF Sweep, clockVars
  <2>2. jobStack' = jobStack \/ jobStack' = Goto("exit", j)
    BY <1>6 DEF Sweep
  <2>3. Ages'
    BY <1>1, <2>1, <2>2, AgesGoto DEF JobWaitKinds, JobKinds, JobScriptKinds
  <2>4. Remove(j) \/ (remtime' = remtime /\ owed' = owed)
    BY <1>6 DEF Sweep, jobVars, history
  <2> QED
    BY <1>1, <1>2, <2>1, <2>3, <2>4, DebtsRemove DEF OwedOK
<1>7. CASE ExitReturn
  <2>1. /\ JobTop.kind = "exit" /\ JobTop.job \in Jobs /\ elapsed' = elapsed
        /\ jobStack' = jobStack \/ jobStack' = Goto("sweep", NoJob)
        /\ Remove(JobTop.job) \/ (remtime' = remtime /\ owed' = owed)
    BY <1>7, ExitFacts, ZenonT(30) DEF jobVars, history, clockVars
  <2>2. Ages'
    BY <1>1, <2>1, AgesGoto DEF JobWaitKinds, JobKinds
  <2> QED
    BY <1>1, <1>2, <2>1, <2>2, DebtsRemove DEF OwedOK
<1>8. ASSUME NEW j \in Jobs,
             \/ \E i \in Intervals, n \in Iterations : CreateJob(j, i, n)
             \/ \E i \in Intervals : SetInterval(j, i)
             \/ \E n \in Iterations : SetIterations(j, n)
             \/ JobDestroy(j)
      PROVE  OwedOK'
  <2>1. remtime' = remtime /\ elapsed' = elapsed /\ owed' = owed /\ jobStack' = jobStack
    BY <1>8 DEF CreateJob, SetInterval, SetIterations, JobDestroy, clockVars, history
  <2> QED
    BY <1>1, <1>2, <2>1, AgesGoto DEF OwedOK
<1>9. ASSUME NEW j \in Jobs, DeleteProc(j)
      PROVE  OwedOK'
  <2>1. Remove(j) /\ elapsed' = elapsed /\ jobStack' = jobStack
    BY <1>9 DEF DeleteProc, clockVars
  <2> QED
    BY <1>1, <2>1, AgesGoto, DebtsRemove DEF OwedOK
<1>10. CASE (\E j \in Jobs : Wait("wait", j)) \/ Wait("waitall", NoJob) \/ WaitReturn
  <2>1. remtime' = remtime /\ elapsed' = elapsed /\ owed' = owed
    BY <1>10 DEF Wait, WaitReturn, jobVars, clockVars, history
  <2> QED
    BY <1>1, <1>2, <1>10, <2>1, AgesWait DEF OwedOK
<1>11. CASE UNCHANGED schedVars
  <2>1. remtime' = remtime /\ elapsed' = elapsed /\ owed' = owed /\ jobStack' = jobStack
    BY <1>11 DEF schedVars, jobVars, clockVars, history
  <2> QED
    BY <1>1, <1>2, <2>1, AgesGoto DEF OwedOK
<1>12. CASE Settings
  BY <1>3, <1>4, <1>8, <1>9, <1>10, <1>12 DEF Settings
<1>13. CASE Tick
  BY <1>13, OwedTick
<1>14. CASE \E code \in Codes : ScriptReturn(code)
  BY <1>14, OwedReturn
<1> QED
  BY <1>3, <1>4, <1>5, <1>6, <1>7, <1>10, <1>11, <1>12, <1>13, <1>14
  DEF JobNext, Looping, JobReturns

\* The step that starts the script of a job finds that nothing is owed to it.
LEMMA RunOwes ==
    ASSUME Base, OwedOK, JobNext, NEW j \in Jobs, jobStatus[j] # "running", jobStatus'[j] = "running"
    PROVE  owed[j] = 0
<1>1. JobTypeOK /\ HistoryOK /\ MaxInterval \in Nat
  BY MaxIntervalFacts DEF Base
<1>2. RunJob(j)
  <2>1. CASE Looping
    BY <1>1, <2>1, ZenonT(30) DEF Looping, PassDone, SweepDone, WaitReturn, RunJob, Sweep, Remove, jobVars, JobTypeOK
  <2>2. CASE JobReturns
    <3>1. CASE ExitReturn
      BY <1>1, <3>1 DEF ExitReturn, Remove, jobVars, JobTypeOK
    <3>2. ASSUME NEW code \in Codes, ScriptReturn(code)
          PROVE  FALSE
      <4>1. JobTop.kind \in {"run", "error"} /\ (ToErrorCommand \/ Wild \/ Forgotten \/ Finished)
        BY <3>2, ScriptReturnCases
      <4>2. jobStatus' # jobStatus
        BY <1>1, SMTT(60)
      <4>3. Finished
        BY <4>1, <4>2 DEF ToErrorCommand, Wild, Forgotten
      <4>4. JobTop.job \in Jobs
        BY <1>1, <4>1, TopFacts DEF FramesOK, JobScriptKinds, Base, JobTypeOK
      <4>5. PICK st \in Statuses : Finish(JobTop.job, st)
        BY <1>1, <4>3, <4>4, ZenonT(30) DEF Finished, JobTypeOK, Statuses
      <4>6. /\ jobStatus'[JobTop.job] # "running"
            /\ \A k \in Jobs : k # JobTop.job => jobStatus'[k] = jobStatus[k]
        BY <4>1, <4>5, FinishFacts, SMTT(60)
      <4> QED
        BY <4>6
    <3> QED
      BY <2>2, <3>1, <3>2 DEF JobReturns
  <2>3. CASE Settings
    BY <1>1, <2>3 DEF Settings, CreateJob, SetStatus, SetInterval, SetIterations, GetTime, JobDestroy,
       DeleteProc, Remove, Wait, jobVars, JobTypeOK
  <2>4. CASE Tick \/ ScheduleProc \/ CmdSchedule \/ Wait("waitall", NoJob)
    BY <1>1, <2>4, SMTT(60) DEF Tick, ScheduleProc, CmdSchedule, Wait, jobVars
  <2> QED
    BY <2>1, <2>2, <2>3, <2>4 DEF JobNext
<1>3. remtime[j] = 0
  BY <1>2 DEF RunJob, First, Due
<1>4. owed[j] <= AtLeastZero(0 - elapsed) /\ owed[j] \in Nat /\ elapsed \in Nat
  BY <1>1, <1>3 DEF OwedOK, Debts, JobTypeOK, HistoryOK
<1> QED
  BY <1>4 DEF AtLeastZero

\* Whatever commands are used, and however passes of the scheduler nest, the
\* script of a job is not started before the interval has passed since the pass
\* that started it last.
THEOREM NeverEarly == JobSpec => NotEarly
<1>1. Base /\ OwedOK /\ [JobNext]_schedVars =>
        [\A j \in Jobs : jobStatus[j] # "running" /\ jobStatus'[j] = "running" => owed[j] = 0]_schedVars
  BY RunOwes
<1> QED
  BY <1>1, BaseInit, BaseStep, OwedInit, OwedStep, PTL DEF JobSpec, NotEarly
=============================================================================
