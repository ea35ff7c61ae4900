---------------------------- MODULE JobScheduler ----------------------------
(***************************************************************************)
(* The job scheduler behind Tnm::job: a list of jobs, one Tcl timer for    *)
(* all of them, and Schedule(), which runs the scripts of the jobs that    *)
(* are due and removes the jobs that have expired.                         *)
(*                                                                         *)
(* A script may use any job command and may enter the event loop, where    *)
(* the timer may call Schedule() again.  `stack' holds the invocations of  *)
(* Schedule() and of the wait commands that are suspended, with the place  *)
(* each has reached.  Time passes while scripts run and in the event loop; *)
(* it is kept the way the code keeps it, as the time since lastTime.  A    *)
(* remaining time below zero is used nowhere but in comparisons with zero, *)
(* so it is kept as zero, and the elapsed time saturates at the longest    *)
(* interval, which makes every job due.                                    *)
(***************************************************************************)
EXTENDS Integers, Sequences, FiniteSets

CONSTANTS
    Jobs,          \* job structures
    Intervals,     \* values of -interval
    Iterations,    \* values of -iterations (0 means no limit)
    ExitJobs,      \* jobs with a non-empty -exit command
    ErrorJobs,     \* jobs with a non-empty -error command
    Codes,         \* completion codes of job scripts: "ok", "error"
    JobCommands,   \* job commands used outside of scripts
    JobScriptCommands, \* commands used inside of scripts; "update" stands for all
                   \* that enter the event loop
    JobMaxDepth,   \* bound on the number of suspended C functions
    NoJob

ASSUME SchedulerAssumption ==
    /\ IsFiniteSet(Jobs)
    /\ Intervals \subseteq Nat \ {0}
    /\ \E i \in Intervals : \A k \in Intervals : k <= i
    /\ Iterations \subseteq Nat /\ Iterations # {}
    /\ NoJob \notin Jobs
    /\ JobMaxDepth \in Nat

VARIABLES
    jobList,    \* control->jobList, in the order of creation
    jobStatus,  \* job->status; "none" before and "gone" after its life
    remtime,    \* job->remtime, zero when the job is due
    interval, iterations,
    current,    \* control->currentJob
    timer,      \* time until control->timer fires, or NoTimer
    running,    \* control->lastTime is set (the clock was read before)
    elapsed,    \* the time since then
    jobStack,   \* suspended C functions, innermost last
    jobWild,    \* freed memory was used
    activated,  \* history: how often the script of a job with a limit was started
    limit,      \* history: the -iterations the job was created with (and kept), or 0
    owed        \* history: time that is still to pass before the next activation: what
                \* is left of the interval, counted from the start of the last pass
                \* that activated the job

jobVars == <<jobList, jobStatus, remtime, interval, iterations>>
clockVars == <<timer, running, elapsed>>
history == <<activated, limit, owed>>
schedVars == <<jobVars, current, clockVars, jobStack, jobWild, history>>

NoTimer == -1
MaxInterval == CHOOSE i \in Intervals : \A k \in Intervals : k <= i

\* "pass" and "sweep" are the two loops of Schedule(); in "run" and "error"
\* the first one is suspended on a script, in "exit" the second one is.
JobScriptKinds == {"run", "error", "exit"}
JobWaitKinds == {"wait", "waitall"}
JobKinds == JobScriptKinds \cup JobWaitKinds \cup {"pass", "sweep"}
JobFrame == [kind : JobKinds, job : Jobs \cup {NoJob}, age : 0 .. MaxInterval]

JobNoFrame == [kind |-> "none", job |-> NoJob, age |-> 0]
JobTop == IF jobStack = <<>> THEN JobNoFrame ELSE jobStack[Len(jobStack)]
JobPop == SubSeq(jobStack, 1, Len(jobStack) - 1)
Push(kind, j) == Append(jobStack, [kind |-> kind, job |-> j, age |-> 0])
Goto(kind, j) ==
    [jobStack EXCEPT ![Len(jobStack)] = [kind |-> kind, job |-> j, age |-> JobTop.age]]

Listed == {jobList[i] : i \in DOMAIN jobList}
First(P(_), j) ==
    \E i \in DOMAIN jobList : /\ jobList[i] = j /\ P(j)
                              /\ \A k \in 1 .. i - 1 : ~P(jobList[k])

\* Tcl_Preserve() around the script of a job, and in JobObjCmd()
JobHeld(j) == \E i \in DOMAIN jobStack : jobStack[i].job = j /\ jobStack[i].kind # "exit"
JobFreed(j) == jobStatus[j] = "gone" /\ ~JobHeld(j)

-----------------------------------------------------------------------------
(* The clock and the timer.                                                *)

Least(S) == CHOOSE x \in S : \A y \in S : x <= y
AtLeastZero(x) == IF x < 0 THEN 0 ELSE x

\* AdjustTime(), given the status of the jobs: the first call after a pause
\* only reads the clock.
Adjusted(st) ==
    [j \in Jobs |-> IF running /\ j \in Listed /\ st[j] # "suspended"
                    THEN AtLeastZero(remtime[j] - elapsed) ELSE remtime[j]]

\* Mutant: the time since the last look at the clock is charged again later.
MutAdjustTime(st) ==
    remtime' = Adjusted(st) /\ running' = TRUE /\ elapsed' = elapsed

AdjustTime(st) ==
    /\ remtime' = Adjusted(st)
    /\ running' = TRUE
    /\ elapsed' = 0

\* Mutant: expired jobs are not waited for.
MutNextTimer(list, st, rem) ==
    LET due == {rem[list[i]] :
                   i \in {k \in DOMAIN list : st[list[k]] = "waiting"}}
    IN IF due = {} THEN NoTimer ELSE Least(due)

\* NextSchedule(): the delay of the new timer, if there is a job to wait for
NextTimer(list, st, rem) ==
    LET due == {rem[list[i]] :
                   i \in {k \in DOMAIN list : st[list[k]] \in {"waiting", "expired"}}}
    IN IF due = {} THEN NoTimer ELSE Least(due)

\* AdjustTime() followed by NextSchedule()
Rearm(list, st) ==
    /\ remtime' = Adjusted(st)
    /\ timer' = NextTimer(list, st, remtime')
    /\ running' = (timer' # NoTimer)
    /\ elapsed' = 0

\* Time passes.
Later(t) == IF t < MaxInterval THEN t + 1 ELSE t

Tick ==
    /\ ~jobWild
    /\ jobStack = <<>> \/ JobTop.kind \in JobScriptKinds \cup JobWaitKinds
    /\ elapsed' = IF running THEN Later(elapsed) ELSE 0
    /\ timer' = IF timer > 0 THEN timer - 1 ELSE timer
    /\ owed' = [j \in Jobs |-> AtLeastZero(owed[j] - 1)]
    /\ jobStack' = [i \in DOMAIN jobStack |->
                   IF jobStack[i].kind \in JobWaitKinds THEN jobStack[i]
                   ELSE [jobStack[i] EXCEPT !.age = Later(@)]]
    /\ UNCHANGED <<jobVars, current, running, jobWild, activated, limit>>

-----------------------------------------------------------------------------
(* When code may run.                                                      *)

JobInScript == ~jobWild /\ (jobStack = <<>> \/ JobTop.kind \in JobScriptKinds)

JobMayCommand(c) ==
    /\ JobInScript
    /\ c \in (IF jobStack = <<>> THEN JobCommands ELSE JobScriptCommands)

\* job# wait and job wait look at the list again after every event.
JobWaitOver(f) ==
    IF f.kind = "wait" THEN f.job \notin Listed \/ jobStatus[f.job] # "waiting"
                       ELSE \A j \in Listed : jobStatus[j] # "waiting"

JobInEventLoop ==
    /\ ~jobWild
    /\ Len(jobStack) < JobMaxDepth
    /\ \/ jobStack = <<>>
       \/ JobTop.kind \in JobScriptKinds /\ "update" \in JobScriptCommands
       \/ JobTop.kind \in JobWaitKinds /\ ~JobWaitOver(JobTop)

-----------------------------------------------------------------------------
(* Schedule().                                                             *)

\* ScheduleProc(): the timer fires, once.
ScheduleProc ==
    /\ JobInEventLoop
    /\ timer = 0
    /\ timer' = NoTimer
    /\ AdjustTime(jobStatus)
    /\ jobStack' = Push("pass", NoJob)
    /\ UNCHANGED <<jobList, jobStatus, interval, iterations, current, jobWild, history>>

\* job schedule
CmdSchedule ==
    /\ JobMayCommand("schedule")
    /\ Len(jobStack) < JobMaxDepth
    /\ AdjustTime(jobStatus)
    /\ jobStack' = Push("pass", NoJob)
    /\ UNCHANGED <<jobList, jobStatus, interval, iterations, current, timer, jobWild, history>>

Due(j) == jobStatus[j] = "waiting" /\ remtime[j] = 0
Expired(j) == jobStatus[j] = "expired"

\* Mutant: the job is not marked.
MutRunUnmarked(j) ==
    /\ ~jobWild
    /\ JobTop.kind = "pass"
    /\ First(Due, j)
    /\ current' = j
    /\ jobStack' = Goto("run", j)
    /\ activated' = [activated EXCEPT ![j] = IF limit[j] = 0 THEN 0 ELSE @ + 1]
    /\ UNCHANGED <<jobVars, clockVars, jobWild, limit, owed>>

\* The first loop finds a job to run.
RunJob(j) ==
    /\ ~jobWild
    /\ JobTop.kind = "pass"
    /\ First(Due, j)
    /\ jobStatus' = [jobStatus EXCEPT ![j] = "running"]
    /\ current' = j
    /\ jobStack' = Goto("run", j)
    /\ activated' = [activated EXCEPT ![j] = IF limit[j] = 0 THEN 0 ELSE @ + 1]
    /\ UNCHANGED <<jobList, remtime, interval, iterations, clockVars, jobWild, limit, owed>>

\* The end of an activation, the job having status st after its script: a job
\* whose iterations are used up expires.
Finish(j, st) ==
    LET last == iterations[j] = 1 IN
    /\ jobStatus' = [jobStatus EXCEPT ![j] = IF last THEN "expired"
                                       ELSE IF st = "running" THEN "waiting" ELSE st]
    /\ remtime' = [remtime EXCEPT ![j] = interval[j]]
    /\ iterations' = [iterations EXCEPT ![j] = IF @ > 0 THEN @ - 1 ELSE @]
    /\ owed' = [owed EXCEPT ![j] = AtLeastZero(interval[j] - JobTop.age)]
    /\ UNCHANGED <<running, elapsed>>

\* The script of a job returns.  After an error its error command is run if
\* it has one; if not, the job is given up (and named in the error message,
\* which takes the command of the job).  The result of an error command does
\* not matter.
ScriptReturn(code) ==
    LET j == JobTop.job
        failed == JobTop.kind = "run" /\ code = "error"
    IN /\ ~jobWild
       /\ JobTop.kind \in {"run", "error"}
       /\ JobTop.kind = "error" => code = "ok"
       /\ \/ /\ failed /\ j \in ErrorJobs
             /\ jobStack' = Goto("error", j)
             /\ UNCHANGED <<jobStatus, remtime, iterations, running, elapsed, current, jobWild, owed>>
          \/ /\ ~(failed /\ j \in ErrorJobs)
             /\ IF JobFreed(j) \/ (failed /\ jobStatus[j] = "gone")
                THEN jobWild' = TRUE /\ UNCHANGED <<jobStatus, remtime, iterations, running,
                                                 elapsed, current, jobStack, owed>>
                ELSE /\ IF jobStatus[j] = "gone"
                        THEN UNCHANGED <<jobStatus, remtime, iterations, running, elapsed, owed>>
                        ELSE Finish(j, IF failed THEN "expired" ELSE jobStatus[j])
                     /\ current' = NoJob
                     /\ jobStack' = Goto("pass", NoJob)
                     /\ jobWild' = jobWild
       /\ UNCHANGED <<jobList, interval, timer, activated, limit>>

\* The first loop finds nothing more to run.
PassDone ==
    /\ ~jobWild
    /\ JobTop.kind = "pass"
    /\ ~ \E j \in Listed : Due(j)
    /\ jobStack' = Goto("sweep", NoJob)
    /\ UNCHANGED <<jobVars, current, clockVars, jobWild, history>>

Without(j) ==
    LET i == CHOOSE k \in DOMAIN jobList : jobList[k] = j
    IN SubSeq(jobList, 1, i - 1) \o SubSeq(jobList, i + 1, Len(jobList))

\* Tcl_DeleteCommandFromToken() and DeleteProc(); the options and the history of
\* a deleted job are forgotten.
Remove(j) ==
    /\ jobList' = Without(j)
    /\ jobStatus' = [jobStatus EXCEPT ![j] = "gone"]
    /\ remtime' = [remtime EXCEPT ![j] = 0]
    /\ interval' = [interval EXCEPT ![j] = MaxInterval]
    /\ iterations' = [iterations EXCEPT ![j] = 0]
    /\ activated' = [activated EXCEPT ![j] = 0]
    /\ limit' = [limit EXCEPT ![j] = 0]
    /\ owed' = [owed EXCEPT ![j] = 0]

\* The second loop finds an expired job: its exit command is run, if it has
\* one, and the job is deleted.
Sweep(j) ==
    /\ ~jobWild
    /\ JobTop.kind = "sweep"
    /\ First(Expired, j)
    /\ IF j \in ExitJobs
       THEN /\ jobStack' = Goto("exit", j)
            /\ UNCHANGED <<jobVars, history>>
       ELSE /\ Remove(j)
            /\ jobStack' = jobStack
    /\ UNCHANGED <<current, clockVars, jobWild>>

\* The exit command returns.  Nothing kept the command of the job alive.
ExitReturn ==
    /\ ~jobWild
    /\ JobTop.kind = "exit"
    /\ IF jobStatus[JobTop.job] = "gone"
       THEN jobWild' = TRUE /\ UNCHANGED <<jobVars, jobStack, history>>
       ELSE Remove(JobTop.job) /\ jobStack' = Goto("sweep", NoJob) /\ jobWild' = jobWild
    /\ UNCHANGED <<current, clockVars>>

\* Mutant: the timer is not set again.
MutSweepDone ==
    /\ ~jobWild
    /\ JobTop.kind = "sweep"
    /\ ~ \E j \in Listed : Expired(j)
    /\ AdjustTime(jobStatus)
    /\ jobStack' = JobPop
    /\ UNCHANGED <<jobList, jobStatus, interval, iterations, current, timer, jobWild, history>>

\* Schedule() ends by looking at the clock and setting the timer.
SweepDone ==
    /\ ~jobWild
    /\ JobTop.kind = "sweep"
    /\ ~ \E j \in Listed : Expired(j)
    /\ Rearm(jobList, jobStatus)
    /\ jobStack' = JobPop
    /\ UNCHANGED <<jobList, jobStatus, interval, iterations, current, jobWild, history>>

-----------------------------------------------------------------------------
(* Job commands.                                                           *)

\* Mutant: no scheduling point is created for the new job.
MutCreateJob(j, i, n) ==
    /\ JobMayCommand("create")
    /\ jobStatus[j] = "none"
    /\ jobList' = Append(jobList, j)
    /\ jobStatus' = [jobStatus EXCEPT ![j] = "waiting"]
    /\ interval' = [interval EXCEPT ![j] = i]
    /\ iterations' = [iterations EXCEPT ![j] = n]
    /\ limit' = [limit EXCEPT ![j] = n]
    /\ UNCHANGED <<remtime, current, clockVars, jobStack, jobWild, activated, owed>>

\* job create -interval i -iterations n: due at once, at the end of the list
CreateJob(j, i, n) ==
    /\ JobMayCommand("create")
    /\ jobStatus[j] = "none"
    /\ jobList' = Append(jobList, j)
    /\ jobStatus' = [jobStatus EXCEPT ![j] = "waiting"]
    /\ interval' = [interval EXCEPT ![j] = i]
    /\ iterations' = [iterations EXCEPT ![j] = n]
    /\ limit' = [limit EXCEPT ![j] = n]
    /\ timer' = NextTimer(jobList', jobStatus', remtime)
    /\ UNCHANGED <<remtime, current, running, elapsed, jobStack, jobWild, activated, owed>>

\* job# configure -status st ("running" means waiting)
SetStatus(j, st) ==
    /\ JobMayCommand("status")
    /\ j \in Listed
    /\ jobStatus' = [jobStatus EXCEPT ![j] = st]
    /\ Rearm(jobList, jobStatus')
    /\ UNCHANGED <<jobList, interval, iterations, current, jobStack, jobWild, history>>

\* job# configure -interval i: from the next activation on
SetInterval(j, i) ==
    /\ JobMayCommand("interval")
    /\ j \in Listed
    /\ interval' = [interval EXCEPT ![j] = i]
    /\ UNCHANGED <<jobList, jobStatus, remtime, iterations, current, clockVars, jobStack, jobWild,
                   history>>

\* job# configure -iterations n
SetIterations(j, n) ==
    /\ JobMayCommand("iterations")
    /\ j \in Listed
    /\ iterations' = [iterations EXCEPT ![j] = n]
    /\ activated' = [activated EXCEPT ![j] = 0]
    /\ limit' = [limit EXCEPT ![j] = 0]
    /\ UNCHANGED <<jobList, jobStatus, remtime, interval, current, clockVars, jobStack, jobWild, owed>>

\* job# cget -time
GetTime(j) ==
    /\ JobMayCommand("time")
    /\ j \in Listed
    /\ AdjustTime(jobStatus)
    /\ UNCHANGED <<jobList, jobStatus, interval, iterations, current, timer, jobStack, jobWild,
                   history>>

\* job# destroy
JobDestroy(j) ==
    /\ JobMayCommand("destroy")
    /\ j \in Listed
    /\ jobStatus' = [jobStatus EXCEPT ![j] = "expired"]
    /\ UNCHANGED <<jobList, remtime, interval, iterations, current, clockVars, jobStack,
                   jobWild, history>>

\* rename job# {}: the command, and with it the job, is deleted at once.
DeleteProc(j) ==
    /\ JobMayCommand("rename")
    /\ j \in Listed
    /\ Remove(j)
    /\ UNCHANGED <<current, clockVars, jobStack, jobWild>>

\* job# wait and job wait
Wait(kind, j) ==
    /\ JobMayCommand(kind)
    /\ Len(jobStack) < JobMaxDepth
    /\ IF kind = "wait" THEN j \in Listed ELSE j = NoJob
    /\ jobStack' = Push(kind, j)
    /\ UNCHANGED <<jobVars, current, clockVars, jobWild, history>>

WaitReturn ==
    /\ ~jobWild
    /\ JobTop.kind \in JobWaitKinds
    /\ JobWaitOver(JobTop)
    /\ jobStack' = JobPop
    /\ UNCHANGED <<jobVars, current, clockVars, jobWild, history>>

-----------------------------------------------------------------------------
JobInit ==
    /\ jobList = <<>>
    /\ jobStatus = [j \in Jobs |-> "none"]
    /\ remtime = [j \in Jobs |-> 0]
    /\ interval = [j \in Jobs |-> MaxInterval]
    /\ iterations = [j \in Jobs |-> 0]
    /\ current = NoJob
    /\ timer = NoTimer
    /\ running = FALSE
    /\ elapsed = 0
    /\ jobStack = <<>>
    /\ jobWild = FALSE
    /\ activated = [j \in Jobs |-> 0]
    /\ limit = [j \in Jobs |-> 0]
    /\ owed = [j \in Jobs |-> 0]

Looping == PassDone \/ SweepDone \/ WaitReturn \/ \E j \in Jobs : RunJob(j) \/ Sweep(j)
JobReturns == ExitReturn \/ \E code \in Codes : ScriptReturn(code)
Settings ==
    \E j \in Jobs :
        \/ \E i \in Intervals, n \in Iterations : CreateJob(j, i, n)
        \/ \E st \in {"suspended", "waiting", "expired"} : SetStatus(j, st)
        \/ \E i \in Intervals : SetInterval(j, i)
        \/ \E n \in Iterations : SetIterations(j, n)
        \/ GetTime(j)
        \/ JobDestroy(j)
        \/ DeleteProc(j)
        \/ Wait("wait", j)

JobNext ==
    \/ Tick
    \/ ScheduleProc
    \/ CmdSchedule
    \/ Looping
    \/ JobReturns
    \/ Settings
    \/ Wait("waitall", NoJob)

JobSpec == JobInit /\ [][JobNext]_schedVars

\* Time passes, C code runs on, scripts return, and the event loop serves the
\* timer: top level code comes back to it, whatever commands it uses before.
JobFairness ==
    /\ WF_schedVars(Tick)
    /\ SF_schedVars(ScheduleProc)
    /\ WF_schedVars(Looping)
    /\ WF_schedVars(JobReturns)
JobFairSpec == JobSpec /\ JobFairness

-----------------------------------------------------------------------------
(* Properties.                                                             *)

JobTypeOK ==
    /\ jobList \in Seq(Jobs)
    /\ jobStatus \in [Jobs -> {"none", "suspended", "waiting", "running", "expired", "gone"}]
    /\ remtime \in [Jobs -> 0 .. MaxInterval]
    /\ interval \in [Jobs -> Intervals]
    /\ iterations \in [Jobs -> Nat]
    /\ current \in Jobs \cup {NoJob}
    /\ timer \in {NoTimer} \cup Nat
    /\ running \in BOOLEAN
    /\ elapsed \in 0 .. MaxInterval
    /\ jobStack \in Seq(JobFrame)
    /\ jobWild \in BOOLEAN

Scheduling == \E i \in DOMAIN jobStack : jobStack[i].kind \notin JobWaitKinds

\* While Schedule() is not active, the one timer fires early enough for every
\* job that waits, whatever commands and passes of the scheduler came before.
TimerCoversJobs ==
    ~Scheduling => \A j \in Listed : jobStatus[j] = "waiting" =>
        /\ timer # NoTimer
        /\ timer <= AtLeastZero(remtime[j] - elapsed)

\* A job is in the list from its creation until it is deleted, once, and the
\* list never holds a job that is marked running but has no script.
ListConsistent ==
    /\ \A i, k \in DOMAIN jobList : jobList[i] = jobList[k] => i = k
    /\ \A j \in Jobs : j \in Listed <=> jobStatus[j] \notin {"none", "gone"}
    /\ \A j \in Listed : jobStatus[j] = "running" =>
         \E i \in DOMAIN jobStack : jobStack[i].job = j /\ jobStack[i].kind \in {"run", "error"}

\* "The -iterations option defines the total number of times that a job is
\* activated."
IterationsRespected == \A j \in Jobs : limit[j] > 0 => activated[j] <= limit[j]

\* A job is not activated again while its script is suspended in the event loop.
NotReentered ==
    \A i, k \in DOMAIN jobStack :
        jobStack[i].job = jobStack[k].job /\ {jobStack[i].kind, jobStack[k].kind} \subseteq {"run", "error"}
            => i = k

\* Tcl_Preserve() keeps the scheduler away from freed jobs.
JobNoUseAfterFree == ~jobWild

\* The three together: whatever scripts create, destroy, delete or schedule while
\* others are suspended in the event loop, the list, the marks and the counts of
\* the jobs agree with what runs.
JobsConsistent == ListConsistent /\ IterationsRespected /\ NotReentered

\* Between two activations at least the interval that the job has when its script
\* returns passes, counted from the start of the pass that made the first one.
NotEarly ==
    [][\A j \in Jobs : jobStatus[j] # "running" /\ jobStatus'[j] = "running"
          => owed[j] = 0]_schedVars

\* A waiting job that is due is activated (or taken out of the schedule).
DueJobsRun == \A j \in Jobs : Due(j) ~> ~Due(j)

\* "A job in the expired state will be removed from the system once the
\* scheduler gets activated again", and the scheduler waits for such jobs.
ExpiredRemoved == \A j \in Jobs : Expired(j) ~> ~Expired(j)

\* Every job the scheduler owes something gets it: its activation, or its end.
JobsServed == DueJobsRun /\ ExpiredRemoved

\* "job wait blocks until all existing jobs have been finished": it returns,
\* unless there is a job without a limit of its iterations.
Endless == \E j \in Listed : iterations[j] = 0 /\ jobStatus[j] # "expired"
JobWaitReturns == \A i \in 1 .. JobMaxDepth :
    (Len(jobStack) = i /\ JobTop.kind \in JobWaitKinds) ~> (Len(jobStack) < i \/ Endless)
=============================================================================
