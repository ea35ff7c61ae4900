------------------------- MODULE JobSchedulerProofs -------------------------
(***************************************************************************)
(* What the job scheduler runs: the marks and the counts of its jobs agree *)
(* with the scripts that are suspended, for any number of jobs, any        *)
(* intervals, and any nesting of scripts in the event loop.                *)
(***************************************************************************)
EXTENDS JobSchedulerLemmas

-----------------------------------------------------------------------------
(* The inductive invariant.                                                *)

\* The script of job j, or its error command, is suspended in some frame.
InFrame(f, j) == f.job = j /\ f.kind \in {"run", "error"}
Active(j) == \E i \in DOMAIN jobStack : InFrame(jobStack[i], j)

\* A job that runs has a script, and a suspended script belongs to a job that
\* no other frame runs and that nothing has made waiting again.
Marked ==
    \A j \in Listed : jobStatus[j] = "running" => Active(j)
FramesMatch ==
    \A i \in DOMAIN jobStack : jobStack[i].kind \in {"run", "error"} =>
        jobStatus[jobStack[i].job] \in {"running", "expired", "gone"}

\* The activations that are used up and the iterations that are left.  The one
\* that runs is counted twice.
CountsOK ==
    \A j \in Jobs : limit[j] > 0 =>
        /\ jobStatus[j] # "gone"
        /\ activated[j] <= limit[j]
        /\ activated[j] + iterations[j] <= limit[j] + (IF Active(j) THEN 1 ELSE 0)

\* A job without iterations left is expired, and Schedule() is there to remove it.
UsedUp == \A j \in Jobs : limit[j] > 0 /\ iterations[j] = 0 => jobStatus[j] = "expired" /\ Scheduling

RunInv == Marked /\ NotReentered /\ FramesMatch /\ CountsOK /\ UsedUp

\* Scripts do not set the status of jobs.
StatusKept == "status" \notin JobScriptCommands
-----------------------------------------------------------------------------
(* What runs.                                                              *)

\* A step that neither starts a script nor ends one.
RunKinds == {"run", "error"}
SameScripts ==
    /\ \A i \in DOMAIN jobStack' : jobStack'[i].kind \in RunKinds =>
         i \in DOMAIN jobStack /\ jobStack[i].kind \in RunKinds /\ jobStack'[i].job = jobStack[i].job
    /\ \A i \in DOMAIN jobStack : jobStack[i].kind \in RunKinds =>
         i \in DOMAIN jobStack' /\ jobStack'[i].kind \in RunKinds /\ jobStack'[i].job = jobStack[i].job

\* A frame that moves on from no script to no script, or from a script to its error command.
LEMMA SameScriptsGoto ==
    ASSUME Base, NEW kind \in JobKinds, NEW j \in Jobs \cup {NoJob}, JobTop.kind # "none",
           jobStack' = Goto(kind, j),
           \/ kind \notin RunKinds /\ JobTop.kind \notin RunKinds
           \/ kind \in RunKinds /\ JobTop.kind \in RunKinds /\ j = JobTop.job
    PROVE  SameScripts
<1>1. jobStack \in Seq(JobFrame)
  BY DEF Base, JobTypeOK
<1>2. /\ jobStack # <<>> /\ Len(jobStack) \in DOMAIN jobStack
      /\ JobTop = jobStack[Len(jobStack)]
  BY <1>1, TopFacts
<1>3. /\ DOMAIN jobStack' = DOMAIN jobStack
      /\ \A i \in DOMAIN jobStack : i # Len(jobStack) => jobStack'[i] = jobStack[i]
  BY <1>1, <1>2, GotoFacts, ZenonT(30)
<1>4. jobStack'[Len(jobStack)] = [kind |-> kind, job |-> j, age |-> jobStack[Len(jobStack)].age]
  BY <1>1, <1>2, GotoFacts
<1>5. jobStack'[Len(jobStack)].kind = kind /\ jobStack'[Len(jobStack)].job = j
  BY <1>4
<1> QED
  BY <1>2, <1>3, <1>5 DEF SameScripts

\* A call that is no script.
LEMMA SameScriptsPush ==
    ASSUME Base, NEW kind \in JobKinds \ RunKinds, NEW j \in Jobs \cup {NoJob},
           jobStack' = Push(kind, j)
    PROVE  SameScripts
<1>1. jobStack \in Seq(JobFrame)
  BY DEF Base, JobTypeOK
<1>2. Len(jobStack) \in Nat /\ DOMAIN jobStack = 1 .. Len(jobStack)
  BY <1>1
<1>3. /\ DOMAIN jobStack' = 1 .. Len(jobStack) + 1
      /\ \A i \in DOMAIN jobStack : jobStack'[i] = jobStack[i]
      /\ jobStack'[Len(jobStack) + 1] = [kind |-> kind, job |-> j, age |-> 0]
  BY <1>1, PushFacts
<1>4. \A i \in DOMAIN jobStack : i \in DOMAIN jobStack'
  BY <1>2, <1>3
<1>5. \A i \in DOMAIN jobStack' : i \in DOMAIN jobStack \/ i = Len(jobStack) + 1
  BY <1>2, <1>3
<1> QED
  BY <1>3, <1>4, <1>5 DEF SameScripts

\* A return that is not from a script.
LEMMA SameScriptsPop ==
    ASSUME Base, JobTop.kind \notin RunKinds \cup {"none"}, jobStack' = JobPop
    PROVE  SameScripts
<1>1. jobStack \in Seq(JobFrame)
  BY DEF Base, JobTypeOK
<1>2. /\ jobStack # <<>> /\ Len(jobStack) \in Nat /\ DOMAIN jobStack = 1 .. Len(jobStack)
      /\ jobStack[Len(jobStack)].kind \notin RunKinds
  BY <1>1, TopFacts
<1>3. /\ DOMAIN jobStack' = 1 .. Len(jobStack) - 1
      /\ \A i \in 1 .. Len(jobStack) - 1 : jobStack'[i] = jobStack[i]
  BY <1>1, <1>2, PopFacts
<1>4. \A i \in DOMAIN jobStack : i \in DOMAIN jobStack' \/ i = Len(jobStack)
  BY <1>2, <1>3
<1>5. \A i \in DOMAIN jobStack' : i \in DOMAIN jobStack /\ jobStack'[i] = jobStack[i]
  BY <1>2, <1>3
<1> QED
  BY <1>2, <1>4, <1>5 DEF SameScripts

\* Then the same jobs have scripts that run.
LEMMA SameScriptsActive ==
    ASSUME SameScripts, NEW j
    PROVE  Active(j)' <=> Active(j)
BY DEF SameScripts, Active, InFrame, RunKinds

\* The marks of the jobs, as long as no script starts or ends: jobs are created,
\* expire and go.
LEMMA MarksKept ==
    ASSUME Base, Base', Marked, NotReentered, FramesMatch, SameScripts,
           \A k \in Jobs : \/ jobStatus'[k] = jobStatus[k]
                           \/ jobStatus'[k] \in {"expired", "gone"}
                           \/ jobStatus[k] = "none" /\ jobStatus'[k] = "waiting"
    PROVE  Marked' /\ NotReentered' /\ FramesMatch'
<1>1. JobTypeOK /\ Living /\ FramesOK /\ JobTypeOK' /\ Living'
  BY DEF Base
<1>2. Marked'
  <2> SUFFICES ASSUME NEW j \in Listed', jobStatus'[j] = "running" PROVE Active(j)'
    BY DEF Marked
  <2>1. j \in Jobs
    BY <1>1 DEF JobTypeOK, Listed
  <2>2. jobStatus[j] = "running"
    BY <2>1
  <2>3. j \in Listed
    BY <1>1, <2>1, <2>2 DEF Living
  <2> QED
    BY <2>2, <2>3, SameScriptsActive DEF Marked
<1>3. NotReentered'
  BY DEF SameScripts, NotReentered, RunKinds
<1>4. FramesMatch'
  <2> SUFFICES ASSUME NEW i \in DOMAIN jobStack', jobStack'[i].kind \in RunKinds
               PROVE  jobStatus'[jobStack'[i].job] \in {"running", "expired", "gone"}
    BY DEF FramesMatch, RunKinds
  <2>1. i \in DOMAIN jobStack /\ jobStack[i].kind \in RunKinds /\ jobStack'[i].job = jobStack[i].job
    BY DEF SameScripts
  <2>2. jobStack[i].job \in Jobs /\ jobStatus[jobStack[i].job] # "none"
    BY <1>1, <2>1 DEF FramesOK, RunKinds, JobScriptKinds
  <2>3. jobStatus[jobStack[i].job] \in {"running", "expired", "gone"}
    BY <2>1 DEF FramesMatch, RunKinds
  <2> QED
    BY <2>1, <2>2, <2>3
<1> QED
  BY <1>2, <1>3, <1>4

\* The counts, with a change of the settings of some jobs.
LEMMA CountsKept ==
    ASSUME Base, Base', CountsOK, UsedUp, SameScripts, Scheduling => Scheduling',
           \A k \in Jobs :
             \/ limit'[k] = 0
             \/ /\ limit'[k] = limit[k] /\ activated'[k] = activated[k] /\ iterations'[k] = iterations[k]
                /\ jobStatus'[k] = jobStatus[k] \/ jobStatus'[k] = "expired"
             \/ limit'[k] = iterations'[k] /\ activated'[k] = 0 /\ jobStatus'[k] = "waiting"
    PROVE  CountsOK' /\ UsedUp'
<1>1. HistoryOK /\ HistoryOK' /\ JobTypeOK /\ JobTypeOK'
  BY DEF Base
<1>2. ASSUME NEW k \in Jobs, limit'[k] > 0
      PROVE  /\ jobStatus'[k] # "gone"
             /\ activated'[k] <= limit'[k]
             /\ activated'[k] + iterations'[k] <= limit'[k] + (IF Active(k)' THEN 1 ELSE 0)
             /\ iterations'[k] = 0 => jobStatus'[k] = "expired" /\ Scheduling'
  <2>1. /\ limit'[k] \in Nat /\ activated'[k] \in Nat /\ iterations'[k] \in Nat
        /\ limit[k] \in Nat /\ activated[k] \in Nat /\ iterations[k] \in Nat
    BY <1>1 DEF HistoryOK, JobTypeOK
  <2>2. Active(k)' <=> Active(k)
    BY SameScriptsActive
  <2>3. CASE /\ limit'[k] = limit[k] /\ activated'[k] = activated[k] /\ iterations'[k] = iterations[k]
             /\ jobStatus'[k] = jobStatus[k] \/ jobStatus'[k] = "expired"
    <3>1. /\ jobStatus[k] # "gone" /\ activated[k] <= limit[k]
          /\ activated[k] + iterations[k] <= limit[k] + (IF Active(k) THEN 1 ELSE 0)
      BY <1>2, <2>3 DEF CountsOK
    <3>2. iterations[k] = 0 => jobStatus[k] = "expired" /\ Scheduling
      BY <1>2, <2>3 DEF UsedUp
    <3> QED
      BY <2>2, <2>3, <3>1, <3>2
  <2>4. CASE limit'[k] = iterations'[k] /\ activated'[k] = 0 /\ jobStatus'[k] = "waiting"
    BY <1>2, <2>1, <2>4
  <2> QED
    BY <1>2, <2>1, <2>3, <2>4
<1> QED
  BY <1>2 DEF CountsOK, UsedUp

\* Schedule() starts a script: the job waits, so no frame runs it, and it has an
\* iteration left.
LEMMA RunStart ==
    ASSUME Base, Base', RunInv, NEW j \in Jobs, RunJob(j)
    PROVE  RunInv'
<1> USE DEF RunKinds
<1>1. JobTypeOK /\ HistoryOK /\ Living /\ FramesOK /\ JobTypeOK' /\ HistoryOK' /\ Living'
  BY DEF Base
<1>2. /\ JobTop.kind = "pass" /\ jobStatus[j] = "waiting"
      /\ jobStatus' = [jobStatus EXCEPT ![j] = "running"]
      /\ jobStack' = Goto("run", j)
      /\ activated' = [activated EXCEPT ![j] = IF limit[j] = 0 THEN 0 ELSE @ + 1]
      /\ UNCHANGED <<jobList, iterations, limit>>
  BY DEF RunJob, First, Due
<1>3. /\ jobStack \in Seq(JobFrame) /\ jobStack # <<>> /\ Len(jobStack) \in DOMAIN jobStack
      /\ jobStack[Len(jobStack)].kind = "pass"
  BY <1>1, <1>2, TopFacts DEF JobTypeOK
<1> DEFINE top == Len(jobStack)
<1>4. /\ DOMAIN jobStack' = DOMAIN jobStack
      /\ \A i \in DOMAIN jobStack : i # top => jobStack'[i] = jobStack[i]
  BY <1>2, <1>3, GotoFacts, ZenonT(30) DEF JobKinds, JobScriptKinds
<1>5. jobStack'[top] = [kind |-> "run", job |-> j, age |-> jobStack[top].age]
  BY <1>2, <1>3, GotoFacts DEF JobKinds, JobScriptKinds
<1>6. jobStack'[top].kind = "run" /\ jobStack'[top].job = j
  BY <1>5
<1> HIDE DEF top
<1>7. top \in DOMAIN jobStack /\ jobStack[top].kind = "pass"
  BY <1>3 DEF top
<1>8. ~Active(j)
  BY <1>2 DEF RunInv, FramesMatch, Active, InFrame
<1>9. \A k \in Jobs : k # j => (Active(k)' <=> Active(k))
  BY <1>4, <1>6, <1>7 DEF Active, InFrame
<1>10. Active(j)'
  BY <1>4, <1>6, <1>7 DEF Active, InFrame
<1>11. \A k \in Jobs : k # j => jobStatus'[k] = jobStatus[k] /\ activated'[k] = activated[k]
  BY <1>1, <1>2 DEF JobTypeOK, HistoryOK
<1>12. jobStatus'[j] = "running" /\ activated'[j] = IF limit[j] = 0 THEN 0 ELSE activated[j] + 1
  BY <1>1, <1>2 DEF JobTypeOK, HistoryOK
<1>13. Marked'
  <2> SUFFICES ASSUME NEW k \in Listed', jobStatus'[k] = "running" PROVE Active(k)'
    BY DEF Marked
  <2>1. k \in Jobs /\ k \in Listed
    BY <1>1, <1>2 DEF JobTypeOK, Listed
  <2> QED
    BY <1>9, <1>10, <1>11, <2>1 DEF RunInv, Marked
<1>14. NotReentered'
  <2> SUFFICES ASSUME NEW i \in DOMAIN jobStack', NEW k \in DOMAIN jobStack',
                      jobStack'[i].job = jobStack'[k].job,
                      jobStack'[i].kind \in RunKinds, jobStack'[k].kind \in RunKinds
               PROVE  i = k
    BY DEF NotReentered
  <2>1. CASE i # top /\ k # top
    BY <1>4, <2>1 DEF RunInv, NotReentered
  <2>2. \A l \in DOMAIN jobStack' : l # top /\ jobStack'[l].kind \in RunKinds => jobStack'[l].job # j
    BY <1>4, <1>8 DEF Active, InFrame
  <2> QED
    BY <1>6, <2>1, <2>2
<1>15. FramesMatch'
  <2> SUFFICES ASSUME NEW i \in DOMAIN jobStack', jobStack'[i].kind \in RunKinds
               PROVE  jobStatus'[jobStack'[i].job] \in {"running", "expired", "gone"}
    BY DEF FramesMatch
  <2>1. CASE i = top
    BY <1>6, <1>12, <2>1
  <2>2. CASE i # top
    <3>1. i \in DOMAIN jobStack /\ jobStack'[i] = jobStack[i]
      BY <1>4, <2>2
    <3>2. jobStack[i].job \in Jobs /\ jobStatus[jobStack[i].job] \in {"running", "expired", "gone"}
      BY <1>1, <3>1 DEF RunInv, FramesMatch, FramesOK, JobScriptKinds
    <3> QED
      BY <1>11, <1>12, <3>1, <3>2
  <2> QED
    BY <2>1, <2>2
<1>16. Scheduling'
  BY <1>4, <1>6, <1>7 DEF Scheduling, JobWaitKinds
<1>17. CountsOK' /\ UsedUp'
  <2>1. ASSUME NEW k \in Jobs, limit'[k] > 0
        PROVE  /\ jobStatus'[k] # "gone"
               /\ activated'[k] <= limit'[k]
               /\ activated'[k] + iterations'[k] <= limit'[k] + (IF Active(k)' THEN 1 ELSE 0)
               /\ iterations'[k] = 0 => jobStatus'[k] = "expired"
    <3>1. /\ limit[k] \in Nat /\ activated[k] \in Nat /\ iterations[k] \in Nat
          /\ limit'[k] = limit[k] /\ iterations'[k] = iterations[k]
      BY <1>1, <1>2 DEF HistoryOK, JobTypeOK
    <3>2. /\ jobStatus[k] # "gone" /\ activated[k] <= limit[k]
          /\ activated[k] + iterations[k] <= limit[k] + (IF Active(k) THEN 1 ELSE 0)
          /\ iterations[k] = 0 => jobStatus[k] = "expired"
      BY <2>1, <3>1 DEF RunInv, CountsOK, UsedUp
    <3>3. CASE k # j
      BY <1>9, <1>11, <3>1, <3>2, <3>3
    <3>4. CASE k = j
      <4>1. iterations[j] # 0 /\ activated'[j] = activated[j] + 1
        BY <1>2, <1>12, <2>1, <3>1, <3>2, <3>4
      <4>2. activated[j] + iterations[j] <= limit[j]
        BY <1>8, <3>1, <3>2, <3>4
      <4> QED
        BY <1>10, <1>12, <3>1, <3>4, <4>1, <4>2
    <3> QED
      BY <3>3, <3>4
  <2> QED
    BY <1>16, <2>1 DEF CountsOK, UsedUp
<1> QED
  BY <1>13, <1>14, <1>15, <1>17 DEF RunInv

\* The script of the innermost frame ends: no other frame has its job.
LEMMA RunEnd ==
    ASSUME Base, Base', RunInv, NEW j \in Jobs, j = JobTop.job,
           JobTop.kind \in RunKinds, jobStack' = Goto("pass", NoJob),
           UNCHANGED <<jobList, activated, limit>>,
           Forgotten \/ Finished
    PROVE  RunInv'
<1> USE DEF RunKinds
<1> DEFINE top == Len(jobStack)
<1>1. JobTypeOK /\ HistoryOK /\ Living /\ FramesOK /\ JobTypeOK' /\ HistoryOK' /\ Living'
  BY DEF Base
<1>2. jobStack \in Seq(JobFrame) /\ JobTop.kind # "none"
  BY <1>1, ZenonT(30) DEF JobTypeOK
<1>3. /\ jobStack # <<>> /\ top \in DOMAIN jobStack /\ JobTop = jobStack[top]
  BY <1>2, TopFacts
<1>4. /\ DOMAIN jobStack' = DOMAIN jobStack
      /\ \A i \in DOMAIN jobStack : i # top => jobStack'[i] = jobStack[i]
  BY <1>2, <1>3, GotoFacts, ZenonT(30) DEF JobKinds
<1>5. jobStack'[top] = [kind |-> "pass", job |-> NoJob, age |-> jobStack[top].age]
  BY <1>2, <1>3, GotoFacts DEF JobKinds
<1>6. jobStack'[top].kind = "pass"
  BY <1>5
<1>7. jobStack[top].kind \in RunKinds /\ jobStack[top].job = j
  BY <1>1, <1>3 DEF FramesOK, JobScriptKinds
<1>8. /\ jobStatus[j] \in {"running", "expired", "gone"}
  BY <1>3, <1>7 DEF RunInv, FramesMatch
<1> HIDE DEF top
<1>9. Active(j) /\ ~Active(j)'
  <2>1. Active(j)
    BY <1>3, <1>7 DEF Active, InFrame
  <2>2. \A i \in DOMAIN jobStack : jobStack[i].kind \in RunKinds /\ jobStack[i].job = j => i = top
    BY <1>3, <1>7 DEF RunInv, NotReentered
  <2>3. \A i \in DOMAIN jobStack' : ~(jobStack'[i].job = j /\ jobStack'[i].kind \in RunKinds)
    BY <1>4, <1>6, <2>2
  <2>4. ~Active(j)'
    BY <2>3 DEF Active, InFrame
  <2> QED
    BY <2>1, <2>4
<1>10. \A k \in Jobs : k # j => (Active(k)' <=> Active(k))
  BY <1>3, <1>4, <1>6, <1>7 DEF Active, InFrame
<1>11. \A i \in DOMAIN jobStack' : jobStack'[i].kind \in RunKinds =>
         /\ i \in DOMAIN jobStack /\ jobStack'[i] = jobStack[i] /\ jobStack[i].job # j
         /\ jobStack[i].job \in Jobs
  <2>1. \A i \in DOMAIN jobStack' : jobStack'[i].kind \in RunKinds =>
         i \in DOMAIN jobStack /\ jobStack'[i] = jobStack[i] /\ i # top
    BY <1>4, <1>6
  <2>2. \A i \in DOMAIN jobStack : jobStack[i].kind \in RunKinds /\ jobStack[i].job = j => i = top
    BY <1>3, <1>7 DEF RunInv, NotReentered
  <2> QED
    BY <1>1, <2>1, <2>2 DEF FramesOK, JobScriptKinds
<1>12. Scheduling'
  BY <1>3, <1>4, <1>6 DEF Scheduling, JobWaitKinds
<1>13. /\ \A k \in Jobs : k # j => jobStatus'[k] = jobStatus[k] /\ iterations'[k] = iterations[k]
       /\ \/ jobStatus[j] = "gone" /\ jobStatus'[j] = "gone" /\ iterations'[j] = iterations[j]
          \/ /\ jobStatus'[j] = IF iterations[j] = 1 \/ jobStatus[j] = "expired" THEN "expired"
                                ELSE jobStatus'[j]
             /\ jobStatus'[j] \in {"waiting", "expired"}
             /\ iterations'[j] = IF iterations[j] > 0 THEN iterations[j] - 1 ELSE iterations[j]
  <2>1. CASE Forgotten
    BY <2>1 DEF Forgotten
  <2>2. CASE Finished
    <3>1. PICK st \in {"expired", jobStatus[j]} : Finish(j, st)
      BY <2>2 DEF Finished
    <3>2. st \in Statuses /\ st \in {"running", "expired"} /\ (jobStatus[j] = "expired" => st = "expired")
      BY <1>8, <2>2, <3>1 DEF Statuses, Finished
    <3>3. /\ jobStatus'[j] = IF iterations[j] = 1 THEN "expired"
                             ELSE IF st = "running" THEN "waiting" ELSE st
          /\ \A k \in Jobs : k # j => jobStatus'[k] = jobStatus[k]
          /\ iterations'[j] = IF iterations[j] > 0 THEN iterations[j] - 1 ELSE iterations[j]
          /\ \A k \in Jobs : k # j => iterations'[k] = iterations[k]
      BY <3>1, <3>2, FinishFacts
    <3> QED
      BY <3>2, <3>3
  <2> QED
    BY <2>1, <2>2
<1>14. Marked'
  <2> SUFFICES ASSUME NEW k \in Listed', jobStatus'[k] = "running" PROVE Active(k)'
    BY DEF Marked
  <2>1. k \in Jobs /\ k \in Listed
    BY <1>1 DEF JobTypeOK, Listed
  <2>2. k # j
    BY <1>13
  <2> QED
    BY <1>10, <1>13, <2>1, <2>2 DEF RunInv, Marked
<1>15. NotReentered'
  BY <1>11 DEF RunInv, NotReentered
<1>16. FramesMatch'
  BY <1>11, <1>13 DEF RunInv, FramesMatch
<1>17. CountsOK' /\ UsedUp'
  <2>1. ASSUME NEW k \in Jobs, limit'[k] > 0
        PROVE  /\ jobStatus'[k] # "gone"
               /\ activated'[k] <= limit'[k]
               /\ activated'[k] + iterations'[k] <= limit'[k] + (IF Active(k)' THEN 1 ELSE 0)
               /\ iterations'[k] = 0 => jobStatus'[k] = "expired"
    <3>1. /\ limit[k] \in Nat /\ activated[k] \in Nat /\ iterations[k] \in Nat
          /\ limit'[k] = limit[k] /\ activated'[k] = activated[k]
      BY <1>1 DEF HistoryOK, JobTypeOK
    <3>2. /\ jobStatus[k] # "gone" /\ activated[k] <= limit[k]
          /\ activated[k] + iterations[k] <= limit[k] + (IF Active(k) THEN 1 ELSE 0)
          /\ iterations[k] = 0 => jobStatus[k] = "expired"
      BY <2>1, <3>1 DEF RunInv, CountsOK, UsedUp
    <3>3. CASE k # j
      BY <1>10, <1>13, <3>1, <3>2, <3>3
    <3>4. CASE k = j
      BY <1>9, <1>13, <3>1, <3>2, <3>4
    <3> QED
      BY <3>3, <3>4
  <2> QED
    BY <1>12, <2>1 DEF CountsOK, UsedUp
<1> QED
  BY <1>14, <1>15, <1>16, <1>17 DEF RunInv

\* With an empty stack nothing runs, and job# configure -status changes nothing of it.
LEMMA RunStatus ==
    ASSUME StatusKept, Base, Base', RunInv, NEW j \in Jobs,
           NEW st \in {"suspended", "waiting", "expired"}, SetStatus(j, st)
    PROVE  RunInv'
<1>1. /\ jobStack = <<>> /\ jobStack' = <<>> /\ UNCHANGED <<iterations, history>>
      /\ jobStatus' = [jobStatus EXCEPT ![j] = st] /\ j \in Listed /\ jobList' = jobList
  BY DEF SetStatus, JobMayCommand, StatusKept
<1>2. JobTypeOK /\ HistoryOK /\ JobTypeOK' /\ HistoryOK' /\ Living
  BY DEF Base
<1>3. \A k \in Jobs : ~Active(k) /\ ~Active(k)' /\ ~Scheduling
  BY <1>1 DEF Active, Scheduling
<1>4. \A k \in Jobs : jobStatus'[k] = IF k = j THEN st ELSE jobStatus[k]
  BY <1>1, <1>2 DEF JobTypeOK
<1>5. NotReentered' /\ FramesMatch'
  BY <1>1 DEF NotReentered, FramesMatch
<1>6. Marked'
  <2> SUFFICES ASSUME NEW k \in Listed', jobStatus'[k] = "running" PROVE FALSE
    BY DEF Marked
  <2>1. k \in Jobs /\ k \in Listed
    BY <1>1, <1>2 DEF JobTypeOK, Listed
  <2> QED
    BY <1>3, <1>4, <2>1 DEF RunInv, Marked
<1>7. CountsOK' /\ UsedUp'
  <2>1. jobStatus[j] # "gone"
    BY <1>1, <1>2, SMTT(60) DEF Living
  <2>2. ASSUME NEW k \in Jobs, limit[k] > 0
        PROVE  /\ jobStatus'[k] # "gone" /\ activated[k] <= limit[k] /\ iterations[k] # 0
               /\ activated[k] + iterations[k] <= limit[k] + (IF Active(k)' THEN 1 ELSE 0)
    BY <1>3, <1>4, <2>1, <2>2 DEF RunInv, CountsOK, UsedUp
  <2> QED
    BY <1>1, <2>2 DEF CountsOK, UsedUp, history
<1> QED
  BY <1>5, <1>6, <1>7 DEF RunInv

\* Schedule() returns only when no expired job is left.
LEMMA RunSwept ==
    ASSUME Base, Base', RunInv, SweepDone
    PROVE  RunInv'
<1>1. /\ JobTop.kind = "sweep" /\ jobStack' = JobPop /\ ~ \E j \in Listed : Expired(j)
      /\ UNCHANGED <<jobStatus, iterations, history>>
  BY DEF SweepDone
<1>2. SameScripts
  BY <1>1, SameScriptsPop DEF RunKinds
<1>3. Marked' /\ NotReentered' /\ FramesMatch'
  BY <1>1, <1>2, MarksKept DEF RunInv
<1>4. \A k \in Jobs : jobStatus[k] # "expired"
  BY <1>1 DEF Base, Living, Expired
<1>5. UsedUp'
  BY <1>1, <1>4 DEF RunInv, UsedUp, history
<1>6. CountsOK'
  BY <1>1, <1>2, SameScriptsActive DEF RunInv, CountsOK, history
<1> QED
  BY <1>3, <1>5, <1>6 DEF RunInv

\* A job is deleted, from where ever.
LEMMA RunRemove ==
    ASSUME Base, Base', RunInv, SameScripts, Scheduling => Scheduling', NEW j \in Jobs, Remove(j)
    PROVE  RunInv'
<1>1. JobTypeOK /\ HistoryOK
  BY DEF Base
<1>2. \A k \in Jobs :
        /\ jobStatus'[k] = IF k = j THEN "gone" ELSE jobStatus[k]
        /\ limit'[k] = IF k = j THEN 0 ELSE limit[k]
        /\ activated'[k] = IF k = j THEN 0 ELSE activated[k]
        /\ iterations'[k] = IF k = j THEN 0 ELSE iterations[k]
  BY <1>1 DEF Remove, JobTypeOK, HistoryOK
<1>3. Marked' /\ NotReentered' /\ FramesMatch'
  BY <1>2, MarksKept DEF RunInv
<1>4. CountsOK' /\ UsedUp'
  BY <1>2, CountsKept DEF RunInv
<1> QED
  BY <1>3, <1>4 DEF RunInv

\* Steps that change neither the jobs nor what runs.
LEMMA RunSame ==
    ASSUME Base, Base', RunInv, SameScripts, Scheduling => Scheduling',
           UNCHANGED <<jobStatus, iterations, activated, limit>>
    PROVE  RunInv'
<1>1. Marked' /\ NotReentered' /\ FramesMatch'
  BY MarksKept DEF RunInv
<1>2. CountsOK' /\ UsedUp'
  BY CountsKept DEF RunInv
<1> QED
  BY <1>1, <1>2 DEF RunInv

\* Nothing runs in the beginning.
LEMMA RunInit == JobInit => RunInv
<1> SUFFICES ASSUME JobInit PROVE RunInv
  OBVIOUS
<1>1. Marked
  BY DEF JobInit, Marked, Listed
<1>2. NotReentered /\ FramesMatch
  BY DEF JobInit, NotReentered, FramesMatch
<1>3. CountsOK /\ UsedUp
  BY DEF JobInit, CountsOK, UsedUp
<1> QED
  BY <1>1, <1>2, <1>3 DEF RunInv

\* Every step keeps the marks and the counts in agreement with what runs.
LEMMA RunStep == StatusKept /\ Base /\ RunInv /\ [JobNext]_schedVars => RunInv'
<1> SUFFICES ASSUME StatusKept, Base, RunInv, [JobNext]_schedVars
             PROVE  RunInv'
  OBVIOUS
<1>1. Base' /\ JobTypeOK /\ HistoryOK
  BY BaseStep DEF Base
<1>2. ASSUME jobStack' = jobStack
      PROVE  SameScripts /\ (Scheduling => Scheduling')
  BY <1>2 DEF SameScripts, Scheduling
<1>3. CASE Tick
  <2>1. SameScripts /\ (Scheduling => Scheduling')
    BY <1>3, TickStack DEF SameScripts, Scheduling
  <2>2. UNCHANGED <<jobStatus, iterations, activated, limit>>
    BY <1>3 DEF Tick, jobVars
  <2> QED
    BY <1>1, <2>1, <2>2, RunSame
<1>4. CASE ScheduleProc \/ CmdSchedule
  <2>1. jobStack' = Push("pass", NoJob) /\ UNCHANGED <<jobStatus, iterations, activated, limit>>
    BY <1>4 DEF ScheduleProc, CmdSchedule, history
  <2>2. SameScripts
    BY <2>1, SameScriptsPush DEF JobKinds, RunKinds
  <2> QED
    BY <1>1, <1>4, <2>1, <2>2, RunSame, SchedulingStays
<1>5. CASE PassDone
  <2>1. /\ JobTop.kind = "pass" /\ jobStack' = Goto("sweep", NoJob)
        /\ UNCHANGED <<jobStatus, iterations, activated, limit>>
    BY <1>5 DEF PassDone, jobVars, history
  <2>2. SameScripts
    BY <2>1, SameScriptsGoto DEF JobKinds, RunKinds
  <2> QED
    BY <1>1, <1>5, <2>1, <2>2, RunSame, SchedulingStays
<1>6. ASSUME NEW j \in Jobs, Sweep(j)
      PROVE  RunInv'
  <2>1. Scheduling' /\ JobTop.kind = "sweep"
    BY <1>6, SchedulingStays DEF Sweep
  <2>2. CASE j \in ExitJobs
    <3>1. jobStack' = Goto("exit", j) /\ UNCHANGED <<jobStatus, iterations, activated, limit>>
      BY <1>6, <2>2 DEF Sweep, jobVars, history
    <3>2. SameScripts
      BY <2>1, <3>1, SameScriptsGoto DEF JobKinds, JobScriptKinds, RunKinds
    <3> QED
      BY <1>1, <2>1, <3>1, <3>2, RunSame
  <2>3. CASE j \notin ExitJobs
    BY <1>1, <1>2, <1>6, <2>3, RunRemove DEF Sweep
  <2> QED
    BY <2>2, <2>3
<1>7. CASE ExitReturn
  <2>1. Scheduling' /\ JobTop.kind = "exit" /\ JobTop.job \in Jobs
    BY <1>7, SchedulingStays, ExitFacts DEF JobReturns
  <2>2. CASE UNCHANGED <<jobVars, jobStack, history>>
    <3>1. jobStack' = jobStack /\ UNCHANGED <<jobStatus, iterations, activated, limit>>
      BY <2>2 DEF jobVars, history
    <3> QED
      BY <1>1, <1>2, <3>1, RunSame
  <2>3. CASE Remove(JobTop.job) /\ jobStack' = Goto("sweep", NoJob)
    <3>1. SameScripts
      BY <2>1, <2>3, SameScriptsGoto DEF JobKinds, RunKinds
    <3> QED
      BY <1>1, <2>1, <2>3, <3>1, RunRemove
  <2> QED
    BY <1>7, <2>2, <2>3, ExitFacts, ZenonT(30)
<1>8. ASSUME NEW code \in Codes, ScriptReturn(code)
      PROVE  RunInv'
  <2>1. /\ JobTop.kind \in RunKinds /\ (ToErrorCommand \/ Wild \/ Forgotten \/ Finished)
        /\ UNCHANGED <<jobList, activated, limit>>
    BY <1>8, ScriptReturnCases DEF RunKinds
  <2>2. Scheduling'
    BY <1>8, SchedulingStays DEF JobReturns
  <2>3. PICK j \in Jobs : j = JobTop.job
    BY <1>1, <2>1, TopFacts DEF Base, FramesOK, JobTypeOK, JobScriptKinds, RunKinds
  <2>4. CASE ToErrorCommand
    <3>1. jobStack' = Goto("error", j) /\ UNCHANGED <<jobStatus, iterations>>
      BY <2>3, <2>4 DEF ToErrorCommand
    <3>2. SameScripts
      BY <2>1, <2>3, <3>1, SameScriptsGoto DEF JobKinds, JobScriptKinds, RunKinds
    <3> QED
      BY <1>1, <2>1, <2>2, <3>1, <3>2, RunSame
  <2>5. CASE Wild
    <3>1. jobStack' = jobStack /\ UNCHANGED <<jobStatus, iterations>>
      BY <2>5 DEF Wild
    <3> QED
      BY <1>1, <1>2, <2>1, <3>1, RunSame
  <2>6. CASE Forgotten \/ Finished
    <3>1. jobStack' = Goto("pass", NoJob)
      BY <2>6 DEF Forgotten, Finished
    <3> QED
      BY <1>1, <2>1, <2>3, <2>6, <3>1, RunEnd
  <2> QED
    BY <2>1, <2>4, <2>5, <2>6
<1>9. CASE (\E j \in Jobs : Wait("wait", j)) \/ Wait("waitall", NoJob) \/ WaitReturn
  <2>1. Scheduling => Scheduling'
    BY <1>9, SchedulingWait
  <2>2. UNCHANGED <<jobStatus, iterations, activated, limit>>
    BY <1>9 DEF Wait, WaitReturn, jobVars, history
  <2>3. WaitReturn => SameScripts
    BY SameScriptsPop DEF WaitReturn, JobWaitKinds, RunKinds
  <2>4. ~WaitReturn => SameScripts
    <3> HAVE ~WaitReturn
    <3>1. \E kind \in JobKinds \ RunKinds, j \in Jobs \cup {NoJob} : jobStack' = Push(kind, j)
      BY <1>9, SMTT(60) DEF Wait, JobKinds, JobWaitKinds, RunKinds
    <3> QED
      BY <3>1, SameScriptsPush
  <2> QED
    BY <1>1, <2>1, <2>2, <2>3, <2>4, RunSame
<1>10. ASSUME NEW j \in Jobs, NEW i \in Intervals, NEW n \in Iterations, CreateJob(j, i, n)
       PROVE  RunInv'
  <2>1. /\ jobStack' = jobStack /\ jobStatus[j] = "none" /\ activated' = activated
        /\ jobStatus' = [jobStatus EXCEPT ![j] = "waiting"]
        /\ iterations' = [iterations EXCEPT ![j] = n] /\ limit' = [limit EXCEPT ![j] = n]
    BY <1>10 DEF CreateJob
  <2>2. /\ activated'[j] = 0
        /\ \A k \in Jobs : /\ jobStatus'[k] = IF k = j THEN "waiting" ELSE jobStatus[k]
                           /\ iterations'[k] = IF k = j THEN n ELSE iterations[k]
                           /\ limit'[k] = IF k = j THEN n ELSE limit[k]
    BY <1>1, <2>1 DEF Base, Fresh, JobTypeOK, HistoryOK
  <2>3. Marked' /\ NotReentered' /\ FramesMatch'
    BY <1>1, <1>2, <2>1, <2>2, MarksKept DEF RunInv
  <2>4. CountsOK' /\ UsedUp'
    BY <1>1, <1>2, <2>1, <2>2, CountsKept DEF RunInv
  <2> QED
    BY <2>3, <2>4 DEF RunInv
<1>11. ASSUME NEW j \in Jobs,
              \/ \E i \in Intervals : SetInterval(j, i)
              \/ GetTime(j)
       PROVE  RunInv'
  <2>1. jobStack' = jobStack /\ UNCHANGED <<jobStatus, iterations, activated, limit>>
    BY <1>11 DEF SetInterval, GetTime, history
  <2> QED
    BY <1>1, <1>2, <2>1, RunSame
<1>12. ASSUME NEW j \in Jobs, (\E n \in Iterations : SetIterations(j, n)) \/ JobDestroy(j)
       PROVE  RunInv'
  <2>1. jobStack' = jobStack
    BY <1>12 DEF SetIterations, JobDestroy
  <2>2. /\ \A k \in Jobs : jobStatus'[k] = jobStatus[k] \/ jobStatus'[k] = "expired"
        /\ \A k \in Jobs : \/ limit'[k] = 0
                           \/ /\ limit'[k] = limit[k] /\ activated'[k] = activated[k]
                              /\ iterations'[k] = iterations[k]
    BY <1>1, <1>12, ZenonT(30) DEF SetIterations, JobDestroy, JobTypeOK, HistoryOK, history
  <2>3. Marked' /\ NotReentered' /\ FramesMatch'
    BY <1>1, <1>2, <2>1, <2>2, MarksKept DEF RunInv
  <2>4. CountsOK' /\ UsedUp'
    BY <1>1, <1>2, <2>1, <2>2, CountsKept DEF RunInv
  <2> QED
    BY <2>3, <2>4 DEF RunInv
<1>13. ASSUME NEW j \in Jobs, DeleteProc(j)
       PROVE  RunInv'
  BY <1>1, <1>2, <1>13, RunRemove DEF DeleteProc
<1>14. CASE UNCHANGED schedVars
  <2>1. jobStack' = jobStack /\ UNCHANGED <<jobStatus, iterations, activated, limit>>
    BY <1>14 DEF schedVars, jobVars, history
  <2> QED
    BY <1>1, <1>2, <2>1, RunSame
<1>15. CASE Settings
  BY <1>1, <1>9, <1>10, <1>11, <1>12, <1>13, <1>15, RunStatus DEF Settings
<1>16. CASE Looping
  BY <1>1, <1>5, <1>6, <1>9, <1>16, RunStart, RunSwept DEF Looping
<1> QED
  BY <1>3, <1>4, <1>7, <1>8, <1>9, <1>14, <1>15, <1>16 DEF JobNext, JobReturns

\* As long as the status of jobs is set at top level only, the list, the marks
\* and the counts agree with what runs: no job is lost or doubled, no script is
\* entered again while it is suspended, and none runs more often than its
\* iterations say.
THEOREM JobsCorrect == StatusKept => (JobSpec => []JobsConsistent)
<1> SUFFICES ASSUME StatusKept PROVE JobSpec => []JobsConsistent
  OBVIOUS
<1>1. JobInit => Base /\ RunInv
  BY BaseInit, RunInit
<1>2. Base /\ RunInv /\ [JobNext]_schedVars => (Base /\ RunInv)'
  BY BaseStep, RunStep
<1>3. Base /\ RunInv => JobsConsistent
  BY DEF Base, Entries, Living, RunInv, Marked, Active, InFrame, CountsOK, JobsConsistent,
     ListConsistent, IterationsRespected
<1> QED
  BY <1>1, <1>2, <1>3, PTL DEF JobSpec

-----------------------------------------------------------------------------
(* Freed jobs.                                                             *)

\* No job has an exit command, and every job has an error command.
Guarded == ExitJobs = {} /\ Jobs \subseteq ErrorJobs

Unfreed == ~jobWild /\ \A i \in DOMAIN jobStack : jobStack[i].kind # "exit"

\* No exit command starts when a frame moves on,
LEMMA NoExitGoto ==
    ASSUME Base, Unfreed, NEW kind \in JobKinds \ {"exit"}, NEW j \in Jobs \cup {NoJob},
           JobTop.kind # "none", jobStack' = Goto(kind, j)
    PROVE  \A i \in DOMAIN jobStack' : jobStack'[i].kind # "exit"
<1>1. jobStack \in Seq(JobFrame)
  BY DEF Base, JobTypeOK
<1>2. jobStack # <<>> /\ Len(jobStack) \in DOMAIN jobStack
  BY <1>1, TopFacts
<1>3. /\ DOMAIN jobStack' = DOMAIN jobStack
      /\ \A i \in DOMAIN jobStack : i # Len(jobStack) => jobStack'[i] = jobStack[i]
  BY <1>1, <1>2, GotoFacts, ZenonT(30)
<1>4. jobStack'[Len(jobStack)] = [kind |-> kind, job |-> j, age |-> jobStack[Len(jobStack)].age]
  BY <1>1, <1>2, GotoFacts
<1> QED
  BY <1>3, <1>4 DEF Unfreed

\* when a function is called,
LEMMA NoExitPush ==
    ASSUME Base, Unfreed, NEW kind \in JobKinds \ {"exit"}, NEW j \in Jobs \cup {NoJob},
           jobStack' = Push(kind, j)
    PROVE  \A i \in DOMAIN jobStack' : jobStack'[i].kind # "exit"
<1>1. jobStack \in Seq(JobFrame)
  BY DEF Base, JobTypeOK
<1>2. Len(jobStack) \in Nat /\ DOMAIN jobStack = 1 .. Len(jobStack)
  BY <1>1
<1>3. /\ DOMAIN jobStack' = 1 .. Len(jobStack) + 1
      /\ \A i \in DOMAIN jobStack : jobStack'[i] = jobStack[i]
      /\ jobStack'[Len(jobStack) + 1] = [kind |-> kind, job |-> j, age |-> 0]
  BY <1>1, PushFacts
<1>4. \A i \in DOMAIN jobStack' : i \in DOMAIN jobStack \/ i = Len(jobStack) + 1
  BY <1>2, <1>3
<1> QED
  BY <1>3, <1>4 DEF Unfreed

\* or when one returns.
LEMMA NoExitPop ==
    ASSUME Base, Unfreed, JobTop.kind # "none", jobStack' = JobPop
    PROVE  \A i \in DOMAIN jobStack' : jobStack'[i].kind # "exit"
<1>1. jobStack \in Seq(JobFrame)
  BY DEF Base, JobTypeOK
<1>2. jobStack # <<>> /\ Len(jobStack) \in Nat /\ DOMAIN jobStack = 1 .. Len(jobStack)
  BY <1>1, TopFacts
<1>3. /\ DOMAIN jobStack' = 1 .. Len(jobStack) - 1
      /\ \A i \in 1 .. Len(jobStack) - 1 : jobStack'[i] = jobStack[i]
  BY <1>1, <1>2, PopFacts
<1> QED
  BY <1>2, <1>3 DEF Unfreed

\* The frame of a script holds its job, so only an error without an error command
\* and an exit command can meet a job that is gone.
LEMMA UnfreedStep == Guarded /\ Base /\ Unfreed /\ [JobNext]_schedVars => Unfreed'
<1> SUFFICES ASSUME Guarded, Base, Unfreed, [JobNext]_schedVars
             PROVE  Unfreed'
  OBVIOUS
<1>1. jobStack \in Seq(JobFrame) /\ FramesOK
  BY DEF Base, JobTypeOK
<1>2. JobTop.kind # "exit"
  <2>1. CASE JobTop.kind # "none"
    BY <1>1, <2>1, TopFacts DEF Unfreed
  <2> QED
    BY <2>1
<1>3. CASE Tick
  BY <1>3, TickStack DEF Unfreed, Tick
<1>4. CASE ScheduleProc \/ CmdSchedule
  BY <1>4, NoExitPush DEF ScheduleProc, CmdSchedule, Unfreed, JobKinds
<1>5. CASE PassDone
  BY <1>5, NoExitGoto DEF PassDone, Unfreed, JobKinds
<1>6. ASSUME NEW j \in Jobs, RunJob(j)
      PROVE  Unfreed'
  BY <1>6, NoExitGoto DEF RunJob, Unfreed, JobKinds, JobScriptKinds
<1>7. ASSUME NEW j \in Jobs, Sweep(j)
      PROVE  Unfreed'
  <2>1. jobStack' = jobStack /\ jobWild' = jobWild
    BY <1>7 DEF Sweep, Guarded
  <2> QED
    BY <2>1 DEF Unfreed
<1>8. CASE SweepDone
  BY <1>8, NoExitPop DEF SweepDone, Unfreed
<1>9. CASE ExitReturn
  BY <1>2, <1>9 DEF ExitReturn
<1>10. ASSUME NEW code \in Codes, ScriptReturn(code)
       PROVE  Unfreed'
  <2>1. JobTop.kind \in {"run", "error"}
    BY <1>10 DEF ScriptReturn
  <2>2. JobTop.job \in Jobs /\ JobHeld(JobTop.job)
    BY <1>1, <2>1, TopFacts, SMTT(60) DEF FramesOK, JobScriptKinds, JobHeld
  <2>3. ~JobFreed(JobTop.job) /\ JobTop.job \in ErrorJobs
    BY <2>2, SMTT(60) DEF JobFreed, Guarded
  <2>4. /\ jobWild' = jobWild
        /\ jobStack' = Goto("error", JobTop.job) \/ jobStack' = Goto("pass", NoJob)
    BY <1>10, <2>3 DEF ScriptReturn
  <2> QED
    BY <2>1, <2>2, <2>4, NoExitGoto, SMTT(60) DEF Unfreed, JobKinds, JobScriptKinds
<1>11. CASE Settings
  <2>1. CASE \E j \in Jobs : Wait("wait", j)
    <3>1. (\E j \in Jobs : jobStack' = Push("wait", j)) /\ jobWild' = jobWild
      BY <2>1 DEF Wait
    <3> QED
      BY <3>1, NoExitPush DEF Unfreed, JobKinds, JobWaitKinds
  <2>2. CASE ~ \E j \in Jobs : Wait("wait", j)
    <3>1. jobStack' = jobStack /\ jobWild' = jobWild
      BY <1>11, <2>2, SMTT(60) DEF Settings, CreateJob, SetStatus, SetInterval, SetIterations, GetTime,
         JobDestroy, DeleteProc
    <3> QED
      BY <3>1, SMTT(60) DEF Unfreed
  <2> QED
    BY <2>1, <2>2
<1>12. CASE Wait("waitall", NoJob)
  BY <1>12, NoExitPush DEF Wait, Unfreed, JobKinds, JobWaitKinds
<1>13. CASE WaitReturn
  BY <1>13, NoExitPop DEF WaitReturn, JobWaitKinds, Unfreed
<1>14. CASE UNCHANGED schedVars
  BY <1>14 DEF schedVars, Unfreed
<1> QED
  BY <1>3, <1>4, <1>5, <1>6, <1>7, <1>8, <1>9, <1>10, <1>11, <1>12, <1>13, <1>14
  DEF JobNext, Looping, JobReturns

\* Without exit commands, and with an error command for every job, Schedule() does
\* not use a job that was freed, whatever is deleted while its script runs.
THEOREM PreserveSuffices == Guarded => (JobSpec => []JobNoUseAfterFree)
<1> SUFFICES ASSUME Guarded PROVE JobSpec => []JobNoUseAfterFree
  OBVIOUS
<1>1. JobInit => Unfreed
  BY DEF JobInit, Unfreed
<1>2. Base /\ Unfreed /\ [JobNext]_schedVars => Unfreed'
  BY UnfreedStep
<1>3. Unfreed => JobNoUseAfterFree
  BY DEF Unfreed, JobNoUseAfterFree
<1> QED
  BY <1>1, <1>2, <1>3, BaseInit, BaseStep, PTL DEF JobSpec
=============================================================================
