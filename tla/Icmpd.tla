------------------------------- MODULE Icmpd --------------------------------
(***************************************************************************)
(* nmicmpd, the ICMP helper process.  It reads jobs from a pipe, probes    *)
(* their targets within a window, repeats probes that are not answered,    *)
(* and writes one answer per job to a second pipe, without blocking.       *)
(*                                                                         *)
(* The network may lose, delay and duplicate: an answer to a probe may     *)
(* arrive at any time after it was sent, any number of times.  Time is     *)
(* counted in ticks and only compared with the retry interval of a job, so *)
(* every time value saturates just above the longest one.                  *)
(***************************************************************************)
EXTENDS Integers, Sequences, FiniteSets, SequencesExt

CONSTANTS
    Jobs,        \* jobs, each submitted at most once
    Windows,     \* values of job->window (0 is no window)
    Retries,     \* values of job->u.c.retries
    Timeout,     \* job->u.c.timeout in ticks
    Delay,       \* job->u.c.delay in ticks, 0 or 1
    OutSize,     \* capacity of the pipe for answers
    Faults       \* a subset of {"size", "send"}: rejected jobs, failing sendto()

ASSUME IcmpdAssumption ==
    /\ Windows \subseteq Nat /\ Windows # {}
    /\ Retries \subseteq Nat /\ Retries # {}
    /\ Timeout \in Nat /\ Delay \in {0, 1}
    /\ OutSize \in Nat \ {0}

VARIABLES
    input,      \* jobs in the pipe to the daemon
    closed,     \* the other end of that pipe was closed
    conf,       \* window, retries and validity of a submitted job
    jobList,    \* job_list, newest first
    inServe, probes, done,   \* job->inServe, job->probe_cnt, job->done/status
    counter,    \* the counter of GetWindow()
    eofSeen,    \* eof_seen
    pc, pos,    \* place in DoOneEvent(): position of SendPending() in job_list
    lag,        \* time since SendPending() read the clock
    seen,       \* time between that reading and job->time_sent
    age,        \* true time since the last probe
    waited,     \* history: time since the first probe
    output      \* answers in the pipe from the daemon

pipeVars == <<input, closed, conf, output>>
jobVars == <<jobList, inServe, probes, done, counter>>
timeVars == <<lag, seen, age, waited>>
vars == <<pipeVars, jobVars, eofSeen, pc, pos, timeVars>>

Never == Timeout + 1
Later(t) == IF t < Never THEN t + 1 ELSE t

Listed == Range(jobList)
Known == DOMAIN conf
Ival(j) == Timeout \div (conf[j].retries + 1)
Serving == {j \in Listed : inServe[j]}

-----------------------------------------------------------------------------
(* The other end of the pipes, and the clock.                              *)

Submit(j, c) ==
    /\ ~closed
    /\ j \notin Known
    /\ c.valid \/ "size" \in Faults
    /\ input' = Append(input, j)
    /\ conf' = [k \in Known \cup {j} |-> IF k = j THEN c ELSE conf[k]]
    /\ UNCHANGED <<closed, output, jobVars, eofSeen, pc, pos, timeVars>>

CloseInput ==
    /\ ~closed
    /\ closed' = TRUE
    /\ UNCHANGED <<input, conf, output, jobVars, eofSeen, pc, pos, timeVars>>

Deliver ==
    /\ output # <<>>
    /\ output' = Tail(output)
    /\ UNCHANGED <<input, closed, conf, jobVars, eofSeen, pc, pos, timeVars>>

\* Time passes in select(), here and in ReceivePending().
Tick ==
    /\ pc = "select" \/ (pc = "delay" /\ Delay > 0)
    /\ age' = [j \in Jobs |-> IF j \in Listed THEN Later(age[j]) ELSE age[j]]
    /\ waited' = [j \in Jobs |-> IF j \in Listed /\ probes[j] > 0
                                 THEN Later(waited[j]) ELSE waited[j]]
    /\ lag' = IF pc = "delay" THEN Later(lag) ELSE lag
    /\ pc' = IF pc = "delay" THEN "scan" ELSE pc
    /\ UNCHANGED <<pipeVars, jobVars, eofSeen, pos, seen>>

-----------------------------------------------------------------------------
(* Answers.                                                                *)

\* Jobs that left the list are forgotten.
Forget(gone) ==
    /\ inServe' = [j \in Jobs |-> inServe[j] /\ j \notin gone]
    /\ probes' = [j \in Jobs |-> IF j \in gone THEN 0 ELSE probes[j]]
    /\ age' = [j \in Jobs |-> IF j \in gone THEN Never ELSE age[j]]
    /\ waited' = [j \in Jobs |-> IF j \in gone THEN 0 ELSE waited[j]]

\* Mutant: answers are written with a blocking write.
MutCleanupBlocks(dn) ==
    LET finished == SelectSeq(jobList, LAMBDA j : dn[j] # "no")
    IN /\ Len(finished) <= OutSize - Len(output)
       /\ output' = output \o finished
       /\ jobList' = SelectSeq(jobList, LAMBDA j : dn[j] = "no")
       /\ counter' = counter - Len(finished)
       /\ Forget(Range(finished))

\* CleanupJobs(): answer finished jobs in the order of the list, as long as
\* the pipe takes the answers; the others stay (EWOULDBLOCK).
CleanupJobs(dn) ==
    LET finished == SelectSeq(jobList, LAMBDA j : dn[j] # "no")
        room == OutSize - Len(output)
        answered == SubSeq(finished, 1, IF Len(finished) < room THEN Len(finished) ELSE room)
    IN /\ output' = output \o answered
       /\ jobList' = SelectSeq(jobList, LAMBDA j : j \notin Range(answered))
       /\ counter' = counter - Len(answered)
       /\ Forget(Range(answered))

\* FindJobById(), FindJobByPort(): the job whose probe is answered.
FindJob(j) == j \in Listed /\ probes[j] > 0

\* ReceivePacket(): an answer to a probe of a listed job that is not done;
\* all others are discarded.
ReceivePacket(j) ==
    /\ pc \in {"select", "delay"}
    /\ FindJob(j) /\ done[j] = "no"
    /\ done' = [done EXCEPT ![j] = "ok"]
    /\ CleanupJobs(done')
    /\ UNCHANGED <<input, closed, conf, eofSeen, pc, pos, lag, seen>>

-----------------------------------------------------------------------------
(* DoOneEvent().                                                           *)

Running == pc = "select" /\ ~(eofSeen /\ jobList = <<>>)

\* The clock is read once, at the start of SendPending().
StartSendPending ==
    /\ pc' = "scan"
    /\ seen' = age
    /\ UNCHANGED <<pos, lag, age, waited>>

\* ReadJob(): a rejected job is put into the list as well.
ReadJob ==
    /\ Running
    /\ input # <<>>
    /\ LET j == Head(input) IN
       /\ input' = Tail(input)
       /\ jobList' = <<j>> \o jobList
       /\ done' = [done EXCEPT ![j] = IF conf[j].valid THEN "no" ELSE "error"]
       /\ inServe' = [inServe EXCEPT ![j] = conf[j].window = 0]
       /\ counter' = IF conf[j].window = 0 THEN counter + 1 ELSE counter
    /\ StartSendPending
    /\ UNCHANGED <<closed, conf, output, probes, eofSeen>>

ReadEof ==
    /\ Running
    /\ input = <<>> /\ closed
    /\ eofSeen' = TRUE
    /\ StartSendPending
    /\ UNCHANGED <<pipeVars, jobVars>>

\* select() returns for a packet or because of its timeout, and not for input.
WakeUp ==
    /\ Running
    /\ jobList # <<>> /\ input = <<>> /\ ~closed
    /\ StartSendPending
    /\ UNCHANGED <<pipeVars, jobVars, eofSeen>>

Exit ==
    /\ pc = "select"
    /\ eofSeen /\ jobList = <<>>
    /\ pc' = "exit"
    /\ UNCHANGED <<pipeVars, jobVars, eofSeen, pos, timeVars>>

\* GetWindow() returns an unsigned short.
GetWindow == counter % 65536

\* The job is or enters in service.
Enters(j) == inServe[j] \/ conf[j].window > GetWindow

InService(j) ==
    /\ inServe' = [inServe EXCEPT ![j] = Enters(j)]
    /\ counter' = IF Enters(j) /\ ~inServe[j] THEN counter + 1 ELSE counter

TriesLeft(j) == probes[j] <= conf[j].retries + 1
SendDue(j) == done[j] = "no" /\ TriesLeft(j) /\ seen[j] > Ival(j)
GiveUp(j) == done[j] = "no" /\ ~TriesLeft(j)

\* sendto() may fail.
SendPacket(j) ==
    \/ done' = done
    \/ "send" \in Faults /\ done' = [done EXCEPT ![j] = "error"]

\* Mutant: the retry interval is not observed.
MutSendProbe ==
    /\ pc = "scan" /\ pos <= Len(jobList)
    /\ LET j == jobList[pos] IN
       /\ Enters(j) /\ done[j] = "no" /\ TriesLeft(j)
       /\ InService(j)
       /\ probes' = [probes EXCEPT ![j] = @ + 1]
       /\ age' = [age EXCEPT ![j] = 0]
       /\ seen' = [seen EXCEPT ![j] = lag]
       /\ done' = done
    /\ pc' = "delay"
    /\ pos' = 1
    /\ UNCHANGED <<pipeVars, jobList, eofSeen, lag, waited>>

\* SendIcmp() and SendTrace(): one probe, which may fail.  ReceivePending()
\* follows for the time of the delay, then the list is walked from the start.
SendProbe ==
    /\ pc = "scan" /\ pos <= Len(jobList)
    /\ LET j == jobList[pos] IN
       /\ Enters(j) /\ SendDue(j)
       /\ InService(j)
       /\ probes' = [probes EXCEPT ![j] = @ + 1]
       /\ age' = [age EXCEPT ![j] = 0]
       /\ seen' = [seen EXCEPT ![j] = lag]
       /\ SendPacket(j)
    /\ pc' = "delay"
    /\ pos' = 1
    /\ UNCHANGED <<pipeVars, jobList, eofSeen, lag, waited>>

\* ReceivePending(0) returns at once.
NoDelay ==
    /\ pc = "delay"
    /\ Delay = 0
    /\ pc' = "scan"
    /\ UNCHANGED <<pipeVars, jobVars, eofSeen, pos, timeVars>>

GiveUpJob ==
    /\ pc = "scan" /\ pos <= Len(jobList)
    /\ LET j == jobList[pos] IN
       /\ Enters(j) /\ GiveUp(j)
       /\ InService(j)
       /\ done' = [done EXCEPT ![j] = "timeout"]
    /\ pos' = 1
    /\ UNCHANGED <<pipeVars, jobList, probes, eofSeen, pc, timeVars>>

NextJob ==
    /\ pc = "scan" /\ pos <= Len(jobList)
    /\ LET j == jobList[pos] IN
       /\ ~(Enters(j) /\ (SendDue(j) \/ GiveUp(j)))
       /\ InService(j)
    /\ pos' = pos + 1
    /\ UNCHANGED <<pipeVars, jobList, probes, done, eofSeen, pc, timeVars>>

\* The end of SendPending().
ScanDone ==
    /\ pc = "scan" /\ pos > Len(jobList)
    /\ CleanupJobs(done)
    /\ pc' = "select"
    /\ pos' = 1
    /\ lag' = 0
    /\ seen' = [j \in Jobs |-> Never]
    /\ UNCHANGED <<input, closed, conf, done, eofSeen>>

-----------------------------------------------------------------------------
Confs == [window : Windows, retries : Retries, valid : BOOLEAN]

Init ==
    /\ input = <<>> /\ output = <<>>
    /\ closed = FALSE
    /\ conf = <<>>
    /\ jobList = <<>>
    /\ inServe = [j \in Jobs |-> FALSE]
    /\ probes = [j \in Jobs |-> 0]
    /\ done = [j \in Jobs |-> "no"]
    /\ counter = 0
    /\ eofSeen = FALSE
    /\ pc = "select" /\ pos = 1
    /\ lag = 0
    /\ seen = [j \in Jobs |-> Never]
    /\ age = [j \in Jobs |-> Never]
    /\ waited = [j \in Jobs |-> 0]

Scan == SendProbe \/ NoDelay \/ GiveUpJob \/ NextJob \/ ScanDone
Event == ReadJob \/ ReadEof \/ WakeUp \/ Exit
Daemon == Scan \/ Event \/ Tick \/ \E j \in Jobs : ReceivePacket(j)

Next ==
    \/ Daemon
    \/ \E j \in Jobs, c \in Confs : Submit(j, c)
    \/ CloseInput
    \/ Deliver

Spec == Init /\ [][Next]_vars

\* The daemon runs, the other side reads answers, and time does not stand
\* still however often the daemon goes through its loop.
Fairness == WF_vars(Scan) /\ WF_vars(Event) /\ WF_vars(Deliver) /\ SF_vars(Tick)
FairSpec == Spec /\ Fairness

-----------------------------------------------------------------------------
(* Properties.                                                             *)

TypeOK ==
    /\ input \in Seq(Jobs) /\ output \in Seq(Jobs) /\ jobList \in Seq(Jobs)
    /\ Len(output) <= OutSize
    /\ Known \subseteq Jobs /\ \A j \in Known : conf[j] \in Confs
    /\ inServe \in [Jobs -> BOOLEAN]
    /\ probes \in [Jobs -> Nat]
    /\ done \in [Jobs -> {"no", "ok", "timeout", "error"}]
    /\ counter \in Int
    /\ pc \in {"select", "scan", "delay", "exit"}
    /\ pos \in 1 .. Len(jobList) + 1 \/ pc # "scan"
    /\ lag \in 0 .. Never
    /\ {seen, age, waited} \subseteq [Jobs -> 0 .. Never]

\* Every job is in at most one place, once, on its way from the command pipe
\* through the job list to the answer pipe; in particular it is answered once.
OnePlace ==
    LET trip == input \o jobList \o output
    IN \A i, k \in DOMAIN trip : trip[i] = trip[k] => i = k

\* The counter of GetWindow() is the number of jobs in service.
CounterMatches == counter = Cardinality(Serving)

\* "no more than size ICMP requests are on the wire": a job enters service
\* only if it finds room in its window.
WindowRespected ==
    [][\A j \in Jobs : ~inServe[j] /\ inServe'[j] /\ conf[j].window > 0 =>
          Cardinality({k \in Range(jobList') : inServe'[k]}) <= conf[j].window]_vars

\* "defines the time the Tnm::icmp command will wait for a response": no job
\* is given up before its timeout has passed since its first probe.
TimeoutNotEarly ==
    [][\A j \in Known : done[j] = "no" /\ done'[j] = "timeout" =>
          waited[j] >= Ival(j) * (conf[j].retries + 1)]_vars

\* "Send a packet if the we have a try left and a timeout reached": a probe is
\* not repeated before its retry interval has passed.
RetriesSpaced ==
    [][\A j \in Known : probes[j] > 0 /\ probes'[j] > probes[j] => age[j] > Ival(j)]_vars

\* Jobs are kept track of, and the three rules of SendPending() for their probes
\* are observed.
ProbeDiscipline ==
    []OnePlace /\ []CounterMatches /\ WindowRespected /\ TimeoutNotEarly /\ RetriesSpaced

\* Every job that is sent to the daemon is answered, although jobs wait for
\* room in the window and answers for room in the pipe.
Answered == \A j \in Jobs : j \in Known ~> j \in Known \ (Range(input) \cup Listed)
=============================================================================
