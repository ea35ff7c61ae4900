----------------------------- MODULE IcmpClient -----------------------------
(***************************************************************************)
(* The icmp command and the daemon behind it: TnmIcmp() starts nmicmpd,    *)
(* writes the requests for all targets of a command, and only then reads   *)
(* one answer per target.  Both pipes are finite.  The daemon may die at   *)
(* any time (SetCpuLimit(), a failing select()); the next command starts a *)
(* new one.  Targets are numbered in the order of their transaction ids.   *)
(***************************************************************************)
EXTENDS Icmpd

CONSTANTS
    InSize,      \* capacity of the pipe for requests
    MaxTargets   \* targets of one command

ASSUME ClientAssumption ==
    /\ Jobs = 1 .. Cardinality(Jobs)
    /\ InSize \in Nat \ {0} /\ MaxTargets \in Nat \ {0}

VARIABLES
    channel,    \* the pipes to the daemon are open
    phase,      \* place in TnmIcmp()
    first, last,    \* the targets of the command are first .. last
    option,     \* the options of the command
    written, taken,  \* requests written, answers read
    status,     \* targetPtr->status, "unset" before an answer
    code        \* the result of the last command

clientVars == <<channel, phase, first, last, option, written, taken, status, code>>
allVars == <<vars, clientVars>>

Targets == first .. last

-----------------------------------------------------------------------------
\* ForkDaemon(): a fresh daemon with empty pipes.
ForkDaemon ==
    /\ channel' = TRUE
    /\ input' = <<>> /\ output' = <<>> /\ jobList' = <<>>
    /\ inServe' = [j \in Jobs |-> FALSE]
    /\ probes' = [j \in Jobs |-> 0]
    /\ counter' = 0
    /\ pc' = "select" /\ pos' = 1
    /\ lag' = 0
    /\ seen' = [j \in Jobs |-> Never]
    /\ age' = [j \in Jobs |-> Never]
    /\ waited' = [j \in Jobs |-> 0]
    /\ UNCHANGED <<closed, conf, done, eofSeen>>

\* Tnm_IcmpObjCmd(), IcmpRequest(): a command with n targets.
Command(n, c) ==
    /\ phase = "idle"
    /\ last + n \in Jobs
    /\ phase' = "write"
    /\ first' = last + 1 /\ last' = last + n
    /\ option' = c
    /\ written' = 0 /\ taken' = 0
    /\ status' = [j \in Jobs |-> "unset"]
    /\ code' = "none"
    /\ \/ channel /\ UNCHANGED <<vars, channel>>
       \/ ~channel /\ ForkDaemon

\* A request is written; Tcl_Write() blocks while the pipe is full.
WriteRequest ==
    /\ phase = "write" /\ written < last + 1 - first
    /\ pc # "exit"
    /\ Len(input) < InSize
    /\ Submit(first + written, option)
    /\ written' = written + 1
    /\ UNCHANGED <<channel, phase, first, last, option, taken, status, code>>

RequestsWritten ==
    /\ phase = "write" /\ written = last + 1 - first
    /\ phase' = "read"
    /\ UNCHANGED <<vars, channel, first, last, option, written, taken, status, code>>

Finish(c) == phase' = "idle" /\ code' = c

\* KillDaemon()
KillDaemon == channel' = FALSE /\ UNCHANGED vars

\* The daemon is gone: EPIPE, or a short read once all answers were read.
DaemonGone ==
    /\ pc = "exit"
    /\ \/ phase = "write" /\ written < last + 1 - first
       \/ phase = "read" /\ taken < last + 1 - first /\ output = <<>>
    /\ KillDaemon
    /\ Finish("error")
    /\ UNCHANGED <<first, last, option, written, taken, status>>

\* Mutant: the first answer ends the command.
MutReadAnswer ==
    /\ phase = "read" /\ taken < last + 1 - first
    /\ Deliver
    /\ taken' = last + 1 - first
    /\ status' = [status EXCEPT ![Head(output)] = done[Head(output)]]
    /\ UNCHANGED <<channel, phase, first, last, option, written, code>>

\* An answer is read and stored with its target, if it is one of this command.
\* After an error the command fails without reading the remaining answers.
ReadAnswer ==
    /\ phase = "read" /\ taken < last + 1 - first
    /\ Deliver
    /\ taken' = taken + 1
    /\ LET j == Head(output) IN
       \/ /\ done[j] = "error"
          /\ Finish("error")
          /\ UNCHANGED status
       \/ /\ done[j] # "error"
          /\ status' = IF j \in Targets THEN [status EXCEPT ![j] = done[j]] ELSE status
          /\ UNCHANGED <<phase, code>>
    /\ UNCHANGED <<channel, first, last, option, written>>

AnswersRead ==
    /\ phase = "read" /\ taken = last + 1 - first
    /\ Finish("ok")
    /\ UNCHANGED <<vars, channel, first, last, option, written, taken, status>>

\* The daemon dies.
Crash ==
    /\ "crash" \in Faults
    /\ channel /\ pc # "exit"
    /\ pc' = "exit"
    /\ UNCHANGED <<pipeVars, jobVars, eofSeen, pos, timeVars, clientVars>>

-----------------------------------------------------------------------------
Options == [window : Windows, retries : Retries, valid : {TRUE}]

ClientInit ==
    /\ Init
    /\ channel = FALSE
    /\ phase = "idle"
    /\ first = 1 /\ last = 0
    /\ option \in Options
    /\ written = 0 /\ taken = 0
    /\ status = [j \in Jobs |-> "unset"]
    /\ code = "none"

Client == WriteRequest \/ RequestsWritten \/ DaemonGone \/ ReadAnswer \/ AnswersRead

ClientNext ==
    \/ channel /\ Daemon /\ UNCHANGED clientVars
    \/ Client
    \/ Crash
    \/ \E n \in 1 .. MaxTargets, c \in Options : Command(n, c)

ClientSpec ==
    /\ ClientInit
    /\ [][ClientNext]_allVars
    /\ WF_allVars(Client)
    /\ WF_allVars(channel /\ Scan /\ UNCHANGED clientVars)
    /\ WF_allVars(channel /\ Event /\ UNCHANGED clientVars)
    /\ SF_allVars(channel /\ Tick /\ UNCHANGED clientVars)

-----------------------------------------------------------------------------
(* Properties.                                                             *)

\* "The command returns a flat list of host / round trip time pairs ... An
\* empty round trip time value indicates that a host did not respond": a
\* command that succeeds has read the answer for every one of its targets.
AnswerPerTarget == code = "ok" => \A j \in Targets : status[j] \in {"ok", "timeout"}

\* Between commands a living daemon has no work and the pipes are empty, so
\* that a command never reads an answer of an earlier one.
PipesDrained ==
    phase = "idle" /\ channel /\ pc # "exit" =>
        input = <<>> /\ jobList = <<>> /\ output = <<>>

\* No answer is missed by its command, and none is left for the next one.
AnswersKept == AnswerPerTarget /\ PipesDrained

\* Every command returns, also if the daemon dies, and although the command
\* does not read answers while it writes requests to a pipe that may be full.
CommandReturns == phase # "idle" ~> phase = "idle"
=============================================================================
