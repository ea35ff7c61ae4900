----------------------------- MODULE MCDaemons ------------------------------
(***************************************************************************)
(* Tnm and the processes it works with: nmicmpd behind the icmp command,   *)
(* nmtrapd behind the SNMP listeners.  They share no state: a behaviour    *)
(* exercises one of them.                                                  *)
(***************************************************************************)
EXTENDS IcmpClient, TrapDaemon

CONSTANT DaemonJobs     \* the jobs nmicmpd gets without the icmp command

VARIABLE which          \* the component whose steps a behaviour takes

DaemonsInit ==
    /\ which \in {"nmicmpd", "icmp", "traps"}
    /\ ClientInit /\ TrapInit
    /\ which # "icmp" => option.window = 0 /\ option.retries = 0

\* nmicmpd alone, given jobs by any process and with sends that may fail; and
\* the command with its nmicmpd, which may die, where no send fails; it retries
\* only within a window.
NmicmpdStep == Next /\ DOMAIN conf' \subseteq DaemonJobs /\ UNCHANGED clientVars
IcmpStep ==
    /\ ClientNext
    /\ \A j \in Jobs : done'[j] # "error"
    /\ option'.retries <= option'.window

DaemonsNext ==
    /\ UNCHANGED which
    /\ \/ which = "nmicmpd" /\ NmicmpdStep /\ UNCHANGED trapVars
       \/ which = "icmp" /\ IcmpStep /\ UNCHANGED trapVars
       \/ which = "traps" /\ TrapNext /\ UNCHANGED allVars

IcmpdRuns == which = "nmicmpd" \/ (which = "icmp" /\ channel)

\* The fairness of IcmpClient and of Icmpd; nmtrapd runs, and the processes it
\* serves return to their event loops.
DaemonsSpec ==
    /\ DaemonsInit
    /\ [][DaemonsNext]_<<allVars, trapVars, which>>
    /\ WF_allVars(which = "icmp" /\ Client)
    /\ WF_allVars(which = "nmicmpd" /\ Deliver /\ UNCHANGED clientVars)
    /\ WF_allVars(IcmpdRuns /\ Scan /\ UNCHANGED clientVars)
    /\ WF_allVars(IcmpdRuns /\ Event /\ UNCHANGED clientVars)
    /\ SF_allVars(IcmpdRuns /\ Tick /\ UNCHANGED clientVars)
    /\ WF_trapVars(which = "traps" /\ DaemonNext)
    /\ \A p \in Procs :
          WF_trapVars(which = "traps" /\ \E c \in DOMAIN conns : TrapProc(p, c))

-----------------------------------------------------------------------------
\* Every icmp command returns, and nmicmpd, used without the command, answers
\* every job although jobs wait for room in the window, answers for room in the
\* pipe, and sends fail.
ProbesServed ==
    /\ CommandReturns
    /\ \A j \in DaemonJobs :
          which = "nmicmpd" /\ j \in Known ~> j \in Known \ (Range(input) \cup Listed)
=============================================================================
