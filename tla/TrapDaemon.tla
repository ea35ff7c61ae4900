---------------------------- MODULE TrapDaemon ----------------------------
(***************************************************************************)
(* How SNMP traps reach the listeners (tnm/unix/nmtrapd.c and              *)
(* tnm/unix/tnmUnixSnmp.c).  The daemon nmtrapd owns the trap port and     *)
(* copies every trap to the processes connected to it; a process holds at  *)
(* most one connection of its own making at a time, shared by its          *)
(* listeners, and starts the daemon when there is none.  Traps are         *)
(* numbered in the order in which the daemon reads them.                   *)
(***************************************************************************)
EXTENDS Naturals, Sequences, FiniteSets

CONSTANTS
    Procs,              \* the processes that may listen
    MaxListeners,       \* the most listeners a process opens at a time
    MaxConns,           \* the most connections made
    MaxTraps,           \* the most traps sent
    Room,               \* the traps a connection holds before a write blocks
    Attempts            \* the attempts to connect to a daemon just started

ASSUME TrapDaemonAssumption == {MaxListeners, MaxConns, MaxTraps, Room, Attempts} \subseteq Nat

VARIABLES
    tproc,              \* the state of each process
    conns,              \* the connections to the daemon, oldest first
    daemon,             \* the state of the daemon
    trapPort,           \* traps waiting at the trap port and at the multicast port
    trapsSent

trapVars == <<tproc, conns, daemon, trapPort, trapsSent>>

Down == [at |-> "down", todo |-> {}, nread |-> 0, goOn |-> 1]
TrapInit ==
    /\ tproc = [p \in Procs |-> [listeners |-> 0, channel |-> 0, at |-> "idle", left |-> 0]]
    /\ conns = <<>>
    /\ daemon = Down
    /\ trapPort = [trap_s |-> 0, mcast_s |-> 0]
    /\ trapsSent = 0

\* cl_addr: the connections the daemon has accepted and not closed.
Clients == {c \in DOMAIN conns : conns[c].server = "client"}
Pending == {c \in DOMAIN conns : conns[c].server = "pending"}

---------------------------------------------------------------------------
(* The process.                                                            *)

Connect(p) ==
    conns' = Append(conns, [proc |-> p, refs |-> 1, open |-> TRUE, server |-> "pending",
                            queue |-> <<>>, got |-> <<>>, first |-> 0])

ForkTrapDaemon == daemon' = [daemon EXCEPT !.at = "starting"]

\* Without a channel and without a daemon one is forked and the process
\* sleeps, trying to connect once a second.
TnmSnmpNmtrapdOpen(p) ==
    /\ tproc[p].at = "idle" /\ tproc[p].listeners < MaxListeners
    /\ IF tproc[p].channel # 0
       THEN /\ conns' = [conns EXCEPT ![tproc[p].channel].refs = @ + 1]
            /\ tproc' = [tproc EXCEPT ![p].listeners = @ + 1]
            /\ UNCHANGED daemon
       ELSE /\ Len(conns) < MaxConns
            /\ IF daemon.at \notin {"down", "starting"}
               THEN /\ Connect(p)
                    /\ tproc' = [tproc EXCEPT ![p].listeners = @ + 1,
                                              ![p].channel = Len(conns) + 1]
                    /\ UNCHANGED daemon
               ELSE /\ ForkTrapDaemon
                    /\ tproc' = [tproc EXCEPT ![p].at = "trying", ![p].left = Attempts]
                    /\ UNCHANGED conns
    /\ UNCHANGED <<trapPort, trapsSent>>

Retry(p) ==
    /\ tproc[p].at = "trying"
    /\ IF daemon.at \notin {"down", "starting"} /\ Len(conns) < MaxConns
       THEN /\ Connect(p)
            /\ tproc' = [tproc EXCEPT ![p].at = "idle", ![p].listeners = @ + 1,
                                      ![p].channel = Len(conns) + 1]
       ELSE /\ tproc' = [tproc EXCEPT ![p].left = @ - 1,
                                      ![p].at = IF tproc[p].left = 1 THEN "idle" ELSE @]
            /\ UNCHANGED conns
    /\ UNCHANGED <<daemon, trapPort, trapsSent>>

\* The channel is forgotten whether or not a listener still uses it; it is
\* closed with the last of its references.
Unregister(cs, c) ==
    [cs EXCEPT ![c].refs = @ - 1, ![c].open = @ /\ cs[c].refs > 1,
               ![c].queue = IF cs[c].refs > 1 THEN @ ELSE <<>>]
TnmSnmpNmtrapdClose(p) ==
    /\ conns' = IF tproc[p].channel = 0 THEN conns ELSE Unregister(conns, tproc[p].channel)

\* The listener's session is destroyed.
CloseListener(p) ==
    /\ tproc[p].at = "idle" /\ tproc[p].listeners > 0
    /\ TnmSnmpNmtrapdClose(p)
    /\ tproc' = [tproc EXCEPT ![p].channel = 0, ![p].listeners = @ - 1]
    /\ UNCHANGED <<daemon, trapPort, trapsSent>>

\* A read of the channel: a trap, or the end of the connection.  The read
\* blocks while there is neither.
TrapRecv(p, c) ==
    \/ /\ conns[c].queue # <<>>
       /\ conns' = [conns EXCEPT ![c].queue = Tail(@), ![c].got = Append(@, Head(conns[c].queue))]
       /\ UNCHANGED tproc
    \/ /\ conns[c].queue = <<>> /\ conns[c].server = "closed"
       /\ TnmSnmpNmtrapdClose(p)
       /\ tproc' = [tproc EXCEPT ![p].channel = 0]

\* The handler of connection c reads the current channel, whichever it is; no
\* channel at all is the end of the process.
TrapProc(p, c) ==
    /\ tproc[p].at = "idle" /\ conns[c].proc = p /\ conns[c].open
    /\ conns[c].queue # <<>> \/ conns[c].server = "closed"
    /\ IF tproc[p].channel = 0
       THEN /\ tproc' = [tproc EXCEPT ![p].at = "dead"]
            /\ conns' = [d \in DOMAIN conns |->
                           IF conns[d].proc = p
                           THEN [conns[d] EXCEPT !.open = FALSE, !.queue = <<>>]
                           ELSE conns[d]]
       ELSE TrapRecv(p, tproc[p].channel)
    /\ UNCHANGED <<daemon, trapPort, trapsSent>>

---------------------------------------------------------------------------
(* The daemon.  Each turn of the loop serves one kind of event: a new      *)
(* connection, else a trap, else a multicast trap, else clients that have  *)
(* closed their end.                                                       *)

\* The daemon starts without clients and listens.
Start ==
    /\ daemon.at = "starting"
    /\ daemon' = [daemon EXCEPT !.at = "select", !.goOn = 1]
    /\ trapPort' = [trap_s |-> 0, mcast_s |-> 0]
    /\ UNCHANGED <<tproc, conns, trapsSent>>

Looping == daemon.at = "select" /\ daemon.goOn > 0

Accept ==
    /\ Looping /\ Pending # {}
    /\ LET c == CHOOSE c \in Pending : \A d \in Pending : c <= d
       IN  conns' = [conns EXCEPT ![c].server = "client", ![c].first = daemon.nread + 1]
    /\ UNCHANGED <<tproc, daemon, trapPort, trapsSent>>

RecvTrap ==
    /\ Looping /\ Pending = {}
    /\ LET s == IF trapPort.trap_s > 0 THEN "trap_s" ELSE "mcast_s"
       IN  trapPort[s] > 0 /\ trapPort' = [trapPort EXCEPT ![s] = @ - 1]
    /\ daemon' = [daemon EXCEPT !.at = "forward", !.todo = Clients, !.nread = @ + 1]
    /\ UNCHANGED <<tproc, conns, trapsSent>>

MutForwardTrap(c, ok) ==
    /\ daemon.at = "forward" /\ c = CHOOSE d \in daemon.todo : \A e \in daemon.todo : d <= e
    /\ conns[c].open => ok
    /\ conns' = IF ~ ok THEN [conns EXCEPT ![c].server = "closed"]
                ELSE IF conns[c].open /\ Len(conns[c].queue) < Room
                THEN [conns EXCEPT ![c].queue = Append(@, daemon.nread)]
                ELSE conns
    /\ daemon' = [daemon EXCEPT !.todo = @ \ {c}]
    /\ UNCHANGED <<tproc, trapPort, trapsSent>>

\* Clients are served in order and the write blocks while the connection is
\* full.  When the process has closed its end the write fails, or succeeds
\* and the trap is lost.
ForwardTrap(c, ok) ==
    /\ daemon.at = "forward" /\ c = CHOOSE d \in daemon.todo : \A e \in daemon.todo : d <= e
    /\ conns[c].open => ok /\ Len(conns[c].queue) < Room
    /\ conns' = IF ~ ok THEN [conns EXCEPT ![c].server = "closed"]
                ELSE IF conns[c].open
                THEN [conns EXCEPT ![c].queue = Append(@, daemon.nread)]
                ELSE conns
    /\ daemon' = [daemon EXCEPT !.todo = @ \ {c}]
    /\ UNCHANGED <<tproc, trapPort, trapsSent>>

\* The clients are counted after a trap.
Forwarded ==
    /\ daemon.at = "forward" /\ daemon.todo = {}
    /\ daemon' = [daemon EXCEPT !.at = "select", !.goOn = Cardinality(Clients)]
    /\ UNCHANGED <<tproc, conns, trapPort, trapsSent>>

CloseClients ==
    LET gone == {c \in Clients : ~ conns[c].open}
    IN  /\ Looping /\ Pending = {} /\ trapPort = [trap_s |-> 0, mcast_s |-> 0]
        /\ gone # {}
        /\ conns' = [c \in DOMAIN conns |->
                       IF c \in gone THEN [conns[c] EXCEPT !.server = "closed"] ELSE conns[c]]
        /\ daemon' = [daemon EXCEPT !.goOn = Cardinality(Clients \ gone)]
        /\ UNCHANGED <<tproc, trapPort, trapsSent>>

\* Connections that were never accepted are reset.
TrapExit ==
    /\ daemon.at = "select" /\ daemon.goOn = 0
    /\ daemon' = [daemon EXCEPT !.at = "down"]
    /\ conns' = [c \in DOMAIN conns |-> [conns[c] EXCEPT !.server = "closed"]]
    /\ trapPort' = [trap_s |-> 0, mcast_s |-> 0]
    /\ UNCHANGED <<tproc, trapsSent>>

\* External: a trap arrives; it is lost when there is no daemon.
SendTrap(s) ==
    /\ trapsSent < MaxTraps
    /\ trapsSent' = trapsSent + 1
    /\ trapPort' = IF daemon.at \in {"down", "starting"} THEN trapPort
                   ELSE [trapPort EXCEPT ![s] = @ + 1]
    /\ UNCHANGED <<tproc, conns, daemon>>

DaemonNext ==
    \/ Start
    \/ Accept
    \/ RecvTrap
    \/ \E c \in DOMAIN conns, ok \in BOOLEAN : daemon.todo # {} /\ ForwardTrap(c, ok)
    \/ Forwarded
    \/ CloseClients
    \/ TrapExit

TrapNext ==
    \/ \E p \in Procs : TnmSnmpNmtrapdOpen(p) \/ Retry(p) \/ CloseListener(p)
    \/ \E p \in Procs, c \in DOMAIN conns : TrapProc(p, c)
    \/ DaemonNext
    \/ \E s \in {"trap_s", "mcast_s"} : SendTrap(s)

TrapSpec == TrapInit /\ [][TrapNext]_trapVars

---------------------------------------------------------------------------
\* The traps a connection has brought, and those it still holds, are the
\* traps the daemon has read since it accepted the connection, each once and
\* in the order of reading, for as long as the process keeps the connection
\* and the daemon serves it: neither a slow process, which blocks the daemon
\* in the middle of its round, nor clients that come and go during a round
\* tear a hole (nmtrapd.c:403-507).
TrapsInOrder ==
    \A c \in Clients : conns[c].open =>
        LET held == conns[c].got \o conns[c].queue
            last == daemon.nread - (IF c \in daemon.todo THEN 1 ELSE 0)
        IN  /\ Len(held) = last + 1 - conns[c].first
            /\ \A i \in DOMAIN held : held[i] = conns[c].first + i - 1

\* With one listener per process, a trap the daemon has read is received by
\* every process it serves, unless that process closes its listener: the
\* daemon does not stay blocked on a process, and stops only when nobody is
\* connected (nmtrapd.c:465-504, tnmUnixSnmp.c:276).
TrapsReceived ==
    \A c \in 1..MaxConns, k \in 1..MaxTraps :
        (/\ c \in DOMAIN conns /\ conns[c].open /\ conns[c].server = "client"
         /\ conns[c].first <= k /\ k <= daemon.nread)
        ~> (c \in DOMAIN conns => \/ tproc[conns[c].proc].listeners = 0
                                  \/ \E i \in DOMAIN conns[c].got : conns[c].got[i] = k)
===========================================================================
