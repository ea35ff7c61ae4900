--------------------------- MODULE SnmpSessions ---------------------------
(***************************************************************************)
(* The life of SNMP sessions (tnm/snmp/tnmSnmpTcl.c, tnmSnmpUtil.c) and    *)
(* the sockets they share (tnmSnmpNet.c): creation, configuration with     *)
(* aliases, destruction, also from a callback of the session itself.  All  *)
(* the state is one record w: the allocated sessions, the list             *)
(* tnmSnmpList, the sockets, the two manager sockets, the aliases, the     *)
(* session whose callback runs, and the first use of memory that is not    *)
(* there ("none" if there was none).  Listeners at the trap port, whose    *)
(* channel is module TrapDaemon's, have no socket.                         *)
(***************************************************************************)
EXTENDS Naturals, Sequences, FiniteSets

CONSTANTS
    Types,              \* the types of sessions created
    Configs,            \* the option lists given to configure and at creation
    Aliases,            \* the names of aliases
    TakenPorts,         \* ports other programs have taken
    Aliased,            \* the option lists aliases stand for
    MaxSessions         \* the most sessions at a time

ASSUME SnmpSessionsAssumption == MaxSessions \in Nat

VARIABLE w

TrapPort == 162
NONE == "none"
NoSocket == 0

Common == {"port", "version", "community", "user", "context", "engineID", "authKey",
           "privKey", "authPassWord", "privPassWord", "security", "alias", "transport", "tags"}
OptionTable(type) ==
    Common \cup (IF type = "listener" THEN {} ELSE {"timeout", "retries", "window", "delay"})
           \cup (IF type \in {"generator", "notifier"} THEN {"address"} ELSE {})
           \cup (IF type = "notifier" THEN {"enterprise"} ELSE {})
EventTable(type) ==
    {"send", "recv"} \cup (IF type = "responder" THEN {"begin", "end"} ELSE {})
                     \cup (IF type = "listener" THEN {"trap", "inform"} ELSE {})

\* No more can be open at a time: one per session and the manager's.
Sockets == 1 .. MaxSessions + 2
Stale == MaxSessions + 1
Closed == [port |-> 0, refs |-> 0, handler |-> 0]

SessionsInit ==
    w = [sess |-> [i \in {} |-> 0], list |-> <<>>, socks |-> [k \in Sockets |-> Closed], sync |-> NoSocket,
         async |-> NoSocket, alias |-> [a \in Aliases |-> <<>>], running |-> 0,
         busy |-> {}, fault |-> NONE, shared |-> FALSE]

Without(f, x) == [y \in DOMAIN f \ {x} |-> f[y]]
OpenSockets(v) == {k \in DOMAIN v.socks : v.socks[k].refs > 0}
Fault(v, what) == IF v.fault = NONE THEN [v EXCEPT !.fault = what] ELSE v

---------------------------------------------------------------------------
(* Sockets.  handler is the session whose AgentProc is called, 0 for the   *)
(* manager's sockets.                                                      *)

\* The socket with the address, if it is open; port 0 is a port of its own.
Found(v, port) == {k \in OpenSockets(v) : port # 0 /\ v.socks[k].port = port}

TnmSnmpOpen(v, port) ==
    IF Found(v, port) # {}
    THEN LET k == CHOOSE k \in Found(v, port) : TRUE
         IN  [v |-> [v EXCEPT !.socks[k].refs = @ + 1, !.shared = TRUE], sock |-> k]
    ELSE IF port \in TakenPorts THEN [v |-> v, sock |-> NoSocket]
    ELSE LET k == CHOOSE k \in DOMAIN v.socks \ OpenSockets(v) : TRUE
         IN  [v |-> [v EXCEPT !.socks[k] = [port |-> port, refs |-> 1, handler |-> 0]], sock |-> k]

\* With no socket in the list there is nothing to do; otherwise a NULL
\* pointer is followed.
TnmSnmpClose(v, k) ==
    IF OpenSockets(v) = {} THEN v
    ELSE IF k = NoSocket THEN Fault(v, "close")
    ELSE [v EXCEPT !.socks[k] = IF @.refs = 1 THEN Closed ELSE [@ EXCEPT !.refs = @ - 1]]

TnmSnmpManagerOpen(v) ==
    LET a == IF v.sync # NoSocket THEN v
             ELSE LET r == TnmSnmpOpen(v, 0) IN [r.v EXCEPT !.sync = r.sock]
    IN  IF a.async # NoSocket THEN a
        ELSE LET r == TnmSnmpOpen(a, 0) IN [r.v EXCEPT !.async = r.sock]

TnmSnmpManagerClose(v) ==
    LET a == [TnmSnmpClose(v, v.async) EXCEPT !.async = NoSocket]
    IN  [TnmSnmpClose(a, a.sync) EXCEPT !.sync = NoSocket]

MutTnmSnmpResponderOpen(v, s) ==
    LET r == TnmSnmpOpen(v, v.sess[s].val["port"])
        x == [r.v EXCEPT !.sess[s].socket = r.sock]
    IN  IF r.sock = NoSocket THEN [v |-> x, ok |-> FALSE]
        ELSE [v |-> [x EXCEPT !.socks[r.sock].handler = s], ok |-> TRUE]

TnmSnmpResponderOpen(v, s) ==
    LET a == IF v.sess[s].socket = NoSocket THEN v ELSE TnmSnmpClose(v, v.sess[s].socket)
        r == TnmSnmpOpen(a, v.sess[s].val["port"])
        x == [r.v EXCEPT !.sess[s].socket = r.sock]
    IN  IF r.sock = NoSocket THEN [v |-> x, ok |-> FALSE]
        ELSE [v |-> [x EXCEPT !.socks[r.sock].handler = s], ok |-> TRUE]

TnmSnmpListenerOpen(v, s) ==
    IF v.sess[s].val["port"] = TrapPort THEN [v |-> v, ok |-> TRUE]
    ELSE TnmSnmpResponderOpen(v, s)

CloseOwn(v, s) ==
    [(IF v.sess[s].socket = NoSocket THEN v ELSE TnmSnmpClose(v, v.sess[s].socket))
        EXCEPT !.sess[s].socket = NoSocket]
TnmSnmpResponderClose(v, s) == CloseOwn(v, s)
TnmSnmpListenerClose(v, s) == CloseOwn(v, s)

---------------------------------------------------------------------------
(* Sessions.                                                               *)

\* The options that have a default; the others are empty.
TnmSnmpCreateSession(v, s, type) ==
    LET val == [o \in OptionTable(type) \cup {"authPassWord", "privPassWord"} |->
                  CASE o = "port" -> IF type \in {"listener", "notifier"} THEN TrapPort ELSE 161
                    [] o = "version" -> "v1"
                    [] o \in {"authPassWord", "privPassWord", "community"} -> "default"
                    [] OTHER -> NONE]
    IN  [v EXCEPT !.sess = [t \in DOMAIN v.sess \cup {s} |->
                    IF t # s THEN v.sess[t]
                    ELSE [type |-> type, val |-> val, socket |-> NoSocket, token |-> FALSE,
                          dying |-> FALSE, binds |-> {}]]]

\* The memory is released; the socket goes with it.  A handler that still
\* names the session has a pointer to freed memory.
SessionDestroyProc(v, s) ==
    LET a == CASE v.sess[s].type = "listener" -> TnmSnmpListenerClose(v, s)
               [] v.sess[s].type = "responder" -> TnmSnmpResponderClose(v, s)
               [] OTHER -> v
    IN  [a EXCEPT !.sess = Without(@, s),
                  !.socks = [k \in Sockets |-> IF a.socks[k].handler # s THEN a.socks[k]
                                               ELSE [a.socks[k] EXCEPT !.handler = Stale]]]

\* Tcl_EventuallyFree(): a session that is preserved lives until it is released.
TnmSnmpDeleteSession(v, s) ==
    IF v.running = s THEN [v EXCEPT !.sess[s].dying = TRUE] ELSE SessionDestroyProc(v, s)

DeleteProc(v, s) ==
    LET a == TnmSnmpDeleteSession([v EXCEPT !.list = SelectSeq(@, LAMBDA t : t # s),
                                            !.sess[s].token = FALSE], s)
    IN  IF a.list = <<>> THEN TnmSnmpManagerClose(a) ELSE a

V3Options == {"user", "context", "engineID", "authKey", "privKey", "authPassWord", "privPassWord"}

\* The version an option leaves behind.  A refused user name has already
\* switched the session to SNMPv3.
VersionAfter(o, version) ==
    CASE o.opt = "version" /\ o.ok -> o.val
      [] o.opt \in V3Options /\ (o.ok \/ o.opt = "user") -> "v3"
      [] o.opt = "community" /\ version = "v3" -> "v1"
      [] OTHER -> version

\* An option other than an alias.  A key replaces the password.
SetPlain(v, s, o) ==
    LET a == [v EXCEPT !.sess[s].val["version"] = VersionAfter(o, @)]
        b == IF ~ o.ok \/ o.opt = "version" THEN a
             ELSE [a EXCEPT !.sess[s].val[o.opt] = o.val]
        c == CASE o.opt = "authKey" -> [b EXCEPT !.sess[s].val["authPassWord"] = NONE]
               [] o.opt = "privKey" -> [b EXCEPT !.sess[s].val["privPassWord"] = NONE]
               [] OTHER -> b
    IN  [v |-> c, ok |-> o.ok]

RECURSIVE SetOption(_, _, _), SetOptions(_, _, _), Configure(_, _, _)

\* An alias is evaluated as a configure command of the session, which needs a
\* name for it: not yet, while the session is created.  The alias has no value
\* meanwhile.
SetOption(v, s, o) ==
    IF o.opt # "alias" THEN SetPlain(v, s, o)
    ELSE IF v.alias[o.val] = <<>> \/ o.val \in v.busy \/ ~ v.sess[s].token
    THEN [v |-> v, ok |-> FALSE]
    ELSE LET r == Configure([v EXCEPT !.busy = @ \cup {o.val}], s, v.alias[o.val])
         IN  [r EXCEPT !.v.busy = @ \ {o.val}]

\* The options before one that is refused have been set.
SetOptions(v, s, opts) ==
    IF opts = <<>> THEN [v |-> v, ok |-> TRUE]
    ELSE LET r == SetOption(v, s, Head(opts))
         IN  IF r.ok THEN SetOptions(r.v, s, Tail(opts)) ELSE r

TnmSetConfig(v, s, opts) ==
    IF \E i \in DOMAIN opts : opts[i].opt \notin OptionTable(v.sess[s].type)
    THEN [v |-> v, ok |-> FALSE]
    ELSE SetOptions(v, s, opts)

\* Only a responder opens its socket again.
Configure(v, s, opts) ==
    LET r == TnmSetConfig(v, s, opts)
    IN  IF r.ok /\ v.sess[s].type = "responder" THEN TnmSnmpResponderOpen(r.v, s) ELSE r

---------------------------------------------------------------------------
(* The commands, which scripts issue at any time, in callbacks too.        *)

Script == w.fault = NONE

\* A listener whose socket cannot be opened is deleted, without an error.
Tnm_SnmpObjCmd(type, opts) ==
    LET s == CHOOSE s \in 1 .. MaxSessions : s \notin DOMAIN w.sess
        m == IF type = "responder" THEN w ELSE TnmSnmpManagerOpen(w)
        c == TnmSetConfig(TnmSnmpCreateSession(m, s, type), s, opts)
        r == CASE c.ok /\ type = "responder" -> TnmSnmpResponderOpen(c.v, s)
               [] c.ok /\ type = "listener" -> TnmSnmpListenerOpen(c.v, s)
               [] OTHER -> c
    IN  /\ Script /\ Cardinality(DOMAIN w.sess) < MaxSessions
        /\ w' = IF ~ r.ok THEN TnmSnmpDeleteSession(r.v, s)
                ELSE [r.v EXCEPT !.list = <<s>> \o @, !.sess[s].token = TRUE]

\* The sub-commands of the four types of sessions.
AnySession == {"bind", "cget", "configure", "destroy"}
GeneratorCmd == AnySession \cup {"get", "getbulk", "getnext", "set", "wait", "walk"}
ListenerCmd == AnySession \cup {"wait"}
NotifierCmd == AnySession \cup {"inform", "trap", "wait"}
ResponderCmd == AnySession \cup {"instance"}
CommandTable(type) ==
    CASE type = "generator" -> GeneratorCmd
      [] type = "listener" -> ListenerCmd
      [] type = "notifier" -> NotifierCmd
      [] type = "responder" -> ResponderCmd

SessionCommand(s, cmd) ==
    /\ Script /\ s \in DOMAIN w.sess /\ w.sess[s].token
    /\ cmd \in CommandTable(w.sess[s].type)

ConfigureCmd(s, opts) == SessionCommand(s, "configure") /\ w' = Configure(w, s, opts).v
DestroyCmd(s) == SessionCommand(s, "destroy") /\ w' = DeleteProc(w, s)
BindEvent(s, e) ==
    /\ SessionCommand(s, "bind") /\ e \in EventTable(w.sess[s].type)
    /\ w' = [w EXCEPT !.sess[s].binds = @ \cup {e}]
AliasCmd(a, opts) == Script /\ w' = [w EXCEPT !.alias[a] = opts]

\* A packet at a socket: the handler's session is used, and the "recv" binding
\* of a session of the list is evaluated.
AgentProc(k, s) ==
    /\ w.fault = NONE /\ w.running = 0 /\ k \in OpenSockets(w)
    /\ IF w.socks[k].handler = Stale
       THEN w' = Fault(w, "handler")
       ELSE /\ \E i \in DOMAIN w.list : w.list[i] = s
            /\ "recv" \in w.sess[s].binds
            /\ w' = [w EXCEPT !.running = s]

\* The callback returns and its session is released.
EvalBindingEnd ==
    /\ w.running # 0
    /\ LET a == [w EXCEPT !.running = 0]
       IN  w' = IF w.sess[w.running].dying THEN SessionDestroyProc(a, w.running) ELSE a

SessionsNext ==
    \/ \E type \in Types, opts \in Configs : Tnm_SnmpObjCmd(type, opts)
    \/ \E s \in 1..MaxSessions, opts \in Configs : ConfigureCmd(s, opts)
    \/ \E s \in 1..MaxSessions : DestroyCmd(s)
    \/ \E s \in 1..MaxSessions : BindEvent(s, "recv")
    \/ \E a \in Aliases, opts \in Aliased : AliasCmd(a, opts)
    \/ \E k \in Sockets, s \in 1..MaxSessions : AgentProc(k, s)
    \/ EvalBindingEnd

---------------------------------------------------------------------------
\* The reference count of a socket is the number of its users (sessions that
\* are allocated, the manager's two), and no user holds a socket that is
\* closed: a socket is neither closed under a session that shares it nor left
\* open when the last session goes, whatever configurations fail on the way
\* (tnmSnmpNet.c:91, 170, 421).  The handler of a socket that was never
\* shared is a session that exists and holds it, so a packet does not meet
\* freed memory.
SocketsConsistent ==
    LET users(k) == {s \in DOMAIN w.sess : w.sess[s].socket = k}
        held == {w.sess[s].socket : s \in DOMAIN w.sess} \cup {w.sync, w.async}
    IN  w.fault = NONE =>
        /\ held \ {NoSocket} = OpenSockets(w)
        /\ \A k \in OpenSockets(w) :
              /\ w.socks[k].refs = Cardinality(users(k)) + Cardinality({k} \cap {w.sync, w.async})
              /\ ~ w.shared /\ w.socks[k].handler # 0 => users(k) = {w.socks[k].handler}
===========================================================================
