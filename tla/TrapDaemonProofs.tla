-------------------------- MODULE TrapDaemonProofs --------------------------
(***************************************************************************)
(* The traps of nmtrapd reach every client complete and in order, for any  *)
(* number of processes, connections and traps, and any room in a           *)
(* connection.                                                             *)
(***************************************************************************)
EXTENDS TrapDaemon, Integers, SequenceTheorems, FiniteSetTheorems, WellFoundedInduction, TLAPS

Conn == [proc : Procs, refs : Int, open : BOOLEAN, server : {"pending", "client", "closed"},
         queue : Seq(Nat), got : Seq(Nat), first : Nat]

DaemonState == [at : {"down", "starting", "select", "forward"}, todo : SUBSET Nat,
                nread : Nat, goOn : Nat]

\* nmtrapd serves the round of a trap to clients only, and in no other state.
Round ==
    /\ daemon \in DaemonState
    /\ daemon.todo \subseteq Clients
    /\ daemon.at # "forward" => daemon.todo = {}

\* The traps first, first + 1, ..., last, those received before those that wait.
InOrder(got, queue, first, last) ==
    /\ Len(got) + Len(queue) = last + 1 - first
    /\ \A i \in 1 .. Len(got) : got[i] = first + i - 1
    /\ \A i \in 1 .. Len(queue) : queue[i] = first + Len(got) + i - 1

\* The last trap that connection c was given its turn for.
LastFor(c) == daemon.nread - (IF c \in daemon.todo THEN 1 ELSE 0)

\* What is known of connection c: nothing is sent before it is accepted, and
\* then every trap as long as both ends are open.
Held(c) ==
    /\ conns[c].server = "pending" => conns[c].queue = <<>> /\ conns[c].got = <<>>
    /\ conns[c].server = "client" /\ conns[c].open =>
         InOrder(conns[c].got, conns[c].queue, conns[c].first, LastFor(c))

TrapInv ==
    /\ conns \in Seq(Conn)
    /\ Round
    /\ \A c \in DOMAIN conns : Held(c)

-----------------------------------------------------------------------------
(* What the steps build on.                                                *)

\* A nonempty set of natural numbers has a least element.
LEMMA LeastConn ==
    ASSUME NEW S, S \subseteq Nat, S # {}
    PROVE  LET c == CHOOSE d \in S : \A e \in S : d <= e IN c \in S
<1>1. PICK x \in S : \A y \in S : ~ (<<y, x>> \in OpToRel(<, Nat))
  BY NatLessThanWellFounded, WFMin
<1>2. \A y \in S : ~ (y < x)
  BY <1>1, ZenonT(30) DEF OpToRel
<1>3. \A y \in S : x <= y
  BY <1>2
<1> QED
  BY <1>3, ZenonT(30)

\* The clients can be counted.
LEMMA ClientsFinite ==
    ASSUME conns \in Seq(Conn), NEW S, S \subseteq Clients
    PROVE  Cardinality(S) \in Nat
<1>1. IsFiniteSet(1 .. Len(conns))
  BY FS_Interval
<1>2. S \subseteq 1 .. Len(conns)
  BY DEF Clients
<1> QED
  BY <1>1, <1>2, FS_Subset, FS_CardinalityType, ZenonT(30)

\* A connection whose traps are in order holds the traps the property names.
LEMMA HeldInOrder ==
    ASSUME TrapInv
    PROVE  TrapsInOrder
<1> SUFFICES ASSUME NEW c \in Clients, conns[c].open
             PROVE  LET held == conns[c].got \o conns[c].queue
                    IN  /\ Len(held) = LastFor(c) + 1 - conns[c].first
                        /\ \A i \in DOMAIN held : held[i] = conns[c].first + i - 1
  BY ZenonT(30) DEF TrapsInOrder, LastFor
<1> DEFINE got == conns[c].got
           queue == conns[c].queue
           first == conns[c].first
           held == got \o queue
<1>1. /\ c \in DOMAIN conns /\ conns[c] \in Conn /\ conns[c].server = "client"
  BY DEF Clients, TrapInv
<1>2. got \in Seq(Nat) /\ queue \in Seq(Nat) /\ first \in Nat
  BY <1>1 DEF Conn
<1>3. InOrder(got, queue, first, LastFor(c))
  BY <1>1 DEF TrapInv, Held
<1> HIDE DEF got, queue, first
<1>4. /\ held \in Seq(Nat) /\ Len(held) = Len(got) + Len(queue)
      /\ \A i \in 1 .. Len(got) + Len(queue) :
            held[i] = IF i <= Len(got) THEN got[i] ELSE queue[i - Len(got)]
  BY <1>2, ConcatProperties, Zenon
<1>5. DOMAIN held = 1 .. Len(got) + Len(queue) /\ Len(got) \in Nat /\ Len(queue) \in Nat
  BY <1>2, <1>4
<1> HIDE DEF held
<1>6. ASSUME NEW i \in DOMAIN held PROVE held[i] = first + i - 1
  <2>1. CASE i <= Len(got)
    <3>1. i \in 1 .. Len(got) /\ i \in 1 .. Len(got) + Len(queue)
      BY <2>1, <1>5
    <3>2. held[i] = got[i]
      BY <2>1, <3>1, <1>4
    <3> QED
      BY <3>1, <3>2, <1>3 DEF InOrder
  <2>2. CASE ~(i <= Len(got))
    <3>1. PICK k \in 1 .. Len(queue) : k = i - Len(got)
      BY <2>2, <1>5
    <3>2. held[i] = queue[k]
      BY <2>2, <3>1, <1>4, <1>5
    <3>3. queue[k] = first + Len(got) + k - 1
      BY <3>1, <1>3 DEF InOrder
    <3> QED
      BY <3>1, <3>2, <3>3, <1>2, <1>5
  <2> QED
    BY <2>1, <2>2
<1>7. Len(held) = LastFor(c) + 1 - first
  BY <1>3, <1>4 DEF InOrder
<1> QED
  BY <1>6, <1>7, ZenonT(30) DEF got, queue, first, held

\* A connection that keeps its traps, and is opened by nobody, is in order.
LEMMA HeldKept ==
    ASSUME NEW c, Held(c), conns'[c].queue = conns[c].queue, conns'[c].got = conns[c].got,
           conns'[c].first = conns[c].first, conns'[c].open => conns[c].open,
           conns'[c].server = conns[c].server \/ conns'[c].server = "closed",
           LastFor(c)' = LastFor(c)
    PROVE  Held(c)'
BY DEF Held

\* So is one that its process has shut.
LEMMA HeldShut ==
    ASSUME NEW c, Held(c), ~ conns'[c].open, conns'[c].server = conns[c].server,
           conns'[c].got = conns[c].got, conns'[c].queue \in {conns[c].queue, <<>>}
    PROVE  Held(c)'
BY DEF Held

\* The process takes the first trap that waits.
LEMMA HeldRecv ==
    ASSUME NEW c, Held(c), conns[c] \in Conn, conns[c].queue # <<>>,
           conns'[c].queue = Tail(conns[c].queue),
           conns'[c].got = Append(conns[c].got, Head(conns[c].queue)),
           conns'[c].first = conns[c].first, conns'[c].open = conns[c].open,
           conns'[c].server = conns[c].server, LastFor(c)' = LastFor(c)
    PROVE  Held(c)'
<1> DEFINE got == conns[c].got
           queue == conns[c].queue
           first == conns[c].first
           last == LastFor(c)
<1>1. got \in Seq(Nat) /\ queue \in Seq(Nat) /\ first \in Nat /\ queue # <<>>
  BY DEF Conn
<1>2. conns'[c].server # "pending"
  BY DEF Held
<1>3. SUFFICES ASSUME InOrder(got, queue, first, last)
               PROVE  InOrder(Append(got, Head(queue)), Tail(queue), first, last)
  BY <1>2 DEF Held
<1> DEFINE rest == Tail(queue)
           more == Append(got, Head(queue))
<1> HIDE DEF got, queue, first, last
<1>4. /\ Len(rest) = Len(queue) - 1 /\ Len(queue) \in Nat /\ Len(queue) > 0
      /\ \A i \in 1 .. Len(queue) - 1 : rest[i] = queue[i + 1]
      /\ Head(queue) = queue[1]
  BY <1>1
<1>5. /\ Len(more) = Len(got) + 1 /\ Len(got) \in Nat
      /\ \A i \in 1 .. Len(got) : more[i] = got[i]
      /\ more[Len(got) + 1] = queue[1]
  BY <1>1, <1>4
<1> HIDE DEF rest, more
<1>6. queue[1] = first + Len(got)
  BY <1>1, <1>3, <1>4, <1>5 DEF InOrder
<1>7. \A i \in 1 .. Len(more) : more[i] = first + i - 1
  <2>1. \A i \in 1 .. Len(more) : i \in 1 .. Len(got) \/ i = Len(got) + 1
    BY <1>5
  <2>2. \A i \in 1 .. Len(got) : more[i] = first + i - 1
    BY <1>3, <1>5 DEF InOrder
  <2>3. more[Len(got) + 1] = first + (Len(got) + 1) - 1
    BY <1>1, <1>5, <1>6
  <2> QED
    BY <2>1, <2>2, <2>3
<1>8. \A i \in 1 .. Len(rest) : rest[i] = first + Len(more) + i - 1
  <2> SUFFICES ASSUME NEW i \in 1 .. Len(rest) PROVE rest[i] = first + Len(more) + i - 1
    OBVIOUS
  <2>1. PICK k \in 1 .. Len(queue) : k = i + 1
    BY <1>4
  <2>2. rest[i] = queue[k]
    BY <1>4, <2>1
  <2>3. queue[k] = first + Len(got) + k - 1
    BY <1>3 DEF InOrder
  <2> QED
    BY <1>1, <1>4, <1>5, <2>1, <2>2, <2>3
<1>9. Len(more) + Len(rest) = Len(got) + Len(queue)
  BY <1>4, <1>5
<1> QED
  BY <1>3, <1>7, <1>8, <1>9, ZenonT(30) DEF InOrder, rest, more

\* nmtrapd writes the trap of this round to the connection.
LEMMA HeldSent ==
    ASSUME NEW c, Held(c), conns[c] \in Conn, daemon.nread \in Nat, c \in daemon.todo,
           conns[c].server = "client",
           conns'[c].queue = Append(conns[c].queue, daemon.nread),
           conns'[c].got = conns[c].got,
           conns'[c].first = conns[c].first, conns'[c].open = conns[c].open,
           conns'[c].server = conns[c].server, LastFor(c)' = daemon.nread
    PROVE  Held(c)'
<1> DEFINE got == conns[c].got
           queue == conns[c].queue
           first == conns[c].first
           n == daemon.nread
           more == Append(queue, n)
<1>1. got \in Seq(Nat) /\ queue \in Seq(Nat) /\ first \in Nat /\ n \in Nat
  BY DEF Conn
<1>2. LastFor(c) = n - 1
  BY DEF LastFor
<1>3. SUFFICES ASSUME InOrder(got, queue, first, n - 1)
               PROVE  InOrder(got, more, first, n)
  BY <1>2 DEF Held
<1> HIDE DEF got, queue, first, n
<1>4. /\ Len(more) = Len(queue) + 1 /\ Len(queue) \in Nat /\ Len(got) \in Nat
      /\ \A i \in 1 .. Len(queue) : more[i] = queue[i]
      /\ more[Len(queue) + 1] = n
  BY <1>1
<1> HIDE DEF more
<1>5. Len(got) + Len(queue) = n - first
  BY <1>1, <1>3 DEF InOrder
<1>6. \A i \in 1 .. Len(more) : i \in 1 .. Len(queue) \/ i = Len(queue) + 1
  BY <1>4
<1>7. \A i \in 1 .. Len(queue) : more[i] = first + Len(got) + i - 1
  BY <1>3, <1>4 DEF InOrder
<1>8. more[Len(queue) + 1] = first + Len(got) + (Len(queue) + 1) - 1
  BY <1>1, <1>4, <1>5
<1>9. Len(got) + Len(more) = n + 1 - first
  BY <1>1, <1>4, <1>5
<1> QED
  BY <1>3, <1>6, <1>7, <1>8, <1>9 DEF InOrder

-----------------------------------------------------------------------------
(* The steps.                                                              *)

\* The invariant after a step that leaves the daemon, and the number and the
\* ends of the connections at the daemon, alone.
LEMMA RoundSame ==
    ASSUME TrapInv, daemon' = daemon, DOMAIN conns \subseteq DOMAIN conns',
           \A d \in DOMAIN conns : conns'[d].server = conns[d].server
    PROVE  Round' /\ \A d \in DOMAIN conns : LastFor(d)' = LastFor(d)
<1>1. Round' 
  BY DEF TrapInv, Round, Clients
<1> QED
  BY <1>1 DEF LastFor

\* The fields of a connection after the updates of the steps.
LEMMA ConnRefs ==
    ASSUME NEW x \in Conn, NEW r \in Int
    PROVE  LET y == [x EXCEPT !.refs = r] IN
           /\ y \in Conn /\ y.refs = r
           /\ y.open = x.open /\ y.server = x.server /\ y.queue = x.queue /\ y.got = x.got /\ y.first = x.first
BY ZenonT(30) DEF Conn

\* The end of the process.
LEMMA ConnShut ==
    ASSUME NEW x \in Conn, NEW o \in BOOLEAN, NEW q \in Seq(Nat)
    PROVE  LET y == [x EXCEPT !.open = o, !.queue = q] IN
           /\ y \in Conn /\ y.open = o /\ y.queue = q
           /\ y.refs = x.refs /\ y.server = x.server /\ y.got = x.got /\ y.first = x.first
BY ZenonT(30) DEF Conn

\* A connection accepted.
LEMMA ConnAccepted ==
    ASSUME NEW x \in Conn, NEW s \in {"pending", "client", "closed"}, NEW n \in Nat
    PROVE  LET y == [x EXCEPT !.server = s, !.first = n] IN
           /\ y \in Conn /\ y.server = s /\ y.first = n
           /\ y.refs = x.refs /\ y.open = x.open /\ y.queue = x.queue /\ y.got = x.got
BY ZenonT(30) DEF Conn

\* A connection closed by the daemon.
LEMMA ConnClosed ==
    ASSUME NEW x \in Conn, NEW s \in {"pending", "client", "closed"}
    PROVE  LET y == [x EXCEPT !.server = s] IN
           /\ y \in Conn /\ y.server = s
           /\ y.refs = x.refs /\ y.open = x.open /\ y.queue = x.queue /\ y.got = x.got /\ y.first = x.first
BY ZenonT(30) DEF Conn

\* A trap written.
LEMMA ConnWritten ==
    ASSUME NEW x \in Conn, NEW q \in Seq(Nat)
    PROVE  LET y == [x EXCEPT !.queue = q] IN
           /\ y \in Conn /\ y.queue = q
           /\ y.refs = x.refs /\ y.open = x.open /\ y.server = x.server /\ y.got = x.got /\ y.first = x.first
BY ZenonT(30) DEF Conn

\* A sequence with one element replaced.
LEMMA PutFacts ==
    ASSUME NEW S, NEW s \in Seq(S), NEW c, NEW r, c \in DOMAIN s => r \in S
    PROVE  LET t == [s EXCEPT ![c] = r] IN
           /\ t \in Seq(S) /\ DOMAIN t = DOMAIN s
           /\ c \in DOMAIN s => t[c] = r
           /\ \A d \in DOMAIN s : d # c => t[d] = s[d]
<1>1. PICK n \in Nat : DOMAIN s = 1 .. n /\ s \in [1 .. n -> S]
  OBVIOUS
<1>2. [s EXCEPT ![c] = r] \in [1 .. n -> S]
  BY <1>1, ZenonT(30)
<1>3. [s EXCEPT ![c] = r] \in Seq(S)
  BY <1>2, SeqDef
<1> QED
  BY <1>1, <1>3

\* A sequence with every element replaced.
LEMMA MapFacts ==
    ASSUME NEW S, NEW s \in Seq(S), NEW g, \A d \in DOMAIN s : g[d] \in S
    PROVE  [d \in DOMAIN s |-> g[d]] \in Seq(S)
<1>1. PICK n \in Nat : DOMAIN s = 1 .. n
  OBVIOUS
<1>2. [d \in DOMAIN s |-> g[d]] \in [1 .. n -> S]
  BY <1>1
<1> QED
  BY <1>2, SeqDef

\* No traps.
LEMMA NoTraps == <<>> \in Seq(Nat)
OBVIOUS

\* What the invariant says of a connection.
LEMMA ConnsFacts ==
    ASSUME TrapInv
    PROVE  conns \in Seq(Conn) /\ \A d \in DOMAIN conns : conns[d] \in Conn /\ Held(d)
BY DEF TrapInv

\* A step that leaves the connections and the daemon alone.
LEMMA TrapSame ==
    ASSUME TrapInv, conns' = conns, daemon' = daemon
    PROVE  TrapInv'
BY DEF TrapInv, Round, Clients, Held, LastFor

\* A process connects.
LEMMA ConnectStep ==
    ASSUME TrapInv, NEW p \in Procs, Connect(p), daemon' = daemon
    PROVE  TrapInv'
<1> DEFINE new == [proc |-> p, refs |-> 1, open |-> TRUE, server |-> "pending",
                   queue |-> <<>>, got |-> <<>>, first |-> 0]
<1>1. new \in Conn /\ conns' = Append(conns, new) /\ conns \in Seq(Conn)
  BY DEF Conn, Connect, TrapInv
<1>2. new.server = "pending" /\ new.queue = <<>> /\ new.got = <<>>
  OBVIOUS
<1> HIDE DEF new
<1>3. PICK n \in Nat : n = Len(conns) + 1
  BY <1>1
<1>4. /\ conns' \in Seq(Conn) /\ DOMAIN conns' = DOMAIN conns \cup {n}
      /\ \A d \in DOMAIN conns : conns'[d] = conns[d]
      /\ conns'[n] = new
  BY <1>1, <1>3
<1>5. Round' /\ \A d \in DOMAIN conns : LastFor(d)' = LastFor(d)
  BY <1>4, RoundSame
<1>6. \A d \in DOMAIN conns : Held(d)'
  BY <1>4, <1>5, HeldKept DEF TrapInv
<1>7. Held(n)'
  BY <1>2, <1>4 DEF Held
<1> QED
  BY <1>4, <1>5, <1>6, <1>7 DEF TrapInv

\* One connection changes and the daemon does not: the change decides.
LEMMA OneConnStep ==
    ASSUME TrapInv, NEW c, NEW r, conns' = [conns EXCEPT ![c] = r], daemon' = daemon,
           c \in DOMAIN conns =>
             /\ r \in Conn /\ r.server = conns[c].server
             /\ (conns'[c] = r /\ LastFor(c)' = LastFor(c)) => Held(c)'
    PROVE  TrapInv'
<1>1. conns \in Seq(Conn) /\ \A d \in DOMAIN conns : Held(d)
  BY DEF TrapInv
<1>2. /\ conns' \in Seq(Conn) /\ DOMAIN conns' = DOMAIN conns
      /\ c \in DOMAIN conns => conns'[c] = r
      /\ \A d \in DOMAIN conns : d # c => conns'[d] = conns[d]
  BY <1>1, PutFacts
<1>3. Round' /\ \A d \in DOMAIN conns : LastFor(d)' = LastFor(d)
  BY <1>2, RoundSame
<1>4. \A d \in DOMAIN conns : d # c => Held(d)'
  BY <1>1, <1>2, <1>3, HeldKept
<1>5. c \in DOMAIN conns => Held(c)'
  BY <1>2, <1>3
<1> QED
  BY <1>2, <1>3, <1>4, <1>5 DEF TrapInv

\* A listener shares its process's connection.
LEMMA RefsStep ==
    ASSUME TrapInv, NEW c, conns' = [conns EXCEPT ![c].refs = @ + 1], daemon' = daemon
    PROVE  TrapInv'
<1> DEFINE x == conns[c]
           r == [x EXCEPT !.refs = x.refs + 1]
<1>1. conns' = [conns EXCEPT ![c] = r]
  OBVIOUS
<1>2. ASSUME c \in DOMAIN conns
      PROVE  /\ r \in Conn /\ r.server = x.server
             /\ (conns'[c] = r /\ LastFor(c)' = LastFor(c)) => Held(c)'
  <2>1. x \in Conn /\ Held(c)
    BY <1>2 DEF TrapInv
  <2>2. /\ r \in Conn /\ r.server = x.server /\ r.queue = x.queue /\ r.got = x.got
        /\ r.first = x.first /\ r.open = x.open
    <3> HIDE DEF x
    <3>1. x.refs + 1 \in Int
      BY <2>1 DEF Conn
    <3> QED
      BY <2>1, <3>1, ConnRefs
  <2> HIDE DEF r
  <2> QED
    BY <2>1, <2>2, HeldKept
<1> HIDE DEF r
<1> QED
  BY <1>1, <1>2, OneConnStep, ZenonT(30)

\* A connection loses a reference, and is closed with the last.
LEMMA UnregisterStep ==
    ASSUME TrapInv, NEW c, conns' = Unregister(conns, c), daemon' = daemon
    PROVE  TrapInv'
<1> DEFINE x == conns[c]
           r == [x EXCEPT !.refs = @ - 1, !.open = @ /\ x.refs > 1,
                          !.queue = IF x.refs > 1 THEN @ ELSE <<>>]
<1>1. conns' = [conns EXCEPT ![c] = r]
  BY ZenonT(30) DEF Unregister
<1>2. ASSUME c \in DOMAIN conns
      PROVE  /\ r \in Conn /\ r.server = x.server
             /\ (conns'[c] = r /\ LastFor(c)' = LastFor(c)) => Held(c)'
  <2>1. x \in Conn /\ Held(c)
    BY <1>2 DEF TrapInv
  <2>2. /\ r \in Conn /\ r.server = x.server /\ r.got = x.got /\ r.first = x.first
        /\ x.refs > 1 => r.queue = x.queue /\ r.open = x.open
        /\ ~(x.refs > 1) => r.queue = <<>> /\ r.open = FALSE
    <3> HIDE DEF x
    <3>1. x.refs - 1 \in Int /\ x.open \in BOOLEAN /\ x.queue \in Seq(Nat)
      BY <2>1 DEF Conn
    <3>2. (x.open /\ x.refs > 1) \in BOOLEAN
      OBVIOUS
    <3>3. (IF x.refs > 1 THEN x.queue ELSE <<>>) \in Seq(Nat)
      BY <3>1
    <3> DEFINE n == x.refs - 1
               o == x.open /\ x.refs > 1
               q == IF x.refs > 1 THEN x.queue ELSE <<>>
    <3>4. n \in Int /\ o \in BOOLEAN /\ q \in Seq(Nat)
      BY <3>1, <3>2, <3>3
    <3>5. r = [x EXCEPT !.refs = n, !.open = o, !.queue = q]
      OBVIOUS
    <3> HIDE DEF n, o, q, r
    <3>6. /\ r \in Conn /\ r.server = x.server /\ r.got = x.got /\ r.first = x.first
          /\ r.open = o /\ r.queue = q
      BY <2>1, <3>4, <3>5, ZenonT(30) DEF Conn
    <3> QED
      BY <3>1, <3>6, ZenonT(30) DEF o, q
  <2> HIDE DEF r
  <2> QED
    BY <2>1, <2>2, HeldKept, HeldShut
<1> HIDE DEF r
<1> QED
  BY <1>1, <1>2, OneConnStep, ZenonT(30)

\* A process reads a trap.
LEMMA RecvStep ==
    ASSUME TrapInv, NEW c, conns[c].queue # <<>>, daemon' = daemon,
           conns' = [conns EXCEPT ![c].queue = Tail(@), ![c].got = Append(@, Head(conns[c].queue))]
    PROVE  TrapInv'
<1> DEFINE x == conns[c]
           r == [x EXCEPT !.queue = Tail(x.queue), !.got = Append(x.got, Head(x.queue))]
<1>1. ASSUME c \in DOMAIN conns
      PROVE  conns' = [conns EXCEPT ![c] = r]
  BY <1>1 DEF TrapInv
<1>2. ASSUME c \in DOMAIN conns
      PROVE  /\ r \in Conn /\ r.server = x.server
             /\ (conns'[c] = r /\ LastFor(c)' = LastFor(c)) => Held(c)'
  <2>1. x \in Conn /\ Held(c)
    BY <1>2 DEF TrapInv
  <2>2. x.queue \in Seq(Nat) /\ x.got \in Seq(Nat) /\ x.queue # <<>>
    BY <2>1 DEF Conn
  <2>3. Tail(x.queue) \in Seq(Nat) /\ Append(x.got, Head(x.queue)) \in Seq(Nat)
    BY <2>2
  <2>4. /\ r \in Conn /\ r.server = x.server /\ r.first = x.first /\ r.open = x.open
        /\ r.queue = Tail(x.queue) /\ r.got = Append(x.got, Head(x.queue))
    <3> HIDE DEF x
    <3> DEFINE q == Tail(x.queue)
               g == Append(x.got, Head(x.queue))
    <3>1. q \in Seq(Nat) /\ g \in Seq(Nat) /\ r = [x EXCEPT !.queue = q, !.got = g]
      BY <2>3
    <3> HIDE DEF q, g, r
    <3>2. /\ r \in Conn /\ r.server = x.server /\ r.first = x.first /\ r.open = x.open
          /\ r.queue = q /\ r.got = g
      BY <2>1, <3>1, ZenonT(30) DEF Conn
    <3> QED
      BY <3>2 DEF q, g
  <2> HIDE DEF r
  <2> QED
    BY <2>1, <2>2, <2>4, HeldRecv, ZenonT(30)
<1>3. ASSUME c \notin DOMAIN conns
      PROVE  conns' = conns
  BY <1>3 DEF TrapInv
<1>4. c \notin DOMAIN conns => conns' = [conns EXCEPT ![c] = r]
  <2> HIDE DEF r
  <2> QED
    BY <1>3, ZenonT(30) DEF TrapInv
<1> HIDE DEF r
<1> QED
  BY <1>1, <1>2, <1>4, OneConnStep, ZenonT(30)

\* A process without a channel ends, and its connections with it.
LEMMA DeadStep ==
    ASSUME TrapInv, NEW p, daemon' = daemon,
           conns' = [d \in DOMAIN conns |->
                       IF conns[d].proc = p THEN [conns[d] EXCEPT !.open = FALSE, !.queue = <<>>]
                       ELSE conns[d]]
    PROVE  TrapInv'
<1>1. conns \in Seq(Conn) /\ \A d \in DOMAIN conns : conns[d] \in Conn /\ Held(d)
  BY ConnsFacts, ZenonT(30)
<1>2. DOMAIN conns' = DOMAIN conns
  BY ZenonT(30)
<1>3. ASSUME NEW d \in DOMAIN conns
      PROVE  /\ conns'[d] \in Conn /\ conns'[d].server = conns[d].server
             /\ conns'[d].got = conns[d].got /\ conns'[d].first = conns[d].first
             /\ \/ conns'[d].queue = conns[d].queue /\ conns'[d].open = conns[d].open
                \/ conns'[d].queue = <<>> /\ conns'[d].open = FALSE
  <2> DEFINE x == conns[d]
  <2>1. x \in Conn
    BY <1>1, ZenonT(30)
  <2>2. conns'[d] = IF x.proc = p THEN [x EXCEPT !.open = FALSE, !.queue = <<>>] ELSE x
    BY ZenonT(30)
  <2> HIDE DEF x
  <2>3. LET r == [x EXCEPT !.open = FALSE, !.queue = <<>>]
        IN  /\ r \in Conn /\ r.server = x.server /\ r.got = x.got /\ r.first = x.first
            /\ r.queue = <<>> /\ r.open = FALSE
    BY <2>1, NoTraps, ConnShut, ZenonT(30)
  <2> QED
    BY <2>1, <2>2, <2>3, ZenonT(30) DEF x
<1>4. conns' \in Seq(Conn)
  <2>1. conns' = [d \in DOMAIN conns |-> conns'[d]]
    BY ZenonT(30)
  <2> QED
    BY <1>1, <1>3, <2>1, MapFacts, ZenonT(30)
<1>5. Round' /\ \A d \in DOMAIN conns : LastFor(d)' = LastFor(d)
  BY <1>2, <1>3, RoundSame, ZenonT(30)
<1>6. \A d \in DOMAIN conns : Held(d)'
  BY <1>1, <1>3, <1>5, HeldKept, HeldShut, ZenonT(30)
<1> QED
  BY <1>2, <1>4, <1>5, <1>6, ZenonT(30) DEF TrapInv

\* A step of the daemon between the rounds that changes no connection.
LEMMA IdleStep ==
    ASSUME TrapInv, conns' = conns, daemon.todo = {}, daemon' \in DaemonState,
           daemon'.todo = {}, daemon'.nread = daemon.nread
    PROVE  TrapInv'
<1>1. conns \in Seq(Conn) /\ \A d \in DOMAIN conns : Held(d)
  BY ConnsFacts
<1>2. Round'
  BY DEF Round
<1>3. \A d : LastFor(d)' = LastFor(d)
  BY DEF LastFor
<1>4. \A d \in DOMAIN conns : Held(d)'
  BY <1>1, <1>3, HeldKept
<1> QED
  BY <1>1, <1>2, <1>4 DEF TrapInv

\* nmtrapd is forked, starts, or counts its clients after a trap.
LEMMA IdleSteps ==
    ASSUME TrapInv, conns' = conns,
           \/ daemon.at \in {"down", "starting"} /\ ForkTrapDaemon
           \/ Start
           \/ Forwarded
    PROVE  TrapInv'
<1>1. daemon \in DaemonState /\ daemon.todo = {}
  BY DEF TrapInv, Round, Start, Forwarded
<1>2. Cardinality(Clients) \in Nat
  BY ClientsFinite, ConnsFacts
<1>3. /\ daemon' \in DaemonState /\ daemon'.todo = daemon.todo
      /\ daemon'.nread = daemon.nread
  <2> DEFINE k == Cardinality(Clients)
  <2>1. \/ daemon' = [daemon EXCEPT !.at = "starting"]
        \/ daemon' = [daemon EXCEPT !.at = "select", !.goOn = 1]
        \/ daemon' = [daemon EXCEPT !.at = "select", !.goOn = k]
    BY DEF ForkTrapDaemon, Start, Forwarded
  <2> HIDE DEF k
  <2>2. CASE daemon' = [daemon EXCEPT !.at = "starting"]
    BY <1>1, <2>2 DEF DaemonState
  <2>3. CASE daemon' = [daemon EXCEPT !.at = "select", !.goOn = 1]
    BY <1>1, <2>3, ZenonT(30) DEF DaemonState
  <2>4. CASE daemon' = [daemon EXCEPT !.at = "select", !.goOn = k]
    <3>1. k \in Nat
      BY <1>2 DEF k
    <3> QED
      BY <1>1, <2>4, <3>1, ZenonT(30) DEF DaemonState
  <2> QED
    BY <2>1, <2>2, <2>3, <2>4
<1> QED
  BY <1>1, <1>3, IdleStep

\* The oldest connection that waits is accepted, with the next trap as its first.
LEMMA AcceptStep ==
    ASSUME TrapInv, Accept
    PROVE  TrapInv'
<1>1. conns \in Seq(Conn) /\ \A d \in DOMAIN conns : conns[d] \in Conn /\ Held(d)
  BY ConnsFacts
<1>2. /\ daemon \in DaemonState /\ daemon.todo = {} /\ daemon.nread \in Nat
      /\ daemon' = daemon
  BY DEF TrapInv, Round, Accept, Looping, DaemonState
<1>3. PICK c \in Pending : conns' = [conns EXCEPT ![c].server = "client",
                                                  ![c].first = daemon.nread + 1]
  <2>1. Pending # {} /\ Pending \subseteq Nat
    BY <1>1 DEF Accept, Pending
  <2> QED
    BY <2>1, LeastConn, ZenonT(30) DEF Accept
<1>4. c \in DOMAIN conns /\ conns[c].server = "pending"
  BY <1>3 DEF Pending
<1> DEFINE x == conns[c]
           n == daemon.nread + 1
           y == [x EXCEPT !.server = "client", !.first = n]
<1>5. conns' = [conns EXCEPT ![c] = y]
  BY <1>1, <1>3, <1>4, ZenonT(30)
<1>6. y \in Conn /\ y.server = "client" /\ y.queue = <<>> /\ y.got = <<>> /\ y.first = n
  <2>1. x \in Conn /\ n \in Nat /\ x.queue = <<>> /\ x.got = <<>>
    BY <1>1, <1>2, <1>4 DEF Held
  <2> HIDE DEF x, n
  <2> QED
    BY <2>1, ZenonT(30) DEF Conn
<1> HIDE DEF y
<1>7. /\ conns' \in Seq(Conn) /\ DOMAIN conns' = DOMAIN conns /\ conns'[c] = y
      /\ \A d \in DOMAIN conns : d # c => conns'[d] = conns[d]
  BY <1>1, <1>4, <1>5, <1>6, PutFacts
<1>8. Round'
  BY <1>2 DEF Round
<1>9. \A d : LastFor(d)' = LastFor(d) /\ LastFor(d)' = daemon.nread
  BY <1>2 DEF LastFor
<1>10. \A d \in DOMAIN conns : d # c => Held(d)'
  BY <1>1, <1>7, <1>9, HeldKept
<1>11. Held(c)'
  <2>1. InOrder(<<>>, <<>>, n, daemon.nread)
    BY <1>2 DEF InOrder
  <2> HIDE DEF n
  <2> QED
    BY <1>6, <1>7, <1>9, <2>1 DEF Held
<1> QED
  BY <1>7, <1>8, <1>10, <1>11 DEF TrapInv

\* A trap is read, and every client is due.
LEMMA ReadStep ==
    ASSUME TrapInv, RecvTrap
    PROVE  TrapInv'
<1>1. conns \in Seq(Conn) /\ \A d \in DOMAIN conns : conns[d] \in Conn /\ Held(d)
  BY ConnsFacts
<1>2. daemon \in DaemonState /\ daemon.todo = {} /\ daemon.nread \in Nat /\ conns' = conns
  BY DEF TrapInv, Round, RecvTrap, Looping, DaemonState
<1>3. Clients \subseteq Nat /\ Clients' = Clients
  BY <1>1, <1>2 DEF Clients
<1>4. /\ daemon' \in DaemonState /\ daemon'.todo = Clients
      /\ daemon'.nread = daemon.nread + 1 /\ daemon'.at = "forward"
  <2> DEFINE all == Clients
             n == daemon.nread + 1
  <2>1. daemon' = [daemon EXCEPT !.at = "forward", !.todo = all, !.nread = n]
    BY DEF RecvTrap
  <2>2. n \in Nat /\ all \in SUBSET Nat
    BY <1>2, <1>3
  <2> HIDE DEF all, n
  <2>3. /\ daemon' \in DaemonState /\ daemon'.todo = all
        /\ daemon'.nread = n /\ daemon'.at = "forward"
    BY <1>2, <2>1, <2>2, ZenonT(30) DEF DaemonState
  <2> QED
    BY <2>3 DEF all, n
<1>5. Round'
  BY <1>3, <1>4 DEF Round
<1>6. \A d \in Clients : LastFor(d)' = LastFor(d)
  BY <1>2, <1>4 DEF LastFor
<1>7. ASSUME NEW d \in DOMAIN conns PROVE Held(d)'
  <2>1. CASE d \in Clients
    BY <1>1, <1>2, <1>6, <2>1, HeldKept
  <2>2. CASE d \notin Clients
    BY <1>1, <1>2, <2>2 DEF Clients, Held
  <2> QED
    BY <2>1, <2>2
<1> QED
  BY <1>1, <1>2, <1>5, <1>7 DEF TrapInv

\* The trap of the round is written to the client whose turn it is, or the
\* client is found closed.
LEMMA ForwardStep ==
    ASSUME TrapInv, NEW c, NEW ok \in BOOLEAN, daemon.todo # {}, ForwardTrap(c, ok)
    PROVE  TrapInv'
<1>1. conns \in Seq(Conn) /\ \A d \in DOMAIN conns : conns[d] \in Conn /\ Held(d)
  BY ConnsFacts
<1>2. /\ daemon \in DaemonState /\ daemon.todo \subseteq Clients /\ daemon.nread \in Nat
      /\ daemon.todo \subseteq Nat /\ daemon.at = "forward"
  BY DEF TrapInv, Round, ForwardTrap, DaemonState
<1>3. c \in daemon.todo
  BY <1>2, LeastConn DEF ForwardTrap
<1>4. c \in DOMAIN conns /\ conns[c].server = "client" /\ conns[c] \in Conn
  BY <1>1, <1>2, <1>3 DEF Clients
<1>5. /\ daemon' \in DaemonState /\ daemon'.todo = daemon.todo \ {c}
      /\ daemon'.nread = daemon.nread /\ daemon'.at = "forward"
  <2> DEFINE rest == daemon.todo \ {c}
  <2>1. daemon' = [daemon EXCEPT !.todo = rest] /\ rest \in SUBSET Nat
    BY <1>2 DEF ForwardTrap
  <2> HIDE DEF rest
  <2>2. /\ daemon' \in DaemonState /\ daemon'.todo = rest
        /\ daemon'.nread = daemon.nread /\ daemon'.at = daemon.at
    BY <1>2, <2>1 DEF DaemonState
  <2> QED
    BY <1>2, <2>2 DEF rest
<1>6. LastFor(c)' = daemon.nread /\ \A d : d # c => LastFor(d)' = LastFor(d)
  BY <1>2, <1>5 DEF LastFor
<1> DEFINE x == conns[c]
<1>7. PICK y \in Conn :
        /\ conns' = [conns EXCEPT ![c] = y]
        /\ y.got = x.got /\ y.first = x.first /\ y.open = x.open
        /\ \/ y.server = "closed"
           \/ y.server = "client" /\ ~ x.open
           \/ y.server = "client" /\ y.queue = Append(x.queue, daemon.nread)
  <2>1. CASE ~ ok
    <3> DEFINE y == [x EXCEPT !.server = "closed"]
    <3>1. conns' = [conns EXCEPT ![c] = y]
      BY <2>1 DEF ForwardTrap
    <3> HIDE DEF x
    <3>2. y \in Conn /\ y.got = x.got /\ y.first = x.first /\ y.open = x.open /\ y.server = "closed"
      BY <1>4 DEF Conn, x
    <3> HIDE DEF y
    <3> QED
      BY <3>1, <3>2, ZenonT(30)
  <2>2. CASE ok /\ x.open
    <3> DEFINE q == Append(x.queue, daemon.nread)
               y == [x EXCEPT !.queue = q]
    <3>1. conns' = [conns EXCEPT ![c] = y]
      BY <2>2 DEF ForwardTrap
    <3>2. x \in Conn /\ x.queue \in Seq(Nat) /\ x.server = "client"
      BY <1>4 DEF Conn
    <3>3. q \in Seq(Nat)
      BY <1>2, <3>2
    <3> HIDE DEF x, q
    <3>4. /\ y \in Conn /\ y.got = x.got /\ y.first = x.first /\ y.open = x.open
          /\ y.server = "client" /\ y.queue = q
      BY <3>2, <3>3 DEF Conn
    <3> HIDE DEF y
    <3> QED
      BY <3>1, <3>4, ZenonT(30) DEF q
  <2>3. CASE ok /\ ~ x.open
    <3>1. conns' = conns
      BY <2>3 DEF ForwardTrap
    <3>2. conns' = [conns EXCEPT ![c] = x]
      BY <1>1, <1>4, <3>1
    <3> QED
      BY <1>4, <2>3, <3>2, ZenonT(30)
  <2> QED
    BY <2>1, <2>2, <2>3
<1>8. /\ conns' \in Seq(Conn) /\ DOMAIN conns' = DOMAIN conns /\ conns'[c] = y
      /\ \A d \in DOMAIN conns : d # c => conns'[d] = conns[d]
  BY <1>1, <1>4, <1>7, PutFacts
<1>9. Round'
  BY <1>2, <1>5, <1>8 DEF Round, Clients
<1>10. \A d \in DOMAIN conns : d # c => Held(d)'
  BY <1>1, <1>6, <1>8, HeldKept
<1>11. Held(c)'
  <2>1. CASE y.server = "closed"
    BY <1>8, <2>1 DEF Held
  <2>2. CASE y.server = "client" /\ ~ x.open
    BY <1>7, <1>8, <2>2 DEF Held
  <2>3. CASE y.server = "client" /\ y.queue = Append(x.queue, daemon.nread)
    BY <1>1, <1>2, <1>3, <1>4, <1>6, <1>7, <1>8, <2>3, HeldSent
  <2> QED
    BY <1>7, <2>1, <2>2, <2>3
<1> QED
  BY <1>8, <1>9, <1>10, <1>11 DEF TrapInv

\* The daemon closes connections between the rounds.
LEMMA ClosingStep ==
    ASSUME TrapInv, NEW G, daemon.todo = {}, daemon' \in DaemonState,
           daemon'.todo = {}, daemon'.nread = daemon.nread,
           conns' = [c \in DOMAIN conns |->
                       IF c \in G THEN [conns[c] EXCEPT !.server = "closed"] ELSE conns[c]]
    PROVE  TrapInv'
<1>1. conns \in Seq(Conn) /\ \A d \in DOMAIN conns : conns[d] \in Conn /\ Held(d)
  BY ConnsFacts
<1>2. DOMAIN conns' = DOMAIN conns
  OBVIOUS
<1>3. ASSUME NEW d \in DOMAIN conns
      PROVE  /\ conns'[d] \in Conn
             /\ conns'[d].server = conns[d].server \/ conns'[d].server = "closed"
             /\ conns'[d].got = conns[d].got /\ conns'[d].first = conns[d].first
             /\ conns'[d].queue = conns[d].queue /\ conns'[d].open = conns[d].open
  <2> DEFINE x == conns[d]
             y == [x EXCEPT !.server = "closed"]
  <2>1. x \in Conn
    BY <1>1
  <2>2. conns'[d] = IF d \in G THEN y ELSE x
    OBVIOUS
  <2> HIDE DEF x
  <2>3. /\ y \in Conn /\ y.server = "closed" /\ y.got = x.got /\ y.first = x.first
        /\ y.queue = x.queue /\ y.open = x.open
    BY <2>1, ZenonT(30) DEF Conn
  <2> HIDE DEF y
  <2> QED
    BY <2>1, <2>2, <2>3 DEF x
<1>4. conns' \in Seq(Conn)
  <2>1. conns' = [d \in DOMAIN conns |-> conns'[d]]
    OBVIOUS
  <2> QED
    BY <1>1, <1>3, <2>1, MapFacts
<1>5. Round' /\ \A d : LastFor(d)' = LastFor(d)
  BY DEF Round, LastFor
<1>6. \A d \in DOMAIN conns : Held(d)'
  BY <1>1, <1>3, <1>5, HeldKept, ZenonT(30)
<1> QED
  BY <1>2, <1>4, <1>5, <1>6 DEF TrapInv

\* Clients that have gone are closed; a daemon without clients exits and takes
\* the connections that wait with it.
LEMMA ClosingSteps ==
    ASSUME TrapInv, CloseClients \/ TrapExit
    PROVE  TrapInv'
<1>1. conns \in Seq(Conn) /\ daemon \in DaemonState /\ daemon.todo = {}
  BY DEF TrapInv, Round, CloseClients, TrapExit, Looping
<1>2. CASE CloseClients
  <2> DEFINE gone == {c \in Clients : ~ conns[c].open}
             k == Cardinality(Clients \ gone)
  <2>1. /\ conns' = [c \in DOMAIN conns |->
                       IF c \in gone THEN [conns[c] EXCEPT !.server = "closed"] ELSE conns[c]]
        /\ daemon' = [daemon EXCEPT !.goOn = k]
    BY <1>2 DEF CloseClients
  <2>2. k \in Nat
    BY <1>1, ClientsFinite
  <2> HIDE DEF gone, k
  <2>3. daemon' \in DaemonState /\ daemon'.todo = {} /\ daemon'.nread = daemon.nread
    BY <1>1, <2>1, <2>2 DEF DaemonState
  <2> QED
    BY <1>1, <2>1, <2>3, ClosingStep, ZenonT(30)
<1>3. CASE TrapExit
  <2> DEFINE all == DOMAIN conns
  <2>1. /\ conns' = [c \in DOMAIN conns |->
                       IF c \in all THEN [conns[c] EXCEPT !.server = "closed"] ELSE conns[c]]
        /\ daemon' = [daemon EXCEPT !.at = "down"]
    BY <1>3 DEF TrapExit
  <2>2. daemon' \in DaemonState /\ daemon'.todo = {} /\ daemon'.nread = daemon.nread
    BY <1>1, <2>1 DEF DaemonState
  <2> HIDE DEF all
  <2> QED
    BY <1>1, <2>1, <2>2, ClosingStep, ZenonT(30)
<1> QED
  BY <1>2, <1>3

\* A process closes its end, by a command or because the daemon has gone.
LEMMA CloseStep ==
    ASSUME TrapInv, NEW p, TnmSnmpNmtrapdClose(p), daemon' = daemon
    PROVE  TrapInv'
<1> DEFINE c == tproc[p].channel
<1>1. CASE c = 0
  <2>1. conns' = conns
    BY <1>1 DEF TnmSnmpNmtrapdClose
  <2> QED
    BY <2>1, TrapSame
<1>2. CASE c # 0
  <2>1. conns' = Unregister(conns, c)
    BY <1>2 DEF TnmSnmpNmtrapdClose
  <2> HIDE DEF c
  <2> QED
    BY <2>1, UnregisterStep
<1> QED
  BY <1>1, <1>2

\* The steps of a process.
LEMMA ProcessStep ==
    ASSUME TrapInv, NEW p \in Procs,
           \/ TnmSnmpNmtrapdOpen(p) \/ Retry(p) \/ CloseListener(p)
           \/ \E c \in DOMAIN conns : TrapProc(p, c)
    PROVE  TrapInv'
<1> DEFINE c == tproc[p].channel
<1>1. CASE TnmSnmpNmtrapdOpen(p)
  <2>1. CASE c # 0
    <3>1. conns' = [conns EXCEPT ![c].refs = @ + 1] /\ daemon' = daemon
      BY <1>1, <2>1 DEF TnmSnmpNmtrapdOpen
    <3> HIDE DEF c
    <3> QED
      BY <3>1, RefsStep, ZenonT(30)
  <2>2. CASE c = 0 /\ daemon.at \notin {"down", "starting"}
    BY <1>1, <2>2, ConnectStep DEF TnmSnmpNmtrapdOpen
  <2>3. CASE c = 0 /\ daemon.at \in {"down", "starting"}
    BY <1>1, <2>3, IdleSteps DEF TnmSnmpNmtrapdOpen
  <2> QED
    BY <2>1, <2>2, <2>3
<1>2. CASE Retry(p)
  <2>1. daemon' = daemon /\ (Connect(p) \/ conns' = conns)
    BY <1>2 DEF Retry
  <2> QED
    BY <2>1, ConnectStep, TrapSame
<1>3. CASE CloseListener(p)
  BY <1>3, CloseStep DEF CloseListener
<1>4. ASSUME NEW d \in DOMAIN conns, TrapProc(p, d) PROVE TrapInv'
  <2>1. CASE c = 0
    <3>1. /\ conns' = [e \in DOMAIN conns |->
                         IF conns[e].proc = p
                         THEN [conns[e] EXCEPT !.open = FALSE, !.queue = <<>>]
                         ELSE conns[e]]
          /\ daemon' = daemon
      BY <1>4, <2>1, ZenonT(30) DEF TrapProc
    <3> QED
      BY <3>1, DeadStep, ZenonT(30)
  <2>2. CASE c # 0
    <3>1. TrapRecv(p, c) /\ daemon' = daemon
      BY <1>4, <2>2 DEF TrapProc
    <3>2. CASE TnmSnmpNmtrapdClose(p)
      BY <3>1, <3>2, CloseStep
    <3>3. CASE ~ TnmSnmpNmtrapdClose(p)
      <4>1. /\ conns[c].queue # <<>>
            /\ conns' = [conns EXCEPT ![c].queue = Tail(@),
                                      ![c].got = Append(@, Head(conns[c].queue))]
        BY <3>1, <3>3 DEF TrapRecv
      <4> HIDE DEF c
      <4> QED
        BY <3>1, <4>1, RecvStep, ZenonT(30)
    <3> QED
      BY <3>2, <3>3
  <2> QED
    BY <2>1, <2>2
<1> QED
  BY <1>1, <1>2, <1>3, <1>4

\* Every step keeps the connections in order.
LEMMA TrapStep == TrapInv /\ [TrapNext]_trapVars => TrapInv'
<1> SUFFICES ASSUME TrapInv, [TrapNext]_trapVars PROVE TrapInv'
  OBVIOUS
<1>1. CASE \E p \in Procs : TnmSnmpNmtrapdOpen(p) \/ Retry(p) \/ CloseListener(p)
  BY <1>1, ProcessStep
<1>2. CASE \E p \in Procs, c \in DOMAIN conns : TrapProc(p, c)
  BY <1>2, ProcessStep
<1>3. CASE Start \/ Forwarded
  BY <1>3, IdleSteps DEF Start, Forwarded
<1>4. CASE Accept
  BY <1>4, AcceptStep
<1>5. CASE RecvTrap
  BY <1>5, ReadStep
<1>6. CASE \E c \in DOMAIN conns, ok \in BOOLEAN : daemon.todo # {} /\ ForwardTrap(c, ok)
  BY <1>6, ForwardStep
<1>7. CASE CloseClients \/ TrapExit
  BY <1>7, ClosingSteps
<1>8. CASE \E s \in {"trap_s", "mcast_s"} : SendTrap(s)
  BY <1>8, TrapSame DEF SendTrap
<1>9. CASE UNCHANGED trapVars
  BY <1>9, TrapSame DEF trapVars
<1> QED
  BY <1>1, <1>2, <1>3, <1>4, <1>5, <1>6, <1>7, <1>8, <1>9 DEF TrapNext, DaemonNext

\* Whatever the number of processes, connections and traps and the room of a
\* connection, a client of nmtrapd holds exactly the traps read since it was
\* accepted, each once and in order, as long as both ends are open
\* (nmtrapd.c:403-507, tnmUnixSnmp.c:253-300).
THEOREM TrapsOrdered == TrapSpec => []TrapsInOrder
<1>1. TrapInit => TrapInv
  BY DEF TrapInit, TrapInv, Round, Down, DaemonState, Clients
<1>2. TrapInv => TrapsInOrder
  BY HeldInOrder
<1> QED
  BY <1>1, <1>2, TrapStep, PTL DEF TrapSpec

=============================================================================
