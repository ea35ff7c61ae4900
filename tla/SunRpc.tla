------------------------------ MODULE SunRpc ------------------------------
(***************************************************************************)
(* The sunrpc command (tnm/generic/tnmSunRpc.c): remote procedure calls    *)
(* whose messages may be cut short or lost, what the sub-commands make of  *)
(* the answers, and the list of the etherstat clients, whose counters are  *)
(* reported as differences since the last report.  Commands hold rpcMutex, *)
(* so each is one step.                                                    *)
(***************************************************************************)
EXTENDS Xdr

CONSTANTS
    RpcNames,           \* names the user knows hosts by
    RpcHosts,           \* hosts that run the etherstat daemon
    EtherModulus,       \* stands for 2^32 in the packet counters
    SunrpcGetHostname(_),   \* the canonical name of a host
    Depth,              \* the longest list in an answer
    MaxEtherOpens       \* the most unmatched "ether open"s of a host

ASSUME SunRpcAssumption == Depth \in Nat /\ MaxEtherOpens \in Nat

VARIABLES
    rpc,                \* the last call, what both sides saw, and its result
    etherList,          \* the EtherClient records
    counted,            \* counted[h]: the packets h has counted
    opened,             \* opened[h]: opens of h that succeeded, less closes
    reported            \* reported[h]: the sum of the reports since h's first open

etherVars == <<etherList, counted, opened, reported>>
rpcVars == <<rpc, etherVars>>

NoCall == [at |-> "none"]

RpcInit ==
    /\ rpc = NoCall
    /\ etherList = <<>>
    /\ counted = [h \in RpcHosts |-> 0]
    /\ opened = [h \in RpcHosts |-> 0]
    /\ reported = [h \in RpcHosts |-> 0]

---------------------------------------------------------------------------
(* One call of a stub.  The request and the reply are cut after the given  *)
(* number of units; a stub returns NULL when clnt_call() fails.            *)

\* clnt_call(): external.
Transmit(t, v, cut) ==
    IF Encodes(t, v) THEN Decode(t, SubSeq(Encode(t, v), 1, cut)) ELSE Refused

CallResult(stub, args, results, cut, cut2) ==
    LET seen == Transmit(stub.args, args, cut)
        back == IF seen.ok THEN Transmit(stub.results, results, cut2) ELSE Refused
    IN  [at |-> "returned", stub |-> 0, shown |-> <<>>, args |-> args, answer |-> results,
         whole |-> /\ cut = Len(Encode(stub.args, args))
                   /\ cut2 = Len(Encode(stub.results, results)),
         seen |-> seen, back |-> back]

\* The inputs tried: either the arguments or the results are at an edge, and
\* one of the two messages may be cut.
Inputs(stub) ==
    LET a == Plain(stub.args)
        r == Plain(stub.results)
    IN  {<<a, v>> : v \in Corners(stub.results, Depth)}
          \cup {<<v, r>> : v \in Corners(stub.args, Depth)}

CutLimit == 50          \* longer messages are cut next to their ends only
Cuts(t, v) ==
    LET n == Len(Encode(t, v))
    IN  IF n <= CutLimit THEN 0 .. n ELSE {0, 1, n - 1, n}

CutsArgs(stub, in) ==
    {<<cut, Len(Encode(stub.results, in[2]))>> : cut \in Cuts(stub.args, in[1])}
CutsResults(stub, in) ==
    {<<Len(Encode(stub.args, in[1])), cut>> : cut \in Cuts(stub.results, in[2])}

---------------------------------------------------------------------------
(* What the sub-commands show of an answer: a list, or the elements of the *)
(* named array.  "error" stands for TCL_ERROR.                             *)

\* The nodes of a linked list whose "next" pointer is field n.
RECURSIVE Nodes(_, _)
Nodes(list, n) ==
    IF list = <<>> THEN <<>> ELSE <<list[1]>> \o Nodes(list[1][n], n)

MapSeq(s, F(_)) == [i \in 1 .. Len(s) |-> F(s[i])]

SunrpcMount(ml) == MapSeq(Nodes(ml, 3), LAMBDA n : <<n[2], n[1]>>)

SunrpcExports(ex) ==
    MapSeq(Nodes(ex, 3),
           LAMBDA n : <<n[1], MapSeq(Nodes(n[2], 2), LAMBDA g : g[1])>>)

\* Every field is printed with %d, the unsigned ones too.
Signed(n) == IF n < Modulus \div 2 THEN n ELSE n - Modulus

\* cp_time, dk_xfer, the v_ and if_ counters in the order they are shown,
\* avenrun and the seconds of boottime and curtime.
SunrpcRstat(statp) ==
    MapSeq(statp[1] \o statp[2]
             \o <<statp[3], statp[4], statp[5], statp[6], statp[7], statp[12]>>
             \o <<statp[8], statp[9], statp[16], statp[10], statp[11]>>
             \o statp[13] \o <<statp[14][1], statp[15][1]>>, Signed)

\* TCL_APPEND_VALUE appends to the elements that have the same index.
PcnfsQueue(res) ==
    IF res[1] \in {1, 2} THEN <<"error">>
    ELSE IF res[1] # 0 THEN <<>>
    ELSE LET jobs == Nodes(res[6], 9)
         IN  [p \in {jobs[i][1] : i \in DOMAIN jobs} |->
                FlattenSeq(MapSeq(SelectSeq(jobs, LAMBDA j : j[1] = p),
                                  LAMBDA j : SubSeq(j, 2, 8)))]

PcnfsList(res) ==
    LET printers == Nodes(res[2], 5)
    IN  [p \in {printers[i][1] : i \in DOMAIN printers} |->
           FlattenSeq(MapSeq(SelectSeq(printers, LAMBDA j : j[1] = p),
                             LAMBDA j : SubSeq(j, 2, 4)))]

PcnfsStatus(res) ==
    CASE res[1] \in {1, 2} -> <<"error">>
      [] res[1] = 0 -> SubSeq(res, 2, 7)
      [] OTHER -> <<>>

\* The speed of each procedure, whose name is its number here.
PcnfsInfo(res) ==
    MapSeq(res[3], LAMBDA f : CASE f = 100 -> "fast" [] f = 2000 -> "slow"
                                [] f = -1 -> "unsupported" [] OTHER -> "number")

Show(name, v) ==
    CASE name = "mountproc_dump_1" -> SunrpcMount(v)
      [] name = "mountproc_export_1" -> SunrpcExports(v)
      [] name = "rstatproc_stats_3" -> SunrpcRstat(v)
      [] name = "pcnfsd2_pr_queue_2" -> PcnfsQueue(v)
      [] name = "pcnfsd2_pr_list_2" -> PcnfsList(v)
      [] name = "pcnfsd2_pr_status_2" -> PcnfsStatus(v)
      [] name = "pcnfsd2_info_2" -> PcnfsInfo(v)
      [] OTHER -> <<>>

RpcCommand(i) ==
    \E in \in Inputs(Stubs[i]) :
        \E cuts \in CutsArgs(Stubs[i], in) \cup CutsResults(Stubs[i], in) :
            LET r == CallResult(Stubs[i], in[1], in[2], cuts[1], cuts[2])
            IN  /\ rpc' = [r EXCEPT !.stub = i,
                             !.shown = IF r.back.ok THEN Show(Stubs[i].name, r.back.v)
                                       ELSE <<"error">>]
                /\ UNCHANGED etherVars

---------------------------------------------------------------------------
(* sunrpc ether.  Two names may stand for one host, and a name may be      *)
(* unknown.  A command whose call is not answered changes nothing.         *)

ClientOf(h) == {i \in DOMAIN etherList : etherList[i].name = h}

SunrpcOpenEtherd(name) ==
    LET h == SunrpcGetHostname(name)
    IN  /\ h \in RpcHosts
        /\ opened[h] < MaxEtherOpens
        /\ IF ClientOf(h) # {}
           THEN /\ etherList' = [i \in DOMAIN etherList |->
                     IF i \in ClientOf(h)
                     THEN [etherList[i] EXCEPT !.refcnt = @ + 1] ELSE etherList[i]]
                /\ opened' = [opened EXCEPT ![h] = @ + 1]
                /\ UNCHANGED reported
           ELSE /\ etherList' = <<[name |-> h, refcnt |-> 0, estat |-> counted[h],
                                   first |-> counted[h]]>> \o etherList
                /\ opened' = [opened EXCEPT ![h] = 1]
                /\ reported' = [reported EXCEPT ![h] = 0]
        /\ UNCHANGED <<rpc, counted>>

SunrpcCloseEtherd(name) ==
    LET h == SunrpcGetHostname(name)
        p == CHOOSE i \in ClientOf(h) : \A j \in ClientOf(h) : i <= j
    IN  /\ ClientOf(h) # {}
        /\ etherList' = IF etherList[p].refcnt > 0
                        THEN [etherList EXCEPT ![p].refcnt = @ - 1]
                        ELSE RemoveAt(etherList, p)
        /\ opened' = [opened EXCEPT ![h] = @ - 1]
        /\ UNCHANGED <<rpc, counted, reported>>

\* Mutant: a report leaves the statistics it was made from in place.
MutSunrpcEtherd(name) ==
    LET h == SunrpcGetHostname(name)
        p == CHOOSE i \in ClientOf(h) : \A j \in ClientOf(h) : i <= j
    IN  /\ ClientOf(h) # {}
        /\ reported' = [reported EXCEPT ![h] =
                          (@ + (counted[h] - etherList[p].estat)) % EtherModulus]
        /\ UNCHANGED <<rpc, counted, opened, etherList>>

SunrpcEtherd(name) ==
    LET h == SunrpcGetHostname(name)
        p == CHOOSE i \in ClientOf(h) : \A j \in ClientOf(h) : i <= j
    IN  /\ ClientOf(h) # {}
        /\ reported' = [reported EXCEPT ![h] =
                          (@ + (counted[h] - etherList[p].estat)) % EtherModulus]
        /\ etherList' = [etherList EXCEPT ![p].estat = counted[h]]
        /\ UNCHANGED <<rpc, counted, opened>>

Packets(h, n) ==
    /\ counted' = [counted EXCEPT ![h] = (@ + n) % EtherModulus]
    /\ UNCHANGED <<rpc, etherList, opened, reported>>

RpcNext == \E i \in DOMAIN Stubs : rpc = NoCall /\ RpcCommand(i)

EtherNext ==
    \/ \E name \in RpcNames : SunrpcOpenEtherd(name) \/ SunrpcCloseEtherd(name)
                                \/ SunrpcEtherd(name)
    \/ \E h \in RpcHosts, n \in 1 .. EtherModulus - 1 : Packets(h, n)

---------------------------------------------------------------------------
(* Properties.                                                             *)

\* What the two sides of a remote procedure call see is exactly what the other
\* one sent, in all 41 procedures of the four protocols: a call returns a
\* result if and only if both messages arrived whole and no string or array in
\* them exceeds its limit (an overlong or truncated message is never passed on
\* as a shorter or different value), and no entry of a list in the answer is
\* lost on the way to the Tcl result.
RpcExact ==
    rpc # NoCall =>
        LET stub == Stubs[rpc.stub]
        IN  /\ rpc.back.ok <=> /\ rpc.whole
                               /\ Fits(stub.args, rpc.args)
                               /\ Fits(stub.results, rpc.answer)
            /\ rpc.back.ok => /\ rpc.seen.v = rpc.args
                              /\ rpc.back.v = rpc.answer
                              /\ rpc.back.rest = <<>>
                              /\ stub.name \in {"mountproc_dump_1", "mountproc_export_1"}
                                    => Len(rpc.shown) = Len(Nodes(rpc.answer, 3))

\* A host has an etherstat client exactly as long as it has been opened more
\* often than closed, under whichever of its names; and the differences
\* reported since the client was created add up to what the host counted, also
\* when its counters wrap around, so no packet is reported twice or never.
EtherReports ==
    \A h \in RpcHosts :
        /\ (opened[h] > 0) <=> (ClientOf(h) # {})
        /\ \A i \in ClientOf(h) :
              /\ Cardinality(ClientOf(h)) = 1
              /\ etherList[i].refcnt = opened[h] - 1
              /\ (etherList[i].first + reported[h]) % EtherModulus = etherList[i].estat

\* Neither a remote procedure call nor the ether statistics lose or invent data.
ReportsExact == RpcExact /\ EtherReports
=============================================================================
