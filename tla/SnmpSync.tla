----------------------------- MODULE SnmpSync -----------------------------
(***************************************************************************)
(* Synchronous SNMP requests and the synchronous walk on top of them       *)
(* (tnm/snmp/tnmSnmpSend.c, tnmSnmpTcl.c).  A request is sent again until  *)
(* an answer with its identifier arrives; answers are lost, duplicated and *)
(* late, and late ones meet the next request.  The walk asks for ever more *)
(* rows at a time from an agent that may cut an answer short.  An object   *)
(* identifier is a number: column c has the instances 10 c + 1, 10 c + 2.. *)
(***************************************************************************)
EXTENDS Naturals, Sequences, FiniteSets, FiniteSetsExt, SequencesExt

CONSTANTS
    Walks,              \* the lists of columns that are walked
    Instances,          \* the instances of the agent
    Retries,            \* retries of the session
    WarpFactor,         \* the growth of the number of repetitions
    WarpLimit,          \* its limit
    MaxRequests,        \* the most requests issued
    MaxNet              \* the most answers on their way at a time

ASSUME SnmpSyncAssumption == {Retries, WarpFactor, WarpLimit, MaxRequests, MaxNet} \subseteq Nat

VARIABLES
    version,            \* of the session: "v1", "v2c" or "v3"
    net,                \* answers on their way
    sync,               \* the request in progress
    walk,               \* the walk in progress
    requestId,          \* the last identifier used
    strayError          \* an error of another request was taken for an answer

syncVars == <<version, net, sync, walk, requestId, strayError>>

Idle == [at |-> "idle", retry |-> 0, vbl |-> <<>>, max |-> 0, code |-> "none"]
NoWalk == [cols |-> <<>>, repeaters |-> 0, limit |-> WarpLimit, rows |-> <<>>,
           shown |-> <<>>, result |-> "none"]

SyncInit ==
    /\ version \in {"v1", "v2c", "v3"}
    /\ net = {} /\ sync = Idle /\ walk = NoWalk /\ requestId = 0 /\ strayError = FALSE

InTree(col, oid) == oid \div 10 = col

---------------------------------------------------------------------------
(* External: the agent.  A GETBULK (an SNMPv1 agent gets a GETNEXT)        *)
(* returns the successors of the identifiers row by row, and may stop      *)
(* anywhere after the first varbind.                                       *)

Successor(vb) ==
    LET after == {o \in Instances : o > vb.oid}
    IN  IF vb.end \/ after = {} THEN [vb EXCEPT !.end = TRUE]
        ELSE [oid |-> Min(after), end |-> FALSE]

BulkRows(vbl, max) ==
    LET row[r \in 0 .. max] ==
          IF r = 0 THEN vbl ELSE [i \in DOMAIN vbl |-> Successor(row[r - 1][i])]
    IN  FlattenSeq([r \in 1 .. max |-> row[r]])

\* The answers to request id.  An SNMPv3 agent may send a report instead.
Answers(id, vbl, max) ==
    LET rows == BulkRows(vbl, IF version = "v1" THEN 1 ELSE max)
        ok(n) == [id |-> id, kind |-> "ok", vbl |-> SubSeq(rows, 1, n)]
    IN  IF version = "v1"
        THEN IF \E i \in DOMAIN rows : rows[i].end
             THEN {[id |-> id, kind |-> "noSuchName", vbl |-> <<>>]}
             ELSE {ok(Len(rows))}
        ELSE {ok(n) : n \in 1 .. Len(rows)}
               \cup (IF version = "v3" THEN {[id |-> id, kind |-> "report", vbl |-> <<>>]} ELSE {})

---------------------------------------------------------------------------
(* The synchronous request.                                                *)

\* The request, or its answer, may be lost.
SendSync ==
    /\ sync.at = "send"
    /\ \E arrived \in {{}} \cup {{a} : a \in Answers(requestId, sync.vbl, sync.max)} :
          net' = net \cup arrived /\ Cardinality(net') <= MaxNet
    /\ sync' = [sync EXCEPT !.at = "wait"]
    /\ UNCHANGED <<version, walk, requestId, strayError>>

\* No answer in time.
TnmSnmpWait ==
    /\ sync.at = "wait"
    /\ sync' = IF sync.retry + 1 <= Retries
               THEN [sync EXCEPT !.at = "send", !.retry = @ + 1]
               ELSE [sync EXCEPT !.at = "done", !.code = "noResponse"]
    /\ UNCHANGED <<version, net, walk, requestId, strayError>>

\* The identifier of an answer is compared only if it is not an error.  A
\* report has the packet sent again as it is.
TnmSnmpDecode(a) ==
    /\ sync' = CASE a.kind = "report" ->
                      IF sync.retry <= Retries + 1
                      THEN [sync EXCEPT !.at = "send", !.retry = @ + 1]
                      ELSE [sync EXCEPT !.retry = @ + 1]
                 [] a.kind = "ok" ->
                      IF a.id = requestId
                      THEN [sync EXCEPT !.at = "done", !.code = "ok", !.vbl = a.vbl]
                      ELSE sync
                 [] OTHER -> [sync EXCEPT !.at = "done", !.code = a.kind]
    /\ strayError' = (strayError \/ (a.kind = "noSuchName" /\ a.id # requestId))

\* The answer is taken from the network, which may hold another copy of it.
RecvSync(a, again) ==
    /\ sync.at = "wait" /\ sync.retry <= Retries + 2
    /\ net' = IF again THEN net ELSE net \ {a}
    /\ TnmSnmpDecode(a)
    /\ UNCHANGED <<version, walk, requestId>>

---------------------------------------------------------------------------
(* The walk.                                                               *)

SyncWalk(cols) ==
    /\ sync.at = "idle" /\ walk.cols = <<>> /\ requestId < MaxRequests
    /\ walk' = [NoWalk EXCEPT !.cols = cols]
    /\ sync' = [Idle EXCEPT !.vbl = [i \in DOMAIN cols |-> [oid |-> 10 * cols[i], end |-> FALSE]],
                            !.at = "next"]
    /\ UNCHANGED <<version, net, requestId, strayError>>

\* The next request starts from the last row shown.
NextRequest ==
    LET n == IF walk.repeaters < walk.limit THEN walk.repeaters + WarpFactor ELSE walk.repeaters
        k == n \div Len(walk.cols)
    IN  /\ sync.at = "next" /\ requestId < MaxRequests
        /\ requestId' = requestId + 1
        /\ walk' = [walk EXCEPT !.repeaters = n]
        /\ sync' = [sync EXCEPT !.at = "send", !.retry = 0, !.max = IF k > 0 THEN k ELSE 1]
        /\ UNCHANGED <<version, net, strayError>>

Finish(result) ==
    /\ walk' = [walk EXCEPT !.result = result, !.rows = <<>>]
    /\ sync' = [Idle EXCEPT !.at = "end"]

\* An incomplete last row is dropped and the growth stops below the number
\* that was too large.
Response ==
    LET len == Len(walk.cols)
        got == Len(sync.vbl)
    IN  /\ sync.at = "done"
        /\ CASE sync.code = "noSuchName" -> Finish("ok")
             [] sync.code = "noResponse" \/ got < len -> Finish("error")
             [] OTHER ->
                /\ walk' = IF got % len = 0 THEN [walk EXCEPT !.rows = sync.vbl]
                           ELSE LET n == walk.repeaters - WarpFactor
                                IN  [walk EXCEPT !.rows = SubSeq(sync.vbl, 1, got - (got % len)),
                                       !.repeaters = IF walk.limit > 0 THEN n ELSE @,
                                       !.limit = IF walk.limit > 0 THEN n ELSE @]
                /\ sync' = [sync EXCEPT !.at = "rows"]
        /\ UNCHANGED <<version, net, requestId, strayError>>

WalkCheck(cols, row) ==
    \A i \in DOMAIN cols : InTree(cols[i], row[i].oid) /\ ~ row[i].end

\* Mutant: the next row starts one variable later.
MutShowRow(break) ==
    LET len == Len(walk.cols)
        row == SubSeq(walk.rows, 1, len)
    IN  /\ sync.at = "rows" /\ ~ break
        /\ IF walk.rows = <<>> THEN sync' = [sync EXCEPT !.at = "next"] /\ UNCHANGED walk
           ELSE IF Len(walk.rows) < len \/ ~ WalkCheck(walk.cols, row) THEN Finish("ok")
           ELSE /\ walk' = [walk EXCEPT !.rows = Tail(@),
                              !.shown = Append(@, [i \in 1 .. len |-> row[i].oid])]
                /\ sync' = [sync EXCEPT !.vbl = row]
        /\ UNCHANGED <<version, net, requestId, strayError>>

\* One row: the script is evaluated and may end the walk.
ShowRow(break) ==
    LET len == Len(walk.cols)
        row == SubSeq(walk.rows, 1, len)
    IN  /\ sync.at = "rows"
        /\ IF walk.rows = <<>> THEN ~ break /\ sync' = [sync EXCEPT !.at = "next"] /\ UNCHANGED walk
           ELSE IF ~ WalkCheck(walk.cols, row) THEN ~ break /\ Finish("ok")
           ELSE IF break
           THEN /\ walk' = [walk EXCEPT !.result = "break", !.rows = <<>>]
                /\ sync' = [Idle EXCEPT !.at = "end"]
           ELSE /\ walk' = [walk EXCEPT !.rows = SubSeq(@, len + 1, Len(@)),
                              !.shown = Append(@, [i \in 1 .. len |-> row[i].oid])]
                /\ sync' = [sync EXCEPT !.vbl = row]
        /\ UNCHANGED <<version, net, requestId, strayError>>

\* The script that walked goes on.
WalkReturned ==
    /\ sync.at = "end"
    /\ sync' = Idle /\ walk' = NoWalk
    /\ UNCHANGED <<version, net, requestId, strayError>>

SyncNext ==
    \/ \E cols \in Walks : SyncWalk(cols)
    \/ NextRequest
    \/ SendSync
    \/ TnmSnmpWait
    \/ \E a \in net, again \in BOOLEAN : RecvSync(a, again)
    \/ Response
    \/ \E break \in BOOLEAN : ShowRow(break)
    \/ WalkReturned

---------------------------------------------------------------------------
Column(c) == SetToSortSeq({o \in Instances : InTree(c, o)}, <)

\* A walk shows the rows of the columns from the first on, each once and in
\* order, whatever is lost, repeated, late or cut, and however the number of
\* rows asked for at a time grows; one that ends without an error has shown
\* them all, provided no error answer to an earlier request was taken for an
\* answer to a request of the walk (tnmSnmpTcl.c:2504, tnmSnmpSend.c:271).
WalkExact ==
    LET columns == [i \in DOMAIN walk.cols |-> Column(walk.cols[i])]
        height == Min({Len(columns[i]) : i \in DOMAIN columns})
    IN  walk.cols # <<>> =>
          /\ Len(walk.shown) <= height
          /\ \A j \in DOMAIN walk.shown :
                walk.shown[j] = [i \in DOMAIN columns |-> columns[i][j]]
          /\ walk.result = "ok" /\ ~ strayError => Len(walk.shown) = height
===========================================================================
