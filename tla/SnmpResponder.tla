--------------------------- MODULE SnmpResponder ---------------------------
(***************************************************************************)
(* What a Tnm process does with the requests and notifications it          *)
(* receives: the walk of TnmSnmpDecode() over the sessions, the agent of   *)
(* tnmSnmpAgent.c with its cache of replies, and the scripts it evaluates  *)
(* on the way.  A script may enter the event loop and so take the next     *)
(* packet before this one is done with: frames is the C stack, innermost   *)
(* first.                                                                  *)
(*                                                                         *)
(* An OID is a number.  Of a value only its origin is kept: the set        *)
(* requests each session had begun and the time when it was read.          *)
(***************************************************************************)
EXTENDS Integers, Sequences

CONSTANTS
    RSessions,          \* tnmSnmpList: [type, version, community, binding]
    Packets,            \* [from, version, community, type, id, oids]
    Served,             \* the OIDs with an instance
    CacheSize,          \* CACHE_SIZE
    CacheTime,          \* the five seconds a reply stays in the cache
    MaxPackets, MaxDepth, MaxClock

ASSUME ResponderAssumption ==
    /\ CacheSize \in Nat \ {0} /\ CacheTime \in Nat
    /\ Len(RSessions) \in Nat
    /\ \A pkt \in Packets : pkt.oids \in Seq(Int)

VARIABLES
    frames, cache, last, rclock,
    setsBegun,              \* per session, the set requests begun
    answered,           \* per session, the youngest of them that was answered
    shared,             \* a slot was taken from a request still executed
    reply,              \* the reply sent in this step
    packets             \* packets received

respVars == <<frames, cache, last, rclock, setsBegun, answered, shared, reply, packets>>

Ids == 1 .. Len(RSessions)
noReply == [to |-> 0]
NOERROR == 0
NOSUCHNAME == 2
GENERR == 5

EmptySlot == [session |-> 0, asked |-> <<>>, addr |-> 0, id |-> 0, status |-> NOERROR,
              vbl |-> <<>>, timestamp |-> 0]

RespInit ==
    /\ frames = <<>>
    /\ cache = [i \in 0 .. CacheSize - 1 |-> EmptySlot]
    /\ last = 0
    /\ rclock = 1
    /\ setsBegun = [s \in Ids |-> 0]
    /\ answered = [s \in Ids |-> 0]
    /\ shared = FALSE
    /\ reply = noReply
    /\ packets = 0

Top == Head(frames)
Session == RSessions[Top.s]

\* The innermost frame goes on.
Goto(f) == frames' = [frames EXCEPT ![1] = f]
At(pc) == frames # <<>> /\ Top.pc = pc

---------------------------------------------------------------------------
(* The cache.                                                              *)

\* The ring does not advance.
MutCacheGet(f) ==
    /\ last' = last
    /\ cache' = [cache EXCEPT ![last] =
          [EmptySlot EXCEPT !.session = f.s, !.asked = f.pkt.oids, !.addr = f.pkt.from,
                            !.timestamp = rclock]]

\* The slot after the last one, whoever may still be filling it.
CacheGet(f) ==
    LET slot == (last + 1) % CacheSize
    IN  /\ last' = slot
        /\ cache' = [cache EXCEPT ![slot] =
              [EmptySlot EXCEPT !.session = f.s, !.asked = f.pkt.oids, !.addr = f.pkt.from,
                                !.timestamp = rclock]]

\* The replies to the same request that are not too old.
CacheHit(f) ==
    {i \in DOMAIN cache : /\ f.pkt.id # 0
                          /\ cache[i].id = f.pkt.id
                          /\ cache[i].session = f.s
                          /\ cache[i].timestamp # 0
                          /\ rclock - cache[i].timestamp <= CacheTime
                          /\ cache[i].asked = f.pkt.oids}

\* The replies forgotten to be cleared.
MutCacheClear(s) == cache

CacheClear(s) ==
    [i \in DOMAIN cache |->
        IF cache[i].session = s THEN [cache[i] EXCEPT !.timestamp = 0] ELSE cache[i]]

---------------------------------------------------------------------------
(* Packets and the walk over the sessions.                                 *)

Scripts == {"recv", "begin", "get", "set", "end", "notify"}

\* AgentProc() and TrapProc(), from the event loop or from one a script runs.
AgentProc(pkt) ==
    /\ packets < MaxPackets
    /\ frames # <<>> => Top.pc \in Scripts /\ Len(frames) < MaxDepth
    /\ packets' = packets + 1
    /\ frames' = <<[pkt |-> pkt, type |-> pkt.type, s |-> 1, pc |-> "walk", i |-> 1,
                    slot |-> 0, taken |-> 0, mine |-> 0, floor |-> answered]>> \o frames
    /\ reply' = noReply
    /\ UNCHANGED <<cache, last, rclock, setsBegun, answered, shared>>

\* Communities do not matter to notifications.
Authentic(session, pkt) ==
    /\ pkt.version = session.version
    /\ pkt.type \in {"trap1", "trap2", "inform"} \/ pkt.community = session.community

RequestTypes == {"get", "getnext", "getbulk", "set"}

\* What the current session does with the packet.
Matches(session, f) ==
    /\ Authentic(session, f.pkt)
    /\ \/ /\ f.type = "trap1" /\ session.version = "v1"
          /\ session.type = "listener" /\ session.binding = "trap"
       \/ /\ f.type = "trap2" /\ session.version # "v1"
          /\ session.type = "listener" /\ session.binding = "trap"
       \/ f.type = "inform" /\ session.version # "v1" /\ session.binding = "inform"
       \/ /\ f.type \in RequestTypes /\ session.type = "responder"
          /\ f.type = "getbulk" => session.version # "v1"

TnmSnmpDecode ==
    /\ At("walk")
    /\ IF Top.s > Len(RSessions) THEN frames' = Tail(frames)
       ELSE IF ~ Matches(Session, Top) THEN Goto([Top EXCEPT !.s = @ + 1])
       ELSE Goto([Top EXCEPT !.pc = IF Top.type \in RequestTypes THEN "recv" ELSE "notify"])
    /\ reply' = noReply
    /\ UNCHANGED <<cache, last, rclock, setsBegun, answered, shared, packets>>

\* The callback of a notification has been evaluated.  The response to an
\* inform is the inform itself with its type changed.
Notified ==
    /\ At("notify")
    /\ reply' = IF Top.type = "inform"
                THEN [to |-> Top.pkt.from, id |-> Top.pkt.id, status |-> NOERROR,
                      vbl |-> <<>>, cached |-> FALSE, frame |-> Top]
                ELSE noReply
    /\ Goto([Top EXCEPT !.pc = "walk", !.s = @ + 1,
               !.type = IF @ = "inform" THEN "response" ELSE @])
    /\ UNCHANGED <<cache, last, rclock, setsBegun, answered, shared, packets>>

---------------------------------------------------------------------------
(* The agent.                                                              *)

Send(slot, cached) ==
    reply' = [to |-> slot.addr, id |-> slot.id, status |-> slot.status,
              vbl |-> slot.vbl, cached |-> cached, frame |-> Top]

\* A request is looked up in the cache; a set request clears it first.
TnmSnmpAgentRequest ==
    /\ At("recv")
    /\ IF Top.type = "set"
       THEN /\ cache' = CacheClear(Top.s)
            /\ setsBegun' = [setsBegun EXCEPT ![Top.s] = @ + 1]
            /\ Goto([Top EXCEPT !.pc = "begin", !.mine = setsBegun[Top.s] + 1])
            /\ reply' = noReply
       ELSE IF CacheHit(Top) # {}
       THEN LET hit == CHOOSE i \in CacheHit(Top) : \A j \in CacheHit(Top) : i <= j
            IN  /\ cache' = [cache EXCEPT ![hit].addr = Top.pkt.from]
                /\ Send(cache'[hit], TRUE)
                /\ Goto([Top EXCEPT !.pc = "walk", !.s = @ + 1])
                /\ UNCHANGED setsBegun
       ELSE /\ Goto([Top EXCEPT !.pc = "begin"])
            /\ reply' = noReply
            /\ UNCHANGED <<cache, setsBegun>>
    /\ UNCHANGED <<last, rclock, answered, shared, packets>>

Executing(f) == f.pc \in {"get", "set", "end"}

\* The frames further out learn that a slot was taken.
Begin ==
    /\ At("begin")
    /\ CacheGet(Top)
    /\ frames' = [k \in 1 .. Len(frames) |->
          IF k = 1 THEN [Top EXCEPT !.pc = IF Top.type = "set" THEN "set" ELSE "var",
                                    !.i = 1, !.slot = last', !.taken = 0]
          ELSE [frames[k] EXCEPT !.taken = @ + 1]]
    /\ shared' = (shared \/ \E k \in 2 .. Len(frames) :
                     Executing(frames[k]) /\ frames[k].taken + 1 = CacheSize)
    /\ reply' = noReply
    /\ UNCHANGED <<rclock, setsBegun, answered, packets>>

Instance(type, oid) ==
    LET found == IF type = "get" THEN {oid} \cap Served ELSE {k \in Served : k > oid}
    IN  {k \in found : \A j \in found : k <= j}

\* A variable is added to the reply.
Put(oid, value) ==
    cache' = [cache EXCEPT ![Top.slot].vbl =
                 Append(@, [oid |-> oid, value |-> value, epoch |-> setsBegun, time |-> rclock])]

\* One variable of a get request up to the evaluation of its binding.
GetVariable ==
    /\ At("var")
    /\ IF Top.i > Len(Top.pkt.oids)
       THEN Goto([Top EXCEPT !.pc = "done"]) /\ UNCHANGED cache
       ELSE IF Instance(Top.type, Top.pkt.oids[Top.i]) # {}
       THEN Goto([Top EXCEPT !.pc = "get"]) /\ UNCHANGED cache
       ELSE IF Session.version = "v1"
       THEN /\ cache' = [cache EXCEPT ![Top.slot].status = NOSUCHNAME]
            /\ Goto([Top EXCEPT !.pc = "done"])
       ELSE /\ Put(Top.pkt.oids[Top.i], FALSE)
            /\ Goto([Top EXCEPT !.i = @ + 1])
    /\ reply' = noReply
    /\ UNCHANGED <<last, rclock, setsBegun, answered, shared, packets>>

\* The binding is done and may have failed; otherwise the variable is read.
GetRequest(ok) ==
    /\ At("get")
    /\ IF ok
       THEN /\ \E k \in Instance(Top.type, Top.pkt.oids[Top.i]) : Put(k, TRUE)
            /\ Goto([Top EXCEPT !.pc = "var", !.i = @ + 1])
       ELSE /\ cache' = [cache EXCEPT ![Top.slot].status = GENERR]
            /\ Goto([Top EXCEPT !.pc = "done"])
    /\ reply' = noReply
    /\ UNCHANGED <<last, rclock, setsBegun, answered, shared, packets>>

\* The set request itself is the subject of SnmpAgentSet; here it succeeds or
\* fails after its bindings were evaluated.
SetRequest(ok) ==
    /\ At("set")
    /\ cache' = [cache EXCEPT ![Top.slot].status = IF ok THEN NOERROR ELSE GENERR]
    /\ Goto([Top EXCEPT !.pc = "done"])
    /\ reply' = noReply
    /\ UNCHANGED <<last, rclock, setsBegun, answered, shared, packets>>

\* The variables of a failed request are those of the request.
Complete ==
    /\ At("done")
    /\ cache' = [cache EXCEPT ![Top.slot].id = Top.pkt.id,
                              ![Top.slot].vbl = IF cache[Top.slot].status # NOERROR THEN <<>> ELSE @]
    /\ Goto([Top EXCEPT !.pc = "end"])
    /\ reply' = noReply
    /\ UNCHANGED <<last, rclock, setsBegun, answered, shared, packets>>

\* The reply is sent, as an error when it could not be encoded.
SendReply(encodes) ==
    /\ At("end")
    /\ cache' = IF encodes THEN cache
                ELSE [cache EXCEPT ![Top.slot].status = GENERR, ![Top.slot].vbl = <<>>]
    /\ Send(cache'[Top.slot], FALSE)
    /\ answered' = IF Top.mine <= answered[Top.s] THEN answered
                   ELSE [answered EXCEPT ![Top.s] = Top.mine]
    /\ Goto([Top EXCEPT !.pc = "walk", !.s = @ + 1, !.mine = 0])
    /\ UNCHANGED <<last, rclock, setsBegun, shared, packets>>

Tick ==
    /\ rclock < MaxClock
    /\ rclock' = rclock + 1
    /\ reply' = noReply
    /\ UNCHANGED <<frames, cache, last, setsBegun, answered, shared, packets>>

RespNext ==
    \/ \E pkt \in Packets : AgentProc(pkt)
    \/ TnmSnmpDecode \/ Notified \/ TnmSnmpAgentRequest \/ Begin \/ GetVariable
    \/ \E ok \in BOOLEAN : GetRequest(ok) \/ SetRequest(ok) \/ SendReply(ok)
    \/ Complete \/ Tick

RespSpec == RespInit /\ [][RespNext]_respVars

---------------------------------------------------------------------------
(* Properties.                                                             *)

Sent == reply # noReply

\* A request that arrived after a set request of its session was answered is
\* never answered with a value read before that set request began, and the
\* values of a reply from the cache are no older than the time the cache keeps
\* them: however requests, retransmissions and the requests their scripts let
\* in are nested.
CachedFresh ==
    Sent => \A k \in 1 .. Len(reply.vbl) : reply.vbl[k].value =>
                /\ reply.vbl[k].epoch[reply.frame.s] >= reply.frame.floor[reply.frame.s]
                /\ reply.cached => rclock - reply.vbl[k].time <= CacheTime

\* Every reply goes to the sender of the request it answers, carries its
\* identifier and, unless it is an error, one binding for each of its variables
\* in their order, although the reply is built in a slot of a ring that nested
\* requests use as well: it takes as many of them as the ring has slots, while
\* one request is executed, to mix up two replies.
OwnReply ==
    LET f == reply.frame
        Name(k) == Instance(f.type, f.pkt.oids[k]) \cup {f.pkt.oids[k]}
    IN  (Sent /\ ~ shared) =>
            /\ reply.to = f.pkt.from
            /\ reply.id = f.pkt.id
            /\ (f.type \in RequestTypes \ {"set"} /\ reply.status = NOERROR) =>
                  /\ Len(reply.vbl) = Len(f.pkt.oids)
                  /\ \A k \in 1 .. Len(reply.vbl) : reply.vbl[k].oid \in Name(k)
=============================================================================
