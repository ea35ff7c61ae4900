------------------------ MODULE SnmpResponderProofs -------------------------
(***************************************************************************)
(* The replies of the agent are fresh and reach the sender of the request  *)
(* they answer, for any sessions, packets, variables, size of the ring and *)
(* depth of nesting.                                                       *)
(***************************************************************************)
EXTENDS SnmpResponder, SequenceTheorems, WellFoundedInduction, TLAPS

Types == {pkt.type : pkt \in Packets} \cup {"response"}
Pcs == {"walk", "recv", "begin", "var", "get", "set", "done", "end", "notify"}
Slots == 0 .. CacheSize - 1
Epochs == [Ids -> Nat]
Statuses == {NOERROR, NOSUCHNAME, GENERR}

Frame == [pkt : Packets, type : Types, s : Nat, pc : Pcs, i : Nat \ {0}, slot : Slots,
          taken : Nat, mine : Nat, floor : Epochs]
Binding == [oid : Int \cup Served, value : BOOLEAN, epoch : Epochs, time : Nat]
Slot == [session : Nat, asked : Seq(Int), addr : {pkt.from : pkt \in Packets} \cup {0},
         id : {pkt.id : pkt \in Packets} \cup {0}, status : Statuses,
         vbl : Seq(Binding), timestamp : Nat]

RespTypeOK ==
    /\ frames \in Seq(Frame)
    /\ cache \in [Slots -> Slot]
    /\ last \in Slots
    /\ rclock \in Nat
    /\ setsBegun \in Epochs /\ answered \in Epochs
    /\ shared \in BOOLEAN

\* What holds of the frame of a packet: where it may be, which set requests it
\* knows of, and which one it is itself.
FrameOK(f) ==
    /\ f.pc # "walk" => f.s \in Ids
    /\ f.s # 0
    /\ f.type \in {f.pkt.type, "response"}
    /\ f.pc \notin {"walk", "notify"} => f.type \in RequestTypes
    /\ f.pc \in {"walk", "recv", "notify"} => f.mine = 0
    /\ f.s \in Ids => f.mine <= setsBegun[f.s]
    /\ \A s \in Ids : f.floor[s] <= answered[s]

RespBase ==
    /\ RespTypeOK
    /\ \A s \in Ids : answered[s] <= setsBegun[s]
    /\ \A k \in DOMAIN frames : FrameOK(frames[k])
    /\ \A k \in DOMAIN frames : k # 1 => frames[k].pc \in Scripts

\* The frame fills a slot of the ring.
Building(f) == f.pc \in {"var", "get", "set", "done", "end"}

\* The values of a slot that may be sent from the cache were read after the last
\* set request of its session began, and after the slot was taken.
SlotFresh(c) ==
    c.timestamp # 0 /\ c.session \in Ids =>
        \A k \in DOMAIN c.vbl : /\ c.vbl[k].epoch[c.session] >= setsBegun[c.session]
                                /\ c.vbl[k].time >= c.timestamp

\* The values of a slot that a frame fills were read after its packet arrived.
FillFresh(f, c) ==
    \A k \in DOMAIN c.vbl : \A s \in Ids : c.vbl[k].epoch[s] >= f.floor[s]

FreshInv ==
    /\ \A i \in Slots : SlotFresh(cache[i]) /\ cache[i].timestamp <= rclock
    /\ \A k \in DOMAIN frames : Building(frames[k]) => FillFresh(frames[k], cache[frames[k].slot])

\* One binding for each variable so far, in their order.
Named(type, oids, vbl) ==
    \A k \in DOMAIN vbl : vbl[k].oid \in Instance(type, oids[k]) \cup {oids[k]}

Whole(type, oids, c) ==
    type \in RequestTypes \ {"set"} /\ c.status = NOERROR =>
        Len(c.vbl) = Len(oids) /\ Named(type, oids, c.vbl)

\* Slot c holds the reply of frame f, as far as f has come.
SlotFor(f, c) ==
    /\ c.asked = f.pkt.oids /\ c.addr = f.pkt.from
    /\ c.id = IF f.pc = "end" THEN f.pkt.id ELSE 0
    /\ f.pc = "set" => f.type = "set"
    /\ f.pc \in {"var", "get"} =>
         /\ c.status = NOERROR /\ f.i \in 1 .. Len(f.pkt.oids) + 1 /\ Len(c.vbl) = f.i - 1
         /\ f.pc = "get" => f.i # Len(f.pkt.oids) + 1
         /\ Named(f.type, f.pkt.oids, c.vbl)
    /\ f.pc \in {"done", "end"} => Whole(f.type, f.pkt.oids, c)

\* A slot that can be found by its identifier holds a whole reply.
Answers(c) ==
    c.id # 0 => \E pkt \in Packets : /\ pkt.id = c.id /\ pkt.oids = c.asked
                                     /\ Whole(pkt.type, pkt.oids, c)

\* The slots taken since frame f took its own lie between it and the last one.
Around(f) ==
    /\ f.taken < CacheSize
    /\ f.slot + f.taken = last \/ f.slot + f.taken = last + CacheSize

OwnInv ==
    ~ shared =>
        /\ \A k \in DOMAIN frames : Building(frames[k]) =>
              Around(frames[k]) /\ SlotFor(frames[k], cache[frames[k].slot])
        /\ \A k, l \in DOMAIN frames :
              k < l /\ Building(frames[k]) /\ Building(frames[l]) =>
                 frames[k].taken < frames[l].taken
        /\ \A i \in Slots : Answers(cache[i])

\* Two requests with the same identifier, other than zero, and the same
\* variables are of the same type and from the same sender.
SameRequest ==
    \A p, q \in Packets : p.id = q.id /\ p.id # 0 /\ p.oids = q.oids =>
        p.type = q.type /\ p.from = q.from

-----------------------------------------------------------------------------
(* Operators.                                                              *)

\* A sequence with its first element replaced.
LEMMA HeadPut ==
    ASSUME NEW S, NEW s \in Seq(S), s # <<>>, NEW g \in S
    PROVE  LET t == [s EXCEPT ![1] = g] IN
           /\ t \in Seq(S) /\ DOMAIN t = DOMAIN s /\ 1 \in DOMAIN s
           /\ t[1] = g
           /\ \A k \in DOMAIN s : k # 1 => t[k] = s[k]
<1>1. PICK n \in Nat : DOMAIN s = 1 .. n /\ s \in [1 .. n -> S] /\ n # 0
  OBVIOUS
<1>2. [s EXCEPT ![1] = g] \in [1 .. n -> S] /\ 1 \in 1 .. n
  BY <1>1
<1>3. [s EXCEPT ![1] = g] \in Seq(S)
  BY <1>2, SeqDef
<1> QED
  BY <1>1, <1>2, <1>3

\* A frame pushed on the stack.
LEMMA PushFront ==
    ASSUME NEW S, NEW s \in Seq(S), NEW g \in S
    PROVE  LET t == <<g>> \o s IN
           /\ t \in Seq(S) /\ Len(s) \in Nat /\ DOMAIN s = 1 .. Len(s)
           /\ DOMAIN t = 1 .. Len(s) + 1
           /\ t[1] = g
           /\ \A k \in DOMAIN s : t[k + 1] = s[k]
           /\ \A k \in DOMAIN t : k # 1 => k - 1 \in DOMAIN s /\ t[k] = s[k - 1]
<1> DEFINE t == <<g>> \o s
           h == <<g>>
<1>1. h \in Seq(S) /\ Len(h) = 1 /\ h[1] = g
  OBVIOUS
<1>2. Len(s) \in Nat /\ DOMAIN s = 1 .. Len(s)
  OBVIOUS
<1> HIDE DEF h
<1>3. /\ t \in Seq(S) /\ Len(t) = Len(h) + Len(s)
      /\ \A i \in 1 .. Len(h) + Len(s) : t[i] = IF i <= Len(h) THEN h[i] ELSE s[i - Len(h)]
  BY <1>1, ConcatProperties, ZenonT(30) DEF h
<1> HIDE DEF t
<1>4. DOMAIN t = 1 .. Len(s) + 1
  BY <1>1, <1>2, <1>3
<1>5. t[1] = g
  BY <1>1, <1>2, <1>3
<1>6. \A k \in DOMAIN t : k # 1 => k - 1 \in DOMAIN s /\ t[k] = s[k - 1]
  BY <1>1, <1>2, <1>3, <1>4
<1>7. ASSUME NEW k \in DOMAIN s PROVE t[k + 1] = s[k]
  <2>1. PICK m \in DOMAIN t : m = k + 1 /\ m # 1 /\ m - 1 = k
    BY <1>2, <1>4
  <2> QED
    BY <2>1, <1>6
<1> QED
  BY <1>2, <1>3, <1>4, <1>5, <1>6, <1>7 DEF t

\* The innermost frame returns.
LEMMA PopFront ==
    ASSUME NEW S, NEW s \in Seq(S), s # <<>>
    PROVE  LET t == Tail(s) IN
           /\ t \in Seq(S) /\ Len(s) \in Nat /\ DOMAIN s = 1 .. Len(s)
           /\ DOMAIN t = 1 .. Len(s) - 1
           /\ \A k \in DOMAIN t : k + 1 \in DOMAIN s /\ t[k] = s[k + 1]
<1> DEFINE t == Tail(s)
<1>1. /\ t \in Seq(S) /\ Len(t) = Len(s) - 1
      /\ \A k \in 1 .. Len(t) : t[k] = s[k + 1]
  OBVIOUS
<1>2. Len(s) \in Nat /\ DOMAIN s = 1 .. Len(s) /\ DOMAIN t = 1 .. Len(t)
  BY <1>1
<1> HIDE DEF t
<1> QED
  BY <1>1, <1>2 DEF t

\* The first of some slots is one of them.
LEMMA LeastSlot ==
    ASSUME NEW S, S \subseteq Nat, S # {}
    PROVE  LET i == CHOOSE i \in S : \A j \in S : i <= j IN i \in S
<1>1. PICK x \in S : \A y \in S : ~ (<<y, x>> \in OpToRel(<, Nat))
  BY NatLessThanWellFounded, WFMin
<1>2. \A y \in S : ~ (y < x)
  BY <1>1, ZenonT(30) DEF OpToRel
<1>3. \A y \in S : x <= y
  BY <1>2
<1> QED
  BY <1>3, ZenonT(30)

\* The ring: the slot after the last one.
LEMMA NextSlot ==
    ASSUME NEW n \in Nat \ {0}, NEW l \in 0 .. n - 1
    PROVE  /\ (l + 1) % n \in 0 .. n - 1
           /\ (l + 1) % n = IF l + 1 = n THEN 0 ELSE l + 1
OBVIOUS

\* A slot that was never used.
LEMMA EmptyIsSlot ==
    /\ EmptySlot \in Slot /\ EmptySlot.id = 0 /\ EmptySlot.timestamp = 0
    /\ EmptySlot.status = NOERROR /\ EmptySlot.vbl = <<>>
<1>1. PICK addr \in {pkt.from : pkt \in Packets} \cup {0} : addr = 0
  OBVIOUS
<1>2. PICK id \in {pkt.id : pkt \in Packets} \cup {0} : id = 0
  OBVIOUS
<1>3. PICK asked \in Seq(Int) : asked = <<>>
  <2>1. <<>> \in Seq(Int)
    OBVIOUS
  <2> QED
    BY <2>1, ZenonT(30)
<1>4. PICK vbl \in Seq(Binding) : vbl = <<>>
  <2>1. <<>> \in Seq(Binding)
    OBVIOUS
  <2> QED
    BY <2>1, ZenonT(30)
<1>5. PICK st \in Statuses : st = NOERROR
  BY DEF Statuses
<1> DEFINE e == [session |-> 0, asked |-> asked, addr |-> addr, id |-> id, status |-> st,
                 vbl |-> vbl, timestamp |-> 0]
<1>6. EmptySlot = e
  BY <1>1, <1>2, <1>3, <1>4, <1>5, ZenonT(30) DEF EmptySlot
<1>7. e \in Slot /\ e.id = id /\ e.timestamp = 0 /\ e.status = st /\ e.vbl = vbl
  BY DEF Slot
<1> HIDE DEF e
<1> QED
  BY <1>2, <1>4, <1>5, <1>6, <1>7

-----------------------------------------------------------------------------
(* Steps of the innermost frame.                                           *)

\* Slot c keeps the bindings of slot d, or drops them, and adds some of now.
Follows(c, d) ==
    /\ c.session = d.session /\ c.timestamp = d.timestamp
    /\ \A k \in DOMAIN c.vbl :
          \/ k \in DOMAIN d.vbl /\ c.vbl[k] = d.vbl[k]
          \/ c.vbl[k].epoch = setsBegun /\ c.vbl[k].time = rclock

\* The innermost frame.
LEMMA TopFacts ==
    ASSUME RespBase, frames # <<>>
    PROVE  /\ Top = frames[1] /\ 1 \in DOMAIN frames /\ Top \in Frame /\ FrameOK(Top)
           /\ Top.slot \in Slots
<1>1. frames \in Seq(Frame) /\ \A k \in DOMAIN frames : FrameOK(frames[k])
  BY DEF RespBase, RespTypeOK
<1>2. Top = frames[1] /\ 1 \in DOMAIN frames /\ Top \in Frame
  BY <1>1 DEF Top
<1>3. FrameOK(Top)
  BY <1>1, <1>2
<1>4. Top.slot \in Slots
  BY <1>2 DEF Frame
<1> QED
  BY <1>2, <1>3, <1>4

\* A frame stays right while the counts of set requests grow.
LEMMA FrameKept ==
    ASSUME NEW f \in Frame, FrameOK(f),
           setsBegun \in Epochs, answered \in Epochs, setsBegun' \in Epochs, answered' \in Epochs,
           \A s \in Ids : setsBegun[s] <= setsBegun'[s] /\ answered[s] <= answered'[s]
    PROVE  FrameOK(f)'
<1>1. f.mine \in Nat /\ f.floor \in Epochs
  BY DEF Frame
<1>2. f.s \in Ids => f.mine <= setsBegun'[f.s]
  BY <1>1 DEF FrameOK, Epochs
<1>3. \A s \in Ids : f.floor[s] <= answered'[s]
  BY <1>1 DEF FrameOK, Epochs
<1> QED
  BY <1>2, <1>3 DEF FrameOK

\* The innermost frame goes on.
LEMMA BaseGoto ==
    ASSUME RespBase, frames # <<>>, NEW g \in Frame, Goto(g), FrameOK(g)',
           cache' \in [Slots -> Slot], last' = last, rclock' = rclock, shared' = shared,
           setsBegun' \in Epochs, answered' \in Epochs,
           \A s \in Ids : /\ setsBegun[s] <= setsBegun'[s] /\ answered[s] <= answered'[s]
                          /\ answered'[s] <= setsBegun'[s]
    PROVE  RespBase'
<1>1. RespTypeOK /\ \A k \in DOMAIN frames : FrameOK(frames[k]) /\ frames[k] \in Frame
  BY DEF RespBase, RespTypeOK
<1>2. /\ frames' \in Seq(Frame) /\ DOMAIN frames' = DOMAIN frames
      /\ frames'[1] = g
      /\ \A k \in DOMAIN frames : k # 1 => frames'[k] = frames[k]
  BY <1>1, HeadPut DEF Goto, RespTypeOK
<1>3. ASSUME NEW k \in DOMAIN frames, k # 1 PROVE FrameOK(frames[k])'
  <2>1. PICK f \in Frame : f = frames[k] /\ f = frames'[k] /\ FrameOK(f)
    BY <1>1, <1>2, <1>3
  <2>2. FrameOK(f)'
    BY <1>1, <2>1, FrameKept DEF RespTypeOK
  <2> QED
    BY <2>1, <2>2 DEF FrameOK
<1>4. FrameOK(frames[1])'
  BY <1>2 DEF FrameOK
<1>5. \A k \in DOMAIN frames' : FrameOK(frames[k])'
  BY <1>2, <1>3, <1>4
<1>6. \A k \in DOMAIN frames' : k # 1 => frames'[k].pc \in Scripts
  BY <1>2 DEF RespBase
<1>7. RespTypeOK'
  BY <1>1, <1>2 DEF RespTypeOK
<1> QED
  BY <1>5, <1>6, <1>7 DEF RespBase

\* The innermost frame goes on and one slot is changed.
LEMMA FreshGoto ==
    ASSUME RespBase, FreshInv, frames # <<>>, NEW g \in Frame, Goto(g),
           NEW j \in Slots, NEW c \in Slot, cache' = [cache EXCEPT ![j] = c],
           rclock' = rclock, setsBegun' = setsBegun,
           g.floor = Top.floor, Building(g) => Building(Top) /\ g.slot = Top.slot,
           Follows(c, cache[j])
    PROVE  FreshInv'
<1>1. /\ frames \in Seq(Frame) /\ cache \in [Slots -> Slot]
      /\ setsBegun \in Epochs /\ answered \in Epochs /\ rclock \in Nat
      /\ \A s \in Ids : answered[s] <= setsBegun[s]
      /\ \A k \in DOMAIN frames : FrameOK(frames[k]) /\ frames[k] \in Frame
  BY DEF RespBase, RespTypeOK
<1>2. /\ DOMAIN frames' = DOMAIN frames /\ frames'[1] = g
      /\ \A k \in DOMAIN frames : k # 1 => frames'[k] = frames[k]
  BY <1>1, HeadPut DEF Goto
<1>3. cache'[j] = c /\ \A i \in Slots : i # j => cache'[i] = cache[i]
  BY <1>1
<1>4. SlotFresh(c) /\ c.timestamp <= rclock
  <2> DEFINE d == cache[j]
  <2>1. SlotFresh(d) /\ d.timestamp <= rclock /\ d \in Slot
    BY <1>1 DEF FreshInv
  <2> HIDE DEF d
  <2>2. c.session = d.session /\ c.timestamp = d.timestamp
    BY DEF Follows, d
  <2>3. ASSUME NEW k \in DOMAIN c.vbl, c.timestamp # 0, c.session \in Ids
        PROVE  c.vbl[k].epoch[c.session] >= setsBegun[c.session] /\ c.vbl[k].time >= c.timestamp
    <3>1. CASE k \in DOMAIN d.vbl /\ c.vbl[k] = d.vbl[k]
      BY <2>1, <2>2, <2>3, <3>1 DEF SlotFresh
    <3>2. CASE c.vbl[k].epoch = setsBegun /\ c.vbl[k].time = rclock
      <4>1. setsBegun[c.session] \in Nat /\ c.timestamp \in Nat
        BY <1>1, <2>3 DEF Epochs, Slot
      <4> QED
        BY <1>1, <2>1, <2>2, <3>2, <4>1
    <3> QED
      BY <3>1, <3>2 DEF Follows, d
  <2> QED
    BY <2>1, <2>2, <2>3 DEF SlotFresh
<1>5. \A i \in Slots : SlotFresh(cache[i])' /\ cache'[i].timestamp <= rclock'
  BY <1>3, <1>4 DEF FreshInv, SlotFresh
<1>6. ASSUME NEW f \in Frame, FrameOK(f), FillFresh(f, cache[j]) PROVE FillFresh(f, c)
  <2>1. \A s \in Ids : setsBegun[s] >= f.floor[s]
    BY <1>1, <1>6 DEF FrameOK, Epochs, Frame
  <2> QED
    BY <1>6, <2>1 DEF FillFresh, Follows
<1>7. ASSUME NEW k \in DOMAIN frames, Building(frames'[k])
      PROVE  FillFresh(frames'[k], cache'[frames'[k].slot])
  <2>1. PICK f \in Frame : f = frames[k] /\ FrameOK(f)
    BY <1>1
  <2>2. Building(f) /\ frames'[k].slot = f.slot /\ frames'[k].floor = f.floor
    BY <1>2, <1>7, <2>1, TopFacts
  <2>3. f.slot \in Slots /\ FillFresh(f, cache[f.slot])
    BY <2>1, <2>2 DEF FreshInv, Frame
  <2>4. FillFresh(f, cache'[f.slot])
    BY <1>3, <1>6, <2>1, <2>3
  <2> QED
    BY <2>2, <2>4 DEF FillFresh
<1>8. \A k \in DOMAIN frames' : (Building(frames[k]) => FillFresh(frames[k], cache[frames[k].slot]))'
  BY <1>2, <1>7 DEF Building, FillFresh
<1> QED
  BY <1>5, <1>8 DEF FreshInv

\* Two frames that fill slots fill different ones.
LEMMA SlotsDiffer ==
    ASSUME RespBase, OwnInv, ~ shared, NEW k \in DOMAIN frames, NEW l \in DOMAIN frames, k < l,
           Building(frames[k]), Building(frames[l])
    PROVE  frames[k].slot # frames[l].slot
<1>1. PICK f \in Frame : f = frames[k]
  BY DEF RespBase, RespTypeOK
<1>2. PICK h \in Frame : h = frames[l]
  BY DEF RespBase, RespTypeOK
<1>3. Around(f) /\ Around(h) /\ f.taken < h.taken
  BY <1>1, <1>2 DEF OwnInv
<1>4. f.taken \in Nat /\ h.taken \in Nat /\ f.slot \in Int /\ h.slot \in Int
  BY DEF Frame, Slots
<1>5. last \in Int /\ CacheSize \in Nat
  BY ResponderAssumption DEF RespBase, RespTypeOK, Slots
<1>6. f.slot # h.slot
  BY <1>3, <1>4, <1>5 DEF Around
<1> QED
  BY <1>1, <1>2, <1>6

\* The innermost frame goes on and one slot is changed: what becomes of the
\* slot and of the frame decides.
LEMMA OwnGoto ==
    ASSUME RespBase, OwnInv, frames # <<>>, NEW g \in Frame, Goto(g),
           NEW j \in Slots, NEW c \in Slot, cache' = [cache EXCEPT ![j] = c],
           last' = last, shared' = shared,
           Building(g) => /\ Building(Top) /\ g.slot = Top.slot /\ g.taken = Top.taken
                          /\ ~ shared => SlotFor(g, cache'[g.slot]),
           \A k \in DOMAIN frames :
              ~ shared /\ k # 1 /\ Building(frames[k]) /\ frames[k].slot = j => SlotFor(frames[k], c),
           ~ shared => Answers(c)
    PROVE  OwnInv'
<1> SUFFICES ASSUME ~ shared
             PROVE  /\ \A k \in DOMAIN frames' : Building(frames'[k]) =>
                          Around(frames[k])' /\ SlotFor(frames'[k], cache'[frames'[k].slot])
                    /\ \A k, l \in DOMAIN frames' :
                          k < l /\ Building(frames'[k]) /\ Building(frames'[l]) =>
                             frames'[k].taken < frames'[l].taken
                    /\ \A i \in Slots : Answers(cache'[i])
  BY DEF OwnInv, Building, SlotFor, Answers
<1>1. /\ frames \in Seq(Frame) /\ cache \in [Slots -> Slot]
      /\ \A k \in DOMAIN frames : frames[k] \in Frame /\ frames[k].slot \in Slots
  <2>1. frames \in Seq(Frame) /\ cache \in [Slots -> Slot]
    BY DEF RespBase, RespTypeOK
  <2>2. \A f \in Frame : f.slot \in Slots
    BY DEF Frame
  <2> QED
    BY <2>1, <2>2
<1>2. /\ DOMAIN frames' = DOMAIN frames /\ frames'[1] = g
      /\ \A k \in DOMAIN frames : k # 1 => frames'[k] = frames[k]
  BY <1>1, HeadPut DEF Goto
<1>3. cache'[j] = c /\ \A i \in Slots : i # j => cache'[i] = cache[i]
  BY <1>1, SMTT(60)
<1>4. /\ \A k \in DOMAIN frames : Building(frames[k]) =>
            Around(frames[k]) /\ SlotFor(frames[k], cache[frames[k].slot])
      /\ \A k, l \in DOMAIN frames :
            k < l /\ Building(frames[k]) /\ Building(frames[l]) =>
               frames[k].taken < frames[l].taken
      /\ \A i \in Slots : Answers(cache[i])
  BY DEF OwnInv
<1>5. ASSUME NEW k \in DOMAIN frames, Building(frames'[k])
      PROVE  /\ Building(frames[k])
             /\ frames'[k].taken = frames[k].taken /\ frames'[k].slot = frames[k].slot
  BY <1>2, <1>5, TopFacts
<1>6. ASSUME NEW k \in DOMAIN frames, Building(frames'[k])
      PROVE  Around(frames[k])' /\ SlotFor(frames'[k], cache'[frames'[k].slot])
  <2>1. Around(frames[k])'
    BY <1>4, <1>5, <1>6 DEF Around
  <2>2. CASE k = 1
    BY <1>2, <1>6, <2>1, <2>2
  <2>3. CASE k # 1
    BY <1>1, <1>2, <1>3, <1>4, <1>6, <2>1, <2>3
  <2> QED
    BY <2>2, <2>3
<1>7. \A k, l \in DOMAIN frames :
         k < l /\ Building(frames'[k]) /\ Building(frames'[l]) => frames'[k].taken < frames'[l].taken
  BY <1>4, <1>5
<1>8. \A i \in Slots : Answers(cache'[i])
  BY <1>3, <1>4
<1> QED
  BY <1>2, <1>6, <1>7, <1>8, SMTT(60)

\* The frames further out do not fill the slot that the innermost one fills.
LEMMA OutsideKept ==
    ASSUME RespBase, OwnInv, frames # <<>>, Building(Top), NEW c
    PROVE  \A k \in DOMAIN frames :
              ~ shared /\ k # 1 /\ Building(frames[k]) /\ frames[k].slot = Top.slot
                 => SlotFor(frames[k], c)
<1> SUFFICES ASSUME NEW k \in DOMAIN frames, ~ shared, k # 1, Building(frames[k])
             PROVE  frames[k].slot # Top.slot
  OBVIOUS
<1>1. Top = frames[1] /\ 1 \in DOMAIN frames
  BY TopFacts
<1>2. 1 < k
  BY <1>1 DEF RespBase, RespTypeOK
<1> QED
  BY <1>1, <1>2, SlotsDiffer

\* The innermost frame, which fills a slot, goes on and changes its slot.
LEMMA SlotGoto ==
    ASSUME RespBase, FreshInv, frames # <<>>, Building(Top), NEW g \in Frame, Goto(g), FrameOK(g)',
           NEW c \in Slot, cache' = [cache EXCEPT ![Top.slot] = c], Follows(c, cache[Top.slot]),
           UNCHANGED <<last, rclock, setsBegun, shared>>, answered' \in Epochs,
           \A s \in Ids : answered[s] <= answered'[s] /\ answered'[s] <= setsBegun[s],
           g.floor = Top.floor, g.slot = Top.slot, g.taken = Top.taken
    PROVE  /\ RespBase' /\ FreshInv'
           /\ OwnInv /\ (~ shared => Answers(c) /\ (Building(g) => SlotFor(g, c))) => OwnInv'
<1>1. /\ cache \in [Slots -> Slot] /\ setsBegun \in Epochs /\ Top.slot \in Slots
      /\ \A s \in Ids : setsBegun[s] <= setsBegun[s]
  BY TopFacts DEF RespBase, RespTypeOK, Epochs
<1>2. PICK j \in Slots : j = Top.slot
  BY <1>1
<1>3. cache' = [cache EXCEPT ![j] = c] /\ Follows(c, cache[j])
  BY <1>2
<1>4. cache' \in [Slots -> Slot] /\ cache'[j] = c
  BY <1>1, <1>3
<1>5. RespBase'
  BY <1>1, <1>4, BaseGoto
<1>6. FreshInv'
  BY <1>2, <1>3, FreshGoto, ZenonT(30)
<1>7. ASSUME OwnInv, ~ shared => Answers(c) /\ (Building(g) => SlotFor(g, c)) PROVE OwnInv'
  <2>1. \A k \in DOMAIN frames :
           ~ shared /\ k # 1 /\ Building(frames[k]) /\ frames[k].slot = j => SlotFor(frames[k], c)
    BY <1>2, <1>7, OutsideKept
  <2>2. Building(g) => /\ Building(Top) /\ g.slot = Top.slot /\ g.taken = Top.taken
                       /\ ~ shared => SlotFor(g, cache'[g.slot])
    BY <1>2, <1>4, <1>7
  <2> QED
    BY <1>3, <1>7, <2>1, <2>2, OwnGoto, ZenonT(30)
<1> QED
  BY <1>5, <1>6, <1>7

\* The innermost frame goes on and the cache stays as it is.
LEMMA StayGoto ==
    ASSUME RespBase, FreshInv, frames # <<>>, NEW g \in Frame, Goto(g), FrameOK(g)',
           UNCHANGED <<cache, last, rclock, setsBegun, answered, shared>>,
           g.floor = Top.floor,
           Building(g) => Building(Top) /\ g.slot = Top.slot /\ g.taken = Top.taken
    PROVE  /\ RespBase' /\ FreshInv'
           /\ OwnInv /\ (~ shared /\ Building(g) => SlotFor(g, cache[g.slot])) => OwnInv'
<1>1. /\ cache \in [Slots -> Slot] /\ setsBegun \in Epochs /\ answered \in Epochs
      /\ Top.slot \in Slots
      /\ \A s \in Ids : answered[s] <= setsBegun[s]
  BY TopFacts DEF RespBase, RespTypeOK
<1>2. PICK j \in Slots : j = Top.slot
  BY <1>1
<1>3. PICK c \in Slot : c = cache[j]
  BY <1>1
<1>4. cache' = [cache EXCEPT ![j] = c] /\ cache' \in [Slots -> Slot]
  BY <1>1, <1>3
<1>5. Follows(c, cache[j])
  BY <1>3 DEF Follows
<1>6. \A s \in Ids : setsBegun[s] <= setsBegun'[s] /\ answered[s] <= answered'[s]
  BY <1>1 DEF Epochs
<1>7. RespBase'
  BY <1>1, <1>4, <1>6, BaseGoto
<1>8. FreshInv'
  BY <1>4, <1>5, FreshGoto, ZenonT(30)
<1>9. ASSUME OwnInv, ~ shared /\ Building(g) => SlotFor(g, cache[g.slot]) PROVE OwnInv'
  <2>1. \A k \in DOMAIN frames :
           ~ shared /\ k # 1 /\ Building(frames[k]) /\ frames[k].slot = j => SlotFor(frames[k], c)
    BY <1>3, <1>9 DEF OwnInv
  <2>2. ~ shared => Answers(c)
    BY <1>3, <1>9 DEF OwnInv
  <2>3. Building(g) => /\ Building(Top) /\ g.slot = Top.slot /\ g.taken = Top.taken
                       /\ ~ shared => SlotFor(g, cache'[g.slot])
    BY <1>9
  <2> QED
    BY <1>4, <1>9, <2>1, <2>2, <2>3, OwnGoto, ZenonT(30)
<1> QED
  BY <1>7, <1>8, <1>9

\* A step that sends nothing says nothing wrong.
LEMMA Silent ==
    ASSUME reply' = noReply
    PROVE  CachedFresh' /\ OwnReply'
BY DEF CachedFresh, OwnReply, Sent

\* What a step must keep.
RespInv == RespBase /\ FreshInv
StepOK ==
    /\ RespInv' /\ CachedFresh'
    /\ SameRequest /\ OwnInv => OwnInv' /\ OwnReply'

-----------------------------------------------------------------------------
(* The walk over the sessions.                                             *)

\* The innermost frame moves between sessions without a slot.
LEMMA WalkGoto ==
    ASSUME RespInv, frames # <<>>, NEW g \in Frame, Goto(g), FrameOK(g)', ~ Building(g),
           UNCHANGED <<cache, last, rclock, setsBegun, answered, shared>>, g.floor = Top.floor
    PROVE  RespInv' /\ (OwnInv => OwnInv')
BY StayGoto DEF RespInv

\* The packet is done with.
LEMMA PopStep ==
    ASSUME RespInv, frames # <<>>, frames' = Tail(frames),
           UNCHANGED <<cache, last, rclock, setsBegun, answered, shared>>
    PROVE  RespInv' /\ (OwnInv => OwnInv')
<1>1. RespTypeOK /\ frames \in Seq(Frame)
  BY DEF RespInv, RespBase, RespTypeOK
<1>2. /\ frames' \in Seq(Frame) /\ Len(frames) \in Nat /\ DOMAIN frames = 1 .. Len(frames)
      /\ DOMAIN frames' = 1 .. Len(frames) - 1
      /\ \A k \in DOMAIN frames' : k + 1 \in DOMAIN frames /\ frames'[k] = frames[k + 1]
  BY <1>1, PopFront
<1>3. \A k \in DOMAIN frames' : k \in Nat /\ k # 0
  BY <1>2
<1>4. \A k \in DOMAIN frames' : FrameOK(frames[k])' /\ frames'[k].pc \in Scripts
  BY <1>2, <1>3 DEF RespInv, RespBase, FrameOK
<1>5. RespTypeOK'
  BY <1>1, <1>2 DEF RespTypeOK
<1>6. RespBase'
  BY <1>4, <1>5, SMTT(60) DEF RespInv, RespBase
<1>7. FreshInv'
  BY <1>2, SMTT(60) DEF RespInv, FreshInv, SlotFresh, FillFresh, Building
<1>8. ASSUME OwnInv PROVE OwnInv'
  <2> SUFFICES ASSUME ~ shared
               PROVE  /\ \A k \in DOMAIN frames' : Building(frames'[k]) =>
                            Around(frames[k])' /\ SlotFor(frames'[k], cache[frames'[k].slot])
                      /\ \A k, l \in DOMAIN frames' :
                            k < l /\ Building(frames'[k]) /\ Building(frames'[l]) =>
                               frames'[k].taken < frames'[l].taken
                      /\ \A i \in Slots : Answers(cache[i])
    BY DEF OwnInv, Building, SlotFor, Answers
  <2>1. /\ \A k \in DOMAIN frames : Building(frames[k]) =>
              Around(frames[k]) /\ SlotFor(frames[k], cache[frames[k].slot])
        /\ \A k, l \in DOMAIN frames :
              k < l /\ Building(frames[k]) /\ Building(frames[l]) =>
                 frames[k].taken < frames[l].taken
        /\ \A i \in Slots : Answers(cache[i])
    BY <1>8 DEF OwnInv
  <2>2. \A k \in DOMAIN frames' : Building(frames'[k]) =>
            Around(frames[k])' /\ SlotFor(frames'[k], cache[frames'[k].slot])
    BY <1>2, <2>1 DEF Around
  <2>3. ASSUME NEW k \in DOMAIN frames', NEW l \in DOMAIN frames', k < l,
               Building(frames'[k]), Building(frames'[l])
        PROVE  frames'[k].taken < frames'[l].taken
    <3>1. k + 1 \in DOMAIN frames /\ l + 1 \in DOMAIN frames /\ k + 1 < l + 1
      BY <1>2, <1>3, <2>3
    <3>2. frames'[k] = frames[k + 1] /\ frames'[l] = frames[l + 1]
      BY <1>2
    <3> QED
      BY <2>1, <2>3, <3>1, <3>2
  <2> QED
    BY <2>1, <2>2, <2>3
<1> QED
  BY <1>6, <1>7, <1>8 DEF RespInv

\* TnmSnmpDecode() takes the next session.
LEMMA DecodeStep ==
    ASSUME RespInv, TnmSnmpDecode
    PROVE  StepOK
<1>1. /\ frames # <<>> /\ Top.pc = "walk" /\ reply' = noReply
      /\ UNCHANGED <<cache, last, rclock, setsBegun, answered, shared>>
  BY DEF TnmSnmpDecode, At
<1>2. PICK f \in Frame : f = Top /\ FrameOK(f)
  BY <1>1, TopFacts DEF RespInv
<1>3. f.s \in Nat /\ f.s # 0 /\ f.mine = 0 /\ f.type \in Types /\ Len(RSessions) \in Nat
  BY <1>1, <1>2, ResponderAssumption DEF Frame, FrameOK
<1>4. CASE f.s > Len(RSessions)
  <2>1. frames' = Tail(frames)
    BY <1>2, <1>4 DEF TnmSnmpDecode
  <2> QED
    BY <1>1, <2>1, PopStep, Silent DEF StepOK
<1>5. CASE ~ (f.s > Len(RSessions)) /\ ~ Matches(Session, f)
  <2> DEFINE g == [f EXCEPT !.s = f.s + 1]
  <2>1. Goto(g)
    BY <1>2, <1>5 DEF TnmSnmpDecode
  <2>2. /\ g \in Frame /\ g.s = f.s + 1 /\ g.pc = f.pc /\ g.floor = f.floor /\ g.mine = f.mine
        /\ g.type = f.type /\ g.pkt = f.pkt
    BY <1>3 DEF Frame
  <2> HIDE DEF g
  <2>3. FrameOK(g)'
    <3>1. g.s # 0 /\ (g.s \in Ids => g.mine <= setsBegun[g.s])
      BY <1>3, <2>2 DEF RespInv, RespBase, RespTypeOK, Epochs
    <3> QED
      BY <1>1, <1>2, <1>3, <2>2, <3>1 DEF FrameOK
  <2>4. ~ Building(g)
    BY <1>1, <1>2, <2>2 DEF Building
  <2> QED
    BY <1>1, <1>2, <2>1, <2>2, <2>3, <2>4, WalkGoto, Silent DEF StepOK
<1>6. CASE ~ (f.s > Len(RSessions)) /\ Matches(Session, f)
  <2> DEFINE pc == IF f.type \in RequestTypes THEN "recv" ELSE "notify"
             g == [f EXCEPT !.pc = pc]
  <2>1. Goto(g)
    BY <1>2, <1>6 DEF TnmSnmpDecode
  <2>2. pc \in Pcs /\ pc \in {"recv", "notify"} /\ (pc # "notify" => f.type \in RequestTypes)
    BY DEF Pcs
  <2> HIDE DEF pc
  <2>3. /\ g \in Frame /\ g.s = f.s /\ g.pc = pc /\ g.floor = f.floor /\ g.mine = f.mine
        /\ g.type = f.type /\ g.pkt = f.pkt
    BY <2>2 DEF Frame
  <2> HIDE DEF g
  <2>4. FrameOK(g)'
    <3>1. g.s \in Ids
      BY <1>3, <1>6, <2>3 DEF Ids
    <3> QED
      BY <1>1, <1>2, <1>3, <2>2, <2>3, <3>1 DEF FrameOK
  <2>5. ~ Building(g)
    BY <2>2, <2>3 DEF Building
  <2> QED
    BY <1>1, <1>2, <2>1, <2>3, <2>4, <2>5, WalkGoto, Silent DEF StepOK
<1> QED
  BY <1>4, <1>5, <1>6

\* The callback of a notification has been evaluated.
LEMMA NotifiedStep ==
    ASSUME RespInv, Notified
    PROVE  StepOK
<1>1. /\ frames # <<>> /\ Top.pc = "notify"
      /\ UNCHANGED <<cache, last, rclock, setsBegun, answered, shared>>
  BY DEF Notified, At
<1>2. PICK f \in Frame : f = Top /\ FrameOK(f)
  BY <1>1, TopFacts DEF RespInv
<1>3. f.s \in Nat /\ f.s # 0 /\ f.mine = 0 /\ f.type \in Types
  BY <1>1, <1>2 DEF Frame, FrameOK
<1> DEFINE type == IF f.type = "inform" THEN "response" ELSE f.type
           n == f.s + 1
           g == [f EXCEPT !.pc = "walk", !.s = n, !.type = type]
<1>4. Goto(g)
  BY <1>2 DEF Notified
<1>5. /\ type \in Types /\ type \in {f.type, "response"} /\ n \in Nat /\ n # 0
      /\ "walk" \in Pcs
  BY <1>3 DEF Types, Pcs
<1> HIDE DEF type, n
<1>6. /\ g \in Frame /\ g.s = n /\ g.pc = "walk" /\ g.floor = f.floor /\ g.mine = f.mine
      /\ g.type = type /\ g.pkt = f.pkt
  BY <1>5, ZenonT(30) DEF Frame
<1> HIDE DEF g
<1>7. FrameOK(g)'
  <2>1. g.s # 0 /\ (g.s \in Ids => g.mine <= setsBegun[g.s])
    BY <1>3, <1>5, <1>6 DEF RespInv, RespBase, RespTypeOK, Epochs
  <2> QED
    BY <1>1, <1>2, <1>3, <1>5, <1>6, <2>1 DEF FrameOK
<1>8. ~ Building(g)
  BY <1>6 DEF Building
<1>9. RespInv' /\ (OwnInv => OwnInv')
  BY <1>1, <1>2, <1>4, <1>6, <1>7, <1>8, WalkGoto
<1>10. CachedFresh' /\ OwnReply'
  <2>1. CASE f.type = "inform"
    <3>1. reply' = [to |-> f.pkt.from, id |-> f.pkt.id, status |-> NOERROR,
                    vbl |-> <<>>, cached |-> FALSE, frame |-> f]
      BY <1>2, <2>1 DEF Notified
    <3>2. /\ reply'.to = f.pkt.from /\ reply'.id = f.pkt.id /\ reply'.vbl = <<>>
          /\ reply'.frame = f
      BY <3>1
    <3>3. CachedFresh'
      BY <3>2 DEF CachedFresh
    <3>4. f.type \notin RequestTypes
      BY <2>1 DEF RequestTypes
    <3>5. OwnReply'
      BY <3>2, <3>4 DEF OwnReply
    <3> QED
      BY <3>3, <3>5
  <2>2. CASE f.type # "inform"
    BY <1>2, <2>2, Silent DEF Notified
  <2> QED
    BY <2>1, <2>2
<1> QED
  BY <1>9, <1>10 DEF StepOK

\* A packet arrives.
LEMMA ArriveStep ==
    ASSUME RespInv, NEW pkt \in Packets, AgentProc(pkt)
    PROVE  StepOK
<1> DEFINE new == [pkt |-> pkt, type |-> pkt.type, s |-> 1, pc |-> "walk", i |-> 1,
                   slot |-> 0, taken |-> 0, mine |-> 0, floor |-> answered]
<1>1. /\ frames' = <<new>> \o frames /\ reply' = noReply
      /\ frames # <<>> => Top.pc \in Scripts
      /\ UNCHANGED <<cache, last, rclock, setsBegun, answered, shared>>
  BY DEF AgentProc
<1>2. /\ RespTypeOK /\ frames \in Seq(Frame) /\ answered \in Epochs /\ setsBegun \in Epochs
      /\ \A s \in Ids : answered[s] <= setsBegun[s]
      /\ \A k \in DOMAIN frames : FrameOK(frames[k]) /\ (k # 1 => frames[k].pc \in Scripts)
  BY DEF RespInv, RespBase, RespTypeOK
<1>3. PICK g \in Frame : /\ g = new /\ g.pkt = pkt /\ g.type = pkt.type /\ g.s = 1
                         /\ g.pc = "walk" /\ g.mine = 0 /\ g.floor = answered
  <2>1. 0 \in Slots /\ pkt.type \in Types /\ "walk" \in Pcs
    BY ResponderAssumption DEF Slots, Types, Pcs
  <2>2. new \in Frame
    BY <1>2, <2>1 DEF Frame
  <2>3. /\ new.pkt = pkt /\ new.type = pkt.type /\ new.s = 1
        /\ new.pc = "walk" /\ new.mine = 0 /\ new.floor = answered
    OBVIOUS
  <2> HIDE DEF new
  <2> QED
    BY <2>2, <2>3
<1> HIDE DEF new
<1>4. /\ frames' \in Seq(Frame) /\ Len(frames) \in Nat /\ DOMAIN frames = 1 .. Len(frames)
      /\ DOMAIN frames' = 1 .. Len(frames) + 1 /\ frames'[1] = g
      /\ \A k \in DOMAIN frames' : k # 1 => k - 1 \in DOMAIN frames /\ frames'[k] = frames[k - 1]
  BY <1>1, <1>2, <1>3, PushFront
<1>5. FrameOK(g)'
  BY <1>1, <1>2, <1>3 DEF FrameOK, Epochs
<1>6. \A k \in DOMAIN frames : frames[k].pc \in Scripts
  BY <1>1, <1>2, TopFacts DEF RespInv
<1>7. \A k \in DOMAIN frames' : FrameOK(frames[k])' /\ (k # 1 => frames'[k].pc \in Scripts)
  <2>1. FrameOK(frames[1])'
    BY <1>4, <1>5 DEF FrameOK
  <2>2. ASSUME NEW k \in DOMAIN frames', k # 1
        PROVE  FrameOK(frames[k])' /\ frames'[k].pc \in Scripts
    <3>1. PICK f : f = frames'[k] /\ FrameOK(f) /\ f.pc \in Scripts
      BY <1>2, <1>4, <1>6, <2>2
    <3> QED
      BY <1>1, <3>1 DEF FrameOK
  <2> QED
    BY <2>1, <2>2
<1>8. RespTypeOK'
  BY <1>1, <1>2, <1>4, SMTT(60) DEF RespTypeOK
<1>9. RespBase'
  BY <1>1, <1>2, <1>7, <1>8 DEF RespBase
<1>10. ~ Building(g)
  BY <1>3 DEF Building
<1>11. FreshInv'
  <2>1. \A i \in Slots : (SlotFresh(cache[i]) /\ cache[i].timestamp <= rclock)'
    BY <1>1, ZenonT(30) DEF RespInv, FreshInv, SlotFresh
  <2>2. ASSUME NEW k \in DOMAIN frames', Building(frames'[k])
        PROVE  FillFresh(frames'[k], cache[frames'[k].slot])
    BY <1>4, <1>10, <2>2, SMTT(60) DEF RespInv, FreshInv
  <2> QED
    BY <1>1, <2>1, <2>2, ZenonT(30) DEF FreshInv, FillFresh, Building
<1>12. ASSUME OwnInv PROVE OwnInv'
  <2> SUFFICES ASSUME ~ shared
               PROVE  /\ \A k \in DOMAIN frames' : Building(frames'[k]) =>
                            Around(frames[k])' /\ SlotFor(frames'[k], cache[frames'[k].slot])
                      /\ \A k, l \in DOMAIN frames' :
                            k < l /\ Building(frames'[k]) /\ Building(frames'[l]) =>
                               frames'[k].taken < frames'[l].taken
                      /\ \A i \in Slots : Answers(cache[i])
    BY <1>1, ZenonT(30) DEF OwnInv, Building, SlotFor, Answers
  <2>1. /\ \A k \in DOMAIN frames : Building(frames[k]) =>
              Around(frames[k]) /\ SlotFor(frames[k], cache[frames[k].slot])
        /\ \A k, l \in DOMAIN frames :
              k < l /\ Building(frames[k]) /\ Building(frames[l]) =>
                 frames[k].taken < frames[l].taken
        /\ \A i \in Slots : Answers(cache[i])
    BY <1>12, ZenonT(30) DEF OwnInv
  <2>2. \A k \in DOMAIN frames' : Building(frames'[k]) =>
            Around(frames[k])' /\ SlotFor(frames'[k], cache[frames'[k].slot])
    <3> SUFFICES ASSUME NEW k \in DOMAIN frames', Building(frames'[k])
                 PROVE  Around(frames[k])' /\ SlotFor(frames'[k], cache[frames'[k].slot])
      BY ZenonT(30)
    <3>1. k # 1
      BY <1>4, <1>10, ZenonT(30)
    <3>2. PICK m \in DOMAIN frames : frames'[k] = frames[m]
      BY <1>4, <3>1, ZenonT(30)
    <3>3. Around(frames[m]) /\ SlotFor(frames[m], cache[frames[m].slot])
      BY <2>1, <3>2, ZenonT(30)
    <3> QED
      BY <1>1, <3>2, <3>3, ZenonT(30) DEF Around
  <2>3. ASSUME NEW k \in DOMAIN frames', NEW l \in DOMAIN frames', k < l,
               Building(frames'[k]), Building(frames'[l])
        PROVE  frames'[k].taken < frames'[l].taken
    <3>1. k # 1 /\ l # 1 /\ k \in Int /\ l \in Int
      BY <1>4, <1>10, <2>3
    <3>2. k - 1 \in DOMAIN frames /\ l - 1 \in DOMAIN frames /\ k - 1 < l - 1
      BY <1>4, <2>3, <3>1
    <3>3. frames'[k] = frames[k - 1] /\ frames'[l] = frames[l - 1]
      BY <1>4, <3>1
    <3> QED
      BY <2>1, <2>3, <3>2, <3>3
  <2> QED
    BY <2>1, <2>2, <2>3
<1> QED
  BY <1>1, <1>9, <1>11, <1>12, Silent DEF StepOK, RespInv

\* Time passes.
LEMMA TickStep ==
    ASSUME RespInv, Tick
    PROVE  StepOK
<1>1. rclock \in Nat /\ rclock' = rclock + 1 /\ reply' = noReply
  BY DEF RespInv, RespBase, RespTypeOK, Tick
<1>2. UNCHANGED <<frames, cache, last, setsBegun, answered, shared>>
  BY DEF Tick
<1>3. RespBase'
  BY <1>1, <1>2 DEF RespInv, RespBase, RespTypeOK, FrameOK
<1>4. \A i \in Slots : cache[i].timestamp \in Nat
  BY SMTT(60) DEF RespInv, RespBase, RespTypeOK, Slot
<1>5. FreshInv'
  BY <1>1, <1>2, <1>4, SMTT(60) DEF RespInv, FreshInv, SlotFresh, FillFresh, Building
<1>6. OwnInv => OwnInv'
  BY <1>2 DEF OwnInv, Building, Around, SlotFor, Answers
<1> QED
  BY <1>1, <1>3, <1>5, <1>6, Silent DEF StepOK, RespInv

-----------------------------------------------------------------------------
(* The agent.                                                              *)

\* A set request begins: the replies of its session are forgotten.
LEMMA ClearStep ==
    ASSUME RespInv, TnmSnmpAgentRequest, Top.type = "set"
    PROVE  StepOK
<1>1. /\ frames # <<>> /\ Top.pc = "recv" /\ reply' = noReply
      /\ cache' = CacheClear(Top.s) /\ setsBegun' = [setsBegun EXCEPT ![Top.s] = @ + 1]
      /\ Goto([Top EXCEPT !.pc = "begin", !.mine = setsBegun[Top.s] + 1])
      /\ UNCHANGED <<last, rclock, answered, shared>>
  BY DEF TnmSnmpAgentRequest, At
<1>2. PICK f \in Frame : f = Top /\ FrameOK(f)
  BY <1>1, TopFacts DEF RespInv
<1>3. /\ frames \in Seq(Frame) /\ cache \in [Slots -> Slot] /\ rclock \in Nat
      /\ setsBegun \in Epochs /\ answered \in Epochs /\ f.s \in Ids
      /\ \A s \in Ids : answered[s] <= setsBegun[s]
  BY <1>1, <1>2 DEF RespInv, RespBase, RespTypeOK, FrameOK
<1>4. /\ setsBegun' \in Epochs /\ setsBegun'[f.s] = setsBegun[f.s] + 1
      /\ \A s \in Ids : s # f.s => setsBegun'[s] = setsBegun[s]
      /\ \A s \in Ids : setsBegun[s] <= setsBegun'[s] /\ answered[s] <= setsBegun'[s]
  BY <1>1, <1>2, <1>3 DEF Epochs
<1>5. PICK m \in Nat : m = setsBegun[f.s] + 1
  BY <1>3 DEF Epochs
<1>6. PICK g \in Frame : /\ Goto(g) /\ g.pc = "begin" /\ g.mine = m /\ g.s = f.s
                         /\ g.type = f.type /\ g.pkt = f.pkt /\ g.floor = f.floor
  <2> DEFINE g == [f EXCEPT !.pc = "begin", !.mine = m]
  <2>1. Goto(g) /\ "begin" \in Pcs
    BY <1>1, <1>2, <1>5 DEF Pcs
  <2>2. /\ g \in Frame /\ g.pc = "begin" /\ g.mine = m /\ g.s = f.s
        /\ g.type = f.type /\ g.pkt = f.pkt /\ g.floor = f.floor
    BY <2>1, ZenonT(30) DEF Frame
  <2> HIDE DEF g
  <2> QED
    BY <2>1, <2>2
<1>7. FrameOK(g)'
  <2>1. g.mine <= setsBegun'[g.s]
    BY <1>4, <1>5, <1>6
  <2>2. g.type \in RequestTypes
    BY <1>2, <1>6 DEF RequestTypes
  <2> QED
    BY <1>1, <1>2, <1>3, <1>6, <2>1, <2>2 DEF FrameOK
<1>8. ASSUME NEW i \in Slots
      PROVE  /\ cache'[i] \in Slot /\ cache'[i].session = cache[i].session
             /\ cache'[i].vbl = cache[i].vbl /\ cache'[i].asked = cache[i].asked
             /\ cache'[i].addr = cache[i].addr /\ cache'[i].id = cache[i].id
             /\ cache'[i].status = cache[i].status
             /\ cache'[i].timestamp =
                  IF cache[i].session = f.s THEN 0 ELSE cache[i].timestamp
  <2>1. PICK d \in Slot : d = cache[i]
    BY <1>3
  <2>2. cache'[i] = IF d.session = f.s THEN [d EXCEPT !.timestamp = 0] ELSE d
    BY <1>1, <1>2, <1>3, <2>1 DEF CacheClear
  <2>3. LET e == [d EXCEPT !.timestamp = 0]
        IN  /\ e \in Slot /\ e.session = d.session /\ e.vbl = d.vbl /\ e.asked = d.asked
            /\ e.addr = d.addr /\ e.id = d.id /\ e.status = d.status /\ e.timestamp = 0
    BY ZenonT(30) DEF Slot
  <2> QED
    BY <2>1, <2>2, <2>3
<1>9. cache' \in [Slots -> Slot]
  <2>1. cache' = [i \in Slots |-> cache'[i]]
    BY <1>1, <1>3 DEF CacheClear
  <2> QED
    BY <1>8, <2>1
<1>10. RespBase'
  <2>1. /\ answered' \in Epochs /\ last' = last /\ rclock' = rclock /\ shared' = shared
        /\ \A s \in Ids : answered[s] <= answered'[s] /\ answered'[s] <= setsBegun'[s]
    BY <1>1, <1>3, <1>4 DEF Epochs
  <2> QED
    BY <1>1, <1>4, <1>6, <1>7, <1>9, <2>1, BaseGoto, ZenonT(30) DEF RespInv
<1>11. /\ DOMAIN frames' = DOMAIN frames /\ frames'[1] = g
       /\ \A k \in DOMAIN frames : k # 1 => frames'[k] = frames[k]
  BY <1>1, <1>3, <1>6, HeadPut DEF Goto
<1>12. ~ Building(g)
  BY <1>6, SMTT(60) DEF Building
<1>13. FreshInv'
  <2>1. ASSUME NEW i \in Slots
        PROVE  SlotFresh(cache[i])' /\ cache'[i].timestamp <= rclock
    <3>1. SlotFresh(cache[i]) /\ cache[i].timestamp <= rclock
      BY DEF RespInv, FreshInv
    <3>2. CASE cache[i].session = f.s
      BY <1>3, <1>8, <3>2, SMTT(60) DEF SlotFresh
    <3>3. CASE cache[i].session # f.s
      BY <1>4, <1>8, <3>1, <3>3 DEF SlotFresh
    <3> QED
      BY <3>2, <3>3
  <2>2. ASSUME NEW k \in DOMAIN frames, Building(frames'[k])
        PROVE  FillFresh(frames'[k], cache'[frames'[k].slot])
    <3>1. PICK h \in Frame : h = frames[k] /\ h = frames'[k]
      BY <1>3, <1>11, <1>12, <2>2
    <3>2. h.slot \in Slots /\ FillFresh(h, cache[h.slot])
      BY <2>2, <3>1, ZenonT(30) DEF RespInv, FreshInv, Frame
    <3> QED
      BY <1>8, <3>1, <3>2 DEF FillFresh
  <2> QED
    BY <1>1, <1>11, <2>1, <2>2 DEF FreshInv, FillFresh, Building
<1>14. ASSUME OwnInv PROVE OwnInv'
  <2> SUFFICES ASSUME ~ shared
               PROVE  /\ \A k \in DOMAIN frames' : Building(frames'[k]) =>
                            Around(frames[k])' /\ SlotFor(frames'[k], cache'[frames'[k].slot])
                      /\ \A k, l \in DOMAIN frames' :
                            k < l /\ Building(frames'[k]) /\ Building(frames'[l]) =>
                               frames'[k].taken < frames'[l].taken
                      /\ \A i \in Slots : Answers(cache'[i])
    BY <1>1 DEF OwnInv, Building, SlotFor, Answers
  <2>1. /\ \A k \in DOMAIN frames : Building(frames[k]) =>
              Around(frames[k]) /\ SlotFor(frames[k], cache[frames[k].slot])
        /\ \A k, l \in DOMAIN frames :
              k < l /\ Building(frames[k]) /\ Building(frames[l]) =>
                 frames[k].taken < frames[l].taken
        /\ \A i \in Slots : Answers(cache[i])
    BY <1>14 DEF OwnInv
  <2>2. \A k \in DOMAIN frames : Building(frames'[k]) => frames'[k] = frames[k]
    BY <1>11, <1>12
  <2>3. ASSUME NEW k \in DOMAIN frames, Building(frames'[k])
        PROVE  Around(frames[k])' /\ SlotFor(frames'[k], cache'[frames'[k].slot])
    <3>1. PICK h \in Frame : h = frames[k] /\ h = frames'[k]
      BY <1>3, <2>2, <2>3
    <3>2. h.slot \in Slots /\ Around(h) /\ SlotFor(h, cache[h.slot])
      BY <2>1, <2>3, <3>1, ZenonT(30) DEF Frame
    <3>3. SlotFor(h, cache'[h.slot])
      BY <1>8, <3>2, SMTT(60) DEF SlotFor, Whole
    <3> QED
      BY <1>1, <3>1, <3>2, <3>3 DEF Around
  <2>4. \A i \in Slots : Answers(cache'[i])
    BY <1>8, <2>1 DEF Answers, Whole
  <2> QED
    BY <1>11, <2>1, <2>2, <2>3, <2>4
<1> QED
  BY <1>1, <1>10, <1>13, <1>14, Silent DEF StepOK, RespInv

\* The slot found for a request.
LEMMA HitFacts ==
    ASSUME RespBase, NEW f, CacheHit(f) # {}
    PROVE  LET hit == CHOOSE i \in CacheHit(f) : \A j \in CacheHit(f) : i <= j
           IN  hit \in CacheHit(f) /\ hit \in Slots
<1>1. CacheHit(f) \subseteq Slots /\ Slots \subseteq Nat
  BY ResponderAssumption DEF CacheHit, RespBase, RespTypeOK, Slots
<1> DEFINE hit == CHOOSE i \in CacheHit(f) : \A j \in CacheHit(f) : i <= j
<1>2. hit \in CacheHit(f)
  BY <1>1, LeastSlot, Zenon
<1> HIDE DEF hit
<1> QED
  BY <1>1, <1>2 DEF hit

\* A reply is sent from the cache.
LEMMA HitStep ==
    ASSUME RespInv, TnmSnmpAgentRequest, Top.type # "set", CacheHit(Top) # {}
    PROVE  StepOK
<1>1. frames # <<>> /\ Top.pc = "recv" /\ RespBase /\ FreshInv
  BY DEF TnmSnmpAgentRequest, At, RespInv
<1>2. PICK f \in Frame : f = Top /\ FrameOK(f)
  BY <1>1, TopFacts
<1>3. PICK j \in Slots :
        /\ j \in CacheHit(f)
        /\ cache' = [cache EXCEPT ![j].addr = f.pkt.from]
        /\ reply' = [to |-> cache'[j].addr, id |-> cache'[j].id, status |-> cache'[j].status,
                     vbl |-> cache'[j].vbl, cached |-> TRUE, frame |-> f]
        /\ Goto([f EXCEPT !.pc = "walk", !.s = @ + 1])
        /\ UNCHANGED <<setsBegun, last, rclock, answered, shared>>
  <2> DEFINE hit == CHOOSE i \in CacheHit(f) : \A j \in CacheHit(f) : i <= j
  <2>1. hit \in CacheHit(f) /\ hit \in Slots
    BY <1>1, <1>2, HitFacts
  <2>2. /\ cache' = [cache EXCEPT ![hit].addr = f.pkt.from]
        /\ reply' = [to |-> cache'[hit].addr, id |-> cache'[hit].id, status |-> cache'[hit].status,
                     vbl |-> cache'[hit].vbl, cached |-> TRUE, frame |-> f]
        /\ Goto([f EXCEPT !.pc = "walk", !.s = @ + 1])
        /\ UNCHANGED <<setsBegun, last, rclock, answered, shared>>
    BY <1>2, ZenonT(30) DEF TnmSnmpAgentRequest, Send
  <2> HIDE DEF hit
  <2> QED
    BY <2>1, <2>2, ZenonT(30)
<1>4. /\ cache \in [Slots -> Slot] /\ rclock \in Nat /\ f.s \in Ids /\ f.mine = 0
      /\ setsBegun \in Epochs /\ answered \in Epochs /\ f.floor \in Epochs /\ f.s \in Nat
      /\ \A s \in Ids : answered[s] <= setsBegun[s]
  BY <1>1, <1>2 DEF RespBase, RespTypeOK, FrameOK, Frame
<1>5. PICK d \in Slot : d = cache[j]
  BY <1>4
<1>6. PICK c \in Slot : /\ cache' = [cache EXCEPT ![j] = c] /\ cache'[j] = c
                        /\ c.addr = f.pkt.from /\ c.session = d.session /\ c.asked = d.asked
                        /\ c.id = d.id /\ c.status = d.status /\ c.vbl = d.vbl
                        /\ c.timestamp = d.timestamp
  <2> DEFINE from == f.pkt.from
             c == [d EXCEPT !.addr = from]
  <2>1. from \in {pkt.from : pkt \in Packets} \cup {0}
    BY DEF Frame
  <2>2. cache' = [cache EXCEPT ![j] = c]
    BY <1>3, <1>5
  <2> HIDE DEF from
  <2>3. /\ c \in Slot /\ c.addr = from /\ c.session = d.session /\ c.asked = d.asked
        /\ c.id = d.id /\ c.status = d.status /\ c.vbl = d.vbl /\ c.timestamp = d.timestamp
    BY <2>1, ZenonT(30) DEF Slot
  <2> HIDE DEF c
  <2>4. cache'[j] = c
    BY <1>4, <2>2
  <2> QED
    BY <2>2, <2>3, <2>4, ZenonT(30) DEF from
<1>7. /\ f.pkt.id # 0 /\ d.id = f.pkt.id /\ d.session = f.s /\ d.timestamp # 0
      /\ rclock - d.timestamp <= CacheTime /\ d.asked = f.pkt.oids
  BY <1>3, <1>5 DEF CacheHit
<1>8. PICK g \in Frame : /\ Goto(g) /\ g.pc = "walk" /\ g.s = f.s + 1 /\ g.mine = f.mine
                         /\ g.type = f.type /\ g.pkt = f.pkt /\ g.floor = f.floor
  <2> DEFINE n == f.s + 1
             g == [f EXCEPT !.pc = "walk", !.s = n]
  <2>1. Goto(g) /\ "walk" \in Pcs /\ n \in Nat
    BY <1>3, <1>4 DEF Pcs
  <2> HIDE DEF n
  <2>2. /\ g \in Frame /\ g.pc = "walk" /\ g.s = n /\ g.mine = f.mine
        /\ g.type = f.type /\ g.pkt = f.pkt /\ g.floor = f.floor
    BY <2>1, ZenonT(30) DEF Frame
  <2> HIDE DEF g
  <2> QED
    BY <2>1, <2>2 DEF n
<1>9. FrameOK(g)'
  <2>1. g.s # 0 /\ g.mine = 0 /\ (g.s \in Ids => g.mine <= setsBegun[g.s])
    BY <1>4, <1>8 DEF Epochs
  <2> QED
    BY <1>2, <1>3, <1>8, <2>1 DEF FrameOK
<1>10. ~ Building(g)
  BY <1>8 DEF Building
<1>11. RespBase'
  <2>1. cache' \in [Slots -> Slot]
    BY <1>4, <1>6
  <2>2. /\ answered' \in Epochs /\ setsBegun' \in Epochs
        /\ \A s \in Ids : /\ setsBegun[s] <= setsBegun'[s] /\ answered[s] <= answered'[s]
                          /\ answered'[s] <= setsBegun'[s]
    BY <1>3, <1>4 DEF Epochs
  <2> QED
    BY <1>1, <1>3, <1>8, <1>9, <2>1, <2>2, BaseGoto
<1>12. Follows(c, cache[j])
  BY <1>5, <1>6 DEF Follows
<1>13. FreshInv'
  BY <1>1, <1>2, <1>3, <1>6, <1>8, <1>10, <1>12, FreshGoto, ZenonT(30)
<1>14. /\ reply'.to = f.pkt.from /\ reply'.id = d.id /\ reply'.status = d.status
       /\ reply'.vbl = d.vbl /\ reply'.frame = f /\ rclock' = rclock
  BY <1>3, <1>6, ZenonT(30)
<1>15. CachedFresh'
  <2>1. SlotFresh(d) /\ f.s \in Ids
    BY <1>1, <1>4, <1>5 DEF FreshInv
  <2>2. ASSUME NEW k \in 1 .. Len(d.vbl)
        PROVE  d.vbl[k].epoch[f.s] >= f.floor[f.s] /\ rclock - d.vbl[k].time <= CacheTime
    <3>1. d.vbl \in Seq(Binding)
      BY DEF Slot
    <3>2. PICK b \in Binding : b = d.vbl[k] /\ k \in DOMAIN d.vbl
      BY <3>1
    <3>3. b.epoch[f.s] >= setsBegun[f.s] /\ b.time >= d.timestamp
      BY <1>7, <2>1, <3>2 DEF SlotFresh
    <3>4. /\ b.epoch[f.s] \in Nat /\ b.time \in Nat /\ d.timestamp \in Nat
          /\ setsBegun[f.s] \in Nat /\ answered[f.s] \in Nat /\ f.floor[f.s] \in Nat
      BY <1>4, ZenonT(30) DEF Binding, Epochs, Slot
    <3>5. f.floor[f.s] <= answered[f.s] /\ answered[f.s] <= setsBegun[f.s]
      BY <1>2, <1>4 DEF FrameOK
    <3>6. b.epoch[f.s] >= f.floor[f.s]
      BY <3>3, <3>4, <3>5, SMTT(60)
    <3>7. rclock - b.time <= CacheTime
      <4>1. rclock \in Nat /\ rclock - d.timestamp <= CacheTime /\ CacheTime \in Nat
        BY <1>4, <1>7, ResponderAssumption
      <4> QED
        BY <3>3, <3>4, <4>1
    <3> QED
      BY <3>2, <3>6, <3>7
  <2> QED
    BY <1>14, <2>2 DEF CachedFresh
<1>16. ASSUME SameRequest, OwnInv PROVE OwnInv' /\ OwnReply'
  <2>1. \A pkt \in Packets : pkt.id = d.id /\ pkt.oids = d.asked =>
           pkt.type = f.pkt.type /\ pkt.from = f.pkt.from
    BY <1>7, <1>16 DEF SameRequest, Frame
  <2>2. ASSUME NEW k \in DOMAIN frames, ~ shared, k # 1, Building(frames[k]), frames[k].slot = j
        PROVE  SlotFor(frames[k], c)
    <3>1. PICK h \in Frame : h = frames[k]
      BY <1>1, <2>2, SMTT(60) DEF RespBase, RespTypeOK
    <3>2. SlotFor(h, d)
      BY <1>5, <1>16, <2>2, <3>1, SMTT(60) DEF OwnInv
    <3>3. h.pkt.from = f.pkt.from
      BY <1>7, <2>1, <3>2, SMTT(60) DEF SlotFor, Frame
    <3>4. SlotFor(h, c)
      BY <1>6, <3>2, <3>3 DEF SlotFor, Whole
    <3> QED
      BY <3>1, <3>4
  <2>3. ASSUME ~ shared PROVE Answers(c)
    <3>1. Answers(d)
      BY <1>5, <1>16, <2>3 DEF OwnInv
    <3> QED
      BY <1>6, <3>1 DEF Answers, Whole
  <2>4. OwnInv'
    BY <1>1, <1>3, <1>6, <1>8, <1>10, <1>16, <2>2, <2>3, OwnGoto, ZenonT(30)
  <2>5. ASSUME ~ shared
        PROVE  Whole(f.type, f.pkt.oids, d)
    <3>1. Answers(d)
      BY <1>5, <1>16, <2>5 DEF OwnInv
    <3>2. PICK pkt \in Packets : /\ pkt.id = d.id /\ pkt.oids = d.asked
                                 /\ Whole(pkt.type, pkt.oids, d)
      BY <1>7, <3>1 DEF Answers
    <3>3. f.type = f.pkt.type
      BY <1>1, <1>2 DEF FrameOK, RequestTypes
    <3> QED
      BY <1>7, <2>1, <3>2, <3>3
  <2>6. DOMAIN d.vbl = 1 .. Len(d.vbl)
    BY SMTT(60) DEF Slot
  <2>7. OwnReply'
    BY <1>3, <1>7, <1>14, <2>5, <2>6 DEF OwnReply, Whole, Named
  <2> QED
    BY <2>4, <2>7
<1> QED
  BY <1>11, <1>13, <1>15, <1>16 DEF StepOK, RespInv

\* The request is not in the cache.
LEMMA MissStep ==
    ASSUME RespInv, TnmSnmpAgentRequest, Top.type # "set", CacheHit(Top) = {}
    PROVE  StepOK
<1>1. /\ frames # <<>> /\ Top.pc = "recv" /\ reply' = noReply
      /\ Goto([Top EXCEPT !.pc = "begin"])
      /\ UNCHANGED <<cache, last, rclock, setsBegun, answered, shared>>
  BY DEF TnmSnmpAgentRequest, At
<1>2. PICK f \in Frame : f = Top /\ FrameOK(f)
  BY <1>1, TopFacts DEF RespInv
<1>3. PICK g \in Frame : /\ Goto(g) /\ g.pc = "begin" /\ g.mine = f.mine /\ g.s = f.s
                         /\ g.type = f.type /\ g.pkt = f.pkt /\ g.floor = f.floor
  <2> DEFINE g == [f EXCEPT !.pc = "begin"]
  <2>1. Goto(g) /\ "begin" \in Pcs
    BY <1>1, <1>2 DEF Pcs
  <2>2. /\ g \in Frame /\ g.pc = "begin" /\ g.mine = f.mine /\ g.s = f.s
        /\ g.type = f.type /\ g.pkt = f.pkt /\ g.floor = f.floor
    BY <2>1 DEF Frame
  <2> HIDE DEF g
  <2> QED
    BY <2>1, <2>2
<1>4. FrameOK(g)' /\ ~ Building(g)
  BY <1>1, <1>2, <1>3, SMTT(60) DEF FrameOK, Building
<1> QED
  BY <1>1, <1>2, <1>3, <1>4, WalkGoto, Silent DEF StepOK

\* The frames while one of them takes a slot.
LEMMA BeginFrames ==
    ASSUME RespInv, Begin
    PROVE  \E g \in Frame :
             /\ frames' \in Seq(Frame) /\ DOMAIN frames' = DOMAIN frames /\ frames'[1] = g
             /\ g.slot = last' /\ g.taken = 0 /\ g.i = 1 /\ g.floor = Top.floor
             /\ g.pc = (IF Top.type = "set" THEN "set" ELSE "var")
             /\ g.pkt = Top.pkt /\ g.type = Top.type /\ g.s = Top.s /\ g.mine = Top.mine
             /\ \A k \in DOMAIN frames : k # 1 =>
                  /\ frames'[k].taken = frames[k].taken + 1 /\ frames'[k].slot = frames[k].slot
                  /\ frames'[k].pc = frames[k].pc /\ frames'[k].pkt = frames[k].pkt
                  /\ frames'[k].type = frames[k].type /\ frames'[k].s = frames[k].s
                  /\ frames'[k].mine = frames[k].mine /\ frames'[k].floor = frames[k].floor
                  /\ frames'[k].i = frames[k].i
<1>1. frames # <<>> /\ RespBase /\ last \in Slots /\ last' = (last + 1) % CacheSize
  BY DEF Begin, At, RespInv, RespBase, RespTypeOK, CacheGet
<1>2. PICK f \in Frame : f = Top
  BY <1>1, TopFacts
<1>3. PICK l \in Slots : l = last'
  BY <1>1, ResponderAssumption, NextSlot, ZenonT(30) DEF Slots
<1>4. PICK n \in Nat : n = Len(frames) /\ DOMAIN frames = 1 .. n /\ n # 0
  BY <1>1 DEF RespBase, RespTypeOK
<1> DEFINE pc == IF f.type = "set" THEN "set" ELSE "var"
           g == [f EXCEPT !.pc = pc, !.i = 1, !.slot = l, !.taken = 0]
           other(k) == [frames[k] EXCEPT !.taken = @ + 1]
<1>5. frames' = [k \in 1 .. n |-> IF k = 1 THEN g ELSE other(k)]
  BY <1>2, <1>3, <1>4 DEF Begin
<1>6. /\ g \in Frame /\ g.slot = l /\ g.taken = 0 /\ g.i = 1 /\ g.floor = f.floor /\ g.pc = pc
      /\ g.pkt = f.pkt /\ g.type = f.type /\ g.s = f.s /\ g.mine = f.mine
  <2>1. pc \in Pcs
    BY DEF Pcs
  <2>2. PICK one \in Nat \ {0} : one = 1
    OBVIOUS
  <2>3. g = [f EXCEPT !.pc = pc, !.i = one, !.slot = l, !.taken = 0]
    BY <2>2, SMTT(60)
  <2> HIDE DEF pc, g
  <2> QED
    BY <2>1, <2>2, <2>3, ZenonT(30) DEF Frame
<1>7. ASSUME NEW k \in 1 .. n
      PROVE  /\ other(k) \in Frame
             /\ other(k).taken = frames[k].taken + 1 /\ other(k).slot = frames[k].slot
             /\ other(k).pc = frames[k].pc /\ other(k).pkt = frames[k].pkt
             /\ other(k).type = frames[k].type /\ other(k).s = frames[k].s
             /\ other(k).mine = frames[k].mine /\ other(k).floor = frames[k].floor
             /\ other(k).i = frames[k].i
  <2>1. PICK h \in Frame : h = frames[k]
    BY <1>1, <1>4 DEF RespBase, RespTypeOK
  <2>2. PICK t \in Nat : t = h.taken + 1
    BY DEF Frame
  <2> DEFINE o == [h EXCEPT !.taken = t]
  <2>3. other(k) = o
    BY <2>1, <2>2
  <2>4. /\ o \in Frame /\ o.taken = t /\ o.slot = h.slot /\ o.pc = h.pc /\ o.pkt = h.pkt
        /\ o.type = h.type /\ o.s = h.s /\ o.mine = h.mine /\ o.floor = h.floor /\ o.i = h.i
    BY SMTT(60) DEF Frame
  <2> HIDE DEF o, other
  <2> QED
    BY <2>1, <2>2, <2>3, <2>4
<1> HIDE DEF g, other
<1>8. /\ frames' \in [1 .. n -> Frame] /\ frames'[1] = g
      /\ \A k \in DOMAIN frames : k # 1 => frames'[k] = other(k)
  BY <1>4, <1>5, <1>6, <1>7
<1>9. frames' \in Seq(Frame) /\ DOMAIN frames' = DOMAIN frames
  BY <1>4, <1>8, SeqDef
<1>10. /\ g.slot = last' /\ g.taken = 0 /\ g.i = 1 /\ g.floor = Top.floor
       /\ g.pc = (IF Top.type = "set" THEN "set" ELSE "var")
       /\ g.pkt = Top.pkt /\ g.type = Top.type /\ g.s = Top.s /\ g.mine = Top.mine
  BY <1>2, <1>3, <1>6, SMTT(60)
<1>11. \A k \in DOMAIN frames : k # 1 =>
          /\ frames'[k].taken = frames[k].taken + 1 /\ frames'[k].slot = frames[k].slot
          /\ frames'[k].pc = frames[k].pc /\ frames'[k].pkt = frames[k].pkt
          /\ frames'[k].type = frames[k].type /\ frames'[k].s = frames[k].s
          /\ frames'[k].mine = frames[k].mine /\ frames'[k].floor = frames[k].floor
          /\ frames'[k].i = frames[k].i
  BY <1>4, <1>7, <1>8
<1> QED
  BY <1>6, <1>8, <1>9, <1>10, <1>11

\* A slot is taken for the reply.
LEMMA BeginStep ==
    ASSUME RespInv, Begin
    PROVE  StepOK
<1>1. /\ frames # <<>> /\ Top.pc = "begin" /\ reply' = noReply
      /\ last' = (last + 1) % CacheSize
      /\ rclock' = rclock /\ setsBegun' = setsBegun /\ answered' = answered
  BY DEF Begin, At, CacheGet
<1>2. PICK f \in Frame : f = Top /\ FrameOK(f)
  BY <1>1, TopFacts, SMTT(60) DEF RespInv
<1>3. /\ frames \in Seq(Frame) /\ cache \in [Slots -> Slot] /\ rclock \in Nat /\ last \in Slots
      /\ setsBegun \in Epochs /\ answered \in Epochs /\ shared \in BOOLEAN
      /\ f.s \in Ids /\ f.s \in Nat /\ f.type \in RequestTypes
      /\ \A s \in Ids : answered[s] <= setsBegun[s]
      /\ \A k \in DOMAIN frames : frames[k] \in Frame /\ FrameOK(frames[k])
      /\ \A k \in DOMAIN frames : k # 1 => frames[k].pc \in Scripts
  <2>1. f.s \in Ids /\ f.s \in Nat /\ f.type \in RequestTypes
    BY <1>1, <1>2 DEF FrameOK, Frame
  <2> QED
    BY <2>1 DEF RespInv, RespBase, RespTypeOK
<1>4. PICK l \in Slots : l = last' /\ l = (IF last + 1 = CacheSize THEN 0 ELSE last + 1)
  BY <1>1, <1>3, ResponderAssumption, NextSlot, ZenonT(30) DEF Slots
<1>5. PICK g \in Frame :
         /\ frames' \in Seq(Frame) /\ DOMAIN frames' = DOMAIN frames /\ frames'[1] = g
         /\ g.slot = l /\ g.taken = 0 /\ g.i = 1 /\ g.floor = f.floor
         /\ g.pc = (IF f.type = "set" THEN "set" ELSE "var")
         /\ g.pkt = f.pkt /\ g.type = f.type /\ g.s = f.s /\ g.mine = f.mine
         /\ \A k \in DOMAIN frames : k # 1 =>
              /\ frames'[k].taken = frames[k].taken + 1 /\ frames'[k].slot = frames[k].slot
              /\ frames'[k].pc = frames[k].pc /\ frames'[k].pkt = frames[k].pkt
              /\ frames'[k].type = frames[k].type /\ frames'[k].s = frames[k].s
              /\ frames'[k].mine = frames[k].mine /\ frames'[k].floor = frames[k].floor
              /\ frames'[k].i = frames[k].i
  BY <1>2, <1>4, BeginFrames
<1>6. PICK c \in Slot : /\ cache' = [cache EXCEPT ![l] = c]
                        /\ c.session = f.s /\ c.asked = f.pkt.oids /\ c.addr = f.pkt.from
                        /\ c.id = 0 /\ c.status = NOERROR /\ c.vbl = <<>> /\ c.timestamp = rclock
  <2>1. PICK oids \in Seq(Int) : oids = f.pkt.oids
    BY ResponderAssumption DEF Frame
  <2>2. PICK from \in {pkt.from : pkt \in Packets} \cup {0} : from = f.pkt.from
    BY SMTT(60) DEF Frame
  <2>3. PICK s \in Nat : s = f.s
    BY <1>3
  <2>4. PICK t \in Nat : t = rclock
    BY <1>3
  <2>0. PICK e \in Slot : e = EmptySlot /\ e.id = 0 /\ e.status = NOERROR /\ e.vbl = <<>>
    BY EmptyIsSlot
  <2> DEFINE c == [e EXCEPT !.session = s, !.asked = oids, !.addr = from, !.timestamp = t]
  <2>5. cache' = [cache EXCEPT ![l] = c]
    BY <1>2, <1>4, <2>0, <2>1, <2>2, <2>3, <2>4, ZenonT(30) DEF Begin, CacheGet
  <2>6. /\ c \in Slot /\ c.session = s /\ c.asked = oids /\ c.addr = from
        /\ c.id = e.id /\ c.status = e.status /\ c.vbl = e.vbl /\ c.timestamp = t
    BY ZenonT(30) DEF Slot
  <2> HIDE DEF c
  <2> QED
    BY <2>0, <2>1, <2>2, <2>3, <2>4, <2>5, <2>6, ZenonT(30)
<1>7. cache' \in [Slots -> Slot] /\ cache'[l] = c /\ \A i \in Slots : i # l => cache'[i] = cache[i]
  BY <1>3, <1>6
<1>8. DOMAIN c.vbl = {} /\ Len(c.vbl) = 0
  BY <1>6, SMTT(60)
<1>9. 1 \in DOMAIN frames /\ \A k \in DOMAIN frames : k # 1 => frames[k].slot \in Slots
  BY <1>1, <1>3, TopFacts, SMTT(60) DEF RespInv, Frame
<1>10. RespBase'
  <2>1. FrameOK(frames[1])'
    <3>1. FrameOK(g)'
      <4>1. g.pc \notin {"walk", "recv", "notify"}
        BY <1>5, SMTT(60)
      <4>2. FrameOK(g)
        BY <1>2, <1>3, <1>5, <4>1, ZenonT(30) DEF FrameOK
      <4> QED
        BY <1>1, <4>2, ZenonT(30) DEF FrameOK
    <3> QED
      BY <1>5, <3>1, SMTT(60) DEF FrameOK
  <2>2. \A k \in DOMAIN frames : k # 1 => FrameOK(frames[k])' /\ frames'[k].pc \in Scripts
    BY <1>1, <1>3, <1>5, SMTT(60) DEF FrameOK
  <2>3. RespTypeOK'
    <3>1. shared' \in BOOLEAN
      BY SMTT(60) DEF Begin
    <3> QED
      BY <1>1, <1>3, <1>4, <1>5, <1>7, <3>1 DEF RespTypeOK
  <2> QED
    BY <1>1, <1>3, <1>5, <2>1, <2>2, <2>3, SMTT(60) DEF RespBase
<1>11. FreshInv'
  <2>1. SlotFresh(c) /\ c.timestamp <= rclock
    BY <1>3, <1>6, <1>8, SMTT(60) DEF SlotFresh
  <2>2. \A i \in Slots : SlotFresh(cache[i])' /\ cache'[i].timestamp <= rclock'
    BY <1>1, <1>7, <2>1 DEF RespInv, FreshInv, SlotFresh
  <2>3. ASSUME NEW h PROVE FillFresh(h, c)
    BY <1>8 DEF FillFresh
  <2>4. ASSUME NEW k \in DOMAIN frames, Building(frames'[k])
        PROVE  FillFresh(frames'[k], cache'[frames'[k].slot])
    <3>1. CASE k = 1
      BY <1>5, <1>7, <2>3, <3>1, ZenonT(30)
    <3>2. CASE k # 1
      <4>1. Building(frames[k]) /\ frames[k].slot \in Slots
        BY <1>5, <1>9, <2>4, <3>2 DEF Building
      <4>2. FillFresh(frames[k], cache[frames[k].slot])
        BY <4>1, SMTT(60) DEF RespInv, FreshInv
      <4>3. FillFresh(frames'[k], cache[frames[k].slot])
        BY <1>5, <3>2, <4>2, SMTT(60) DEF FillFresh
      <4> QED
        BY <1>5, <1>7, <2>3, <3>2, <4>1, <4>3, SMTT(60)
    <3> QED
      BY <3>1, <3>2, SMTT(60)
  <2> QED
    BY <1>5, <2>2, <2>4 DEF FreshInv, FillFresh, Building
<1>12. ASSUME OwnInv PROVE OwnInv'
  <2> SUFFICES ASSUME ~ shared'
               PROVE  /\ \A k \in DOMAIN frames' : Building(frames'[k]) =>
                            Around(frames[k])' /\ SlotFor(frames'[k], cache'[frames'[k].slot])
                      /\ \A k, m \in DOMAIN frames' :
                            k < m /\ Building(frames'[k]) /\ Building(frames'[m]) =>
                               frames'[k].taken < frames'[m].taken
                      /\ \A i \in Slots : Answers(cache'[i])
    BY ZenonT(30) DEF OwnInv, Building, SlotFor, Answers
  <2>1. ~ shared /\ \A k \in 2 .. Len(frames) :
                       ~ (Executing(frames[k]) /\ frames[k].taken + 1 = CacheSize)
    BY ZenonT(30) DEF Begin
  <2>2. /\ \A k \in DOMAIN frames : Building(frames[k]) =>
              Around(frames[k]) /\ SlotFor(frames[k], cache[frames[k].slot])
        /\ \A k, m \in DOMAIN frames :
              k < m /\ Building(frames[k]) /\ Building(frames[m]) =>
                 frames[k].taken < frames[m].taken
        /\ \A i \in Slots : Answers(cache[i])
    BY <1>12, <2>1, ZenonT(30) DEF OwnInv
  <2>3. Around(frames[1])' /\ SlotFor(frames'[1], cache'[frames'[1].slot])
    <3>1. SlotFor(g, c)
      <4>1. Len(f.pkt.oids) \in Nat
        BY ResponderAssumption, SMTT(60) DEF Frame
      <4> QED
        BY <1>5, <1>6, <1>8, <4>1 DEF SlotFor, Named
    <3>2. Around(frames[1])'
      <4>1. 0 < CacheSize /\ l + 0 = l
        BY ResponderAssumption, SMTT(60) DEF Slots
      <4> QED
        BY <1>4, <1>5, <4>1, ZenonT(30) DEF Around
    <3> QED
      BY <1>5, <1>7, <3>1, <3>2, ZenonT(30)
  <2>4. ASSUME NEW k \in DOMAIN frames, k # 1, Building(frames'[k])
        PROVE  /\ Building(frames[k])
               /\ Around(frames[k])' /\ SlotFor(frames'[k], cache'[frames'[k].slot])
    <3>1. PICK h \in Frame : h = frames[k]
      BY <1>3
    <3>2. PICK e \in Frame : e = frames'[k]
      BY <1>5, SMTT(60)
    <3>3. /\ e.taken = h.taken + 1 /\ e.slot = h.slot /\ e.pc = h.pc /\ e.pkt = h.pkt
          /\ e.type = h.type /\ e.i = h.i
      BY <1>5, <2>4, <3>1, <3>2, SMTT(60)
    <3>4. Building(h) /\ h.pc \in Scripts
      BY <1>3, <2>4, <3>1, <3>2, <3>3, SMTT(60) DEF Building
    <3>5. Executing(h) /\ k \in 2 .. Len(frames)
      BY <1>3, <2>4, <3>4 DEF Executing, Building, Scripts
    <3>6. h.taken + 1 # CacheSize
      BY <2>1, <3>1, <3>5, SMTT(60)
    <3>7. Around(h) /\ SlotFor(h, cache[h.slot])
      BY <2>2, <3>1, <3>4
    <3>8. /\ h.taken \in Nat /\ h.slot \in Slots /\ h.slot \in Int /\ last \in Int /\ l \in Int
          /\ CacheSize \in Nat /\ 0 <= h.slot /\ h.slot < CacheSize
      <4>1. h.taken \in Nat /\ h.slot \in Slots
        BY DEF Frame
      <4> QED
        BY <1>3, <4>1, ResponderAssumption DEF Slots
    <3>9. /\ e.taken < CacheSize /\ e.slot # l
          /\ e.slot + e.taken = l \/ e.slot + e.taken = l + CacheSize
      BY <1>4, <3>3, <3>6, <3>7, <3>8 DEF Around
    <3>10. Around(frames[k])'
      BY <1>4, <3>2, <3>9 DEF Around
    <3>11. SlotFor(e, cache[e.slot])
      BY <3>3, <3>7, ZenonT(30) DEF SlotFor
    <3> QED
      BY <1>7, <3>1, <3>2, <3>3, <3>4, <3>8, <3>9, <3>10, <3>11, ZenonT(30)
  <2>5. ASSUME NEW k \in DOMAIN frames, NEW m \in DOMAIN frames, k < m,
               Building(frames'[k]), Building(frames'[m])
        PROVE  frames'[k].taken < frames'[m].taken
    <3>1. \A j \in DOMAIN frames : frames[j].taken \in Nat
      BY <1>3, SMTT(60) DEF Frame
    <3>2. m # 1
      BY <1>3, <2>5, SMTT(60)
    <3>3. CASE k = 1
      BY <1>5, <3>1, <3>2, <3>3, SMTT(60)
    <3>4. CASE k # 1
      <4>1. Building(frames[k])
        BY <2>4, <2>5, <3>4, ZenonT(30)
      <4>2. Building(frames[m])
        BY <2>4, <2>5, <3>2, ZenonT(30)
      <4>3. frames[k].taken < frames[m].taken
        BY <2>2, <2>5, <4>1, <4>2, ZenonT(30)
      <4>4. frames'[k].taken = frames[k].taken + 1 /\ frames'[m].taken = frames[m].taken + 1
        BY <1>5, <3>2, <3>4, SMTT(60)
      <4> QED
        BY <3>1, <4>3, <4>4, SMTT(60)
    <3> QED
      BY <3>3, <3>4, SMTT(60)
  <2>6. \A i \in Slots : Answers(cache'[i])
    <3>1. Answers(c)
      BY <1>6 DEF Answers
    <3> QED
      BY <1>7, <2>2, <3>1
  <2> QED
    BY <1>5, <2>3, <2>4, <2>5, <2>6, ZenonT(30)
<1> QED
  BY <1>1, <1>10, <1>11, <1>12, Silent DEF StepOK, RespInv

\* The innermost frame goes on with the slot it fills.
LEMMA FillStep ==
    ASSUME RespInv, frames # <<>>, Building(Top), NEW g \in Frame, Goto(g), Building(g),
           g.pkt = Top.pkt, g.type = Top.type, g.s = Top.s, g.mine = Top.mine,
           g.floor = Top.floor, g.slot = Top.slot, g.taken = Top.taken,
           NEW c \in Slot, cache' = [cache EXCEPT ![Top.slot] = c], Follows(c, cache[Top.slot]),
           SlotFor(Top, cache[Top.slot]) => SlotFor(g, c) /\ Answers(c),
           UNCHANGED <<last, rclock, setsBegun, answered, shared>>, reply' = noReply
    PROVE  StepOK
<1>1. PICK f \in Frame : f = Top /\ FrameOK(f)
  BY TopFacts DEF RespInv
<1>2. FrameOK(g)'
  <2>1. f.s \in Ids /\ f.type \in RequestTypes /\ g.pc \notin {"walk", "recv", "notify"}
    BY <1>1, ZenonT(30) DEF FrameOK, Building
  <2> QED
    BY <1>1, <2>1, ZenonT(30) DEF FrameOK
<1>3. /\ answered' \in Epochs
      /\ \A s \in Ids : answered[s] <= answered'[s] /\ answered'[s] <= setsBegun[s]
  BY SMTT(60) DEF RespInv, RespBase, RespTypeOK, Epochs
<1>4. OwnInv /\ ~ shared => SlotFor(Top, cache[Top.slot])
  BY TopFacts DEF OwnInv, RespInv
<1>5. /\ RespBase' /\ FreshInv'
      /\ OwnInv /\ (~ shared => Answers(c) /\ (Building(g) => SlotFor(g, c))) => OwnInv'
  BY <1>2, <1>3, SlotGoto, ZenonT(30) DEF RespInv
<1> QED
  BY <1>4, <1>5, Silent DEF StepOK, RespInv

\* The slot the innermost frame fills, as it is.
LEMMA SameSlot ==
    ASSUME RespInv, frames # <<>>, UNCHANGED cache
    PROVE  \E c \in Slot : /\ c = cache[Top.slot] /\ cache' = [cache EXCEPT ![Top.slot] = c]
                           /\ Follows(c, cache[Top.slot])
<1>1. cache \in [Slots -> Slot] /\ Top.slot \in Slots
  BY TopFacts DEF RespInv, RespBase, RespTypeOK
<1>2. PICK j \in Slots : j = Top.slot
  BY <1>1
<1>3. PICK c \in Slot : c = cache[j]
  BY <1>1
<1>4. cache' = [cache EXCEPT ![j] = c]
  BY <1>1, <1>3
<1>5. Follows(c, cache[j])
  BY <1>3 DEF Follows
<1> QED
  BY <1>2, <1>3, <1>4, <1>5, ZenonT(30)

\* The slot the innermost frame fills, with another status.
LEMMA StatusSlot ==
    ASSUME RespInv, frames # <<>>, NEW st \in Statuses,
           cache' = [cache EXCEPT ![Top.slot].status = st]
    PROVE  \E d \in Slot, c \in Slot :
             /\ d = cache[Top.slot] /\ cache' = [cache EXCEPT ![Top.slot] = c]
             /\ Follows(c, cache[Top.slot]) /\ c.status = st /\ c.vbl = d.vbl
             /\ c.asked = d.asked /\ c.addr = d.addr /\ c.id = d.id
<1>1. cache \in [Slots -> Slot] /\ Top.slot \in Slots
  BY TopFacts DEF RespInv, RespBase, RespTypeOK
<1>2. PICK j \in Slots : j = Top.slot
  BY <1>1
<1>3. PICK d \in Slot : d = cache[j]
  BY <1>1
<1> DEFINE c == [d EXCEPT !.status = st]
<1>4. cache' = [cache EXCEPT ![j] = c]
  BY <1>2, <1>3
<1>5. /\ c \in Slot /\ c.status = st /\ c.vbl = d.vbl /\ c.asked = d.asked /\ c.addr = d.addr
      /\ c.id = d.id /\ c.session = d.session /\ c.timestamp = d.timestamp
  BY ZenonT(30) DEF Slot
<1> HIDE DEF c
<1>6. Follows(c, cache[j])
  BY <1>3, <1>5 DEF Follows
<1> QED
  BY <1>2, <1>3, <1>4, <1>5, <1>6, ZenonT(30)

\* The slot the innermost frame fills, with one more variable.
LEMMA PutSlot ==
    ASSUME RespInv, frames # <<>>, NEW oid \in Int \cup Served, NEW value \in BOOLEAN,
           Put(oid, value)
    PROVE  \E d \in Slot, c \in Slot :
             /\ d = cache[Top.slot] /\ cache' = [cache EXCEPT ![Top.slot] = c]
             /\ Follows(c, cache[Top.slot]) /\ c.status = d.status
             /\ c.asked = d.asked /\ c.addr = d.addr /\ c.id = d.id
             /\ Len(c.vbl) = Len(d.vbl) + 1 /\ DOMAIN c.vbl = 1 .. Len(d.vbl) + 1
             /\ Len(d.vbl) \in Nat /\ DOMAIN d.vbl = 1 .. Len(d.vbl)
             /\ c.vbl[Len(d.vbl) + 1].oid = oid
             /\ \A k \in DOMAIN d.vbl : c.vbl[k] = d.vbl[k]
<1>1. /\ cache \in [Slots -> Slot] /\ Top.slot \in Slots /\ setsBegun \in Epochs /\ rclock \in Nat
  BY TopFacts DEF RespInv, RespBase, RespTypeOK
<1>2. PICK j \in Slots : j = Top.slot
  BY <1>1
<1>3. PICK d \in Slot : d = cache[j]
  BY <1>1
<1>4. PICK b \in Binding :
         /\ b = [oid |-> oid, value |-> value, epoch |-> setsBegun, time |-> rclock]
         /\ b.oid = oid /\ b.epoch = setsBegun /\ b.time = rclock
  <2> DEFINE b == [oid |-> oid, value |-> value, epoch |-> setsBegun, time |-> rclock]
  <2>1. b \in Binding
    BY <1>1 DEF Binding
  <2> QED
    BY <2>1
<1>5. PICK v \in Seq(Binding) : v = d.vbl
  BY DEF Slot
<1>6. PICK w \in Seq(Binding) : /\ w = Append(v, b) /\ Len(w) = Len(v) + 1
                                /\ DOMAIN w = 1 .. Len(v) + 1 /\ Len(v) \in Nat
                                /\ DOMAIN v = 1 .. Len(v) /\ w[Len(v) + 1] = b
                                /\ \A k \in DOMAIN v : w[k] = v[k]
  <2> DEFINE w == Append(v, b)
  <2>1. /\ w \in Seq(Binding) /\ Len(w) = Len(v) + 1 /\ w[Len(v) + 1] = b
        /\ \A k \in 1 .. Len(v) : w[k] = v[k]
    OBVIOUS
  <2>2. Len(v) \in Nat /\ DOMAIN v = 1 .. Len(v)
    BY SMTT(60)
  <2> HIDE DEF w
  <2>3. DOMAIN w = 1 .. Len(v) + 1
    BY <2>1
  <2> QED
    BY <2>1, <2>2, <2>3, ZenonT(30) DEF w
<1> DEFINE c == [d EXCEPT !.vbl = w]
<1>7. cache' = [cache EXCEPT ![j] = c]
  BY <1>2, <1>3, <1>4, <1>5, <1>6, ZenonT(30) DEF Put
<1>8. /\ c \in Slot /\ c.status = d.status /\ c.vbl = w /\ c.asked = d.asked /\ c.addr = d.addr
      /\ c.id = d.id /\ c.session = d.session /\ c.timestamp = d.timestamp
  BY ZenonT(30) DEF Slot
<1> HIDE DEF c
<1>9. Follows(c, cache[j])
  <2>1. ASSUME NEW k \in DOMAIN w
        PROVE  \/ k \in DOMAIN v /\ w[k] = v[k]
               \/ w[k].epoch = setsBegun /\ w[k].time = rclock
    <3>1. k \in DOMAIN v \/ k = Len(v) + 1
      BY <1>6
    <3>2. CASE k \in DOMAIN v
      <4>1. w[k] = v[k]
        BY <1>6, <3>2, SMTT(60)
      <4> QED
        BY <3>2, <4>1
    <3>3. CASE k = Len(v) + 1
      <4>1. w[k] = b
        BY <1>6, <3>3
      <4> QED
        BY <1>4, <4>1
    <3> QED
      BY <3>1, <3>2, <3>3
  <2> QED
    BY <1>3, <1>5, <1>8, <2>1 DEF Follows
<1>10. /\ Len(c.vbl) = Len(d.vbl) + 1 /\ DOMAIN c.vbl = 1 .. Len(d.vbl) + 1
       /\ Len(d.vbl) \in Nat /\ DOMAIN d.vbl = 1 .. Len(d.vbl)
       /\ c.vbl[Len(d.vbl) + 1].oid = oid
       /\ \A k \in DOMAIN d.vbl : c.vbl[k] = d.vbl[k]
  BY <1>4, <1>5, <1>6, <1>8, ZenonT(30)
<1> QED
  BY <1>2, <1>3, <1>7, <1>8, <1>9, <1>10, ZenonT(30)

\* What follows the variables dealt with is the current one.
LEMMA Successor ==
    ASSUME NEW j \in Nat, NEW n, NEW k, n = j - 1, k = n + 1
    PROVE  k = j
OBVIOUS

\* One more variable is dealt with.
LEMMA OneMore ==
    ASSUME NEW j \in Nat, NEW n \in Nat, ~ (j > n)
    PROVE  j + 1 \in 1 .. n + 1 /\ (j - 1) + 1 = (j + 1) - 1
OBVIOUS

\* The variable put is the next one of the request.
LEMMA PutFor ==
    ASSUME NEW f \in Frame, NEW g \in Frame, NEW d \in Slot, NEW c \in Slot, NEW o,
           SlotFor(f, d), f.pc \in {"var", "get"}, f.i \in Nat, Len(f.pkt.oids) \in Nat,
           ~ (f.i > Len(f.pkt.oids)), g.pc = "var", g.i = f.i + 1, g.pkt = f.pkt, g.type = f.type,
           c.status = d.status, c.asked = d.asked, c.addr = d.addr, c.id = d.id,
           Len(c.vbl) = Len(d.vbl) + 1, DOMAIN c.vbl = 1 .. Len(d.vbl) + 1,
           Len(d.vbl) \in Nat, DOMAIN d.vbl = 1 .. Len(d.vbl),
           c.vbl[Len(d.vbl) + 1].oid = o,
           \A k \in DOMAIN d.vbl : c.vbl[k] = d.vbl[k],
           o \in Instance(f.type, f.pkt.oids[f.i]) \cup {f.pkt.oids[f.i]}
    PROVE  SlotFor(g, c) /\ Answers(c)
<1>1. /\ d.status = NOERROR /\ f.i \in 1 .. Len(f.pkt.oids) + 1 /\ Len(d.vbl) = f.i - 1
      /\ d.id = 0 /\ Named(f.type, f.pkt.oids, d.vbl)
      /\ d.asked = f.pkt.oids /\ d.addr = f.pkt.from
  BY DEF SlotFor
<1>2. Named(f.type, f.pkt.oids, c.vbl)
  <2> SUFFICES ASSUME NEW k \in DOMAIN c.vbl
               PROVE  c.vbl[k].oid \in Instance(f.type, f.pkt.oids[k]) \cup {f.pkt.oids[k]}
    BY ZenonT(30) DEF Named
  <2>1. k \in DOMAIN d.vbl \/ k = Len(d.vbl) + 1
    OBVIOUS
  <2>2. CASE k \in DOMAIN d.vbl
    BY <1>1, <2>2, ZenonT(30) DEF Named
  <2>3. CASE k = Len(d.vbl) + 1
    <3>1. k = f.i
      BY <1>1, <2>3, Successor, ZenonT(30)
    <3> QED
      BY <2>3, <3>1, ZenonT(30)
  <2> QED
    BY <2>1, <2>2, <2>3, ZenonT(30)
<1>3. g.i \in 1 .. Len(f.pkt.oids) + 1 /\ Len(c.vbl) = g.i - 1
  <2>1. /\ f.i + 1 \in 1 .. Len(f.pkt.oids) + 1
        /\ (f.i - 1) + 1 = (f.i + 1) - 1
    BY OneMore, ZenonT(30)
  <2> QED
    BY <1>1, <2>1, ZenonT(30)
<1>4. SlotFor(g, c)
  BY <1>1, <1>2, <1>3, ZenonT(30) DEF SlotFor
<1> QED
  BY <1>1, <1>4, ZenonT(30) DEF Answers

\* The frame goes on with its slot.
LEMMA MoveTo ==
    ASSUME NEW f \in Frame, NEW pc \in {"done", "get", "end"}
    PROVE  LET g == [f EXCEPT !.pc = pc] IN
           /\ g \in Frame /\ g.pc = pc /\ g.i = f.i /\ Building(g)
           /\ g.pkt = f.pkt /\ g.type = f.type /\ g.s = f.s /\ g.mine = f.mine
           /\ g.floor = f.floor /\ g.slot = f.slot /\ g.taken = f.taken
<1> DEFINE g == [f EXCEPT !.pc = pc]
<1>1. pc \in Pcs
  BY DEF Pcs
<1>2. /\ g \in Frame /\ g.pc = pc /\ g.i = f.i
      /\ g.pkt = f.pkt /\ g.type = f.type /\ g.s = f.s /\ g.mine = f.mine
      /\ g.floor = f.floor /\ g.slot = f.slot /\ g.taken = f.taken
  BY <1>1 DEF Frame
<1> HIDE DEF g
<1>3. Building(g)
  BY <1>2 DEF Building
<1> QED
  BY <1>2, <1>3 DEF g

\* One variable of a request is looked up.
LEMMA GetVariableStep ==
    ASSUME RespInv, GetVariable
    PROVE  StepOK
<1>1. /\ frames # <<>> /\ Top.pc = "var" /\ reply' = noReply
      /\ UNCHANGED <<last, rclock, setsBegun, answered, shared>>
  BY DEF GetVariable, At
<1>2. PICK f \in Frame : f = Top /\ FrameOK(f)
  BY <1>1, TopFacts DEF RespInv
<1>3. Building(Top) /\ f.i \in Nat /\ f.pkt.oids \in Seq(Int) /\ Len(f.pkt.oids) \in Nat
  BY <1>1, <1>2, ResponderAssumption DEF Building, Frame
<1>5. CASE f.i > Len(f.pkt.oids) \/ Instance(f.type, f.pkt.oids[f.i]) # {}
  <2>1. PICK pc \in {"done", "get", "end"} :
           /\ Goto([f EXCEPT !.pc = pc]) /\ UNCHANGED cache
           /\ pc = (IF f.i > Len(f.pkt.oids) THEN "done" ELSE "get")
    BY <1>2, <1>5, ZenonT(30) DEF GetVariable
  <2>2. PICK g \in Frame :
           /\ Goto(g) /\ g.pc = pc /\ g.i = f.i /\ Building(g)
           /\ g.pkt = f.pkt /\ g.type = f.type /\ g.s = f.s /\ g.mine = f.mine
           /\ g.floor = f.floor /\ g.slot = f.slot /\ g.taken = f.taken
    BY <2>1, MoveTo, ZenonT(30)
  <2>3. PICK c \in Slot : /\ c = cache[f.slot] /\ cache' = [cache EXCEPT ![f.slot] = c]
                          /\ Follows(c, cache[f.slot])
    BY <1>1, <1>2, <2>1, SameSlot
  <2>4. ASSUME SlotFor(f, c) PROVE SlotFor(g, c) /\ Answers(c)
    <3>1. /\ c.status = NOERROR /\ f.i \in 1 .. Len(f.pkt.oids) + 1 /\ Len(c.vbl) = f.i - 1
          /\ c.id = 0 /\ Named(f.type, f.pkt.oids, c.vbl)
          /\ c.asked = f.pkt.oids /\ c.addr = f.pkt.from
      BY <1>1, <1>2, <2>4 DEF SlotFor
    <3>2. pc = "done" => Len(c.vbl) = Len(f.pkt.oids)
      BY <1>3, <2>1, <3>1
    <3>3. pc = "get" => f.i # Len(f.pkt.oids) + 1
      BY <1>3, <2>1
    <3>4. SlotFor(g, c)
      BY <2>1, <2>2, <3>1, <3>2, <3>3 DEF SlotFor, Whole
    <3> QED
      BY <3>1, <3>4, ZenonT(30) DEF Answers
  <2> QED
    BY <1>1, <1>2, <1>3, <2>2, <2>3, <2>4, FillStep, ZenonT(30)
<1>6. CASE /\ ~ (f.i > Len(f.pkt.oids)) /\ Instance(f.type, f.pkt.oids[f.i]) = {}
           /\ Session.version = "v1"
  <2>1. Goto([f EXCEPT !.pc = "done"]) /\ cache' = [cache EXCEPT ![Top.slot].status = NOSUCHNAME]
    BY <1>2, <1>6 DEF GetVariable
  <2>2. PICK g \in Frame :
           /\ Goto(g) /\ g.pc = "done" /\ Building(g)
           /\ g.pkt = f.pkt /\ g.type = f.type /\ g.s = f.s /\ g.mine = f.mine
           /\ g.floor = f.floor /\ g.slot = f.slot /\ g.taken = f.taken
    BY <2>1, MoveTo, ZenonT(30)
  <2>3. NOSUCHNAME \in Statuses /\ NOSUCHNAME # NOERROR
    BY DEF Statuses, NOSUCHNAME, NOERROR
  <2>4. PICK d \in Slot, c \in Slot :
           /\ d = cache[Top.slot] /\ cache' = [cache EXCEPT ![Top.slot] = c]
           /\ Follows(c, cache[Top.slot]) /\ c.status = NOSUCHNAME /\ c.vbl = d.vbl
           /\ c.asked = d.asked /\ c.addr = d.addr /\ c.id = d.id
    BY <1>1, <2>1, <2>3, StatusSlot, ZenonT(30)
  <2>5. ASSUME SlotFor(f, d) PROVE SlotFor(g, c) /\ Answers(c)
    BY <1>1, <1>2, <2>2, <2>3, <2>4, <2>5 DEF SlotFor, Whole, Answers
  <2> QED
    BY <1>1, <1>2, <1>3, <2>2, <2>4, <2>5, FillStep, ZenonT(30)
<1>7. CASE /\ ~ (f.i > Len(f.pkt.oids)) /\ Instance(f.type, f.pkt.oids[f.i]) = {}
           /\ Session.version # "v1"
  <2>1. Goto([f EXCEPT !.i = @ + 1]) /\ Put(f.pkt.oids[f.i], FALSE)
    BY <1>2, <1>7, ZenonT(30) DEF GetVariable
  <2>2. PICK g \in Frame :
           /\ Goto(g) /\ g.pc = "var" /\ g.i = f.i + 1 /\ Building(g)
           /\ g.pkt = f.pkt /\ g.type = f.type /\ g.s = f.s /\ g.mine = f.mine
           /\ g.floor = f.floor /\ g.slot = f.slot /\ g.taken = f.taken
    <3>1. PICK n \in Nat \ {0} : n = f.i + 1
      BY <1>3
    <3> DEFINE g == [f EXCEPT !.i = n]
    <3>2. Goto(g)
      BY <2>1, <3>1
    <3>3. /\ g \in Frame /\ g.pc = f.pc /\ g.i = n
          /\ g.pkt = f.pkt /\ g.type = f.type /\ g.s = f.s /\ g.mine = f.mine
          /\ g.floor = f.floor /\ g.slot = f.slot /\ g.taken = f.taken
      BY DEF Frame
    <3> HIDE DEF g
    <3>4. Building(g)
      BY <1>1, <1>2, <3>3 DEF Building
    <3> QED
      BY <1>1, <1>2, <3>1, <3>2, <3>3, <3>4
  <2>3. PICK o \in Int \cup Served : o = f.pkt.oids[f.i]
    <3>1. f.i \in 1 .. Len(f.pkt.oids)
      BY <1>3, <1>7 DEF Frame
    <3> QED
      BY <1>3, <3>1
  <2>4. PICK d \in Slot, c \in Slot :
           /\ d = cache[Top.slot] /\ cache' = [cache EXCEPT ![Top.slot] = c]
           /\ Follows(c, cache[Top.slot]) /\ c.status = d.status
           /\ c.asked = d.asked /\ c.addr = d.addr /\ c.id = d.id
           /\ Len(c.vbl) = Len(d.vbl) + 1 /\ DOMAIN c.vbl = 1 .. Len(d.vbl) + 1
           /\ Len(d.vbl) \in Nat /\ DOMAIN d.vbl = 1 .. Len(d.vbl)
           /\ c.vbl[Len(d.vbl) + 1].oid = o
           /\ \A k \in DOMAIN d.vbl : c.vbl[k] = d.vbl[k]
    BY <1>1, <2>1, <2>3, PutSlot, ZenonT(30)
  <2>5. ASSUME SlotFor(f, d) PROVE SlotFor(g, c) /\ Answers(c)
    <3>1. o \in Instance(f.type, f.pkt.oids[f.i]) \cup {f.pkt.oids[f.i]}
      BY <2>3
    <3> QED
      BY <1>1, <1>2, <1>3, <1>7, <2>2, <2>4, <2>5, <3>1, PutFor, ZenonT(60)
  <2> QED
    BY <1>1, <1>2, <1>3, <2>2, <2>4, <2>5, FillStep, ZenonT(30)
<1> QED
  BY <1>5, <1>6, <1>7

\* The request fails: its slot says so.
LEMMA FailStep ==
    ASSUME RespInv, frames # <<>>, Top.pc \in {"get", "set"}, NEW st \in Statuses,
           Top.pc = "set" \/ st # NOERROR,
           cache' = [cache EXCEPT ![Top.slot].status = st], Goto([Top EXCEPT !.pc = "done"]),
           UNCHANGED <<last, rclock, setsBegun, answered, shared>>, reply' = noReply
    PROVE  StepOK
<1>1. PICK f \in Frame : f = Top
  BY TopFacts DEF RespInv
<1>2. Building(Top) /\ Goto([f EXCEPT !.pc = "done"])
  BY <1>1 DEF Building
<1>3. PICK g \in Frame :
         /\ Goto(g) /\ g.pc = "done" /\ Building(g)
         /\ g.pkt = f.pkt /\ g.type = f.type /\ g.s = f.s /\ g.mine = f.mine
         /\ g.floor = f.floor /\ g.slot = f.slot /\ g.taken = f.taken
  BY <1>2, MoveTo, ZenonT(30)
<1>4. PICK d \in Slot, c \in Slot :
         /\ d = cache[Top.slot] /\ cache' = [cache EXCEPT ![Top.slot] = c]
         /\ Follows(c, cache[Top.slot]) /\ c.status = st /\ c.vbl = d.vbl
         /\ c.asked = d.asked /\ c.addr = d.addr /\ c.id = d.id
  BY StatusSlot, ZenonT(30)
<1>5. ASSUME SlotFor(f, d) PROVE SlotFor(g, c) /\ Answers(c)
  BY <1>1, <1>3, <1>4, <1>5 DEF SlotFor, Whole, Answers
<1> QED
  BY <1>1, <1>2, <1>3, <1>4, <1>5, FillStep, ZenonT(30)

\* The binding of a variable has been evaluated.
LEMMA GetRequestStep ==
    ASSUME RespInv, NEW ok \in BOOLEAN, GetRequest(ok)
    PROVE  StepOK
<1>1. /\ frames # <<>> /\ Top.pc = "get" /\ reply' = noReply
      /\ UNCHANGED <<last, rclock, setsBegun, answered, shared>>
  BY DEF GetRequest, At
<1>2. CASE ~ ok
  <2>1. GENERR \in Statuses /\ GENERR # NOERROR
    BY DEF Statuses, GENERR, NOERROR
  <2>2. cache' = [cache EXCEPT ![Top.slot].status = GENERR] /\ Goto([Top EXCEPT !.pc = "done"])
    BY <1>2 DEF GetRequest
  <2> QED
    BY <1>1, <2>1, <2>2, FailStep, ZenonT(30)
<1>3. CASE ok
  <2>1. PICK f \in Frame : f = Top
    BY <1>1, TopFacts DEF RespInv
  <2>2. PICK o \in Instance(f.type, f.pkt.oids[f.i]) : Put(o, TRUE)
    BY <1>3, <2>1, ZenonT(30) DEF GetRequest
  <2>3. o \in Int \cup Served /\ Building(Top) /\ f.i \in Nat /\ Len(f.pkt.oids) \in Nat
    <3>1. o \in Served \cup {f.pkt.oids[f.i]} /\ o \in Served
      BY <2>2, SMTT(60) DEF Instance
    <3> QED
      BY <1>1, <3>1, ResponderAssumption, SMTT(60) DEF Building, Frame
  <2>4. PICK g \in Frame :
           /\ Goto(g) /\ g.pc = "var" /\ g.i = f.i + 1 /\ Building(g)
           /\ g.pkt = f.pkt /\ g.type = f.type /\ g.s = f.s /\ g.mine = f.mine
           /\ g.floor = f.floor /\ g.slot = f.slot /\ g.taken = f.taken
    <3>1. PICK n \in Nat \ {0} : n = f.i + 1
      BY <2>3
    <3> DEFINE g == [f EXCEPT !.pc = "var", !.i = n]
    <3>2. Goto(g) /\ "var" \in Pcs
      BY <1>3, <2>1, <3>1 DEF GetRequest, Pcs
    <3>3. /\ g \in Frame /\ g.pc = "var" /\ g.i = n
          /\ g.pkt = f.pkt /\ g.type = f.type /\ g.s = f.s /\ g.mine = f.mine
          /\ g.floor = f.floor /\ g.slot = f.slot /\ g.taken = f.taken
      BY <3>2, ZenonT(30) DEF Frame
    <3> HIDE DEF g
    <3>4. Building(g)
      BY <3>3 DEF Building
    <3> QED
      BY <3>1, <3>2, <3>3, <3>4
  <2>5. PICK d \in Slot, c \in Slot :
           /\ d = cache[Top.slot] /\ cache' = [cache EXCEPT ![Top.slot] = c]
           /\ Follows(c, cache[Top.slot]) /\ c.status = d.status
           /\ c.asked = d.asked /\ c.addr = d.addr /\ c.id = d.id
           /\ Len(c.vbl) = Len(d.vbl) + 1 /\ DOMAIN c.vbl = 1 .. Len(d.vbl) + 1
           /\ Len(d.vbl) \in Nat /\ DOMAIN d.vbl = 1 .. Len(d.vbl)
           /\ c.vbl[Len(d.vbl) + 1].oid = o
           /\ \A k \in DOMAIN d.vbl : c.vbl[k] = d.vbl[k]
    BY <1>1, <2>2, <2>3, PutSlot, ZenonT(30)
  <2>6. ASSUME SlotFor(f, d) PROVE SlotFor(g, c) /\ Answers(c)
    <3>1. o \in Instance(f.type, f.pkt.oids[f.i]) \cup {f.pkt.oids[f.i]}
      BY <2>2, SMTT(60)
    <3>2. f.pc \in {"var", "get"} /\ ~ (f.i > Len(f.pkt.oids))
      <4>1. f.pc = "get"
        BY <1>1, <2>1
      <4> QED
        BY <2>3, <2>6, <4>1 DEF SlotFor
    <3> QED
      BY <2>3, <2>4, <2>5, <2>6, <3>1, <3>2, PutFor, ZenonT(60)
  <2> QED
    BY <1>1, <2>1, <2>3, <2>4, <2>5, <2>6, FillStep, ZenonT(30)
<1> QED
  BY <1>2, <1>3

\* The bindings of a set request have been evaluated.
LEMMA SetRequestStep ==
    ASSUME RespInv, NEW ok \in BOOLEAN, SetRequest(ok)
    PROVE  StepOK
<1>1. /\ frames # <<>> /\ Top.pc = "set" /\ reply' = noReply
      /\ UNCHANGED <<last, rclock, setsBegun, answered, shared>>
  BY DEF SetRequest, At
<1>2. PICK st \in Statuses : cache' = [cache EXCEPT ![Top.slot].status = st]
  BY ZenonT(30) DEF SetRequest, Statuses
<1>3. Goto([Top EXCEPT !.pc = "done"])
  BY DEF SetRequest
<1> QED
  BY <1>1, <1>2, <1>3, FailStep, ZenonT(30)

\* The reply gets the identifier by which the cache finds it.
LEMMA CompleteStep ==
    ASSUME RespInv, Complete
    PROVE  StepOK
<1>1. /\ frames # <<>> /\ Top.pc = "done" /\ reply' = noReply
      /\ UNCHANGED <<last, rclock, setsBegun, answered, shared>>
  BY DEF Complete, At
<1>2. PICK f \in Frame : f = Top /\ FrameOK(f)
  BY <1>1, TopFacts DEF RespInv
<1>3. Building(Top) /\ Goto([f EXCEPT !.pc = "end"]) /\ f.type \in RequestTypes
  BY <1>1, <1>2 DEF Building, Complete, FrameOK
<1>4. PICK g \in Frame :
         /\ Goto(g) /\ g.pc = "end" /\ Building(g)
         /\ g.pkt = f.pkt /\ g.type = f.type /\ g.s = f.s /\ g.mine = f.mine
         /\ g.floor = f.floor /\ g.slot = f.slot /\ g.taken = f.taken
  BY <1>3, MoveTo, ZenonT(30)
<1>5. PICK j \in Slots : j = f.slot
  BY DEF Frame
<1>6. PICK d \in Slot : d = cache[j]
  BY DEF RespInv, RespBase, RespTypeOK
<1>7. PICK c \in Slot : /\ cache' = [cache EXCEPT ![j] = c]
                        /\ c.id = f.pkt.id /\ c.status = d.status
                        /\ c.vbl = (IF d.status # NOERROR THEN <<>> ELSE d.vbl)
                        /\ c.asked = d.asked /\ c.addr = d.addr
                        /\ c.session = d.session /\ c.timestamp = d.timestamp
  <2>1. PICK v \in Seq(Binding) : v = IF d.status # NOERROR THEN <<>> ELSE d.vbl
    <3>1. <<>> \in Seq(Binding) /\ d.vbl \in Seq(Binding)
      BY SMTT(60) DEF Slot
    <3> QED
      BY <3>1, Zenon
  <2>2. PICK id \in {pkt.id : pkt \in Packets} \cup {0} : id = f.pkt.id
    BY DEF Frame
  <2> DEFINE c == [d EXCEPT !.id = id, !.vbl = v]
  <2>3. cache' = [cache EXCEPT ![j].id = id, ![j].vbl = IF cache[j].status # NOERROR THEN <<>> ELSE @]
    BY <1>2, <1>5, <2>2 DEF Complete
  <2>4. cache' = [cache EXCEPT ![j] = c]
    BY <1>6, <2>1, <2>3, ZenonT(30) DEF RespInv, RespBase, RespTypeOK
  <2>5. /\ c \in Slot /\ c.id = id /\ c.status = d.status /\ c.vbl = v
        /\ c.asked = d.asked /\ c.addr = d.addr
        /\ c.session = d.session /\ c.timestamp = d.timestamp
    BY ZenonT(30) DEF Slot
  <2> HIDE DEF c
  <2> QED
    BY <2>1, <2>2, <2>4, <2>5, ZenonT(30)
<1>8. Follows(c, cache[j])
  BY <1>6, <1>7 DEF Follows
<1>9. ASSUME SlotFor(f, d) PROVE SlotFor(g, c) /\ Answers(c)
  <2>1. Whole(f.type, f.pkt.oids, d) /\ d.asked = f.pkt.oids /\ d.addr = f.pkt.from
    BY <1>1, <1>2, <1>9, SMTT(60) DEF SlotFor
  <2>2. Whole(f.type, f.pkt.oids, c)
    BY <1>7, <2>1, SMTT(60) DEF Whole
  <2>3. SlotFor(g, c)
    BY <1>4, <1>7, <2>1, <2>2 DEF SlotFor
  <2>4. f.type = f.pkt.type /\ f.pkt \in Packets
    BY <1>2, <1>3, SMTT(60) DEF FrameOK, RequestTypes, Frame
  <2>5. Answers(c)
    BY <1>7, <2>1, <2>2, <2>4 DEF Answers
  <2> QED
    BY <2>3, <2>5, SMTT(60)
<1> QED
  BY <1>1, <1>2, <1>3, <1>4, <1>5, <1>6, <1>7, <1>8, <1>9, FillStep, ZenonT(30)

\* The reply is sent.
LEMMA SendReplyStep ==
    ASSUME RespInv, NEW encodes \in BOOLEAN, SendReply(encodes)
    PROVE  StepOK
<1>1. /\ frames # <<>> /\ Top.pc = "end" /\ UNCHANGED <<last, rclock, setsBegun, shared>>
      /\ RespBase /\ FreshInv
  BY DEF SendReply, At, RespInv
<1>2. PICK f \in Frame : f = Top /\ FrameOK(f)
  BY <1>1, TopFacts
<1>3. /\ f.s \in Ids /\ f.s \in Nat /\ f.mine \in Nat /\ f.mine <= setsBegun[f.s]
      /\ f.type \in RequestTypes /\ Building(f)
  BY <1>1, <1>2 DEF FrameOK, Frame, Building
<1>4. /\ cache \in [Slots -> Slot] /\ setsBegun \in Epochs /\ answered \in Epochs
      /\ \A s \in Ids : answered[s] <= setsBegun[s]
  BY <1>1 DEF RespBase, RespTypeOK
<1>5. PICK j \in Slots : j = f.slot
  BY DEF Frame
<1>6. PICK d \in Slot : d = cache[j]
  BY <1>4, SMTT(60)
<1>7. PICK c \in Slot : /\ cache' = [cache EXCEPT ![j] = c] /\ cache'[j] = c
                        /\ c.id = d.id /\ c.asked = d.asked /\ c.addr = d.addr
                        /\ c.session = d.session /\ c.timestamp = d.timestamp
                        /\ \/ c.vbl = <<>> /\ c.status # NOERROR
                           \/ c.vbl = d.vbl /\ c.status = d.status
  <2>1. CASE encodes
    <3>1. cache' = [cache EXCEPT ![j] = d]
      BY <1>4, <1>6, <2>1 DEF SendReply
    <3> QED
      BY <1>4, <3>1, ZenonT(30)
  <2>2. CASE ~ encodes
    <3>1. PICK st \in Statuses : st = GENERR /\ st # NOERROR
      BY DEF Statuses, GENERR, NOERROR
    <3>2. PICK v \in Seq(Binding) : v = <<>>
      <4>1. <<>> \in Seq(Binding)
        OBVIOUS
      <4> QED
        BY <4>1, Zenon
    <3> DEFINE c == [d EXCEPT !.status = st, !.vbl = v]
    <3>3. cache' = [cache EXCEPT ![j].status = st, ![j].vbl = v]
      BY <1>2, <1>5, <2>2, <3>1, <3>2 DEF SendReply
    <3>4. cache' = [cache EXCEPT ![j] = c]
      BY <1>4, <1>6, <3>3, ZenonT(30)
    <3>5. /\ c \in Slot /\ c.id = d.id /\ c.status = st /\ c.vbl = v
          /\ c.asked = d.asked /\ c.addr = d.addr
          /\ c.session = d.session /\ c.timestamp = d.timestamp
      BY ZenonT(30) DEF Slot
    <3> HIDE DEF c
    <3>6. cache'[j] = c
      BY <1>4, <3>4
    <3> QED
      BY <3>1, <3>2, <3>4, <3>5, <3>6, ZenonT(30)
  <2> QED
    BY <2>1, <2>2
<1>8. PICK g \in Frame : /\ Goto(g) /\ g.pc = "walk" /\ g.s = f.s + 1 /\ g.mine = 0
                         /\ g.pkt = f.pkt /\ g.type = f.type
                         /\ g.floor = f.floor /\ g.slot = f.slot /\ g.taken = f.taken
  <2>1. PICK n \in Nat : n = f.s + 1
    BY <1>3
  <2> DEFINE g == [f EXCEPT !.pc = "walk", !.s = n, !.mine = 0]
  <2>2. Goto(g) /\ "walk" \in Pcs
    BY <1>2, <2>1 DEF SendReply, Pcs
  <2>3. /\ g \in Frame /\ g.pc = "walk" /\ g.s = n /\ g.mine = 0
        /\ g.pkt = f.pkt /\ g.type = f.type
        /\ g.floor = f.floor /\ g.slot = f.slot /\ g.taken = f.taken
    BY <2>2, ZenonT(30) DEF Frame
  <2> HIDE DEF g
  <2> QED
    BY <2>1, <2>2, <2>3
<1>9. /\ answered' \in Epochs
      /\ \A s \in Ids : answered[s] <= answered'[s] /\ answered'[s] <= setsBegun[s]
  <2>1. CASE f.mine <= answered[f.s]
    BY <1>2, <1>4, <2>1 DEF SendReply, Epochs
  <2>2. CASE ~ (f.mine <= answered[f.s])
    <3>1. answered' = [answered EXCEPT ![f.s] = f.mine]
      BY <1>2, <2>2 DEF SendReply
    <3>2. answered[f.s] \in Nat
      BY <1>3, <1>4 DEF Epochs
    <3>3. \A s \in Ids : answered[s] \in Nat /\ setsBegun[s] \in Nat
      BY <1>4 DEF Epochs
    <3>4. answered' \in Epochs
      BY <1>3, <1>4, <3>1, SMTT(60) DEF Epochs
    <3> QED
      BY <1>3, <1>4, <2>2, <3>1, <3>2, <3>3, <3>4 DEF Epochs
  <2> QED
    BY <2>1, <2>2
<1>10. FrameOK(g)' /\ ~ Building(g)
  <2>1. g.s # 0 /\ (g.s \in Ids => g.mine <= setsBegun[g.s])
    BY <1>3, <1>4, <1>8, SMTT(60) DEF Epochs
  <2>2. \A s \in Ids : g.floor[s] <= answered'[s]
    <3>1. \A s \in Ids : f.floor[s] <= answered[s] /\ f.floor[s] \in Nat
      BY <1>2 DEF FrameOK, Frame, Epochs
    <3> QED
      BY <1>4, <1>8, <1>9, <3>1 DEF Epochs
  <2> QED
    BY <1>1, <1>2, <1>8, <2>1, <2>2 DEF FrameOK, Building
<1>11. Follows(c, cache[j])
  BY <1>6, <1>7 DEF Follows
<1>12. FillFresh(f, c)
  <2>1. FillFresh(f, d)
    BY <1>1, <1>2, <1>3, <1>5, <1>6, TopFacts DEF FreshInv
  <2> QED
    BY <1>7, <2>1, SMTT(60) DEF FillFresh
<1>13. ASSUME OwnInv, ~ shared
       PROVE  SlotFor(f, d) /\ Answers(c) /\ Whole(f.type, f.pkt.oids, c)
  <2>1. SlotFor(f, d) /\ Answers(d)
    BY <1>1, <1>2, <1>3, <1>5, <1>6, <1>13, TopFacts, SMTT(60) DEF OwnInv
  <2>2. Answers(c)
    BY <1>7, <2>1, <1>1, <1>2 DEF Answers, SlotFor, Whole
  <2>3. Whole(f.type, f.pkt.oids, c)
    BY <1>1, <1>2, <1>7, <2>1, ZenonT(30) DEF SlotFor, Whole
  <2> QED
    BY <2>1, <2>2, <2>3, SMTT(60)
<1>14. /\ RespBase' /\ FreshInv'
       /\ OwnInv /\ (~ shared => Answers(c) /\ (Building(g) => SlotFor(g, c))) => OwnInv'
  BY <1>1, <1>2, <1>3, <1>5, <1>7, <1>8, <1>9, <1>10, <1>11, SlotGoto, ZenonT(30)
<1>15. /\ reply'.to = c.addr /\ reply'.id = c.id /\ reply'.status = c.status
       /\ reply'.vbl = c.vbl /\ reply'.cached = FALSE /\ reply'.frame = f
  <2>1. reply' = [to |-> c.addr, id |-> c.id, status |-> c.status,
                  vbl |-> c.vbl, cached |-> FALSE, frame |-> f]
    BY <1>2, <1>5, <1>7, ZenonT(30) DEF SendReply, Send
  <2> QED
    BY <2>1
<1>16. DOMAIN c.vbl = 1 .. Len(c.vbl)
  BY DEF Slot
<1>17. CachedFresh'
  BY <1>3, <1>12, <1>15, <1>16, ZenonT(30) DEF CachedFresh, FillFresh
<1>18. ASSUME OwnInv PROVE OwnReply'
  <2>1. ASSUME ~ shared
        PROVE  c.addr = f.pkt.from /\ c.id = f.pkt.id /\ Whole(f.type, f.pkt.oids, c)
    BY <1>1, <1>2, <1>7, <1>13, <1>18, <2>1, ZenonT(30) DEF SlotFor
  <2> QED
    BY <1>1, <1>15, <1>16, <2>1 DEF OwnReply, Whole, Named
<1> QED
  BY <1>10, <1>13, <1>14, <1>17, <1>18 DEF StepOK, RespInv

-----------------------------------------------------------------------------
(* The theorems.                                                           *)

\* The inductive invariant holds at the start, when nothing has been sent.
LEMMA RespStart ==
    ASSUME RespInit
    PROVE  RespInv /\ OwnInv /\ CachedFresh /\ OwnReply
<1>1. frames = <<>> /\ DOMAIN frames = {} /\ frames \in Seq(Frame)
  BY DEF RespInit
<1>2. EmptySlot \in Slot /\ EmptySlot.id = 0 /\ EmptySlot.timestamp = 0
  BY EmptyIsSlot
<1>3. cache \in [Slots -> Slot] /\ \A i \in Slots : cache[i].id = 0 /\ cache[i].timestamp = 0
  BY <1>2 DEF RespInit, Slots
<1>4. /\ last \in Slots /\ rclock \in Nat /\ setsBegun \in Epochs /\ answered \in Epochs
      /\ shared \in BOOLEAN /\ \A s \in Ids : answered[s] <= setsBegun[s]
  BY ResponderAssumption DEF RespInit, Slots, Epochs
<1>5. RespBase
  BY <1>1, <1>3, <1>4 DEF RespBase, RespTypeOK
<1>6. FreshInv
  <2>1. 0 <= rclock
    BY <1>4
  <2>2. \A i \in Slots : SlotFresh(cache[i])
    BY <1>3, ZenonT(30) DEF SlotFresh
  <2>3. \A i \in Slots : cache[i].timestamp <= rclock
    BY <1>3, <2>1, ZenonT(30)
  <2>4. \A k \in DOMAIN frames : Building(frames[k]) => FillFresh(frames[k], cache[frames[k].slot])
    BY <1>1, ZenonT(30)
  <2> QED
    BY <2>2, <2>3, <2>4, ZenonT(30) DEF FreshInv
<1>7. OwnInv
  BY <1>1, <1>3, ZenonT(30) DEF OwnInv, Answers
<1>8. CachedFresh /\ OwnReply
  BY ZenonT(30) DEF RespInit, CachedFresh, OwnReply, Sent
<1> QED
  BY <1>5, <1>6, <1>7, <1>8 DEF RespInv

\* Every step keeps the invariant, and what it sends is right.
LEMMA RespStep ==
    ASSUME RespInv, RespNext
    PROVE  StepOK
<1>1. CASE \E pkt \in Packets : AgentProc(pkt)
  BY <1>1, ArriveStep
<1>2. CASE TnmSnmpDecode \/ Notified
  BY <1>2, DecodeStep, NotifiedStep
<1>3. CASE TnmSnmpAgentRequest
  BY <1>3, ClearStep, HitStep, MissStep
<1>4. CASE Begin \/ GetVariable
  BY <1>4, BeginStep, GetVariableStep
<1>5. CASE \E ok \in BOOLEAN : GetRequest(ok) \/ SetRequest(ok) \/ SendReply(ok)
  BY <1>5, GetRequestStep, SetRequestStep, SendReplyStep
<1>6. CASE Complete \/ Tick
  BY <1>6, CompleteStep, TickStep
<1> QED
  BY <1>1, <1>2, <1>3, <1>4, <1>5, <1>6 DEF RespNext

\* A step that changes nothing.
LEMMA RespStutter ==
    ASSUME UNCHANGED respVars
    PROVE  /\ RespInv => RespInv'
           /\ OwnInv => OwnInv'
           /\ CachedFresh => CachedFresh'
           /\ OwnReply => OwnReply'
<1>1. UNCHANGED <<frames, cache, last, rclock, setsBegun, answered, shared, reply>>
  BY DEF respVars
<1>2. RespBase => RespBase'
  BY <1>1, ZenonT(30) DEF RespBase, RespTypeOK, FrameOK
<1>3. FreshInv => FreshInv'
  BY <1>1, ZenonT(30) DEF FreshInv, SlotFresh, FillFresh, Building
<1>4. OwnInv => OwnInv'
  BY <1>1, ZenonT(30) DEF OwnInv, Building, Around, SlotFor, Answers
<1>5. CachedFresh => CachedFresh'
  BY <1>1, ZenonT(30) DEF CachedFresh, Sent
<1>6. OwnReply => OwnReply'
  BY <1>1, ZenonT(30) DEF OwnReply, Sent
<1> QED
  BY <1>2, <1>3, <1>4, <1>5, <1>6 DEF RespInv

\* No reply carries a value that a set request answered before the request
\* arrived may have changed, and none from the cache is older than the time the
\* cache keeps replies: however many sessions, slots and nested requests there
\* are, and also when a slot is taken from a request still executed.
THEOREM RepliesFresh == RespSpec => []CachedFresh
<1>1. RespInit => RespInv /\ CachedFresh
  BY RespStart
<1>2. RespInv /\ CachedFresh /\ [RespNext]_respVars => RespInv' /\ CachedFresh'
  BY RespStep, RespStutter DEF StepOK
<1> QED
  BY <1>1, <1>2, PTL DEF RespSpec

\* As long as no slot is taken from a request still executed, every reply goes
\* to the sender of the request it answers, with its identifier and its
\* variables, from the cache or not.  The cache compares the identifier, the
\* session and the variables of a request and neither its type nor its sender:
\* requests that agree in the former must agree in the latter.
THEOREM RepliesOwn == SameRequest => (RespSpec => []OwnReply)
<1> SUFFICES ASSUME SameRequest PROVE RespSpec => []OwnReply
  OBVIOUS
<1>1. RespInit => RespInv /\ OwnInv /\ OwnReply
  BY RespStart
<1>2. RespInv /\ OwnInv /\ OwnReply /\ [RespNext]_respVars => RespInv' /\ OwnInv' /\ OwnReply'
  BY RespStep, RespStutter DEF StepOK
<1> QED
  BY <1>1, <1>2, PTL DEF RespSpec

=============================================================================
