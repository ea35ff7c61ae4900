---------------------------- MODULE MapMessages ----------------------------
(***************************************************************************)
(* The history a network map keeps (tnm/generic/tnmMap.c, tnmMapEvent.c):  *)
(* messages on a map and its items, the tick that saves and expires them,  *)
(* and the health it computes from them.  Events expire like messages,     *)
(* and are never saved.                                                    *)
(*                                                                         *)
(* Times are relative: a message has an age, which stops growing one       *)
(* second past everything it is compared with, and the timer has the time  *)
(* it still runs.                                                          *)
(***************************************************************************)
EXTENDS Integers, SequencesExt

CONSTANTS Holders,       \* the map and its items
          TheMap,       \* the one of them that is the map
          Expire,       \* -expire of each of them, 0 for never
          Ticks,        \* the values of -tick, 0 for off
          Messages,     \* the health change in percent of a message, and whether
                        \* -store matches its tag
          MaxMsgs       \* messages and events ever created

(* The items: only they have a health. *)
Rated == Holders \ {TheMap}

ASSUME MessagesAssumption == /\ TheMap \in Holders
                             /\ Expire \in [Holders -> Nat]
                             /\ Ticks \subseteq Nat
                             /\ Messages \subseteq [change : -100..100, store : BOOLEAN]

VARIABLES interval,     \* mapPtr->interval in seconds
          timer,        \* seconds until TickProc runs, or Off
          history,      \* per owner its messages and events, the newest first
          health,       \* per item, 0..100000
          made,         \* messages and events created so far
          disk,         \* the messages written to files, in order
          lost          \* the messages a write failed for

msgVars == <<interval, timer, history, health, made, disk, lost>>

Off == -1
Oldest == 1 + Max({Expire[o] : o \in Holders} \cup Ticks)

(***************************************************************************)
(* TnmMapCreateMsg, and TnmMapCreateUserEvent with TnmMapRaiseEvent: the   *)
(* new entry is the first of its owner's list; an event is never stored.   *)
(***************************************************************************)
TnmMapCreateMsg(o, m) ==
  history' = [history EXCEPT ![o] =
     << [id |-> made + 1, kind |-> "msg", age |-> 0, change |-> 1000 * m.change,
         store |-> m.store, saved |-> FALSE] >> \o @]

TnmMapCreateUserEvent(o) ==
  history' = [history EXCEPT ![o] =
     << [id |-> made + 1, kind |-> "event", age |-> 0, change |-> 0,
         store |-> FALSE, saved |-> FALSE] >> \o @]

New == made < MaxMsgs /\ made' = made + 1 /\ UNCHANGED <<interval, timer, health, disk, lost>>

TnmMapMsgCmd == \E o \in Holders, m \in Messages : New /\ TnmMapCreateMsg(o, m)
RaiseCmd == \E o \in Holders : New /\ TnmMapCreateUserEvent(o)

(* MsgDeleteProc and EventDeleteProc: the delete callbacks unlink the entry. *)
Delete(list, S) == SelectSeq(list, LAMBDA m : m.id \notin S)

MsgDeleteProc ==
  /\ \E o \in Holders : \E k \in DOMAIN history[o] :
       history' = [history EXCEPT ![o] = Delete(@, {history[o][k].id})]
  /\ UNCHANGED <<interval, timer, health, made, disk, lost>>

(***************************************************************************)
(* The health of an item after a tick: the best and the worst change of    *)
(* the messages of the last interval, newest first up to the first one     *)
(* that is older, move the score; 0.6 of the score and 0.4 of the old      *)
(* health make the new one, truncated.                                     *)
(***************************************************************************)
Recent(o) == LET msgs == SelectSeq(history[o], LAMBDA m : m.kind = "msg")
                 old == {k \in DOMAIN msgs : msgs[k].age > interval}
             IN {msgs[k].change : k \in {j \in DOMAIN msgs : \A x \in old : j < x}}

Clip(lo, x, hi) == IF x < lo THEN lo ELSE IF x > hi THEN hi ELSE x

(* C division of a sum of either sign by 2. *)
Half(x) == IF x >= 0 THEN x \div 2 ELSE - ((- x) \div 2)

Score(o) ==
  LET max == Max(Recent(o) \cup {0})
      min == Min(Recent(o) \cup {0})
      change == IF min >= 0 THEN max ELSE IF max <= 0 THEN min ELSE Half(max + min)
  IN Clip(0, 100000 + change, 100000)

Health(o) == (6 * Score(o) + 4 * health[o]) \div 10

(***************************************************************************)
(* TnmMapExpireMsgs and TnmMapExpireEvents.  The first pass writes every   *)
(* message whose tag is to be stored and that was not written before;      *)
(* SaveMsg may fail, and the message counts as saved all the same.  The    *)
(* second pass deletes what is older than the owner's -expire.  An owner   *)
(* whose -expire is 0 is passed over, the saving included.                 *)
(***************************************************************************)
(* Mutant: the mark of a saved message is not looked at. *)
MutUnsaved(o) == SelectSeq(history[o], LAMBDA m : m.store)

Unsaved(o) == SelectSeq(history[o], LAMBDA m : m.store /\ ~ m.saved)

Expired(o, m) == m.age > Expire[o]

TnmMapExpireMsgs(o) ==
  IF Expire[o] = 0 THEN history[o]
  ELSE LET saved == [k \in DOMAIN history[o] |-> [history[o][k] EXCEPT !.saved = TRUE]]
       IN SelectSeq(saved, LAMBDA m : ~ Expired(o, m))

SaveMsg(fails) ==
  LET due == {o \in Holders : Expire[o] # 0}
      ids(o) == [k \in DOMAIN Unsaved(o) |-> Unsaved(o)[k].id]
      all == UNION {ToSet(ids(o)) : o \in due}
  IN /\ disk' = disk \o SetToSeq(all \ fails)
     /\ lost' = lost \cup (all \cap fails)

(* TickProc: every item, then the map, then the timer is set again. *)
TickProc ==
  /\ health' = [o \in Rated |-> Health(o)]
  /\ history' = [o \in Holders |-> TnmMapExpireMsgs(o)]
  /\ \E fails \in {{}, 1..MaxMsgs} : SaveMsg(fails)
  /\ timer' = interval
  /\ UNCHANGED <<interval, made>>

TimerTick == timer = 0 /\ TickProc

(* "map update": the timer is deleted and TickProc called.  It is not called
   twice in a second. *)
UpdateCmd == timer # interval /\ TickProc

(* -tick: the timer is deleted, and set again unless the interval is 0. *)
ConfigureTick ==
  \E n \in Ticks : /\ interval' = n
                   /\ timer' = IF n = 0 THEN Off ELSE n
                   /\ UNCHANGED <<history, health, made, disk, lost>>

(* A second passes; a timer that is due runs first, unless the interval is 0
   and it is due all the time. *)
SecondPasses ==
  /\ timer = 0 => interval = 0
  /\ timer' = IF timer > 0 THEN timer - 1 ELSE timer
  /\ history' = [o \in Holders |-> [k \in DOMAIN history[o] |->
                   [history[o][k] EXCEPT !.age = IF @ < Oldest THEN @ + 1 ELSE @]]]
  /\ UNCHANGED <<interval, health, made, disk, lost>>

(* CreateMap sets the first timer; a new item is in perfect health. *)
MsgInit == /\ interval \in Ticks \ {0}
           /\ timer = interval
           /\ history = [o \in Holders |-> <<>>]
           /\ health = [o \in Rated |-> 100000]
           /\ made = 0 /\ disk = <<>> /\ lost = {}

MsgNext == \/ TnmMapMsgCmd \/ RaiseCmd \/ MsgDeleteProc
           \/ TimerTick \/ UpdateCmd \/ ConfigureTick \/ SecondPasses

MsgSpec == /\ MsgInit /\ [][MsgNext]_msgVars
           /\ WF_msgVars(TimerTick) /\ WF_msgVars(SecondPasses)

(***************************************************************************)
(* Properties.                                                             *)
(***************************************************************************)
Ids(o) == {history[o][k].id : k \in DOMAIN history[o]}

(* A message is written to a file at most once, however often the map ticks;
   one that is marked saved was written, or its write failed; and a write that
   failed is not tried again. *)
SavedOnce ==
  /\ IsInjective(disk)
  /\ ToSet(disk) \cap lost = {}
  /\ \A o \in Holders : \A k \in DOMAIN history[o] :
       LET m == history[o][k]
       IN m.id \in ToSet(disk) \cup lost <=> m.saved /\ m.store

(* An entry leaves its list in two ways only: its command is deleted, or a tick
   finds it older than -expire; a tick that removes a message that is to be
   stored has written it first, or tried to. *)
RemovedWhenExpired ==
  \A o \in Holders : \A k \in DOMAIN history[o] :
    LET m == history[o][k]
    IN (TickProc /\ m.id \notin {history'[o][j].id : j \in DOMAIN history'[o]}) =>
          /\ Expire[o] # 0 /\ m.age > Expire[o]
          /\ m.store => m.id \in ToSet(disk') \cup lost'

(* What happens to a message that is to be stored, from its creation to the
   tick that removes it. *)
MessagesWritten == [][SavedOnce' /\ RemovedWhenExpired]_msgVars
=============================================================================
