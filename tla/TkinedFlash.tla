----------------------------- MODULE TkinedFlash ----------------------------
(***************************************************************************)
(* Flashing objects (tkiFlash.c and the flash method).  Every half second  *)
(* FlashProc() flips the colour of the objects on flashList and counts     *)
(* them down; the timer runs as long as something flashes.  Objects inside *)
(* a collapsed group make the groups around them flash.  FlashProc() runs  *)
(* the event loop ("update") before it restarts its timer, so commands     *)
(* also arrive there.                                                      *)
(***************************************************************************)
EXTENDS Integers, Sequences, FiniteSets, SequencesExt

CONSTANTS
    Objects,     \* flashing objects are numbered; a group before its members
    Parent,      \* Parent[o]: the group around o, 0 for none
    Secs,        \* the arguments of flash commands
    MaxFlashes   \* bound on the number of flash commands

ASSUME FlashAssumption ==
    /\ Objects \subseteq Nat \ {0} /\ Secs \subseteq Int
    /\ \A o \in Objects : Parent[o] \in Objects \cup {0} /\ Parent[o] < o

VARIABLES
    there,       \* objects that exist
    hidden,      \* objects without a canvas
    flash,       \* flash[o]: remaining half seconds
    shown,       \* shown[o]: drawn in its own colour
    flashList,   \* the list; 0 stands for an entry whose id was freed
    timers,      \* pending timers for FlashProc()
    given,       \* flash commands so far
    rearm        \* FlashProc() is in "update": "none", or whether max > 0

fvars == <<there, hidden, flash, shown, flashList, timers, given, rearm>>

(* The object and, while they are hidden, the groups around it. *)
Around[o \in Objects] ==
    IF o \in hidden /\ Parent[o] # 0 THEN <<o>> \o Around[Parent[o]] ELSE <<o>>


(* TkiFlash(): the objects of new that are not listed are appended; the    *)
(* first entry of the list starts the timer.                               *)
TkiFlash(new) ==
    LET unlisted == SelectSeq(new, LAMBDA o : o \notin ToSet(flashList))
    IN  /\ flashList' = flashList \o unlisted
        /\ timers' = IF flashList = <<>> /\ unlisted # <<>> THEN timers + 1 ELSE timers

(* m_flash(): an object that flashes already only flashes longer. *)
m_flash(o, secs) ==
    LET n == 2 * secs
        all == Around[o]
    IN  /\ o \in there /\ given < MaxFlashes
        /\ given' = given + 1
        /\ flash' = [p \in Objects |-> IF p \in ToSet(all) /\ (flash[p] <= 0 \/ n > flash[p])
                                       THEN n ELSE flash[p]]
        /\ TkiFlash(SelectSeq(all, LAMBDA p : flash[p] <= 0))
        /\ UNCHANGED <<there, hidden, shown, rearm>>

(* FlashProc(): draw every listed object, count it down, and restore its   *)
(* colour at zero.  The list is dropped when nothing flashes any more.     *)
FlashProc ==
    LET ticking == ToSet(flashList) \cap there
        left == [o \in Objects |-> IF o \in ticking THEN flash[o] - 1 ELSE flash[o]]
        more == \E o \in ticking : left[o] > 0
    IN  /\ timers > 0 /\ rearm = "none"
        /\ timers' = timers - 1
        /\ flash' = left
        /\ shown' = [o \in Objects |-> IF o \in ticking THEN left[o] = 0 \/ flash[o] % 2 = 1
                                       ELSE shown[o]]
        /\ flashList' = IF ~more THEN <<>>
                        ELSE [i \in DOMAIN flashList |->
                                IF flashList[i] \in ticking /\ left[flashList[i]] = 0
                                THEN 0 ELSE flashList[i]]
        /\ rearm' = IF more THEN "yes" ELSE "no"
        /\ UNCHANGED <<there, hidden, given>>

FlashProcReturns ==
    /\ rearm # "none"
    /\ rearm' = "none"
    /\ timers' = IF rearm = "yes" THEN timers + 1 ELSE timers
    /\ UNCHANGED <<there, hidden, flash, shown, flashList, given>>

(* Objects are deleted, and hidden or shown with their groups. *)
FlashDelete(o) ==
    /\ o \in there /\ ~\E p \in there : Parent[p] = o
    /\ there' = there \ {o}
    /\ UNCHANGED <<hidden, flash, shown, flashList, timers, given, rearm>>

FlashHide(o) ==
    /\ o \in there /\ Parent[o] # 0
    /\ hidden' = IF o \in hidden THEN hidden \ {o} ELSE hidden \cup {o}
    /\ UNCHANGED <<there, flash, shown, flashList, timers, given, rearm>>

FlashInit ==
    /\ there = Objects /\ hidden = {}
    /\ flash = [o \in Objects |-> 0] /\ shown = [o \in Objects |-> TRUE]
    /\ flashList = <<>> /\ timers = 0 /\ given = 0 /\ rearm = "none"

FlashNext ==
    \/ FlashProc \/ FlashProcReturns
    \/ \E o \in Objects :
        FlashDelete(o) \/ FlashHide(o) \/ \E secs \in Secs : m_flash(o, secs)

FlashSpec ==
    FlashInit /\ [][FlashNext]_fvars /\ WF_fvars(FlashProc) /\ WF_fvars(FlashProcReturns)


(* FlashEnds: once no more flash commands come, every object stops         *)
(* flashing: the timer is not lost in the "update" of FlashProc().         *)
FlashEnds ==
    \A o \in Objects : flash[o] > 0 ~> (flash[o] <= 0 \/ o \notin there)
=============================================================================
