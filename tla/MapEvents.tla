----------------------------- MODULE MapEvents -----------------------------
(***************************************************************************)
(* Event bindings of network maps (tnm/generic/tnmMapEvent.c): an event    *)
(* that is raised on an item evaluates the bindings of the item, of the    *)
(* items it is inside, and of the map.  A binding is a Tcl script, which   *)
(* can add and destroy bindings and raise events before it returns: the    *)
(* evaluations that have not returned form a stack.                        *)
(***************************************************************************)
EXTENDS Naturals, SequencesExt

CONSTANTS Places,      \* the map and its items
          Up,           \* the parent of an item, the map for the outermost
          Root,         \* the map
          Tags,         \* event tags
          Patterns,     \* pattern -> the tags it matches
          MaxBinds, MaxEvents

ASSUME EventsAssumption == /\ Root \in Places
                           /\ Up \in [Places \ {Root} -> Places]
                           /\ \A p \in DOMAIN Patterns : Patterns[p] \subseteq Tags

VARIABLES binds,        \* per owner its bindings, the newest first
          pattern,      \* per binding ever made its pattern
          events,       \* per event ever raised its tag and where
          frames,       \* suspended EvalBinding calls, the innermost last
          ran,          \* per event the bindings evaluated, in order
          kept,         \* per event the bindings there all the time since
          stopped       \* per event the owners left early

evtVars == <<binds, pattern, events, frames, ran, kept, stopped>>

Matches(b, tag) == tag \in Patterns[pattern[b]]

(* The owners an event passes, from where it is raised to the map. *)
RECURSIVE Path(_)
Path(o) == IF o = Root THEN <<o>> ELSE <<o>> \o Path(Up[o])

(***************************************************************************)
(* The loop of EvalBinding goes on behind a binding of a list; at the end  *)
(* of the list TnmMapRaiseEvent goes on with the parent, or is done.       *)
(***************************************************************************)
Behind(o, b) == LET l == binds[o] k == IndexFirstSubSeq(<<b>>, l) IN SubSeq(l, k + 1, Len(l))

RECURSIVE Find(_, _, _)
Find(tag, o, list) ==
  LET hits == SelectSeq(list, LAMBDA b : Matches(b, tag))
  IN IF hits # <<>> THEN << [owner |-> o, bind |-> hits[1]] >>
     ELSE IF o = Root THEN <<>> ELSE Find(tag, Up[o], binds[Up[o]])

(* The frame in which event e runs what Find found, and the binding it runs. *)
Frame(e, found) == IF found = <<>> THEN <<>>
                   ELSE << [event |-> e, owner |-> found[1].owner, bind |-> found[1].bind] >>
Runs(found) == IF found = <<>> THEN <<>> ELSE <<found[1].bind>>

Top == Last(frames)
Active == {frames[k].bind : k \in DOMAIN frames}

(* TnmMapUserBinding: a new binding is the first of its list. *)
TnmMapUserBinding ==
  /\ Len(pattern) < MaxBinds
  /\ \E o \in Places, p \in DOMAIN Patterns :
       /\ binds' = [binds EXCEPT ![o] = <<Len(pattern) + 1>> \o @]
       /\ pattern' = Append(pattern, p)
  /\ UNCHANGED <<events, frames, ran, kept, stopped>>

(* BindDeleteProc.  EvalBinding does not protect the binding it evaluates: a
   script that destroys its own binding makes it read freed memory, and is
   left out. *)
BindDeleteProc ==
  /\ \E o \in Places : \E b \in ToSet(binds[o]) \ Active :
       /\ binds' = [binds EXCEPT ![o] = RemoveFirst(@, b)]
       /\ kept' = [e \in DOMAIN kept |-> kept[e] \ {b}]
  /\ UNCHANGED <<pattern, events, frames, ran, stopped>>

(* TnmMapCreateUserEvent and TnmMapRaiseEvent, by a command or by a script. *)
TnmMapRaiseEvent ==
  /\ Len(events) < MaxEvents
  /\ \E o \in Places, tag \in Tags :
       LET e == Len(events) + 1
           found == Find(tag, o, binds[o])
       IN /\ events' = Append(events, [tag |-> tag, at |-> o])
          /\ frames' = frames \o Frame(e, found)
          /\ ran' = Append(ran, Runs(found))
          /\ kept' = Append(kept, UNION {ToSet(binds[q]) : q \in Places})
          /\ stopped' = Append(stopped, {})
  /\ UNCHANGED <<binds, pattern>>

(* Mutant: an event runs one binding per owner. *)
MutContinue(f, code) ==
  IF code # "break" /\ f.owner # Root
  THEN Find(events[f.event].tag, Up[f.owner], binds[Up[f.owner]]) ELSE <<>>

(* Where the event goes on when the script of a frame has returned. *)
Continue(f, code) ==
  LET tag == events[f.event].tag
  IN CASE code = "ok" -> Find(tag, f.owner, Behind(f.owner, f.bind))
       [] code \in {"continue", "error"} /\ f.owner # Root -> Find(tag, Up[f.owner], binds[Up[f.owner]])
       [] OTHER -> <<>>

Left(f, code) == CASE code = "ok" -> {}
                   [] code \in {"continue", "error"} -> {f.owner}
                   [] code = "break" -> ToSet(Path(f.owner))

(* The script of the innermost binding returns. *)
Return(code) ==
  LET f == Top found == Continue(f, code)
  IN /\ frames' = Front(frames) \o Frame(f.event, found)
     /\ ran' = [ran EXCEPT ![f.event] = @ \o Runs(found)]
     /\ stopped' = [stopped EXCEPT ![f.event] = @ \cup Left(f, code)]

EvalBinding == /\ frames # <<>>
               /\ \E code \in {"ok", "continue", "error", "break"} : Return(code)
               /\ UNCHANGED <<binds, pattern, events, kept>>

EvtInit == /\ binds = [o \in Places |-> <<>>]
           /\ pattern = <<>> /\ events = <<>> /\ frames = <<>>
           /\ ran = <<>> /\ kept = <<>> /\ stopped = <<>>

EvtNext == TnmMapUserBinding \/ BindDeleteProc \/ TnmMapRaiseEvent \/ EvalBinding

EvtSpec == EvtInit /\ [][EvtNext]_evtVars

(***************************************************************************)
(* Properties.                                                             *)
(***************************************************************************)
Done(e) == \A k \in DOMAIN frames : frames[k].event # e

(* The owner a binding was made for: where it is listed. *)
OwnerOf(b) == CHOOSE o \in Places : b \in ToSet(binds[o])

Offered(e) ==
  Done(e) => \A o \in ToSet(Path(events[e].at)) \ stopped[e] :
    \A b \in ToSet(binds[o]) \cap kept[e] : Matches(b, events[e].tag) => b \in ToSet(ran[e])

InOrder(e) ==
  LET path == Path(events[e].at)
      depth(b) == CHOOSE k \in DOMAIN path : path[k] = OwnerOf(b)
      here == SelectSeq(ran[e], LAMBDA b : \E o \in Places : b \in ToSet(binds[o]))
  IN /\ IsInjective(ran[e])
     /\ \A k \in DOMAIN here : OwnerOf(here[k]) \in ToSet(path) /\ Matches(here[k], events[e].tag)
     /\ \A j \in DOMAIN here, k \in DOMAIN here : j < k =>
          \/ depth(here[j]) < depth(here[k])
          \/ depth(here[j]) = depth(here[k]) /\ here[j] > here[k]

(* An event that has been handled was offered to every binding that matches it
   and that was there from the beginning to the end: of the item, of the items
   around it and of the map, except where a script returned break, or continue
   or an error for the rest of its own item -- whatever the scripts raised,
   bound and destroyed meanwhile.  Each binding was run once, those of an item
   before those around it, and within an owner the newer ones first. *)
AllBindingsRun == \A e \in DOMAIN events : Offered(e) /\ InOrder(e)
=============================================================================
