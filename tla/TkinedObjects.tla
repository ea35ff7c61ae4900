--------------------------- MODULE TkinedObjects ----------------------------
(***************************************************************************)
(* The object table of the Tkined editor: nodes, networks, links and       *)
(* groups, what is visible on the canvas, the selection, and the clipboard *)
(* that cut, copy, paste, save and load share.                             *)
(*                                                                         *)
(* A method of the code that calls other methods is an operator from       *)
(* object tables to object tables; a command of the user interface or of a *)
(* tool is one action.  Coordinates, fonts, icons and colours are left     *)
(* out.  No tool traces the editor here, so a command runs to its end      *)
(* (TkinedTools has the traces).                                           *)
(***************************************************************************)
EXTENDS Integers, Sequences, FiniteSets, SequencesExt

CONSTANTS
    MaxId,        \* bound on the number of objects ever created
    Editors,      \* editors, all open at the start
    Types,        \* the types of the objects created by commands
    MaxArgs,      \* bound on the number of members named in one command
    Labelled,     \* the ids whose label commands change
    Seeds         \* object tables to start from, built by commands

ASSUME TkinedObjectsAssumption ==
    /\ MaxId \in Nat /\ MaxArgs \in Nat
    /\ Types \subseteq {"NODE", "NETWORK", "GROUP", "LINK", "TEXT"}
    /\ \A t \in Seeds : DOMAIN t = 1 .. Cardinality(DOMAIN t)

VARIABLES
    obj,       \* tki_ObjectTable: the objects by id
    nextId,    \* the lastid counters of the create methods
    clip,      \* the clipboard: the commands that rebuild the objects
    force,     \* copy everything, not only the selection
    open       \* the editors that exist

objectVars == <<obj, nextId, clip, force, open>>

NULL == 0
ObjectIds == 1 .. MaxId
Linkable == {"NODE", "NETWORK"}

(* Labels name an attribute of the object or are not set. *)
Labels == {"", "name", "attribute"}

-----------------------------------------------------------------------------
(* Selection and canvas.                                                   *)

m_unselect(t, o) == [t EXCEPT ![o].selected = FALSE]

m_select(t, o) ==
    IF t[o].canvas THEN [t EXCEPT ![o].selected = TRUE] ELSE t

Reselect(t, o, selected) == IF selected THEN m_select(t, o) ELSE t

RECURSIVE m_collapse(_, _)

(* Hide one member of the group g that is being collapsed. *)
HideMember(t, g, m) ==
    LET t1 == [m_unselect(t, m) EXCEPT ![m].parent = g]
        t2 == IF t1[m].type = "GROUP" THEN m_collapse(t1, m) ELSE t1
    IN  [t2 EXCEPT ![m].canvas = FALSE, ![m].drawn = FALSE]

m_collapse(t, g) ==
    IF t[g].collapsed THEN t
    ELSE LET t1 == [m_unselect(t, g) EXCEPT ![g].collapsed = TRUE]
             t2 == FoldLeft(LAMBDA u, m : HideMember(u, g, m), t1, t1[g].member)
         IN  Reselect([t2 EXCEPT ![g].drawn = t2[g].canvas], g, t[g].selected)

(* Setting a canvas draws the object; GROUP__canvas collapses a group. *)
m_canvas(t, o, shown) ==
    LET t1 == [t EXCEPT ![o].canvas = shown]
    IN  IF ~shown THEN t1
        ELSE IF t1[o].type = "GROUP" THEN m_collapse(t1, o)
        ELSE [t1 EXCEPT ![o].drawn = TRUE]

ShowMember(t, g, m) ==
    m_canvas([t EXCEPT ![m].collapsed = FALSE], m, t[g].canvas)

m_expand(t, g) ==
    IF ~t[g].collapsed THEN t
    ELSE LET t1 == [m_unselect(t, g) EXCEPT ![g].collapsed = FALSE]
             t2 == FoldLeft(LAMBDA u, m : ShowMember(u, g, m), t1, t1[g].member)
         IN  Reselect([t2 EXCEPT ![g].drawn = t2[g].canvas], g, t[g].selected)

-----------------------------------------------------------------------------
(* Groups.                                                                 *)

Release(t, g, m) ==
    LET t1 == IF t[m].canvas THEN t ELSE m_canvas(t, m, t[g].canvas)
    IN  [t1 EXCEPT ![m].parent = NULL]

(* The objects named in args become the members, unless they have a parent. *)
Adopt(t, g, m) ==
    IF m \in DOMAIN t /\ t[m].parent = NULL
    THEN [t EXCEPT ![g].member = Append(@, m), ![m].parent = g]
    ELSE t

m_member(t, g, args) ==
    IF args = <<>> THEN t
    ELSE LET t1 == m_unselect(t, g)
             t2 == FoldLeft(LAMBDA u, m : Release(u, g, m), t1, t1[g].member)
             t3 == FoldLeft(LAMBDA u, m : Adopt(u, g, m),
                            [t2 EXCEPT ![g].member = <<>>], args)
             t4 == IF t3[g].collapsed
                   THEN m_collapse([t3 EXCEPT ![g].collapsed = FALSE], g)
                   ELSE t3
         IN  Reselect(t4, g, t[g].selected)

-----------------------------------------------------------------------------
(* Deletion.                                                               *)

RemoveObject(s, o) == SelectSeq(s, LAMBDA p : p # o)

(* Mutant: a deleted link stays in the lists of its ends. *)
MutLdelete(t, o, l) == t

ldelete(t, o, l) ==
    IF o = NULL THEN t ELSE [t EXCEPT ![o].links = RemoveObject(@, l)]

m_link_delete(t, l) == ldelete(ldelete(t, t[l].src, l), t[l].dst, l)

(* Tcl_DeleteCommand() runs Tki_DeleteObject(), which drops the entry. *)
Tki_DeleteObject(t, o) == [i \in DOMAIN t \ {o} |-> t[i]]

RECURSIVE m_delete(_, _)

m_linked_delete(t, o) ==
    FoldLeft(LAMBDA u, l : IF l \in DOMAIN u THEN m_delete(u, l) ELSE u,
             t, t[o].links)

RECURSIVE m_group_delete(_, _)
m_group_delete(t, g) ==
    IF t[g].member = <<>> THEN t
    ELSE m_group_delete(m_delete(t, Head(t[g].member)), g)

m_delete(t, o) ==
    LET t1 == CASE t[o].type \in Linkable -> m_linked_delete(t, o)
                [] t[o].type = "GROUP" -> m_group_delete(t, o)
                [] t[o].type = "LINK" -> m_link_delete(t, o)
                [] OTHER -> t
        t2 == IF t1[o].parent = NULL THEN t1
              ELSE [t1 EXCEPT ![t1[o].parent].member = RemoveObject(@, o)]
    IN  Tki_DeleteObject(t2, o)

m_ungroup(t, g) ==
    LET t1 == m_expand(t, g)
        t2 == FoldLeft(LAMBDA u, m : [u EXCEPT ![m].parent = NULL],
                       t1, t1[g].member)
    IN  m_delete([t2 EXCEPT ![g].member = <<>>], g)

(* Delete the objects of a list of ids; ids that are gone are skipped. *)
do_delete(t, ids) ==
    FoldLeft(LAMBDA u, o : IF o \in DOMAIN u THEN m_delete(u, o) ELSE u, t, ids)

-----------------------------------------------------------------------------
(* Creation.                                                               *)

(* A new object: no editor, no canvas, named after its id. *)
Tki_CreateObject(t, o, type) ==
    [i \in DOMAIN t \cup {o} |->
        IF i = o
        THEN [type |-> type, editor |-> NULL, canvas |-> FALSE,
              drawn |-> FALSE, parent |-> NULL, member |-> <<>>,
              links |-> <<>>, src |-> NULL, dst |-> NULL,
              collapsed |-> FALSE, selected |-> FALSE,
              name |-> o, attribute |-> FALSE, label |-> ""]
        ELSE t[i]]

Lookup(t, o) == IF o \in DOMAIN t THEN o ELSE NULL

lappend(t, o, l) ==
    IF o = NULL THEN t ELSE [t EXCEPT ![o].links = Append(@, l)]

m_link_create(t, l, args) ==
    LET src == Lookup(t, args[1])
        dst == Lookup(t, args[2])
    IN  lappend(lappend([t EXCEPT ![l].src = src, ![l].dst = dst],
                        src, l), dst, l)

m_group_create(t, g, args) == m_member(t, g, args)

m_create(t, o, type, args) ==
    LET t1 == Tki_CreateObject(t, o, type)
    IN  CASE type = "LINK" -> m_link_create(t1, o, args)
          [] type = "GROUP" -> m_group_create(t1, o, args)
          [] OTHER -> t1

(* "ined create": the object also gets an editor and that editor's canvas. *)
InedCreate(t, o, type, args, e) ==
    m_canvas([m_create(t, o, type, args) EXCEPT ![o].editor = e], o, TRUE)

-----------------------------------------------------------------------------
(* Attributes.  A label names something the object has.                    *)

m_name(t, o, v) == [t EXCEPT ![o].name = v]

m_attribute(t, o) == [t EXCEPT ![o].attribute = TRUE]

m_label(t, o, l) ==
    IF l = "name" \/ (l = "attribute" /\ t[o].attribute)
    THEN [t EXCEPT ![o].label = l] ELSE t

-----------------------------------------------------------------------------
(* The dump of an object: the commands that rebuild it.                    *)

dump_name(t, o) == <<[op |-> "name", var |-> o, val |-> t[o].name]>>

dump_attributes(t, o) ==
    IF t[o].attribute THEN <<[op |-> "attribute", var |-> o]>> ELSE <<>>

dump_label(t, o) == <<[op |-> "label", var |-> o, val |-> t[o].label]>>

DumpCreate(t, o, args) ==
    <<[op |-> "create", var |-> o, type |-> t[o].type, args |-> args]>>

m_node_dump(t, o) ==
    DumpCreate(t, o, <<>>) \o dump_name(t, o)
        \o dump_attributes(t, o) \o dump_label(t, o)

m_network_dump(t, o) ==
    DumpCreate(t, o, <<>>) \o dump_name(t, o)
        \o dump_attributes(t, o) \o dump_label(t, o)

(* Mutant: an expanded group comes back collapsed. *)
MutGroupDump(t, g) ==
    DumpCreate(t, g, t[g].member) \o dump_name(t, g)
        \o dump_attributes(t, g) \o dump_label(t, g)

m_group_dump(t, g) ==
    DumpCreate(t, g, t[g].member) \o dump_name(t, g)
        \o dump_attributes(t, g) \o dump_label(t, g)
        \o (IF t[g].collapsed THEN <<>> ELSE <<[op |-> "expand", var |-> g]>>)

m_link_dump(t, l) ==
    DumpCreate(t, l, <<t[l].src, t[l].dst>>) \o dump_attributes(t, l)

m_text_dump(t, o) == DumpCreate(t, o, <<>>)

Tki_DumpObject(t, o) ==
    CASE t[o].type = "NODE" -> m_node_dump(t, o)
      [] t[o].type = "NETWORK" -> m_network_dump(t, o)
      [] t[o].type = "GROUP" -> m_group_dump(t, o)
      [] t[o].type = "LINK" -> m_link_dump(t, o)
      [] t[o].type = "TEXT" -> m_text_dump(t, o)

(* Dump an object after the objects it refers to, each of them once.  The  *)
(* accumulator holds the text so far and the objects marked done.          *)
RECURSIVE do_dump(_, _, _)
do_dump(t, acc, o) ==
    IF o \in acc.done THEN acc
    ELSE LET refs == CASE t[o].type = "LINK" -> <<t[o].src, t[o].dst>>
                       [] t[o].type = "GROUP" -> t[o].member
                       [] OTHER -> <<>>
             skip == t[o].type = "LINK" /\ NULL \in {t[o].src, t[o].dst}
             acc1 == IF skip THEN acc
                     ELSE FoldLeft(LAMBDA a, r : do_dump(t, a, r), acc, refs)
         IN  [text |-> IF skip THEN acc1.text
                       ELSE acc1.text \o Tki_DumpObject(t, o),
              done |-> acc1.done \cup {o}]

ObjectsOf(t, e) == {o \in DOMAIN t : t[o].editor = e}
Selection(t, e) == {o \in ObjectsOf(t, e) : t[o].selected}

(* The orders in which a walk over the hash table may visit the objects of *)
(* S.  Of larger sets only two: each object before or after those created  *)
(* later, and objects only refer to older ones or to their members.        *)
Orders(S) ==
    IF Cardinality(S) <= 3 THEN SetToSeqs(S)
    ELSE {SetToSortSeq(S, LAMBDA a, b : a < b), SetToSortSeq(S, LAMBDA a, b : a > b)}

(* Copy() visits the objects in the order of the hash table. *)
Copy(t, order) ==
    FoldLeft(LAMBDA a, o : do_dump(t, a, o), [text |-> <<>>, done |-> {}], order)

-----------------------------------------------------------------------------
(* Evaluation of a dump.  p.t is the table, p.v the Tcl variables that     *)
(* hold the ids of new objects, p.n the next free id.                      *)

Value(p, x) == IF x \in DOMAIN p.v THEN p.v[x] ELSE NULL

do_set(p, c, e) ==
    [t |-> InedCreate(p.t, p.n, c.type,
                      [i \in DOMAIN c.args |-> Value(p, c.args[i])], e),
     v |-> [x \in DOMAIN p.v \cup {c.var} |-> IF x = c.var THEN p.n ELSE p.v[x]],
     n |-> p.n + 1]

do_ined(p, c) ==
    LET o == Value(p, c.var)
    IN  [p EXCEPT !.t = CASE c.op = "name" -> m_name(p.t, o, c.val)
                          [] c.op = "attribute" -> m_attribute(p.t, o)
                          [] c.op = "label" -> m_label(p.t, o, c.val)
                          [] c.op = "expand" -> m_expand(p.t, o)]

(* A line about an object that is not there does nothing. *)
RECURSIVE PasteLines(_, _, _)
PasteLines(p, text, e) ==
    IF text = <<>> THEN p
    ELSE LET c == Head(text)
         IN  IF Value(p, c.var) \notin DOMAIN p.t /\ c.op # "create"
             THEN PasteLines(p, Tail(text), e)
             ELSE PasteLines(IF c.op = "create" THEN do_set(p, c, e) ELSE do_ined(p, c),
                             Tail(text), e)

PasteText(t, n, text, e) == PasteLines([t |-> t, v |-> <<>>, n |-> n], text, e)

(* Bound: only texts that can still be pasted are kept. *)
Pasteable(text) ==
    nextId + Cardinality({i \in DOMAIN text : text[i].op = "create"}) <= MaxId + 1

-----------------------------------------------------------------------------
(* Commands.  Tools and the user interface name objects on the canvas when *)
(* they change groups; anything may be deleted.                            *)

Visible(o) == o \in DOMAIN obj /\ obj[o].canvas
VisibleGroup(g) == Visible(g) /\ obj[g].type = "GROUP"

Update(t) == obj' = t /\ UNCHANGED <<nextId, clip, force, open>>

(* The members named in a command are visible, and none is the group       *)
(* itself or a group around it: the code does not look for cycles.         *)
RECURSIVE Ancestors(_)
Ancestors(o) ==
    IF obj[o].parent = NULL THEN {} ELSE {obj[o].parent} \cup Ancestors(obj[o].parent)

MemberArgs(e, besides) ==
    LET S == {o \in ObjectsOf(obj, e) \ besides : obj[o].canvas}
    IN  UNION {[1 .. n -> S] : n \in 1 .. MaxArgs}

CreateArgs(e, type) ==
    CASE type = "LINK" ->
            {o \in ObjectsOf(obj, e) : obj[o].type \in Linkable} \X
            {o \in ObjectsOf(obj, e) : obj[o].type \in Linkable}
      [] type = "GROUP" -> MemberArgs(e, {})
      [] OTHER -> {<<>>}

CreateCmd(e, type, args) ==
    /\ e \in open /\ nextId \in ObjectIds
    /\ args \in CreateArgs(e, type)
    /\ obj' = InedCreate(obj, nextId, type, args, e)
    /\ nextId' = nextId + 1
    /\ UNCHANGED <<clip, force, open>>

MemberCmd(g, args) ==
    /\ VisibleGroup(g)
    /\ args \in MemberArgs(obj[g].editor, {g} \cup Ancestors(g))
    /\ Update(m_member(obj, g, args))

CollapseCmd(g) == VisibleGroup(g) /\ Update(m_collapse(obj, g))
ExpandCmd(g) == VisibleGroup(g) /\ Update(m_expand(obj, g))
UngroupCmd(g) == VisibleGroup(g) /\ Update(m_ungroup(obj, g))
DeleteCmd(o) == o \in DOMAIN obj /\ Update(m_delete(obj, o))
SelectCmd(o) == o \in DOMAIN obj /\ Update(m_select(obj, o))
UnselectCmd(o) == o \in DOMAIN obj /\ Update(m_unselect(obj, o))

LabelCmd(o) ==
    /\ o \in DOMAIN obj \cap Labelled /\ obj[o].type \in {"NODE", "NETWORK", "GROUP"}
    /\ \E l \in Labels : Update(m_label(m_attribute(obj, o), o, l))

CopyCmd(e) ==
    LET S == IF force THEN ObjectsOf(obj, e) ELSE Selection(obj, e) IN
    /\ e \in open
    /\ \E order \in Orders(S) : clip' = Copy(obj, order).text
    /\ Pasteable(clip')
    /\ UNCHANGED <<obj, nextId, force, open>>

CutCmd(e) ==
    LET S == IF force THEN ObjectsOf(obj, e) ELSE Selection(obj, e) IN
    /\ e \in open
    /\ \E order \in Orders(S) :
        /\ clip' = Copy(obj, order).text
        /\ Pasteable(clip')
        /\ obj' = do_delete(obj, SelectSeq(order, LAMBDA o : obj[o].selected))
    /\ UNCHANGED <<nextId, force, open>>

PasteCmd(e) ==
    /\ e \in open
    /\ Pasteable(clip)
    /\ LET p == PasteText(obj, nextId, clip, e)
       IN  obj' = p.t /\ nextId' = p.n
    /\ UNCHANGED <<clip, force, open>>

(* SaveMap() copies everything; the clipboard is restored unless the file  *)
(* cannot be written, when force also stays set.                           *)
SaveFails(e) ==
    /\ e \in open
    /\ \E order \in Orders(ObjectsOf(obj, e)) : clip' = Copy(obj, order).text
    /\ Pasteable(clip')
    /\ force' = TRUE
    /\ UNCHANGED <<obj, nextId, open>>

(* Save the map, clear the editor and load the file again. *)
ClearEditor(t, e) == do_delete(t, SetToSeq(ObjectsOf(t, e)))

SaveClearLoad(e) ==
    /\ e \in open
    /\ \E order \in Orders(ObjectsOf(obj, e)) :
        LET text == Copy(obj, order).text
            p == PasteText(ClearEditor(obj, e), nextId, text, e)
        IN  /\ Pasteable(text)
            /\ obj' = p.t /\ nextId' = p.n
    /\ force' = FALSE
    /\ UNCHANGED <<clip, open>>

(* DeleteEditor() restarts its walk over the hash table after a deletion,  *)
(* and takes the next entry before it looks at the first one.              *)
RECURSIVE Sweep(_, _, _, _)
Sweep(t, order, i, e) ==
    IF i > Len(order) THEN t
    ELSE IF t[order[i]].editor = e
         THEN LET u == m_delete(t, order[i])
              IN  Sweep(u, SelectSeq(order, LAMBDA o : o \in DOMAIN u), 2, e)
         ELSE Sweep(t, order, i + 1, e)

DeleteEditor(e) ==
    /\ e \in open
    /\ \E order \in Orders(DOMAIN obj) : obj' = Sweep(obj, order, 1, e)
    /\ open' = open \ {e}
    /\ UNCHANGED <<nextId, clip, force>>

ObjectsInit ==
    /\ obj \in Seeds /\ nextId = Cardinality(DOMAIN obj) + 1
    /\ clip = <<>>
    /\ force = FALSE
    /\ open = Editors

ObjectsNext ==
    \/ \E e \in Editors :
        \/ \E type \in Types : \E args \in CreateArgs(e, type) : CreateCmd(e, type, args)
        \/ CopyCmd(e) \/ CutCmd(e) \/ PasteCmd(e)
        \/ SaveFails(e) \/ SaveClearLoad(e)
        \/ DeleteEditor(e)
    \/ \E o \in DOMAIN obj :
        \/ CollapseCmd(o) \/ ExpandCmd(o) \/ UngroupCmd(o)
        \/ DeleteCmd(o) \/ SelectCmd(o) \/ UnselectCmd(o) \/ LabelCmd(o)
        \/ VisibleGroup(o) /\
           \E args \in MemberArgs(obj[o].editor, {o} \cup Ancestors(o)) : MemberCmd(o, args)

ObjectsSpec == ObjectsInit /\ [][ObjectsNext]_objectVars

-----------------------------------------------------------------------------
(* Properties.                                                             *)

(* GraphConsistent: the two ends of every relation agree, in whatever      *)
(* order objects are grouped, linked, cut and deleted.  A group lists a    *)
(* member once exactly if that member names it as parent, a link is in the *)
(* lists of exactly its two ends, and nothing refers to a deleted object:  *)
(* the pointers parent, member[], src and dst never dangle.                *)
GraphConsistent ==
    \A o \in DOMAIN obj :
        /\ obj[o].parent # NULL =>
            /\ obj[o].parent \in DOMAIN obj
            /\ Cardinality({i \in DOMAIN obj[obj[o].parent].member :
                              obj[obj[o].parent].member[i] = o}) = 1
        /\ \A m \in ToSet(obj[o].member) : m \in DOMAIN obj /\ obj[m].parent = o
        /\ \A l \in ToSet(obj[o].links) : l \in DOMAIN obj /\ o \in {obj[l].src, obj[l].dst}
        /\ obj[o].type = "LINK" =>
            \A end \in {obj[o].src, obj[o].dst} :
                end \in DOMAIN obj /\ o \in ToSet(obj[end].links)

(* VisibleExactly: an object has a canvas exactly if no group around it is *)
(* collapsed, and the selection, which cut deletes, only holds objects the *)
(* user can see.  Collapse, expand, regrouping, paste and load each walk   *)
(* only part of the tree.                                                  *)
VisibleExactly ==
    \A o \in DOMAIN obj :
        /\ obj[o].canvas <=> \A g \in Ancestors(o) : ~obj[g].collapsed
        /\ obj[o].selected => obj[o].canvas

(* DeletesExactly: deleting an object takes away what is inside it and the *)
(* links to what is taken away, and nothing else.                          *)
DeletesExactly ==
    \A o \in DOMAIN obj :
        LET gone == {p \in DOMAIN obj : p = o \/ o \in Ancestors(p)}
            ends(l) == {obj[l].src, obj[l].dst}
            links == {l \in DOMAIN obj : obj[l].type = "LINK" /\ ends(l) \cap gone # {}}
        IN  DOMAIN m_delete(obj, o) = DOMAIN obj \ (gone \cup links)

(* ObjectsConsistent: the object table is right in these three ways.       *)
ObjectsConsistent == GraphConsistent /\ VisibleExactly /\ DeletesExactly

(* p is what evaluating the text of a copy has made.                       *)
Restored(p) ==
    LET new(o) == p.t[p.v[o]]
        image(s) == [i \in DOMAIN s |-> p.v[s[i]]]
    IN  \A o \in DOMAIN p.v :
        /\ new(o).type = obj[o].type
        /\ obj[o].type \in {"NODE", "NETWORK", "GROUP"} =>
            new(o).name = obj[o].name /\ new(o).label = obj[o].label
        /\ obj[o].type = "LINK" =>
            new(o).src = p.v[obj[o].src] /\ new(o).dst = p.v[obj[o].dst]
        /\ new(o).member = image(obj[o].member)
        /\ new(o).parent = IF obj[o].parent \in DOMAIN p.v THEN p.v[obj[o].parent] ELSE NULL
        /\ obj[o].type = "GROUP" =>
            new(o).collapsed = (obj[o].collapsed \/ obj[o].parent \in DOMAIN p.v)

(* c is a copy of the objects S.                                           *)
Restores(c, S) ==
    S \subseteq c.done /\ Restored(PasteText(<<>>, 1, c.text, CHOOSE e \in Editors : TRUE))

(* CopyRestores: whatever the order of the hash table, the text of a copy  *)
(* names every object before it uses it, and evaluating it rebuilds the    *)
(* same graph: types, names and labels, ends of links, members in their    *)
(* order, and the outermost groups expanded or collapsed as they were.     *)
(* Groups inside a copied group come back collapsed.                       *)
CopyRestores ==
    \A e \in open : \A S \in {Selection(obj, e), ObjectsOf(obj, e)} :
        \A order \in Orders(S) : Restores(Copy(obj, order), S)
=============================================================================
