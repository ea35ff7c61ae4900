---------------------------- MODULE NetworkMap ----------------------------
(***************************************************************************)
(* Network maps (tnm/generic/tnmMap.c, tnmMapUtil.c and the item types):   *)
(* the items of a map, what contains what, what links what, the options    *)
(* that change it, the cascade of deletions, and the script a map is       *)
(* dumped to, saved as and loaded from.                                    *)
(*                                                                         *)
(* A map is the record `map`.  Its operations are operators from maps to   *)
(* maps, because a load runs many of them in a row; `ok' is TCL_OK or      *)
(* TCL_ERROR, `now' the clock, and `wild' records the use of a freed item. *)
(***************************************************************************)
EXTENDS Naturals, FiniteSets, SequencesExt

CONSTANTS Kinds,        \* the types items are created of
          MaxItems,     \* items ever created on the map
          MaxEdits      \* configure, move and attribute commands

VARIABLES map, edits

mapVars == <<map, edits>>

(***************************************************************************)
(* The item types.  `options' is the option table in its order, without    *)
(* the options that are only stored (-color, -icon, -path, ...).           *)
(***************************************************************************)
tnmNodeType == [parentType |-> "group", options |-> <<"ctime", "parent", "mtime", "name">>]
tnmPortType == [parentType |-> "node", options |-> <<"ctime", "mtime", "name", "parent">>]
tnmNetworkType == [parentType |-> "group", options |-> <<"ctime", "parent", "mtime", "name">>]
tnmGroupType == [parentType |-> "group", options |-> <<"ctime", "parent", "mtime", "name">>]
tnmLinkType == [parentType |-> "group",
                options |-> <<"ctime", "dst", "parent", "mtime", "name", "src">>]

Type == [node |-> tnmNodeType, port |-> tnmPortType, network |-> tnmNetworkType,
         link |-> tnmLinkType, group |-> tnmGroupType]

NoItem == <<"none", 0>>      \* a NULL pointer, or an empty option value
Freed == <<"freed", 0>>      \* a pointer to memory that was given back
Names == {"", "a"}
Attributes == {":Kept", "temp"}   \* a persistent and a temporary attribute

EmptyMap == [items |-> <<>>, list |-> <<>>, num |-> 0, next |-> [t \in DOMAIN Type |-> 0],
             now |-> 1, loading |-> FALSE, ok |-> TRUE, wild |-> FALSE]

Fresh(type) == [type |-> type, parent |-> NoItem, members |-> <<>>, linked |-> <<>>,
                src |-> NoItem, dst |-> NoItem, name |-> "", pos |-> 0, attrs |-> {},
                ctime |-> 0, mtime |-> 0]

Fail(s) == [s EXCEPT !.ok = FALSE]

(***************************************************************************)
(* Vectors: TnmVectorAdd appends, TnmVectorDelete removes the first copy.  *)
(***************************************************************************)
TnmVectorAdd(v, i) == Append(v, i)
TnmVectorDelete(v, i) == RemoveFirst(v, i)

(* The handle of the next item of a type; handles are never used twice. *)
TnmGetHandle(s, type) == <<type, s.next[type]>>

TnmMapFindItem(s, h) == h \in ToSet(s.list)


Touch(s, i) == IF s.loading THEN s ELSE [s EXCEPT !.items[i].mtime = s.now]


SetEnd(s, i, end, h) ==
  IF ~ TnmMapFindItem(s, h) \/ s.items[h].type \notin {"network", "port"} THEN Fail(s)
  ELSE LET old == s.items[i][end]
           off == IF old = NoItem THEN s
                  ELSE [s EXCEPT !.items[old].linked = TnmVectorDelete(@, i)]
           on == [off EXCEPT !.items[h].linked = TnmVectorAdd(@, i)]
       IN Touch([on EXCEPT !.items[i] = [@ EXCEPT ![end] = h]], i)

(* The parent of the parent and so on, while there is one. *)
RECURSIVE Above(_, _)
Above(s, i) == IF i = NoItem THEN {} ELSE {i} \cup Above(s, s.items[i].parent)

Leave(s, i) == LET p == s.items[i].parent
               IN IF p = NoItem THEN s
                  ELSE [s EXCEPT !.items[p].members = TnmVectorDelete(@, i)]

SetParent(s, i, h) ==
  IF h = NoItem THEN [Leave(s, i) EXCEPT !.items[i].parent = NoItem]
  ELSE IF \/ ~ TnmMapFindItem(s, h)
          \/ s.items[h].type # Type[s.items[i].type].parentType
          \/ i \in Above(s, h)
       THEN Fail(s)
       ELSE LET in == [Leave(s, i) EXCEPT !.items[h].members = TnmVectorAdd(@, i)]
            IN Touch([in EXCEPT !.items[i].parent = h], i)

(* -ctime and -mtime can only be set while a map file is loaded. *)
SetTime(s, i, opt, t) ==
  IF s.loading THEN [s EXCEPT !.items[i] = [@ EXCEPT ![opt] = t]] ELSE Fail(s)

SetOption(s, i, opt, val) ==
  CASE opt \in {"src", "dst"} -> SetEnd(s, i, opt, val)
    [] opt = "parent" -> SetParent(s, i, val)
    [] opt \in {"ctime", "mtime"} -> SetTime(s, i, opt, val)
    [] opt = "name" -> Touch([s EXCEPT !.items[i].name = val], i)

(***************************************************************************)
(* TnmSetConfig: all options must be known before any is set; the first    *)
(* one that fails ends it, and the ones before it stay set.                *)
(***************************************************************************)
RECURSIVE SetOptions(_, _, _)
SetOptions(s, i, args) ==
  IF args = <<>> \/ ~ s.ok THEN s
  ELSE SetOptions(SetOption(s, i, Head(args)[1], Head(args)[2]), i, Tail(args))

TnmSetConfig(s, i, args) ==
  IF \A k \in 1..Len(args) : args[k][1] \in ToSet(Type[s.items[i].type].options)
  THEN SetOptions(s, i, args) ELSE Fail(s)

(* Without arguments it lists the options of the table with their values. *)
GetOption(s, i, opt) == s.items[i][opt]
ListConfig(s, i) == [k \in 1..Len(Type[s.items[i].type].options) |->
                       LET opt == Type[s.items[i].type].options[k]
                       IN <<opt, GetOption(s, i, opt)>>]

(***************************************************************************)
(* CreateItem: the options are set before the type's own check and before  *)
(* the item is on the map.  When either fails the item is freed as it is:  *)
(* the items it was attached to keep their pointers.                       *)
(***************************************************************************)
PortCreateProc(s, i) == s.items[i].parent # NoItem
LinkCreateProc(s, i) == s.items[i].src # NoItem /\ s.items[i].dst # NoItem

Created(s, i) == /\ i[1] = "port" => PortCreateProc(s, i)
                 /\ i[1] = "link" => LinkCreateProc(s, i)

Dangle(v, i) == [k \in DOMAIN v |-> IF v[k] = i THEN Freed ELSE v[k]]

Abandon(s, i) ==
  Fail([s EXCEPT !.items = [j \in DOMAIN s.items \ {i} |->
         [s.items[j] EXCEPT !.members = Dangle(@, i), !.linked = Dangle(@, i)]]])

PutOnMap(s, i) ==
  LET now(t) == IF s.items[i].ctime = 0 THEN s.now ELSE s.items[i][t]
  IN IF ~ s.ok \/ ~ Created(s, i) THEN Abandon(s, i)
     ELSE [s EXCEPT !.items[i].ctime = now("ctime"), !.items[i].mtime = now("mtime"),
                    !.list = <<i>> \o @, !.num = @ + 1, !.next[i[1]] = @ + 1]

CreateItem(s, type, args) ==
  LET i == TnmGetHandle(s, type)
      new == [j \in DOMAIN s.items \cup {i} |-> IF j = i THEN Fresh(type) ELSE s.items[j]]
  IN PutOnMap(TnmSetConfig([s EXCEPT !.items = new], i, args), i)

(***************************************************************************)
(* ItemDeleteProc: the delete callback of an item's command.  A node takes *)
(* its ports with it, every item its links; members of a group stay.       *)
(***************************************************************************)
Unlink(s, i, end) == LET e == s.items[i][end]
                     IN IF e = NoItem THEN s
                        ELSE [s EXCEPT !.items[e].linked = TnmVectorDelete(@, i)]

RECURSIVE ItemDeleteProc(_, _), DeleteAll(_, _, _)
(* Deletes the first element of a vector until the vector is empty. *)
DeleteAll(s, i, vector) ==
  LET v == s.items[i][vector]
  IN IF v = <<>> \/ s.wild THEN s
     ELSE IF v[1] = Freed THEN [s EXCEPT !.wild = TRUE]
     ELSE DeleteAll(ItemDeleteProc(s, v[1]), i, vector)

NodeDeleteProc(s, i) == DeleteAll(s, i, "members")

ItemDeleteProc(s, i) ==
  LET off == [s EXCEPT !.list = RemoveFirst(@, i), !.num = @ - 1]
      own == IF i[1] = "node" THEN NodeDeleteProc(off, i) ELSE off
      ends == Unlink(Unlink(own, i, "src"), i, "dst")
      out == Leave(ends, i)
      bare == DeleteAll(out, i, "linked")
      left == ToSet(bare.items[i].members)
  IN [bare EXCEPT !.wild = @ \/ Freed \in left,
                  !.items = [j \in DOMAIN bare.items \ {i} |->
                     IF j \in left THEN [bare.items[j] EXCEPT !.parent = NoItem]
                     ELSE bare.items[j]]]

RECURSIVE ClearMap(_)
ClearMap(s) == IF s.list = <<>> \/ s.wild THEN s ELSE ClearMap(ItemDeleteProc(s, s.list[1]))

(***************************************************************************)
(* The dump: one entry per item, after the entries of its parent and of    *)
(* its ends.  An option value is written as it is, except that DumpMapProc *)
(* turns the value of -src, and the value of a -dst that stands behind     *)
(* -src, into a reference to the variable the item's own entry sets.       *)
(***************************************************************************)
Lit(v) == [var |-> FALSE, val |-> v]
Var(v) == [var |-> TRUE, val |-> v]

Position(type, opt) == SelectInSeq(Type[type].options, LAMBDA o : o = opt)

Reference(type, opt) == \/ opt = "src"
                        \/ opt = "dst" /\ Position(type, "dst") > Position(type, "src")

TnmAttrDump(attrs) == attrs \ {"temp"}

TnmMapItemDump(s, i) ==
  LET conf == ListConfig(s, i)
      value(k) == IF Reference(i[1], conf[k][1]) THEN Var(conf[k][2]) ELSE Lit(conf[k][2])
  IN [var |-> i, type |-> i[1], args |-> [k \in DOMAIN conf |-> <<conf[k][1], value(k)>>],
      move |-> s.items[i].pos, attrs |-> TnmAttrDump(s.items[i].attrs)]

Dumped(out) == {out[k].var : k \in DOMAIN out}

RECURSIVE DumpMapProc(_, _, _)
DumpMapProc(s, i, out) ==
  IF i = NoItem \/ i \in Dumped(out) THEN out
  ELSE LET r == s.items[i]
           before == DumpMapProc(s, r.dst, DumpMapProc(s, r.src, DumpMapProc(s, r.parent, out)))
       IN Append(before, TnmMapItemDump(s, i))

RECURSIVE DumpList(_, _, _)
DumpList(s, list, out) ==
  IF list = <<>> THEN out ELSE DumpList(s, Tail(list), DumpMapProc(s, Head(list), out))

DumpMap(s) == DumpList(s, s.list, <<>>)

(***************************************************************************)
(* Evaluating a dump: `set var [$map create ...]', then the move and the   *)
(* attributes.  The first error ends the script.  `env' holds the Tcl      *)
(* variables the script has set.                                           *)
(***************************************************************************)
Substitute(env, args) ==
  [k \in DOMAIN args |->
     <<args[k][1], IF args[k][2].var THEN env[args[k][2].val] ELSE args[k][2].val>>]

Defined(env, args) == \A k \in DOMAIN args : args[k][2].var => args[k][2].val \in DOMAIN env

Move(s, i, d) == IF d = 0 THEN s ELSE Touch([s EXCEPT !.items[i].pos = @ + d], i)

TnmAttrSet(s, i, a) == Touch([s EXCEPT !.items[i].attrs = @ \cup a], i)

Made(s, e, i, env) ==
  IF ~ s.ok THEN [map |-> s, env |-> env]
  ELSE [map |-> TnmAttrSet(Move(s, i, e.move), i, e.attrs),
        env |-> [v \in DOMAIN env \cup {e.var} |-> IF v = e.var THEN i ELSE env[v]]]

Evaluate(r, e) ==
  Made(IF Defined(r.env, e.args) THEN CreateItem(r.map, e.type, Substitute(r.env, e.args))
       ELSE Fail(r.map), e, TnmGetHandle(r.map, e.type), r.env)

RECURSIVE PasteMap(_, _)
PasteMap(r, script) ==
  IF script = <<>> \/ ~ r.map.ok THEN r ELSE PasteMap(Evaluate(r, Head(script)), Tail(script))

LoadMap(s, script) ==
  [PasteMap([map |-> [s EXCEPT !.loading = TRUE], env |-> <<>>], script)
     EXCEPT !.map.loading = FALSE]

(***************************************************************************)
(* The commands.                                                           *)
(***************************************************************************)
MapInit == map = EmptyMap /\ edits = 0

Items == ToSet(map.list)
ByOption(opt, S) == {<<>>} \cup {<< <<opt, v>> >> : v \in S}

Requests(type) ==
  LET above == ByOption("parent", Items \cup {NoItem})
      ends == IF type = "link"
              THEN {<<>>} \cup ByOption("src", Items)
                   \cup {<< <<"src", a>>, <<"dst", b>> >> : a \in Items, b \in Items}
              ELSE {<<>>}
  IN {p \o e : e \in ends, p \in above}

Command(s) == map' = [s EXCEPT !.ok = TRUE]

Dangling(s) == \E i \in DOMAIN s.items :
                 Freed \in ToSet(s.items[i].members) \cup ToSet(s.items[i].linked)

(* A creation that fails after the new item was attached to another one
   leaves a dangling pointer behind, and is left out. *)
Create ==
  /\ map.next.node + map.next.port + map.next.network + map.next.link + map.next.group < MaxItems
  /\ \E type \in Kinds : \E args \in Requests(type) :
       LET s == CreateItem(map, type, args) IN ~ Dangling(s) /\ Command(s)
  /\ UNCHANGED edits

(* Every edit falls into a second of its own. *)
Edit(Op(_)) == /\ edits < MaxEdits
               /\ edits' = edits + 1
               /\ Command(Op([map EXCEPT !.now = @ + 1]))

Values(opt) == IF opt = "name" THEN Names
               ELSE IF opt \in {"ctime", "mtime"} THEN {1}
               ELSE Items \cup {NoItem}

Configure ==
  \E i \in Items, opt \in {"parent", "src", "dst", "name", "mtime"} : \E v \in Values(opt) :
    Edit(LAMBDA s : TnmSetConfig(s, i, << <<opt, v>> >>))

MoveItem == \E i \in Items : Edit(LAMBDA s : Move(s, i, 1))

SetAttribute == \E i \in Items, a \in Attributes : Edit(LAMBDA s : TnmAttrSet(s, i, {a}))

Destroy == /\ \E i \in Items : Command(ItemDeleteProc(map, i))
           /\ UNCHANGED edits

Clear == /\ Command(ClearMap(map))
         /\ UNCHANGED edits

MapNext == Create \/ Configure \/ MoveItem \/ SetAttribute \/ Destroy \/ Clear

MapSpec == MapInit /\ [][MapNext]_mapVars

(***************************************************************************)
(* Properties.                                                             *)
(***************************************************************************)
Copies(v, i) == Cardinality({k \in DOMAIN v : v[k] = i})
One(b) == IF b THEN 1 ELSE 0

(* The pointers between items agree in both directions: an item stands once
   in the members of its parent and nowhere else, a link once in the links of
   each of its ends (twice where both ends are the same item), no item is
   inside itself, the list holds every item once and the count FindItems
   allocates its vector from is its length. *)
ItemsConsistent ==
  /\ ~ map.wild
  /\ Items = DOMAIN map.items
  /\ map.num = Len(map.list) /\ map.num = Cardinality(Items)
  /\ \A i \in Items, j \in Items :
       /\ Copies(map.items[j].members, i) = One(map.items[i].parent = j)
       /\ Copies(map.items[j].linked, i) = One(map.items[i].src = j) + One(map.items[i].dst = j)
  /\ \A i \in Items : i \notin Above(map, map.items[i].parent)

(* What the deletion of an item takes along: its links, and with a node its
   ports and their links. *)
TakenAlong(i) ==
  LET ports == IF i[1] = "node" THEN ToSet(map.items[i].members) ELSE {}
  IN {i} \cup ports \cup {l \in Items : {map.items[l].src, map.items[l].dst} \cap ({i} \cup ports) # {}}

(* Destroying an item removes it, its links and the ports of a node, and
   nothing else; the items that are left keep their data, and lose their
   parent exactly when the parent is gone. *)
DestroyTakesExactly ==
  Destroy => \E i \in Items :
    /\ ToSet(map'.list) = Items \ TakenAlong(i)
    /\ \A j \in ToSet(map'.list) :
         LET a == map.items[j] b == map'.items[j]
         IN /\ b.parent = IF a.parent \in TakenAlong(i) THEN NoItem ELSE a.parent
            /\ <<b.src, b.dst, b.name, b.pos, b.attrs, b.ctime, b.mtime>>
                 = <<a.src, a.dst, a.name, a.pos, a.attrs, a.ctime, a.mtime>>


(* A save, and a load by a process that starts some time later. *)
Reload == LoadMap([EmptyMap EXCEPT !.now = map.now + 1], DumpMap(map))

(* d is a dump of the map, and r what a process has that loaded it. *)
KeptData(d, r) ==
  LET at(i) == CHOOSE k \in DOMAIN d : d[k].var = i
  IN /\ Len(d) = map.num /\ Dumped(d) = Items
     /\ \A i \in Items : \A b \in {map.items[i].parent, map.items[i].src, map.items[i].dst} \ {NoItem} :
          at(b) < at(i)
     /\ \A i \in DOMAIN r.env :
          LET a == map.items[i] b == r.map.items[r.env[i]]
          IN <<b.type, b.name, b.pos, b.ctime, b.mtime, b.attrs>>
               = <<a.type, a.name, a.pos, a.ctime, a.mtime, a.attrs \ {"temp"}>>

===========================================================================
