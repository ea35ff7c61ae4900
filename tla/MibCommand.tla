----------------------------- MODULE MibCommand -----------------------------
(***************************************************************************)
(* The Tnm::mib command (tnm/snmp/tnmMibTcl.c): loading MIB files, walking *)
(* the tree with a script that may itself load files, and the queries.     *)
(*                                                                         *)
(* WalkTree evaluates the script for every node while it holds a pointer   *)
(* into the tree; its recursion is the sequence walk of nodes still to be  *)
(* visited, one for each level, and the object identifier it reuses for    *)
(* all levels is woid.                                                     *)
(***************************************************************************)
EXTENDS MibParser

(* The queries.  Each is an operator of the store m and of the arguments; a *)
(* query that has no answer returns NoName or the empty sequence, as the    *)
(* command returns the empty string.                                        *)

(* The node of the tree closest to an object identifier, and what leads to it. *)
GetMibNode(m, oid) ==
  With(TnmMibNodeFromOid(m, oid), LAMBDA d :
    IF oid = <<>> \/ d.node = 0 THEN [node |-> 0, oid |-> <<>>]
    ELSE [node |-> d.node, oid |-> SubSeq(oid, 1, d.used)])

NodeAt(m, oid) == m.node[GetMibNode(m, oid).node]

GetMibType(m, name) == TnmMibFindType(m, name.module, name.label)

(* A name is tried as a type first. *)
GetMibNodeOrType(m, name) ==
  LET type == GetMibType(m, name)
      oid  == SetOidFromAny(m, name)
      node == IF oid.ok THEN GetMibNode(m, Value(oid.oid)).node ELSE 0
  IN  CASE name.label # NoName /\ type # NoName -> [type |-> type, node |-> 0]
        [] OTHER -> [type |-> NoName, node |-> node]

ExistsCmd(m, name) == GetMibNodeOrType(m, name) # [type |-> NoName, node |-> 0]
CompareCmd(a, b) == TnmOidCompare(a, b)
SubtreeCmd(a, b) == TnmOidInTree(a, b)
LengthCmd(oid) == Len(oid)
NameCmd(m, oid) == UpdateStringOfOid(m, TnmNewOidObj(oid))
OidCmd(m, name) == Value(SetOidFromAny(m, name).oid)

(* What is stored with the node, or with the type. *)
LabelCmd(m, nt)  == IF nt.type # NoName THEN nt.type ELSE m.node[nt.node].label
ModuleCmd(m, nt) == IF nt.type # NoName THEN m.types[nt.type].module ELSE m.node[nt.node].module
MacroCmd(m, nt)  == IF nt.type # NoName THEN m.types[nt.type].macro ELSE m.node[nt.node].macro
StatusCmd(m, nt) == IF nt.type # NoName THEN m.types[nt.type].status ELSE m.node[nt.node].status
AccessCmd(m, oid) == NodeAt(m, oid).access

(* Objects of a type that was named show the syntax of the type. *)
SyntaxCmd(m, nt) ==
  LET x == m.node[nt.node]
  IN  CASE nt.type # NoName -> m.types[nt.type].syntax
        [] nt.type = NoName /\ x.macro # "OBJECT-TYPE" -> NoName
        [] OTHER -> CASE x.type = NoName -> x.syntax
                      [] x.type # NoName /\ m.types[x.type].macro # NoName -> m.types[x.type].syntax
                      [] OTHER -> x.type

TypeOf(m, x) ==
  CASE x.macro # "OBJECT-TYPE" -> <<NoName, NoName>>
    [] x.macro = "OBJECT-TYPE" /\ x.type = NoName -> <<NoName, x.syntax>>
    [] OTHER -> <<m.types[x.type].module, x.type>>
TypeCmd(m, oid) == TypeOf(m, NodeAt(m, oid))

(* One field of the node holds the index, the default value, the members of a group or the
   variables of a notification: the macro and the syntax say which. *)
Holds(x, macros) == IF x.macro \in macros THEN x.index ELSE <<>>
DefvalCmd(m, oid) ==
  LET x == NodeAt(m, oid)
  IN  IF x.syntax \in {"SEQUENCE", "SEQUENCE OF"} THEN <<>> ELSE Holds(x, {"OBJECT-TYPE"})
MemberCmd(m, oid) == Holds(NodeAt(m, oid), {"OBJECT-GROUP", "NOTIFICATION-GROUP"})
VariablesCmd(m, oid) == Holds(NodeAt(m, oid), {"TRAP-TYPE", "NOTIFICATION-TYPE"})

DisplayHintCmd(m, type) == m.types[type].hint
Restriction(m, type, kind) == IF m.types[type].rest.kind = kind THEN m.types[type].rest.list ELSE <<>>
EnumsCmd(m, type) == Restriction(m, type, "enums")
RangeCmd(m, type) == Restriction(m, type, "range")
SizeCmd(m, type)  == Restriction(m, type, "size")

(* The tree *)
ChildCmd(m, oid) ==
  With(GetMibNode(m, oid), LAMBDA found :
    With(Chain(m, m.node[found.node].child), LAMBDA kids :
      [i \in DOMAIN kids |-> Append(found.oid, m.node[kids[i]].subid)]))

ParentCmd(m, oid) ==
  With(GetMibNode(m, oid), LAMBDA found :
    IF m.node[found.node].parent = 0 THEN <<>> ELSE Front(found.oid))

SplitCmd(m, oid) ==
  LET found == GetMibNode(m, oid)
  IN  IF m.node[found.node].macro = "OBJECT-TYPE"
      THEN <<found.oid, SubSeq(oid, Len(found.oid) + 1, Len(oid))>>
      ELSE <<>>

-----------------------------------------------------------------------------
(* Tables *)

GetMibColumnNode(m, oid) ==
  With(GetMibNode(m, oid).node, LAMBDA n :
    IF /\ m.node[n].macro = "OBJECT-TYPE" /\ m.node[n].syntax \notin {"SEQUENCE", "SEQUENCE OF"}
       /\ m.node[n].parent # 0
       /\ m.node[m.node[n].parent].syntax = "SEQUENCE"
    THEN n ELSE 0)

(* The nodes of the index of a table, of its row or of one of its columns.  An augmented
   table has the index of the table it augments. *)
GetIndexList(m, n) ==
  LET x     == m.node[n]
      row   == IF x.syntax = "SEQUENCE OF" /\ x.child # 0 THEN x.child ELSE n
      entry == IF /\ m.node[row].syntax # "SEQUENCE" /\ m.node[row].parent # 0
                  /\ m.node[m.node[row].parent].syntax = "SEQUENCE"
               THEN m.node[row].parent ELSE row
  IN  IF x.parent = 0 \/ m.node[entry].syntax # "SEQUENCE" \/ m.node[entry].index = <<>>
      THEN [nodes |-> <<>>, implied |-> FALSE]
      ELSE With(IF m.node[entry].augment
                THEN TnmMibFindNode(m, ByLabel(m.node[entry].index[1]), TRUE).node ELSE entry,
             LAMBDA base :
               [nodes   |-> [i \in DOMAIN m.node[base].index |->
                               GetMibNode(m, OidCmd(m, ByLabel(m.node[base].index[i]))).node],
                implied |-> m.node[base].implied])

IndexCmd(m, oid) ==
  With(GetIndexList(m, GetMibNode(m, oid).node), LAMBDA list :
    [i \in DOMAIN list.nodes |-> TnmMibNodeToOid(m, list.nodes[i])])

NoColumn == [ok |-> FALSE, oid |-> <<>>, values |-> <<>>]

(* The node of a column with the index of its table. *)
Column(m, oid, Use(_, _)) ==
  With(GetMibNode(m, oid), LAMBDA found :
    With(GetIndexList(m, found.node), LAMBDA list :
      IF GetMibColumnNode(m, oid) = 0 \/ list.nodes = <<>> THEN NoColumn ELSE Use(found, list)))

PackCmd(m, oid, values) ==
  Column(m, oid, LAMBDA found, list :
    With(TnmMibPack(m, found.oid, values, list.implied, list.nodes), LAMBDA packed :
      [ok |-> packed.ok, oid |-> packed.oid, values |-> values]))

UnpackCmd(m, oid) ==
  Column(m, oid, LAMBDA found, list :
    With(TnmMibUnpack(m, SubSeq(oid, Len(found.oid) + 1, Len(oid)), list.implied, list.nodes),
      LAMBDA unpacked : [ok |-> unpacked.ok, oid |-> oid, values |-> unpacked.values]))

FormatCmd(m, nt, value) ==
  IF nt.type # NoName THEN Formatted(m, nt.type, m.types[nt.type].syntax, value)
  ELSE Formatted(m, m.node[nt.node].type, m.node[nt.node].syntax, value)

ScanCmd(m, nt, value) ==
  LET got == IF nt.type # NoName THEN TnmMibScanValue(m, nt.type, m.types[nt.type].syntax, value)
             ELSE TnmMibScanValue(m, m.node[nt.node].type, m.node[nt.node].syntax, value)
  IN  IF got.k = "none" THEN value ELSE got

-----------------------------------------------------------------------------
(* The command *)

CONSTANTS Files,        \* the names of the MIB files
          ScriptFiles,  \* the ones that the script of a walk loads
          Content(_),   \* the tokens of a file, <<>> if it cannot be opened
          CoreFiles,    \* $tnm(mibs:core)
          SiteFiles,    \* $tnm(mibs)
          WalkRoots,    \* the object identifiers that walks start from
          MaxLoads      \* bound: how often files are loaded by command

VARIABLES mib,          \* the store of MibTree
          loaded,       \* mibFilesLoaded
          initialized,  \* the command has been used
          done,         \* the lists of files that have been loaded (alreadyDone)
          walk, woid, wroot,
          visited,      \* history: the object identifiers the script has seen
          known,        \* history: the nodes below the root when the walk began,
                        \* none once the script has broken it off
          loads         \* how many load commands have been tried

mibVars == <<mib, loaded, initialized, done, walk, woid, wroot, visited, known, loads>>

MibInit ==
  /\ mib = EmptyStore /\ loaded = <<>> /\ initialized = FALSE /\ done = {}
  /\ walk = <<>> /\ woid = TnmOidInit /\ wroot = <<>>
  /\ visited = <<>> /\ known = {} /\ loads = 0

-----------------------------------------------------------------------------
(* Loading.  The operators work on [m, files, done, ok]. *)

(* A file that is loaded already is left alone; a file that failed may be tried again, on
   top of what it left behind. *)
TnmMibLoadFile(st, file) ==
  With(Content(file), LAMBDA toks :
    CASE ~st.ok -> st
      [] st.ok /\ toks = <<>> -> [st EXCEPT !.ok = FALSE]
      [] OTHER -> IF \E i \in DOMAIN st.files : st.files[i] = file THEN st
                  ELSE With(TnmMibParse(st.m, toks), LAMBDA parsed :
                         [st EXCEPT !.m = parsed.m, !.ok = parsed.ok,
                                    !.files = IF parsed.ok THEN Append(@, file) ELSE @]))

RECURSIVE LoadList(_, _)
LoadList(st, list) ==
  IF list = <<>> THEN st ELSE LoadList(TnmMibLoadFile(st, list[1]), Tail(list))

IfOk(st, F(_)) == IF st.ok THEN F(st) ELSE st

(* The lists of files, each of which is loaded once; an error ends the loading. *)
RECURSIVE LoadLists(_, _)
LoadLists(st, names) ==
  IF names = <<>> THEN st
  ELSE LoadLists(IF names[1] \in st.done THEN st
                 ELSE IfOk(LoadList(st, IF names[1] = "core" THEN CoreFiles ELSE SiteFiles),
                        LAMBDA read : [read EXCEPT !.done = @ \cup {names[1]}]),
                 Tail(names))

TnmMibLoadCore(st) == LoadLists(st, <<"core">>)
TnmMibLoad(st) == LoadLists(st, <<"core", "site">>)

Loading == [m |-> mib, files |-> loaded, done |-> done, ok |-> TRUE]

(* Every command loads the core files first, and all files unless it is "mib load". *)
Ready == IF initialized THEN Loading ELSE TnmMibLoad(Loading)
ReadyToLoad == IF initialized THEN Loading ELSE TnmMibLoadCore(Loading)

Loaded(st) ==
  /\ mib' = st.m
  /\ loaded' = st.files
  /\ done' = st.done

LoadWith(st, file) ==
  /\ initialized' = st.ok
  /\ Loaded(IfOk(st, LAMBDA ready : TnmMibLoadFile(ready, file)))

LoadCmd(file) ==
  /\ loads < MaxLoads
  /\ loads' = loads + 1
  /\ LoadWith(ReadyToLoad, file)

Load(file) == walk = <<>> /\ LoadCmd(file) /\ UNCHANGED <<walk, woid, wroot, visited, known>>

-----------------------------------------------------------------------------
(* Walking *)

(* The children of a node as the code finds them, and the nodes of the tree. *)
ChildrenOf(m, n) == Chain(m, IF n = 0 THEN m.root ELSE m.node[n].child)

RECURSIVE InTree(_, _)
InTree(m, n) == {n} \cup UNION {InTree(m, c) : c \in Range(ChildrenOf(m, n))}
TreeNodes(m) == InTree(m, 0) \ {0}

(* The walk starts at the node of the tree that is closest to the object identifier. *)
WalkFrom(st, found) ==
  /\ Loaded(st)
  /\ initialized' = st.ok
  /\ walk'  = IF st.ok /\ found.node # 0 THEN <<found.node>> ELSE <<>>
  /\ woid'  = TnmNewOidObj(found.oid)
  /\ wroot' = found.oid
  /\ known' = IF st.ok /\ found.node # 0
              THEN {TnmMibNodeToOid(st.m, n) : n \in InTree(st.m, found.node)} ELSE {}

WalkIn(st, oid) == WalkFrom(st, GetMibNode(st.m, oid))

StartWalk(oid) ==
  /\ walk = <<>>
  /\ WalkIn(Ready, oid)
  /\ visited' = <<>>
  /\ UNCHANGED loads

Level == Len(wroot) + Len(walk) - 1
Here == TnmOidSet(woid, Level, mib.node[Last(walk)].subid)

(* One node: the script is evaluated and may load a file.  Afterwards the walk goes on with
   the children of the node, as they are now, or with the next node. *)
Visit(outcome) ==
  LET n == Last(walk)
  IN  /\ walk # <<>> /\ n # 0
      /\ TnmOidInTree(wroot, Value(Here))
      /\ visited' = Append(visited, Value(Here))
      /\ \/ UNCHANGED <<mib, loaded, initialized, done, loads>>
         \/ \E file \in ScriptFiles : LoadCmd(file)
      /\ CASE outcome = "break" -> walk' = <<>> /\ woid' = Here
           [] outcome # "break" /\ mib'.node[n].child # 0 ->
                /\ walk' = Append(walk, mib'.node[n].child)
                /\ woid' = TnmOidSetLength(Here, Level + 1)
           [] OTHER -> /\ walk' = Append(Front(walk), mib'.node[n].next)
                       /\ woid' = Here
      /\ known' = IF outcome = "break" THEN {} ELSE known
      /\ UNCHANGED wroot

(* The end of a level: the level above goes on behind the node it descended from. *)
Ascend ==
  LET n == Last(walk)
      up == Front(walk)
  IN  /\ walk # <<>>
      /\ n # 0 => ~TnmOidInTree(wroot, Value(Here))
      /\ walk' = IF up = <<>> THEN <<>> ELSE Append(Front(up), mib.node[Last(up)].next)
      /\ woid' = TnmOidSetLength(IF n = 0 THEN woid ELSE Here, Level - 1)
      /\ UNCHANGED <<mib, loaded, initialized, done, wroot, visited, known, loads>>

MibNext ==
  \/ \E file \in Files : Load(file)
  \/ \E oid \in WalkRoots : StartWalk(oid)
  \/ \E outcome \in {"ok", "break"} : Visit(outcome)
  \/ Ascend
=============================================================================
