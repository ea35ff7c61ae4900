------------------------------- MODULE MCMib -------------------------------
(***************************************************************************)
(* The Tnm::mib command over a handful of MIB files.  A file is the        *)
(* sequence of its definitions behind the name of its module.  Several     *)
(* files hold a table, its row and its columns in different orders; others *)
(* extend the table, repeat a node, use a label twice, miss the parent of  *)
(* a node until another file has been loaded, define traps and groups, or  *)
(* end in the middle of a definition.                                      *)
(***************************************************************************)
EXTENDS MibCommand

-----------------------------------------------------------------------------
(* The definitions, as a reader of the files understands them *)

Plain(label, parent, subid) ==
  [label |-> label, macro |-> "OBJECT IDENTIFIER", parent |-> parent, subid |-> subid,
   syntax |-> NoName, type |-> NoName, enums |-> <<>>, access |-> NoName, index |-> <<>>,
   implied |-> FALSE, augment |-> FALSE, members |-> <<>>]

Object(label, parent, subid, syntax) ==
  [Plain(label, parent, subid) EXCEPT !.macro = "OBJECT-TYPE", !.syntax = syntax,
                                      !.access = "read-only"]

UpDown == <<[label |-> "up", value |-> 1], [label |-> "down", value |-> 2]>>

Def(id) ==
  CASE id = "org"   -> Plain("org", "iso", 3)
    [] id = "mgmt"  -> Plain("mgmt", "org", 1)
    [] id = "ent"   -> Plain("ent", "org", 2)
    [] id = "tab"   -> Object("tab", "mgmt", 1, "SEQUENCE OF")
    [] id = "row"   -> [Object("row", "tab", 1, "SEQUENCE") EXCEPT !.index = <<"num", "name">>]
    [] id = "num"   -> [Object("num", "row", 1, "INTEGER") EXCEPT !.enums = UpDown, !.type = "Num"]
    [] id = "name"  -> [Object("name", "row", 2, "OCTET STRING") EXCEPT !.type = "Name"]
    [] id = "btab"  -> Object("btab", "mgmt", 2, "SEQUENCE OF")
    [] id = "brow"  -> [Object("brow", "btab", 1, "SEQUENCE") EXCEPT !.index = <<"oix", "addr", "tail">>,
                                                                    !.implied = TRUE]
    [] id = "addr"  -> Object("addr", "brow", 1, "IpAddress")
    [] id = "oix"   -> Object("oix", "brow", 2, "OBJECT IDENTIFIER")
    [] id = "tail"  -> Object("tail", "brow", 3, "OBJECT IDENTIFIER")
    [] id = "arow"  -> [Object("arow", "mgmt", 3, "SEQUENCE") EXCEPT !.index = <<"row">>,
                                                                    !.augment = TRUE]
    [] id = "acol"  -> Object("acol", "arow", 4, "Gauge32")
    [] id = "extra" -> Object("extra", "mgmt", 4, "TimeTicks")
    [] id = "num2"  -> Object("num", "ent", 3, "Gauge32")
    [] id = "lost"  -> Object("lost", "found", 1, "INTEGER")
    [] id = "kid"   -> Object("kid", "mgmt", 5, "INTEGER")
    [] id = "found" -> Plain("found", "ent", 4)
    [] id = "traps" -> Plain("entTraps", "ent", 0)
    [] id = "trap1" -> [Plain("trap1", "traps", 1) EXCEPT !.macro = "TRAP-TYPE", !.members = <<"num">>]
    [] id = "trap2" -> [Plain("trap2", "traps", 2) EXCEPT !.macro = "TRAP-TYPE"]
    [] id = "group" -> [Plain("group", "ent", 5) EXCEPT !.macro = "OBJECT-GROUP",
                                                        !.members = <<"num", "name">>]
    [] id = "zero"  -> Plain("zero", "tab", 0)

RECURSIVE RefOid(_)
RefOid(id) == IF id = "iso" THEN <<1>> ELSE Append(RefOid(Def(id).parent), Def(id).subid)

-----------------------------------------------------------------------------
(* The text of the files *)

T(k) == [k |-> k, s |-> NoName, n |-> 0]
L(label) == [k |-> "LABEL", s |-> label, n |-> 0]
N(n) == [k |-> "NUMBER", s |-> NoName, n |-> n]
Quoted(s) == [k |-> "QUOTESTRING", s |-> s, n |-> 0]

Listed(labels) ==
  <<T("{")>> \o FlattenSeq([i \in DOMAIN labels |->
                              IF i = 1 THEN <<L(labels[i])>> ELSE <<T(","), L(labels[i])>>]) \o <<T("}")>>

Position(d) == <<T("::="), T("{"), L(IF d.parent = "iso" THEN "iso" ELSE Def(d.parent).label),
                 N(d.subid), T("}")>>

SyntaxOf(d) ==
  CASE d.enums # <<>> ->
         <<T("INTEGER"), T("{"), L(d.enums[1].label), T("("), N(d.enums[1].value), T(")"), T(","),
           L(d.enums[2].label), T("("), N(d.enums[2].value), T(")"), T("}")>>
    [] d.enums = <<>> /\ d.type # NoName -> <<L(d.type)>>
    [] d.syntax = "SEQUENCE OF" -> <<T("SEQUENCE"), T("OF"), L("Row")>>
    [] d.syntax = "SEQUENCE" -> <<L("Row")>>
    [] OTHER -> <<T(d.syntax)>>

IndexOf(d) ==
  CASE d.index = <<>> -> <<>>
    [] d.index # <<>> /\ d.augment -> <<T("AUGMENTS"), T("{"), L(d.index[1]), T("}")>>
    [] OTHER -> IF d.implied
                THEN <<T("INDEX"), T("{")>> \o FlattenSeq([i \in 1..Len(d.index) - 1 |-> <<L(d.index[i]), T(",")>>])
                     \o <<T("IMPLIED"), L(Last(d.index)), T("}")>>
                ELSE <<T("INDEX")>> \o Listed(d.index)

Described == <<T("STATUS"), T("current"), T("DESCRIPTION"), Quoted("text")>>

RenderDef(d) ==
  CASE d.macro = "OBJECT-TYPE" ->
         <<L(d.label), T("OBJECT-TYPE"), T("SYNTAX")>> \o SyntaxOf(d)
         \o <<T("ACCESS"), T(d.access)>> \o Described \o IndexOf(d) \o Position(d)
    [] d.macro = "OBJECT-GROUP" ->
         <<L(d.label), T("OBJECT-GROUP"), T("OBJECTS")>> \o Listed(d.members) \o Described \o Position(d)
    [] d.macro = "TRAP-TYPE" ->
         <<L(d.label), T("TRAP-TYPE"), T("ENTERPRISE"), L("ent")>>
         \o (IF d.members = <<>> THEN <<>> ELSE <<T("VARIABLES")>> \o Listed(d.members))
         \o <<T("::="), N(d.subid)>>
    [] OTHER -> <<L(d.label), T("OBJECT IDENTIFIER")>> \o Position(d)

(* The convention with the DISPLAY-HINT "1d." that the column name has. *)
RenderType ==
  <<L("Name"), T("::="), T("TEXTUAL-CONVENTION"), T("DISPLAYHINT"), Quoted("1d.")>> \o Described
  \o <<T("SYNTAX"), T("OCTET STRING"), T("("), T("SIZE"), T("("), N(0), T(".."), N(4), T(")"), T(")")>>

Defs(file) == {file[i] : i \in 2..Len(file)} \ {"cut"}

MCContent(file) ==
  LET module == <<L(file[1]), T("DEFINITIONS"), T("::="), T("BEGIN")>>
      body   == FlattenSeq([i \in 1..Len(file) - 1 |->
                              IF file[i + 1] = "cut" THEN <<L("half"), T("OBJECT-TYPE"), T("SYNTAX")>>
                              ELSE RenderDef(Def(file[i + 1]))])
      types  == IF file[1] = "A" THEN RenderType ELSE <<>>
      end    == IF Last(file) = "cut" THEN <<>> ELSE <<T("END")>>
  IN  IF Len(file) = 1 THEN <<>> ELSE module \o types \o body \o end

TableFiles == {<<"A", "tab", "row", "num", "name">>, <<"A", "name", "num", "row", "tab">>,
               <<"A", "row", "name", "tab", "num">>, <<"A", "num", "tab", "name", "row">>}
MCCore == <<<<"C", "org", "mgmt", "ent">>>>
MCSite == <<<<"R", "mgmt", "extra">>>>
OtherFiles == {<<"B", "oix", "addr", "brow", "tail", "btab">>, <<"P", "arow", "acol">>, <<"P", "acol", "arow">>,
               <<"D", "num2">>, <<"O", "kid", "lost">>, <<"O", "lost", "kid">>, <<"F", "found">>,
               <<"T", "trap1", "trap2", "group">>, <<"X", "kid", "cut">>, <<"Z", "zero">>, <<"none">>}
MCFiles == TableFiles \cup OtherFiles
MCScriptFiles == {<<"A", "num", "tab", "name", "row">>, <<"B", "oix", "addr", "brow", "tail", "btab">>,
                  <<"T", "trap1", "trap2", "group">>, <<"O", "lost", "kid">>}

MCHash(label) == IF label \in {"org", "tab", "row", "ent", "found", "iso"} THEN 1 ELSE 2
MCCapitalised(label) == IF label = "num" THEN "Num" ELSE "Other"
MCTrapsOf(label) == "entTraps"
MCHintOf(hint) == <<[pfx |-> 1, kind |-> "d", sep |-> <<Point>>]>>
MCWalkRoots == {<<1>>, <<1, 3, 1, 9>>, <<2, 5>>}

MibSpec == MibInit /\ [][MibNext]_mibVars
-----------------------------------------------------------------------------
(* Properties *)

Ids == UNION {Defs(loaded[i]) : i \in DOMAIN loaded}
IsLoaded(id) == id \in Ids
ByOid(oid) == [type |-> NoName, node |-> GetMibNode(mib, oid).node]
Ascending(s) == \A i \in 1..Len(s) - 1 : TnmOidCompare(s[i], s[i + 1]) = "less"

(* Every definition of every file that has been loaded is in the tree at the object
   identifier its text gives it and with what its text says of it, whatever the order of
   the definitions and of the files, however many loads have failed in between, and with
   the children of every node in order (TnmMibAddNode, BuildSubTree). *)
TreeExact ==
  /\ \A id \in Ids :
       LET d   == Def(id)
           oid == RefOid(id)
           nt  == ByOid(oid)
       IN  /\ GetMibNode(mib, oid).oid = oid
           /\ LabelCmd(mib, nt) = d.label
           /\ MacroCmd(mib, nt) = d.macro
           /\ AccessCmd(mib, oid) = d.access
           /\ SyntaxCmd(mib, nt) = d.syntax
           /\ d.macro = "OBJECT-TYPE" => StatusCmd(mib, nt) = "current"
           /\ d.enums # <<>> => EnumsCmd(mib, TypeCmd(mib, oid)[2]) = d.enums
           /\ d.macro = "TRAP-TYPE" => VariablesCmd(mib, oid) = d.members
           /\ d.macro = "OBJECT-GROUP" => MemberCmd(mib, oid) = d.members
           /\ ParentCmd(mib, oid) = Front(oid)
           /\ d.index # <<>> /\ ~d.augment =>
                IndexCmd(mib, oid) = [i \in DOMAIN d.index |-> RefOid(d.index[i])]
           /\ d.augment /\ IsLoaded(d.index[1]) =>
                IndexCmd(mib, oid) = [i \in 1..2 |-> RefOid(Def(d.index[1]).index[i])]
  /\ \A n \in TreeNodes(mib) : LET kids == ChildCmd(mib, TnmMibNodeToOid(mib, n)) IN Ascending(kids)

(* What "mib name" prints for an object identifier names this object identifier again
   (UpdateStringOfOid and SetOidFromAny), for nodes and for instances of them.  The labels
   that are used twice are left out, as are the roots with a suffix and the suffixes behind
   a node that has a child 0. *)
NamesExact ==
  \A n \in TreeNodes(mib) : \A suffix \in {<<>>, <<0>>, <<9, 1>>} :
     LET oid   == TnmMibNodeToOid(mib, n) \o suffix
         x     == mib.node[n]
         inner == GetMibNode(mib, oid).oid # TnmMibNodeToOid(mib, n)
     IN  ( /\ Len(oid) > 1
           /\ suffix # <<>> =>
                /\ ~inner
                /\ x.label \in DOMAIN mib.names
                /\ (mib.names[x.label] = n \/ (x.child = 0 /\ x.module # NoName))
                /\ \A c \in Range(ChildrenOf(mib, n)) : mib.node[c].subid # 0 )
         => LET back == SetOidFromAny(mib, NameCmd(mib, oid)) IN back.ok /\ Value(back.oid) = oid

(* A walk shows the script the nodes of its subtree in ascending order, each once, and at
   its end all that were there when it began, even if the script loads files meanwhile
   (WalkTree). *)
MibWalkExact ==
  /\ Ascending(visited)
  /\ \A i \in DOMAIN visited : TnmOidInTree(wroot, visited[i])
  /\ walk = <<>> => known \subseteq Range(visited)

(* What a script sees of the loaded files, by object identifier, by name and by walking,
   is what the files say.  The script of a walk may break it off anywhere, so that every
   store is met between two walks. *)
MibExact == MibWalkExact /\ (walk = <<>> => TreeExact /\ NamesExact)

Numbered == {IntVal(7), LabelVal("down")}
Strings == {OctetsVal(s) : s \in {<<>>, <<5>>, <<12, 200>>, <<0, 0, 7>>}}
Addresses == {OctetsVal(<<10, 0, 200, 1>>), OctetsVal(<<0, 0, 0, 0>>)}
Oids == {OidVal(o) : o \in {<<>>, <<1, 3>>, <<1, 3, 1, 1>>}}

PackedAndBack(col, values, shown) ==
  With(PackCmd(mib, col, values), LAMBDA packed :
    With(UnpackCmd(mib, packed.oid), LAMBDA back :
      /\ packed.ok /\ back.ok
      /\ back.values = shown
      /\ PackCmd(mib, col, back.values).oid = packed.oid))


-----------------------------------------------------------------------------
(* A label followed by a path stands for the node of the label and the path below it, as
   the manual page says (LookupLabelOID). *)
PathsDenote ==
  \A n \in TreeNodes(mib) : \A path \in {<<1>>, <<1, 1>>} :
     LET x    == mib.node[n]
         name == [module |-> NoName, label |-> x.label, rest |-> TnmOidToString(TnmNewOidObj(path))]
         oid  == SetOidFromAny(mib, name)
     IN  x.label \in DOMAIN mib.names /\ mib.names[x.label] = n
         => oid.ok /\ Value(oid.oid) = TnmMibNodeToOid(mib, n) \o path
=============================================================================
