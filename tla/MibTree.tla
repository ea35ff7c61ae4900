------------------------------ MODULE MibTree ------------------------------
(***************************************************************************)
(* Object identifiers (tnm/snmp/tnmOidObj.c): the growable array that      *)
(* holds the sub-identifiers, its conversions from and to text, and the    *)
(* order on object identifiers.                                            *)
(*                                                                         *)
(* A TnmOid starts with room for StaticSize sub-identifiers inside the     *)
(* structure and moves to the heap when it outgrows it.  The text of an    *)
(* object identifier is the sequence of its parts, each with its digits    *)
(* and whether it is written in hexadecimal (":1f" or ".0x1f").            *)
(*                                                                         *)
(* The tree of MIB nodes and the table of MIB types                        *)
(* (tnm/snmp/tnmMibTree.c, with the lookups of tnmMibUtil.c and            *)
(* tnmOidObj.c that use them).                                             *)
(*                                                                         *)
(* The store m holds what the C code keeps in static variables:            *)
(*   node    the nodes allocated so far; 0 is the null pointer             *)
(*   root    tnmMibTree                                                    *)
(*   bucket  nodehashtab: nodes waiting for their parent, chained through  *)
(*           the same nextPtr that links the children of a tree node       *)
(*   names   nodeHashTable: label to node, 0 once two nodes share it       *)
(*   types   typeHashTable under the name of the type                      *)
(*   qtypes  typeHashTable under the module and the name                   *)
(* Operators take a store and return a store.                              *)
(***************************************************************************)
EXTENDS Naturals, Sequences, SequencesExt, FiniteSets

CONSTANTS StaticSize,   \* TNM_OID_STATIC_SIZE
          MaxSize,      \* TNM_OID_MAX_SIZE
          Word          \* 2^32: sub-identifiers are computed modulo Word

(* F of x, which is computed once. *)
With(x, F(_)) == F(x)

-----------------------------------------------------------------------------
(* The array *)

TnmOidInit == [elems |-> [i \in 1..StaticSize |-> 0], length |-> 0, space |-> StaticSize]

TnmOidFree(o) == TnmOidInit

(* Growing beyond the space copies the elements in use to a zeroed array of the heap;
   anything else leaves the elements, those beyond the new length included. *)
TnmOidSetLength(o, length) ==
  LET space == (length \div StaticSize + 1) * StaticSize
  IN  IF length > o.space
      THEN [elems  |-> [i \in 1..space + 1 |-> IF i <= o.length THEN o.elems[i] ELSE 0],
            length |-> length,
            space  |-> space]
      ELSE [o EXCEPT !.length = length]

TnmOidSet(o, i, value) == [o EXCEPT !.elems[i] = value]

TnmOidAppend(o, value) ==
  IF o.length = MaxSize
  THEN o
  ELSE TnmOidSet(TnmOidSetLength(o, o.length + 1), o.length + 1, value)

TnmOidCopy(src) ==
  LET dst == TnmOidSetLength(TnmOidInit, src.length)
  IN  [dst EXCEPT !.elems = [i \in DOMAIN @ |-> IF i <= src.length THEN src.elems[i] ELSE @[i]]]

(* The object identifier that the array stands for, and an array that holds one: Tcl
   objects are made from an object identifier element by element. *)
Value(o) == SubSeq(o.elems, 1, o.length)
TnmNewOidObj(oid) == FoldLeft(TnmOidAppend, TnmOidInit, oid)
DupOidInternalRep(o) == TnmNewOidObj(Value(o))

-----------------------------------------------------------------------------
(* The order *)

TnmOidCompare(a, b) ==
  LET common == {i \in DOMAIN a \cap DOMAIN b : a[i] # b[i]}
      first  == CHOOSE i \in common : \A j \in common : i <= j
  IN  CASE common # {} -> IF a[first] < b[first] THEN "less" ELSE "greater"
        [] OTHER -> CASE Len(a) = Len(b) -> "equal"
                      [] Len(a) < Len(b) -> "less"
                      [] OTHER -> "greater"

TnmOidInTree(tree, oid) ==
  /\ Len(oid) >= Len(tree)
  /\ \A i \in DOMAIN tree : oid[i] = tree[i]

-----------------------------------------------------------------------------
(* Text *)

Part(hex, digits) == [hex |-> hex, digits |-> digits]

(* Every part is decimal unless it is introduced as hexadecimal. *)
TnmIsOid(text) == \A i \in DOMAIN text : text[i].hex \/ \A d \in Range(text[i].digits) : d < 10

(* The digits of one part: what a letter is worth in a decimal part is the distance of
   its character from '0'. *)
PartValue(part) ==
  IF part.hex
  THEN FoldLeft(LAMBDA acc, d : (16 * acc + d) % Word, 0, part.digits)
  ELSE FoldLeft(LAMBDA acc, d : (10 * acc + (IF d < 10 THEN d ELSE d + 39)) % Word,
                0, part.digits)

(* The scan that counts the parts never leaves hexadecimal once it has met it, so that
   letters in a later decimal part are not refused. *)
Scanned(text) ==
  \A i \in DOMAIN text :
     \/ \A d \in Range(text[i].digits) : d < 10
     \/ \E j \in 1..i : text[j].hex

NoOid == [ok |-> FALSE, oid |-> TnmOidInit]

Accepted(o) == IF o.length < 2 \/ o.elems[1] > 2 THEN NoOid ELSE [ok |-> TRUE, oid |-> o]

TnmOidFromString(text) ==
  CASE text = <<>> -> [ok |-> TRUE, oid |-> TnmOidInit]
    [] text # <<>> /\ (~Scanned(text) \/ Len(text) > MaxSize) -> NoOid
    [] OTHER -> Accepted(TnmOidCopy([elems  |-> [i \in DOMAIN text |-> PartValue(text[i])],
                                     length |-> Len(text)]))

RECURSIVE Decimal(_)
Decimal(n) == IF n < 10 THEN <<n>> ELSE Append(Decimal(n \div 10), n % 10)

TnmOidToString(o) == [i \in 1..o.length |-> Part(FALSE, Decimal(o.elems[i]))]

(* The hexadecimal parts of a name are rewritten in decimal before it is looked up. *)
TnmHexToOid(text) ==
  [i \in DOMAIN text |->
     IF text[i].hex THEN Part(FALSE, Decimal(PartValue(text[i]))) ELSE text[i]]

-----------------------------------------------------------------------------
(* The tree *)

CONSTANTS Hash(_),      \* HashNodeLabel, over a few buckets
          Buckets       \* the number of buckets

NoName == ""
Unknown == "(unknown)"

TnmMibNewNode(label) ==
  [label |-> label, parentName |-> NoName, module |-> NoName, subid |-> 0, syntax |-> "OTHER",
   type |-> NoName, access |-> NoName, status |-> NoName, macro |-> NoName, index |-> <<>>,
   implied |-> FALSE, augment |-> FALSE, defval |-> NoName, text |-> 0,
   parent |-> 0, child |-> 0, next |-> 0]

NoBuckets == [b \in 1..Buckets |-> 0]

(* The types that are found without having been added. *)
BaseTypes == {"INTEGER", "OCTET STRING", "OBJECT IDENTIFIER", "IpAddress", "BITS"}
BaseType(name) ==
  [name |-> name, module |-> NoName, syntax |-> IF name = "BITS" THEN "OCTET STRING" ELSE name,
   hint |-> NoName, rest |-> [kind |-> "none", list |-> <<>>], macro |-> NoName, status |-> NoName]

EmptyStore == [node |-> <<>>, root |-> 0, bucket |-> NoBuckets, names |-> <<>>,
               types |-> [name \in BaseTypes |-> BaseType(name)], qtypes |-> <<>>]

(* A pointer to a pointer is a bucket, the first child of a node or the successor of a
   node. *)
At(m, loc) ==
  CASE loc.in = "bucket" -> m.bucket[loc.of]
    [] loc.in = "child"  -> m.node[loc.of].child
    [] loc.in = "next"   -> m.node[loc.of].next

Put(m, loc, n) ==
  CASE loc.in = "bucket" -> [m EXCEPT !.bucket[loc.of] = n]
    [] loc.in = "child"  -> [m EXCEPT !.node[loc.of].child = n]
    [] loc.in = "next"   -> [m EXCEPT !.node[loc.of].next = n]

Successor(n) == [in |-> "next", of |-> n]

-----------------------------------------------------------------------------
(* Lookups.  A name is a module or none, and either a label or none, followed by
   sub-identifiers in text.  A lookup yields a node and the part of the text behind
   it. *)

Found(n, rest) == [node |-> n, rest |-> rest]
NotFound == Found(0, <<>>)

RECURSIVE Brother(_, _, _)
Brother(m, n, subid) ==
  IF n = 0 \/ m.node[n].subid = subid THEN n ELSE Brother(m, m.node[n].next, subid)

(* The deepest node on the path of oid, and how many sub-identifiers lead to it. *)
RECURSIVE Descend(_, _, _, _)
Descend(m, n, oid, i) ==
  LET q == IF i < Len(oid) THEN Brother(m, m.node[n].child, oid[i + 1]) ELSE 0
  IN  IF q = 0 THEN [node |-> n, used |-> i] ELSE Descend(m, q, oid, i + 1)

TnmMibNodeFromOid(m, oid) ==
  LET p == Brother(m, m.root, oid[1])
  IN  IF p = 0 THEN [node |-> 0, used |-> 0] ELSE Descend(m, p, oid, 1)

(* "0", "1" and "2" name the roots although they are no object identifiers. *)
PathFound(text, oid, exact, d) ==
  IF oid = <<>> \/ d.node = 0 \/ (exact /\ d.used < Len(oid)) THEN NotFound
  ELSE Found(d.node, SubSeq(text, d.used + 1, Len(text)))

LookupOID(m, text, exact) ==
  IF Len(text) = 1 /\ text[1].digits \in {<<0>>, <<1>>, <<2>>}
  THEN PathFound(text, text[1].digits, exact, TnmMibNodeFromOid(m, text[1].digits))
  ELSE With(TnmOidFromString(text), LAMBDA parsed :
         IF ~parsed.ok THEN NotFound
         ELSE PathFound(text, Value(parsed.oid), exact, TnmMibNodeFromOid(m, Value(parsed.oid))))

(* The text behind the label is parsed with its leading dot, so that the path which is
   followed below the node starts with a sub-identifier 0 of its own. *)
LookupLabelOID(m, label, rest, exact) ==
  LET n    == IF label \in DOMAIN m.names THEN m.names[label] ELSE 0
      path == TnmOidFromString(<<Part(FALSE, <<>>)>> \o rest)
  IN  IF exact \/ rest = <<>> \/ ~TnmIsOid(rest) \/ n = 0
      THEN NotFound
      ELSE With(Descend(m, n, Value(path.oid), 0), LAMBDA d :
             Found(d.node, SubSeq(rest, d.used + 1, Len(rest))))

(* The search of the whole tree: below a node that carries the label, a numeric tail is
   followed child by child; what is left at a leaf is the rest. *)
RECURSIVE LookupTail(_, _, _, _)
LookupTail(m, n, rest, exact) ==
  LET q    == Brother(m, m.node[n].child, PartValue(rest[1]))
      tail == Tail(rest)
  IN  CASE rest = <<>> -> Found(n, <<>>)
        [] rest # <<>> /\ m.node[n].child = 0 -> IF exact THEN NotFound ELSE Found(n, rest)
        [] OTHER -> IF q = 0 THEN NotFound ELSE LookupTail(m, q, tail, exact)

Either(found, other) == IF found.node # 0 THEN found ELSE other

RECURSIVE LookupLabel(_, _, _, _, _, _)
LookupLabel(m, n, module, label, rest, exact) ==
  LET x == m.node[n]
  IN  IF n = 0 THEN NotFound
      ELSE Either(IF x.label = label /\ module \in {NoName, x.module}
                  THEN LookupTail(m, n, rest, exact) ELSE NotFound,
             Either(LookupLabel(m, x.child, module, label, rest, exact),
                    LookupLabel(m, x.next, module, label, rest, exact)))

(* A node is not found in a module that is not its own. *)
InModule(m, module, found) ==
  IF /\ found.node # 0
     /\ m.node[found.node].module # NoName
     /\ module \notin {NoName, m.node[found.node].module}
  THEN NotFound
  ELSE found

TnmMibFindNode(m, name, exact) ==
  LET text == TnmHexToOid(name.rest)
  IN  InModule(m, name.module,
        IF name.label = NoName THEN LookupOID(m, text, exact)
        ELSE Either(IF text = <<>> /\ name.label \in DOMAIN m.names
                    THEN Found(m.names[name.label], <<>>) ELSE NotFound,
               Either(LookupLabelOID(m, name.label, text, exact),
                      LookupLabel(m, m.root, name.module, name.label, text, exact))))

RECURSIVE TnmMibNodeToOid(_, _)
TnmMibNodeToOid(m, n) ==
  IF n = 0 THEN <<>> ELSE Append(TnmMibNodeToOid(m, m.node[n].parent), m.node[n].subid)

GetMibPath(m, n) == TnmOidToString(TnmNewOidObj(TnmMibNodeToOid(m, n)))

(* The text of the object identifier that a name stands for, <<>> if there is none. *)
TnmMibGetOid(m, name) ==
  With(TnmMibFindNode(m, name, FALSE), LAMBDA found :
    CASE found.node = 0 -> <<>>
      [] OTHER -> IF name.label = NoName THEN TnmHexToOid(name.rest)
                  ELSE GetMibPath(m, found.node) \o found.rest)

(* The label of the node a name stands for, with what is left behind it. *)
TnmMibGetName(m, name, exact) ==
  With(TnmMibFindNode(m, name, exact), LAMBDA found :
    IF found.node = 0 THEN [label |-> NoName, rest |-> <<>>]
    ELSE [label |-> m.node[found.node].label, rest |-> found.rest])

(* The conversions of Tcl objects. *)
SetOidFromAny(m, name) ==
  TnmOidFromString(IF name.label = NoName THEN name.rest ELSE TnmMibGetOid(m, name))

UpdateStringOfOid(m, o) ==
  LET name == [module |-> NoName, label |-> NoName, rest |-> TnmOidToString(o)]
  IN  With(TnmMibFindNode(m, name, FALSE), LAMBDA found :
        IF found.node = 0 THEN name
        ELSE [module |-> m.node[found.node].module, label |-> m.node[found.node].label,
              rest   |-> found.rest])

-----------------------------------------------------------------------------
(* Types: the first type of a name is the only one. *)

TnmMibAddType(m, type) ==
  IF type.name \in DOMAIN m.types
  THEN m
  ELSE [m EXCEPT !.types  = (type.name :> type) @@ @,
                 !.qtypes = @ @@ (<<type.module, type.name>> :> type.name)]

TnmMibFindType(m, module, name) ==
  CASE <<module, name>> \in DOMAIN m.qtypes -> m.qtypes[<<module, name>>]
    [] <<module, name>> \notin DOMAIN m.qtypes /\ name \in DOMAIN m.types -> name
    [] OTHER -> NoName

TnmMibListTypes(m, base) == base \cup DOMAIN m.qtypes

-----------------------------------------------------------------------------
(* Building the tree *)

(* A label that two nodes carry no longer leads to either of them. *)
HashNode(m, n) ==
  LET label == m.node[n].label
  IN  CASE label \notin DOMAIN m.names -> [m EXCEPT !.names = (label :> n) @@ @]
        [] OTHER -> IF m.names[label] = n THEN m ELSE [m EXCEPT !.names[label] = 0]

(* The nodes of a list move to the buckets of their parents' labels.  A node that has no
   parent ends the work, the nodes behind it are lost. *)
RECURSIVE HashNodes(_, _)
HashNodes(m, n) ==
  LET b == Hash(m.node[n].parentName)
  IN  IF n = 0 \/ m.node[n].parentName = NoName
      THEN m
      ELSE HashNodes([m EXCEPT !.node[n].next = m.bucket[b], !.bucket[b] = n], m.node[n].next)

HashNodeList(m, list) == HashNodes([m EXCEPT !.bucket = NoBuckets], list)

(* Where a child with this sub-identifier belongs in the sorted list of children. *)
RECURSIVE PlaceFor(_, _, _)
PlaceFor(m, loc, subid) ==
  LET n == At(m, loc)
  IN  IF n # 0 /\ m.node[n].subid < subid THEN PlaceFor(m, Successor(n), subid) ELSE loc

(* Everything in the bucket of the label of root that names it as its parent moves below
   it, and for each of these its own children before the walk of the bucket goes on.  A
   node whose place is taken is dropped, but its children move below the node that has
   the place (if that one has the label they name). *)
Detached(m, np, this, root) ==
  [Put(m, np, m.node[this].next) EXCEPT
     !.node[this].parent = root, !.node[this].child = 0, !.node[this].next = 0]

PutAt(m, this, place, taken) ==
  IF taken # 0 /\ m.node[taken].subid = m.node[this].subid
  THEN [m |-> m, at |-> taken]
  ELSE [m |-> HashNode(Put([m EXCEPT !.node[this].next = taken], place, this), this), at |-> this]

MoveBelow(m, root, this) ==
  With(PlaceFor(m, [in |-> "child", of |-> root], m.node[this].subid), LAMBDA place :
    PutAt(m, this, place, At(m, place)))

RECURSIVE Attach(_, _, _)
Attach(m, root, np) ==
  LET this == At(m, np)
  IN  CASE this = 0 -> m
        [] this # 0 /\ m.node[this].parentName = m.node[root].label ->
             Attach(With(MoveBelow(Detached(m, np, this, root), root, this), LAMBDA moved :
                      Attach(moved.m, moved.at,
                             [in |-> "bucket", of |-> Hash(moved.m.node[moved.at].label)])),
                    root, np)
        [] OTHER -> Attach(m, root, Successor(this))

BuildSubTree(m, root) == Attach(m, root, [in |-> "bucket", of |-> Hash(m.node[root].label)])

Root(label, subid, next) ==
  [TnmMibNewNode(label) EXCEPT !.parentName = Unknown, !.subid = subid,
                               !.syntax = "OBJECT IDENTIFIER", !.next = next]

RECURSIVE BuildSubTrees(_, _)
BuildSubTrees(m, roots) ==
  IF roots = <<>> THEN m ELSE BuildSubTrees(BuildSubTree(m, roots[1]), Tail(roots))

BuildTree(m, list) ==
  LET base == Len(m.node)
  IN  BuildSubTrees([HashNodeList(m, list) EXCEPT
                       !.node = @ \o <<Root("ccitt", 0, base + 2), Root("iso", 1, base + 3),
                                       Root("joint-iso-ccitt", 2, 0)>>,
                       !.root = base + 1], <<base + 1, base + 2, base + 3>>)

ByLabel(label) == [module |-> NoName, label |-> label, rest |-> <<>>]

RECURSIVE LastOf(_, _)
LastOf(m, n) == IF m.node[n].next = 0 THEN n ELSE LastOf(m, m.node[n].next)

RECURSIVE Chain(_, _)
Chain(m, n) == IF n = 0 THEN <<>> ELSE <<n>> \o Chain(m, m.node[n].next)

(* Mutant: the search for waiting nodes leaves out the first bucket. *)
MutWaiting(m) == FlattenSeq([b \in 1..Buckets - 1 |-> Chain(m, m.bucket[b + 1])])

Waiting(m) == FlattenSeq([b \in 1..Buckets |-> Chain(m, m.bucket[b])])

(* The slow way: as long as the parent of a waiting node is in the tree, attach. *)
ParentOf(m, n) == TnmMibFindNode(m, ByLabel(m.node[n].parentName), TRUE).node

RECURSIVE AttachWaiting(_)
AttachWaiting(m) ==
  With(SelectSeq(Waiting(m), LAMBDA n : ParentOf(m, n) # 0), LAMBDA ready :
    IF ready = <<>> THEN m ELSE AttachWaiting(BuildSubTree(m, ParentOf(m, ready[1]))))

(* The fast way: the parent of the last node of the list is in the tree already. *)
AttachList(m, list) ==
  With(ParentOf(m, LastOf(m, list)), LAMBDA anchor :
    IF anchor = 0 THEN HashNodeList(m, list) ELSE BuildSubTree(HashNodeList(m, list), anchor))

TnmMibAddNode(m, list) ==
  IF list = 0 THEN [m |-> m, ok |-> TRUE]
  ELSE With(AttachWaiting(AttachList(IF m.root = 0 THEN BuildTree(m, list) ELSE m, list)),
         LAMBDA done : [m |-> done, ok |-> Waiting(done) = <<>>])
=============================================================================
