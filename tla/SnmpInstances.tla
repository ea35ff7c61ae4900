--------------------------- MODULE SnmpInstances ---------------------------
(***************************************************************************)
(* The instances an SNMP agent serves (tnm/snmp/tnmSnmpInst.c): a tree     *)
(* with one node per sub-identifier, its children in a linked list.  A     *)
(* node is an instance when it has a syntax; its value is a Tcl variable,  *)
(* whose unset trace removes the node.  The other nodes lead to instances  *)
(* or carry bindings.                                                      *)
(***************************************************************************)
EXTENDS Integers, Sequences, SequencesExt, FiniteSets

CONSTANTS
    MibNodes,           \* the MIB: [oid, leaf, access, column, syntax] records
    Labels,             \* the OIDs instances and bindings are created for
    Vars,               \* Tcl variables
    MaxCreates          \* bounds the creations

ASSUME InstancesAssumption == \A m \in MibNodes : m.syntax # 0

VARIABLES
    instTree,           \* path -> node; empty until the first AddNode()
    traces,             \* the unset traces of each variable
    creates

instVars == <<instTree, traces, creates>>

noVar == ""

Node == [syntax |-> 0, tclVarName |-> noVar, kids |-> <<>>, bindings |-> {}]

Paths == DOMAIN instTree

---------------------------------------------------------------------------
(* The tree.                                                               *)

\* The new child put at the end of the list.
MutInsertChild(kids, subid) == Append(kids, subid)

\* A sub-identifier that is not in the list of children goes to the head or
\* behind the last child the search passes.
InsertChild(kids, subid) ==
    IF kids = <<>> \/ kids[1] > subid THEN <<subid>> \o kids
    ELSE LET stop == {i \in 1 .. Len(kids) : i = Len(kids) \/ kids[i + 1] >= subid}
             q == CHOOSE i \in stop : \A j \in stop : i <= j
         IN  SubSeq(kids, 1, q) \o <<subid>> \o SubSeq(kids, q + 1, Len(kids))

\* The nodes of the first i sub-identifiers exist.
RECURSIVE Grow(_, _, _)
Grow(tree, oid, i) ==
    LET path == SubSeq(oid, 1, i)
    IN  IF i = Len(oid) THEN tree
        ELSE IF oid[i + 1] \in ToSet(tree[path].kids) THEN Grow(tree, oid, i + 1)
        ELSE LET new == SubSeq(oid, 1, i + 1)
             IN  Grow([p \in DOMAIN tree \cup {new} |->
                         CASE p = new -> Node
                           [] p = path -> [tree[p] EXCEPT !.kids = InsertChild(@, oid[i + 1])]
                           [] OTHER -> tree[p]],
                      oid, i + 1)

\* The bindings of a node that exists are kept.
AddNode(tree, oid, syntax, var) ==
    LET root == IF tree = <<>> THEN <<1>> :> Node ELSE tree
        grown == Grow(root, oid, 1)
    IN  IF oid[1] # 1 \/ Len(oid) = 1 THEN root
        ELSE [grown EXCEPT ![oid].syntax = syntax, ![oid].tclVarName = var]

\* NULL is the empty path.
FindNode(tree, oid) ==
    IF oid[1] = 1 /\ Len(oid) > 1 /\ oid \in DOMAIN tree THEN oid ELSE <<>>

\* The walk through the children of a node, from the first that is not below
\* the next sub-identifier of the OID.  force is a static variable.
RECURSIVE FindNextNode(_, _, _, _, _)
RECURSIVE Walk(_, _, _, _, _)
Walk(tree, parent, kids, oid, force) ==
    IF kids = <<>> THEN [found |-> <<>>, force |-> force]
    ELSE LET p == Append(parent, Head(kids))
             node == tree[p]
             same == oid # <<>> /\ Head(kids) = oid[1]
             rest(f) == Walk(tree, parent, Tail(kids), oid, f)
             below == IF same
                      THEN FindNextNode(tree, p, node.kids, Tail(oid), force)
                      ELSE FindNextNode(tree, p, node.kids, <<>>, TRUE)
         IN  IF node.kids # <<>>
             THEN IF ~ same /\ node.syntax # 0 THEN [found |-> p, force |-> force]
                  ELSE IF below.found # <<>> THEN below ELSE rest(below.force)
             ELSE IF node.syntax # 0 /\ (~ same \/ force) THEN [found |-> p, force |-> force]
             ELSE rest(TRUE)

FindNextNode(tree, parent, kids, oid, force) ==
    Walk(tree, parent,
         IF oid = <<>> THEN kids ELSE SelectSeq(kids, LAMBDA k : k >= oid[1]),
         oid, force)

TnmSnmpFindNextNode(tree, oid) ==
    FindNextNode(tree, <<>>, IF tree = <<>> THEN <<>> ELSE <<1>>, oid, FALSE).found

\* The nodes one pass over a list of siblings frees: a node that is freed
\* shields its successor, and the first one is freed by its parent.
Freed(tree, parent, var) ==
    LET kids == tree[parent].kids
        match(i) == tree[Append(parent, kids[i])].tclVarName = var
        gone[i \in 1 .. Len(kids)] == match(i) /\ (i <= 2 \/ ~ gone[i - 1])
    IN  {Append(parent, kids[i]) : i \in {j \in 1 .. Len(kids) : gone[j]}}

\* The nodes below a freed node are not reachable any more.
RemoveNode(tree, var) ==
    LET freed == UNION {Freed(tree, p, var) : p \in DOMAIN tree}
        left == {p \in DOMAIN tree : ~ \E f \in freed : IsPrefix(f, p)}
    IN  [p \in left |-> [tree[p] EXCEPT !.kids =
                            SelectSeq(@, LAMBDA k : Append(p, k) \in left)]]

---------------------------------------------------------------------------
(* The operations.                                                         *)

InstInit ==
    /\ instTree = <<>>
    /\ traces = [v \in Vars |-> 0]
    /\ creates = 0

\* The deepest node of the MIB on the path of a label.
TnmMibFindNode(label) ==
    LET on == {m \in MibNodes : IsPrefix(m.oid, label)}
    IN  {m \in on : \A n \in on : Len(n.oid) <= Len(m.oid)}

Creatable(label, mib) ==
    LET instance == SubSeq(label, Len(mib.oid) + 1, Len(label))
    IN  /\ mib.leaf
        /\ instance # <<>>
        /\ mib.access # "not-accessible"
        /\ mib.column \/ instance = <<0>>

\* The creation of an instance; a label that is refused changes nothing.
TnmSnmpCreateNode(label, var) ==
    /\ creates < MaxCreates
    /\ \E mib \in TnmMibFindNode(label) :
         /\ Creatable(label, mib)
         /\ instTree' = AddNode(instTree, label, mib.syntax, var)
    /\ traces' = [traces EXCEPT ![var] = @ + 1]
    /\ creates' = creates + 1

\* Unsetting a variable runs DeleteNodeProc() once for each of its traces.
RECURSIVE Removals(_, _, _)
Removals(tree, var, n) == IF n = 0 THEN tree ELSE Removals(RemoveNode(tree, var), var, n - 1)

DeleteNodeProc(var) ==
    /\ traces[var] > 0
    /\ instTree' = Removals(instTree, var, traces[var])
    /\ traces' = [traces EXCEPT ![var] = 0]
    /\ UNCHANGED creates

\* A binding for an OID that has no node gets one.
TnmSnmpSetNodeBinding(oid, event) ==
    /\ creates < MaxCreates
    /\ LET tree == IF FindNode(instTree, oid) = <<>>
                   THEN AddNode(instTree, oid, 0, noVar) ELSE instTree
       IN  instTree' = IF oid \in DOMAIN tree
                       THEN [tree EXCEPT ![oid].bindings = @ \cup {event}] ELSE tree
    /\ creates' = creates + 1
    /\ UNCHANGED traces

InstNext ==
    \/ \E label \in Labels, var \in Vars : TnmSnmpCreateNode(label, var)
    \/ \E var \in Vars : DeleteNodeProc(var)
    \/ \E oid \in Labels \cup {m.oid : m \in MibNodes} : TnmSnmpSetNodeBinding(oid, "get")

---------------------------------------------------------------------------
(* Properties.                                                             *)

Before(a, b) ==
    \/ IsStrictPrefix(a, b)
    \/ \E i \in 1 .. Len(a) : /\ i <= Len(b) /\ a[i] < b[i]
                              /\ \A j \in 1 .. i - 1 : a[j] = b[j]

Instances == {p \in Paths : instTree[p].syntax # 0}

\* Whatever the order in which instances and bindings came and went, and
\* whatever OID is asked for, the search of a get-next finds the instance that
\* follows in lexicographic order, so a walk sees every instance once and ends:
\* FindNextNode(), with the flag it keeps between its calls, over the lists that
\* AddNode() and RemoveNode() maintain.
NextExact ==
    \A oid \in Labels \cup Paths \cup {m.oid : m \in MibNodes} \cup {<<0>>, <<2, 1>>} :
        LET after == {p \in Instances : Before(oid, p)}
            found == TnmSnmpFindNextNode(instTree, oid)
        IN  IF after = {} THEN found = <<>>
            ELSE found \in after /\ \A p \in after : p = found \/ Before(found, p)

\* An instance goes with its variable, also when several share one: each has a
\* trace of its own left that removes a node.
InstancesTraced ==
    \A v \in Vars : Cardinality({p \in Paths : instTree[p].tclVarName = v}) <= traces[v]

\* The view of the MIB is that of the variables: what a walk finds, and what goes.
ViewExact == NextExact /\ InstancesTraced
=============================================================================
