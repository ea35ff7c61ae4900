----------------------------- MODULE MibParser -----------------------------
(***************************************************************************)
(* The MIB parser (tnm/snmp/tnmMibParser.c) from the token on.             *)
(*                                                                         *)
(* A parser state s holds                                                  *)
(*   toks, pos   the tokens of the file and how many are read              *)
(*   m           the store of MibTree: types enter it while parsing        *)
(*   list        nodeList, the nodes read so far, newest first             *)
(*   x           the node that is being read                               *)
(*   name        the buffer for names that ParseFile shares with           *)
(*               ParseHeader and ParseASN1Type                             *)
(*   tt          tt_name, the name the next type assignment gets           *)
(*   typ         the type that a following restriction belongs to          *)
(*   module      tnmMibModuleName                                          *)
(*   in          IN_MIB                                                    *)
(*   syntax      what the function called last returned                    *)
(*   rest        the restriction read last                                 *)
(*   ok          no error so far                                           *)
(* A token is its keyword k with its text in s or its number in n.         *)
(***************************************************************************)
EXTENDS MibValues

CONSTANTS Capitalised(_),   \* a label with its first letter in upper case
          TrapsOf(_)        \* the label "<enterprise>Traps"

PrimitiveTypes == {"INTEGER", "OCTET STRING", "OBJECT IDENTIFIER", "IpAddress", "Counter32",
                   "Gauge32", "TimeTicks", "Opaque", "Counter64"}
Statuses == {"current", "obsolete", "deprecated"}
Numbers == {"NUMBER", "SIGNEDNUMBER", "HEXVALUE", "BINVALUE"}

-----------------------------------------------------------------------------
(* Tokens *)

EndOfFile == [k |-> "EOF", s |-> NoName, n |-> 0]

ReadKeyword(s) == IF s.pos < Len(s.toks) THEN s.toks[s.pos + 1] ELSE EndOfFile
Kind(s) == ReadKeyword(s).k
Step(s) == [s EXCEPT !.pos = @ + 1]
Fail(s) == [s EXCEPT !.ok = FALSE]
Returns(s, syntax) == [s EXCEPT !.syntax = syntax]

(* What is read behind something that was read without an error. *)
AndThen(s, P(_)) == IF s.ok THEN P(s) ELSE s

(* Read on until one of these keywords has been read; the end of the file is an error. *)
RECURSIVE SkipTo(_, _)
SkipTo(s, kinds) ==
  CASE Kind(s) \in kinds -> Step(s)
    [] Kind(s) = "EOF"   -> Fail(s)
    [] OTHER -> SkipTo(Step(s), kinds)

-----------------------------------------------------------------------------
(* Restrictions *)

NoRest == [kind |-> None, list |-> <<>>]

(* "label(number), ..." up to the closing bracket; an error keeps what has been read. *)
RECURSIVE ReadIntEnums(_, _)
ReadIntEnums(s, enums) ==
  LET open  == Step(s)
      value == Step(open)
      close == Step(value)
      more  == Append(enums, [label |-> ReadKeyword(s).s, value |-> ReadKeyword(value).n])
      Stop(at, read) == [Returns(Step(at), Kind(at)) EXCEPT !.rest = [kind |-> "enums", list |-> read]]
  IN  CASE Kind(open) # "(" -> Stop(open, enums)
        [] Kind(value) \notin {"NUMBER", "SIGNEDNUMBER"} -> Stop(value, enums)
        [] Kind(close) # ")" -> Stop(close, more)
        [] Kind(Step(close)) = "," -> ReadIntEnums(Step(Step(close)), more)
        [] OTHER -> Stop(Step(close), more)

(* Ranges enter the list in ascending order, each before the first one that begins at or
   above its end. *)
ScanRange(ranges, r) ==
  LET above == {i \in DOMAIN ranges : r.max <= ranges[i].min}
      at    == IF above = {} THEN Len(ranges) + 1 ELSE CHOOSE i \in above : \A j \in above : i <= j
  IN  InsertAt(ranges, at, r)

(* "min..max | ..." up to the closing parenthesis.  A range without an upper end is one
   number. A binary upper end overwrites the lower one, and the upper end is the one of
   the range before. *)
RECURSIVE ReadRange(_, _, _)
ReadRange(s, ranges, end) ==
  LET low   == ReadKeyword(s)
      sep   == Step(s)
      upto  == Kind(sep) = ".."
      high  == ReadKeyword(Step(sep))
      after == IF upto THEN Step(Step(sep)) ELSE sep
      bin   == upto /\ high.k = "BINVALUE"
      start == IF bin THEN high.n ELSE low.n
      max   == CASE ~upto -> start
                 [] upto /\ bin -> end
                 [] OTHER -> high.n
      more  == ScanRange(ranges, [min |-> start, max |-> max])
      Stop(at, read) == [Returns(Step(at), Kind(at)) EXCEPT !.rest = [kind |-> "range", list |-> read]]
  IN  CASE low.k \notin Numbers -> Stop(s, ranges)
        [] low.k \in Numbers /\ upto /\ high.k \notin Numbers -> Stop(Step(sep), ranges)
        [] OTHER -> IF Kind(after) = "|" THEN ReadRange(Step(after), more, max)
                    ELSE Stop(after, more)

(* Behind an opening parenthesis: a range, or the size of an octet string. *)
InParentheses(s) ==
  With(ReadRange(s, <<>>, 0), LAMBDA range :
    IF range.syntax # ")" THEN Fail([range EXCEPT !.rest = NoRest]) ELSE range)

Restricted(s, octets) ==
  CASE ~octets -> InParentheses(s)
    [] octets /\ Kind(s) = "SIZE" /\ Kind(Step(s)) = "(" ->
         With(InParentheses(Step(Step(s))), LAMBDA range :
           IF Kind(range) # ")" THEN Fail([Step(range) EXCEPT !.rest = NoRest]) ELSE Step(range))
    [] OTHER -> Fail([s EXCEPT !.rest = NoRest])

-----------------------------------------------------------------------------
(* Types *)

(* A type of the name that exists already is used as it is. *)
CreateType(s, name, syntax, hint, rest) ==
  LET kind == IF rest.kind = "range" /\ syntax \in {"OCTET STRING", "OBJECT IDENTIFIER"}
              THEN "size" ELSE rest.kind
  IN  [s EXCEPT !.m = TnmMibAddType(@, [name |-> name, module |-> s.module, syntax |-> syntax,
                                        hint |-> hint, rest |-> [rest EXCEPT !.kind = kind],
                                        macro |-> "TEXTUAL-CONVENTION", status |-> NoName])]

TypeNamed(s, name) == TnmMibFindType(s.m, NoName, name)

(* A type derived from another one takes over its hint and its restrictions, even if a
   type of this name existed before. *)
DeriveType(s, name, from, status) ==
  LET base == s.m.types[from]
      made == CreateType(s, name, base.syntax, NoName, NoRest)
  IN  [made EXCEPT !.m.types[name].hint = base.hint, !.m.types[name].rest = base.rest,
                   !.m.types[name].status = status]

(* STATUS and DESCRIPTION in front of the SYNTAX or the DISPLAY-HINT of a convention. *)
RECURSIVE ConventionClauses(_, _)
ConventionClauses(s, until) ==
  LET n == Step(s)
  IN  CASE Kind(s) \in until -> s
        [] Kind(s) = "EOF" -> Fail(s)
        [] Kind(s) = "STATUS" -> IF Kind(n) \in Statuses
                                 THEN ConventionClauses([Step(n) EXCEPT !.x.status = Kind(n)], until)
                                 ELSE Fail(n)
        [] Kind(s) = "DESCRIPTION" -> IF Kind(n) = "QUOTESTRING"
                                      THEN ConventionClauses(Step(n), until) ELSE Fail(n)
        [] OTHER -> ConventionClauses(n, until)

(* The base type of a convention, with its restriction.  The token behind a base type
   without a restriction is read as well: a label ends up in the buffer for names. *)
ConventionRest(s, octets) ==
  CASE Kind(s) = "(" -> [Returns(Restricted(Step(s), octets), "(") EXCEPT !.ok = TRUE]
    [] Kind(s) = "{" -> ReadIntEnums(Step(s), <<>>)
    [] OTHER -> [Returns(Step(s), Kind(s)) EXCEPT !.rest = NoRest, !.name = ReadKeyword(s).s]

ConventionSyntax(s, name, hint) ==
  With(ConventionRest(Step(s), Kind(s) = "OCTET STRING"), LAMBDA read :
    [CreateType(read, name, Kind(s), hint, read.rest) EXCEPT !.m.types[name].status = s.x.status])

(* A convention is of a base type, or of a type that exists; with a hint only the first. *)
Convention(s, name, hint, from) ==
  CASE Kind(s) # "LABEL" -> ConventionSyntax(s, name, hint)
    [] Kind(s) = "LABEL" /\ (from = NoName \/ hint # NoName) -> Returns(Step(s), None)
    [] OTHER -> Returns(DeriveType(Step(s), name, from, s.x.status), s.m.types[from].syntax)

Unread(s) == IF s.ok THEN s ELSE Returns([s EXCEPT !.ok = TRUE], None)

TextualConvention(s, name) ==
  Unread(AndThen(
    ConventionClauses([s EXCEPT !.x = TnmMibNewNode(name)], {"SYNTAX", "DISPLAYHINT"}),
    LAMBDA first :
      IF Kind(first) = "SYNTAX"
      THEN Convention(Step(first), name, NoName, TypeNamed(s, ReadKeyword(Step(first)).s))
      ELSE AndThen(ConventionClauses(Step(Step(first)), {"SYNTAX"}), LAMBDA second :
             Convention(Step(second), name, ReadKeyword(Step(first)).s, NoName))))

ParseASN1Type(s) ==
  LET t    == ReadKeyword(s)
      from == TypeNamed(s, t.s)
  IN  CASE t.k \in PrimitiveTypes -> Returns(Step(s), t.k)
        [] t.k = "SEQUENCE" -> Unread(Returns(SkipTo(Step(s), {"}"}), "SEQUENCE"))
        [] t.k = "TEXTUAL-CONVENTION" -> TextualConvention(Step(s), s.name)
        [] OTHER -> IF from = NoName THEN Returns(Step(s), None)
                    ELSE Returns(DeriveType(Step(s), s.name, from, NoName),
                                 s.m.types[from].syntax)

-----------------------------------------------------------------------------
(* Nodes *)

Push(s, x) == [s EXCEPT !.m.node = Append(@, [x EXCEPT !.next = s.list]),
                        !.list = Len(s.m.node) + 1]

AddNewNode(s, label, parentName, subid) ==
  Push(s, [TnmMibNewNode(label) EXCEPT !.parentName = parentName, !.module = s.module,
                                       !.subid = subid])

RECURSIVE Names(_, _)
Names(s, names) ==
  CASE Kind(s) = "}" -> [Step(s) EXCEPT !.x.index = names]
    [] Kind(s) = "," -> Names(Step(s), names)
    [] Kind(s) = "LABEL" -> Names(Step(s), Append(names, ReadKeyword(s).s))
    [] OTHER -> Fail(s)

ReadNameList(s) == IF Kind(s) = "{" THEN Names(Step(s), <<>>) ELSE Fail(s)

(* The position of a node, "{ iso org(3) dod(6) 1 }": every label but the first is a node
   of its own below the one before it, a number that has no label belongs to the node
   that is being read.  A second number in a row is again one below the last label. *)
Unset == 1000000

RootLabel(m, n) ==
  TnmMibGetName(m, [module |-> NoName, label |-> NoName, rest |-> <<Part(FALSE, Decimal(n))>>],
                TRUE).label

RECURSIVE SubIds(_, _, _)
SubIds(s, list, name) ==
  LET t     == ReadKeyword(s)
      close == Step(Step(s))
      First(label) == <<[label |-> NoName, parentName |-> label, subid |-> Unset]>>
      Child(label) == <<[label |-> label, parentName |-> name, subid |-> Unset]>>
      Numbered(l, n) == [l EXCEPT ![1].subid = n]
  IN  CASE t.k = "}" -> [s |-> Step(s), list |-> list]
        [] t.k = "LABEL" ->
             SubIds(Step(s), (IF list = <<>> THEN First(t.s) ELSE Child(t.s)) \o list, t.s)
        [] t.k = "(" /\ list # <<>> /\ Kind(Step(s)) = "NUMBER" /\ Kind(close) = ")" ->
             SubIds(Step(close), Numbered(list, ReadKeyword(Step(s)).n), name)
        [] t.k = "NUMBER" /\ list = <<>> ->
             With(RootLabel(s.m, t.n), LAMBDA root :
               IF root # NoName THEN SubIds(Step(s), First(root), root)
               ELSE [s |-> Fail(s), list |-> <<>>])
        [] t.k = "NUMBER" /\ list # <<>> ->
             SubIds(Step(s), Numbered(IF list[1].subid = Unset THEN list ELSE First(name) \o list,
                                      t.n), name)
        [] OTHER -> [s |-> Fail(s), list |-> <<>>]

ReadSubID(s) == IF Kind(s) = "{" THEN SubIds(Step(s), <<>>, NoName) ELSE [s |-> Fail(s), list |-> <<>>]

RECURSIVE Positions(_, _)
Positions(s, list) ==
  IF list = <<>> \/ list[1].subid = Unset
  THEN s
  ELSE Positions(IF list[1].label = NoName
                 THEN [s EXCEPT !.x.parentName = list[1].parentName, !.x.subid = list[1].subid]
                 ELSE AddNewNode(s, list[1].label, list[1].parentName, list[1].subid),
                 Tail(list))

ParseNodeList(s) ==
  With(ReadSubID(s), LAMBDA read :
    IF ~read.s.ok \/ read.list = <<>> THEN Fail(read.s) ELSE Positions(read.s, read.list))

-----------------------------------------------------------------------------
(* The clauses of a macro *)

AugmentsClause(s) ==
  IF Kind(s) = "{" /\ Kind(Step(s)) = "LABEL" /\ Kind(Step(Step(s))) = "}"
  THEN [Step(Step(Step(s))) EXCEPT !.x.index = <<ReadKeyword(Step(s)).s>>, !.x.augment = TRUE]
  ELSE Fail(s)

RECURSIVE IndexNames(_, _)
IndexNames(s, names) ==
  CASE Kind(s) = "}" -> [Step(s) EXCEPT !.x.index = names]
    [] Kind(s) = "," -> IndexNames(Step(s), names)
    [] Kind(s) = "IMPLIED" -> IF s.x.implied THEN Fail(s)
                              ELSE IndexNames([Step(s) EXCEPT !.x.implied = TRUE], names)
    [] Kind(s) = "LABEL" -> IndexNames(Step(s), Append(names, ReadKeyword(s).s))
    [] OTHER -> Fail(s)

IndexClause(s) == IF Kind(s) = "{" THEN IndexNames(Step(s), <<>>) ELSE Fail(s)

(* The last token in front of the closing bracket is the default value. *)
RECURSIVE Default(_)
Default(s) ==
  CASE Kind(s) = "}" -> Step(s)
    [] Kind(s) = "EOF" -> Fail(s)
    [] OTHER -> Default([Step(s) EXCEPT !.x.index = <<ReadKeyword(s).s>>])

DefvalClause(s) == IF Kind(s) = "{" THEN Default(Step(s)) ELSE Fail(s)

(* A trap belongs below the node 0 of its enterprise that the file has defined, or below a
   node made up for it. *)
EnterpriseClause(s) ==
  LET bracket == Kind(s) = "{"
      at      == IF bracket THEN Step(s) ELSE s
      label   == ReadKeyword(at).s
      zero    == SelectSeq(Chain(s.m, s.list), LAMBDA n : /\ s.m.node[n].subid = 0
                                                          /\ s.m.node[n].parentName = label)
      parent  == IF zero = <<>> THEN TrapsOf(label) ELSE s.m.node[zero[1]].label
      read    == [Step(at) EXCEPT !.x.parentName = parent, !.enterprise = label]
  IN  CASE Kind(at) # "LABEL" \/ (bracket /\ Kind(Step(at)) # "}") -> Fail(s)
        [] OTHER -> IF bracket THEN Step(read) ELSE read

Clause(k, s) ==
  CASE k = "STATUS" -> IF Kind(s) \in Statuses THEN [Step(s) EXCEPT !.x.status = Kind(s)] ELSE Fail(s)
    [] k = "DESCRIPTION" -> IF Kind(s) = "QUOTESTRING" THEN [Step(s) EXCEPT !.x.text = s.pos]
                            ELSE Fail(s)
    [] k \in {"OBJECTS", "VARIABLES"} -> ReadNameList(s)
    [] k = "AUGMENTS" -> AugmentsClause(s)
    [] k = "INDEX" -> IndexClause(s)
    [] k = "DEFVAL" -> DefvalClause(s)
    [] k = "ENTERPRISE" -> EnterpriseClause(s)

(* Everything up to "::=": the clauses the macro knows, the rest is skipped. Some macros
   take the first description only. *)
RECURSIVE Clauses(_, _)
Clauses(s, known) ==
  LET k       == Kind(s)
      handled == \/ k \in known
                 \/ k = "DESCRIPTION" /\ "FIRST DESCRIPTION" \in known /\ s.x.text = 0
  IN  CASE k = "::=" -> Step(s)
        [] k = "EOF" -> Fail(s)
        [] handled -> AndThen(Clause(k, Step(s)), LAMBDA read : Clauses(read, known))
        [] OTHER -> Clauses(Step(s), known)

NewNode(s) == [s EXCEPT !.x = TnmMibNewNode(s.name)]

(* The clauses that the parsers of the macros know. *)
ParseModuleCompliance == {"FIRST DESCRIPTION"}
ParseModuleIdentity   == {"FIRST DESCRIPTION"}
ParseNotificationType == {"STATUS", "OBJECTS", "DESCRIPTION"}
ParseCapabilitiesType == {"DESCRIPTION"}
ParseObjectIdentity   == {"STATUS", "DESCRIPTION"}
GroupClauses          == {"STATUS", "DESCRIPTION"}
ObjectClauses         == {"DESCRIPTION", "AUGMENTS", "INDEX", "DEFVAL"}

ParseObjectID(s) == IF Kind(s) = "::=" THEN ParseNodeList(NewNode(Step(s))) ELSE Fail(s)

(* A group begins with the list of its members. *)
Group(s, members) == IF Kind(s) # members THEN Fail(s) ELSE ReadNameList(NewNode(Step(s)))

ParseObjectGroup(s) == Group(s, "OBJECTS")
ParseNotificationGroup(s) == Group(s, "NOTIFICATIONS")

(* The number of a trap stands alone; its node 0 is added every time. *)
ParseTrapType(s) ==
  AndThen(Clauses([NewNode(s) EXCEPT !.enterprise = NoName],
                  {"DESCRIPTION", "VARIABLES", "ENTERPRISE"}), LAMBDA read :
    IF Kind(read) # "NUMBER" \/ read.enterprise = NoName THEN Fail(read)
    ELSE AddNewNode([Step(read) EXCEPT !.x.subid = ReadKeyword(read).n],
                    read.x.parentName, read.enterprise, 0))

(* The syntax of an object, up to its access clause.  An unknown type is taken for the row
   of a table; a restriction makes a type named after the object. *)
ObjectRest(s, octets) ==
  CASE Kind(s) = "{" -> ReadIntEnums(Step(s), <<>>)
    [] Kind(s) = "(" ->
         IF octets /\ ~(Kind(Step(s)) = "SIZE" /\ Kind(Step(Step(s))) = "(")
         THEN [Step(s) EXCEPT !.rest = NoRest]
         ELSE Restricted(Step(s), octets)
    [] OTHER -> [s EXCEPT !.rest = NoRest]

RestrictedObject(s, syntax, named) ==
  IF s.rest = NoRest THEN [s EXCEPT !.x.syntax = syntax]
  ELSE [CreateType(s, named, syntax, NoName, s.rest) EXCEPT
          !.x.syntax = syntax, !.x.type = named, !.m.types[named].macro = "OBJECT-TYPE"]

ObjectSyntax(s) ==
  LET t    == ReadKeyword(s)
      type == TypeNamed(s, t.s)
      next == Step(s)
  IN  CASE t.k = "ACCESS" -> Fail(s)
        [] t.k = "LABEL" ->
             [SkipTo(next, {"ACCESS"}) EXCEPT
                !.x.type = type,
                !.x.syntax = IF type = NoName THEN "SEQUENCE" ELSE s.m.types[type].syntax]
        [] t.k \in {"INTEGER", "OCTET STRING"} ->
             AndThen(ObjectRest(next, t.k = "OCTET STRING"), LAMBDA rest :
               AndThen(SkipTo(rest, {"ACCESS"}), LAMBDA access :
                 RestrictedObject(access, t.k, Capitalised(s.x.label))))
        [] OTHER -> [SkipTo(next, {"ACCESS"}) EXCEPT
                       !.x.syntax = IF t.k = "SEQUENCE" /\ Kind(next) = "OF" THEN "SEQUENCE OF"
                                    ELSE t.k]

Accesses == {"read-only", "read-create", "read-write", "write-only", "accessible-for-notify",
             "not-accessible"}

(* The old modes and states are replaced by new ones. *)
ObjectAccess(s) ==
  IF Kind(s) \in Accesses
  THEN [Step(s) EXCEPT !.x.access = IF Kind(s) = "write-only" THEN "read-write" ELSE Kind(s)]
  ELSE Fail(s)

ObjectStatus(s) ==
  LET k      == Kind(Step(s))
      status == CASE k = "mandatory" -> "current" [] k = "optional" -> "obsolete" [] OTHER -> k
      read   == [Step(Step(s)) EXCEPT !.x.status = status]
      own    == s.x.type # NoName /\ s.m.types[s.x.type].macro = "OBJECT-TYPE"
  IN  CASE Kind(s) # "STATUS" \/ k \notin Statuses \cup {"mandatory", "optional"} -> Fail(s)
        [] OTHER -> IF own THEN [read EXCEPT !.m.types[s.x.type].status = status] ELSE read

(* An object begins with its syntax, its access and its status. *)
ParseObjectType(s) ==
  IF Kind(s) # "SYNTAX" THEN Fail(s)
  ELSE AndThen(AndThen(ObjectSyntax(NewNode(Step(s))), ObjectAccess), ObjectStatus)

-----------------------------------------------------------------------------
(* Modules *)

(* "NAME DEFINITIONS ::= BEGIN", exports, imports; the token behind them is read too. *)
Skipped(s, k) == IF Kind(s) = k THEN SkipTo(s, {";"}) ELSE s

ParseHeader(s) ==
  IF Kind(s) # "::=" \/ Kind(Step(s)) # "BEGIN" THEN Fail(s)
  ELSE AndThen(Skipped(Step(Step(s)), "EXPORTS"), LAMBDA exports :
         AndThen(Skipped(exports, "IMPORTS"), LAMBDA imports :
           IF Kind(imports) = "EOF" THEN Fail(imports)
           ELSE [Step(imports) EXCEPT !.name = ReadKeyword(imports).s,
                                      !.tt = ReadKeyword(imports).s,
                                      !.module = s.name, !.in = TRUE]))

(* Where the file ends inside the brackets the code never returns; here it fails. *)
RECURSIVE SkipBrackets(_, _)
SkipBrackets(s, depth) ==
  CASE depth = 0 -> s
    [] depth > 0 /\ Kind(s) = "EOF" -> Fail(s)
    [] OTHER -> SkipBrackets(Step(s), CASE Kind(s) = "{" -> depth + 1
                                        [] Kind(s) = "}" -> depth - 1
                                        [] OTHER -> depth)

ParseOutside(t, s) ==
  CASE t.k = "DEFINITIONS" -> ParseHeader(s)
    [] t.k = "LABEL" -> [s EXCEPT !.name = t.s]
    [] t.k = "{" -> SkipBrackets(s, 1)
    [] OTHER -> Fail(s)

(* A type assignment.  tt is the name of the type unless ParseASN1Type made it itself. *)
ParseAssignment(s) ==
  With(ParseASN1Type(s), LAMBDA read :
    CASE read.syntax \in PrimitiveTypes ->
           [CreateType(read, read.tt, read.syntax, NoName, NoRest) EXCEPT
              !.m.types[read.tt].macro = "TYPE-ASSIGNMENT", !.typ = read.tt]
      [] read.syntax = "END" -> [read EXCEPT !.in = FALSE]
      [] OTHER -> read)

(* The restriction behind a type assignment. *)
ParseTypeRange(s) ==
  IF s.typ = NoName THEN s
  ELSE With(Restricted(s, s.m.types[s.typ].syntax = "OCTET STRING"), LAMBDA read :
         IF read.ok THEN [read EXCEPT !.m.types[s.typ].rest = read.rest]
         ELSE [read EXCEPT !.ok = TRUE])

ParseTypeEnums(s) ==
  With(ReadIntEnums(s, <<>>), LAMBDA read :
    IF read.syntax = "}" /\ s.typ # NoName
    THEN [read EXCEPT !.m.types[s.typ].rest = read.rest] ELSE read)

(* The node that a macro defines goes to the head of the list. *)
Macros == {"MODULE-COMPLIANCE", "MODULE-IDENTITY", "NOTIFICATION-TYPE", "NOTIFICATION-GROUP",
           "AGENT-CAPABILITIES", "TRAP-TYPE", "OBJECT-GROUP", "OBJECT-IDENTITY",
           "OBJECT IDENTIFIER", "OBJECT-TYPE"}

Begun(k, s) ==
  CASE k = "NOTIFICATION-GROUP" -> ParseNotificationGroup(s)
    [] k = "OBJECT-GROUP"       -> ParseObjectGroup(s)
    [] k = "OBJECT-TYPE"        -> ParseObjectType(s)
    [] OTHER                    -> NewNode(s)

Known(k) ==
  CASE k = "MODULE-COMPLIANCE"  -> ParseModuleCompliance
    [] k = "MODULE-IDENTITY"    -> ParseModuleIdentity
    [] k = "NOTIFICATION-TYPE"  -> ParseNotificationType
    [] k = "AGENT-CAPABILITIES" -> ParseCapabilitiesType
    [] k = "OBJECT-IDENTITY"    -> ParseObjectIdentity
    [] k = "OBJECT-TYPE"        -> ObjectClauses
    [] OTHER                    -> GroupClauses

ParseMacro(k, s) ==
  AndThen(CASE k = "TRAP-TYPE"         -> ParseTrapType(s)
            [] k = "OBJECT IDENTIFIER" -> ParseObjectID(s)
            [] OTHER -> AndThen(AndThen(Begun(k, s), LAMBDA begun : Clauses(begun, Known(k))),
                                ParseNodeList),
    LAMBDA read : Push(read, [read.x EXCEPT !.macro = k, !.module = s.module]))

ParseInside(t, s) ==
  CASE t.k = "END" -> [s EXCEPT !.in = FALSE]
    [] t.k = "::=" -> ParseAssignment(s)
    [] t.k = "LABEL" -> [s EXCEPT !.name = t.s, !.tt = t.s]
    [] t.k \in Macros -> ParseMacro(t.k, s)
    [] t.k = "(" -> ParseTypeRange(s)
    [] t.k = "{" -> ParseTypeEnums(s)
    [] OTHER -> Fail(s)

RECURSIVE ParseFile(_)
ParseFile(s) ==
  LET t    == ReadKeyword(s)
      next == IF s.in THEN ParseInside(t, Step(s)) ELSE ParseOutside(t, Step(s))
  IN  CASE ~s.ok -> s
        [] s.ok /\ t.k = "EOF" -> IF s.in THEN Fail(s) ELSE s
        [] OTHER -> ParseFile(next)

(* A file whose text is no MIB adds the types in front of the error and no node.  A file
   with a node that finds no parent adds the nodes that do, but has not been loaded. *)
Parsed(m, s) ==
  IF s.ok /\ s.list # 0 THEN TnmMibAddNode(s.m, s.list)
  ELSE [m  |-> [m EXCEPT !.types = s.m.types, !.qtypes = s.m.qtypes],
        ok |-> DOMAIN s.m.qtypes # DOMAIN m.qtypes]

TnmMibParse(m, toks) ==
  Parsed(m, ParseFile([toks |-> toks, pos |-> 0, m |-> m, list |-> 0,
                       x |-> TnmMibNewNode(NoName), name |-> NoName, tt |-> NoName,
                       typ |-> NoName, module |-> NoName, in |-> FALSE, syntax |-> None,
                       rest |-> NoRest, enterprise |-> NoName, ok |-> TRUE]))
=============================================================================
