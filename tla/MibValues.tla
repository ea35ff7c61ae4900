----------------------------- MODULE MibValues -----------------------------
(***************************************************************************)
(* Values of MIB objects (tnm/snmp/tnmMibUtil.c): formatting and scanning  *)
(* with enumerations and DISPLAY-HINTs, and the instance identifiers of    *)
(* table rows, packed from index values and unpacked again.                *)
(*                                                                         *)
(* A value is [k, v]: an integer, octets, an object identifier, text or    *)
(* the label of an enumeration.  Text is a sequence of characters, where   *)
(* 0..15 are the digits and the letters up to F and anything above is      *)
(* neither.  A DISPLAY-HINT is the sequence of its fields, with the number *)
(* in front, the letter and the separator behind it; the hint of an        *)
(* integer has one field, whose number is the places behind the point.     *)
(***************************************************************************)
EXTENDS MibTree, Integers

CONSTANT HintOf(_)     \* the fields of a DISPLAY-HINT

Colon == 16
Minus == 17
Point == 18

IntVal(n)      == [k |-> "int", v |-> n]
OctetsVal(s)   == [k |-> "octets", v |-> s]
OidVal(o)      == [k |-> "oid", v |-> o]
TextVal(s)     == [k |-> "text", v |-> s]
LabelVal(name) == [k |-> "label", v |-> name]
NoValue     == [k |-> "none", v |-> 0]

None == "none"

-----------------------------------------------------------------------------
(* Numbers in text *)

RECURSIVE Digits(_, _)
Digits(n, base) == IF n < base THEN <<n>> ELSE Append(Digits(n \div base, base), n % base)

Padded(digits, width) == [i \in 1..(width - Len(digits)) |-> 0] \o digits

Base(kind) == CASE kind = "b" -> 2 [] kind = "o" -> 8 [] kind = "x" -> 16 [] OTHER -> 10

ValueOf(digits, base) == FoldLeft(LAMBDA acc, d : acc * base + d, 0, digits)

(* How many characters at the front of the text are digits of the base. *)
RECURSIVE Run(_, _)
Run(text, base) == IF text = <<>> \/ text[1] >= base THEN 0 ELSE 1 + Run(Tail(text), base)

Behind(s, n) == SubSeq(s, n + 1, Len(s))
Least(a, b) == IF a < b THEN a ELSE b

(* sscanf: an optional sign and the digits that follow. *)
Sscanf(text, base) ==
  LET minus == text # <<>> /\ text[1] = Minus
      body  == IF minus THEN Tail(text) ELSE text
      n     == ValueOf(SubSeq(body, 1, Run(body, base)), base)
  IN  [ok |-> Run(body, base) > 0, n |-> IF minus THEN -n ELSE n]

-----------------------------------------------------------------------------
(* Octet strings with a DISPLAY-HINT *)

(* One field: its octets as one number, or as characters.  A number that is zero has no
   binary digits, hexadecimal ones are padded to the size of the field. *)
FormatField(f, octets) ==
  LET n == ValueOf(octets, 256)
  IN  CASE f.kind = "a" -> octets
        [] f.kind = "b" -> IF n = 0 THEN <<>> ELSE Digits(n, 2)
        [] f.kind = "x" -> Padded(Digits(n, 16), 2 * f.pfx)
        [] OTHER -> Digits(n, Base(f.kind))

(* The last field is used again for what is left.  Whether octets are ASCII is tested up
   to the size of the field, counted from the start of the value. *)
RECURSIVE FormatFields(_, _, _, _, _)
FormatFields(octets, i, hint, j, out) ==
  LET f    == hint[j]
      n    == Least(f.pfx, Len(octets) - i)
      left == i + n < Len(octets)
      sep  == IF left THEN f.sep ELSE <<>>
      text == out \o FormatField(f, SubSeq(octets, i + 1, i + n)) \o sep
  IN  CASE j > Len(hint) \/ i >= Len(octets) -> TextVal(out)
        [] f.kind \notin {"a", "b", "d", "o", "x"} -> NoValue
        [] f.kind = "a" /\ \E k \in i..(n - 1) : octets[k + 1] >= 128 -> NoValue
        [] OTHER -> FormatFields(octets, i + n, hint, IF j = Len(hint) /\ left THEN j ELSE j + 1, text)

(* Octets with the hint "1x:" are printed as octet strings are anyway. *)
PlainOctets(hint) == Len(hint) = 1 /\ hint[1].kind = "x" /\ hint[1].pfx = 1 /\ hint[1].sep = <<Colon>>

FormatOctetTC(octets, hint) ==
  IF PlainOctets(hint) THEN NoValue ELSE FormatFields(octets, 0, hint, 1, <<>>)

(* The number of a field in as many octets as the field has, lost beyond them. *)
FieldOctets(n, width) == [i \in 1..width |-> (n \div (256 ^ (width - i))) % 256]

(* Behind every field one character that is no decimal digit is skipped, whether the hint
   has a separator there or not. *)
RECURSIVE ScanFields(_, _, _, _)
ScanFields(text, hint, j, out) ==
  LET f      == hint[j]
      number == Sscanf(text, Base(f.kind))
      taken  == IF f.kind = "a" THEN Least(f.pfx, Len(text)) ELSE Run(text, Base(f.kind))
      octets == CASE f.kind = "a" -> SubSeq(text, 1, taken)
                  [] f.kind # "a" /\ number.ok -> FieldOctets(number.n, f.pfx)
                  [] OTHER -> <<>>
      behind == Behind(text, taken)
      left   == IF behind # <<>> /\ behind[1] > 9 THEN Tail(behind) ELSE behind
  IN  CASE j > Len(hint) \/ text = <<>> -> OctetsVal(out)
        [] f.kind \notin {"a", "b", "d", "o", "x"} -> NoValue
        [] OTHER -> ScanFields(left, hint, IF j = Len(hint) /\ left # <<>> THEN j ELSE j + 1,
                               out \o octets)

(* Pairs of hexadecimal digits, each pair but the last followed by a colon or not. *)
RECURSIVE TnmHexDec(_, _)
TnmHexDec(text, out) ==
  LET pair == Len(text) >= 2 /\ text[1] < 16 /\ text[2] < 16
      rest == Behind(text, 2)
  IN  CASE text = <<>> -> OctetsVal(out)
        [] text # <<>> /\ ~pair -> NoValue
        [] OTHER -> TnmHexDec(IF rest # <<>> /\ rest[1] = Colon THEN Tail(rest) ELSE rest,
                              Append(out, 16 * text[1] + text[2]))

ScanOctetTC(text, hint) ==
  IF PlainOctets(hint) THEN TnmHexDec(text, <<>>) ELSE ScanFields(text, hint, 1, <<>>)

-----------------------------------------------------------------------------
(* Integers with a DISPLAY-HINT *)

Signed(n, text) == IF n < 0 THEN <<Minus>> \o text ELSE text
Magnitude(n) == IF n < 0 THEN -n ELSE n

FormatIntTC(n, hint) ==
  LET f      == hint[1]
      digits == Digits(Magnitude(n), 10)
      wide   == IF f.pfx >= Len(digits) THEN Padded(digits, f.pfx + 1) ELSE digits
      whole  == Len(wide) - f.pfx
  IN  CASE f.kind = "d" -> NoValue
        [] f.kind = "d-" -> TextVal(Signed(n, SubSeq(wide, 1, whole) \o <<Point>> \o Behind(wide, whole)))
        [] f.kind \in {"x", "o", "b"} -> TextVal(Signed(n, Digits(Magnitude(n), Base(f.kind))))
        [] OTHER -> NoValue

(* Text without a point counts as having one place less than none, so that it is multiplied
   once more than the hint says. *)
ScanIntTC(text, hint) ==
  LET f      == hint[1]
      minus  == text # <<>> /\ text[1] = Minus
      body   == IF minus THEN Tail(text) ELSE text
      whole  == Run(body, 10)
      point  == whole < Len(body) /\ body[whole + 1] = Point
      frac   == IF point THEN Run(Behind(body, whole + 1), 10) ELSE -1
      used   == whole + 1 + frac
      digits == SubSeq(body, 1, whole) \o (IF point THEN SubSeq(body, whole + 2, used) ELSE <<>>)
      n      == ValueOf(digits, 10)
      scaled == IF frac < f.pfx THEN n * 10 ^ (f.pfx - frac) ELSE n \div 10 ^ (frac - f.pfx)
      other  == IF f.kind = "b"
                THEN [ok |-> TRUE, n |-> LET b == ValueOf(SubSeq(body, 1, Run(body, 2)), 2)
                                         IN  IF minus THEN -b ELSE b]
                ELSE Sscanf(text, Base(f.kind))
  IN  CASE f.kind = "d-" -> IF used < Len(body) THEN NoValue
                            ELSE IntVal(IF minus THEN -scaled ELSE scaled)
        [] f.kind \in {"x", "o", "b"} -> IF other.ok THEN IntVal(other.n) ELSE NoValue
        [] OTHER -> NoValue

-----------------------------------------------------------------------------
(* Values.  t is the name of a type or NoName. *)

EnumsOf(m, t) == IF t # NoName /\ m.types[t].rest.kind = "enums" THEN m.types[t].rest.list ELSE <<>>
HasHint(m, t) == t # NoName /\ m.types[t].hint # NoName

(* The value as it is shown.  Of two enumeration labels for a number the last one wins. *)
TnmMibFormatValue(m, t, syntax, value) ==
  LET enums == SelectSeq(EnumsOf(m, t), LAMBDA e : e.value = value.v)
      hint  == HintOf(m.types[t].hint)
  IN  CASE syntax = "OBJECT IDENTIFIER" -> value
        [] syntax = "INTEGER" /\ EnumsOf(m, t) # <<>> ->
             IF enums = <<>> THEN NoValue ELSE LabelVal(Last(enums).label)
        [] syntax = "OCTET STRING" /\ EnumsOf(m, t) = <<>> /\ HasHint(m, t) ->
             FormatOctetTC(value.v, hint)
        [] syntax = "INTEGER" /\ EnumsOf(m, t) = <<>> /\ HasHint(m, t) -> FormatIntTC(value.v, hint)
        [] OTHER -> NoValue

OrElse(v, value) == IF v.k = "none" THEN value ELSE v
Formatted(m, t, syntax, value) == OrElse(TnmMibFormatValue(m, t, syntax, value), value)

(* A text that is no label of the enumeration is given to the hint, if there is one. *)
TnmMibScanValue(m, t, syntax, value) ==
  LET enums == SelectSeq(EnumsOf(m, t), LAMBDA e : e.label = value.v)
      hint  == HintOf(m.types[t].hint)
  IN  CASE syntax = "OBJECT IDENTIFIER" -> value
        [] value.k = "label" -> IF enums = <<>> THEN NoValue ELSE IntVal(enums[1].value)
        [] value.k = "text" /\ HasHint(m, t) /\ syntax = "OCTET STRING" -> ScanOctetTC(value.v, hint)
        [] value.k = "text" /\ HasHint(m, t) /\ syntax = "INTEGER" -> ScanIntTC(value.v, hint)
        [] OTHER -> NoValue

(* TnmMibFormat formats the values of objects, and of the leaves that have no macro. *)
TnmMibFormat(m, n, value) ==
  LET x == m.node[n]
  IN  IF x.macro = "OBJECT-TYPE" \/ (x.macro = "OBJECT IDENTIFIER" /\ x.child = 0)
      THEN Formatted(m, x.type, x.syntax, value)
      ELSE NoValue

TnmMibScan(m, n, value) ==
  IF n = 0 THEN NoValue ELSE TnmMibScanValue(m, m.node[n].type, m.node[n].syntax, value)

-----------------------------------------------------------------------------
(* The conversion of an index value to what its syntax needs.  A text of decimal digits is an
   integer, one of hexadecimal pairs is an octet string, whatever the hint makes of it. *)
TnmMibGetValue(m, syntax, value, t) ==
  LET number == value.k = "text" /\ value.v # <<>> /\ Run(value.v, 10) = Len(value.v)
      hex    == IF value.k = "text" THEN TnmHexDec(value.v, <<>>) ELSE NoValue
  IN  CASE syntax = "INTEGER" -> CASE value.k = "int" -> value
                                   [] number -> IntVal(ValueOf(value.v, 10))
                                   [] OTHER -> IF t = NoName THEN NoValue
                                               ELSE TnmMibScanValue(m, t, syntax, value)
        [] syntax = "OCTET STRING" -> CASE value.k = "octets" -> value
                                        [] hex.k = "octets" -> hex
                                        [] OTHER -> IF t = NoName THEN NoValue
                                                    ELSE TnmMibScanValue(m, t, syntax, value)
        [] syntax \in {"Gauge32", "TimeTicks", "Counter32"} ->
             IF value.k = "int" /\ value.v >= 0 THEN value ELSE NoValue
        [] syntax = "IpAddress" -> IF value.k = "octets" /\ Len(value.v) = 4 THEN value ELSE NoValue
        [] syntax = "OBJECT IDENTIFIER" -> IF value.k = "oid" THEN value ELSE NoValue

IndexSyntax(m, n) == IF m.node[n].type = NoName THEN m.node[n].syntax ELSE m.types[m.node[n].type].syntax

(* An index of fixed size counts as implied, from there on. *)
FixedSize(m, n) ==
  LET rest == m.types[m.node[n].type].rest
  IN  /\ IndexSyntax(m, n) \in {"OCTET STRING", "OBJECT IDENTIFIER"}
      /\ m.node[n].type # NoName
      /\ rest.kind = "size"
      /\ Len(rest.list) = 1
      /\ rest.list[1].min = rest.list[1].max


(* Only the last index goes without its length. *)
Bare(m, indexes, i, implied) ==
  /\ i = Len(indexes)
  /\ implied \/ \E j \in 1..i : FixedSize(m, indexes[j])

PackOne(m, indexes, i, implied, value) ==
  LET bare == Bare(m, indexes, i, implied)
  IN  CASE IndexSyntax(m, indexes[i]) \in {"OCTET STRING", "OBJECT IDENTIFIER"} ->
             IF bare THEN value.v ELSE <<Len(value.v)>> \o value.v
        [] IndexSyntax(m, indexes[i]) = "IpAddress" -> value.v
        [] OTHER -> <<value.v % Word>>

TnmMibPack(m, oid, values, implied, indexes) ==
  With([i \in DOMAIN indexes |->
          TnmMibGetValue(m, IndexSyntax(m, indexes[i]), values[i], m.node[indexes[i]].type)],
    LAMBDA got :
      IF Len(values) # Len(indexes) \/ \E i \in DOMAIN indexes : got[i].k = "none"
      THEN [ok |-> FALSE, oid |-> <<>>]
      ELSE [ok  |-> TRUE,
            oid |-> Value(TnmNewOidObj(
                      oid \o FlattenSeq([i \in DOMAIN indexes |->
                                           PackOne(m, indexes, i, implied, got[i])])))])

(* The value at the front of an instance identifier, and how long it is there. *)
UnpackOne(m, indexes, i, implied, inst) ==
  LET syntax  == IndexSyntax(m, indexes[i])
      bare    == Bare(m, indexes, i, implied)
      len     == CASE bare -> Len(inst) [] ~bare /\ inst # <<>> -> inst[1] [] OTHER -> Len(inst) + 1
      head    == IF bare THEN 0 ELSE 1
      body    == SubSeq(inst, head + 1, head + len)
      strung  == len <= Len(inst) - head /\ len <= MaxSize
      Nothing   == [value |-> NoValue, used |-> 0]
      Shown(v) == Formatted(m, m.node[indexes[i]].type, m.node[indexes[i]].syntax, v)
  IN  CASE syntax = "INTEGER" -> IF inst = <<>> THEN Nothing ELSE [value |-> Shown(IntVal(inst[1])), used |-> 1]
        [] syntax \in {"TimeTicks", "Gauge32"} ->
             IF inst = <<>> THEN Nothing ELSE [value |-> IntVal(inst[1]), used |-> 1]
        [] syntax = "IpAddress" ->
             IF Len(inst) < 4 THEN Nothing
             ELSE [value |-> OctetsVal([j \in 1..4 |-> inst[j] % 256]), used |-> 4]
        [] syntax = "OBJECT IDENTIFIER" ->
             IF strung THEN [value |-> OidVal(body), used |-> head + len] ELSE Nothing
        [] syntax = "OCTET STRING" ->
             IF strung THEN [value |-> Shown(OctetsVal([j \in DOMAIN body |-> body[j] % 256])),
                             used  |-> head + len]
             ELSE Nothing

RECURSIVE UnpackFrom(_, _, _, _, _, _)
UnpackFrom(m, indexes, i, implied, inst, values) ==
  IF i > Len(indexes) THEN [ok |-> inst = <<>>, values |-> values]
  ELSE With(UnpackOne(m, indexes, i, implied, inst), LAMBDA one :
         IF one.value.k = "none" THEN [ok |-> FALSE, values |-> values]
         ELSE UnpackFrom(m, indexes, i + 1, implied, Behind(inst, one.used),
                         Append(values, one.value)))

TnmMibUnpack(m, inst, implied, indexes) == UnpackFrom(m, indexes, 1, implied, inst, <<>>)
=============================================================================
