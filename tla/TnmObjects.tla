---------------------------- MODULE TnmObjects ----------------------------
(***************************************************************************)
(* The value types Tnm adds to Tcl (tnm/generic/tnmObj.c): 64 and 32 bit   *)
(* unsigned numbers, octet strings and IP addresses.  A Tcl value has a    *)
(* text, an internal representation of one type, or both; a read as        *)
(* another type replaces the representation and keeps the text, a write    *)
(* drops the text, which is printed again when somebody asks for it.  Host *)
(* names are resolved once and remembered for the life of the process.     *)
(*                                                                         *)
(* A text is a sequence of characters: 0 .. 15 the hexadecimal digits,     *)
(* then the characters named below.  A representation is a sequence: one   *)
(* number, the octets, or the four octets of an address.                   *)
(***************************************************************************)
EXTENDS Integers, Sequences, SequencesExt, FiniteSets

CONSTANTS
    ObjTexts,           \* texts a script gives to a value
    ObjValues,          \* [type -> representations the library stores]
    ObjHosts,           \* texts that are names of hosts
    ObjAddresses,       \* addresses the resolver may answer
    Max32,              \* the largest 32 bit unsigned number
    Max64               \* the largest 64 bit unsigned number

ASSUME ObjAssumption == Max32 \in Nat /\ Max64 \in Nat /\ Max32 < Max64

VARIABLES
    objs,               \* the values, unshared Tcl objects
    hostTable,          \* names resolved before; <<>> for the others
    resolver,           \* what the resolver would answer now
    objBlocks           \* blocks of memory held by representations

objVars == <<objs, hostTable, resolver, objBlocks>>

CharColon == 16
CharMinus == 17
CharPoint == 18
CharBlank == 19
CharX     == 20         \* a letter that is not a hexadecimal digit

Slots == 1 .. 2
Allocating == {"u64", "octets"}

----------------------------------------------------------------------------
(* Reading numbers, as the C library does. *)

After(text, n) == SubSeq(text, n + 1, Len(text))

(* The number of characters at the start that are digits of the base. *)
DigitRun(text, base) ==
    CHOOSE n \in 0 .. Len(text) :
        /\ \A i \in 1 .. n : text[i] < base
        /\ n < Len(text) => text[n + 1] >= base

NumberOf(digits, base) ==
    FoldLeft(LAMBDA n, d : base * n + d, 0, digits)

(* strtoul() with base 0: a leading 0x or 0 chooses the base. *)
strtoul(text) ==
    LET hex == Len(text) > 2 /\ text[1] = 0 /\ text[2] = CharX /\ text[3] < 16
        skip == IF hex THEN 2 ELSE 0
        base == IF hex THEN 16
                ELSE IF text # <<>> /\ text[1] = 0 THEN 8 ELSE 10
        n == DigitRun(After(text, skip), base)
    IN  [value |-> NumberOf(SubSeq(text, skip + 1, skip + n), base),
         used |-> skip + n]

Blanks(text) ==
    CHOOSE n \in 0 .. Len(text) :
        /\ \A i \in 1 .. n : text[i] = CharBlank
        /\ n < Len(text) => text[n + 1] # CharBlank

ObjRefused == [ok |-> FALSE, rep |-> <<>>]
ObjRead(rep) == [ok |-> TRUE, rep |-> rep]

(* A numeric prefix is enough, and a number too large is the largest one. *)
SetUnsigned64FromAny(text) ==
    LET t == After(text, Blanks(text))
        n == DigitRun(t, 10)
        v == NumberOf(SubSeq(t, 1, n), 10)
    IN  IF n = 0 THEN ObjRefused
        ELSE ObjRead(<<IF v > Max64 THEN Max64 ELSE v>>)

(* The unsigned long is cut to 32 bits.  The test for "no digits" compares *)
(* with the start of the blanks, so that a text of blanks only is a zero.  *)
SetUnsigned32FromAny(text) ==
    LET skip == Blanks(text)
        t == After(text, skip)
        number == strtoul(t)
        tail == After(t, number.used)
    IN  IF \/ t # <<>> /\ t[1] = CharMinus
           \/ skip + number.used = 0
           \/ number.value > Max64                      \* ERANGE
           \/ Blanks(tail) # Len(tail)
          THEN ObjRefused
          ELSE ObjRead(<<number.value % (Max32 + 1)>>)

(* TnmHexDec(): pairs of digits; the colon behind a pair may be missing.   *)
HexPairs[text \in Seq(0 .. CharX)] ==
    IF text = <<>> THEN ObjRead(<<>>)
    ELSE IF Len(text) = 1 \/ text[1] > 15 \/ text[2] > 15 THEN ObjRefused
    ELSE LET behind == After(text, 2)
             next == IF behind # <<>> /\ behind[1] = CharColon
                       THEN Tail(behind) ELSE behind
             rest == HexPairs[next]
         IN  IF rest.ok THEN ObjRead(<<16 * text[1] + text[2]>> \o rest.rep)
                        ELSE ObjRefused

SetOctetStringFromAny(text) == HexPairs[text]

----------------------------------------------------------------------------
(* Addresses and host names. *)

Alnum(c) == c \in 0 .. 15 \cup {CharX}
Alpha(c) == c \in 10 .. 15 \cup {CharX}
Dots(text) == Cardinality({i \in DOMAIN text : text[i] = CharPoint})

TnmValidateIpHostName(text) ==
    /\ text # <<>> /\ Alnum(text[1])
    /\ \A i \in DOMAIN text : Alnum(text[i]) \/ text[i] \in {CharMinus, CharPoint}
    /\ text[Len(text)] # CharMinus
    /\ (\E i \in DOMAIN text : Alpha(text[i])) \/ Dots(text) # 3

(* The texts between the dots. *)
Components(text) ==
    LET dots == {i \in DOMAIN text : text[i] = CharPoint}
        ends == SetToSortSeq(dots \cup {Len(text) + 1}, <)
    IN  [k \in DOMAIN ends |->
            SubSeq(text, IF k = 1 THEN 1 ELSE ends[k - 1] + 1, ends[k] - 1)]

TnmValidateIpAddress(text) ==
    /\ \A i \in DOMAIN text : text[i] < 10 \/ text[i] = CharPoint
    /\ Dots(text) = 3
    /\ \A k \in DOMAIN Components(text) :
           NumberOf(Components(text)[k], 10) <= 255

(* inet_addr(): unlike the validation, it reads a component as C does. *)
inet_addr(text) ==
    LET parts == Components(text)
        number == [k \in DOMAIN parts |-> strtoul(parts[k])]
    IN  IF \E k \in DOMAIN parts :
               parts[k] = <<>> \/ number[k].used # Len(parts[k])
          THEN ObjRefused
          ELSE ObjRead([k \in DOMAIN parts |-> number[k].value])

(* The address of a text, given the names resolved so far. *)
TnmSetIPAddress(text, known) ==
    IF TnmValidateIpHostName(text)
      THEN IF text \in ObjHosts /\ known[text] # <<>>
             THEN ObjRead(known[text]) ELSE ObjRefused
    ELSE IF TnmValidateIpAddress(text) THEN inet_addr(text)
    ELSE ObjRefused

(* A name asked for the first time is resolved, and kept. *)
Resolved(text) ==
    IF text \in ObjHosts /\ TnmValidateIpHostName(text) /\ hostTable[text] = <<>>
      THEN [hostTable EXCEPT ![text] = resolver[text]]
      ELSE hostTable

SetFromAny(type, text, known) ==
    CASE type = "u64" -> SetUnsigned64FromAny(text)
      [] type = "u32" -> SetUnsigned32FromAny(text)
      [] type = "octets" -> SetOctetStringFromAny(text)
      [] type = "ip" -> TnmSetIPAddress(text, known)

----------------------------------------------------------------------------
(* Printing. *)

DecimalOf[n \in Nat] ==
    IF n < 10 THEN <<n>> ELSE Append(DecimalOf[n \div 10], n % 10)

TnmHexEnc(octets) ==
    FlattenSeq([i \in DOMAIN octets |->
        <<octets[i] \div 16, octets[i] % 16>>
            \o IF i < Len(octets) THEN <<CharColon>> ELSE <<>>])

inet_ntoa(rep) ==
    FlattenSeq([i \in DOMAIN rep |->
        DecimalOf[rep[i]] \o IF i < Len(rep) THEN <<CharPoint>> ELSE <<>>])

UpdateStringOfUnsigned64(rep) == DecimalOf[rep[1]]
UpdateStringOfUnsigned32(rep) == DecimalOf[rep[1]]
UpdateStringOfOctetString(rep) == TnmHexEnc(rep)
UpdateStringOfIpAddress(rep) == inet_ntoa(rep)

UpdateStringOf(o) ==
    CASE o.type = "u64" -> UpdateStringOfUnsigned64(o.rep)
      [] o.type = "u32" -> UpdateStringOfUnsigned32(o.rep)
      [] o.type = "octets" -> UpdateStringOfOctetString(o.rep)
      [] o.type = "ip" -> UpdateStringOfIpAddress(o.rep)

(* Tcl_GetString() *)
WithText(o) ==
    IF o.has THEN o ELSE [o EXCEPT !.has = TRUE, !.text = UpdateStringOf(o)]

----------------------------------------------------------------------------
(* Operations on a value.  A representation of an allocating type is freed *)
(* by the operation that replaces it.                                      *)

Held(type) == IF type \in Allocating THEN 1 ELSE 0

(* Mutant: the text of before stays. *)
MutStored(o, type, rep) == [o EXCEPT !.type = type, !.rep = rep]

(* Tcl_InvalidateStringRep() and the new representation. *)
Stored(o, type, rep) == [has |-> FALSE, text |-> <<>>, type |-> type, rep |-> rep]

StoreObj(s, type, rep) ==
    /\ objs' = [objs EXCEPT ![s] = Stored(objs[s], type, rep)]
    /\ objBlocks' = objBlocks - Held(objs[s].type) + Held(type)
    /\ UNCHANGED <<hostTable, resolver>>

TnmSetUnsigned64Obj(s, rep) == StoreObj(s, "u64", rep)
TnmSetUnsigned32Obj(s, rep) == StoreObj(s, "u32", rep)
TnmSetOctetStringObj(s, rep) == StoreObj(s, "octets", rep)
TnmSetIpAddressObj(s, rep) == StoreObj(s, "ip", rep)

(* A new value takes the place of the one in the slot, which is released. *)
Released(s) == [objs EXCEPT ![s] = [has |-> TRUE, text |-> <<>>,
                                    type |-> "none", rep |-> <<>>]]

NewObj(s, type, rep) ==
    /\ objs' = [Released(s) EXCEPT ![s] = Stored(@, type, rep)]
    /\ objBlocks' = objBlocks - Held(objs[s].type) + Held(type)
    /\ UNCHANGED <<hostTable, resolver>>

TnmNewUnsigned64Obj(s, rep) == NewObj(s, "u64", rep)
TnmNewUnsigned32Obj(s, rep) == NewObj(s, "u32", rep)
TnmNewOctetStringObj(s, rep) == NewObj(s, "octets", rep)
TnmNewIpAddressObj(s, rep) == NewObj(s, "ip", rep)

Tcl_NewStringObj(s, text) ==
    /\ objs' = [Released(s) EXCEPT ![s].text = text]
    /\ objBlocks' = objBlocks - Held(objs[s].type)
    /\ UNCHANGED <<hostTable, resolver>>

(* The text is made first, whether or not it can be read. *)
GetFromObj(s, type) ==
    LET o == WithText(objs[s])
        known == IF type = "ip" THEN Resolved(o.text) ELSE hostTable
        read == SetFromAny(type, o.text, known)
    IN  /\ objs[s].type # type
        /\ hostTable' = known
        /\ IF read.ok
             THEN /\ objs' = [objs EXCEPT ![s] = [o EXCEPT !.type = type,
                                                          !.rep = read.rep]]
                  /\ objBlocks' = objBlocks - Held(o.type) + Held(type)
             ELSE /\ objs' = [objs EXCEPT ![s] = o]
                  /\ UNCHANGED objBlocks
        /\ UNCHANGED resolver

TnmGetUnsigned64FromObj(s) == GetFromObj(s, "u64")
TnmGetUnsigned32FromObj(s) == GetFromObj(s, "u32")
TnmGetOctetStringFromObj(s) == GetFromObj(s, "octets")
TnmGetIpAddressFromObj(s) == GetFromObj(s, "ip")

Tcl_GetString(s) ==
    /\ objs' = [objs EXCEPT ![s] = WithText(@)]
    /\ UNCHANGED <<hostTable, resolver, objBlocks>>

(* Tcl_DuplicateObj() with the Dup...InternalRep() of the type. *)
DupInternalRep(s, t) ==
    /\ s # t
    /\ objs' = [objs EXCEPT ![t] = objs[s]]
    /\ objBlocks' = objBlocks - Held(objs[t].type) + Held(objs[s].type)
    /\ UNCHANGED <<hostTable, resolver>>

ResolverChanges ==
    /\ \E name \in ObjHosts, a \in ObjAddresses \cup {<<>>} :
          resolver' = [resolver EXCEPT ![name] = a]
    /\ UNCHANGED <<objs, hostTable, objBlocks>>

ObjInit ==
    /\ objs = [s \in Slots |-> [has |-> TRUE, text |-> <<>>, type |-> "none",
                                rep |-> <<>>]]
    /\ hostTable = [n \in ObjHosts |-> <<>>]
    /\ resolver = [n \in ObjHosts |-> <<>>]
    /\ objBlocks = 0

ObjNext ==
    \/ \E s \in Slots :
         \/ \E v \in ObjValues["u64"] :
                TnmNewUnsigned64Obj(s, v) \/ TnmSetUnsigned64Obj(s, v)
         \/ \E v \in ObjValues["u32"] :
                TnmNewUnsigned32Obj(s, v) \/ TnmSetUnsigned32Obj(s, v)
         \/ \E v \in ObjValues["octets"] :
                TnmNewOctetStringObj(s, v) \/ TnmSetOctetStringObj(s, v)
         \/ \E v \in ObjValues["ip"] :
                TnmNewIpAddressObj(s, v) \/ TnmSetIpAddressObj(s, v)
         \/ \E text \in ObjTexts : Tcl_NewStringObj(s, text)
         \/ TnmGetUnsigned64FromObj(s) \/ TnmGetUnsigned32FromObj(s)
         \/ TnmGetOctetStringFromObj(s) \/ TnmGetIpAddressFromObj(s)
         \/ Tcl_GetString(s)
         \/ \E t \in Slots : DupInternalRep(s, t)
    \/ ResolverChanges

----------------------------------------------------------------------------
(* Whatever a value was read as, written to or copied from before, its two *)
(* faces agree: reading its text as the type of its representation gives   *)
(* that representation.  So every value survives being printed and read    *)
(* again, and a host keeps its address for as long as the process lives.   *)
(* The memory of the representations is exactly what the values in use     *)
(* hold.                                                                   *)
FacesAgree ==
    /\ \A s \in Slots :
          LET o == objs[s]
          IN  o.type # "none" =>
                SetFromAny(o.type, WithText(o).text, hostTable) = ObjRead(o.rep)
    /\ objBlocks = Cardinality({s \in Slots : objs[s].type \in Allocating})
=============================================================================
