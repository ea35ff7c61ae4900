-------------------------------- MODULE Ber --------------------------------
(***************************************************************************)
(* The BER encoding of Tnm (tnm/snmp/tnmAsn1.c).  A byte has Base values,  *)
(* an int is four bytes and a group of a sub-identifier carries all bits   *)
(* of a byte but one, so that every boundary of the code (the short and    *)
(* the long length, the sign byte, the 35 bits that do not fit 32) occurs  *)
(* with small numbers.                                                     *)
(*                                                                         *)
(* A BER stream being written is its bytes, or Full when the buffer was    *)
(* exceeded; one being read is the packet and a reader: the position of    *)
(* the next byte, the last value, and whether the last read succeeded.     *)
(***************************************************************************)
EXTENDS Integers, Sequences, SequencesExt

CONSTANTS
    Base,               \* the number of values of a byte (256 in the code)
    BufferSize,         \* TNM_SNMP_MAXSIZE
    MaxOid              \* TNM_OID_MAX_SIZE

ASSUME BerAssumption ==
    /\ Base \in Nat /\ Base >= 4 /\ Base % 2 = 0
    /\ BufferSize \in Nat /\ BufferSize < Base * Base

Half == Base \div 2
IntBytes == 4
IntValues == Base * Base * Base * Base      \* 2^32 in the code

ASN1_INTEGER == 2
ASN1_OCTET_STRING == 4
ASN1_NULL == 5
ASN1_OBJECT_IDENTIFIER == 6
ASN1_SEQUENCE == 48
ASN1_IPADDRESS == 64
ASN1_COUNTER32 == 65
ASN1_GAUGE32 == 66
ASN1_TIMETICKS == 67
ASN1_OPAQUE == 68
ASN1_COUNTER64 == 70
ASN1_NO_SUCH_OBJECT == 128
ASN1_NO_SUCH_INSTANCE == 129
ASN1_END_OF_MIB_VIEW == 130

Exceptions == {ASN1_NO_SUCH_OBJECT, ASN1_NO_SUCH_INSTANCE, ASN1_END_OF_MIB_VIEW}

\* The n digits of v in a base, most significant first.
Digits(v, base, n) ==
    LET pow[i \in 0 .. n] == IF i = 0 THEN 1 ELSE base * pow[i - 1]
    IN  [i \in 1 .. n |-> (v \div pow[n - i]) % base]

Value(ds, base) ==
    LET val[i \in 0 .. Len(ds)] == IF i = 0 THEN 0 ELSE base * val[i - 1] + ds[i]
    IN  val[Len(ds)]

\* The digits without leading zeros.
RECURSIVE Significant(_)
Significant(ds) == IF ds = <<>> \/ Head(ds) # 0 THEN ds ELSE Significant(Tail(ds))

\* v as a signed int.
AsInt(v) == IF v % IntValues < IntValues \div 2
            THEN v % IntValues ELSE (v % IntValues) - IntValues

---------------------------------------------------------------------------
(* Writing.                                                                *)

Full == <<-1>>          \* NULL

TnmBerEncByte(ber, byte) ==
    IF ber = Full \/ Len(ber) >= BufferSize THEN Full ELSE Append(ber, byte)

\* TnmBerEncByte for each of the bytes.
EncBytes(ber, bytes) ==
    IF ber = Full \/ Len(ber) + Len(bytes) > BufferSize THEN Full ELSE ber \o bytes

\* The bytes of a long length; all but the last two are written as zero.
LowBytes(ds) == [i \in 1 .. Len(ds) |-> IF Len(ds) - i > 1 THEN 0 ELSE ds[i]]
LengthBytes(length) == LowBytes(Significant(Digits(length, Base, IntBytes)))

\* The byte at the position was reserved for the length; a long one moves the
\* bytes behind it.
EncLongLength(ber, position, long) ==
    IF Len(ber) + Len(long) >= BufferSize THEN Full
    ELSE SubSeq(ber, 1, position - 1) \o <<Half + Len(long)>> \o long
           \o SubSeq(ber, position + 1, Len(ber))

TnmBerEncLength(ber, position, length) ==
    CASE ber = Full -> Full
      [] ber # Full /\ length < Half -> [ber EXCEPT ![position] = length]
      [] ber # Full /\ length >= Half ->
            EncLongLength(ber, position, LengthBytes(length))

\* A token is the position of the byte reserved for the length.
TnmBerEncSequenceStart(ber, tag) == TnmBerEncByte(TnmBerEncByte(ber, tag), 0)

TnmBerEncSequenceEnd(ber, token) ==
    IF ber = Full THEN Full ELSE TnmBerEncLength(ber, token, Len(ber) - token)

\* The leading bytes a two's complement number does not need.
RECURSIVE Shorten(_)
Shorten(ds) ==
    IF Len(ds) > 1 /\ \/ ds[1] = 0 /\ ds[2] < Half
                      \/ ds[1] = Base - 1 /\ ds[2] >= Half
    THEN Shorten(Tail(ds)) ELSE ds

EncContents(start, bytes) ==
    TnmBerEncLength(EncBytes(start, bytes), Len(start), Len(bytes))

Primitive(ber, tag, bytes) == EncContents(TnmBerEncSequenceStart(ber, tag), bytes)


TnmBerEncInt(ber, tag, value) ==
    Primitive(ber, tag, Shorten(Digits(value % IntValues, Base, IntBytes)))

\* The value is given by its bytes; leading zeros are not written, so zero is
\* written without any.
TnmBerEncUnsigned64(ber, value) == Primitive(ber, ASN1_COUNTER64, Significant(value))

\* A sub-identifier in groups, each but the last with the top bit set.
Groups(ds) == [i \in 1 .. Len(ds) |-> IF i < Len(ds) THEN ds[i] + Half ELSE ds[i]]
SubId(v) == Groups(IF v = 0 THEN <<0>> ELSE Significant(Digits(v, Half, 6)))

TnmBerEncOID(ber, oid) ==
    IF Len(oid) < 2 \/ oid[1] > 2 THEN Full
    ELSE Primitive(ber, ASN1_OBJECT_IDENTIFIER,
                   FlattenSeq([i \in 1 .. Len(oid) - 1 |->
                       SubId(IF i = 1 THEN oid[2] + oid[1] * 40 ELSE oid[i + 1])]))

TnmBerEncOctetString(ber, tag, octets) == Primitive(ber, tag, octets)

TnmBerEncNull(ber, tag) == TnmBerEncByte(TnmBerEncByte(ber, tag), 0)

---------------------------------------------------------------------------
(* Reading: p is the packet and r the reader.                              *)

TnmBerCreate == [ok |-> TRUE, at |-> 1, v |-> 0]

TnmBerDecDone(p, r) == r.at > Len(p)

Refuse(r) == [r EXCEPT !.ok = FALSE]
Read(r, n, v) == [ok |-> TRUE, at |-> r.at + n, v |-> v]

\* What is done after a read that succeeded.
Then(r, F(_)) == IF r.ok THEN F(r) ELSE r

TnmBerDecPeek(p, r) ==
    IF ~ r.ok \/ TnmBerDecDone(p, r) THEN Refuse(r) ELSE Read(r, 0, p[r.at])

TnmBerDecByte(p, r) ==
    IF ~ r.ok \/ TnmBerDecDone(p, r) THEN Refuse(r) ELSE Read(r, 1, p[r.at])

\* n bytes as a sequence.
DecBytes(p, r, n) ==
    IF ~ r.ok \/ r.at + n - 1 > Len(p) THEN Refuse(r)
    ELSE Read(r, n, SubSeq(p, r.at, r.at + n - 1))

TnmBerDecLength(p, r) ==
    Then(TnmBerDecByte(p, r), LAMBDA b :
        IF b.v < Half THEN b
        ELSE Then(DecBytes(p, b, b.v - Half), LAMBDA long :
            IF \/ \E i \in 1 .. Len(long.v) - IntBytes : long.v[i] # 0
               \/ Value(long.v, Base) >= IntValues \div 2
            THEN Refuse(r) ELSE [long EXCEPT !.v = Value(@, Base)]))

\* The tag and the length.
Header(p, r, tag) ==
    Then(TnmBerDecByte(p, r), LAMBDA b :
        IF b.v = tag THEN TnmBerDecLength(p, b) ELSE Refuse(b))

TnmBerDecSequenceStart(p, r, tag) == Header(p, r, tag)

\* start is the reader the start of the sequence returned.
TnmBerDecSequenceEnd(r, start) ==
    IF r.ok /\ r.at - start.at = start.v THEN r ELSE Refuse(r)

\* The bytes of a number, the first of which tells its sign.
IntOf(bytes, tag) ==
    CASE tag # ASN1_INTEGER -> Value(bytes, Base) % IntValues
      [] tag = ASN1_INTEGER /\ bytes[1] >= Half /\ Len(bytes) < IntBytes ->
            AsInt(Value(bytes, Base) - Base ^ Len(bytes))
      [] OTHER -> AsInt(Value(bytes, Base))

TnmBerDecInt(p, r, tag) ==
    Then(Header(p, r, tag), LAMBDA h :
        CASE h.v = 0 -> Read(h, 0, 0)
          [] h.v # 0 /\ TnmBerDecDone(p, h) -> Refuse(h)
          [] h.v # 0 /\ ~ TnmBerDecDone(p, h) ->
                IF h.v > IntBytes + (IF p[h.at] = 0 THEN 1 ELSE 0) THEN Refuse(h)
                ELSE Then(DecBytes(p, h, h.v), LAMBDA bytes :
                         [bytes EXCEPT !.v = IntOf(@, tag)]))

\* The value is left as its bytes, without leading zeros.
TnmBerDecUnsigned64(p, r) ==
    Then(Header(p, r, ASN1_COUNTER64), LAMBDA h :
        IF h.v - 1 > 2 * IntBytes THEN Refuse(h)
        ELSE Then(DecBytes(p, h, h.v), LAMBDA bytes :
                 [bytes EXCEPT !.v = Significant(@)]))

\* The groups of one sub-identifier, and the bytes left: len may be passed by
\* its last group.
RECURSIVE DecSubId(_, _, _, _)
DecSubId(p, r, v, len) ==
    Then(TnmBerDecByte(p, r), LAMBDA b :
        IF b.v >= Half THEN DecSubId(p, b, (v * Half + b.v - Half) % IntValues, len - 1)
        ELSE [b EXCEPT !.v = <<(v * Half + @) % IntValues, len - 1>>])

\* The first two sub-identifiers are one number.
FirstTwo(v) == LET top == IF v \div 40 > 2 THEN 2 ELSE v \div 40 IN <<top, v - 40 * top>>

RECURSIVE DecSubIds(_, _, _, _)
DecSubIds(p, r, oid, len) ==
    CASE Len(oid) > MaxOid -> Refuse(r)
      [] Len(oid) <= MaxOid /\ len <= 0 -> [r EXCEPT !.v = oid]
      [] Len(oid) <= MaxOid /\ len > 0 ->
            Then(DecSubId(p, r, 0, len), LAMBDA s :
                DecSubIds(p, s, IF oid = <<>> THEN FirstTwo(s.v[1]) ELSE Append(oid, s.v[1]),
                          s.v[2]))

TnmBerDecOID(p, r) ==
    Then(Header(p, r, ASN1_OBJECT_IDENTIFIER), LAMBDA h :
        IF h.v = 0 THEN Refuse(h) ELSE DecSubIds(p, h, <<>>, h.v))

TnmBerDecOctetString(p, r, tag) ==
    Then(Header(p, r, tag), LAMBDA h : DecBytes(p, h, h.v))

\* The length is read and not skipped.
TnmBerDecNull(p, r, tag) == Header(p, r, tag)

\* The encoding of any type, its tag and length included.
TnmBerDecAny(p, r) ==
    Then(TnmBerDecLength(p, TnmBerDecByte(p, r)), LAMBDA h :
        Then(DecBytes(p, h, h.v), LAMBDA bytes :
            [bytes EXCEPT !.v = SubSeq(p, r.at, bytes.at - 1)]))
=============================================================================
