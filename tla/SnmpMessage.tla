---------------------------- MODULE SnmpMessage ----------------------------
(***************************************************************************)
(* SNMP messages on the wire: how tnmSnmpSend.c turns a PDU of a session   *)
(* into a packet and tnmSnmpRecv.c turns a packet into a PDU again.        *)
(*                                                                         *)
(* A value is a sequence of integers: the one integer of the integer       *)
(* types, the bytes of the other ones, the sub-identifiers of an OBJECT    *)
(* IDENTIFIER.  Names and formats of the MIB stand for the same values and *)
(* are left out.                                                           *)
(***************************************************************************)
EXTENDS Ber

CONSTANTS
    MinMaxSize,         \* 484, the least msgMaxSize accepted
    UpTime,             \* TnmSnmpSysUpTime()
    Messages,           \* the messages sent: [session, pdu] records
    MessageCuts         \* how many bytes of a packet may be lost at its end

VARIABLE wire           \* the message, its packet and what is read from it

GET == 160
GETNEXT == 161
RESPONSE == 162
SET == 163
TRAP1 == 164
GETBULK == 165
INFORM == 166
TRAP2 == 167
REPORT == 168

TnmSnmpGet(type) == type \in {GET, GETNEXT, GETBULK}

NOERROR == 0
NOSUCHNAME == 2
BADVALUE == 3
GENERR == 5
INCONSISTENTNAME == 18

sysUpTime == <<1, 3, 6, 1, 2, 1, 1, 3, 0>>
snmpTrapOID == <<1, 3, 6, 1, 6, 3, 1, 1, 4, 1, 0>>
snmpTrapEnterprise == <<1, 3, 6, 1, 6, 3, 1, 1, 4, 3, 0>>
snmpTraps == <<1, 3, 6, 1, 6, 3, 1, 1, 5>>
snmpTraps1 == <<1, 3, 6, 1, 2, 1, 11, 0>>

VarBind(oid, type, value) == [oid |-> oid, type |-> type, value |-> value]

---------------------------------------------------------------------------
(* Sending.                                                                *)

\* What an SNMPv1 session makes of the SNMPv2 PDU types and error codes.
Downgrade(pdu) ==
    [pdu EXCEPT
       !.type = CASE pdu.type = GETBULK -> GETNEXT
                  [] pdu.type \in {INFORM, TRAP2} -> TRAP1
                  [] OTHER -> @,
       !.status = CASE pdu.type = GETBULK -> NOERROR
                    [] pdu.type # GETBULK /\ @ <= GENERR -> @
                    [] pdu.type # GETBULK /\ @ \in {6, 11, 16, 17, 18} -> NOSUCHNAME
                    [] pdu.type # GETBULK /\ @ \in {7, 8, 9, 10, 12} -> BADVALUE
                    [] OTHER -> GENERR,
       !.index = IF pdu.type = GETBULK THEN 0 ELSE @]

\* A value of a type, written as the type is.
EncField(ber, type, value) ==
    CASE type \in {ASN1_INTEGER, ASN1_COUNTER32, ASN1_GAUGE32, ASN1_TIMETICKS} ->
            TnmBerEncInt(ber, type, value[1])
      [] type = ASN1_COUNTER64 -> TnmBerEncUnsigned64(ber, value)
      [] type \in {ASN1_IPADDRESS, ASN1_OCTET_STRING, ASN1_OPAQUE} ->
            TnmBerEncOctetString(ber, type, value)
      [] type = ASN1_OBJECT_IDENTIFIER -> TnmBerEncOID(ber, value)
      [] type \in Exceptions \cup {ASN1_NULL} -> TnmBerEncNull(ber, type)

\* Fields one after another, each a type and a value.
RECURSIVE EncFields(_, _)
EncFields(ber, fields) ==
    IF ber = Full \/ fields = <<>> THEN ber
    ELSE EncFields(EncField(ber, Head(fields)[1], Head(fields)[2]), Tail(fields))

EncodeValue(ber, session, pdu, vb) ==
    CASE TnmSnmpGet(pdu.type) -> TnmBerEncNull(ber, ASN1_NULL)
      [] ~ TnmSnmpGet(pdu.type) /\ vb.type = ASN1_COUNTER64 /\ session.version = 0 -> Full
      [] OTHER -> EncField(ber, vb.type, vb.value)

\* A sequence whose contents Contents(_) writes.
EncSequence(start, Contents(_)) == TnmBerEncSequenceEnd(Contents(start), Len(start))

EncodeVarBind(ber, session, pdu, vb) ==
    EncSequence(TnmBerEncSequenceStart(ber, ASN1_SEQUENCE), LAMBDA start :
        EncodeValue(TnmBerEncOID(start, vb.oid), session, pdu, vb))

RECURSIVE EncodeVarBinds(_, _, _, _)
EncodeVarBinds(ber, session, pdu, vbl) ==
    IF vbl = <<>> \/ ber = Full THEN ber
    ELSE EncodeVarBinds(EncodeVarBind(ber, session, pdu, Head(vbl)),
                        session, pdu, Tail(vbl))

\* The enterprise, the generic and the specific trap of a notification.
TrapFields(session, oid) ==
    LET last == oid[Len(oid)]
    IN  CASE IsPrefix(snmpTraps, oid) -> <<session.enterprise, last - 1, 0>>
          [] IsPrefix(snmpTraps1, oid) -> <<session.enterprise, last, 0>>
          [] OTHER -> <<SubSeq(oid, 1, Len(oid) - 2), 6, last>>

EncodeTrapHeader(ber, session, pdu) ==
    LET f == TrapFields(session, pdu.trap)
    IN  IF Len(pdu.trap) < 4 THEN Full
        ELSE EncFields(ber, <<<<ASN1_OBJECT_IDENTIFIER, f[1]>>,
                              <<ASN1_IPADDRESS, <<1, 2, 3, 4>>>>,
                              <<ASN1_INTEGER, <<f[2]>>>>, <<ASN1_INTEGER, <<f[3]>>>>,
                              <<ASN1_TIMETICKS, <<UpTime>>>>>>)

EncodePDUHeader(ber, pdu) ==
    EncFields(ber, <<<<ASN1_INTEGER, <<pdu.id>>>>, <<ASN1_INTEGER, <<pdu.status>>>>,
                     <<ASN1_INTEGER, <<pdu.index>>>>>>)

\* The variable bindings a notification starts with.
TrapVarBinds(pdu) ==
    IF pdu.type \in {TRAP2, INFORM}
    THEN <<VarBind(sysUpTime, ASN1_TIMETICKS, <<UpTime>>),
           VarBind(snmpTrapOID, ASN1_OBJECT_IDENTIFIER, pdu.trap)>>
    ELSE <<>>

EncodePDU(ber, session, pdu) ==
    EncSequence(TnmBerEncSequenceStart(ber, pdu.type), LAMBDA start :
        EncSequence(
            TnmBerEncSequenceStart(IF pdu.type = TRAP1
                                   THEN EncodeTrapHeader(start, session, pdu)
                                   ELSE EncodePDUHeader(start, pdu), ASN1_SEQUENCE),
            LAMBDA list : EncodeVarBinds(list, session, pdu, TrapVarBinds(pdu) \o pdu.vbl)))

FLAG_AUTH == 1
FLAG_PRIV == 2
FLAG_REPORT == 4

MsgFlags(session, pdu) ==
    (IF pdu.type \in {GET, GETNEXT, GETBULK, SET, INFORM} THEN FLAG_REPORT ELSE 0)
      + (IF session.auth THEN FLAG_AUTH ELSE 0) + (IF session.priv THEN FLAG_PRIV ELSE 0)

EncodeHeader(ber, session, pdu) ==
    EncSequence(TnmBerEncSequenceStart(ber, ASN1_SEQUENCE), LAMBDA start :
        EncFields(start, <<<<ASN1_INTEGER, <<pdu.id>>>>, <<ASN1_INTEGER, <<BufferSize>>>>,
                           <<ASN1_OCTET_STRING, <<MsgFlags(session, pdu)>>>>,
                           <<ASN1_INTEGER, <<3>>>>>>))

\* Written into a buffer of its own.
EncodeUsmSecParams(session, pdu) ==
    LET known == pdu.type = RESPONSE \/ session.auth
    IN  EncSequence(TnmBerEncSequenceStart(<<>>, ASN1_SEQUENCE), LAMBDA start :
            EncFields(start,
                <<<<ASN1_OCTET_STRING, session.engineID>>,
                  <<ASN1_INTEGER, <<IF known THEN session.boots ELSE 0>>>>,
                  <<ASN1_INTEGER, <<IF known THEN session.time ELSE 0>>>>,
                  <<ASN1_OCTET_STRING, session.user>>,
                  <<ASN1_OCTET_STRING, IF session.auth THEN [i \in 1 .. 12 |-> 0] ELSE <<>>>>,
                  <<ASN1_OCTET_STRING, <<>>>>>>))

EncodeScopedPDU(ber, session, pdu) ==
    EncSequence(TnmBerEncSequenceStart(ber, ASN1_SEQUENCE), LAMBDA start :
        EncodePDU(EncFields(start, <<<<ASN1_OCTET_STRING, session.engineID>>,
                                     <<ASN1_OCTET_STRING, session.context>>>>), session, pdu))

\* What follows the version.
EncodeBody(ber, session, pdu, usm) ==
    CASE session.version < 3 ->
            EncodePDU(TnmBerEncOctetString(ber, ASN1_OCTET_STRING, session.community),
                      session, pdu)
      [] session.version = 3 /\ usm = Full -> Full
      [] session.version = 3 /\ usm # Full ->
            EncodeScopedPDU(TnmBerEncOctetString(EncodeHeader(ber, session, pdu),
                                                 ASN1_OCTET_STRING, usm), session, pdu)

EncodeMessage(session, pdu) ==
    EncSequence(TnmBerEncSequenceStart(<<>>, ASN1_SEQUENCE), LAMBDA start :
        EncodeBody(TnmBerEncInt(start, ASN1_INTEGER, session.version), session, pdu,
                   EncodeUsmSecParams(session, pdu)))

\* The PDU as it is sent.
Sent(session, pdu) == IF session.version = 0 THEN Downgrade(pdu) ELSE pdu

---------------------------------------------------------------------------
(* Receiving.  A decoder returns the reader; its value is what was read.   *)

Got(r, v) == [r EXCEPT !.v = v]

\* A value of a type, read as the type is: that of an unknown tag is Opaque.
DecField(p, r, tag) ==
    CASE tag \in {ASN1_INTEGER, ASN1_COUNTER32, ASN1_GAUGE32, ASN1_TIMETICKS} ->
            Then(TnmBerDecInt(p, r, tag), LAMBDA d : Got(d, <<tag, <<d.v>>>>))
      [] tag = ASN1_COUNTER64 ->
            Then(TnmBerDecUnsigned64(p, r), LAMBDA d : Got(d, <<tag, d.v>>))
      [] tag = ASN1_NULL -> Then(TnmBerDecNull(p, r, tag), LAMBDA d : Got(d, <<tag, <<>>>>))
      [] tag = ASN1_OBJECT_IDENTIFIER ->
            Then(TnmBerDecOID(p, r), LAMBDA d : Got(d, <<tag, d.v>>))
      [] tag = ASN1_IPADDRESS ->
            Then(TnmBerDecOctetString(p, r, tag), LAMBDA d :
                IF Len(d.v) # 4 THEN Refuse(d) ELSE Got(d, <<tag, d.v>>))
      [] tag \in {ASN1_OPAQUE, ASN1_OCTET_STRING} ->
            Then(TnmBerDecOctetString(p, r, tag), LAMBDA d : Got(d, <<tag, d.v>>))
      [] tag \in Exceptions ->             \* the result is not looked at
            Got([TnmBerDecNull(p, r, tag) EXCEPT !.ok = TRUE], <<tag, <<>>>>)
      [] OTHER -> Then(TnmBerDecAny(p, r), LAMBDA d : Got(d, <<ASN1_OPAQUE, d.v>>))

\* The value of a variable binding.
DecodeValue(p, r) == Then(TnmBerDecPeek(p, r), LAMBDA tag : DecField(p, r, tag.v))

\* Fields of the given types, one after another.
RECURSIVE DecFields(_, _, _, _)
DecFields(p, r, tags, vs) ==
    IF tags = <<>> THEN Got(r, vs)
    ELSE Then(DecField(p, r, Head(tags)), LAMBDA d :
             DecFields(p, d, Tail(tags), Append(vs, d.v[2])))

\* A sequence whose contents Contents(_) reads.
DecSequence(p, r, tag, Contents(_)) ==
    Then(TnmBerDecSequenceStart(p, r, tag), LAMBDA start :
        Then(Contents(start), LAMBDA d : TnmBerDecSequenceEnd(d, start)))

\* The loop ends where the packet ends.
RECURSIVE DecodeVarBinds(_, _, _)
DecodeVarBinds(p, r, vbl) ==
    IF TnmBerDecDone(p, r) THEN Got(r, vbl)
    ELSE Then(DecSequence(p, r, ASN1_SEQUENCE, LAMBDA start :
                  Then(TnmBerDecOID(p, start), LAMBDA oid :
                      Then(DecodeValue(p, oid), LAMBDA val :
                          Got(val, VarBind(oid.v, val.v[1], val.v[2]))))),
              LAMBDA vb : DecodeVarBinds(p, vb, Append(vbl, vb.v)))

\* An SNMPv1 trap becomes the variable bindings of an SNMPv2 notification.
TrapOid(enterprise, generic, specific) ==
    IF generic \in 0 .. 5 THEN snmpTraps \o <<generic + 1>>
    ELSE enterprise \o <<0, specific % IntValues>>

DecodeTrapHeader(p, r) ==
    Then(DecFields(p, r, <<ASN1_OBJECT_IDENTIFIER, ASN1_IPADDRESS, ASN1_INTEGER,
                           ASN1_INTEGER, ASN1_TIMETICKS>>, <<>>), LAMBDA f :
        Got(f, [id |-> 0, status |-> 0, index |-> 0,
                std |-> <<VarBind(sysUpTime, ASN1_TIMETICKS, f.v[5]),
                          VarBind(snmpTrapOID, ASN1_OBJECT_IDENTIFIER,
                                  TrapOid(f.v[1], f.v[3][1], f.v[4][1]))>>,
                last |-> <<VarBind(snmpTrapEnterprise, ASN1_OBJECT_IDENTIFIER, f.v[1])>>]))

DecodePDUHeader(p, r) ==
    Then(DecFields(p, r, <<ASN1_INTEGER, ASN1_INTEGER, ASN1_INTEGER>>, <<>>), LAMBDA f :
        IF f.v[2][1] \notin NOERROR .. INCONSISTENTNAME THEN Refuse(r)
        ELSE Got(f, [id |-> f.v[1][1], status |-> f.v[2][1], index |-> f.v[3][1],
                     std |-> <<>>, last |-> <<>>]))

PduRead(type, head, vbl) ==
    [type |-> type, id |-> head.v.id, status |-> head.v.status, index |-> head.v.index,
     vbl |-> head.v.std \o vbl]

\* What follows the header; a trap may end there (trapError).
DecodeList(p, type, start, head, list) ==
    IF list.ok
    THEN Then(DecodeVarBinds(p, list, <<>>), LAMBDA vbs :
             Then(TnmBerDecSequenceEnd(TnmBerDecSequenceEnd(vbs, list), start), LAMBDA end :
                 Got(end, PduRead(type, head, vbs.v \o head.v.last))))
    ELSE IF type = TRAP1 THEN Got(head, PduRead(type, head, <<>>)) ELSE list

DecodePDU(p, r) ==
    Then(TnmBerDecPeek(p, r), LAMBDA type :
        Then(TnmBerDecSequenceStart(p, r, type.v), LAMBDA start :
            IF type.v \notin GET .. REPORT THEN Refuse(r)
            ELSE Then(IF type.v = TRAP1 THEN DecodeTrapHeader(p, start)
                      ELSE DecodePDUHeader(p, start), LAMBDA head :
                DecodeList(p, type.v, start, head,
                           TnmBerDecSequenceStart(p, head, ASN1_SEQUENCE)))))

DecodeHeader(p, r) ==
    Then(DecSequence(p, r, ASN1_SEQUENCE, LAMBDA start :
             DecFields(p, start, <<ASN1_INTEGER, ASN1_INTEGER, ASN1_OCTET_STRING,
                                   ASN1_INTEGER>>, <<>>)), LAMBDA f :
        IF f.v[2][1] < MinMaxSize \/ Len(f.v[3]) # 1 \/ f.v[4][1] # 3 THEN Refuse(r)
        ELSE Got(f, f.v[3][1]))

\* p is the value of the octet string that holds the parameters.
DecodeUsmSecParams(p) ==
    DecSequence(p, TnmBerCreate, ASN1_SEQUENCE, LAMBDA start :
        DecFields(p, start, <<ASN1_OCTET_STRING, ASN1_INTEGER, ASN1_INTEGER,
                              ASN1_OCTET_STRING, ASN1_OCTET_STRING, ASN1_OCTET_STRING>>, <<>>))

DecodeScopedPDU(p, r) ==
    DecSequence(p, r, ASN1_SEQUENCE, LAMBDA start :
        Then(DecFields(p, start, <<ASN1_OCTET_STRING, ASN1_OCTET_STRING>>, <<>>), LAMBDA f :
            Then(DecodePDU(p, f), LAMBDA pdu : Got(pdu, Append(f.v, pdu.v)))))

NoMessage == [ok |-> FALSE]

DecodeV3(p, version) ==
    Then(DecodeHeader(p, version), LAMBDA header :
        Then(TnmBerDecOctetString(p, header, ASN1_OCTET_STRING), LAMBDA param :
            Then(DecodeUsmSecParams(param.v), LAMBDA usm :
                Then(DecodeScopedPDU(p, param), LAMBDA scoped :
                    Got(scoped, [version |-> 3, community |-> scoped.v[2],
                                 pdu |-> scoped.v[3], usm |-> <<header.v>> \o usm.v])))))

DecodeV1(p, version) ==
    Then(TnmBerDecOctetString(p, version, ASN1_OCTET_STRING), LAMBDA com :
        Then(DecodePDU(p, com), LAMBDA pdu :
            Got(pdu, [version |-> version.v, community |-> com.v, pdu |-> pdu.v,
                      usm |-> <<>>])))

DecodeMessage(p) ==
    LET message ==
            DecSequence(p, TnmBerCreate, ASN1_SEQUENCE, LAMBDA start :
                Then(TnmBerDecInt(p, start, ASN1_INTEGER), LAMBDA version :
                    CASE version.v \in {0, 1} -> DecodeV1(p, version)
                      [] version.v = 3 -> DecodeV3(p, version)
                      [] OTHER -> Refuse(version)))
    IN  Then(message, LAMBDA r : IF TnmBerDecDone(p, r) THEN r ELSE Refuse(r))

---------------------------------------------------------------------------

MessageInit == wire = [at |-> "idle"]

\* TnmSnmpEncode() up to the packet.
WriteMessage(m) ==
    /\ wire.at = "idle"
    /\ LET pdu == Sent(m.session, m.pdu)
       IN  wire' = [at |-> "sent", session |-> m.session, pdu |-> pdu,
                    packet |-> EncodeMessage(m.session, pdu), cut |-> 0, got |-> NoMessage]

\* TnmSnmpDecode() up to the message, of a packet that lost its last bytes.
ReadMessage(cut) ==
    /\ wire.at = "sent"
    /\ wire.packet # Full
    /\ cut < Len(wire.packet)
    /\ wire' = [wire EXCEPT !.at = "received", !.cut = cut,
                  !.got = DecodeMessage(SubSeq(wire.packet, 1, Len(wire.packet) - cut))]

MessageNext == (\E m \in Messages : WriteMessage(m)) \/ (\E cut \in MessageCuts : ReadMessage(cut))

---------------------------------------------------------------------------
(* Properties.                                                             *)

\* The variable bindings the receiver of a PDU should see.
Expected(session, pdu) ==
    LET f == TrapFields(session, pdu.trap)
        trap == IF f[2] \in 0 .. 5 THEN snmpTraps \o <<f[2] + 1>> ELSE pdu.trap
        uptime == VarBind(sysUpTime, ASN1_TIMETICKS, <<UpTime>>)
        Plain(vb) == IF TnmSnmpGet(pdu.type) THEN VarBind(vb.oid, ASN1_NULL, <<>>) ELSE vb
        vbl == [i \in 1 .. Len(pdu.vbl) |-> Plain(pdu.vbl[i])]
    IN  CASE pdu.type = TRAP1 ->
                <<uptime, VarBind(snmpTrapOID, ASN1_OBJECT_IDENTIFIER, trap)>> \o vbl
                  \o <<VarBind(snmpTrapEnterprise, ASN1_OBJECT_IDENTIFIER, f[1])>>
          [] pdu.type \in {TRAP2, INFORM} ->
                <<uptime, VarBind(snmpTrapOID, ASN1_OBJECT_IDENTIFIER, pdu.trap)>> \o vbl
          [] OTHER -> vbl

=============================================================================
