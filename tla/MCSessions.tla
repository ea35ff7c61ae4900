----------------------------- MODULE MCSessions -----------------------------
(***************************************************************************)
(* Data that crosses the process: SNMP sessions and their sockets, the     *)
(* synchronous requests, SNMP messages, Sun RPC calls with the etherstat   *)
(* clients, the Tcl objects, and the SMX engine with its peer.  They share *)
(* no state: a behaviour exercises one of them.                            *)
(***************************************************************************)
EXTENDS SnmpSessions, SnmpSync, SnmpMessage, SunRpc, TnmObjects, SmxEngine

(* The messages of the SNMP codec that are checked. *)

\* Integers around every boundary of the encoding.
Powers == {1, Half, Base, Base * Half, Base * Base, Base * Base * Half, Base * Base * Base}
Edges == {0} \cup Powers \cup {x - 1 : x \in Powers}
SignedEdges == Edges \cup {-x : x \in Edges} \cup {-(x + 1) : x \in Edges}
            \cup {IntValues \div 2 - 1, -(IntValues \div 2)}
UnsignedEdges == Edges \cup {IntValues \div 2, IntValues - 1 - Base * Base * Half}

Octets(n) == [i \in 1 .. n |-> i % Base]
Strings == {Octets(n) : n \in {0, 1, Half - 1, Half, Base, Base + 1}}
Oids == {<<1, 3, x, 1>> : x \in Edges \cup {IntValues - 1}} \cup {<<2, 100, 7>>, <<0, 0>>}

Bindings ==
    {VarBind(<<1, 3, 6>>, ASN1_INTEGER, <<x>>) : x \in SignedEdges}
      \cup {VarBind(<<1, 3, 6>>, t, <<x>>) : t \in {ASN1_COUNTER32, ASN1_TIMETICKS},
                                              x \in UnsignedEdges}
      \cup {VarBind(<<1, 3, 6>>, t, s) : t \in {ASN1_OCTET_STRING, ASN1_OPAQUE}, s \in Strings}
      \cup {VarBind(<<1, 3, 6>>, ASN1_COUNTER64, s) :
              s \in {<<>>, <<1>>, Octets(8), [i \in 1 .. 8 |-> Base - 1]}}
      \cup {VarBind(o, ASN1_OBJECT_IDENTIFIER, o) : o \in Oids}
      \cup {VarBind(<<1, 3, 6>>, t, <<>>) : t \in Exceptions \cup {ASN1_NULL}}
      \cup {VarBind(<<1, 3, 6>>, ASN1_IPADDRESS, <<1, 2, 3, 4>>)}

CodecSession(ver, auth) ==
    [version |-> ver, community |-> Octets(3), enterprise |-> <<1, 3, 6, 1, 4>>,
     engineID |-> Octets(5), boots |-> 1, time |-> Base * Half, user |-> Octets(2),
     context |-> Octets(1), auth |-> auth, priv |-> FALSE]

CodecSessions == {CodecSession(0, FALSE), CodecSession(1, FALSE), CodecSession(3, FALSE), CodecSession(3, TRUE)}

Pdu(type, id, status, index, trap, vbl) ==
    [type |-> type, id |-> id, status |-> status, index |-> index, trap |-> trap, vbl |-> vbl]

Standard(n) == snmpTraps \o <<n>>
vb1 == VarBind(<<1, 3, 6>>, ASN1_INTEGER, <<1>>)
vb2 == VarBind(<<1, 3, 6, 1>>, ASN1_OCTET_STRING, Octets(3))

MCMessages ==
    {[session |-> s, pdu |-> Pdu(SET, 5, 0, 0, Standard(1), <<b>>)] :
        s \in {CodecSession(0, FALSE), CodecSession(1, FALSE)}, b \in Bindings}
      \cup {[session |-> s, pdu |-> Pdu(t, i, 0, 0, Standard(1), l)] :
        s \in CodecSessions, t \in {GET, GETNEXT, SET, RESPONSE}, i \in {1, -1, Base * Half},
        l \in {<<>>, <<vb1>>, <<vb1, vb2>>}}
      \cup {[session |-> s, pdu |-> Pdu(t, 7, e, 1, Standard(1), <<vb2>>)] :
        s \in {CodecSession(0, FALSE), CodecSession(1, FALSE)}, t \in {RESPONSE, GETBULK},
        e \in 0 .. INCONSISTENTNAME}
      \cup {[session |-> s, pdu |-> Pdu(t, 7, 0, 0, o, l)] :
        s \in CodecSessions, t \in {TRAP2, INFORM}, l \in {<<>>, <<vb1>>},
        o \in {Standard(n) : n \in 1 .. 6} \cup {snmpTraps1 \o <<3>>, <<1, 3, 6, 1, 0, 9>>}}

MCCuts == 0 .. 15

-----------------------------------------------------------------------------
VARIABLE which          \* the component whose steps a behaviour takes

allVars == <<w, syncVars, wire, rpcVars, objVars, smxVars, which>>

Init ==
    /\ which \in {"sessions", "sync", "codec", "rpc", "ether", "objects", "smx"}
    /\ SessionsInit /\ SyncInit /\ MessageInit /\ RpcInit /\ ObjInit /\ SmxInit
    /\ which # "sync" => version = "v1"

Next ==
    /\ UNCHANGED which
    /\ \/ which = "sessions" /\ SessionsNext
          /\ UNCHANGED <<syncVars, wire, rpcVars, objVars, smxVars>>
       \/ which = "sync" /\ SyncNext /\ UNCHANGED <<w, wire, rpcVars, objVars, smxVars>>
       \/ which = "codec" /\ MessageNext /\ UNCHANGED <<w, syncVars, rpcVars, objVars, smxVars>>
       \/ which = "rpc" /\ RpcNext /\ UNCHANGED <<w, syncVars, wire, objVars, smxVars>>
       \/ which = "ether" /\ EtherNext /\ UNCHANGED <<w, syncVars, wire, objVars, smxVars>>
       \/ which = "objects" /\ ObjNext /\ UNCHANGED <<w, syncVars, wire, rpcVars, smxVars>>
       \/ which = "smx" /\ SmxNext /\ UNCHANGED <<w, syncVars, wire, rpcVars, objVars>>

Spec == Init /\ [][Next]_allVars

Opt(opt, ok) == [opt |-> opt, val |-> opt, ok |-> ok]
Port(n) == [opt |-> "port", val |-> n, ok |-> TRUE]
Alias(a) == [opt |-> "alias", val |-> a, ok |-> TRUE]
MCConfigs == {<<>>, <<Port(1)>>, <<Port(2)>>, <<Alias("a")>>,
              <<Port(1), Opt("user", FALSE)>>}
MCAliased == {<<Port(1)>>, <<Alias("a")>>}
MCWalks == {<<1>>, <<1, 2>>, <<3>>}

MCCanonical(name) == IF name = 3 THEN 1 ELSE name

\* " ", "10", "0x1f", "300", "-1", "12ab", "9999", "0a:1b", "1.0.010.9" and a host "cx.e"
MCObjHosts == {<<12, CharX, CharPoint, 14>>}
MCObjTexts ==
    {<<CharBlank>>, <<1, 0>>, <<0, CharX, 1, 15>>, <<3, 0, 0>>, <<CharMinus, 1>>,
     <<1, 2, 10, 11>>, <<9, 9, 9, 9>>, <<0, 10, CharColon, 1, 11>>,
     <<1, CharPoint, 0, CharPoint, 0, 1, 0, CharPoint, 9>>} \cup MCObjHosts
MCObjValues ==
    [u64 |-> {<<0>>, <<Max64>>}, u32 |-> {<<10>>, <<Max32>>},
     octets |-> {<<>>, <<16>>, <<1, 255>>},
     ip |-> {<<127, 0, 0, 1>>, <<255, 255, 255, 255>>}]
MCObjAddresses == {<<10, 0, 0, 1>>, <<10, 0, 0, 2>>}

\* Texts without a backslash or a carriage return.
MCTexts == {<<>>, <<"a", "tab", "n">>, <<"quote", "nl", "ff">>}
=============================================================================
