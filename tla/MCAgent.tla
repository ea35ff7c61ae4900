------------------------------ MODULE MCAgent ------------------------------
(***************************************************************************)
(* The SNMP agent: the tree of instances, the requests with their bindings *)
(* and the cache of replies, and the phases of a set request.  A behaviour *)
(* exercises one of the three.                                             *)
(***************************************************************************)
EXTENDS SnmpInstances, SnmpResponder, SnmpAgentSet

CONSTANTS rw, rc, ro

VARIABLE which

agentVars == <<which, instVars, respVars, vars>>

AgentInit ==
    /\ which \in {"instances", "responder", "set"}
    /\ InstInit /\ RespInit /\ Init
    /\ which # "set" => \A x \in Insts : val[x] = None
AgentNext ==
    /\ UNCHANGED which
    /\ \/ which = "instances" /\ InstNext /\ UNCHANGED <<respVars, vars>>
       \/ which = "responder" /\ RespNext /\ UNCHANGED <<instVars, vars>>
       \/ which = "set" /\ Next /\ UNCHANGED <<instVars, respVars>>
AgentSpec == AgentInit /\ [][AgentNext]_agentVars

\* One instance of each access.
MCAccess == [x \in Insts |-> CASE x = rw -> "rw" [] x = rc -> "rc" [] OTHER -> "ro"]

Mib(oid, leaf, access, column) ==
    [oid |-> oid, leaf |-> leaf, access |-> access, column |-> column, syntax |-> 2]
MCMibNodes == {Mib(<<1>>, FALSE, "not-accessible", FALSE),
               Mib(<<1, 1>>, TRUE, "read-write", TRUE),
               Mib(<<1, 2>>, TRUE, "read-only", FALSE),
               Mib(<<1, 3>>, TRUE, "not-accessible", TRUE)}
MCLabels == {<<1, 1, 1>>, <<1, 1, 2>>, <<1, 1, 3>>, <<1, 1, 2, 1>>, <<1, 2, 0>>,
             <<1, 2, 1>>, <<1, 3, 1>>}

Sess(type, version, community, binding) ==
    [type |-> type, version |-> version, community |-> community, binding |-> binding]
MCSessions == <<Sess("responder", "v2c", "public", "none"),
                Sess("responder", "v1", "public", "none"),
                Sess("listener", "v2c", "public", "trap"),
                Sess("listener", "v2c", "public", "inform")>>
Pkt(from, version, type, id, oids) ==
    [from |-> from, version |-> version, community |-> "public", type |-> type,
     id |-> id, oids |-> oids]
MCPackets == {Pkt(1, "v2c", "get", 1, <<1>>), Pkt(2, "v2c", "getnext", 2, <<1>>),
              Pkt(1, "v2c", "set", 3, <<1>>), Pkt(1, "v1", "get", 4, <<1, 2>>),
              Pkt(3, "v2c", "inform", 5, <<>>), Pkt(3, "v2c", "trap2", 0, <<>>)}
=============================================================================
