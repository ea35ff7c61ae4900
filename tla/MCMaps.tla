------------------------------ MODULE MCMaps ------------------------------
(***************************************************************************)
(* Network maps: the objects of tkined, and the three parts of Tnm's maps, *)
(* side by side.  A behaviour takes the steps of one of them, so that      *)
(* their state spaces add up.                                              *)
(***************************************************************************)
EXTENDS NetworkMap, MapMessages, MapEvents, TkinedObjects

CONSTANT Editor

VARIABLE which

MCExpire == [o \in Holders |-> IF o = TheMap THEN 0 ELSE 1]
MCMessages == {[change |-> -100, store |-> TRUE], [change |-> 50, store |-> FALSE]}
MCUp == [o \in {"item"} |-> "map"]
MCPatterns == [all |-> {"a", "b"}, a |-> {"a"}]

\* Object tables to start from: the empty one, and tables with a link across the
\* border of a group and with groups inside groups.
Build(cmds) ==
    FoldLeft(LAMBDA t, c : InedCreate(t, Cardinality(DOMAIN t) + 1, c[1], c[2], Editor),
             <<>>, cmds)

MCSeeds ==
    {<<>>,
     Build(<< <<"NODE", <<>>>>, <<"NETWORK", <<>>>>, <<"LINK", <<1, 2>>>>,
              <<"GROUP", <<1>>>>, <<"GROUP", <<4>>>> >>),
     Build(<< <<"NODE", <<>>>>, <<"LINK", <<1, 1>>>>, <<"TEXT", <<>>>>,
              <<"GROUP", <<2, 1>>>> >>)}

Init ==
    /\ which \in {"items", "messages", "events", "objects"}
    /\ MapInit /\ MsgInit /\ EvtInit /\ ObjectsInit
    /\ which # "objects" => obj = <<>>

Next ==
    /\ UNCHANGED which
    /\ \/ which = "items" /\ MapNext /\ UNCHANGED <<msgVars, evtVars, objectVars>>
       \/ which = "messages" /\ MsgNext /\ UNCHANGED <<mapVars, evtVars, objectVars>>
       \/ which = "events" /\ EvtNext /\ UNCHANGED <<mapVars, msgVars, objectVars>>
       \/ which = "objects" /\ ObjectsNext /\ UNCHANGED <<mapVars, msgVars, evtVars>>

Spec == Init /\ [][Next]_<<mapVars, msgVars, evtVars, objectVars, which>>
===========================================================================
