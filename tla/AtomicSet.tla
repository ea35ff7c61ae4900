----------------------------- MODULE AtomicSet ------------------------------
(***************************************************************************)
(* What a set-request promises: all of its variable bindings take effect   *)
(* at once and the answer is noError, or none does and it is an error.     *)
(***************************************************************************)
EXTENDS Naturals, Sequences

CONSTANTS Insts, Values, None, SetRequests

VARIABLES
    mib,        \* value of every instance, None if it does not exist
    request,    \* the request that was received, <<>> if there is none
    answer      \* the last answer, "none" while a request is processed

atomicVars == <<mib, request, answer>>

\* k is the last variable binding of request r for instance x.
LastFor(r, x, k) ==
    /\ k \in DOMAIN r /\ r[k].inst = x
    /\ \A l \in DOMAIN r : r[l].inst = x => l <= k

Assigned(m, r) ==
    [x \in Insts |-> IF \E k \in DOMAIN r : LastFor(r, x, k)
                     THEN r[CHOOSE k \in DOMAIN r : LastFor(r, x, k)].value
                     ELSE m[x]]

ReceiveSet ==
    /\ request = <<>>
    /\ request' \in SetRequests
    /\ answer' = "none"
    /\ mib' = mib

SetAll ==
    /\ request # <<>>
    /\ mib' = Assigned(mib, request)
    /\ request' = <<>>
    /\ answer' = "noError"

SetNone ==
    /\ request # <<>>
    /\ mib' = mib
    /\ request' = <<>>
    /\ answer' = "error"

AtomicInit ==
    /\ mib \in [Insts -> Values \cup {None}]
    /\ request = <<>>
    /\ answer = "noError"

AtomicNext == ReceiveSet \/ SetAll \/ SetNone
AtomicSpec == AtomicInit /\ [][AtomicNext]_atomicVars
=============================================================================
