---------------------------- MODULE InedChannel -----------------------------
(***************************************************************************)
(* The stream between the Tkined editor and each of its tools: lines in    *)
(* both directions, in order.  A line of a tool longer than a buffer       *)
(* arrives in two pieces, the first without a newline.                     *)
(***************************************************************************)
EXTENDS Integers, Sequences, FiniteSets, SequencesExt

CONSTANTS
    Tools,       \* the tools: interpreter objects and their processes
    MaxCalls,    \* MaxCalls[t]: bound on the ined calls of tool t
    MaxCmds      \* MaxCmds[t]: bound on the commands the user sends to it

VARIABLES
    up,          \* up[t]: lines on their way from tool t to the editor
    down,        \* down[t]: lines on their way from the editor to tool t
    alive        \* the tools whose process runs

channel == <<up, down, alive>>

Call(n, what) == [op |-> "ined", n |-> n, what |-> what]
Report(len) == [op |-> "queue", n |-> len, what |-> "queue"]
Piece == [op |-> "piece", n |-> 0, what |-> "piece"]
Answer(n, code) == [op |-> code, n |-> n]
UserCmd(n) == [op |-> "command", n |-> n]
TraceLine == [op |-> "trace", n |-> 0]
=============================================================================
