---------------------------- MODULE ReplicatedLog ----------------------------
(***************************************************************************)
(* What the log promises to the rest of APUS while one leader lasts: the   *)
(* leader puts requests in an order, requests get committed in that order, *)
(* and every server hands committed requests to its proxy, in that order,  *)
(* none left out and none twice.  There are no offsets, no ring and no     *)
(* remote logs here.  DareLog is shown to implement it; DareProxy begins   *)
(* with a log of this kind.                                                *)
(***************************************************************************)
EXTENDS Naturals, Sequences

CONSTANTS
    Server,     \* the servers of the group
    Value       \* what the log may hold

VARIABLES
    log,        \* requests in the order in which the leader appended them
    committed,  \* how many of them are committed
    delivered   \* what each server has handed to its proxy

vars == <<log, committed, delivered>>

\* s is a prefix of t.
Prefix(s, t) == Len(s) <= Len(t) /\ s = SubSeq(t, 1, Len(s))

Init ==
    /\ log = <<>>
    /\ committed = 0
    /\ delivered = [s \in Server |-> <<>>]

\* The leader takes requests from its queue, commits and applies in one pass, so
\* a step may append, commit and deliver; but all three only ever go on.
Submit ==
    /\ log' \in Seq(Value)
    /\ Prefix(log, log')

Commit == committed' \in committed .. Len(log')

Deliver(s) ==
    /\ Prefix(delivered[s], delivered'[s])
    /\ Prefix(delivered'[s], log')
    /\ Len(delivered'[s]) <= committed'

Next ==
    /\ Submit
    /\ Commit
    /\ delivered' \in [Server -> Seq(Value)]
    /\ \A s \in Server : Deliver(s)

Spec == Init /\ [][Next]_vars
=============================================================================
