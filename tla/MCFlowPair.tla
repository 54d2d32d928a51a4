----------------------------- MODULE MCFlowPair -----------------------------
(* Small instances of FlowPair for TLC.                                    *)
EXTENDS FlowPair, TLC

\* One direction: the client sends n bytes, the server nothing.
OneByte  == [s \in Side |-> IF s = "client" THEN 1 ELSE 0]
TwoBytes == [s \in Side |-> IF s = "client" THEN 2 ELSE 0]

\* Both directions, each with more than fits the windows and the inbound queue.
BothWays == [s \in Side |-> IF s = "client" THEN 3 ELSE 2]

\* A window of n bytes on both sides.
Window1 == [s \in Side |-> 1]
Window2 == [s \in Side |-> 2]

Symmetry == Permutations(Carrier)
=============================================================================
