------------------------------ MODULE MCObserve ------------------------------
(* One server, whose third line is not an event and whose last one is too    *)
(* long for the scanner; the store, and one tail.                           *)
EXTENDS Observe

CONSTANTS w1, member

MCNameOf == [w \in {w1} |-> member]
MCPrints == [w \in {w1} |-> <<"progress", "timing", "plain", "progress", "timing", "long">>]
=============================================================================
