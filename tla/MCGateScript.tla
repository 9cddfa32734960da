---------------------------- MODULE MCGateScript ----------------------------
(* A small instance of GateScript for TLC.                                 *)
EXTENDS GateScript

MCPlan ==
  <<[label |-> "A", buys |-> <<1, 1>>], [label |-> "B", buys |-> <<1>>],
    [label |-> "C", buys |-> <<2>>]>>
MCToClaim == <<"A", "B">>

(* 3 tokens are the cap; less and less for a lamport, 20 at most.          *)
MCCurve == [x \in 1..20 |-> IF x <= 4 THEN 0 ELSE IF x <= 9 THEN 1
                            ELSE IF x <= 12 THEN 2 ELSE IF x <= 16 THEN 3
                            ELSE 4]
=============================================================================
