--------------------------- MODULE MCProtocolDispatch ---------------------------
(* Small instances of ProtocolDispatch for TLC.                            *)
EXTENDS ProtocolDispatch

CONSTANTS m1, m2, m3, able, without, paused

\* m1 is for a supervisor that is paused, if it is not rerouted; m2 is posted then, for
\* an agent without an adapter and another; m3 is a message of the system to the board.
MCReroutes == [m \in Messages |-> IF m = m1 THEN {m2} ELSE {}]
MCEffect == [m \in Messages |-> IF m = m3 THEN "keeps" ELSE "moves"]
MCPlan ==
    [m \in Messages |-> IF m = m1 THEN <<paused>> ELSE IF m = m2 THEN <<without, able>> ELSE <<>>]
================================================================================
