------------------------------ MODULE MCDualTx ------------------------------
(***************************************************************************)
(* Three streams: a and c on TX1, b on TX2, or one stream per port.        *)
(***************************************************************************)
EXTENDS DualTx

CONSTANTS a, b, c

MCStream == {a, b, c}
MCSlotOf == [w \in MCStream |-> IF w = b THEN "TX2" ELSE "TX1"]
MCTuneOf == [w \in MCStream |-> "t1"]

\* b and c produce one block each.
MCMaxSent == [w \in MCStream |-> IF w = a THEN 2 ELSE 1]

\* c wants another tuning.
MCOtherTune == [w \in MCStream |-> IF w = c THEN "t2" ELSE "t1"]

\* One stream per port.
MCPair == {a, b}
MCPairSlot == [w \in MCPair |-> IF w = b THEN "TX2" ELSE "TX1"]
MCPairTune == [w \in MCPair |-> "t1"]
MCPairSent == [w \in MCPair |-> 3]
=============================================================================
