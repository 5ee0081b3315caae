---------------------------- MODULE MCTxService -----------------------------
(***************************************************************************)
(* Two requests for TX1 with the same tuning: a is a live session, c plays *)
(* a file.                                                                 *)
(***************************************************************************)
EXTENDS TxService

CONSTANTS a, c

MCStream == {a, c}
MCSlotOf == [w \in MCStream |-> "TX1"]
MCTuneOf == [w \in MCStream |-> "t1"]
MCLive == {a}
MCMaxSent == [w \in MCStream |-> IF w = a THEN 2 ELSE 1]
=============================================================================
