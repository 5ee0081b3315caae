---------------------------- MODULE MCPropagation ----------------------------
(***************************************************************************)
(* A week of 20 half seconds, steps of 4, and instants up to a week and a  *)
(* half on either side of each epoch, so that every wrap and every length  *)
(* of the last step occurs; five iterations stand for thirty.              *)
(***************************************************************************)
EXTENDS Propagation

MCKepler == {[sys |-> s, toe |-> 5, toc |-> c] : s \in {-1, 1, 3, 4}, c \in {5, 8}}
MCVectors == {[toe_ref |-> 5, tau |-> t, gamma |-> g] : t \in {-3, 3}, g \in {0, 2}}
MCTimes == -25 .. 35
=============================================================================
