---------------------------- MODULE MCSynthEngine ----------------------------
(***************************************************************************)
(* Instances of SynthEngine for TLC.                                       *)
(***************************************************************************)
EXTENDS SynthEngine

File(samples, size, threads) ==
    [target |-> "file", specs |-> TRUE, total |-> samples, block |-> size, pool |-> threads]

Memory(samples, size, threads) == [File(samples, size, threads) EXCEPT !.target = "mem"]

\* Blocks of one and of several chunks, a last chunk that is empty (4 samples
\* on 3 threads), a short last block, bands without samples, each target.
MCRequests ==
    {<<File(22, 6, 4)>>, <<File(13, 4, 3)>>, <<File(11, 4, 3)>>, <<File(5, 2, 2), Memory(7, 3, 3)>>, <<Memory(4, 0, 2), File(6, -1, 1)>>,
     <<File(0, 4, 1), File(3, 1, 1)>>, <<>>,
     <<File(2, 4, 1), [File(2, 4, 1) EXCEPT !.target = "both"]>>,
     <<[Memory(2, 4, 1) EXCEPT !.specs = FALSE]>>, <<[File(2, 4, 1) EXCEPT !.target = "neither"]>>}
=============================================================================
