---------------------------- MODULE MCWorkerPool ----------------------------
(***************************************************************************)
(* WorkerPool with three workers and the caller: calls without tasks, with *)
(* fewer tasks than threads, and with more.                                *)
(***************************************************************************)
EXTENDS WorkerPool
=============================================================================
