---------------------------- MODULE MCLiveSession ---------------------------
(***************************************************************************)
(* A Start Now with two workers, a plain session with two workers, and one *)
(* without a pipeline.                                                     *)
(***************************************************************************)
EXTENDS LiveSession

MCModes == {[workers |-> 2, scheduled |-> TRUE],
            [workers |-> 2, scheduled |-> FALSE],
            [workers |-> 1, scheduled |-> FALSE]}
=============================================================================
