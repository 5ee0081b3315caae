----------------------------- MODULE ParallelFor -----------------------------
(***************************************************************************)
(* What WorkerPool::run() promises: fn(i) is executed once for every i of  *)
(* [0, ntasks), across the workers and the calling thread, and the call    *)
(* returns when all of them are done.                                      *)
(***************************************************************************)
EXTENDS Integers

CONSTANTS Threads, Nothing, Sizes

VARIABLES
    call,       \* the number of the latest call of run()
    inside,     \* that call has not returned
    todo,       \* its tasks that nobody has begun
    busy        \* the call and the task each thread executes, or Nothing

vars == <<call, inside, todo, busy>>

Init ==
    /\ call = 0
    /\ inside = FALSE
    /\ todo = {}
    /\ busy = [t \in Threads |-> Nothing]

Begin ==
    /\ ~inside
    /\ inside' = TRUE
    /\ call' = call + 1
    /\ \E n \in Sizes : n > 0 /\ todo' = 0 .. n - 1
    /\ UNCHANGED busy

Execute(t) ==
    /\ busy[t] = Nothing
    /\ \E i \in todo :
          /\ todo' = todo \ {i}
          /\ busy' = [busy EXCEPT ![t] = <<call, i>>]
    /\ UNCHANGED <<call, inside>>

Complete(t) ==
    /\ busy[t] # Nothing
    /\ busy' = [busy EXCEPT ![t] = Nothing]
    /\ UNCHANGED <<call, inside, todo>>

Return ==
    /\ inside
    /\ todo = {}
    /\ \A t \in Threads : busy[t] = Nothing
    /\ inside' = FALSE
    /\ UNCHANGED <<call, todo, busy>>

Next == Begin \/ Return \/ \E t \in Threads : Execute(t) \/ Complete(t)

Spec == Init /\ [][Next]_vars
=============================================================================
