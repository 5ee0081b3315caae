------------------------------ MODULE WorkerPool ------------------------------
(***************************************************************************)
(* gs::WorkerPool: the fixed set of threads that mixes a block in chunks.  *)
(*                                                                         *)
(* Every step is one critical section of m_ (whose order is all the mutex  *)
(* decides) or one step outside it: dereferencing fn_, executing the task, *)
(* notifying from the destructor. cv_ and done_cv_ are explicit wait sets  *)
(* (the threads at "wait" and at "waitdone"): a notify moves their members *)
(* on, and so may a spurious wake-up at any time. A notification nobody    *)
(* waits for is lost.                                                      *)
(***************************************************************************)
EXTENDS Integers, FiniteSets

CONSTANTS
    Workers,      \* the threads the constructor starts (nthreads - 1)
    Caller,       \* the thread that owns the pool
    Nothing,      \* nullptr, and "no task" for an idle thread
    Sizes,        \* the ntasks a caller passes
    MaxRuns       \* bound: calls of run()

Threads == Workers \cup {Caller}

ASSUME PoolAssumption ==
    /\ IsFiniteSet(Workers)
    /\ Caller \notin Workers
    /\ Nothing \notin Nat /\ Nothing \notin Nat \X Nat
    /\ Sizes \subseteq Int
    /\ MaxRuns \in Nat

VARIABLES
    pc,           \* where each thread is
    task,         \* the local i of each thread
    used,         \* the fn whose body each thread executes
    seen,         \* the local `seen` of each worker
    fn_, ntasks_, next_, pending_, gen_, stop_

shared == <<fn_, ntasks_, next_, pending_, gen_, stop_>>
vars == <<pc, task, used, seen, shared>>

\* The threads own a task from next_++ until they have reported it.
Holders == {t \in Threads : pc[t] \in {"take", "exec", "relock"}}

Inside == pc[Caller] \in {"take", "exec", "relock", "waitdone", "wokendone"}

-----------------------------------------------------------------------------
\* A function is named by the number of the call of run() that passed it.
Init ==
    /\ pc = [t \in Threads |-> IF t = Caller THEN "idle" ELSE "start"]
    /\ task = [t \in Threads |-> Nothing]
    /\ used = [t \in Threads |-> Nothing]
    /\ seen = [w \in Workers |-> 0]
    /\ fn_ = Nothing
    /\ ntasks_ = 0
    /\ next_ = 0
    /\ pending_ = 0
    /\ gen_ = 0
    /\ stop_ = FALSE

\* cv_.notify_all(), and thread t goes to `at`.
NotifyAll(t, at) ==
    pc' = [u \in Threads |-> IF u = t THEN at
                             ELSE IF pc[u] = "wait" THEN "woken" ELSE pc[u]]

\* Mutant: nobody tells the caller.
NotifyNobody(t, at) == pc' = [pc EXCEPT ![t] = at]

\* done_cv_.notify_all(), and thread t goes to `at`.
NotifyDone(t, at) ==
    pc' = [u \in Threads |-> IF u = t THEN at
                             ELSE IF pc[u] = "waitdone" THEN "wokendone" ELSE pc[u]]

Goes(t, at) == pc' = [pc EXCEPT ![t] = at]

\* Mutant: two threads may read the same next_.
TakeTwice(t) == task' = [task EXCEPT ![t] = next_] /\ next_' = next_

\* const int i = next_++; and the mutex is released.
TakeNext(t) ==
    /\ task' = [task EXCEPT ![t] = next_]
    /\ next_' = next_ + 1

-----------------------------------------------------------------------------
\* (*fn_)(i) of a worker reads the pointer without the mutex; the caller uses
\* its own argument, the function of the latest call.
Invoke(t) ==
    /\ pc[t] = "take"
    /\ used' = [used EXCEPT ![t] = IF t = Caller THEN gen_ ELSE fn_]
    /\ Goes(t, "exec")
    /\ UNCHANGED <<task, seen, shared>>

TaskEnds(t) ==
    /\ pc[t] = "exec"
    /\ used' = [used EXCEPT ![t] = Nothing]
    /\ Goes(t, "relock")
    /\ UNCHANGED <<task, seen, shared>>

-----------------------------------------------------------------------------
\* A worker that has the mutex and no task tests the predicate of cv_.wait().
Looks(w) == pc[w] \in {"start", "woken"}

WorkerExits(w) ==
    /\ Looks(w)
    /\ stop_
    /\ Goes(w, "exited")
    /\ UNCHANGED <<task, used, seen, shared>>

WorkerTakes(w) ==
    /\ Looks(w)
    /\ ~stop_
    /\ gen_ # seen[w]
    /\ next_ < ntasks_
    /\ seen' = [seen EXCEPT ![w] = gen_]
    /\ TakeNext(w)
    /\ Goes(w, "take")
    /\ UNCHANGED <<used, fn_, ntasks_, pending_, gen_, stop_>>

\* Nothing new, or the tasks of the new call are all taken: back to the wait.
WorkerSleeps(w) ==
    /\ Looks(w)
    /\ ~stop_
    /\ gen_ = seen[w] \/ next_ >= ntasks_
    /\ seen' = [seen EXCEPT ![w] = gen_]
    /\ Goes(w, "wait")
    /\ UNCHANGED <<task, used, shared>>

\* --pending_, then the next task, or the wait again.
WorkerReports(w) ==
    LET at == IF next_ < ntasks_ THEN "take" ELSE IF stop_ THEN "exited" ELSE "wait"
    IN  /\ pc[w] = "relock"
        /\ pending_' = pending_ - 1
        /\ IF pending_ = 1 THEN NotifyDone(w, at) ELSE Goes(w, at)
        /\ IF next_ < ntasks_ THEN TakeNext(w) /\ UNCHANGED seen
           ELSE /\ seen' = [seen EXCEPT ![w] = IF stop_ THEN @ ELSE gen_]
                /\ UNCHANGED <<task, next_>>
        /\ UNCHANGED <<used, fn_, ntasks_, gen_, stop_>>

-----------------------------------------------------------------------------
\* run(): the call is set up, all workers are notified, and the caller takes
\* the first task. It returns at once for ntasks <= 0.
Run(n) ==
    /\ pc[Caller] = "idle"
    /\ gen_ < MaxRuns
    /\ n > 0
    /\ fn_' = gen_ + 1
    /\ ntasks_' = n
    /\ pending_' = n
    /\ gen_' = gen_ + 1
    /\ task' = [task EXCEPT ![Caller] = 0]
    /\ next_' = 1
    /\ NotifyAll(Caller, "take")
    /\ UNCHANGED <<used, seen, stop_>>

Returns ==
    /\ fn_' = Nothing
    /\ ntasks_' = 0
    /\ Goes(Caller, "idle")

\* Mutant: run() ends when the last task is taken, not when it is reported.
ReturnsEarly == Returns

\* The tasks are all taken: wait until they are reported.
CallerWaits ==
    \/ pending_ = 1 /\ Returns
    \/ pending_ # 1 /\ Goes(Caller, "waitdone") /\ UNCHANGED <<fn_, ntasks_>>

CallerReports ==
    /\ pc[Caller] = "relock"
    /\ pending_' = pending_ - 1
    /\ \/ next_ < ntasks_ /\ TakeNext(Caller) /\ Goes(Caller, "take") /\ UNCHANGED <<fn_, ntasks_>>
       \/ /\ next_ >= ntasks_
          /\ CallerWaits
          /\ UNCHANGED <<task, next_>>
    /\ UNCHANGED <<used, seen, gen_, stop_>>

CallerWakes ==
    /\ pc[Caller] = "wokendone"
    /\ \/ pending_ = 0 /\ Returns
       \/ pending_ # 0 /\ Goes(Caller, "waitdone") /\ UNCHANGED <<fn_, ntasks_>>
    /\ UNCHANGED <<task, used, seen, next_, pending_, gen_, stop_>>

-----------------------------------------------------------------------------
\* ~WorkerPool(): stop_ under the mutex, notify without it, join every worker.
Stop ==
    /\ pc[Caller] = "idle"
    /\ stop_' = TRUE
    /\ Goes(Caller, "notify")
    /\ UNCHANGED <<task, used, seen, fn_, ntasks_, next_, pending_, gen_>>

\* Mutant: the workers are joined without a notification.
JoinsOnly == pc[Caller] = "notify" /\ Goes(Caller, "join") /\ UNCHANGED <<task, used, seen, shared>>

NotifyStop ==
    /\ pc[Caller] = "notify"
    /\ NotifyAll(Caller, "join")
    /\ UNCHANGED <<task, used, seen, shared>>

Joined ==
    /\ pc[Caller] = "join"
    /\ \A w \in Workers : pc[w] = "exited"
    /\ Goes(Caller, "gone")
    /\ UNCHANGED <<task, used, seen, shared>>

Spurious(t) ==
    /\ \/ pc[t] = "wait" /\ Goes(t, "woken")
       \/ pc[t] = "waitdone" /\ Goes(t, "wokendone")
    /\ UNCHANGED <<task, used, seen, shared>>

-----------------------------------------------------------------------------
WorkerStep(w) ==
    \/ Invoke(w) \/ TaskEnds(w)
    \/ WorkerExits(w) \/ WorkerTakes(w) \/ WorkerSleeps(w) \/ WorkerReports(w)

CallerStep ==
    \/ Invoke(Caller) \/ TaskEnds(Caller)
    \/ CallerReports \/ CallerWakes \/ NotifyStop \/ Joined

Next ==
    \/ CallerStep \/ Stop
    \/ \E n \in Sizes : Run(n)
    \/ \E w \in Workers : WorkerStep(w)
    \/ \E t \in Threads : Spurious(t)

Spec == Init /\ [][Next]_vars

\* Threads are scheduled, tasks end, and a mutex that is free again and again
\* is got. The client need not call, and wake-ups need not be spurious.
FairSpec ==
    /\ Spec
    /\ WF_vars(CallerStep)
    /\ \A w \in Workers : WF_vars(WorkerStep(w))

-----------------------------------------------------------------------------
Places == {"start", "wait", "woken", "take", "exec", "relock", "exited",
           "idle", "waitdone", "wokendone", "notify", "join", "gone"}

TypeOK ==
    /\ pc \in [Threads -> Places]
    /\ task \in [Threads -> Nat \cup {Nothing}]
    /\ used \in [Threads -> Nat \cup {Nothing}]
    /\ seen \in [Workers -> Nat]
    /\ fn_ \in Nat \cup {Nothing}
    /\ ntasks_ \in Nat
    /\ next_ \in Nat
    /\ pending_ \in Nat
    /\ gen_ \in Nat
    /\ stop_ \in BOOLEAN

\* No thread executes a function whose run() has returned: the lambda lives on
\* the caller's stack, and a worker reads fn_ without the mutex.
NoStaleCall ==
    \A t \in Threads : pc[t] = "exec" => Inside /\ used[t] = gen_

\* pending_ counts the tasks that are not reported, those nobody has taken and
\* those the threads hold: the caller's wait ends neither early nor never.
PendingIsOutstanding ==
    Inside => pending_ = (ntasks_ - next_) + Cardinality(Holders)

\* run() executes every task once and returns when all are done.
Pool == INSTANCE ParallelFor WITH
    call <- gen_,
    inside <- Inside,
    todo <- (next_ .. ntasks_ - 1) \cup {task[t] : t \in {u \in Threads : pc[u] = "take"}},
    busy <- [t \in Threads |-> IF pc[t] = "exec" THEN <<used[t], task[t]>> ELSE Nothing]

ImplementsParallelFor == Pool!Spec

\* A call of run() returns, whoever executes its last task.
RunReturns == Inside ~> pc[Caller] = "idle"

\* The destructor ends: no worker sleeps through its only notification.
DestructorEnds == pc[Caller] = "notify" ~> pc[Caller] = "gone"
=============================================================================
