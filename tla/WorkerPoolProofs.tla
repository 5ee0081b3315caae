-------------------------- MODULE WorkerPoolProofs ---------------------------
(***************************************************************************)
(* Safety of the worker pool for every number of threads and tasks: its    *)
(* count of unreported tasks is exact, no thread executes the function of  *)
(* a call that has returned, and run() implements a parallel for.          *)
(***************************************************************************)
EXTENDS WorkerPool, FiniteSetTheorems, TLAPS

\* The caller never waits on cv_, the workers never on done_cv_.
PlaceInv ==
    /\ pc[Caller] \notin {"start", "wait", "woken", "exited"}
    /\ \A w \in Workers : pc[w] \notin {"idle", "waitdone", "wokendone", "notify", "join", "gone"}

\* While run() is inside, pending_ is exact and fn_ is this call's function;
\* after it there is no task to take and nobody holds one.
CountInv ==
    /\ Inside => next_ <= ntasks_ /\ fn_ = gen_ /\ PendingIsOutstanding
    /\ ~Inside => ntasks_ = 0 /\ Holders = {}

\* The tasks held were taken from next_, each by one thread.
TaskInv ==
    /\ \A t \in Holders : task[t] \in 0 .. next_ - 1
    /\ \A t, u \in Holders : task[t] = task[u] => t = u

UsedInv == \A t \in Threads : pc[t] = "exec" => used[t] = gen_

PoolInv == TypeOK /\ PlaceInv /\ CountInv /\ TaskInv /\ UsedInv

-----------------------------------------------------------------------------
LEMMA HoldersFinite == IsFiniteSet(Threads) /\ IsFiniteSet(Holders)
<1>1. IsFiniteSet(Threads)
  BY PoolAssumption, FS_AddElement DEF Threads
<1> QED
  BY <1>1, FS_Subset DEF Holders

LEMMA HoldersCount == Cardinality(Holders) \in Nat /\ (Cardinality(Holders) = 0 <=> Holders = {})
  BY HoldersFinite, FS_CardinalityType, FS_EmptySet

\* A thread that is the only holder is all of them.
LEMMA OnlyHolder ==
    ASSUME NEW t \in Holders, Cardinality(Holders) = 1
    PROVE  Holders = {t}
  BY HoldersFinite, FS_Singleton

LEMMA HolderAdded ==
    ASSUME NEW t, t \notin Holders, Holders' = Holders \cup {t}
    PROVE  Cardinality(Holders') = Cardinality(Holders) + 1
  BY HoldersFinite, FS_AddElement

LEMMA HolderRemoved ==
    ASSUME NEW t \in Holders, Holders' = Holders \ {t}
    PROVE  Cardinality(Holders') = Cardinality(Holders) - 1
  BY HoldersFinite, FS_RemoveElement

LEMMA PoolInit == Init => PoolInv
<1> SUFFICES ASSUME Init PROVE PoolInv
  OBVIOUS
<1>1. Holders = {} /\ ~Inside
  BY PoolAssumption DEF Init, Holders, Inside, Threads
<1>2. TypeOK /\ PlaceInv /\ UsedInv
  BY PoolAssumption DEF Init, TypeOK, PlaceInv, UsedInv, Places, Threads
<1> QED
  BY <1>1, <1>2 DEF PoolInv, CountInv, TaskInv, Init

-----------------------------------------------------------------------------
\* What the steps of a call do to the threads that hold a task.
Steady ==
    /\ Holders' = Holders /\ (Inside' <=> Inside)
    /\ UNCHANGED <<fn_, ntasks_, next_, pending_, gen_, task>>

\* A step that takes or reports no task keeps the counts.
LEMMA SteadyStep ==
    ASSUME PoolInv, Steady
    PROVE  CountInv' /\ TaskInv'
  BY DEF PoolInv, Steady, CountInv, TaskInv, PendingIsOutstanding

\* The steps that only move a thread.
LEMMA MoveSteps ==
    ASSUME PoolInv,
           \/ \E t \in Threads : Invoke(t) \/ TaskEnds(t) \/ Spurious(t)
           \/ \E w \in Workers : WorkerExits(w) \/ WorkerSleeps(w)
           \/ Stop \/ NotifyStop \/ Joined
           \/ CallerWakes /\ pending_ # 0
    PROVE  Steady
<1> USE PoolAssumption DEF Steady, Holders, Inside, Threads, PoolInv, TypeOK, PlaceInv, shared
<1>1. ASSUME NEW t \in Threads, Invoke(t) \/ TaskEnds(t) \/ Spurious(t) PROVE Steady
  BY <1>1 DEF Invoke, TaskEnds, Spurious, Goes
<1>2. ASSUME NEW w \in Workers, WorkerExits(w) \/ WorkerSleeps(w) PROVE Steady
  BY <1>2 DEF WorkerExits, WorkerSleeps, Looks, Goes
<1>3. CASE Stop \/ Joined \/ (CallerWakes /\ pending_ # 0)
  BY <1>3 DEF Stop, Joined, CallerWakes, Goes
<1>4. CASE NotifyStop
  BY <1>4 DEF NotifyStop, NotifyAll
<1> QED
  BY <1>1, <1>2, <1>3, <1>4

-----------------------------------------------------------------------------
\* Types, places and the functions that are executed.
LEMMA PlaceSteps ==
    ASSUME PoolInv, [Next]_vars
    PROVE  PlaceInv' /\ pc' \in [Threads -> Places]
<1> USE PoolAssumption DEF PoolInv, TypeOK, PlaceInv, Places, Threads
<1>1. ASSUME NEW t \in Threads, Invoke(t) \/ TaskEnds(t) \/ Spurious(t)
      PROVE  PlaceInv' /\ pc' \in [Threads -> Places]
  BY <1>1 DEF Invoke, TaskEnds, Spurious, Goes
<1>2. ASSUME NEW w \in Workers, WorkerExits(w) \/ WorkerSleeps(w) \/ WorkerTakes(w)
      PROVE  PlaceInv' /\ pc' \in [Threads -> Places]
  BY <1>2 DEF WorkerExits, WorkerSleeps, WorkerTakes, Goes
<1>3. ASSUME NEW w \in Workers, WorkerReports(w)
      PROVE  PlaceInv' /\ pc' \in [Threads -> Places]
  <2> DEFINE at == IF next_ < ntasks_ THEN "take" ELSE IF stop_ THEN "exited" ELSE "wait"
  <2>1. at \in {"take", "exited", "wait"}
    OBVIOUS
  <2>2. NotifyDone(w, at) \/ Goes(w, at)
    BY <1>3 DEF WorkerReports
  <2> HIDE DEF at
  <2> QED
    BY <2>1, <2>2 DEF NotifyDone, Goes
<1>4. CASE Stop \/ NotifyStop \/ Joined
  BY <1>4 DEF Stop, NotifyStop, Joined, Goes, NotifyAll
<1>5. CASE CallerReports \/ CallerWakes
  BY <1>5 DEF CallerReports, CallerWakes, CallerWaits, Returns, Goes
<1>6. ASSUME NEW n \in Sizes, Run(n) PROVE PlaceInv' /\ pc' \in [Threads -> Places]
  BY <1>6 DEF Run, NotifyAll
<1>7. CASE UNCHANGED vars
  BY <1>7 DEF vars
<1> QED
  BY <1>1, <1>2, <1>3, <1>4, <1>5, <1>6, <1>7 DEF Next, CallerStep, WorkerStep

\* A worker takes a task: it is a holder more, and one task less is left.
LEMMA WorkerTakesStep ==
    ASSUME PoolInv, NEW w \in Workers, WorkerTakes(w)
    PROVE  /\ Inside /\ Inside' /\ w \notin Holders /\ Holders' = Holders \cup {w}
           /\ CountInv' /\ TaskInv'
<1> USE PoolAssumption DEF Threads
<1>1. w \notin Holders /\ Holders' = Holders \cup {w} /\ (Inside' <=> Inside)
  BY DEF WorkerTakes, Looks, Goes, Holders, Inside, PoolInv, TypeOK
<1>2. Inside
  BY DEF WorkerTakes, PoolInv, TypeOK, CountInv
<1>3. next_ < ntasks_ /\ next_' = next_ + 1 /\ task' = [task EXCEPT ![w] = next_]
      /\ UNCHANGED <<fn_, ntasks_, pending_, gen_>>
  BY DEF WorkerTakes, TakeNext
<1>4. CountInv'
  <2>1. Cardinality(Holders') = Cardinality(Holders) + 1
    BY <1>1, HolderAdded
  <2>2. next_ <= ntasks_ /\ fn_ = gen_ /\ pending_ = (ntasks_ - next_) + Cardinality(Holders)
    BY <1>2 DEF PoolInv, CountInv, PendingIsOutstanding
  <2>3. pending_' = (ntasks_' - next_') + Cardinality(Holders') /\ next_' <= ntasks_'
    BY <1>3, <2>1, <2>2, HoldersCount DEF PoolInv, TypeOK
  <2> QED
    BY <1>1, <1>2, <1>3, <2>2, <2>3 DEF CountInv, PendingIsOutstanding
<1>5. TaskInv'
  BY <1>1, <1>3 DEF TaskInv, PoolInv, TypeOK, Holders
<1> QED
  BY <1>1, <1>2, <1>4, <1>5

\* A thread reports its task and takes the next one.
LEMMA TakesNextStep ==
    ASSUME PoolInv, NEW t \in Threads, pc[t] = "relock", TakeNext(t), next_ < ntasks_,
           Holders' = Holders, Inside' <=> Inside,
           pending_' = pending_ - 1, UNCHANGED <<fn_, ntasks_, gen_>>
    PROVE  CountInv' /\ TaskInv' /\ pending_' \in Nat
<1>1. t \in Holders /\ Inside
  BY DEF Holders, PoolInv, CountInv
<1>2. CountInv' /\ pending_' \in Nat
  BY <1>1, HoldersCount DEF TakeNext, CountInv, PendingIsOutstanding, PoolInv, TypeOK
<1>3. TaskInv'
  BY <1>1 DEF TakeNext, TaskInv, PoolInv, TypeOK, Holders
<1> QED
  BY <1>2, <1>3

\* A thread reports its task and has no other.
LEMMA NoNextStep ==
    ASSUME PoolInv, NEW t \in Threads, pc[t] = "relock", next_ >= ntasks_,
           Holders' = Holders \ {t}, Inside' <=> Inside,
           pending_' = pending_ - 1, UNCHANGED <<fn_, ntasks_, gen_, next_, task>>
    PROVE  CountInv' /\ TaskInv' /\ pending_' \in Nat
<1>1. t \in Holders /\ Inside
  BY DEF Holders, PoolInv, CountInv
<1>2. Cardinality(Holders') = Cardinality(Holders) - 1 /\ Cardinality(Holders) # 0
  BY <1>1, HoldersCount, HolderRemoved
<1>3. next_ <= ntasks_ /\ fn_ = gen_ /\ pending_ = (ntasks_ - next_) + Cardinality(Holders)
  BY <1>1 DEF PoolInv, CountInv, PendingIsOutstanding
<1>4. pending_' = (ntasks_' - next_') + Cardinality(Holders') /\ pending_' \in Nat
  BY <1>2, <1>3, HoldersCount DEF PoolInv, TypeOK
<1>5. CountInv'
  BY <1>1, <1>3, <1>4 DEF CountInv, PendingIsOutstanding
<1>6. TaskInv'
  BY <1>1 DEF TaskInv, PoolInv
<1> QED
  BY <1>4, <1>5, <1>6

LEMMA WorkerReportsStep ==
    ASSUME PoolInv, NEW w \in Workers, WorkerReports(w)
    PROVE  CountInv' /\ TaskInv' /\ pending_' \in Nat
<1> USE PoolAssumption DEF Threads
<1> DEFINE at == IF next_ < ntasks_ THEN "take" ELSE IF stop_ THEN "exited" ELSE "wait"
<1>1. /\ pc[w] = "relock" /\ pending_' = pending_ - 1 /\ UNCHANGED <<fn_, ntasks_, gen_>>
      /\ NotifyDone(w, at) \/ Goes(w, at)
  BY DEF WorkerReports
<1>2. Inside' <=> Inside
  BY <1>1 DEF NotifyDone, Goes, Inside, PoolInv, TypeOK
<1>3. CASE next_ < ntasks_
  <2>1. Holders' = Holders
    BY <1>1, <1>3 DEF NotifyDone, Goes, Holders, PoolInv, TypeOK
  <2>2. TakeNext(w)
    BY <1>3 DEF WorkerReports
  <2> QED
    BY <1>1, <1>2, <1>3, <2>1, <2>2, TakesNextStep
<1>4. CASE ~(next_ < ntasks_)
  <2>1. Holders' = Holders \ {w}
    BY <1>1, <1>4 DEF NotifyDone, Goes, Holders, PoolInv, TypeOK
  <2>2. UNCHANGED <<task, next_>> /\ next_ >= ntasks_
    BY <1>4 DEF WorkerReports, PoolInv, TypeOK
  <2> QED
    BY <1>1, <1>2, <2>1, <2>2, NoNextStep
<1> QED
  BY <1>3, <1>4

\* What holds when run() returns: all tasks are taken, and reported.
LEMMA ReturnIsLast ==
    ASSUME PoolInv,
           \/ pc[Caller] = "relock" /\ next_ >= ntasks_ /\ pending_ = 1
           \/ pc[Caller] = "wokendone" /\ pending_ = 0
    PROVE  /\ Inside /\ next_ = ntasks_
           /\ Holders = IF pc[Caller] = "relock" THEN {Caller} ELSE {}
<1> USE DEF Threads
<1>1. /\ Inside /\ next_ <= ntasks_ /\ next_ \in Nat /\ ntasks_ \in Nat /\ pending_ \in Nat
      /\ pending_ = (ntasks_ - next_) + Cardinality(Holders)
  BY DEF Inside, PoolInv, TypeOK, CountInv, PendingIsOutstanding
<1>2. CASE pc[Caller] = "relock" /\ next_ >= ntasks_ /\ pending_ = 1
  <2>1. next_ = ntasks_ /\ Cardinality(Holders) = 1
    BY <1>1, <1>2, HoldersCount
  <2>2. Caller \in Holders
    BY <1>2 DEF Holders
  <2> QED
    BY <1>1, <1>2, <2>1, <2>2, OnlyHolder
<1>3. CASE pc[Caller] = "wokendone" /\ pending_ = 0
  BY <1>1, <1>3, HoldersCount
<1> QED
  BY <1>2, <1>3

LEMMA ReturnStep ==
    ASSUME PoolInv, Returns, pending_' \in Nat,
           \/ pc[Caller] = "relock" /\ next_ >= ntasks_ /\ pending_ = 1
           \/ pc[Caller] = "wokendone" /\ pending_ = 0
    PROVE  ~Inside' /\ Holders' = {} /\ CountInv' /\ TaskInv'
<1> USE DEF Threads
<1>1. ~Inside' /\ Holders' = {}
  BY ReturnIsLast DEF Returns, Goes, Inside, Holders, PoolInv, TypeOK
<1> QED
  BY <1>1 DEF CountInv, TaskInv, Returns

LEMMA CallerReportsStep ==
    ASSUME PoolInv, CallerReports
    PROVE  CountInv' /\ TaskInv' /\ pending_' \in Nat
<1> USE PoolAssumption DEF Threads
<1>1. pc[Caller] = "relock" /\ pending_' = pending_ - 1 /\ UNCHANGED gen_
  BY DEF CallerReports
<1>2. CASE next_ < ntasks_ /\ TakeNext(Caller) /\ Goes(Caller, "take") /\ UNCHANGED <<fn_, ntasks_>>
  <2>1. Holders' = Holders /\ (Inside' <=> Inside)
    BY <1>1, <1>2 DEF Goes, Holders, Inside, PoolInv, TypeOK
  <2> QED
    BY <1>1, <1>2, <2>1, TakesNextStep
<1>3. CASE next_ >= ntasks_ /\ pending_ = 1 /\ Returns /\ UNCHANGED <<task, next_>>
  BY <1>1, <1>3, ReturnStep
<1>4. CASE /\ next_ >= ntasks_ /\ pending_ # 1 /\ Goes(Caller, "waitdone")
           /\ UNCHANGED <<fn_, ntasks_>> /\ UNCHANGED <<task, next_>>
  <2>1. Holders' = Holders \ {Caller} /\ (Inside' <=> Inside)
    BY <1>1, <1>4 DEF Goes, Holders, Inside, PoolInv, TypeOK
  <2> QED
    BY <1>1, <1>4, <2>1, NoNextStep
<1> QED
  BY <1>2, <1>3, <1>4 DEF CallerReports, CallerWaits

LEMMA RunStep ==
    ASSUME PoolInv, NEW n \in Sizes, Run(n)
    PROVE  CountInv' /\ TaskInv' /\ Holders = {} /\ Holders' = {Caller}
<1> USE PoolAssumption DEF Threads
<1>1. ~Inside /\ Holders = {}
  BY DEF Run, Inside, PoolInv, CountInv
<1>2. Holders' = {Caller} /\ Inside'
  BY <1>1 DEF Run, NotifyAll, Holders, Inside, PoolInv, TypeOK
<1>3. Cardinality(Holders') = 1
  BY <1>2, FS_Singleton
<1>4. /\ n \in Nat /\ n > 0 /\ fn_' = gen_' /\ ntasks_' = n /\ pending_' = n /\ next_' = 1
      /\ task'[Caller] = 0
  BY DEF Run, PoolInv, TypeOK
<1>5. CountInv'
  BY <1>2, <1>3, <1>4 DEF CountInv, PendingIsOutstanding
<1>6. TaskInv'
  BY <1>2, <1>4 DEF TaskInv
<1> QED
  BY <1>1, <1>2, <1>5, <1>6

\* Every step keeps the counts and the tasks.
LEMMA CountSteps ==
    ASSUME PoolInv, [Next]_vars
    PROVE  CountInv' /\ TaskInv' /\ pending_' \in Nat
<1>1. CASE UNCHANGED vars
  <2>1. Holders' = Holders /\ (Inside' <=> Inside)
    BY <1>1 DEF vars, Holders, Inside
  <2> QED
    BY <1>1, <2>1, SteadyStep DEF Steady, vars, shared, PoolInv, TypeOK
<1>2. CASE Steady
  BY <1>2, SteadyStep DEF Steady, PoolInv, TypeOK
<1>3. ASSUME NEW w \in Workers, WorkerTakes(w) \/ WorkerReports(w)
      PROVE  CountInv' /\ TaskInv' /\ pending_' \in Nat
  BY <1>3, WorkerTakesStep, WorkerReportsStep DEF WorkerTakes, PoolInv, TypeOK
<1>4. CASE CallerReports
  BY <1>4, CallerReportsStep
<1>5. CASE CallerWakes /\ pending_ = 0
  BY <1>5, ReturnStep DEF CallerWakes, PoolInv, TypeOK
<1>6. ASSUME NEW n \in Sizes, Run(n) PROVE CountInv' /\ TaskInv' /\ pending_' \in Nat
  BY <1>6, RunStep, PoolAssumption DEF Run
<1> QED
  BY <1>1, <1>2, <1>3, <1>4, <1>5, <1>6, MoveSteps DEF Next, CallerStep, WorkerStep, Threads

LEMMA TypeSteps ==
    ASSUME PoolInv, [Next]_vars
    PROVE  TypeOK'
<1> USE PoolAssumption DEF PoolInv, TypeOK
<1>1. pc' \in [Threads -> Places] /\ pending_' \in Nat
  BY PlaceSteps, CountSteps
<1>2. ASSUME NEW t \in Threads, Invoke(t) \/ TaskEnds(t) \/ Spurious(t) PROVE TypeOK'
  BY <1>1, <1>2 DEF Invoke, TaskEnds, Spurious, shared
<1>3. ASSUME NEW w \in Workers, WorkerStep(w) PROVE TypeOK'
  BY <1>1, <1>2, <1>3 DEF WorkerStep, WorkerExits, WorkerTakes, WorkerSleeps, WorkerReports,
     TakeNext, shared, Threads
<1>4. CASE CallerReports \/ CallerWakes
  <2>1. UNCHANGED <<used, seen, gen_, stop_>>
    BY <1>4 DEF CallerReports, CallerWakes
  <2>2. task' \in [Threads -> Nat \cup {Nothing}] /\ next_' \in Nat
    BY <1>4 DEF CallerReports, CallerWakes, TakeNext
  <2>3. fn_' \in Nat \cup {Nothing} /\ ntasks_' \in Nat
    BY <1>4 DEF CallerReports, CallerWaits, CallerWakes, Returns
  <2> QED
    BY <1>1, <2>1, <2>2, <2>3
<1>5. ASSUME NEW n \in Sizes, Run(n) PROVE TypeOK'
  <2>1. n \in Nat /\ gen_ + 1 \in Nat
    BY <1>5 DEF Run
  <2>2. task' \in [Threads -> Nat \cup {Nothing}]
    BY <1>5 DEF Run
  <2>3. /\ fn_' = gen_ + 1 /\ ntasks_' = n /\ next_' = 1 /\ gen_' = gen_ + 1
        /\ UNCHANGED <<used, seen, stop_>>
    BY <1>5 DEF Run
  <2> QED
    BY <1>1, <2>1, <2>2, <2>3
<1>8. CASE CallerStep \/ Stop
  BY <1>1, <1>2, <1>4, <1>8 DEF CallerStep, NotifyStop, Joined, Stop, shared, Threads
<1>6. CASE UNCHANGED vars
  BY <1>6 DEF vars, shared
<1> QED
  BY <1>2, <1>3, <1>5, <1>6, <1>8 DEF Next

\* A thread that executes keeps its function, and gen_ does not change under it.
LEMMA UsedSteps ==
    ASSUME PoolInv, [Next]_vars
    PROVE  UsedInv'
<1> USE PoolAssumption DEF UsedInv, Threads
<1>1. ASSUME NEW t \in Threads, Invoke(t) PROVE UsedInv'
  <2>1. fn_ = gen_
    BY <1>1 DEF Invoke, PoolInv, CountInv, Holders
  <2> QED
    BY <1>1, <2>1 DEF Invoke, Goes, PoolInv, TypeOK, shared
<1>2. ASSUME NEW t \in Threads, TaskEnds(t) \/ Spurious(t) PROVE UsedInv'
  BY <1>2 DEF TaskEnds, Spurious, Goes, PoolInv, TypeOK, shared
<1>3. ASSUME NEW n \in Sizes, Run(n) PROVE UsedInv'
  <2>1. \A t \in Threads : pc'[t] # "exec"
    BY <1>3, RunStep DEF Holders, Run, NotifyAll, PoolInv, TypeOK
  <2> QED
    BY <2>1
<1>4. ASSUME UNCHANGED <<used, gen_>>, \A t \in Threads : pc'[t] = "exec" => pc[t] = "exec"
      PROVE  UsedInv'
  BY <1>4 DEF PoolInv
<1>5. ASSUME NEW w \in Workers, WorkerStep(w), ~Invoke(w), ~TaskEnds(w) PROVE UsedInv'
  BY <1>4, <1>5 DEF WorkerStep, WorkerExits, WorkerTakes, WorkerSleeps, WorkerReports, Goes,
     NotifyDone, PoolInv, TypeOK, shared
<1>6. CASE CallerReports \/ CallerWakes \/ NotifyStop \/ Joined \/ Stop
  BY <1>4, <1>6 DEF CallerReports, CallerWaits, CallerWakes, Returns, NotifyStop, NotifyAll,
     Joined, Stop, Goes, PoolInv, TypeOK, shared
<1>7. CASE UNCHANGED vars
  BY <1>4, <1>7 DEF vars, shared
<1> QED
  BY <1>1, <1>2, <1>3, <1>5, <1>6, <1>7 DEF Next, CallerStep

\* PoolInv is inductive.
LEMMA PoolStep == PoolInv /\ [Next]_vars => PoolInv'
  BY PlaceSteps, CountSteps, TypeSteps, UsedSteps DEF PoolInv

\* PoolInv holds in every reachable state of the pool.
THEOREM PoolInvariant == Spec => []PoolInv
  BY PoolInit, PoolStep, PTL DEF Spec

\* Every reachable state of the pool is well typed.
THEOREM TypeCorrect == Spec => []TypeOK
  BY PoolInvariant, PTL DEF PoolInv

\* NoStaleCall for every number of workers, tasks and calls: no thread executes
\* a function whose run() has returned.
THEOREM NoStaleCallHolds == Spec => []NoStaleCall
<1>1. PoolInv => NoStaleCall
  BY DEF PoolInv, NoStaleCall, UsedInv, CountInv, Holders
<1> QED
  BY <1>1, PoolInvariant, PTL

\* PendingIsOutstanding for every number of workers, tasks and calls.
THEOREM PendingIsOutstandingHolds == Spec => []PendingIsOutstanding
<1>1. PoolInv => PendingIsOutstanding
  BY DEF PoolInv, CountInv, PendingIsOutstanding
<1> QED
  BY <1>1, PoolInvariant, PTL

-----------------------------------------------------------------------------
\* The refinement: what ParallelFor sees of the pool.
Todo == (next_ .. ntasks_ - 1) \cup {task[t] : t \in {u \in Threads : pc[u] = "take"}}
Busy == [t \in Threads |-> IF pc[t] = "exec" THEN <<used[t], task[t]>> ELSE Nothing]
Seen == <<gen_, Inside, Todo, Busy>>

LEMMA SeenIsPool == Pool!vars = Seen
  BY DEF Pool!vars, Seen, Todo, Busy

\* The same threads take and execute the same tasks: nothing to see.
LEMMA StutterStep ==
    ASSUME Todo' = Todo, UNCHANGED <<gen_, used, task>>, Inside' <=> Inside,
           \A t \in Threads : pc'[t] = "exec" <=> pc[t] = "exec"
    PROVE  Seen' = Seen
<1>1. Busy' = Busy
  BY DEF Busy
<1>2. Inside' = Inside
  BY DEF Inside
<1> QED
  BY <1>1, <1>2 DEF Seen

LEMMA InvokeRefines ==
    ASSUME PoolInv, NEW t \in Threads, Invoke(t)
    PROVE  Pool!Execute(t)
<1>1. pc[t] = "take" /\ t \in Holders /\ UNCHANGED <<task, next_, ntasks_, gen_>>
      /\ pc' = [pc EXCEPT ![t] = "exec"]
  BY DEF Invoke, Goes, Holders, shared
<1>2. used' = [used EXCEPT ![t] = gen_]
  BY <1>1 DEF Invoke, PoolInv, CountInv, TypeOK
<1>3. Inside' = Inside
  BY <1>1, PoolAssumption DEF Inside, PoolInv, TypeOK, PlaceInv, Threads
<1>4. Busy[t] = Nothing /\ Busy' = [Busy EXCEPT ![t] = <<gen_, task[t]>>]
  BY <1>1, <1>2 DEF Busy, PoolInv, TypeOK
<1>5. task[t] \in Todo
  BY <1>1 DEF Todo
<1>6. Todo' = Todo \ {task[t]}
  <2>1. task[t] \notin next_ .. ntasks_ - 1
    BY <1>1 DEF PoolInv, TaskInv, TypeOK
  <2>2. \A u \in Threads : pc[u] = "take" /\ task[u] = task[t] => u = t
    BY <1>1 DEF PoolInv, TaskInv, Holders
  <2>3. \A u \in Threads : pc'[u] = "take" <=> pc[u] = "take" /\ u # t
    BY <1>1 DEF PoolInv, TypeOK
  <2> QED
    BY <1>1, <2>1, <2>2, <2>3 DEF Todo
<1> QED
  BY <1>1, <1>3, <1>4, <1>5, <1>6 DEF Pool!Execute, Todo, Busy

LEMMA TaskEndsRefines ==
    ASSUME PoolInv, NEW t \in Threads, TaskEnds(t)
    PROVE  Pool!Complete(t)
<1>1. pc[t] = "exec" /\ UNCHANGED <<task, next_, ntasks_, gen_>>
      /\ pc' = [pc EXCEPT ![t] = "relock"] /\ used' = [used EXCEPT ![t] = Nothing]
  BY DEF TaskEnds, Goes, shared
<1>2. Inside' = Inside
  BY <1>1, PoolAssumption DEF Inside, PoolInv, TypeOK, PlaceInv, Threads
<1>3. Busy[t] # Nothing /\ Busy' = [Busy EXCEPT ![t] = Nothing]
  <2>1. used[t] \in Nat /\ task[t] \in Nat
    BY <1>1 DEF PoolInv, UsedInv, TypeOK, TaskInv, Holders
  <2>2. Busy[t] = <<used[t], task[t]>>
    BY <1>1 DEF Busy
  <2>3. Busy[t] # Nothing
    BY <2>1, <2>2, PoolAssumption
  <2>4. Busy' = [Busy EXCEPT ![t] = Nothing]
    BY <1>1 DEF Busy, PoolInv, TypeOK
  <2> QED
    BY <2>3, <2>4
<1>4. Todo' = Todo
  BY <1>1 DEF Todo, PoolInv, TypeOK
<1> QED
  BY <1>1, <1>2, <1>3, <1>4 DEF Pool!Complete, Todo, Busy

\* A thread takes the next task: it is still to do.
LEMMA TakeRefines ==
    ASSUME PoolInv, NEW t \in Threads, TakeNext(t), next_ < ntasks_,
           pc' = [pc EXCEPT ![t] = "take"] \/
             (NotifyDone(t, "take") /\ t \in Workers),
           pc[t] \notin {"take", "exec"}, Inside' <=> Inside,
           UNCHANGED <<ntasks_, gen_, used>>
    PROVE  Seen' = Seen
<1> USE DEF PoolInv, TypeOK, TakeNext
<1>1. \A u \in Threads : pc'[u] = "take" <=> pc[u] = "take" \/ u = t
  BY DEF NotifyDone
<1>2. \A u \in Threads : pc'[u] = "exec" <=> pc[u] = "exec"
  BY DEF NotifyDone
<1>3. next_ .. ntasks_ - 1 = {next_} \cup (next_' .. ntasks_' - 1)
  OBVIOUS
<1>4. \A u \in Threads : task'[u] = IF u = t THEN next_ ELSE task[u]
  OBVIOUS
<1>5. Todo' = Todo
  BY <1>1, <1>3, <1>4 DEF Todo
<1>6. Busy' = Busy
  BY <1>2, <1>4 DEF Busy
<1>7. Inside' = Inside
  BY DEF Inside
<1> QED
  BY <1>5, <1>6, <1>7 DEF Seen

\* The steps of a worker that the client of the pool does not see.
LEMMA WorkerRefines ==
    ASSUME PoolInv, NEW w \in Workers,
           WorkerExits(w) \/ WorkerTakes(w) \/ WorkerSleeps(w) \/ WorkerReports(w)
    PROVE  Seen' = Seen
<1> USE PoolAssumption DEF Threads
<1>1. CASE WorkerTakes(w)
  <2>1. Inside' <=> Inside
    BY <1>1, WorkerTakesStep
  <2> QED
    BY <1>1, <2>1, TakeRefines DEF WorkerTakes, Looks, Goes
<1>2. CASE WorkerExits(w) \/ WorkerSleeps(w)
  <2>1. /\ pc[w] \in {"start", "woken"} /\ pc'[w] \in {"exited", "wait"}
        /\ pc' = [pc EXCEPT ![w] = pc'[w]] /\ UNCHANGED <<task, used, next_, ntasks_, gen_>>
    BY <1>2 DEF WorkerExits, WorkerSleeps, Looks, Goes, PoolInv, TypeOK, shared
  <2>2. Todo' = Todo /\ (Inside' <=> Inside)
    BY <2>1 DEF Todo, Inside, PoolInv, TypeOK
  <2> QED
    BY <2>1, <2>2, StutterStep DEF PoolInv, TypeOK
<1>3. CASE WorkerReports(w)
  <2>1. Inside' <=> Inside
    BY <1>3 DEF WorkerReports, NotifyDone, Goes, Inside, PoolInv, TypeOK
  <2>2. pc[w] = "relock" /\ UNCHANGED <<used, ntasks_, gen_>>
    BY <1>3 DEF WorkerReports
  <2>3. CASE next_ < ntasks_
    <3>1. TakeNext(w) /\ (NotifyDone(w, "take") \/ Goes(w, "take"))
      BY <1>3, <2>3 DEF WorkerReports
    <3> QED
      BY <2>1, <2>2, <2>3, <3>1, TakeRefines DEF Goes
  <2>4. CASE ~(next_ < ntasks_)
    <3>1. UNCHANGED <<task, next_>>
      BY <1>3, <2>4 DEF WorkerReports
    <3>2. \A u \in Threads : /\ pc'[u] = "take" <=> pc[u] = "take"
                             /\ pc'[u] = "exec" <=> pc[u] = "exec"
      BY <1>3, <2>4 DEF WorkerReports, NotifyDone, Goes, PoolInv, TypeOK
    <3>3. Todo' = Todo
      BY <2>2, <3>1, <3>2 DEF Todo
    <3> QED
      BY <2>1, <2>2, <3>1, <3>2, <3>3, StutterStep
  <2> QED
    BY <2>3, <2>4
<1> QED
  BY <1>1, <1>2, <1>3

LEMMA ReturnRefines ==
    ASSUME PoolInv, Returns, pending_' \in Nat, UNCHANGED <<next_, gen_, used, task>>,
           \/ pc[Caller] = "relock" /\ next_ >= ntasks_ /\ pending_ = 1
           \/ pc[Caller] = "wokendone" /\ pending_ = 0
    PROVE  Pool!Return
<1> USE DEF Threads
<1>1. Inside /\ ~Inside' /\ next_ = ntasks_ /\ Holders' = {}
  BY ReturnIsLast, ReturnStep
<1>2. \A t \in Threads : pc[t] \notin {"take", "exec"} /\ pc'[t] \notin {"take", "exec"}
  BY <1>1, ReturnIsLast DEF Holders
<1>3. Todo = {} /\ Todo' = {}
  BY <1>1, <1>2 DEF Todo, Returns, PoolInv, TypeOK
<1>4. Busy = [t \in Threads |-> Nothing] /\ Busy' = Busy
  BY <1>2 DEF Busy
<1>5. Inside' = FALSE
  BY <1>1 DEF Inside
<1>6. \A t \in Threads : Busy[t] = Nothing
  BY <1>4
<1> QED
  BY <1>1, <1>3, <1>4, <1>5, <1>6 DEF Pool!Return, Todo, Busy

LEMMA RunRefines ==
    ASSUME PoolInv, NEW n \in Sizes, Run(n)
    PROVE  Pool!Begin
<1> USE PoolAssumption DEF Threads
<1>1. Holders = {} /\ Holders' = {Caller} /\ ~Inside
  BY RunStep DEF Run, Inside
<1>2. /\ n \in Nat /\ n > 0 /\ ntasks_' = n /\ next_' = 1 /\ gen_' = gen_ + 1
      /\ task'[Caller] = 0 /\ UNCHANGED used
  BY DEF Run, PoolInv, TypeOK
<1>3. pc'[Caller] = "take" /\ \A t \in Threads : pc'[t] # "exec" /\ (pc'[t] = "take" => t = Caller)
  BY <1>1 DEF Run, NotifyAll, Holders, PoolInv, TypeOK
<1>4. Todo' = 0 .. n - 1
  BY <1>2, <1>3 DEF Todo
<1>5. Busy' = Busy
  BY <1>1, <1>3 DEF Busy, Holders
<1>6. Inside' = TRUE
  BY <1>3 DEF Inside
<1> QED
  BY <1>1, <1>2, <1>4, <1>5, <1>6 DEF Pool!Begin, Todo, Busy

LEMMA InitRefines == Init => Pool!Init
<1> SUFFICES ASSUME Init PROVE Pool!Init
  OBVIOUS
<1>1. Inside = FALSE /\ \A t \in Threads : pc[t] \notin {"take", "exec"}
  BY PoolAssumption DEF Init, Inside, Threads
<1>2. Todo = {}
  BY <1>1 DEF Todo, Init
<1>3. Busy = [t \in Threads |-> Nothing]
  BY <1>1 DEF Busy
<1> QED
  BY <1>1, <1>2, <1>3 DEF Pool!Init, Todo, Busy, Init

\* The steps of the caller between Begin and Return, and outside a call.
LEMMA CallerRefines ==
    ASSUME PoolInv, CallerReports \/ CallerWakes \/ NotifyStop \/ Joined \/ Stop
    PROVE  Pool!Return \/ Seen' = Seen
<1> USE PoolAssumption DEF Threads
<1>1. CASE CallerReports
  <2>1. pc[Caller] = "relock" /\ pending_' = pending_ - 1 /\ UNCHANGED <<gen_, used>>
    BY <1>1 DEF CallerReports
  <2>2. CASE next_ < ntasks_ /\ TakeNext(Caller) /\ Goes(Caller, "take") /\ UNCHANGED <<fn_, ntasks_>>
    <3>1. Inside' <=> Inside
      BY <2>1, <2>2 DEF Goes, Inside, PoolInv, TypeOK
    <3> QED
      BY <2>1, <2>2, <3>1, TakeRefines DEF Goes
  <2>3. CASE next_ >= ntasks_ /\ pending_ = 1 /\ Returns /\ UNCHANGED <<task, next_>>
    BY <2>1, <2>3, ReturnRefines
  <2>4. CASE /\ Goes(Caller, "waitdone") /\ UNCHANGED <<fn_, ntasks_>> /\ UNCHANGED <<task, next_>>
    <3>1. Todo' = Todo /\ (Inside' <=> Inside)
      BY <2>1, <2>4 DEF Goes, Todo, Inside, PoolInv, TypeOK
    <3> QED
      BY <2>1, <2>4, <3>1, StutterStep DEF Goes, PoolInv, TypeOK
  <2> QED
    BY <1>1, <2>2, <2>3, <2>4 DEF CallerReports, CallerWaits
<1>2. CASE CallerWakes /\ pending_ = 0
  BY <1>2, ReturnRefines DEF CallerWakes, PoolInv, TypeOK
<1>3. CASE CallerWakes /\ pending_ # 0
  <2>1. pc[Caller] = "wokendone" /\ pc' = [pc EXCEPT ![Caller] = "waitdone"]
        /\ UNCHANGED <<task, used, next_, ntasks_, gen_>>
    BY <1>3 DEF CallerWakes, Goes
  <2>2. Todo' = Todo /\ (Inside' <=> Inside)
    BY <2>1 DEF Todo, Inside, PoolInv, TypeOK
  <2> QED
    BY <2>1, <2>2, StutterStep DEF PoolInv, TypeOK
<1>4. CASE NotifyStop \/ Joined \/ Stop
  <2>1. /\ UNCHANGED <<task, used, next_, ntasks_, gen_>>
        /\ \A t \in Threads : /\ pc'[t] = "take" <=> pc[t] = "take"
                              /\ pc'[t] = "exec" <=> pc[t] = "exec"
    BY <1>4 DEF NotifyStop, NotifyAll, Joined, Stop, Goes, PoolInv, TypeOK, shared
  <2>2. Inside' <=> Inside
    BY <1>4 DEF NotifyStop, NotifyAll, Joined, Stop, Goes, Inside, PoolInv, TypeOK
  <2>3. Todo' = Todo
    BY <2>1 DEF Todo
  <2> QED
    BY <2>1, <2>2, <2>3, StutterStep
<1> QED
  BY <1>1, <1>2, <1>3, <1>4

LEMMA SpuriousRefines ==
    ASSUME PoolInv, NEW t \in Threads, Spurious(t)
    PROVE  Seen' = Seen
<1>1. /\ UNCHANGED <<task, used, next_, ntasks_, gen_>>
      /\ pc[t] \in {"wait", "waitdone"} /\ pc'[t] \in {"woken", "wokendone"}
      /\ pc' = [pc EXCEPT ![t] = pc'[t]]
  BY DEF Spurious, Goes, PoolInv, TypeOK, shared
<1>2. Inside' <=> Inside
  BY PoolAssumption DEF Spurious, Goes, Inside, PoolInv, TypeOK, PlaceInv, Threads
<1>3. Todo' = Todo
  BY <1>1 DEF Todo, PoolInv, TypeOK
<1> QED
  BY <1>1, <1>2, <1>3, StutterStep DEF PoolInv, TypeOK

LEMMA StepRefines == PoolInv /\ [Next]_vars => [Pool!Next]_Pool!vars
<1> SUFFICES ASSUME PoolInv, [Next]_vars PROVE Pool!Next \/ Seen' = Seen
  BY SeenIsPool DEF Seen, Todo, Busy, Pool!vars
<1>1. ASSUME NEW w \in Workers, WorkerStep(w) PROVE Pool!Next \/ Seen' = Seen
  BY <1>1, InvokeRefines, TaskEndsRefines, WorkerRefines DEF WorkerStep, Pool!Next, Threads
<1>2. CASE CallerStep \/ Stop
  BY <1>2, InvokeRefines, TaskEndsRefines, CallerRefines DEF CallerStep, Pool!Next, Threads
<1>3. ASSUME NEW n \in Sizes, Run(n) PROVE Pool!Next \/ Seen' = Seen
  BY <1>3, RunRefines DEF Pool!Next
<1>4. ASSUME NEW t \in Threads, Spurious(t) PROVE Pool!Next \/ Seen' = Seen
  BY <1>4, SpuriousRefines
<1>5. CASE UNCHANGED vars
  BY <1>5 DEF vars, shared, Seen, Inside, Todo, Busy
<1> QED
  BY <1>1, <1>2, <1>3, <1>4, <1>5 DEF Next

\* ImplementsParallelFor for every number of workers, tasks and calls: run()
\* executes each task of a call once and returns when all of them are done.
THEOREM ImplementsParallelForHolds == Spec => ImplementsParallelFor
  BY InitRefines, StepRefines, PoolInvariant, PTL DEF Spec, ImplementsParallelFor, Pool!Spec
=============================================================================
