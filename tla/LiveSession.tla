----------------------------- MODULE LiveSession ----------------------------
(***************************************************************************)
(* The segment source of a live session: LiveSession.segments() of         *)
(* backend/session/live.py with its producer thread, its pool of worker    *)
(* processes and, for Start Now, the planning of the first segment with    *)
(* session/play_schedule.py.                                               *)
(*                                                                         *)
(* The consumer is the generator that transmit.stream() iterates; the      *)
(* operator jogs, shifts time and stops.  A segment is described by its    *)
(* number k, the plan (T_play) its time is relative to, the operator's     *)
(* state it was requested with and the segment its digital gain was        *)
(* measured on; the samples are left out.  Workers may finish in any order *)
(* but the producer only looks at the oldest request.                      *)
(***************************************************************************)
EXTENDS Integers, Sequences

CONSTANTS
    None,        \* Python's None
    Error,       \* an exception object in the queue
    Prefetch,    \* _PREFETCH: segments the queue `out` holds
    Modes,       \* how a session may be created: a set of [workers, scheduled]
    MaxAttempts, \* PlaySchedule.max_attempts
    Failures,    \* what generation may do, see FailureKinds
    MaxSegments, \* bound: segments requested in one session
    MaxView      \* bound: jogs and time shifts in one session

\* error: an exception that is retried; fatal: a RuntimeError, which is not;
\* crash: a worker process dies and the pool refuses every later request.
FailureKinds == {"error", "fatal", "crash"}
Strikes == 3     \* failures in a row that end a session

\* An attempt that failed is planned again, also after the last one.
Plans == 0..(MaxAttempts + Strikes)
Views == 0..MaxView
Numbers == 0..MaxSegments
Gains == (Plans \X Numbers) \cup {None}
Segment == [k : Numbers, plan : Plans, view : Views, gain : Gains]

ASSUME SessionAssumption ==
    /\ Prefetch \in Nat \ {0}
    /\ Modes \subseteq [workers : Nat \ {0}, scheduled : BOOLEAN]
    /\ MaxAttempts \in Nat \ {0}
    /\ Failures \subseteq FailureKinds
    /\ MaxSegments \in Nat \ {0}
    /\ MaxView \in Nat
    /\ None \notin Plans \X Numbers
    /\ None # Error /\ {None, Error} \cap Segment = {}

VARIABLES
    mode,        \* workers: _workers, 1 is the producer without a pipeline;
                 \* scheduled: a Start Now, `schedule` is not None
    running,     \* LiveSession.running
    view,        \* LiveSession.state, as the number of changes made to it
    plan,        \* schedule.attempts: the T_play that base_req.start names
    gain,        \* _air_gain: what it was measured on, or None
    pool,        \* the worker pool: "none", "idle" without a process yet,
                 \* "up", "broken" or "down"
    out,         \* the queue `out` of segments and, last, an error
    \* --- the producer thread
    maker,       \* where it is
    kSubmit,     \* k_submit (k of the producer without a pipeline)
    inflight,    \* requests whose result was not taken, oldest first
    strikes,     \* failures in a row (errors, consecutive_errors)
    hand,        \* what it is about to put into `out`, or None
    \* --- the consumer
    taker,       \* where segments() is
    first,       \* segment 0 of a Start Now while it is planned and held
    \* --- history, read by the properties only
    sent,        \* the segments handed to transmit.stream()
    stopped,     \* somebody called stop()
    jogged       \* jogged[v]: the length of `sent` at the v-th change

sessionVars == <<mode, running, view, plan, gain, pool, out>>
makerVars == <<maker, kSubmit, inflight, strikes, hand>>
takerVars == <<taker, first>>
pastVars == <<sent, stopped, jogged>>
vars == <<sessionVars, makerVars, takerVars, pastVars>>

Init ==
    /\ mode \in Modes
    /\ running = FALSE /\ view = 0 /\ plan = 0 /\ gain = None
    /\ pool = "none" /\ out = <<>>
    /\ maker = "none" /\ kSubmit = 0 /\ inflight = <<>> /\ strikes = 0
    /\ hand = None
    /\ taker = "new" /\ first = None
    /\ sent = <<>> /\ stopped = FALSE /\ jogged = <<>>

\* th.is_alive() of the producer.
\* Mutant: nobody asks.
NeverDead == FALSE
MakerDead == maker \in {"none", "dead"}
Ended == {"returned", "raised", "closed"}

\* What _segment_request(k, snap) asks for now ...
Request(k) == [k |-> k, plan |-> plan, view |-> view, gain |-> gain]
\* ... and what a worker returns: without a gain it measures one.
Made(r) == [r EXCEPT !.gain = IF @ = None THEN <<r.plan, r.k>> ELSE @]

-----------------------------------------------------------------------------
(* segments(): the generator in the stream thread.                           *)

\* `finally`: the session is over and the pool is shut down.
End(t) ==
    /\ taker' = t
    /\ running' = FALSE
    /\ pool' = "down"

\* The producer thread starts with segment k0.
StartMaker(k0) ==
    /\ maker' = "top"
    /\ kSubmit' = k0
    /\ strikes' = 0
    /\ UNCHANGED <<inflight, hand>>

\* The first next(): a stop that came before it is forgotten.  The pool is
\* made; its processes start with the warm-up of a Start Now or with the first
\* request.
Start ==
    /\ taker = "new"
    /\ running' = TRUE
    /\ IF mode.scheduled
       THEN pool' = "up" /\ taker' = "plan" /\ UNCHANGED makerVars
       ELSE pool' = "idle" /\ taker' = "loop" /\ StartMaker(0)
    /\ UNCHANGED <<mode, view, plan, gain, out, first, pastVars>>

FreshGain == None

\* _scheduled_first_segment(): choose T_play, request segment 0 for it.
PlanStart ==
    /\ taker = "plan"
    /\ running
    /\ plan' = plan + 1
    /\ gain' = FreshGain
    /\ first' = [k |-> 0, plan |-> plan + 1, view |-> view, gain |-> FreshGain]
    /\ taker' = "first"
    /\ UNCHANGED <<mode, running, view, pool, out, makerVars, pastVars>>

\* The warm-up task of a worker failed.
WarmFails ==
    /\ taker = "plan"
    /\ plan = 0
    /\ "fatal" \in Failures \/ pool = "broken"
    /\ End("raised")
    /\ UNCHANGED <<mode, view, plan, gain, out, makerVars, first, pastVars>>

PlanStopped ==
    /\ taker = "plan"
    /\ ~running
    /\ End("returned")
    /\ UNCHANGED <<mode, view, plan, gain, out, makerVars, first, pastVars>>

\* Segment 0 is there, in time or on the last attempt: the producer goes on
\* with segment 1 while the consumer holds segment 0 until T_play.
FirstReady ==
    /\ taker = "first"
    /\ first' = Made(first)
    /\ gain' = Made(first).gain
    /\ taker' = "hold"
    /\ StartMaker(1)
    /\ UNCHANGED <<mode, running, view, plan, pool, out, pastVars>>

\* It is late: dropped and planned again.
\* Mutant: however many attempts there have been.
AlwaysReplans == TRUE
MayReplan == plan < MaxAttempts

FirstLate ==
    /\ taker = "first"
    /\ MayReplan
    /\ gain' = Made(first).gain
    /\ first' = None
    /\ taker' = "plan"
    /\ UNCHANGED <<mode, running, view, plan, pool, out, makerVars, pastVars>>

\* Its generation failed; the third failure, or a RuntimeError, is raised.
FirstFails ==
    /\ taker = "first"
    /\ "error" \in Failures
    /\ first' = None
    /\ strikes' = strikes + 1
    /\ IF strikes' < Strikes THEN taker' = "plan" /\ UNCHANGED <<running, pool>>
                             ELSE End("raised")
    /\ UNCHANGED <<mode, view, plan, gain, out, maker, kSubmit, inflight, hand, pastVars>>

FirstRaises ==
    /\ taker = "first"
    /\ "fatal" \in Failures \/ pool = "broken"
    /\ first' = None
    /\ End("raised")
    /\ UNCHANGED <<mode, view, plan, gain, out, makerVars, pastVars>>

\* Segment 0 is released; with hold=False the stream thread holds it instead.
ReleaseFirst ==
    /\ taker = "hold"
    /\ sent' = Append(sent, first)
    /\ first' = None
    /\ taker' = "yielded"
    /\ UNCHANGED <<sessionVars, makerVars, stopped, jogged>>

HoldStopped ==
    /\ taker = "hold"
    /\ ~running
    /\ End("returned")
    /\ UNCHANGED <<mode, view, plan, gain, out, makerVars, first, pastVars>>

\* The stream thread asks for the next segment, or drops the generator.
Resume ==
    /\ taker = "yielded"
    /\ taker' = "loop"
    /\ UNCHANGED <<sessionVars, makerVars, first, pastVars>>

Close ==
    /\ taker = "yielded"
    /\ End("closed")
    /\ UNCHANGED <<mode, view, plan, gain, out, makerVars, first, pastVars>>

LoopStops ==
    /\ taker = "loop"
    /\ ~running
    /\ End("returned")
    /\ UNCHANGED <<mode, view, plan, gain, out, makerVars, first, pastVars>>

LoopGets ==
    /\ taker = "loop"
    /\ running
    /\ taker' = "get"
    /\ UNCHANGED <<sessionVars, makerVars, first, pastVars>>

GetSegment ==
    /\ taker = "get"
    /\ out # <<>>
    /\ Head(out) # Error
    /\ out' = Tail(out)
    /\ sent' = Append(sent, Head(out))
    /\ taker' = "yielded"
    /\ UNCHANGED <<mode, running, view, plan, gain, pool, makerVars, first, stopped, jogged>>

GetError ==
    /\ taker = "get"
    /\ out # <<>>
    /\ Head(out) = Error
    /\ out' = Tail(out)
    /\ End("raised")
    /\ UNCHANGED <<mode, view, plan, gain, makerVars, first, pastVars>>

\* get() timed out; whether the producer lives is looked up after that.
GetEmpty ==
    /\ taker = "get"
    /\ out = <<>>
    /\ taker' = "empty"
    /\ UNCHANGED <<sessionVars, makerVars, first, pastVars>>

EmptyAlive ==
    /\ taker = "empty"
    /\ ~MakerDead
    /\ taker' = "loop"
    /\ UNCHANGED <<sessionVars, makerVars, first, pastVars>>

EmptyDead ==
    /\ taker = "empty"
    /\ MakerDead
    /\ End("returned")
    /\ UNCHANGED <<mode, view, plan, gain, out, makerVars, first, pastVars>>

-----------------------------------------------------------------------------
(* _producer() and _producer_pipelined(): the background thread.             *)

MakerAt(p) == maker' = p
MakerKeeps == UNCHANGED <<mode, running, view, plan, pool, takerVars, pastVars>>

TopStops ==
    /\ maker = "top"
    /\ ~running
    /\ MakerAt("dead")
    /\ UNCHANGED <<gain, out, kSubmit, inflight, strikes, hand>>
    /\ MakerKeeps

TopGoes ==
    /\ maker = "top"
    /\ running
    /\ kSubmit < MaxSegments \/ inflight # <<>>      \* the bound
    /\ MakerAt("fill")
    /\ UNCHANGED <<gain, out, kSubmit, inflight, strikes, hand>>
    /\ MakerKeeps

\* Segment 0 goes alone: it fixes the gain every later request carries.
\* Mutant: nobody waits for it.
NotAlone(k) == FALSE
GoesAlone(k) == k = 0
Wanted ==
    IF mode.workers = 1 THEN inflight = <<>>
    ELSE /\ Len(inflight) < mode.workers
         /\ running
         /\ inflight # <<>> \/ kSubmit = 0 \/ gain # None

\* The state is copied under its lock for every request.
\* Mutant: it is read once, when the producer starts.
FirstView(k) == [Request(k) EXCEPT !.view = 0]
Snapshot(k) == Request(k)

Submit ==
    /\ maker = "fill"
    /\ Wanted
    /\ kSubmit < MaxSegments
    /\ pool \in {"idle", "up"}
    /\ pool' = "up"
    /\ inflight' = Append(inflight, Snapshot(kSubmit))
    /\ kSubmit' = kSubmit + 1
    /\ MakerAt(IF mode.workers = 1 \/ GoesAlone(kSubmit) THEN "await" ELSE "fill")
    /\ UNCHANGED <<mode, running, view, plan, gain, out, strikes, hand, takerVars,
                   pastVars>>

\* The pool refuses: it is broken or shut down.  The pipelined producer ends,
\* by `return` or by the exception; the other one passes the exception on.
SubmitRefused ==
    /\ maker = "fill"
    /\ Wanted
    /\ kSubmit < MaxSegments
    /\ pool \in {"broken", "down"}
    /\ IF mode.workers = 1 THEN MakerAt("raise") /\ hand' = Error
                      ELSE MakerAt("dead") /\ UNCHANGED hand
    /\ UNCHANGED <<gain, out, kSubmit, inflight, strikes>>
    /\ MakerKeeps

Filled ==
    /\ maker = "fill"
    /\ ~Wanted \/ kSubmit = MaxSegments
    /\ MakerAt(IF inflight = <<>> THEN "dead" ELSE "await")
    /\ UNCHANGED <<gain, out, kSubmit, inflight, strikes, hand>>
    /\ MakerKeeps

Oldest == inflight[1]

ResultArrives ==
    /\ maker = "await"
    /\ hand' = Made(Oldest)
    /\ gain' = IF gain = None THEN Made(Oldest).gain ELSE gain
    /\ inflight' = Tail(inflight)
    /\ strikes' = 0
    /\ MakerAt("put")
    /\ UNCHANGED <<out, kSubmit>>
    /\ MakerKeeps

\* The oldest request failed (or was cancelled with the pool): everything
\* queued behind it is dropped and requested again, "time must not skip".
\* Mutant: the requests go on where they were.
GoesOn(k) == kSubmit
RedoFrom(k) == k
MayRetry == strikes + 1 < Strikes

ResultFails ==
    /\ maker = "await"
    /\ "error" \in Failures \/ pool = "down"
    /\ IF MayRetry
       THEN /\ strikes' = strikes + 1
            /\ inflight' = <<>>
            /\ kSubmit' = RedoFrom(Oldest.k)
            /\ MakerAt("top")
            /\ UNCHANGED hand
       ELSE MakerAt("raise") /\ hand' = Error /\ UNCHANGED <<strikes, inflight, kSubmit>>
    /\ UNCHANGED <<gain, out>>
    /\ MakerKeeps

ResultRaises ==
    /\ maker = "await"
    /\ "fatal" \in Failures \/ pool = "broken"
    /\ MakerAt("raise")
    /\ hand' = Error
    /\ UNCHANGED <<gain, out, kSubmit, inflight, strikes>>
    /\ MakerKeeps

\* put() with its timeout; the session is looked at before every try.
\* Mutant: it is not.
TriesAnyway == TRUE
MayPut == running

PutTries ==
    /\ maker = "put"
    /\ MakerAt(IF MayPut THEN "putting" ELSE "dead")
    /\ UNCHANGED <<gain, out, kSubmit, inflight, strikes, hand>>
    /\ MakerKeeps

Full == Len(out) >= Prefetch

PutSegment ==
    /\ maker = "putting"
    /\ ~Full
    /\ out' = Append(out, hand)
    /\ hand' = None
    /\ MakerAt("top")
    /\ UNCHANGED <<gain, kSubmit, inflight, strikes>>
    /\ MakerKeeps

PutTimesOut ==
    /\ maker = "putting"
    /\ Full
    /\ MakerAt("put")
    /\ UNCHANGED <<gain, out, kSubmit, inflight, strikes, hand>>
    /\ MakerKeeps

\* out.put(ex) has no timeout.
PutError ==
    /\ maker = "raise"
    /\ ~Full
    /\ out' = Append(out, Error)
    /\ hand' = None
    /\ MakerAt("dead")
    /\ UNCHANGED <<gain, kSubmit, inflight, strikes>>
    /\ MakerKeeps

-----------------------------------------------------------------------------
(* The operator and the worker processes.                                    *)

Stop ==
    /\ running \/ (taker = "new" /\ ~stopped)
    /\ running' = FALSE
    /\ stopped' = TRUE
    /\ UNCHANGED <<mode, view, plan, gain, pool, out, makerVars, takerVars, sent, jogged>>

\* jog() or shift_time().
Jog ==
    /\ view < MaxView
    /\ taker \notin Ended
    /\ view' = view + 1
    /\ jogged' = Append(jogged, Len(sent))
    /\ UNCHANGED <<mode, running, plan, gain, pool, out, makerVars, takerVars, sent, stopped>>

\* A worker process dies.  There is one once something was submitted.
Crash ==
    /\ "crash" \in Failures
    /\ pool = "up"
    /\ pool' = "broken"
    /\ UNCHANGED <<mode, running, view, plan, gain, out, makerVars, takerVars, pastVars>>

TakerStep ==
    \/ Start \/ WarmFails \/ PlanStart \/ PlanStopped
    \/ FirstReady \/ FirstLate \/ FirstFails \/ FirstRaises
    \/ ReleaseFirst \/ HoldStopped \/ Resume
    \/ LoopStops \/ LoopGets \/ GetSegment \/ GetError \/ GetEmpty
    \/ EmptyAlive \/ EmptyDead

MakerStep ==
    \/ TopStops \/ TopGoes \/ Submit \/ SubmitRefused \/ Filled
    \/ ResultArrives \/ ResultFails \/ ResultRaises
    \/ PutTries \/ PutSegment \/ PutTimesOut \/ PutError

\* The generator is gone; a producer that has an error to report and no room
\* for it stays for ever.
Over ==
    /\ taker \in Ended
    /\ maker \in {"none", "dead"} \/ (maker = "raise" /\ Full)
    /\ UNCHANGED vars

Next == TakerStep \/ Close \/ MakerStep \/ Stop \/ Jog \/ Crash \/ Over

Spec == Init /\ [][Next]_vars

\* Both threads run, generation answers, the stream thread asks on.
Fairness == WF_vars(TakerStep) /\ WF_vars(MakerStep)
FairSpec == Spec /\ Fairness

-----------------------------------------------------------------------------
(* Properties                                                               *)

SessionTypeOK ==
    /\ mode \in Modes
    /\ running \in BOOLEAN /\ view \in Views /\ plan \in Plans /\ gain \in Gains
    /\ pool \in {"none", "idle", "up", "broken", "down"}
    /\ out \in Seq(Segment \cup {Error})
    /\ sent \in Seq(Segment) /\ stopped \in BOOLEAN /\ jogged \in Seq(Nat)

ThreadTypeOK ==
    /\ maker \in {"none", "top", "fill", "await", "put", "putting", "raise", "dead"}
    /\ kSubmit \in Numbers
    /\ inflight \in Seq(Segment)
    /\ strikes \in 0..Strikes
    /\ hand \in Segment \cup {None, Error}
    /\ taker \in {"new", "plan", "first", "hold", "yielded", "loop", "get", "empty"} \cup Ended
    /\ first \in Segment \cup {None}

TypeOK == SessionTypeOK /\ ThreadTypeOK

\* The time on air advances strictly: segments reach the device as 0, 1, 2, ...
\* whatever failed and was requested again, all of them relative to the T_play
\* that was chosen last, none from an attempt that was given up.
TimeAdvances ==
    \A i \in DOMAIN sent : sent[i].k = i - 1 /\ sent[i].plan = plan

\* One digital gain for the whole session, the one measured on the segment 0
\* that is played, also when several workers generate ahead of it.
OneLevel ==
    \A i \in DOMAIN sent : sent[i].gain = <<sent[i].plan, 0>>

\* Segments that may still carry an older state of the operator: those queued,
\* requested, in hand or held.
Ahead == Prefetch + mode.workers + (IF mode.scheduled THEN 1 ELSE 0)

\* A jog or time shift is on the air after at most Ahead segments, and is
\* never taken back by a later segment.
JogsArrive ==
    /\ \A i \in DOMAIN sent : \A v \in 1..view :
           i > jogged[v] + Ahead => sent[i].view >= v
    /\ \A i, j \in DOMAIN sent : i < j => sent[i].view <= sent[j].view

\* A session that is started keeps delivering until it ends: re-planning,
\* retries and the pipeline never leave the two threads waiting for each other.
KeepsPlaying ==
    taker = "plan" \/ taker = "loop" ~> taker \in Ended \/ Len(sent) = MaxSegments

\* A stop ends the generator, and the producer at once or when it has an error
\* to report.
StopEndsSession ==
    ~running /\ taker # "new" ~> taker \in Ended /\ maker \in {"none", "dead", "raise"}

-----------------------------------------------------------------------------
(* What the code's own comments say and the code does not keep.             *)

\* live.py:566: the generator "Stops (StopIteration) once self.running is set
\* False by the caller"; any other end is an exception.  An error that is still
\* in the queue is left aside: put there between the time-out of get() and
\* is_alive(), it is lost too, but the producer did report it.
ReturnsWhenStopped ==
    taker = "returned" => stopped \/ \E i \in DOMAIN out : out[i] = Error
=============================================================================
