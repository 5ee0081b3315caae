----------------------------- MODULE TxService ------------------------------
(***************************************************************************)
(* The TX slots of backend/app.py over the shared card of DualTx: the      *)
(* handlers of /api/transmit and /api/live/start, /api/.../stop and        *)
(* /api/tx/calibrate.                                                      *)
(*                                                                         *)
(* A handler takes a slot, prepares its request and returns a response     *)
(* whose generator starts the stream thread, follows it and, in its        *)
(* `finally`, waits for it for a bounded time and frees the slot.  Handler *)
(* and thread of one request share the name of the stream.                 *)
(***************************************************************************)
EXTENDS DualTx

CONSTANTS
    Live,        \* the requests whose source never ends (/api/live/start)
    Mishaps      \* what the web side may do, see MishapKinds

\* invalid: the request turns out to be wrong after the slot was taken;
\* vanish: the client is gone before the first event is generated;
\* leave: the client disconnects while the generator runs;
\* slow: the stream thread outlasts both joins of the generator (2 s and 5 s).
MishapKinds == {"invalid", "vanish", "leave", "slow"}

\* What a slot's entry is when no request holds it.
Calibration == "calibration"
Free == "free"

ASSUME ServiceAssumption ==
    /\ Mishaps \subseteq MishapKinds
    /\ Live \subseteq Stream
    /\ {Free, Calibration} \cap Stream = {}

VARIABLES
    slots,       \* _tx_slots: Free, the handler whose entry it is, or Calibration
    handler,     \* "idle", "holding", "running", "joining", "abandoned" or "gone"
    halted       \* the "stop" event of the handler's entry, the thread's cancel

webVars == <<slots, handler, halted>>
allVars == <<vars, webVars>>

ServiceInit ==
    /\ Init
    /\ slots = [s \in Slots |-> Free]
    /\ handler = [w \in Stream |-> "idle"]
    /\ halted = [w \in Stream |-> FALSE]

Become(w, h) == handler' = [handler EXCEPT ![w] = h]

\* _acquire_tx_slot: an explicitly named slot, or the first free one.
MayTake(w) == slots[SlotOf[w]] = Free

TakeSlot(w) ==
    /\ handler[w] = "idle"
    /\ MayTake(w)
    /\ slots' = [slots EXCEPT ![SlotOf[w]] = w]
    /\ Become(w, "holding")
    /\ UNCHANGED <<vars, halted>>

FreeSlot(w) == slots' = [slots EXCEPT ![SlotOf[w]] = Free]

\* The error paths of the request handler free the slot again.
RequestInvalid(w) ==
    /\ handler[w] = "holding"
    /\ "invalid" \in Mishaps
    /\ FreeSlot(w)
    /\ Become(w, "gone")
    /\ UNCHANGED <<vars, halted>>

\* The generator's first step: the stream thread is started.
RunGenerator(w) ==
    /\ handler[w] = "holding"
    /\ StartStream(w)
    /\ Become(w, "running")
    /\ UNCHANGED <<slots, halted>>

\* The response is dropped before its generator ran: no `finally` will run.
ClientVanishes(w) ==
    /\ handler[w] = "holding"
    /\ "vanish" \in Mishaps
    /\ Become(w, "abandoned")
    /\ UNCHANGED <<vars, slots, halted>>

\* stop_transmit / live_stop on an occupied slot; max_duration_s sets the
\* same event.
StopRequested(w) ==
    /\ slots[SlotOf[w]] = w
    /\ ~halted[w]
    /\ halted' = [halted EXCEPT ![w] = TRUE]
    /\ UNCHANGED <<vars, slots, handler>>

\* The generator leaves its loop; its `finally` sets the stop event.
GeneratorLeaves(w) ==
    /\ handler[w] = "running"
    /\ pc[w] \in Ended \/ halted[w] \/ "leave" \in Mishaps
    /\ halted' = [halted EXCEPT ![w] = TRUE]
    /\ Become(w, "joining")
    /\ UNCHANGED <<vars, slots>>

\* The joins return with the thread ended, or give up, and the slot is freed.
\* Mutant: nothing is freed when the thread is late.
FreesNothing(w) == UNCHANGED slots
GeneratorFrees(w) == FreeSlot(w)

GeneratorEnds(w) ==
    /\ handler[w] = "joining"
    /\ pc[w] \in Ended \/ "slow" \in Mishaps
    /\ GeneratorFrees(w)
    /\ Become(w, "gone")
    /\ UNCHANGED <<vars, halted>>

\* _reserve_all_tx_slots_for_calibration and its release.
\* Mutant: one free slot is enough.
SomeFree == \E s \in Slots : slots[s] = Free
AllFree == \A s \in Slots : slots[s] = Free

CalibrationBegins ==
    /\ AllFree
    /\ slots' = [s \in Slots |-> Calibration]
    /\ UNCHANGED <<vars, handler, halted>>

CalibrationEnds ==
    /\ \A s \in Slots : slots[s] = Calibration
    /\ slots' = [s \in Slots |-> Free]
    /\ UNCHANGED <<vars, handler, halted>>

\* The stream thread: a set cancel event ends the loop over the chunks.
\* Mutant: the loop does not look at it.
NeverCancelled(w) == FALSE
SeesCancel(w) == halted[w]

ThreadStep(w) ==
    /\ \/ Acquire(w) \/ Release(w)
       \/ SourceRaises(w)
       \/ SourceYields(w) /\ ~SeesCancel(w)
       \/ SourceEnds(w) /\ w \notin Live
       \/ SourceCancelled(w) /\ SeesCancel(w)
       \/ Enqueue(w)
    /\ UNCHANGED webVars

HandlerStep(w) == RunGenerator(w) \/ GeneratorLeaves(w) \/ GeneratorEnds(w)

\* Nothing is being served and every thread has ended: the process waits.
AllServed ==
    /\ \A w \in Stream :
        handler[w] \in {"idle", "gone", "abandoned"} /\ pc[w] \in Ended \cup {"idle"}
    /\ UNCHANGED allVars

ServiceNext ==
    \/ \E w \in Stream :
        \/ TakeSlot(w) \/ RequestInvalid(w) \/ ClientVanishes(w) \/ StopRequested(w)
        \/ HandlerStep(w) \/ ThreadStep(w)
        \/ PumpStep(w) /\ UNCHANGED webVars
    \/ CalibrationBegins \/ CalibrationEnds
    \/ AllServed

ServiceSpec == ServiceInit /\ [][ServiceNext]_allVars

\* Threads run, sources answer, and a client either reads its events or is
\* seen to leave, so a generator is resumed.  Requests, stops and the start of
\* a generator are the client's.
ServiceFairness ==
    \A w \in Stream :
        /\ WF_allVars(ThreadStep(w))
        /\ WF_allVars(PumpStep(w) /\ UNCHANGED webVars)
        /\ WF_allVars(GeneratorLeaves(w) \/ GeneratorEnds(w))
FairServiceSpec == ServiceSpec /\ ServiceFairness

-----------------------------------------------------------------------------
(* Properties                                                               *)

ServiceTypeOK ==
    /\ TypeOK
    /\ slots \in [Slots -> Stream \cup {Free, Calibration}]
    /\ handler \in [Stream -> {"idle", "holding", "running", "joining", "abandoned", "gone"}]
    /\ halted \in [Stream -> BOOLEAN]

\* A slot's entry is its handler's own until that handler frees it: no other
\* request, generator or calibration takes or clears it.  (A stop would
\* otherwise set the event of a run that is not the one on the air.)
SlotIsOwn ==
    \A w \in Stream :
        handler[w] \in {"holding", "running", "joining"} => slots[SlotOf[w]] = w

\* A stop is safety-positive: whenever it is issued for a running stream, be
\* it while the thread acquires the card, waits for room in a queue or for its
\* source, the thread ends.
StopEndsStream ==
    \A w \in Stream : halted[w] /\ pc[w] \notin Ended \cup {"idle"} ~> pc[w] \in Ended

\* A stopped run gives its slot back.
StopFreesSlot ==
    \A w \in Stream : halted[w] /\ handler[w] = "running" ~> slots[SlotOf[w]] # w
=============================================================================
