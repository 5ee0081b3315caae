------------------------------- MODULE DualTx -------------------------------
(***************************************************************************)
(* The shared dual-channel TX card: backend/rf/dual_tx.py, driven by the   *)
(* stream threads of backend/rf/transmit.py.                               *)
(*                                                                         *)
(* A stream is one run of transmit.stream(): it acquires the card for its  *)
(* slot (under the module lock `_lock`), pushes the blocks of its chunks   *)
(* into the queue registered for that slot, flushes the carry and releases *)
(* the slot.  The pump thread of a card takes one block per active channel *)
(* every cycle and writes them to the device in lockstep.                  *)
(*                                                                         *)
(* A card is named after the stream that opened it and a queue after the   *)
(* stream that registered it, so an object that was replaced stays         *)
(* distinguishable from its replacement.  A block is the stream that       *)
(* produced it, or Zero.  Durations (get, put, join timeouts, the prefill  *)
(* grace) are left open: a timeout may fire as soon as the event it waits  *)
(* for has not happened.                                                   *)
(***************************************************************************)
EXTENDS Integers, FiniteSets, Sequences

CONSTANTS
    Stream,      \* runs of transmit.stream(), one thread each
    SlotOf,      \* [Stream -> Slots]: TxParams.slot
    TuneOf,      \* [Stream -> anything]: TxParams (kind, uri, LO, rate)
    Ports,       \* slots whose channel the device has (n_tx_channels)
    None,        \* Python's None
    Depth,       \* blocks a slot queue holds (_queue_depth)
    MaxSent,     \* [Stream -> Nat], bound: blocks one stream produces
    Faults       \* environment failures that may happen, see FaultKinds

Slots == {"TX1", "TX2"}

\* open: open_tx raises; gain: set_gain raises; mask: set_active_channels
\* raises; write: backend.write raises; heat: the die is over its limit;
\* hang: a device write outlasts a join timeout; source: the chunk source raises;
\* cancel: a stream may be cancelled before its source ends; late: a thread
\* outlasts the joins of its request, whose slot is then given to the next one.
FaultKinds ==
    {"open", "gain", "mask", "write", "heat", "hang", "source", "cancel", "late"}

\* The silence that stands in for a missing block.
Zero == "zero"
Block == Stream \cup {Zero}

ASSUME StreamAssumption ==
    /\ IsFiniteSet(Stream)
    /\ None \notin Stream \cup {Zero}
    /\ Zero \notin Stream
    /\ SlotOf \in [Stream -> Slots]
    /\ DOMAIN TuneOf = Stream
ASSUME BoundAssumption ==
    /\ Ports \subseteq Slots
    /\ Depth \in Nat \ {0}
    /\ MaxSent \in [Stream -> Nat]
    /\ Faults \subseteq FaultKinds

VARIABLES
    \* --- module state of dual_tx.py
    lock,        \* `_lock`: the stream inside acquire() or _release(), or None
    card,        \* `_card`: the open card, or None
    \* --- one _Card and its device handle, by the stream that opened it
    handle,      \* "none", "open" or "closed"
    chans,       \* the device's active channels, as slots
    active,      \* _Card.active
    queues,      \* _Card.queues: slot -> the stream whose queue it is, or None
    underflow,   \* slots whose _Card.underflow count is not zero
    fed,         \* _Card.first_data_t is set
    started,     \* _Card.started
    error,       \* _Card.error is set
    stop,        \* _Card.stop is set
    pump,        \* the pump thread: "new", "top", "collect", "write" or "dead"
    snap,        \* `slots`, the pump's copy of queues for the current cycle
    batch,       \* `blocks` so far: slot -> block, None where there is none yet
    \* --- queue.Queue of a slot, by the stream that registered it
    fifo,
    \* --- one transmit.stream() thread
    pc,          \* where the thread is
    sink,        \* the card of its _SlotSink, or None
    target,      \* `q` in enqueue(): the queue it is about to put into
    \* --- history, read by the properties only
    sent,        \* blocks of the stream that were put into a queue
    aired,       \* blocks of the stream that reached the device
    gap,         \* a zero block was written on its port after its first block
    crowded      \* slots that were once given away with a thread still running

cardVars == <<handle, chans, active, queues, underflow, fed, started, error>>
pumpVars == <<stop, pump, snap, batch>>
threadVars == <<sink, target>>
deviceSide == <<lock, card, cardVars, pumpVars, fifo>>
streamSide == <<pc, threadVars>>
historyVars == <<sent, aired, gap, crowded>>
vars == <<deviceSide, streamSide, historyVars>>

NoQueues == [s \in Slots |-> None]
NoBatch == [s \in Slots |-> None]

Init ==
    /\ lock = None /\ card = None
    /\ handle = [c \in Stream |-> "none"]
    /\ chans = [c \in Stream |-> {}]
    /\ active = [c \in Stream |-> 0]
    /\ queues = [c \in Stream |-> NoQueues]
    /\ underflow = [c \in Stream |-> {}]
    /\ fed = [c \in Stream |-> FALSE]
    /\ started = [c \in Stream |-> FALSE]
    /\ error = [c \in Stream |-> FALSE]
    /\ stop = [c \in Stream |-> FALSE]
    /\ pump = [c \in Stream |-> "new"]
    /\ snap = [c \in Stream |-> NoQueues]
    /\ batch = [c \in Stream |-> NoBatch]
    /\ fifo = [w \in Stream |-> <<>>]
    /\ pc = [w \in Stream |-> "idle"]
    /\ sink = [w \in Stream |-> None]
    /\ target = [w \in Stream |-> None]
    /\ sent = [w \in Stream |-> 0]
    /\ aired = [w \in Stream |-> 0]
    /\ gap = [w \in Stream |-> FALSE]
    /\ crowded = {}

-----------------------------------------------------------------------------
(* Places of a stream thread, by what it holds there.                       *)

\* Inside `with _lock`.
Critical == {"open", "gain", "ensure", "reconfig", "drain"}
\* Registered on its card: between register() and unregister().
Registered == {"ensure", "reconfig", "source", "push", "put", "flush",
               "flushput", "release", "lost"}
\* The thread's run of transmit.stream() has ended: "lost" when sink.close()
\* raised before it reached _release().
Ended == {"done", "lost"}
Places == {"idle", "acquire"} \cup Critical \cup Registered \cup Ended

PumpAlive(c) == pump[c] \in {"top", "collect", "write"}

Goto(w, p) == pc' = [pc EXCEPT ![w] = p]

-----------------------------------------------------------------------------
(* acquire(): every step from AcquireLock to SinkReady holds `_lock`.        *)

\* No other thread of the slot is running.
Vacant(w) ==
    \A v \in Stream : SlotOf[v] = SlotOf[w] => pc[v] \in Ended \cup {"idle"}

\* A thread enters transmit.stream(), which opens the device first.
StartStream(w) ==
    /\ pc[w] = "idle"
    /\ Goto(w, "acquire")
    /\ crowded' = IF Vacant(w) THEN crowded ELSE crowded \cup {SlotOf[w]}
    /\ UNCHANGED <<deviceSide, threadVars, sent, aired, gap>>

AcquireLock(w) ==
    /\ pc[w] = "acquire"
    /\ lock = None
    /\ lock' = w
    /\ Goto(w, "open")
    /\ UNCHANGED <<card, cardVars, pumpVars, fifo, threadVars, historyVars>>

\* shut_down() closes the device of card c; `_card` no longer names it.
\* Mutant: the closed card stays the one the next acquire() joins.
StaleCard(c) == card
CardWithout(c) == IF card = c THEN None ELSE card
CloseDevice(c) ==
    /\ handle' = [handle EXCEPT ![c] = "closed"]
    /\ card' = CardWithout(c)

\* acquire() raises before the slot is registered: stream() ends with it.
Refuse(w) ==
    /\ lock' = None
    /\ Goto(w, "done")
    /\ UNCHANGED threadVars

\* No card is open: open the device for this slot's channel alone.
OpenCard(w) ==
    /\ pc[w] = "open"
    /\ card = None
    /\ SlotOf[w] \in Ports
    /\ card' = w
    /\ handle' = [handle EXCEPT ![w] = "open"]
    /\ chans' = [chans EXCEPT ![w] = {SlotOf[w]}]
    /\ Goto(w, "gain")
    /\ UNCHANGED <<lock, active, queues, underflow, fed, started, error, pumpVars, fifo,
                   threadVars, historyVars>>

\* open_tx fails, or the device has no such channel and is closed again.
OpenFails(w) ==
    /\ pc[w] = "open"
    /\ card = None
    /\ "open" \in Faults \/ SlotOf[w] \notin Ports
    /\ Refuse(w)
    /\ UNCHANGED <<card, cardVars, pumpVars, fifo, historyVars>>

\* The device is open, but its mask cannot be set: nothing closes it, and
\* `_card` is not assigned.
OpenMaskFails(w) ==
    /\ pc[w] = "open"
    /\ card = None
    /\ SlotOf[w] \in Ports
    /\ "mask" \in Faults
    /\ handle' = [handle EXCEPT ![w] = "open"]
    /\ Refuse(w)
    /\ UNCHANGED <<card, chans, active, queues, underflow, fed, started, error,
                   pumpVars, fifo, historyVars>>

\* Mutant: the tuning of the open card is not compared.
AnyTuning(w) == SlotOf[w] \in Ports
Compatible(w) == TuneOf[w] = TuneOf[card] /\ SlotOf[w] \in Ports

JoinCard(w) ==
    /\ pc[w] = "open"
    /\ card # None
    /\ Compatible(w)
    /\ Goto(w, "gain")
    /\ UNCHANGED <<deviceSide, threadVars, historyVars>>

\* TX1 and TX2 cannot disagree on kind, uri, LO or rate.
JoinRefused(w) ==
    /\ pc[w] = "open"
    /\ card # None
    /\ ~Compatible(w)
    /\ Refuse(w)
    /\ UNCHANGED <<card, cardVars, pumpVars, fifo, historyVars>>

\* set_gain succeeds, then register(): a new queue, one more active slot.
RegisterSlot(w) ==
    /\ pc[w] = "gain"
    /\ queues' = [queues EXCEPT ![card][SlotOf[w]] = w]
    /\ active' = [active EXCEPT ![card] = @ + 1]
    /\ fifo' = [fifo EXCEPT ![w] = <<>>]
    /\ sink' = [sink EXCEPT ![w] = card]
    /\ Goto(w, "ensure")
    /\ UNCHANGED <<lock, card, handle, chans, underflow, fed, started, error, pumpVars,
                   target, historyVars>>

\* set_gain raises: a card that no slot uses is shut down again.
GainFails(w) ==
    /\ pc[w] = "gain"
    /\ "gain" \in Faults
    /\ IF active[card] = 0
       THEN CloseDevice(card) /\ stop' = [stop EXCEPT ![card] = TRUE]
       ELSE UNCHANGED <<stop, handle, card>>
    /\ Refuse(w)
    /\ UNCHANGED <<chans, active, queues, underflow, fed, started, error, pump, snap,
                   batch, fifo, historyVars>>

\* unregister(): the slot's queue is forgotten, whoever registered it.
Unregister(w) ==
    /\ queues' = [queues EXCEPT ![sink[w]][SlotOf[w]] = None]
    /\ active' = [active EXCEPT ![sink[w]] = @ - 1]

\* Mutants: the slot that is being unregistered is counted out twice; it is
\* not counted out yet.
LastSlotTooEarly(c) == active[c] <= 2
LastSlotTooLate(c) == active[c] <= 0
LastSlot(c) == active[c] <= 1

\* A pump thread starts, with a stop event of its own.
StartPump(c) ==
    /\ pump' = [pump EXCEPT ![c] = "top"]
    /\ stop' = [stop EXCEPT ![c] = FALSE]

\* acquire() returns the sink and leaves `_lock`; stream() asks for a chunk.
SinkReady(w) ==
    /\ lock' = None
    /\ Goto(w, "source")

\* ensure_channel() on a channel that is already enabled: only a pump that
\* is not alive is (re)started; _Card.error stays as it is.
EnsureEnabled(w) ==
    /\ pc[w] = "ensure"
    /\ SlotOf[w] \in chans[sink[w]]
    /\ IF PumpAlive(sink[w]) THEN UNCHANGED <<pump, stop>> ELSE StartPump(sink[w])
    /\ SinkReady(w)
    /\ UNCHANGED <<card, cardVars, snap, batch, fifo, threadVars, historyVars>>

\* ensure_channel() on a new channel: the running pump is told to stop ...
EnsureStopsPump(w) ==
    /\ pc[w] = "ensure"
    /\ SlotOf[w] \notin chans[sink[w]]
    /\ PumpAlive(sink[w])
    /\ stop' = [stop EXCEPT ![sink[w]] = TRUE]
    /\ Goto(w, "reconfig")
    /\ UNCHANGED <<lock, card, cardVars, pump, snap, batch, fifo, threadVars,
                   historyVars>>

\* The joins of ensure_channel() and shut_down() end with the pump dead, or
\* after 5 s when a device write is still blocking it.
\* Mutant: nobody waits for the pump.
NotJoined(c) == TRUE
PumpJoined(c) == ~PumpAlive(c)
JoinTimesOut(c) == "hang" \in Faults /\ pump[c] = "write"

\* ... and with the pump stopped, the mask is set and a new pump started.
AddChannel(w) ==
    /\ pc[w] \in {"ensure", "reconfig"}
    /\ SlotOf[w] \notin chans[sink[w]]
    /\ PumpJoined(sink[w])
    /\ chans' = [chans EXCEPT ![sink[w]] = @ \cup {SlotOf[w]}]
    /\ StartPump(sink[w])
    /\ SinkReady(w)
    /\ UNCHANGED <<card, handle, active, queues, underflow, fed, started, error, snap,
                   batch, fifo, threadVars, historyVars>>

\* ensure_channel() raises: the joining slot is unregistered, the pump of the
\* slot that was running stays stopped.
AddChannelFails(w) ==
    /\ pc[w] \in {"ensure", "reconfig"}
    /\ SlotOf[w] \notin chans[sink[w]]
    /\ \/ PumpJoined(sink[w]) /\ "mask" \in Faults
       \/ pc[w] = "reconfig" /\ JoinTimesOut(sink[w])
    /\ Unregister(w)
    /\ IF LastSlot(sink[w])
       THEN CloseDevice(sink[w]) /\ stop' = [stop EXCEPT ![sink[w]] = TRUE]
       ELSE UNCHANGED <<stop, handle, card>>
    /\ Refuse(w)
    /\ UNCHANGED <<chans, underflow, fed, started, error, pump, snap, batch, fifo,
                   historyVars>>

-----------------------------------------------------------------------------
(* transmit.stream(): the loop over the chunks, with the sink's push().      *)

\* The loop is left: sink.close() flushes a carry if there is one, then
\* releases.  Whether a carry is left depends on the sample counts only.
CloseSink(w) == \E p \in {"flush", "release"} : Goto(w, p)

\* The source (or the slice at hand) has another full block.
SourceYields(w) ==
    /\ pc[w] = "source"
    /\ sent[w] + 1 < MaxSent[w]          \* room for the flushed carry
    /\ Goto(w, "push")
    /\ UNCHANGED <<deviceSide, threadVars, historyVars>>

\* No more chunks.
SourceEnds(w) ==
    /\ pc[w] = "source"
    /\ sent[w] + 1 >= MaxSent[w]
    /\ CloseSink(w)
    /\ UNCHANGED <<deviceSide, threadVars, historyVars>>

\* The cancel event is seen after a chunk or between two slices.
SourceCancelled(w) ==
    /\ pc[w] = "source"
    /\ CloseSink(w)
    /\ UNCHANGED <<deviceSide, threadVars, historyVars>>

SourceRaises(w) ==
    /\ pc[w] = "source"
    /\ "source" \in Faults
    /\ CloseSink(w)
    /\ UNCHANGED <<deviceSide, threadVars, historyVars>>

QueueOf(w) == queues[sink[w]][SlotOf[w]]

\* enqueue() returns, the block queued or dropped: to the next block, or from
\* the flush in close() to _release().
BlockDone(w) == Goto(w, IF pc[w] \in {"push", "put"} THEN "source" ELSE "release")

\* An exception in push() is followed by close(); one in close() ends the
\* thread before _release().
EnqueueRaises(w) ==
    IF pc[w] \in {"push", "put"} THEN CloseSink(w) ELSE Goto(w, "lost")

\* enqueue(): the queue is read under the card's lock and used after it.
EnqueueLookup(w) ==
    /\ pc[w] \in {"push", "flush"}
    /\ QueueOf(w) # None
    /\ ~error[sink[w]]
    /\ target' = [target EXCEPT ![w] = QueueOf(w)]
    /\ Goto(w, IF pc[w] = "push" THEN "put" ELSE "flushput")
    /\ UNCHANGED <<deviceSide, sink, historyVars>>

\* "slot already closed -- drop rather than raise mid-teardown": only another
\* thread of the same slot can have closed it.
EnqueueDrops(w) ==
    /\ pc[w] \in {"push", "flush"}
    /\ QueueOf(w) = None
    /\ BlockDone(w)
    /\ UNCHANGED <<deviceSide, threadVars, historyVars>>

\* "dual TX pump died"
EnqueueSeesError(w) ==
    /\ pc[w] \in {"push", "flush"}
    /\ QueueOf(w) # None
    /\ error[sink[w]]
    /\ EnqueueRaises(w)
    /\ UNCHANGED <<deviceSide, threadVars, historyVars>>

Full(w) == Len(fifo[target[w]]) >= Depth

PutBlock(w) ==
    /\ pc[w] \in {"put", "flushput"}
    /\ ~Full(w)
    /\ fifo' = [fifo EXCEPT ![target[w]] = Append(@, w)]
    /\ fed' = [fed EXCEPT ![sink[w]] = TRUE]
    /\ sent' = [sent EXCEPT ![w] = @ + 1]
    /\ BlockDone(w)
    /\ target' = [target EXCEPT ![w] = None]
    /\ UNCHANGED <<lock, card, handle, chans, active, queues, underflow, started, error,
                   pumpVars, sink, aired, gap, crowded>>

\* Nobody takes from the queue for 10 s: the pump died, blocks in a write, or
\* feeds from another queue.  A pause while `_lock` is held for a new mask is
\* shorter than that.
\* Mutant: put() without a timeout.
PutWaitsForever(w) == FALSE
Undrained(w) ==
    \/ ~PumpAlive(sink[w]) /\ lock = None
    \/ JoinTimesOut(sink[w])
    \/ QueueOf(w) # target[w]

PutTimesOut(w) ==
    /\ pc[w] \in {"put", "flushput"}
    /\ Full(w)
    /\ Undrained(w)
    /\ EnqueueRaises(w)
    /\ target' = [target EXCEPT ![w] = None]
    /\ UNCHANGED <<deviceSide, sink, historyVars>>

-----------------------------------------------------------------------------
(* _release(): under `_lock`.                                                *)

\* Another slot still uses the card.
ReleaseSlot(w) ==
    /\ pc[w] = "release"
    /\ lock = None
    /\ ~LastSlot(sink[w])
    /\ Unregister(w)
    /\ Goto(w, "done")
    /\ UNCHANGED <<lock, card, handle, chans, underflow, fed, started, error, pumpVars,
                   fifo, threadVars, historyVars>>

\* The last slot: shut_down() stops the pump and joins it ...
ReleaseLast(w) ==
    /\ pc[w] = "release"
    /\ lock = None
    /\ LastSlot(sink[w])
    /\ lock' = w
    /\ Unregister(w)
    /\ stop' = [stop EXCEPT ![sink[w]] = TRUE]
    /\ Goto(w, "drain")
    /\ UNCHANGED <<card, handle, chans, underflow, fed, started, error, pump, snap,
                   batch, fifo, threadVars, historyVars>>

\* ... and closes the device, whether the join succeeded or timed out.
CloseCard(w) ==
    /\ pc[w] = "drain"
    /\ PumpJoined(sink[w]) \/ JoinTimesOut(sink[w])
    /\ CloseDevice(sink[w])
    /\ lock' = None
    /\ Goto(w, "done")
    /\ UNCHANGED <<chans, active, queues, underflow, fed, started, error, pumpVars,
                   fifo, threadVars, historyVars>>

-----------------------------------------------------------------------------
(* _pump_loop(): the thread that feeds the device.                           *)

PumpStops(c) ==
    /\ pump[c] = "top"
    /\ stop[c]
    /\ pump' = [pump EXCEPT ![c] = "dead"]
    /\ UNCHANGED <<lock, card, cardVars, stop, snap, batch, fifo, streamSide,
                   historyVars>>

\* The pump thread ends itself: over-temperature, or a failed write.
PumpDies(c) ==
    /\ error' = [error EXCEPT ![c] = TRUE]
    /\ stop' = [stop EXCEPT ![c] = TRUE]
    /\ pump' = [pump EXCEPT ![c] = "dead"]
    /\ snap' = [snap EXCEPT ![c] = NoQueues]
    /\ batch' = [batch EXCEPT ![c] = NoBatch]
    /\ UNCHANGED <<handle, chans, active, queues, underflow, fed, started>>

PumpOverheats(c) ==
    /\ pump[c] = "top"
    /\ "heat" \in Faults
    /\ ~stop[c]
    /\ PumpDies(c)
    /\ UNCHANGED <<lock, card, fifo, streamSide, historyVars>>

\* A cycle begins: at the first one a block must have been queued (the
\* prefill is reached, or the grace period after it has passed).
PumpBegins(c) ==
    /\ pump[c] = "top"
    /\ ~stop[c]
    /\ started[c] \/ fed[c]
    /\ started' = [started EXCEPT ![c] = TRUE]
    /\ snap' = [snap EXCEPT ![c] = queues[c]]
    /\ batch' = [batch EXCEPT ![c] = NoBatch]
    /\ pump' = [pump EXCEPT ![c] = "collect"]
    /\ UNCHANGED <<lock, card, handle, chans, active, queues, underflow, fed, error,
                   stop, fifo, streamSide, historyVars>>

\* active_channels() in order: channel 0 is TX1's.
\* Mutant: only the channels that somebody has acquired.
WaitingAcquired(c) == {s \in chans[c] : batch[c][s] = None /\ snap[c][s] # None}
Waiting(c) == {s \in chans[c] : batch[c][s] = None}
NextSlot(c) == IF "TX1" \in Waiting(c) THEN "TX1" ELSE "TX2"

\* The block of the next channel; with the last one backend.write() is called.
Collect(c, b) ==
    /\ batch' = [batch EXCEPT ![c][NextSlot(c)] = b]
    /\ pump' = [pump EXCEPT ![c] = IF Waiting(c) = {NextSlot(c)} THEN "write" ELSE @]
SnapQueue(c) == snap[c][NextSlot(c)]

\* Nobody has acquired the slot: silence, not counted.
PumpFeedsSilence(c) ==
    /\ pump[c] = "collect"
    /\ SnapQueue(c) = None
    /\ Collect(c, Zero)
    /\ UNCHANGED <<lock, card, cardVars, stop, snap, fifo, streamSide, historyVars>>

PumpTakes(c) ==
    /\ pump[c] = "collect"
    /\ SnapQueue(c) # None
    /\ fifo[SnapQueue(c)] # <<>>
    /\ Collect(c, Head(fifo[SnapQueue(c)]))
    /\ fifo' = [fifo EXCEPT ![SnapQueue(c)] = Tail(@)]
    /\ UNCHANGED <<lock, card, cardVars, stop, snap, streamSide, historyVars>>

\* A get that times out gives the cycle up only when the pump is to stop.
\* Mutant: it always does.
AlwaysGivesUp(c) == TRUE
GivesUp(c) == stop[c]

\* Mutants: the count is kept by queue; the zero block is fed but not counted.
CountedByQueue(c) == underflow[c] \cup {SnapQueue(c)}
Uncounted(c) == underflow[c]
Counted(c) == underflow[c] \cup {NextSlot(c)}

\* The get times out: silence, counted as an underflow of the slot.
PumpUnderflows(c) ==
    /\ pump[c] = "collect"
    /\ SnapQueue(c) # None
    /\ fifo[SnapQueue(c)] = <<>>
    /\ ~GivesUp(c)
    /\ underflow' = [underflow EXCEPT ![c] = Counted(c)]
    /\ Collect(c, Zero)
    /\ UNCHANGED <<lock, card, handle, chans, active, queues, fed, started, error, stop,
                   snap, fifo, streamSide, historyVars>>

\* The get times out after the stop: the cycle is abandoned, nothing written.
PumpAbandons(c) ==
    /\ pump[c] = "collect"
    /\ SnapQueue(c) # None
    /\ fifo[SnapQueue(c)] = <<>>
    /\ GivesUp(c)
    /\ pump' = [pump EXCEPT ![c] = "top"]
    /\ snap' = [snap EXCEPT ![c] = NoQueues]
    /\ batch' = [batch EXCEPT ![c] = NoBatch]
    /\ UNCHANGED <<lock, card, cardVars, stop, fifo, streamSide, historyVars>>

Airs(c, w) == \E s \in Slots : batch[c][s] = w
Gaps(c, w) ==
    /\ batch[c][SlotOf[w]] = Zero
    /\ queues[c][SlotOf[w]] = w
    /\ aired[w] > 0

PumpWrites(c) ==
    /\ pump[c] = "write"
    /\ aired' = [w \in Stream |-> IF Airs(c, w) THEN aired[w] + 1 ELSE aired[w]]
    /\ gap' = [w \in Stream |-> gap[w] \/ Gaps(c, w)]
    /\ pump' = [pump EXCEPT ![c] = "top"]
    /\ snap' = [snap EXCEPT ![c] = NoQueues]
    /\ batch' = [batch EXCEPT ![c] = NoBatch]
    /\ UNCHANGED <<lock, card, cardVars, stop, fifo, streamSide, sent, crowded>>

PumpWriteFails(c) ==
    /\ pump[c] = "write"
    /\ "write" \in Faults
    /\ PumpDies(c)
    /\ UNCHANGED <<lock, card, fifo, streamSide, historyVars>>

-----------------------------------------------------------------------------
Acquire(w) ==
    \/ AcquireLock(w) \/ OpenCard(w) \/ OpenFails(w) \/ OpenMaskFails(w)
    \/ JoinCard(w) \/ JoinRefused(w)
    \/ RegisterSlot(w) \/ GainFails(w)
    \/ EnsureEnabled(w) \/ EnsureStopsPump(w) \/ AddChannel(w) \/ AddChannelFails(w)

Enqueue(w) ==
    \/ EnqueueLookup(w) \/ EnqueueDrops(w) \/ EnqueueSeesError(w)
    \/ PutBlock(w) \/ PutTimesOut(w)

Push(w) ==
    \/ SourceYields(w) \/ SourceEnds(w) \/ SourceRaises(w)
    \/ "cancel" \in Faults /\ SourceCancelled(w)
    \/ Enqueue(w)

Release(w) == ReleaseSlot(w) \/ ReleaseLast(w) \/ CloseCard(w)

StreamStep(w) == Acquire(w) \/ Push(w) \/ Release(w)

PumpStep(c) ==
    \/ PumpStops(c) \/ PumpOverheats(c) \/ PumpBegins(c)
    \/ PumpFeedsSilence(c) \/ PumpTakes(c) \/ PumpUnderflows(c) \/ PumpAbandons(c)
    \/ PumpWrites(c) \/ PumpWriteFails(c)

\* Every stream has ended: the process waits for requests.
AllEnded == (\A w \in Stream : pc[w] \in Ended) /\ UNCHANGED vars

\* The finally of a request's generator frees the slot: with the thread ended,
\* or after joins that timed out.  TxService models the request itself.
GivenSlot(w) == "late" \in Faults \/ Vacant(w)

Next ==
    \/ \E w \in Stream : GivenSlot(w) /\ StartStream(w)
    \/ \E w \in Stream : StreamStep(w) \/ PumpStep(w)
    \/ AllEnded

Spec == Init /\ [][Next]_vars

\* A thread that can run is run, a source keeps answering, a device write
\* returns.  Requests are the user's.
Fairness == \A w \in Stream : WF_vars(StreamStep(w)) /\ WF_vars(PumpStep(w))
FairSpec == Spec /\ Fairness

-----------------------------------------------------------------------------
(* Properties                                                               *)

CardTypeOK ==
    /\ lock \in Stream \cup {None}
    /\ card \in Stream \cup {None}
    /\ handle \in [Stream -> {"none", "open", "closed"}]
    /\ chans \in [Stream -> SUBSET Slots]
    /\ active \in [Stream -> Int]
    /\ queues \in [Stream -> [Slots -> Stream \cup {None}]]
    /\ underflow \in [Stream -> SUBSET Slots]
    /\ fed \in [Stream -> BOOLEAN]
    /\ started \in [Stream -> BOOLEAN]
    /\ error \in [Stream -> BOOLEAN]

PumpTypeOK ==
    /\ stop \in [Stream -> BOOLEAN]
    /\ pump \in [Stream -> {"new", "top", "collect", "write", "dead"}]
    /\ snap \in [Stream -> [Slots -> Stream \cup {None}]]
    /\ batch \in [Stream -> [Slots -> Block \cup {None}]]

StreamTypeOK ==
    /\ fifo \in [Stream -> Seq(Stream)]
    /\ pc \in [Stream -> Places]
    /\ sink \in [Stream -> Stream \cup {None}]
    /\ target \in [Stream -> Stream \cup {None}]
    /\ sent \in [Stream -> Nat]
    /\ aired \in [Stream -> Nat]
    /\ gap \in [Stream -> BOOLEAN]
    /\ crowded \subseteq Slots

TypeOK == CardTypeOK /\ PumpTypeOK /\ StreamTypeOK

\* A device that an acquire() left open when its mask could not be set:
\* nobody has it, and no pump writes to it.
Abandoned(c) ==
    /\ pc[c] = "done" /\ pump[c] = "new"
    /\ \A w \in Stream : sink[w] # c

\* One radio, one context.  Outside `_lock`, `_card` is set exactly as long as
\* a run is registered on it, and it names an open device (never the "stale
\* half-open card" the error path of acquire() cleans up); any other open
\* device is an abandoned one.
OneOpenDevice ==
    /\ card # None => handle[card] = "open"
    /\ card # None /\ lock = None =>
        \E w \in Stream : pc[w] \in Registered /\ sink[w] = card
    /\ \A c \in Stream : handle[c] = "open" /\ c # card => Abandoned(c)

\* The device stays open under every slot that is registered on it, whatever
\* the other slot does: a release of one port never cuts the other one off.
UsersKeepCardOpen ==
    \A w \in Stream : pc[w] \in Registered => card = sink[w] /\ handle[card] = "open"

\* A write carries exactly one block for each channel of the mask the device
\* has at that moment: the mask never changes under a pump cycle.
WriteMatchesMask ==
    \A c \in Stream : pump[c] = "write" => {s \in Slots : batch[c][s] # None} = chans[c]

\* A pump never starts another cycle on a closed device: at most the write
\* that outlasted the 5 s join is still in flight, and it is the last one.
NoCycleOnClosedDevice ==
    \A c \in Stream : handle[c] = "closed" =>
        \/ ~PumpAlive(c)
        \/ stop[c] /\ pump[c] \in {"write", "top"}

\* Blocks of w on their way: in its queue or in the pump's hands.
InFlight(w) ==
    Len(fifo[w]) + Cardinality({s \in Slots : batch[sink[w]][s] = w})

\* The slot was never given away under a running thread.
Alone(w) == SlotOf[w] \notin crowded

\* While a stream is registered and its pump has not failed, every block it
\* queued is on the air, in its queue or in the hands of the pump: joining
\* and leaving of the other slot, which stops and restarts the pump, loses none.
\* This is about a stream alone on its slot: an orphan of the slot, a thread
\* that outlasted the joins of its request, unregisters whichever queue the slot
\* has, its successor's too, and puts its own blocks there until then.
NothingLost ==
    \A w \in Stream :
        Alone(w) /\ pc[w] \in Registered /\ ~error[sink[w]] =>
            sent[w] = aired[w] + InFlight(w)

\* A result that says "gapless" is honest: a zero block written on a port
\* between two blocks of its stream has been counted as an underflow.  It is
\* followed as long as the slot's queue is the stream's own (see gap): once an
\* orphan has unregistered it, the pump feeds silence that nobody counts.
GaplessIsHonest ==
    \A w \in Stream : gap[w] => SlotOf[w] \in underflow[sink[w]]

\* Every stream that asks for the card ends, whatever fails: no thread waits
\* for ever on `_lock`, on a full queue or on a pump that died.
StreamEnds == \A w \in Stream : pc[w] = "acquire" ~> pc[w] \in Ended

\* The card implements the lease of SharedCard.
Shared == INSTANCE SharedCard WITH
    users <- {w \in Stream : pc[w] \in Registered},
    tuning <- IF card = None THEN None ELSE TuneOf[card]
SharedLease == Shared!Spec

-----------------------------------------------------------------------------
(* What the code's own comments say and the code does not keep.             *)

\* dual_tx.py:74: a card is "live for as long as at least one slot is acquired".
CardHasUser ==
    card # None /\ lock = None =>
        \E w \in Stream : pc[w] \in Registered \ {"lost"} /\ sink[w] = card
=============================================================================
