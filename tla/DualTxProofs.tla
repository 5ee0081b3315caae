---------------------------- MODULE DualTxProofs ----------------------------
(***************************************************************************)
(* Theorems about DualTx, for any set of streams, any assignment to slots  *)
(* and tunings, any queue depth and any of the modelled faults.            *)
(*                                                                         *)
(* The invariants hold for AnyStep, in which a stream may start while      *)
(* another thread of its slot still runs.  The steps of TxService are such *)
(* steps, so it can use them too: the theorems about it are at the end.    *)
(***************************************************************************)
EXTENDS TxService, FiniteSetTheorems, TLAPS

StepOf(w) ==
    \/ StartStream(w) \/ Acquire(w)
    \/ SourceYields(w) \/ SourceEnds(w) \/ SourceRaises(w) \/ SourceCancelled(w)
    \/ Enqueue(w) \/ Release(w)
AnyStep == \E w \in Stream : StepOf(w) \/ PumpStep(w)

-----------------------------------------------------------------------------
(* Types, with what the indices `card`, `sink[w]` and `target[w]` need.      *)

\* A thread is inside a critical section iff it holds `_lock`.
LockInv == \A w \in Stream : pc[w] \in Critical <=> lock = w

\* What a thread uses as a card or as a queue is one.
RefInv ==
    \A w \in Stream :
        /\ pc[w] = "gain" => card \in Stream
        /\ pc[w] \in Registered \cup {"drain"} => sink[w] \in Stream
        /\ pc[w] \in {"put", "flushput"} => target[w] \in Stream

TypeInv == TypeOK /\ LockInv /\ RefInv

LEMMA TypeInit == Init => TypeInv
  BY StreamAssumption DEF Init, TypeInv, TypeOK, CardTypeOK, PumpTypeOK, StreamTypeOK,
       LockInv, RefInv, NoQueues, NoBatch, Places, Critical, Registered, Ended, Slots, Block

\* The steps of a stream thread that do not touch the card.
LEMMA LocalSteps ==
    ASSUME NEW w \in Stream,
           \/ StartStream(w) \/ JoinCard(w)
           \/ SourceYields(w) \/ SourceEnds(w) \/ SourceRaises(w) \/ SourceCancelled(w)
           \/ EnqueueLookup(w) \/ EnqueueDrops(w) \/ EnqueueSeesError(w)
           \/ PutTimesOut(w)
    PROVE  UNCHANGED <<deviceSide, sink, sent, aired, gap>>
  BY DEF StartStream, JoinCard, SourceYields, SourceEnds, SourceRaises, SourceCancelled,
         EnqueueLookup, EnqueueDrops, EnqueueSeesError, PutTimesOut, threadVars,
         historyVars

\* Those that only move the thread, within its registration.
QuietStep(w) ==
    \/ SourceYields(w) \/ SourceEnds(w) \/ SourceRaises(w) \/ SourceCancelled(w)
    \/ EnqueueDrops(w) \/ EnqueueSeesError(w)

LEMMA QuietSteps ==
    ASSUME NEW w \in Stream, QuietStep(w)
    PROVE  /\ UNCHANGED <<deviceSide, threadVars, historyVars>>
           /\ pc[w] \in {"source", "push", "flush"}
           /\ \E p \in {"source", "push", "flush", "release", "lost"} : Goto(w, p)
  BY DEF QuietStep, SourceYields, SourceEnds, SourceRaises, SourceCancelled, CloseSink,
         EnqueueDrops, BlockDone, EnqueueSeesError, EnqueueRaises

LEMMA PumpSteps ==
    ASSUME NEW c \in Stream, PumpStep(c)
    PROVE  UNCHANGED <<lock, card, handle, chans, active, queues, fed, streamSide, sent,
                        crowded>>
  BY DEF PumpStep, PumpStops, PumpOverheats, PumpBegins, PumpFeedsSilence, PumpTakes,
         PumpUnderflows, PumpAbandons, PumpWrites, PumpWriteFails, PumpDies, cardVars,
         historyVars

\* unregister() and register() keep the types of what they assign.
LEMMA UnregisterType ==
    ASSUME TypeOK, NEW w \in Stream, sink[w] \in Stream, Unregister(w)
    PROVE  /\ queues' \in [Stream -> [Slots -> Stream \cup {None}]]
           /\ active' \in [Stream -> Int]
<1>1. active' \in [Stream -> Int]
  BY DEF TypeOK, CardTypeOK, Unregister
<1>2. queues' \in [Stream -> [Slots -> Stream \cup {None}]]
  <2>1. [queues[sink[w]] EXCEPT ![SlotOf[w]] = None] \in [Slots -> Stream \cup {None}]
    BY DEF TypeOK, CardTypeOK
  <2> QED
    BY <2>1 DEF TypeOK, CardTypeOK, Unregister
<1> QED
  BY <1>1, <1>2

LEMMA CardTypeStep ==
    ASSUME TypeInv, NEW w \in Stream, StepOf(w)
    PROVE  CardTypeOK'
<1> USE StreamAssumption DEF TypeInv, TypeOK, CardTypeOK, Refuse, CloseDevice, CardWithout, SinkReady
<1>1. CASE UNCHANGED <<deviceSide, sink, sent, aired, gap>>
  BY <1>1 DEF deviceSide, cardVars
<1>2. CASE AcquireLock(w)
  BY <1>2 DEF AcquireLock, cardVars
<1>3. CASE OpenCard(w)
  BY <1>3 DEF OpenCard
<1>4. CASE OpenFails(w)
  BY <1>4 DEF OpenFails, cardVars
<1>5. CASE JoinRefused(w)
  BY <1>5 DEF JoinRefused, cardVars
<1>6. CASE RegisterSlot(w)
  <2>1. [queues[card] EXCEPT ![SlotOf[w]] = w] \in [Slots -> Stream \cup {None}]
    BY <1>6 DEF RegisterSlot, RefInv
  <2> QED
    BY <1>6, <2>1 DEF RegisterSlot, RefInv
<1>7. CASE GainFails(w)
  BY <1>7 DEF GainFails
<1>8. CASE EnsureEnabled(w)
  BY <1>8 DEF EnsureEnabled, cardVars
<1>9. CASE EnsureStopsPump(w)
  BY <1>9 DEF EnsureStopsPump, cardVars
<1>10. CASE AddChannel(w)
  <2>1. chans[sink[w]] \cup {SlotOf[w]} \in SUBSET Slots
    BY <1>10 DEF AddChannel, RefInv, Registered
  <2> QED
    BY <1>10, <2>1 DEF AddChannel
<1>11. CASE AddChannelFails(w)
  BY <1>11, UnregisterType DEF AddChannelFails, RefInv, Registered
<1>12. CASE PutBlock(w)
  BY <1>12 DEF PutBlock
<1>13. CASE ReleaseSlot(w)
  BY <1>13, UnregisterType DEF ReleaseSlot, RefInv, Registered
<1>14. CASE ReleaseLast(w)
  BY <1>14, UnregisterType DEF ReleaseLast, RefInv, Registered
<1>15. CASE CloseCard(w)
  BY <1>15 DEF CloseCard
<1>16. CASE OpenMaskFails(w)
  BY <1>16 DEF OpenMaskFails
<1> QED
  BY <1>1, <1>2, <1>3, <1>4, <1>5, <1>6, <1>7, <1>8, <1>9, <1>10, <1>11, <1>12, <1>13,
     <1>14, <1>15, <1>16, LocalSteps DEF StepOf, Acquire, Enqueue, Release

LEMMA PumpTypeStep ==
    ASSUME TypeInv, NEW w \in Stream, StepOf(w)
    PROVE  PumpTypeOK'
<1> USE StreamAssumption DEF TypeInv, TypeOK, PumpTypeOK
<1>1. CASE UNCHANGED <<deviceSide, sink, sent, aired, gap>>
  BY <1>1 DEF deviceSide, pumpVars
<1>2. CASE \/ AcquireLock(w) \/ OpenCard(w) \/ OpenFails(w) \/ OpenMaskFails(w)
           \/ JoinRefused(w) \/ RegisterSlot(w) \/ PutBlock(w) \/ ReleaseSlot(w) \/ CloseCard(w)
  <2>1. UNCHANGED pumpVars
    BY <1>2 DEF AcquireLock, OpenCard, OpenFails, OpenMaskFails, JoinRefused,
                RegisterSlot, PutBlock, ReleaseSlot, CloseCard
  <2> QED
    BY <2>1 DEF pumpVars
<1>3. CASE GainFails(w)
  BY <1>3 DEF GainFails
<1>4. CASE EnsureEnabled(w)
  BY <1>4 DEF EnsureEnabled, StartPump
<1>5. CASE EnsureStopsPump(w)
  BY <1>5 DEF EnsureStopsPump
<1>6. CASE AddChannel(w)
  BY <1>6 DEF AddChannel, StartPump
<1>7. CASE AddChannelFails(w)
  BY <1>7 DEF AddChannelFails
<1>8. CASE ReleaseLast(w)
  BY <1>8 DEF ReleaseLast
<1> QED
  BY <1>1, <1>2, <1>3, <1>4, <1>5, <1>6, <1>7, <1>8, LocalSteps
     DEF StepOf, Acquire, Enqueue, Release

\* Every step moves its thread to a place of the program.
LEMMA PlaceStep ==
    ASSUME NEW w \in Stream, StepOf(w)
    PROVE  \E p \in Places : Goto(w, p)
<1> USE DEF Places, Critical, Registered, Ended
<1>1. CASE QuietStep(w)
  BY <1>1, QuietSteps
<1>2. CASE \/ StartStream(w) \/ JoinCard(w) \/ AcquireLock(w) \/ OpenCard(w)
           \/ OpenFails(w) \/ OpenMaskFails(w) \/ JoinRefused(w) \/ GainFails(w)
           \/ RegisterSlot(w)
  BY <1>2 DEF StartStream, JoinCard, AcquireLock, OpenCard, OpenFails, OpenMaskFails,
       JoinRefused, GainFails, RegisterSlot, Refuse
<1>3. CASE \/ EnsureEnabled(w) \/ EnsureStopsPump(w) \/ AddChannel(w)
           \/ AddChannelFails(w)
  BY <1>3 DEF EnsureEnabled, EnsureStopsPump, AddChannel, AddChannelFails, SinkReady,
       Refuse
<1>4. CASE EnqueueLookup(w) \/ PutBlock(w) \/ PutTimesOut(w)
  BY <1>4 DEF EnqueueLookup, PutBlock, PutTimesOut, BlockDone, EnqueueRaises, CloseSink
<1>5. CASE ReleaseSlot(w) \/ ReleaseLast(w) \/ CloseCard(w)
  BY <1>5 DEF ReleaseSlot, ReleaseLast, CloseCard
<1> QED
  BY <1>1, <1>2, <1>3, <1>4, <1>5 DEF QuietStep, StepOf, Acquire, Enqueue, Release

LEMMA StreamTypeStep ==
    ASSUME TypeInv, NEW w \in Stream, StepOf(w)
    PROVE  StreamTypeOK'
<1> USE StreamAssumption DEF TypeInv, TypeOK, StreamTypeOK
<1>1. pc' \in [Stream -> Places]
  BY PlaceStep DEF Goto
<1>2. /\ fifo' \in [Stream -> Seq(Stream)]
      /\ sink' \in [Stream -> Stream \cup {None}]
      /\ target' \in [Stream -> Stream \cup {None}]
      /\ sent' \in [Stream -> Nat]
      /\ aired' \in [Stream -> Nat]
      /\ gap' \in [Stream -> BOOLEAN]
      /\ crowded' \subseteq Slots
  <2>1. CASE QuietStep(w)
    BY <2>1, QuietSteps DEF deviceSide, threadVars, historyVars
  <2>8. CASE StartStream(w)
    BY <2>8 DEF StartStream, deviceSide, threadVars
  <2>2. CASE \/ JoinCard(w) \/ AcquireLock(w) \/ OpenCard(w)
             \/ OpenFails(w) \/ OpenMaskFails(w) \/ JoinRefused(w) \/ GainFails(w)
    <3>1. UNCHANGED <<fifo, threadVars, historyVars>>
      BY <2>2 DEF JoinCard, AcquireLock, OpenCard, OpenFails, OpenMaskFails, JoinRefused,
           GainFails, Refuse, deviceSide
    <3> QED
      BY <3>1 DEF threadVars, historyVars
  <2>3. CASE RegisterSlot(w)
    BY <2>3 DEF RegisterSlot, CardTypeOK, historyVars
  <2>4. CASE \/ EnsureEnabled(w) \/ EnsureStopsPump(w) \/ AddChannel(w)
             \/ AddChannelFails(w)
             \/ ReleaseSlot(w) \/ ReleaseLast(w) \/ CloseCard(w)
    <3>1. UNCHANGED <<fifo, threadVars, historyVars>>
      BY <2>4 DEF EnsureEnabled, EnsureStopsPump, AddChannel, AddChannelFails, Refuse,
           ReleaseSlot, ReleaseLast, CloseCard
    <3> QED
      BY <3>1 DEF threadVars, historyVars
  <2>5. CASE EnqueueLookup(w)
    <3>1. QueueOf(w) \in Stream
      BY <2>5 DEF EnqueueLookup, QueueOf, CardTypeOK, RefInv, Registered
    <3> QED
      BY <2>5, <3>1 DEF EnqueueLookup, deviceSide, historyVars
  <2>6. CASE PutBlock(w)
    <3>1. Append(fifo[target[w]], w) \in Seq(Stream)
      BY <2>6 DEF PutBlock, RefInv
    <3>2. fifo' \in [Stream -> Seq(Stream)]
      BY <2>6, <3>1 DEF PutBlock
    <3>3. sent' \in [Stream -> Nat]
      BY <2>6 DEF PutBlock
    <3> QED
      BY <2>6, <3>2, <3>3 DEF PutBlock
  <2>7. CASE PutTimesOut(w)
    BY <2>7 DEF PutTimesOut, deviceSide, historyVars
  <2> QED
    BY <2>1, <2>2, <2>3, <2>4, <2>5, <2>6, <2>7, <2>8
       DEF QuietStep, StepOf, Acquire, Enqueue, Release
<1> QED
  BY <1>1, <1>2

\* The lock is taken and left at the entry and the exits of critical sections.
LEMMA LockStep ==
    ASSUME TypeInv, NEW w \in Stream, StepOf(w)
    PROVE  LockInv'
<1> USE StreamAssumption DEF TypeInv, LockInv, TypeOK, StreamTypeOK, Goto, Critical
<1>1. CASE \/ StartStream(w) \/ JoinCard(w)
           \/ SourceYields(w) \/ SourceEnds(w) \/ SourceRaises(w) \/ SourceCancelled(w)
           \/ EnqueueLookup(w) \/ EnqueueDrops(w) \/ EnqueueSeesError(w)
           \/ PutTimesOut(w) \/ PutBlock(w)
  BY <1>1 DEF StartStream, JoinCard, SourceYields, SourceEnds, SourceRaises,
       SourceCancelled, CloseSink, EnqueueLookup, EnqueueDrops, BlockDone,
       EnqueueSeesError, EnqueueRaises, PutTimesOut, PutBlock, deviceSide
<1>2. CASE AcquireLock(w)
  BY <1>2 DEF AcquireLock
<1>3. CASE OpenCard(w) \/ RegisterSlot(w) \/ EnsureStopsPump(w)
  <2>1. pc[w] \in Critical /\ UNCHANGED lock /\ \E p \in Critical : Goto(w, p)
    BY <1>3 DEF OpenCard, RegisterSlot, EnsureStopsPump
  <2> QED
    BY <2>1
<1>4. CASE \/ OpenFails(w) \/ OpenMaskFails(w) \/ JoinRefused(w) \/ GainFails(w)
           \/ EnsureEnabled(w) \/ AddChannel(w) \/ AddChannelFails(w) \/ CloseCard(w)
  <2>1. pc[w] \in Critical
    BY <1>4 DEF OpenFails, OpenMaskFails, JoinRefused, GainFails, EnsureEnabled,
       AddChannel, AddChannelFails, CloseCard
  <2>2. lock' = None /\ (Goto(w, "done") \/ Goto(w, "source"))
    BY <1>4 DEF OpenFails, OpenMaskFails, JoinRefused, GainFails, EnsureEnabled,
       AddChannel, AddChannelFails, CloseCard, Refuse, SinkReady
  <2>3. lock = w /\ \A v \in Stream : v # w => pc[v] \notin Critical /\ pc'[v] = pc[v]
    BY <2>1, <2>2
  <2>4. pc'[w] \in {"done", "source"}
    BY <2>2
  <2> QED
    BY <2>2, <2>3, <2>4
<1>5. CASE ReleaseSlot(w)
  BY <1>5 DEF ReleaseSlot
<1>6. CASE ReleaseLast(w)
  BY <1>6 DEF ReleaseLast
<1> QED
  BY <1>1, <1>2, <1>3, <1>4, <1>5, <1>6 DEF StepOf, Acquire, Enqueue, Release

LEMMA RefStep ==
    ASSUME TypeInv, NEW w \in Stream, StepOf(w)
    PROVE  RefInv'
<1> USE StreamAssumption DEF TypeInv, LockInv, RefInv, TypeOK, StreamTypeOK, CardTypeOK, Goto,
        Critical, Registered, Ended
<1> SUFFICES ASSUME NEW v \in Stream
             PROVE  /\ pc'[v] = "gain" => card' \in Stream
                    /\ pc'[v] \in Registered \cup {"drain"} => sink'[v] \in Stream
                    /\ pc'[v] \in {"put", "flushput"} => target'[v] \in Stream
  OBVIOUS
<1>1. CASE QuietStep(w)
  <2>1. PICK p \in {"source", "push", "flush", "release", "lost"} : Goto(w, p)
    BY <1>1, QuietSteps
  <2>2. UNCHANGED <<card, sink, target>> /\ pc[w] \in {"source", "push", "flush"}
    BY <1>1, QuietSteps DEF deviceSide, threadVars
  <2> QED
    BY <2>1, <2>2
<1>12. CASE JoinCard(w) \/ StartStream(w)
  BY <1>12 DEF StartStream, JoinCard, deviceSide, threadVars
<1>2. CASE EnqueueLookup(w)
  <2>1. QueueOf(w) \in Stream
    BY <1>2 DEF EnqueueLookup, QueueOf
  <2> QED
    BY <1>2, <2>1 DEF EnqueueLookup, deviceSide
<1>3. CASE PutBlock(w)
  BY <1>3 DEF PutBlock, BlockDone
<1>9. CASE PutTimesOut(w)
  <2>1. /\ UNCHANGED <<card, sink>>
        /\ target' = [target EXCEPT ![w] = None]
        /\ pc[w] \in Registered
        /\ \E p \in {"flush", "release", "lost"} : Goto(w, p)
    BY <1>9 DEF PutTimesOut, EnqueueRaises, CloseSink, deviceSide
  <2> QED
    BY <2>1
<1>4. CASE AcquireLock(w) \/ OpenFails(w) \/ OpenMaskFails(w) \/ JoinRefused(w)
  BY <1>4 DEF AcquireLock, OpenFails, OpenMaskFails, JoinRefused, Refuse, threadVars
<1>10. CASE OpenCard(w)
  BY <1>10 DEF OpenCard, threadVars
<1>11. CASE RegisterSlot(w)
  BY <1>11 DEF RegisterSlot
<1>5. CASE GainFails(w)
  BY <1>5 DEF GainFails, Refuse, CloseDevice, threadVars
<1>6. CASE EnsureEnabled(w) \/ EnsureStopsPump(w) \/ AddChannel(w)
  <2>1. /\ UNCHANGED <<card, threadVars>>
        /\ Goto(w, "source") \/ Goto(w, "reconfig")
        /\ pc[w] \in Registered
    BY <1>6 DEF EnsureEnabled, EnsureStopsPump, AddChannel, SinkReady
  <2> QED
    BY <2>1 DEF threadVars
<1>7. CASE AddChannelFails(w)
  BY <1>7 DEF AddChannelFails, Refuse, CloseDevice, threadVars
<1>8. CASE ReleaseSlot(w) \/ ReleaseLast(w) \/ CloseCard(w)
  BY <1>8, SMTT(20) DEF ReleaseSlot, ReleaseLast, CloseCard, CloseDevice, threadVars
<1> QED
  BY <1>1, <1>2, <1>3, <1>4, <1>5, <1>6, <1>7, <1>8,
     <1>9, <1>10, <1>11, <1>12 DEF QuietStep, StepOf, Acquire, Enqueue, Release

\* The pump thread assigns what belongs to its cycle, and the history.
LEMMA PumpKeepsTypes ==
    ASSUME TypeInv, NEW c \in Stream, PumpStep(c)
    PROVE  TypeInv'
<1> USE StreamAssumption DEF TypeInv, TypeOK, PumpTypeOK
<1>1. /\ UNCHANGED <<lock, card, handle, chans, active, queues, fed, sent>>
      /\ UNCHANGED <<pc, sink, target, crowded>>
  BY PumpSteps DEF streamSide, threadVars
<1>2. LockInv' /\ RefInv'
  BY <1>1 DEF LockInv, RefInv
<1>3. /\ underflow' \in [Stream -> SUBSET Slots]
      /\ started' \in [Stream -> BOOLEAN]
      /\ error' \in [Stream -> BOOLEAN]
  <2>1. CASE PumpOverheats(c) \/ PumpWriteFails(c)
    BY <2>1 DEF PumpOverheats, PumpWriteFails, PumpDies, CardTypeOK
  <2>2. CASE PumpBegins(c)
    BY <2>2 DEF PumpBegins, CardTypeOK
  <2>3. CASE PumpUnderflows(c)
    <3>1. Counted(c) \in SUBSET Slots
      BY DEF Counted, NextSlot, Slots, CardTypeOK
    <3> QED
      BY <2>3, <3>1 DEF PumpUnderflows, CardTypeOK
  <2>4. CASE \/ PumpStops(c) \/ PumpFeedsSilence(c) \/ PumpTakes(c) \/ PumpAbandons(c)
             \/ PumpWrites(c)
    BY <2>4 DEF PumpStops, PumpFeedsSilence, PumpTakes, PumpAbandons, PumpWrites,
         CardTypeOK, cardVars
  <2> QED
    BY <2>1, <2>2, <2>3, <2>4 DEF PumpStep
<1>4. PumpTypeOK'
  <2> DEFINE Put(b) == [batch EXCEPT ![c][NextSlot(c)] = b]
  <2>1. ASSUME NEW b \in Block PROVE Put(b) \in [Stream -> [Slots -> Block \cup {None}]]
    <3>1. [batch[c] EXCEPT ![NextSlot(c)] = b] \in [Slots -> Block \cup {None}]
      BY DEF NextSlot, Slots
    <3> QED
      BY <3>1
  <2>2. pump' \in [Stream -> {"new", "top", "collect", "write", "dead"}]
    BY DEF PumpStep, PumpStops, PumpOverheats, PumpBegins, PumpFeedsSilence, PumpTakes,
       PumpUnderflows, PumpAbandons, PumpWrites, PumpWriteFails, PumpDies, Collect
  <2>3. stop' \in [Stream -> BOOLEAN]
    BY DEF PumpStep, PumpStops, PumpOverheats, PumpBegins, PumpFeedsSilence, PumpTakes,
       PumpUnderflows, PumpAbandons, PumpWrites, PumpWriteFails, PumpDies
  <2>4. snap' \in [Stream -> [Slots -> Stream \cup {None}]]
    <3>1. NoQueues \in [Slots -> Stream \cup {None}]
      BY DEF NoQueues
    <3>2. \E q \in {snap[c], queues[c], NoQueues} : snap' = [snap EXCEPT ![c] = q]
      BY DEF PumpStep, PumpStops, PumpOverheats, PumpBegins, PumpFeedsSilence,
         PumpTakes, PumpUnderflows, PumpAbandons, PumpWrites, PumpWriteFails, PumpDies
    <3> QED
      BY <3>1, <3>2 DEF CardTypeOK
  <2>5. batch' \in [Stream -> [Slots -> Block \cup {None}]]
    <3>1. NoBatch \in [Slots -> Block \cup {None}]
      BY DEF NoBatch
    <3>2. CASE PumpTakes(c)
      <4>1. Head(fifo[SnapQueue(c)]) \in Block
        BY <3>2 DEF PumpTakes, SnapQueue, StreamTypeOK, NextSlot, Slots, Block
      <4> QED
        BY <3>2, <4>1, <2>1 DEF PumpTakes, Collect
    <3>3. CASE PumpFeedsSilence(c) \/ PumpUnderflows(c)
      <4>1. batch' = Put(Zero)
        BY <3>3 DEF PumpFeedsSilence, PumpUnderflows, Collect
      <4> QED
        BY <4>1, <2>1 DEF Block
    <3>4. CASE \/ PumpStops(c) \/ PumpOverheats(c) \/ PumpBegins(c) \/ PumpAbandons(c)
               \/ PumpWrites(c) \/ PumpWriteFails(c)
      BY <3>4, <3>1 DEF PumpStops, PumpOverheats, PumpBegins, PumpAbandons, PumpWrites,
           PumpWriteFails, PumpDies
    <3> QED
      BY <3>2, <3>3, <3>4 DEF PumpStep
  <2> QED
    BY <2>2, <2>3, <2>4, <2>5
<1>5. StreamTypeOK'
  <2>1. fifo' \in [Stream -> Seq(Stream)]
    <3>1. CASE PumpTakes(c)
      <4>1. Tail(fifo[SnapQueue(c)]) \in Seq(Stream)
        BY <3>1 DEF PumpTakes, SnapQueue, StreamTypeOK, NextSlot, Slots
      <4> QED
        BY <3>1, <4>1 DEF PumpTakes, StreamTypeOK
    <3>2. CASE ~PumpTakes(c)
      BY <3>2 DEF PumpStep, PumpStops, PumpOverheats, PumpBegins, PumpFeedsSilence,
         PumpUnderflows, PumpAbandons, PumpWrites, PumpWriteFails, StreamTypeOK
    <3> QED
      BY <3>1, <3>2
  <2>2. aired' \in [Stream -> Nat] /\ gap' \in [Stream -> BOOLEAN]
    <3>1. CASE PumpWrites(c)
      BY <3>1 DEF PumpWrites, StreamTypeOK, Gaps
    <3>2. CASE ~PumpWrites(c)
      BY <3>2 DEF PumpStep, PumpStops, PumpOverheats, PumpBegins, PumpFeedsSilence,
         PumpTakes, PumpUnderflows, PumpAbandons, PumpWriteFails, StreamTypeOK, historyVars
    <3> QED
      BY <3>1, <3>2
  <2> QED
    BY <1>1, <2>1, <2>2 DEF StreamTypeOK
<1> QED
  BY <1>1, <1>2, <1>3, <1>4, <1>5 DEF CardTypeOK

\* TypeInv is inductive.
LEMMA TypeStep == TypeInv /\ [AnyStep]_vars => TypeInv'
<1> SUFFICES ASSUME TypeInv, [AnyStep]_vars PROVE TypeInv'
  OBVIOUS
<1>1. CASE UNCHANGED vars
  BY <1>1 DEF vars, deviceSide, cardVars, pumpVars, streamSide, threadVars, historyVars,
     TypeInv, TypeOK, CardTypeOK, PumpTypeOK, StreamTypeOK, LockInv, RefInv
<1>2. ASSUME NEW w \in Stream, StepOf(w) PROVE TypeInv'
  BY <1>2, CardTypeStep, PumpTypeStep, StreamTypeStep, LockStep, RefStep
     DEF TypeInv, TypeOK
<1> QED
  BY <1>1, <1>2, PumpKeepsTypes DEF AnyStep

\* Next allows fewer steps than AnyStep: GivenSlot is not needed below.
LEMMA NextIsAnyStep == [Next]_vars => [AnyStep]_vars
  BY DEF Next, AnyStep, StepOf, StreamStep, Push, AllEnded

\* Every variable keeps its type; the card, the sink and the queue that a
\* thread uses exist (dual_tx.py never dereferences a `_card` of None), and
\* `_lock` excludes: only its holder is inside acquire() or _release().
THEOREM TypeCorrect == Spec => []TypeInv
  BY TypeInit, TypeStep, NextIsAnyStep, PTL DEF Spec

\* The types alone, as the run checks them.
THEOREM TypesHold == Spec => []TypeOK
  BY TypeCorrect, PTL DEF TypeInv

-----------------------------------------------------------------------------
(* The reference count of the card.                                          *)

Users(c) == {w \in Stream : pc[w] \in Registered /\ sink[w] = c}

\* A sink is always one of the current card.
SinkInv == \A w \in Stream : pc[w] \in Registered \cup {"drain"} => sink[w] = card

\* `active` counts the users; a thread that is closing the card left as the last.
CountInv ==
    /\ \A c \in Stream : active[c] = Cardinality(Users(c))
    /\ \A w \in Stream : pc[w] = "drain" => active[sink[w]] = 0

\* The device of the card is open.
CardOpen == card # None => handle[card] = "open"

CardInv == TypeInv /\ SinkInv /\ CardOpen /\ CountInv

LEMMA UsersFinite == \A c \in Stream : IsFiniteSet(Users(c))
  BY StreamAssumption, FS_Subset DEF Users

\* A user is counted, and the last one is the only one.
LEMMA LastUser ==
    ASSUME CardInv, NEW w \in Stream, pc[w] \in Registered
    PROVE  /\ active[sink[w]] >= 1
           /\ LastSlot(sink[w]) => Users(sink[w]) = {w} /\ active[sink[w]] = 1
<1> DEFINE C == sink[w]
           U == Users(C)
<1>1. C \in Stream /\ w \in U /\ IsFiniteSet(U) /\ active[C] = Cardinality(U)
  BY UsersFinite DEF CardInv, TypeInv, RefInv, CountInv, Users
<1>2. IsFiniteSet(U \ {w}) /\ Cardinality(U \ {w}) = Cardinality(U) - 1
  BY <1>1, FS_RemoveElement
<1>3. Cardinality(U) \in Nat /\ Cardinality(U \ {w}) \in Nat
  BY <1>1, <1>2, FS_CardinalityType
<1>4. ASSUME LastSlot(C) PROVE U = {w} /\ active[C] = 1
  <2>1. Cardinality(U \ {w}) = 0 /\ active[C] = 1
    BY <1>1, <1>2, <1>3, <1>4 DEF LastSlot
  <2>2. U \ {w} = {}
    BY <2>1, <1>2, FS_EmptySet
  <2> QED
    BY <2>1, <2>2, <1>1
<1> QED
  BY <1>1, <1>2, <1>3, <1>4

\* A card without a count has no user.
LEMMA NoUser ==
    ASSUME CardInv, NEW c \in Stream, active[c] = 0
    PROVE  Users(c) = {}
  BY UsersFinite, FS_EmptySet DEF CardInv, CountInv

\* What a step of a thread does to the card and to its users.
OpensCard(w) ==
    /\ pc[w] = "open" /\ card = None /\ card' = w
    /\ handle' = [handle EXCEPT ![w] = "open"]
    /\ chans' = [chans EXCEPT ![w] = {SlotOf[w]}]
    /\ Goto(w, "gain")
    /\ UNCHANGED <<active, sink>>
LeavesOpen(w) ==
    /\ pc[w] = "open" /\ card = None
    /\ handle' = [handle EXCEPT ![w] = "open"]
    /\ Goto(w, "done")
    /\ UNCHANGED <<card, active, sink>>
Registers(w) ==
    /\ pc[w] = "gain" /\ Goto(w, "ensure")
    /\ UNCHANGED chans
    /\ sink' = [sink EXCEPT ![w] = card]
    /\ active' = [active EXCEPT ![card] = @ + 1]
    /\ UNCHANGED <<card, handle>>
Leaves(w) ==
    /\ pc[w] \in Registered
    /\ lock = None \/ pc[w] \in Critical
    /\ active' = [active EXCEPT ![sink[w]] = @ - 1]
    /\ UNCHANGED sink
    /\ \/ Goto(w, "done") /\ ~LastSlot(sink[w]) /\ UNCHANGED <<card, handle>>
       \/ Goto(w, "drain") /\ LastSlot(sink[w]) /\ UNCHANGED <<card, handle>>
       \/ /\ Goto(w, "done") /\ LastSlot(sink[w]) /\ CloseDevice(sink[w])
          /\ pc[w] \in {"ensure", "reconfig"} /\ SlotOf[w] \notin chans[sink[w]]
ClosesCard(w) ==
    /\ \/ pc[w] = "gain" /\ active[card] = 0 /\ CloseDevice(card)
       \/ pc[w] = "drain" /\ CloseDevice(sink[w])
    /\ Goto(w, "done")
    /\ UNCHANGED <<active, sink>>
KeepsCard(w) ==
    /\ pc[w] # "drain"
    /\ pc[w] = "gain" => active[card] # 0
    /\ \E p \in Places \ {"drain"} :
        /\ Goto(w, p)
        /\ p \in Registered <=> pc[w] \in Registered
        /\ p \in {"idle", "acquire", "open"} => pc[w] \in {"idle", "acquire"}
        /\ p = "gain" =>
            pc[w] = "open" /\ card # None /\ Compatible(w) /\ UNCHANGED chans
        /\ p \in {"ensure", "reconfig"} => pc[w] = "ensure" /\ UNCHANGED chans
    /\ UNCHANGED <<card, handle, active, sink>>

LEMMA CardSteps ==
    ASSUME NEW w \in Stream, StepOf(w)
    PROVE  \/ OpensCard(w) \/ LeavesOpen(w) \/ Registers(w)
           \/ Leaves(w) \/ ClosesCard(w) \/ KeepsCard(w)
<1> USE DEF cardVars, threadVars
<1>1. CASE QuietStep(w)
  <2>1. PICK p \in {"source", "push", "flush", "release", "lost"} : Goto(w, p)
    BY <1>1, QuietSteps
  <2>2. /\ UNCHANGED <<card, handle, active, sink>>
        /\ pc[w] \in {"source", "push", "flush"}
    BY <1>1, QuietSteps DEF deviceSide
  <2> QED
    BY <2>1, <2>2 DEF KeepsCard, Places, Registered, Ended
<1>2. CASE \/ StartStream(w) \/ JoinCard(w) \/ AcquireLock(w) \/ OpenFails(w)
           \/ JoinRefused(w)
  <2>1. /\ UNCHANGED <<card, handle, active, sink>>
        /\ \/ pc[w] = "idle" /\ Goto(w, "acquire")
           \/ pc[w] = "acquire" /\ Goto(w, "open")
           \/ pc[w] = "open" /\ Goto(w, "done")
           \/ pc[w] = "open" /\ Goto(w, "gain") /\ card # None /\ Compatible(w) /\ UNCHANGED chans
    BY <1>2 DEF StartStream, JoinCard, AcquireLock, OpenFails, JoinRefused, Refuse,
         deviceSide
  <2> QED
    BY <2>1 DEF KeepsCard, Places, Critical, Registered, Ended
<1>3. CASE OpenCard(w)
  BY <1>3 DEF OpenCard, OpensCard
<1>4. CASE RegisterSlot(w)
  BY <1>4 DEF RegisterSlot, Registers
<1>5. CASE GainFails(w)
  <2>1. CASE active[card] = 0
    BY <1>5, <2>1 DEF GainFails, Refuse, ClosesCard
  <2>2. CASE active[card] # 0
    BY <1>5, <2>2 DEF GainFails, Refuse, KeepsCard, Places, Ended, Registered, Critical
  <2> QED
    BY <2>1, <2>2
<1>6. CASE \/ EnsureEnabled(w) \/ EnsureStopsPump(w) \/ AddChannel(w)
           \/ EnqueueLookup(w) \/ PutBlock(w) \/ PutTimesOut(w)
  <2>1. /\ UNCHANGED <<card, handle, active, sink>>
        /\ pc[w] \in Registered
    BY <1>6 DEF EnsureEnabled, EnsureStopsPump, AddChannel, EnqueueLookup, PutBlock,
         PutTimesOut, Registered, deviceSide
  <2>2. \/ \E p \in Registered \ {"ensure", "reconfig"} : Goto(w, p)
        \/ Goto(w, "reconfig") /\ pc[w] = "ensure" /\ UNCHANGED chans
    BY <1>6 DEF EnsureEnabled, EnsureStopsPump, AddChannel, EnqueueLookup, PutBlock,
         PutTimesOut, SinkReady, BlockDone, EnqueueRaises, CloseSink, Registered
  <2> QED
    BY <2>1, <2>2 DEF KeepsCard, Places, Registered
<1>7. CASE AddChannelFails(w)
  BY <1>7 DEF AddChannelFails, Refuse, Unregister, Leaves, Registered, Critical
<1>8. CASE ReleaseSlot(w) \/ ReleaseLast(w)
  BY <1>8 DEF ReleaseSlot, ReleaseLast, Unregister, Leaves, Registered
<1>9. CASE CloseCard(w)
  BY <1>9 DEF CloseCard, ClosesCard
<1>10. CASE OpenMaskFails(w)
  BY <1>10 DEF OpenMaskFails, Refuse, LeavesOpen
<1> QED
  BY <1>1, <1>2, <1>3, <1>4, <1>5, <1>6, <1>7, <1>8, <1>9, <1>10
     DEF QuietStep, StepOf, Acquire, Enqueue, Release

LEMMA CardInit == Init => CardInv
<1> SUFFICES ASSUME Init PROVE CardInv
  OBVIOUS
<1>1. \A c \in Stream : Users(c) = {}
  BY DEF Init, Users, Registered
<1> QED
  BY <1>1, TypeInit, FS_EmptySet, StreamAssumption
     DEF Init, CardInv, SinkInv, CardOpen, CountInv, Registered

\* The thread that holds the card at "gain" or "drain" has it for itself.
LEMMA CriticalAlone ==
    ASSUME CardInv, NEW w \in Stream, pc[w] \in Critical,
           NEW v \in Stream, v # w
    PROVE  pc[v] \notin Critical
  BY DEF CardInv, TypeInv, LockInv

LEMMA SinkStep ==
    ASSUME CardInv, NEW w \in Stream, StepOf(w)
    PROVE  SinkInv'
<1> USE StreamAssumption DEF Goto, CardInv, TypeInv, TypeOK, CardTypeOK, StreamTypeOK, SinkInv
<1> SUFFICES ASSUME NEW v \in Stream, pc'[v] \in Registered \cup {"drain"}
             PROVE  sink'[v] = card'
  OBVIOUS
<1>1. CASE OpensCard(w)
  BY <1>1 DEF OpensCard, RefInv, Registered
<1>2. CASE Registers(w)
  BY <1>2 DEF Registers
<1>3. CASE Leaves(w)
  <2>1. CASE Goto(w, "done") /\ UNCHANGED <<card, handle>>
    BY <1>3, <2>1 DEF Leaves, Registered
  <2>2. CASE Goto(w, "drain") /\ UNCHANGED <<card, handle>>
    BY <1>3, <2>2 DEF Leaves, Registered
  <2>3. CASE Goto(w, "done") /\ LastSlot(sink[w])
    <3>1. Users(sink[w]) = {w}
      BY <1>3, <2>3, LastUser DEF Leaves
    <3>2. v # w /\ pc[v] \in Registered \cup {"drain"} /\ sink[v] = sink[w]
      BY <1>3, <2>3 DEF Leaves, Registered
    <3>3. pc[v] = "drain"
      BY <3>1, <3>2 DEF Users
    <3>4. active[sink[w]] = 0 /\ active[sink[w]] >= 1
      BY <1>3, <3>2, <3>3, LastUser DEF CountInv, Leaves
    <3> QED
      BY <3>4
  <2> QED
    BY <1>3, <2>1, <2>2, <2>3 DEF Leaves
<1>4. CASE ClosesCard(w)
  <2>1. v # w /\ pc[v] \in Registered
    BY <1>4, CriticalAlone DEF ClosesCard, Registered, Critical
  <2>2. active[card] = 0 /\ card \in Stream /\ sink[v] = card
    BY <1>4, <2>1 DEF ClosesCard, CountInv, RefInv
  <2> QED
    BY <2>1, <2>2, NoUser DEF Users
<1>5. CASE KeepsCard(w)
  BY <1>5 DEF KeepsCard, Places
<1>6. CASE LeavesOpen(w)
  BY <1>6 DEF LeavesOpen, Registered
<1> QED
  BY <1>1, <1>2, <1>3, <1>4, <1>5, <1>6, CardSteps

LEMMA DeviceStep ==
    ASSUME CardInv, NEW w \in Stream, StepOf(w)
    PROVE  CardOpen'
<1> USE StreamAssumption DEF CardInv, TypeInv, TypeOK, CardTypeOK, CardOpen, CloseDevice,
        CardWithout
<1>1. CASE OpensCard(w)
  BY <1>1 DEF OpensCard
<1>2. CASE Registers(w) \/ KeepsCard(w) \/ LeavesOpen(w)
  BY <1>2 DEF Registers, KeepsCard, LeavesOpen
<1>3. CASE Leaves(w)
  <2>1. sink[w] = card /\ card \in Stream
    BY <1>3 DEF Leaves, SinkInv, RefInv
  <2> QED
    BY <1>3, <2>1 DEF Leaves
<1>4. CASE ClosesCard(w)
  <2>1. card \in Stream /\ CloseDevice(card)
    BY <1>4 DEF ClosesCard, SinkInv, RefInv
  <2> QED
    BY <2>1
<1> QED
  BY <1>1, <1>2, <1>3, <1>4, CardSteps

LEMMA CountStep ==
    ASSUME CardInv, NEW w \in Stream, StepOf(w)
    PROVE  CountInv'
<1> USE StreamAssumption DEF CardInv, TypeInv, TypeOK, CardTypeOK, StreamTypeOK, Goto
<1>1. CASE OpensCard(w) \/ LeavesOpen(w) \/ ClosesCard(w) \/ KeepsCard(w)
  <2>1. UNCHANGED <<active, sink>>
    BY <1>1 DEF OpensCard, LeavesOpen, ClosesCard, KeepsCard
  <2>2. /\ pc'[w] \in Registered <=> pc[w] \in Registered
        /\ pc'[w] # "drain"
        /\ \A v \in Stream \ {w} : pc'[v] = pc[v]
    <3>1. CASE OpensCard(w)
      BY <3>1 DEF OpensCard, SinkInv, RefInv, Registered
    <3>2. CASE ClosesCard(w)
      BY <3>2 DEF ClosesCard, Registered
    <3>3. CASE KeepsCard(w)
      BY <3>3 DEF KeepsCard
    <3>4. CASE LeavesOpen(w)
      BY <3>4 DEF LeavesOpen, Registered
    <3> QED
      BY <1>1, <3>1, <3>2, <3>3, <3>4
  <2>3. ASSUME NEW c \in Stream PROVE Users(c)' = Users(c)
    <3>1. \A v \in Stream : pc'[v] \in Registered <=> pc[v] \in Registered
      BY <2>2
    <3> QED
      BY <2>1, <3>1, Zenon DEF Users
  <2> QED
    BY <2>1, <2>2, <2>3 DEF CountInv
<1>2. CASE Registers(w)
  <2>1. card \in Stream
    BY <1>2 DEF Registers, RefInv
  <2>2. Users(card)' = Users(card) \cup {w} /\ w \notin Users(card)
    BY <1>2 DEF Registers, Users, Registered
  <2>3. \A c \in Stream \ {card} : Users(c)' = Users(c)
    BY <1>2 DEF Registers, Users, Registered
  <2>4. Cardinality(Users(card)') = active[card] + 1
    <3>1. IsFiniteSet(Users(card)) /\ active[card] = Cardinality(Users(card))
      BY <2>1, UsersFinite DEF CountInv
    <3>2. Cardinality(Users(card) \cup {w}) = Cardinality(Users(card)) + 1
      BY <3>1, <2>2, FS_AddElement
    <3> QED
      BY <3>1, <3>2, <2>2
  <2>5. \A v \in Stream : pc'[v] # "drain"
    BY <1>2, CriticalAlone DEF Registers, Critical
  <2> QED
    BY <1>2, <2>1, <2>3, <2>4, <2>5 DEF Registers, CountInv
<1>3. CASE Leaves(w)
  <2> DEFINE C == sink[w]
  <2>1. C \in Stream /\ w \in Users(C)
    BY <1>3 DEF Leaves, RefInv, Users
  <2>2. Users(C)' = Users(C) \ {w}
    BY <1>3, <2>1 DEF Leaves, Users, Registered
  <2>3. \A c \in Stream \ {C} : Users(c)' = Users(c)
    BY <1>3 DEF Leaves, Users, Registered
  <2>4. Cardinality(Users(C)') = active[C] - 1
    <3> DEFINE U == Users(C)
    <3>1. IsFiniteSet(U) /\ w \in U /\ active[C] = Cardinality(U)
      BY <2>1, UsersFinite DEF CountInv
    <3> HIDE DEF U
    <3>2. Cardinality(U \ {w}) = Cardinality(U) - 1
      BY <3>1, FS_RemoveElement
    <3> USE DEF U
    <3> QED
      BY <3>1, <3>2, <2>2
  <2>5. ASSUME NEW v \in Stream, pc'[v] = "drain"
        PROVE  active'[sink'[v]] = 0
    <3>1. CASE v = w
      <4>1. active[C] = 1
        BY <1>3, <2>5, <3>1, LastUser DEF Leaves
      <4> QED
        BY <1>3, <2>1, <3>1, <4>1 DEF Leaves
    <3>2. CASE v # w
      <4>1. pc[v] = "drain" /\ sink[v] = card /\ sink[w] = card
        BY <1>3, <2>5, <3>2 DEF Leaves, SinkInv
      <4>2. active[card] = 0 /\ active[card] >= 1
        BY <1>3, <4>1, LastUser DEF CountInv, Leaves
      <4> QED
        BY <4>2
    <3> QED
      BY <3>1, <3>2
  <2> QED
    BY <1>3, <2>1, <2>3, <2>4, <2>5, SMTT(20) DEF Leaves, CountInv
<1> QED
  BY <1>1, <1>2, <1>3, CardSteps

\* CardInv is inductive.
LEMMA CardStep == CardInv /\ [AnyStep]_vars => CardInv'
<1> SUFFICES ASSUME CardInv, [AnyStep]_vars PROVE CardInv'
  OBVIOUS
<1>1. TypeInv'
  BY TypeStep DEF CardInv
<1>2. ASSUME UNCHANGED <<card, handle, active, pc, sink>>
      PROVE  SinkInv' /\ CardOpen' /\ CountInv'
  <2>1. \A c \in Stream : Users(c)' = Users(c)
    BY <1>2 DEF Users
  <2> QED
    BY <1>2, <2>1 DEF CardInv, SinkInv, CardOpen, CountInv
<1>3. CASE UNCHANGED vars
  BY <1>1, <1>2, <1>3 DEF vars, deviceSide, cardVars, streamSide, threadVars, CardInv
<1>4. ASSUME NEW c \in Stream, PumpStep(c) PROVE CardInv'
  BY <1>1, <1>2, <1>4, PumpSteps DEF streamSide, threadVars, CardInv
<1>5. ASSUME NEW w \in Stream, StepOf(w) PROVE CardInv'
  BY <1>1, <1>5, SinkStep, DeviceStep, CountStep DEF CardInv
<1> QED
  BY <1>3, <1>4, <1>5 DEF AnyStep

LEMMA CardInvariant == Spec => []CardInv
  BY CardInit, CardStep, NextIsAnyStep, PTL DEF Spec

LEMMA CardOpenForUsers == CardInv => UsersKeepCardOpen
  BY StreamAssumption DEF CardInv, TypeInv, RefInv, SinkInv, CardOpen, UsersKeepCardOpen

\* No interleaving of acquires and releases, failed ones included, closes the
\* device under a stream that is still registered on it.
THEOREM UsersKeepCardOpenHolds == Spec => []UsersKeepCardOpen
  BY CardOpenForUsers, CardInvariant, PTL

\* `active` is the number of streams that hold the card, so it is never
\* negative and is zero exactly when nobody does.
THEOREM ReferenceCount == Spec => []CountInv
  BY CardInvariant, PTL DEF CardInv

-----------------------------------------------------------------------------
(* The pump thread: its life within that of its card, and the mask under     *)
(* its cycles.                                                               *)

\* A card that nobody uses is being opened or closed by the lock's holder.
IdleCardInv ==
    card # None /\ active[card] = 0 => \E w \in Stream : pc[w] \in {"gain", "drain"}

\* The pump of a card is started by its first user, and has been told to stop
\* before the card is closed.
PumpLifeInv ==
    /\ \A c \in Stream : handle[c] = "none" => pump[c] = "new"
    /\ \A w \in Stream : pc[w] \in {"idle", "acquire", "open"} => handle[w] = "none"
    /\ \A w \in Stream : pc[w] = "gain" /\ active[card] = 0 => ~PumpAlive(card)
    /\ \A w \in Stream : pc[w] = "drain" => stop[sink[w]]

\* A sink is one of a card that was opened, and an open device without a card
\* is one whose mask could not be set.
SinkOpenInv == \A w \in Stream : sink[w] # None => handle[sink[w]] # "none"
LeftOpenInv == \A c \in Stream : handle[c] = "open" /\ c # card => Abandoned(c)

LifeInv ==
    /\ CardInv /\ IdleCardInv /\ PumpLifeInv /\ NoCycleOnClosedDevice
    /\ SinkOpenInv /\ LeftOpenInv

\* What a step of a thread does to the pump.
StartsPump(w) ==
    /\ pc[w] \in Registered \cap Critical /\ Goto(w, "source")
    /\ ~PumpAlive(sink[w])
    /\ StartPump(sink[w])
    /\ UNCHANGED <<card, handle, active, sink>>
KeepsPump ==
    /\ UNCHANGED pump
    /\ \A c \in Stream : stop[c] => stop'[c]

\* The three ways to close a device: before it had a pump, or with a pump that
\* was told to stop and is joined or inside a write.
ClosesDevice(w) ==
    /\ pc[w] \in Critical
    /\ \/ pc[w] = "gain" /\ active[card] = 0 /\ CloseDevice(card)
       \/ /\ pc[w] \in Registered \/ pc[w] = "drain"
          /\ CloseDevice(sink[w])
          /\ PumpJoined(sink[w]) \/ pump[sink[w]] = "write"
          /\ pc[w] # "drain" => stop'[sink[w]]

LEMMA PumpControl ==
    ASSUME TypeInv, NEW w \in Stream, StepOf(w)
    PROVE  /\ StartsPump(w) \/ KeepsPump
           /\ Goto(w, "drain") => stop'[sink[w]]
           /\ UNCHANGED handle \/ OpensCard(w) \/ LeavesOpen(w) \/ ClosesDevice(w)
<1> USE DEF cardVars, pumpVars, deviceSide, TypeInv, TypeOK, PumpTypeOK, KeepsPump
<1> pc \in [Stream -> Places]
  BY DEF StreamTypeOK
<1>1. CASE QuietStep(w)
  BY <1>1, QuietSteps DEF Goto
<1>2. CASE \/ StartStream(w) \/ JoinCard(w) \/ AcquireLock(w) \/ OpenFails(w)
           \/ JoinRefused(w) \/ RegisterSlot(w) \/ EnqueueLookup(w) \/ PutBlock(w)
           \/ PutTimesOut(w) \/ ReleaseSlot(w)
  <2>1. /\ UNCHANGED <<pump, stop, handle>>
        /\ pc'[w] # "drain"
    BY <1>2 DEF StartStream, JoinCard, AcquireLock, OpenFails, JoinRefused, Refuse,
         RegisterSlot, EnqueueLookup, PutBlock, PutTimesOut, ReleaseSlot, BlockDone,
         EnqueueRaises, CloseSink, Goto
  <2> QED
    BY <2>1 DEF Goto
<1>3. CASE OpenCard(w)
  BY <1>3 DEF OpenCard, OpensCard, threadVars, Goto
<1>4. CASE GainFails(w)
  BY <1>4 DEF GainFails, Refuse, ClosesDevice, Critical, Goto
<1>5. CASE EnsureEnabled(w) \/ AddChannel(w)
  BY <1>5 DEF EnsureEnabled, AddChannel, SinkReady, StartsPump, PumpJoined, Registered, Critical,
       threadVars, Goto
<1>6. CASE EnsureStopsPump(w)
  BY <1>6 DEF EnsureStopsPump, Goto
<1>7. CASE AddChannelFails(w)
  <2>1. sink[w] \in Stream
    BY <1>7 DEF AddChannelFails, RefInv, Registered
  <2>2. PumpJoined(sink[w]) \/ pump[sink[w]] = "write"
    BY <1>7 DEF AddChannelFails, JoinTimesOut
  <2> QED
    BY <1>7, <2>1, <2>2 DEF AddChannelFails, Refuse, ClosesDevice, Critical, Registered, Goto
<1>8. CASE ReleaseLast(w)
  <2>1. sink[w] \in Stream
    BY <1>8 DEF ReleaseLast, RefInv, Registered
  <2> QED
    BY <1>8, <2>1 DEF ReleaseLast
<1>9. CASE CloseCard(w)
  BY <1>9 DEF CloseCard, ClosesDevice, JoinTimesOut, Critical, Goto
<1>10. CASE OpenMaskFails(w)
  BY <1>10 DEF OpenMaskFails, Refuse, LeavesOpen, threadVars, Goto
<1> QED
  BY <1>1, <1>2, <1>3, <1>4, <1>5, <1>6, <1>7, <1>8, <1>9, <1>10
     DEF QuietStep, StepOf, Acquire, Enqueue, Release

LEMMA LifeInit == Init => LifeInv
  BY CardInit, StreamAssumption
     DEF Init, LifeInv, IdleCardInv, PumpLifeInv, NoCycleOnClosedDevice, PumpAlive,
         SinkOpenInv, LeftOpenInv

LEMMA IdleStep ==
    ASSUME LifeInv, NEW w \in Stream, StepOf(w)
    PROVE  IdleCardInv'
<1> USE StreamAssumption DEF LifeInv, CardInv, TypeInv, TypeOK, CardTypeOK, StreamTypeOK, Goto,
        IdleCardInv
<1> SUFFICES ASSUME card' # None, active'[card'] = 0
             PROVE  \E v \in Stream : pc'[v] \in {"gain", "drain"}
  OBVIOUS
<1>1. CASE OpensCard(w)
  BY <1>1 DEF OpensCard
<1>2. CASE Registers(w)
  <2>1. active[card] = 0 - 1 /\ card \in Stream
    BY <1>2 DEF Registers, RefInv
  <2>2. Cardinality(Users(card)) \in Nat
    BY <2>1, UsersFinite, FS_CardinalityType
  <2> QED
    BY <2>1, <2>2 DEF CountInv
<1>3. CASE Leaves(w)
  <2>1. sink[w] = card /\ card \in Stream /\ active[card] >= 1
    BY <1>3, LastUser, SMTT(20) DEF Leaves, SinkInv, RefInv
  <2>2. CASE Goto(w, "done") /\ ~LastSlot(sink[w]) /\ UNCHANGED <<card, handle>>
    BY <1>3, <2>1, <2>2 DEF Leaves, LastSlot
  <2>3. CASE Goto(w, "drain")
    BY <2>3
  <2>4. CASE CloseDevice(sink[w])
    BY <2>1, <2>4 DEF CloseDevice, CardWithout
  <2> QED
    BY <1>3, <2>2, <2>3, <2>4 DEF Leaves
<1>4. CASE ClosesCard(w)
  <2>1. card \in Stream /\ CloseDevice(card)
    BY <1>4 DEF ClosesCard, SinkInv, RefInv
  <2> QED
    BY <2>1 DEF CloseDevice, CardWithout
<1>5. CASE KeepsCard(w)
  <2>1. PICK v \in Stream : pc[v] \in {"gain", "drain"}
    BY <1>5 DEF KeepsCard
  <2>2. v # w
    BY <1>5, <2>1 DEF KeepsCard
  <2> QED
    BY <1>5, <2>1, <2>2 DEF KeepsCard
<1>6. CASE LeavesOpen(w)
  BY <1>6 DEF LeavesOpen
<1> QED
  BY <1>1, <1>2, <1>3, <1>4, <1>5, <1>6, CardSteps

\* The holder of `_lock` finds the card and its pump as they were after another
\* thread's step.
LEMMA HolderUndisturbed ==
    ASSUME LifeInv, TypeInv', NEW w \in Stream, StepOf(w),
           NEW v \in Stream, v # w, pc[v] \in Critical
    PROVE  /\ UNCHANGED <<card, handle, active, sink, pump>>
           /\ \A c \in Stream : stop[c] => stop'[c]
<1> USE DEF LifeInv, CardInv
<1>1. pc'[v] = pc[v] /\ pc[w] \notin Critical
  BY CriticalAlone, PlaceStep DEF Critical, Goto, TypeInv, TypeOK, StreamTypeOK
<1>2. pc'[w] \notin Critical
  BY <1>1 DEF TypeInv, LockInv, Critical
<1>3. KeepsPump
  BY <1>1, PumpControl DEF StartsPump
<1>4. pc' = [pc EXCEPT ![w] = pc'[w]]
  BY PlaceStep DEF Goto, TypeInv, TypeOK, StreamTypeOK
<1>5. ~OpensCard(w) /\ ~LeavesOpen(w) /\ ~Registers(w) /\ ~ClosesCard(w)
  BY <1>1, <1>2 DEF OpensCard, LeavesOpen, Registers, ClosesCard, Critical, Goto, TypeInv, TypeOK, StreamTypeOK
<1>6. ~Leaves(w)
  BY <1>1, StreamAssumption DEF Leaves, TypeInv, LockInv, Critical
<1> QED
  BY <1>3, <1>5, <1>6, CardSteps DEF KeepsPump, KeepsCard

LEMMA PumpLifeStep ==
    ASSUME LifeInv, TypeInv', NEW w \in Stream, StepOf(w)
    PROVE  PumpLifeInv'
<1> USE StreamAssumption DEF LifeInv, CardInv, PumpLifeInv
<1> pc \in [Stream -> Places] /\ handle \in [Stream -> {"none", "open", "closed"}]
  BY DEF TypeInv, TypeOK, StreamTypeOK, CardTypeOK
<1> /\ stop \in [Stream -> BOOLEAN]
    /\ pump \in [Stream -> {"new", "top", "collect", "write", "dead"}]
    /\ card \in Stream \cup {None}
  BY DEF TypeInv, TypeOK, PumpTypeOK, CardTypeOK
<1> DEFINE Fresh == {"idle", "acquire", "open"}
<1>1. pc' = [pc EXCEPT ![w] = pc'[w]]
  BY PlaceStep DEF Goto
<1>2. ASSUME NEW c \in Stream, handle'[c] = "none" PROVE pump'[c] = "new"
  <2>1. handle[c] = "none"
    BY <1>2, CardSteps
       DEF OpensCard, LeavesOpen, Registers, Leaves, ClosesCard, KeepsCard, CloseDevice
  <2>2. CASE KeepsPump
    BY <2>1, <2>2 DEF KeepsPump
  <2>3. CASE StartsPump(w)
    <3>1. sink[w] = card /\ card \in Stream /\ handle[card] = "open"
      BY <2>3 DEF StartsPump, SinkInv, RefInv, TypeInv, CardOpen
    <3> QED
      BY <2>1, <2>3, <3>1 DEF StartsPump, StartPump
  <2> QED
    BY <2>2, <2>3, PumpControl
<1>3. ASSUME NEW v \in Stream, pc'[v] \in Fresh PROVE handle'[v] = "none"
  <2>1. pc[v] \in Fresh
    BY <1>1, <1>3, CardSteps
       DEF OpensCard, LeavesOpen, Registers, Leaves, ClosesCard, KeepsCard, Goto
  <2>2. CASE UNCHANGED handle
    BY <2>1, <2>2
  <2>5. CASE LeavesOpen(w)
    BY <1>1, <1>3, <2>1, <2>5 DEF LeavesOpen, Goto
  <2>3. CASE OpensCard(w)
    BY <1>1, <1>3, <2>1, <2>3 DEF OpensCard, Goto
  <2>4. CASE ClosesDevice(w)
    <3>1. card \in Stream /\ handle[card] = "open" /\ CloseDevice(card)
      BY <2>4 DEF ClosesDevice, SinkInv, RefInv, TypeInv, CardOpen
    <3> QED
      BY <2>1, <3>1 DEF CloseDevice
  <2> QED
    BY <2>2, <2>3, <2>4, <2>5, PumpControl
<1>4. ASSUME NEW v \in Stream, pc'[v] = "gain", active'[card'] = 0
      PROVE  (~PumpAlive(card))'
  <2>1. CASE v # w
    <3>1. pc[v] = "gain"
      BY <1>1, <1>4, <2>1
    <3>2. UNCHANGED <<card, active, pump>>
      BY <2>1, <3>1, HolderUndisturbed DEF Critical
    <3> QED
      BY <1>4, <3>1, <3>2 DEF PumpAlive
  <2>2. CASE v = w
    <3>1. OpensCard(w) \/ KeepsCard(w)
      BY <1>4, <2>2, CardSteps
         DEF OpensCard, LeavesOpen, Registers, Leaves, ClosesCard, KeepsCard, Goto
    <3>2. KeepsPump
      BY <1>4, <2>2, PumpControl DEF StartsPump, Goto
    <3>3. CASE OpensCard(w)
      <4>1. pump[w] = "new" /\ pump' = pump /\ card' = w
        BY <3>2, <3>3 DEF OpensCard, KeepsPump
      <4> QED
        BY <4>1 DEF PumpAlive
    <3>4. CASE KeepsCard(w)
      <4>1. card # None /\ pc[w] = "open" /\ active[card] = 0
        BY <1>4, <2>2, <3>4 DEF KeepsCard, Goto
      <4>2. PICK u \in Stream : pc[u] \in {"gain", "drain"}
        BY <4>1 DEF IdleCardInv
      <4> QED
        BY <4>1, <4>2, CriticalAlone DEF Critical
    <3> QED
      BY <3>1, <3>3, <3>4
  <2> QED
    BY <2>1, <2>2
<1>5. ASSUME NEW v \in Stream, pc'[v] = "drain" PROVE stop'[sink'[v]]
  <2>1. CASE v # w
    <3>1. pc[v] = "drain" /\ sink[v] \in Stream
      BY <1>1, <1>5, <2>1 DEF TypeInv, RefInv
    <3> QED
      BY <2>1, <3>1, HolderUndisturbed DEF Critical
  <2>2. CASE v = w
    <3>1. Goto(w, "drain") /\ UNCHANGED sink
      BY <1>1, <1>5, <2>2, CardSteps
         DEF OpensCard, LeavesOpen, Registers, Leaves, ClosesCard, KeepsCard, Goto
    <3> QED
      BY <2>2, <3>1, PumpControl DEF TypeInv
  <2> QED
    BY <2>1, <2>2
<1> QED
  BY <1>2, <1>3, <1>4, <1>5

LEMMA ClosedStep ==
    ASSUME LifeInv, NEW w \in Stream, StepOf(w)
    PROVE  NoCycleOnClosedDevice'
<1> USE StreamAssumption DEF LifeInv, CardInv, PumpLifeInv, NoCycleOnClosedDevice, PumpAlive
<1> handle \in [Stream -> {"none", "open", "closed"}]
  BY DEF TypeInv, TypeOK, CardTypeOK
<1> /\ stop \in [Stream -> BOOLEAN]
    /\ pump \in [Stream -> {"new", "top", "collect", "write", "dead"}]
  BY DEF TypeInv, TypeOK, PumpTypeOK
<1> SUFFICES ASSUME NEW c \in Stream, handle'[c] = "closed", PumpAlive(c)'
             PROVE  stop'[c] /\ pump'[c] \in {"write", "top"}
  OBVIOUS
<1>1. CASE StartsPump(w)
  <2>1. sink[w] = card /\ card \in Stream /\ handle[card] = "open"
    BY <1>1 DEF StartsPump, SinkInv, RefInv, TypeInv, CardOpen
  <2> QED
    BY <1>1, <2>1 DEF StartsPump, StartPump
<1>2. CASE KeepsPump /\ (UNCHANGED handle \/ OpensCard(w) \/ LeavesOpen(w))
  BY <1>2 DEF KeepsPump, OpensCard, LeavesOpen
<1>3. CASE KeepsPump /\ ClosesDevice(w)
  <2>1. CASE handle[c] = "closed"
    BY <1>3, <2>1 DEF KeepsPump
  <2>2. CASE handle[c] # "closed"
    <3>1. card = c /\ (pc[w] # "gain" => sink[w] = c)
      BY <1>3, <2>2 DEF ClosesDevice, CloseDevice, SinkInv, RefInv, TypeInv
    <3>2. CASE pc[w] = "gain"
      BY <1>3, <3>1, <3>2 DEF ClosesDevice, KeepsPump, Registered
    <3>3. CASE pc[w] # "gain"
      BY <1>3, <3>1, <3>3 DEF ClosesDevice, KeepsPump, PumpJoined
    <3> QED
      BY <3>2, <3>3
  <2> QED
    BY <2>1, <2>2
<1> QED
  BY <1>1, <1>2, <1>3, PumpControl

\* A device becomes one without a card only where its mask could not be set,
\* and nobody takes it up again.
LEMMA LeftOpenStep ==
    ASSUME LifeInv, TypeInv', NEW w \in Stream, StepOf(w)
    PROVE  SinkOpenInv' /\ LeftOpenInv'
<1> USE StreamAssumption DEF LifeInv, CardInv
<1> /\ pc \in [Stream -> Places] /\ pc' = [pc EXCEPT ![w] = pc'[w]]
    /\ sink \in [Stream -> Stream \cup {None}]
  BY PlaceStep DEF Goto, TypeInv, TypeOK, StreamTypeOK
<1> /\ handle \in [Stream -> {"none", "open", "closed"}]
    /\ card \in Stream \cup {None}
  BY DEF TypeInv, TypeOK, CardTypeOK
<1>1. SinkOpenInv'
  <2>1. \A c \in Stream : handle[c] # "none" => handle'[c] # "none"
    BY CardSteps
       DEF OpensCard, LeavesOpen, Registers, Leaves, ClosesCard, KeepsCard, CloseDevice
  <2>2. sink' = sink \/ Registers(w)
    BY CardSteps DEF OpensCard, LeavesOpen, Leaves, ClosesCard, KeepsCard
  <2>3. CASE Registers(w)
    BY <2>1, <2>3 DEF Registers, TypeInv, RefInv, CardOpen, SinkOpenInv
  <2> QED
    BY <2>1, <2>2, <2>3 DEF SinkOpenInv
<1>2. ASSUME NEW c \in Stream, handle'[c] = "open", c # card'
      PROVE  Abandoned(c)'
  <2>1. CASE LeavesOpen(w) /\ c = w
    <3>1. pump[w] = "new" /\ handle[w] = "none" /\ UNCHANGED sink /\ pc'[w] = "done"
      BY <2>1 DEF LeavesOpen, PumpLifeInv, Goto
    <3>2. pump' = pump
      BY <2>1, PumpControl DEF LeavesOpen, StartsPump, KeepsPump, Goto, Registered
    <3> QED
      BY <2>1, <3>1, <3>2 DEF Abandoned, SinkOpenInv
  <2>2. CASE ~(LeavesOpen(w) /\ c = w)
    <3>1. handle[c] = "open" /\ c # card
      <4>1. CASE Registers(w) \/ KeepsCard(w)
        BY <1>2, <4>1 DEF Registers, KeepsCard
      <4>4. CASE OpensCard(w)
        BY <1>2, <4>4 DEF OpensCard
      <4>5. CASE LeavesOpen(w)
        BY <1>2, <2>2, <4>5 DEF LeavesOpen
      <4>2. CASE Leaves(w)
        <5>1. sink[w] = card /\ card \in Stream
          BY <4>2 DEF Leaves, SinkInv, TypeInv, RefInv
        <5> QED
          BY <1>2, <4>2, <5>1 DEF Leaves, CloseDevice, CardWithout
      <4>3. CASE ClosesCard(w)
        <5>1. card \in Stream /\ CloseDevice(card)
          BY <4>3 DEF ClosesCard, SinkInv, TypeInv, RefInv
        <5> QED
          BY <1>2, <5>1 DEF CloseDevice, CardWithout
      <4> QED
        BY <4>1, <4>2, <4>3, <4>4, <4>5, CardSteps
    <3>2. Abandoned(c)
      BY <3>1 DEF LeftOpenInv
    <3>3. pc'[c] = "done"
      <4>1. CASE c = w
        BY <3>2, <4>1, CardSteps
           DEF Abandoned, OpensCard, LeavesOpen, Registers, Leaves, ClosesCard, KeepsCard,
               Places, Critical, Registered, Ended, Goto
      <4>2. CASE c # w
        BY <3>2, <4>2 DEF Abandoned
      <4> QED
        BY <4>1, <4>2
    <3>4. pump'[c] = "new"
      <4>1. CASE StartsPump(w)
        BY <3>2, <4>1 DEF StartsPump, StartPump, Abandoned
      <4>2. CASE KeepsPump
        BY <3>2, <4>2 DEF KeepsPump, Abandoned
      <4> QED
        BY <4>1, <4>2, PumpControl
    <3>5. \A v \in Stream : sink'[v] # c
      <4>1. sink' = sink \/ Registers(w)
        BY CardSteps DEF OpensCard, LeavesOpen, Leaves, ClosesCard, KeepsCard
      <4> QED
        BY <3>1, <3>2, <4>1 DEF Abandoned, Registers
    <3> QED
      BY <3>3, <3>4, <3>5 DEF Abandoned
  <2> QED
    BY <2>1, <2>2
<1> QED
  BY <1>1, <1>2 DEF LeftOpenInv

\* The pump's own steps: it never restarts itself, nor forgets a stop.
LEMMA PumpKeepsLife ==
    ASSUME LifeInv, NEW c \in Stream, PumpStep(c)
    PROVE  /\ IdleCardInv' /\ PumpLifeInv' /\ NoCycleOnClosedDevice'
           /\ SinkOpenInv' /\ LeftOpenInv'
<1> USE DEF LifeInv, CardInv
<1> /\ stop \in [Stream -> BOOLEAN]
    /\ pump \in [Stream -> {"new", "top", "collect", "write", "dead"}]
  BY DEF TypeInv, TypeOK, PumpTypeOK
<1>1. /\ UNCHANGED <<card, handle, active, pc, sink>>
  BY PumpSteps DEF streamSide, threadVars
<1>2. /\ PumpAlive(c)
      /\ stop[c] => stop'[c]
      /\ \A d \in Stream \ {c} : pump'[d] = pump[d] /\ stop'[d] = stop[d]
      /\ pump'[c] \in {"top", "collect", "write", "dead"}
      /\ pump[c] = "top" /\ stop[c] => pump'[c] = "dead"
      /\ pump[c] = "write" => pump'[c] \in {"top", "dead"}
  <2>1. CASE \/ PumpStops(c) \/ PumpOverheats(c) \/ PumpBegins(c)
             \/ PumpWrites(c) \/ PumpWriteFails(c) \/ PumpAbandons(c)
    BY <2>1 DEF PumpStops, PumpOverheats, PumpBegins, PumpWrites, PumpWriteFails,
         PumpAbandons, PumpDies, PumpAlive
  <2>2. CASE PumpFeedsSilence(c) \/ PumpTakes(c) \/ PumpUnderflows(c)
    BY <2>2 DEF PumpFeedsSilence, PumpTakes, PumpUnderflows, Collect, PumpAlive
  <2> QED
    BY <2>1, <2>2 DEF PumpStep
<1>3. IdleCardInv'
  BY <1>1 DEF IdleCardInv
<1>4. PumpLifeInv'
  BY <1>1, <1>2 DEF PumpLifeInv, PumpAlive, TypeInv, RefInv
<1>5. NoCycleOnClosedDevice'
  BY <1>1, <1>2 DEF NoCycleOnClosedDevice, PumpAlive
<1>6. SinkOpenInv' /\ LeftOpenInv'
  BY <1>1, <1>2 DEF SinkOpenInv, LeftOpenInv, Abandoned, PumpAlive
<1> QED
  BY <1>3, <1>4, <1>5, <1>6

\* LifeInv is inductive.
LEMMA LifeStep == LifeInv /\ [AnyStep]_vars => LifeInv'
<1> SUFFICES ASSUME LifeInv, [AnyStep]_vars PROVE LifeInv'
  OBVIOUS
<1>1. CardInv' /\ TypeInv'
  BY CardStep DEF LifeInv, CardInv
<1>2. CASE UNCHANGED vars
  BY <1>1, <1>2 DEF vars, deviceSide, cardVars, pumpVars, streamSide, threadVars, LifeInv,
     IdleCardInv, PumpLifeInv, NoCycleOnClosedDevice, PumpAlive, SinkOpenInv, LeftOpenInv,
     Abandoned
<1>3. ASSUME NEW w \in Stream, StepOf(w) PROVE LifeInv'
  BY <1>1, <1>3, IdleStep, PumpLifeStep, ClosedStep, LeftOpenStep DEF LifeInv
<1>4. ASSUME NEW c \in Stream, PumpStep(c) PROVE LifeInv'
  BY <1>1, <1>4, PumpKeepsLife DEF LifeInv
<1> QED
  BY <1>2, <1>3, <1>4 DEF AnyStep

\* After close(), also after a join that timed out, the pump of the card makes
\* no further cycle: what is left of it is at most the write it is blocked in.
THEOREM NoCycleOnClosedDeviceHolds == Spec => []NoCycleOnClosedDevice
  BY LifeInit, LifeStep, NextIsAnyStep, PTL DEF Spec, LifeInv

LEMMA CardInUse == LifeInv => OneOpenDevice
<1> SUFFICES ASSUME LifeInv PROVE OneOpenDevice
  OBVIOUS
<1> USE StreamAssumption DEF LifeInv, CardInv
<1>1. ASSUME card # None, lock = None
      PROVE  \E w \in Stream : pc[w] \in Registered /\ sink[w] = card
  <2>1. active[card] # 0
    BY <1>1 DEF IdleCardInv, TypeInv, LockInv, Critical
  <2>2. Users(card) # {}
    BY <1>1, <2>1, FS_EmptySet DEF CountInv, TypeInv, TypeOK, CardTypeOK
  <2> QED
    BY <2>2 DEF Users
<1> QED
  BY <1>1 DEF CardOpen, LeftOpenInv, OneOpenDevice

\* Whichever calls of acquire() and _release() fail, `_card` is never stale: it
\* names an open device, which somebody uses whenever `_lock` is free.  A device
\* left open without a card (its mask could not be set) stays out of use: no
\* thread has it as its sink and no pump ever writes to it.
THEOREM OneOpenDeviceHolds == Spec => []OneOpenDevice
  BY LifeInit, LifeStep, NextIsAnyStep, CardInUse, PTL DEF Spec

-----------------------------------------------------------------------------
(* The mask under a pump cycle.                                              *)

\* The slots a cycle has collected a block for.
Held(c) == {s \in Slots : batch[c][s] # None}

\* What a cycle has collected so far is part of the mask, and never all of it
\* before it goes into the write.
CycleInv ==
    \A c \in Stream :
        /\ PumpAlive(c) => chans[c] # {}
        /\ pump[c] = "collect" => Held(c) \subseteq chans[c] /\ Waiting(c) # {}

MaskInv == LifeInv /\ CycleInv /\ WriteMatchesMask

LEMMA MaskInit == Init => MaskInv
  BY LifeInit DEF Init, MaskInv, CycleInv, WriteMatchesMask, PumpAlive

\* A thread changes the mask of a card only while the card's pump is not alive.
LEMMA MaskSteps ==
    ASSUME LifeInv, NEW w \in Stream, StepOf(w), NEW c \in Stream
    PROVE  /\ UNCHANGED batch
           /\ PumpAlive(c) => chans'[c] = chans[c] /\ pump'[c] = pump[c]
           /\ PumpAlive(c)' /\ ~PumpAlive(c) => chans'[c] # {} /\ pump'[c] = "top"
<1> USE StreamAssumption DEF cardVars, pumpVars, deviceSide, LifeInv, CardInv, TypeInv, TypeOK
<1> chans \in [Stream -> SUBSET Slots]
  BY DEF CardTypeOK
<1> pump \in [Stream -> {"new", "top", "collect", "write", "dead"}]
  BY DEF PumpTypeOK
<1>1. CASE QuietStep(w)
  BY <1>1, QuietSteps DEF PumpAlive
<1>2. CASE \/ StartStream(w) \/ JoinCard(w) \/ AcquireLock(w) \/ OpenFails(w)
           \/ JoinRefused(w) \/ RegisterSlot(w) \/ EnqueueLookup(w) \/ PutBlock(w)
           \/ PutTimesOut(w) \/ ReleaseSlot(w) \/ GainFails(w) \/ EnsureStopsPump(w)
           \/ OpenMaskFails(w) \/ AddChannelFails(w) \/ ReleaseLast(w) \/ CloseCard(w)
  <2>1. UNCHANGED <<chans, pump, batch>>
    BY <1>2 DEF StartStream, JoinCard, AcquireLock, OpenFails, JoinRefused, RegisterSlot,
         EnqueueLookup, PutBlock, PutTimesOut, ReleaseSlot, GainFails, EnsureStopsPump,
         OpenMaskFails, AddChannelFails, ReleaseLast, CloseCard
  <2> QED
    BY <2>1 DEF PumpAlive
<1>3. CASE OpenCard(w)
  <2>1. pump[w] = "new"
    BY <1>3 DEF OpenCard, PumpLifeInv
  <2> QED
    BY <1>3, <2>1 DEF OpenCard, PumpAlive
<1>4. CASE EnsureEnabled(w)
  BY <1>4 DEF EnsureEnabled, StartPump, PumpAlive
<1>5. CASE AddChannel(w)
  BY <1>5 DEF AddChannel, StartPump, PumpAlive, PumpJoined
<1> QED
  BY <1>1, <1>2, <1>3, <1>4, <1>5
     DEF QuietStep, StepOf, Acquire, Enqueue, Release

\* One more block: it is for a channel that had none, and with the last one
\* the batch covers the mask.
LEMMA CollectStep ==
    ASSUME MaskInv, NEW c \in Stream, pump[c] = "collect",
           NEW b \in Block, Collect(c, b), UNCHANGED chans
    PROVE  /\ pump'[c] = "collect" => Held(c)' \subseteq chans[c] /\ Waiting(c)' # {}
           /\ pump'[c] = "write" => Held(c)' = chans[c]
           /\ pump'[c] \in {"collect", "write"}
<1> DEFINE s == NextSlot(c)
<1>1. /\ batch \in [Stream -> [Slots -> Block \cup {None}]]
      /\ chans[c] \subseteq Slots
      /\ pump \in [Stream -> {"new", "top", "collect", "write", "dead"}]
      /\ b # None
  BY StreamAssumption
     DEF MaskInv, LifeInv, CardInv, TypeInv, TypeOK, PumpTypeOK, CardTypeOK, Block
<1>2. s \in Waiting(c) /\ s \in Slots /\ Waiting(c) = chans[c] \ Held(c)
  <2>1. Waiting(c) # {} /\ Waiting(c) \subseteq {"TX1", "TX2"}
    BY <1>1 DEF MaskInv, CycleInv, Waiting, Slots
  <2>2. Waiting(c) = chans[c] \ Held(c)
    BY <1>1 DEF Waiting, Held
  <2> QED
    BY <2>1, <2>2 DEF NextSlot, Slots
<1>3. batch'[c] = [batch[c] EXCEPT ![s] = b]
  BY <1>1 DEF Collect
<1>4. Held(c)' = Held(c) \cup {s}
  <2>1. Held(c)' = {t \in Slots : batch'[c][t] # None}
    BY DEF Held
  <2> QED
    BY <1>1, <1>2, <1>3, <2>1 DEF Held
<1>5. Waiting(c)' = Waiting(c) \ {s}
  <2>1. Waiting(c)' = {t \in chans[c] : batch'[c][t] = None}
    BY DEF Waiting
  <2> QED
    BY <1>1, <1>2, <1>3, <2>1 DEF Waiting
<1>6. pump'[c] = IF Waiting(c) = {s} THEN "write" ELSE "collect"
  BY <1>1 DEF Collect
<1>7. Held(c) \subseteq chans[c]
  BY DEF MaskInv, CycleInv
<1> QED
  BY <1>2, <1>4, <1>5, <1>6, <1>7

LEMMA MaskPumpStep ==
    ASSUME MaskInv, NEW c \in Stream, PumpStep(c)
    PROVE  CycleInv' /\ WriteMatchesMask'
<1>1. UNCHANGED chans
  BY PumpSteps
<1>2. /\ pump \in [Stream -> {"new", "top", "collect", "write", "dead"}]
      /\ batch \in [Stream -> [Slots -> Block \cup {None}]]
      /\ PumpAlive(c)
  BY DEF MaskInv, LifeInv, CardInv, TypeInv, TypeOK, PumpTypeOK, PumpStep, PumpStops, PumpOverheats,
     PumpBegins, PumpFeedsSilence, PumpTakes, PumpUnderflows, PumpAbandons, PumpWrites,
     PumpWriteFails, PumpAlive
<1>3. \A d \in Stream \ {c} : pump'[d] = pump[d] /\ batch'[d] = batch[d]
  BY <1>2 DEF PumpStep, PumpStops, PumpOverheats, PumpBegins, PumpFeedsSilence, PumpTakes,
     PumpUnderflows, PumpAbandons, PumpWrites, PumpWriteFails, PumpDies, Collect
<1>4. /\ pump'[c] = "collect" => Held(c)' \subseteq chans[c] /\ Waiting(c)' # {}
      /\ pump'[c] = "write" => Held(c)' = chans[c]
  <2>1. CASE PumpStops(c) \/ PumpOverheats(c) \/ PumpAbandons(c) \/ PumpWrites(c) \/ PumpWriteFails(c)
    BY <1>2, <2>1 DEF PumpStops, PumpOverheats, PumpAbandons, PumpWrites, PumpWriteFails,
         PumpDies
  <2>2. CASE PumpBegins(c)
    <3>1. batch'[c] = NoBatch /\ pump'[c] = "collect"
      BY <1>2, <2>2 DEF PumpBegins
    <3>2. chans[c] # {} /\ chans[c] \subseteq Slots
      BY <1>2 DEF MaskInv, CycleInv, LifeInv, CardInv, TypeInv, TypeOK, CardTypeOK
    <3>3. Held(c)' = {}
      BY <3>1 DEF Held, NoBatch
    <3>4. Waiting(c)' = chans[c]
      BY <1>1, <3>1, <3>2 DEF Waiting, NoBatch
    <3> QED
      BY <3>1, <3>2, <3>3, <3>4
  <2>3. CASE PumpTakes(c)
    <3>1. Head(fifo[SnapQueue(c)]) \in Block
      BY <2>3 DEF PumpTakes, SnapQueue, MaskInv, LifeInv, CardInv, TypeInv, TypeOK, PumpTypeOK,
           StreamTypeOK, NextSlot, Slots, Block
    <3> QED
      BY <1>1, <2>3, <3>1, CollectStep DEF PumpTakes
  <2>4. CASE PumpFeedsSilence(c) \/ PumpUnderflows(c)
    <3>1. pump[c] = "collect" /\ Collect(c, Zero) /\ Zero \in Block
      BY <2>4 DEF PumpFeedsSilence, PumpUnderflows, Block
    <3> QED
      BY <1>1, <3>1, CollectStep
  <2> QED
    BY <2>1, <2>2, <2>3, <2>4 DEF PumpStep
<1>5. \A d \in Stream \ {c} : Held(d)' = Held(d) /\ Waiting(d)' = Waiting(d)
  BY <1>1, <1>3 DEF Held, Waiting
<1>6. CycleInv'
  BY <1>1, <1>2, <1>3, <1>4, <1>5 DEF MaskInv, CycleInv, PumpAlive
<1>7. WriteMatchesMask'
  <2>1. \A d \in Stream : pump'[d] = "write" => Held(d)' = chans[d]
    BY <1>3, <1>4, <1>5 DEF MaskInv, WriteMatchesMask, Held
  <2> QED
    BY <1>1, <2>1 DEF WriteMatchesMask, Held
<1> QED
  BY <1>6, <1>7

\* MaskInv is inductive.
LEMMA MaskStep == MaskInv /\ [AnyStep]_vars => MaskInv'
<1> SUFFICES ASSUME MaskInv, [AnyStep]_vars PROVE MaskInv'
  OBVIOUS
<1>1. LifeInv'
  BY LifeStep DEF MaskInv
<1>2. CASE UNCHANGED vars
  BY <1>1, <1>2 DEF vars, deviceSide, cardVars, pumpVars, MaskInv, CycleInv,
     WriteMatchesMask, PumpAlive, Held, Waiting
<1>3. ASSUME NEW w \in Stream, StepOf(w) PROVE CycleInv' /\ WriteMatchesMask'
  <2>1. ASSUME NEW c \in Stream
        PROVE  /\ PumpAlive(c)' => chans'[c] # {}
               /\ pump'[c] = "collect" => Held(c)' \subseteq chans'[c] /\ Waiting(c)' # {}
               /\ pump'[c] = "write" => {s \in Slots : batch'[c][s] # None} = chans'[c]
    <3>1. CASE PumpAlive(c)
      <4>1. chans'[c] = chans[c] /\ pump'[c] = pump[c] /\ batch' = batch
        BY <1>3, <3>1, MaskSteps DEF MaskInv
      <4>2. Held(c)' = Held(c) /\ Waiting(c)' = Waiting(c)
        BY <4>1 DEF Held, Waiting
      <4> QED
        BY <3>1, <4>1, <4>2 DEF MaskInv, CycleInv, WriteMatchesMask, PumpAlive
    <3>2. CASE ~PumpAlive(c)
      BY <1>3, <3>2, MaskSteps DEF MaskInv, PumpAlive
    <3> QED
      BY <3>1, <3>2
  <2> QED
    BY <2>1 DEF CycleInv, WriteMatchesMask
<1>4. ASSUME NEW c \in Stream, PumpStep(c) PROVE CycleInv' /\ WriteMatchesMask'
  BY <1>4, MaskPumpStep
<1> QED
  BY <1>1, <1>2, <1>3, <1>4 DEF AnyStep, MaskInv

\* ensure_channel() changes the mask only between two cycles: a buffer that is
\* written holds a block for each channel of the device's mask and for no other.
THEOREM WriteMatchesMaskHolds == Spec => []WriteMatchesMask
  BY MaskInit, MaskStep, NextIsAnyStep, PTL DEF Spec, MaskInv

-----------------------------------------------------------------------------
(* DualTx implements SharedCard: acquire() and _release(), with every way    *)
(* they fail, keep the promise of one lease shared by equal tunings.         *)

\* A thread that may register has the tuning of the card, and the first user of
\* a card finds its channel enabled: so the card cannot lose its only user in
\* the error path of ensure_channel().
GainInv ==
    \A w \in Stream : pc[w] = "gain" =>
        /\ TuneOf[w] = TuneOf[card]
        /\ active[card] = 0 => SlotOf[w] \in chans[card]
EnsureInv ==
    \A w \in Stream : pc[w] \in {"ensure", "reconfig"} /\ active[sink[w]] = 1 =>
        SlotOf[w] \in chans[sink[w]]

LeaseInv == LifeInv /\ GainInv /\ EnsureInv

LEMMA LeaseInit == Init => LeaseInv
  BY LifeInit DEF Init, LeaseInv, GainInv, EnsureInv

\* The mask is changed by the holder of `_lock` only.
LEMMA ChansSteps ==
    ASSUME NEW w \in Stream, StepOf(w)
    PROVE  UNCHANGED chans \/ OpenCard(w) \/ AddChannel(w)
<1>1. CASE QuietStep(w)
  BY <1>1, QuietSteps DEF deviceSide, cardVars
<1>2. CASE ~QuietStep(w)
  BY <1>2 DEF QuietStep, StepOf, Acquire, Enqueue, Release, StartStream, JoinCard, AcquireLock,
     OpenFails, OpenMaskFails, JoinRefused, RegisterSlot, EnqueueLookup, PutBlock,
     PutTimesOut, ReleaseSlot, GainFails, EnsureEnabled, EnsureStopsPump, AddChannelFails, ReleaseLast,
     CloseCard, deviceSide, cardVars
<1> QED
  BY <1>1, <1>2

LEMMA GainStep ==
    ASSUME LeaseInv, LifeInv', NEW w \in Stream, StepOf(w)
    PROVE  GainInv'
<1> USE StreamAssumption DEF LeaseInv, LifeInv, CardInv, GainInv
<1> pc \in [Stream -> Places] /\ pc' = [pc EXCEPT ![w] = pc'[w]]
  BY PlaceStep DEF Goto, TypeInv, TypeOK, StreamTypeOK
<1> SUFFICES ASSUME NEW v \in Stream, pc'[v] = "gain"
             PROVE  /\ TuneOf[v] = TuneOf[card']
                    /\ active'[card'] = 0 => SlotOf[v] \in chans'[card']
  OBVIOUS
<1>1. CASE v # w
  <2>1. pc[v] = "gain" /\ UNCHANGED <<card, active>>
    BY <1>1, HolderUndisturbed DEF Critical
  <2>2. UNCHANGED chans
    BY <1>1, <2>1, ChansSteps, CriticalAlone DEF OpenCard, AddChannel, Critical
  <2> QED
    BY <2>1, <2>2
<1>2. CASE v = w
  <2>1. CASE OpensCard(w)
    BY <1>2, <2>1 DEF OpensCard, TypeInv, TypeOK, CardTypeOK
  <2>2. CASE KeepsCard(w)
    <3>1. pc[w] = "open" /\ card # None /\ Compatible(w) /\ UNCHANGED <<card, active, chans>>
      BY <1>2, <2>2 DEF KeepsCard, Goto
    <3>2. active[card] # 0
      BY <3>1, CriticalAlone DEF IdleCardInv, Critical
    <3> QED
      BY <1>2, <3>1, <3>2 DEF Compatible
  <2>3. OpensCard(w) \/ KeepsCard(w)
    BY <1>2, CardSteps DEF LeavesOpen, Registers, Leaves, ClosesCard, Goto
  <2> QED
    BY <2>1, <2>2, <2>3
<1> QED
  BY <1>1, <1>2

LEMMA EnsureStep ==
    ASSUME LeaseInv, LifeInv', NEW w \in Stream, StepOf(w)
    PROVE  EnsureInv'
<1> USE StreamAssumption DEF LeaseInv, LifeInv, CardInv, EnsureInv
<1> pc \in [Stream -> Places] /\ pc' = [pc EXCEPT ![w] = pc'[w]]
  BY PlaceStep DEF Goto, TypeInv, TypeOK, StreamTypeOK
<1> SUFFICES ASSUME NEW v \in Stream, pc'[v] \in {"ensure", "reconfig"},
                    active'[sink'[v]] = 1
             PROVE  SlotOf[v] \in chans'[sink'[v]]
  OBVIOUS
<1>1. CASE v # w
  <2>1. pc[v] \in {"ensure", "reconfig"} /\ UNCHANGED <<active, sink>>
    BY <1>1, HolderUndisturbed DEF Critical
  <2>2. UNCHANGED chans
    BY <1>1, <2>1, ChansSteps, CriticalAlone DEF OpenCard, AddChannel, Critical
  <2> QED
    BY <2>1, <2>2
<1>2. CASE v = w
  <2>1. CASE Registers(w)
    <3>1. card \in Stream /\ active[card] = 0
      BY <1>2, <2>1, SMTT(20) DEF Registers, RefInv, TypeInv, TypeOK, CardTypeOK, StreamTypeOK
    <3> QED
      BY <1>2, <2>1, <3>1 DEF Registers, GainInv, TypeInv, TypeOK, StreamTypeOK
  <2>2. CASE KeepsCard(w)
    <3>1. pc[w] = "ensure" /\ UNCHANGED chans
      BY <1>2, <2>2 DEF KeepsCard, Goto
    <3> QED
      BY <1>2, <2>2, <3>1 DEF KeepsCard
  <2>3. Registers(w) \/ KeepsCard(w)
    BY <1>2, CardSteps DEF OpensCard, LeavesOpen, Leaves, ClosesCard, Goto
  <2> QED
    BY <2>1, <2>2, <2>3
<1> QED
  BY <1>1, <1>2

\* LeaseInv is inductive.
LEMMA LeaseStep == LeaseInv /\ [AnyStep]_vars => LeaseInv'
<1> SUFFICES ASSUME LeaseInv, [AnyStep]_vars PROVE LeaseInv'
  OBVIOUS
<1>1. LifeInv'
  BY LifeStep DEF LeaseInv
<1>2. ASSUME UNCHANGED <<card, active, chans, pc, sink>> PROVE GainInv' /\ EnsureInv'
  BY <1>2 DEF LeaseInv, GainInv, EnsureInv
<1>3. CASE UNCHANGED vars
  BY <1>1, <1>2, <1>3 DEF vars, deviceSide, cardVars, streamSide, threadVars, LeaseInv
<1>4. ASSUME NEW c \in Stream, PumpStep(c) PROVE LeaseInv'
  BY <1>1, <1>2, <1>4, PumpSteps DEF streamSide, threadVars, LeaseInv
<1>5. ASSUME NEW w \in Stream, StepOf(w) PROVE LeaseInv'
  BY <1>1, <1>5, GainStep, EnsureStep DEF LeaseInv
<1> QED
  BY <1>3, <1>4, <1>5 DEF AnyStep

-----------------------------------------------------------------------------
(* Refinement.                                                               *)

AllUsers == {w \in Stream : pc[w] \in Registered}
Tuning == IF card = None THEN None ELSE TuneOf[card]

LEMMA SharedInit == Init => Shared!Init
  BY DEF Init, Shared!Init, Registered

LEMMA SharedThreadStep ==
    ASSUME LeaseInv, NEW w \in Stream, StepOf(w)
    PROVE  [Shared!Next]_(Shared!vars)
<1> USE StreamAssumption DEF LeaseInv, LifeInv, CardInv
<1> pc \in [Stream -> Places]
  BY DEF TypeInv, TypeOK, StreamTypeOK
<1> SUFFICES \/ UNCHANGED <<AllUsers, Tuning>>
             \/ Shared!Close \/ Shared!Open(w) \/ Shared!Join(w) \/ Shared!Leave(w)
  BY DEF AllUsers, Tuning, Shared!Next, Shared!vars
<1>1. CASE OpensCard(w)
  <2>1. AllUsers' = AllUsers
    BY <1>1 DEF OpensCard, AllUsers, Registered, Goto
  <2> QED
    BY <1>1, <2>1 DEF OpensCard, Shared!Open, AllUsers
<1>2. CASE Registers(w)
  <2>1. AllUsers' = AllUsers \cup {w} /\ w \notin AllUsers
    BY <1>2 DEF Registers, AllUsers, Registered, Goto
  <2>2. card' = card /\ card # None /\ TuneOf[card] = TuneOf[w]
    BY <1>2 DEF Registers, GainInv, TypeInv, RefInv
  <2> QED
    BY <2>1, <2>2 DEF Shared!Join, AllUsers
<1>3. CASE Leaves(w)
  <2>1. AllUsers' = AllUsers \ {w} /\ w \in AllUsers
    BY <1>3 DEF Leaves, AllUsers, Registered, Goto
  <2>2. UNCHANGED card
    <3>1. CASE UNCHANGED <<card, handle>>
      BY <3>1
    <3>2. CASE LastSlot(sink[w]) /\ pc[w] \in {"ensure", "reconfig"}
               /\ SlotOf[w] \notin chans[sink[w]]
      BY <1>3, <3>2, LastUser DEF Leaves, EnsureInv
    <3> QED
      BY <1>3, <3>1, <3>2 DEF Leaves
  <2> QED
    BY <2>1, <2>2 DEF Shared!Leave, AllUsers
<1>4. CASE ClosesCard(w)
  <2>1. card \in Stream /\ active[card] = 0 /\ CloseDevice(card)
    BY <1>4 DEF ClosesCard, SinkInv, RefInv, CountInv, TypeInv
  <2>2. AllUsers = {}
    BY <2>1, NoUser DEF Users, AllUsers, SinkInv
  <2>3. AllUsers' = AllUsers
    BY <1>4 DEF ClosesCard, AllUsers, Registered, Goto
  <2>4. card' = None
    BY <2>1 DEF CloseDevice, CardWithout
  <2> QED
    BY <2>1, <2>2, <2>3, <2>4 DEF Shared!Close, AllUsers, Tuning
<1>5. CASE KeepsCard(w)
  <2>1. PICK p \in Places : Goto(w, p) /\ (p \in Registered <=> pc[w] \in Registered)
    BY <1>5 DEF KeepsCard
  <2>2. AllUsers' = AllUsers
    BY <2>1 DEF AllUsers, Goto
  <2> QED
    BY <1>5, <2>2 DEF KeepsCard, Tuning
<1>6. CASE LeavesOpen(w)
  BY <1>6 DEF LeavesOpen, AllUsers, Tuning, Registered, Goto
<1> QED
  BY <1>1, <1>2, <1>3, <1>4, <1>5, <1>6, CardSteps

LEMMA SharedStep == LeaseInv /\ [AnyStep]_vars => [Shared!Next]_(Shared!vars)
<1> SUFFICES ASSUME LeaseInv, [AnyStep]_vars PROVE [Shared!Next]_(Shared!vars)
  OBVIOUS
<1>1. ASSUME UNCHANGED <<card, pc>> PROVE UNCHANGED Shared!vars
  BY <1>1 DEF Shared!vars
<1>2. CASE UNCHANGED vars
  BY <1>1, <1>2 DEF vars, deviceSide, streamSide
<1>3. ASSUME NEW c \in Stream, PumpStep(c) PROVE UNCHANGED Shared!vars
  BY <1>1, <1>3, PumpSteps DEF streamSide
<1> QED
  BY <1>2, <1>3, SharedThreadStep DEF AnyStep

\* Whatever fails on the way, acquire() and _release() behave as the lease of
\* SharedCard: opened for one tuning, joined by equal tunings only, closed when
\* the last user has left and at no other time.
THEOREM ImplementsSharedCard == Spec => SharedLease
<1>1. Spec => []LeaseInv
  BY LeaseInit, LeaseStep, NextIsAnyStep, PTL DEF Spec
<1> QED
  BY <1>1, SharedInit, SharedStep, NextIsAnyStep, PTL DEF Spec, SharedLease, Shared!Spec

-----------------------------------------------------------------------------
(* The blocks: none is lost while its stream is registered, and every gap is *)
(* counted.  Where a slot was given away under a running thread, its queues  *)
(* mix the blocks of both, so what is said of a stream's own queue is said   *)
(* of a stream that is Alone on its slot.                                    *)

\* Places before register(), and places where the slot is in the thread's use.
Fresh == {"idle", "acquire", "open", "gain"}
Feeding == Registered \ {"lost"}
Away == Ended \cup {"idle"}

\* A slot that was never crowded is in the use of one thread at a time.
ExclusiveInv ==
    \A v, w \in Stream :
        v # w /\ SlotOf[v] = SlotOf[w] /\ Alone(v) => pc[v] \in Away \/ pc[w] \in Away

\* A stream that has not registered has left no trace.
FreshInv ==
    \A w \in Stream : pc[w] \in Fresh =>
        /\ sent[w] = 0 /\ aired[w] = 0 /\ ~gap[w]
        /\ \A c \in Stream, s \in Slots : w \notin {queues[c][s], snap[c][s], batch[c][s]}

\* A feeding stream that is alone finds its own queue in its slot of its card,
\* and no other blocks in it.
QueueInv ==
    \A w \in Stream : Alone(w) =>
        /\ pc[w] \in Feeding => queues[sink[w]][SlotOf[w]] = w
        /\ pc[w] \in {"put", "flushput"} => target[w] = w
OwnQueue ==
    \A w \in Stream : Alone(w) => \A i \in 1..Len(fifo[w]) : fifo[w][i] = w

\* Two streams that have registered for the same slot of the same card: they
\* may meet in a queue.
Peers(v, w) == sink[v] = sink[w] /\ SlotOf[v] = SlotOf[w] /\ pc[v] \notin Fresh
MeetInv ==
    \A w \in Stream :
        /\ \A i \in 1..Len(fifo[w]) : Peers(fifo[w][i], w)
        /\ pc[w] \in {"put", "flushput"} => Peers(target[w], w)

\* What a card or its pump holds for a slot is of a stream of that slot and card.
NameInv ==
    \A v, c \in Stream, s \in Slots :
        v \in {queues[c][s], snap[c][s], batch[c][s]} => sink[v] = c /\ SlotOf[v] = s

\* Between two cycles the pump holds nothing.
RestInv == \A c \in Stream : pump[c] \notin {"collect", "write"} => batch[c] = NoBatch

\* A pump that was told to stop while streams use its card serves one channel:
\* ensure_channel() stops it for the sake of the other.
StopInv ==
    \A c \in Stream : stop[c] /\ PumpAlive(c) /\ Users(c) # {} => chans[c] # Slots

\* A zero block for an acquired slot was counted.  A slot whose stream is on
\* the air was acquired when the cycle began.
ZeroInv ==
    \A c \in Stream, s \in Slots :
        batch[c][s] = Zero /\ snap[c][s] # None => s \in underflow[c]
SnapInv ==
    \A v, c \in Stream, s \in Slots :
        pump[c] \in {"collect", "write"} /\ queues[c][s] = v /\ aired[v] > 0
            => snap[c][s] # None
GapInv == \A w \in Stream : gap[w] => sink[w] \in Stream /\ SlotOf[w] \in underflow[sink[w]]

HoldInv == FreshInv /\ QueueInv /\ OwnQueue /\ MeetInv /\ NameInv /\ RestInv
BlockInv ==
    /\ MaskInv /\ ExclusiveInv /\ HoldInv /\ StopInv /\ NothingLost
    /\ ZeroInv /\ SnapInv /\ GapInv

-----------------------------------------------------------------------------
(* What a step of a thread does to the queues.                               *)

NewQueue(w) ==
    /\ pc[w] = "gain" /\ Goto(w, "ensure")
    /\ queues' = [queues EXCEPT ![card][SlotOf[w]] = w]
    /\ fifo' = [fifo EXCEPT ![w] = <<>>]
    /\ sink' = [sink EXCEPT ![w] = card]
    /\ UNCHANGED <<target, sent>>
ForgetsQueue(w) ==
    /\ pc[w] \in Feeding
    /\ Goto(w, "done") \/ Goto(w, "drain")
    /\ queues' = [queues EXCEPT ![sink[w]][SlotOf[w]] = None]
    /\ UNCHANGED <<fifo, sink, target, sent>>
LooksUp(w) ==
    /\ pc[w] \in {"push", "flush"}
    /\ Goto(w, "put") \/ Goto(w, "flushput")
    /\ QueueOf(w) # None
    /\ target' = [target EXCEPT ![w] = QueueOf(w)]
    /\ UNCHANGED <<queues, fifo, sink, sent>>
Puts(w) ==
    /\ pc[w] \in {"put", "flushput"}
    /\ Goto(w, "source") \/ Goto(w, "release")
    /\ fifo' = [fifo EXCEPT ![target[w]] = Append(@, w)]
    /\ sent' = [sent EXCEPT ![w] = @ + 1]
    /\ target' = [target EXCEPT ![w] = None]
    /\ UNCHANGED <<queues, sink>>
KeepsQueues(w) ==
    /\ \E p \in Places \ {"put", "flushput"} :
        /\ Goto(w, p)
        /\ p \in Feeding => pc[w] \in Feeding
        /\ p \in Registered => pc[w] \in Registered
        /\ p \in Fresh => pc[w] \in Fresh
        /\ p \notin Away => pc[w] \notin Away \/ StartStream(w)
    /\ UNCHANGED target \/ target' = [target EXCEPT ![w] = None]
    /\ UNCHANGED <<queues, fifo, sink, sent>>

LEMMA QueueSteps ==
    ASSUME NEW w \in Stream, StepOf(w)
    PROVE  /\ UNCHANGED <<snap, batch, underflow, error, aired, gap>>
           /\ crowded' = crowded \/ (StartStream(w) /\ crowded \subseteq crowded')
           /\ NewQueue(w) \/ ForgetsQueue(w) \/ LooksUp(w) \/ Puts(w) \/ KeepsQueues(w)
<1> USE DEF deviceSide, cardVars, pumpVars, threadVars, historyVars
<1>1. CASE QuietStep(w)
  <2>1. PICK p \in {"source", "push", "flush", "release", "lost"} : Goto(w, p)
    BY <1>1, QuietSteps
  <2>2. /\ UNCHANGED <<snap, batch, underflow, error, aired, gap>>
        /\ UNCHANGED <<queues, fifo, sink, target, sent, crowded>>
        /\ pc[w] \in {"source", "push", "flush"}
    BY <1>1, QuietSteps
  <2> QED
    BY <2>1, <2>2 DEF KeepsQueues, Places, Registered, Ended, Feeding, Fresh, Away
<1>2. CASE \/ StartStream(w) \/ JoinCard(w) \/ AcquireLock(w) \/ OpenCard(w)
           \/ OpenFails(w) \/ OpenMaskFails(w) \/ JoinRefused(w) \/ GainFails(w)
  <2>1. /\ UNCHANGED <<snap, batch, underflow, error, aired, gap>>
        /\ UNCHANGED <<queues, fifo, sink, target, sent>>
        /\ crowded' = crowded \/ (StartStream(w) /\ crowded \subseteq crowded')
    BY <1>2 DEF StartStream, JoinCard, AcquireLock, OpenCard, OpenFails, OpenMaskFails,
         JoinRefused, GainFails, Refuse
  <2>2. \/ StartStream(w) /\ pc[w] = "idle" /\ Goto(w, "acquire")
        \/ pc[w] = "acquire" /\ Goto(w, "open")
        \/ pc[w] = "open" /\ Goto(w, "gain")
        \/ pc[w] \in {"open", "gain"} /\ Goto(w, "done")
    BY <1>2 DEF StartStream, JoinCard, AcquireLock, OpenCard, OpenFails, OpenMaskFails,
         JoinRefused, GainFails, Refuse
  <2> QED
    BY <2>1, <2>2 DEF KeepsQueues, Places, Critical, Registered, Ended, Feeding, Fresh, Away
<1>3. CASE RegisterSlot(w)
  BY <1>3 DEF RegisterSlot, NewQueue
<1>4. CASE \/ EnsureEnabled(w) \/ EnsureStopsPump(w) \/ AddChannel(w) \/ PutTimesOut(w)
           \/ CloseCard(w)
  <2>1. /\ UNCHANGED <<snap, batch, underflow, error, aired, gap>>
        /\ UNCHANGED <<queues, fifo, sink, sent, crowded>>
        /\ UNCHANGED target \/ target' = [target EXCEPT ![w] = None]
    BY <1>4 DEF EnsureEnabled, EnsureStopsPump, AddChannel, PutTimesOut, CloseCard
  <2>2. \/ /\ pc[w] \in Feeding
           /\ \E p \in {"source", "reconfig", "flush", "release", "lost"} : Goto(w, p)
        \/ pc[w] = "drain" /\ Goto(w, "done")
    BY <1>4 DEF EnsureEnabled, EnsureStopsPump, AddChannel, PutTimesOut, CloseCard,
         SinkReady, EnqueueRaises, CloseSink, Feeding, Registered
  <2> QED
    BY <2>1, <2>2 DEF KeepsQueues, Places, Critical, Registered, Ended, Feeding, Fresh, Away
<1>5. CASE AddChannelFails(w) \/ ReleaseSlot(w) \/ ReleaseLast(w)
  BY <1>5 DEF AddChannelFails, ReleaseSlot, ReleaseLast, Refuse, Unregister, ForgetsQueue,
       Feeding, Registered
<1>6. CASE EnqueueLookup(w)
  BY <1>6 DEF EnqueueLookup, LooksUp
<1>7. CASE PutBlock(w)
  BY <1>7 DEF PutBlock, BlockDone, Puts
<1> QED
  BY <1>1, <1>2, <1>3, <1>4, <1>5, <1>6, <1>7
     DEF QuietStep, StepOf, Acquire, Enqueue, Release

-----------------------------------------------------------------------------
(* The steps of a thread.                                                    *)

LEMMA BlockTypes ==
    ASSUME TypeInv
    PROVE  /\ pc \in [Stream -> Places]
           /\ fifo \in [Stream -> Seq(Stream)]
           /\ sink \in [Stream -> Stream \cup {None}]
           /\ target \in [Stream -> Stream \cup {None}]
           /\ sent \in [Stream -> Nat]
           /\ aired \in [Stream -> Nat]
           /\ gap \in [Stream -> BOOLEAN]
           /\ queues \in [Stream -> [Slots -> Stream \cup {None}]]
           /\ snap \in [Stream -> [Slots -> Stream \cup {None}]]
           /\ batch \in [Stream -> [Slots -> Block \cup {None}]]
           /\ SlotOf \in [Stream -> Slots]
           /\ \A w \in Stream : pc[w] \in Registered => sink[w] \in Stream
           /\ \A w \in Stream : pc[w] = "gain" => card \in Stream
           /\ \A w \in Stream : pc[w] \in {"put", "flushput"} => target[w] \in Stream
           /\ crowded \subseteq Slots
  BY StreamAssumption DEF TypeInv, TypeOK, CardTypeOK, PumpTypeOK, StreamTypeOK, RefInv

\* Once crowded, always crowded.
LEMMA StaysCrowded ==
    ASSUME NEW w \in Stream, StepOf(w), NEW v \in Stream, Alone(v)'
    PROVE  Alone(v)
  BY QueueSteps DEF Alone

LEMMA ExclusiveStep ==
    ASSUME TypeInv, ExclusiveInv, NEW w \in Stream, StepOf(w)
    PROVE  ExclusiveInv'
<1>1. pc \in [Stream -> Places]
  BY BlockTypes
<1>2. pc' = [pc EXCEPT ![w] = pc'[w]]
  BY <1>1, PlaceStep DEF Goto
<1>3. pc'[w] \notin Away => pc[w] \notin Away \/ StartStream(w)
  BY <1>1, QueueSteps
     DEF NewQueue, ForgetsQueue, LooksUp, Puts, KeepsQueues, Goto, Away, Ended, Feeding,
         Registered
<1>4. ASSUME StartStream(w), Alone(w)'
      PROVE  \A v \in Stream : SlotOf[v] = SlotOf[w] => pc[v] \in Away
  BY <1>4, BlockTypes DEF StartStream, Alone, Vacant, Away
<1>5. SUFFICES ASSUME NEW v \in Stream, NEW u \in Stream, v # u, SlotOf[v] = SlotOf[u],
                      Alone(v)', pc'[v] \notin Away, pc'[u] \notin Away
               PROVE  FALSE
  BY DEF ExclusiveInv
<1>6. Alone(v) /\ Alone(u) /\ Alone(u)'
  <2>1. Alone(u)'
    BY <1>5 DEF Alone
  <2> QED
    BY <1>5, <2>1, StaysCrowded
<1>7. CASE StartStream(w) /\ w = v
  <2>1. Alone(w)'
    BY <1>5, <1>7
  <2>2. pc[u] \in Away
    BY <1>4, <1>5, <1>7, <2>1
  <2>3. pc'[u] = pc[u]
    BY <1>1, <1>2, <1>5, <1>7
  <2> QED
    BY <1>5, <2>2, <2>3
<1>8. CASE StartStream(w) /\ w = u
  <2>1. Alone(w)'
    BY <1>6, <1>8
  <2>2. pc[v] \in Away
    BY <1>4, <1>5, <1>8, <2>1
  <2>3. pc'[v] = pc[v]
    BY <1>1, <1>2, <1>5, <1>8
  <2> QED
    BY <1>5, <2>2, <2>3
<1>9. CASE ~(StartStream(w) /\ w \in {u, v})
  <2>1. pc[v] \notin Away /\ pc[u] \notin Away
    BY <1>1, <1>2, <1>3, <1>5, <1>9
  <2> QED
    BY <1>5, <1>6, <2>1 DEF ExclusiveInv
<1> QED
  BY <1>7, <1>8, <1>9

\* Another thread in the slot is away while this one feeds or is about to.
LEMMA SoleFeeder ==
    ASSUME TypeInv, ExclusiveInv, NEW w \in Stream, pc[w] \in Feeding \cup {"gain"},
           NEW v \in Stream, v # w, SlotOf[v] = SlotOf[w], Alone(v)
    PROVE  pc[v] \notin Feeding
  BY DEF ExclusiveInv, Feeding, Registered, Away, Ended

\* A queue of a slot and card holds blocks of peers only, and so does a queue
\* that a thread is about to put into.
LEMMA MeetStep ==
    ASSUME TypeInv, FreshInv, NameInv, MeetInv, NEW w \in Stream, StepOf(w)
    PROVE  MeetInv'
<1> DEFINE Meet(v, u) == sink'[v] = sink'[u] /\ SlotOf[v] = SlotOf[u] /\ pc'[v] \notin Fresh
<1>1. /\ pc' = [pc EXCEPT ![w] = pc'[w]] /\ pc \in [Stream -> Places]
      /\ pc[w] \notin Fresh => pc'[w] \notin Fresh
  <2>1. pc' = [pc EXCEPT ![w] = pc'[w]] /\ pc \in [Stream -> Places]
    BY BlockTypes, PlaceStep DEF Goto
  <2>2. pc[w] \notin Fresh => pc'[w] \notin Fresh
    BY <2>1, QueueSteps
       DEF NewQueue, ForgetsQueue, LooksUp, Puts, KeepsQueues, Fresh, Goto
  <2> QED
    BY <2>1, <2>2
<1>2. UNCHANGED sink \/ (NewQueue(w) /\ \A v \in Stream \ {w} : sink'[v] = sink[v])
  BY QueueSteps, BlockTypes DEF NewQueue, ForgetsQueue, LooksUp, Puts, KeepsQueues
<1>3. ASSUME NEW v \in Stream, NEW u \in Stream, Peers(v, u), sink'[u] = sink[u]
      PROVE  Meet(v, u)
  BY <1>1, <1>2, <1>3 DEF Peers, NewQueue, Fresh
<1>4. ASSUME NEW u \in Stream, NEW i \in 1..Len(fifo'[u]) PROVE Meet(fifo'[u][i], u)
  <2>1. fifo[u] \in Seq(Stream)
    BY BlockTypes
  <2>2. CASE NewQueue(w) /\ u = w
    <3>1. fifo'[u] = <<>>
      BY <2>2, BlockTypes DEF NewQueue
    <3> QED
      BY <1>4, <3>1
  <2>3. CASE fifo'[u] = fifo[u] /\ ~(NewQueue(w) /\ u = w)
    <3>1. Peers(fifo[u][i], u) /\ fifo[u][i] \in Stream
      BY <1>4, <2>1, <2>3 DEF MeetInv
    <3>2. sink'[u] = sink[u]
      BY <1>2, <2>3
    <3> QED
      BY <1>3, <2>3, <3>1, <3>2
  <2>4. CASE Puts(w) /\ u = target[w]
    <3>1. fifo'[u] = Append(fifo[u], w) /\ UNCHANGED sink /\ Peers(u, w)
      BY <2>4, BlockTypes DEF Puts, MeetInv
    <3>2. CASE i = Len(fifo[u]) + 1
      <4>1. fifo'[u][i] = w
        BY <2>1, <3>1, <3>2
      <4>2. pc'[w] \notin Fresh
        BY <1>1, <2>4 DEF Puts, Fresh
      <4> QED
        BY <3>1, <4>1, <4>2 DEF Peers
    <3>3. CASE i # Len(fifo[u]) + 1
      <4>1. i \in 1..Len(fifo[u]) /\ fifo'[u][i] = fifo[u][i] /\ fifo[u][i] \in Stream
        BY <1>4, <2>1, <3>1, <3>3
      <4>2. Peers(fifo[u][i], u)
        BY <4>1 DEF MeetInv
      <4> QED
        BY <1>3, <3>1, <4>1, <4>2
    <3> QED
      BY <3>2, <3>3
  <2>5. fifo'[u] = fifo[u] \/ (NewQueue(w) /\ u = w) \/ (Puts(w) /\ u = target[w])
    <3>1. fifo \in [Stream -> Seq(Stream)]
      BY BlockTypes
    <3>2. NewQueue(w) => fifo'[u] = fifo[u] \/ u = w
      BY <3>1 DEF NewQueue
    <3>3. Puts(w) => fifo'[u] = fifo[u] \/ u = target[w]
      BY <3>1 DEF Puts
    <3>4. ForgetsQueue(w) \/ LooksUp(w) \/ KeepsQueues(w) => fifo' = fifo
      BY DEF ForgetsQueue, LooksUp, KeepsQueues
    <3>5. NewQueue(w) \/ ForgetsQueue(w) \/ LooksUp(w) \/ Puts(w) \/ KeepsQueues(w)
      BY QueueSteps
    <3> QED
      BY <3>2, <3>3, <3>4, <3>5
  <2> QED
    BY <2>2, <2>3, <2>4, <2>5
<1>5. ASSUME NEW u \in Stream, pc'[u] \in {"put", "flushput"} PROVE Meet(target'[u], u)
  <2>1. CASE u # w
    <3>1. pc[u] \in {"put", "flushput"} /\ target'[u] = target[u] /\ target[u] \in Stream
      <4>1. pc[u] \in {"put", "flushput"}
        BY <1>1, <1>5, <2>1
      <4>2. target \in [Stream -> Stream \cup {None}] /\ target[u] \in Stream
        BY <4>1, BlockTypes
      <4>3. target' = target \/ \E t : target' = [target EXCEPT ![w] = t]
        BY QueueSteps DEF NewQueue, ForgetsQueue, LooksUp, Puts, KeepsQueues
      <4> QED
        BY <2>1, <4>1, <4>2, <4>3
    <3>2. Peers(target[u], u) /\ sink'[u] = sink[u]
      BY <1>2, <2>1, <3>1 DEF MeetInv
    <3> QED
      BY <1>3, <3>1, <3>2
  <2>2. CASE u = w
    <3>1. LooksUp(w)
      BY <1>1, <1>5, <2>2, QueueSteps DEF NewQueue, ForgetsQueue, Puts, KeepsQueues, Goto
    <3> DEFINE q == queues[sink[w]][SlotOf[w]]
    <3>2. target'[w] = q /\ q \in Stream /\ sink[w] \in Stream /\ UNCHANGED sink
      BY <3>1, BlockTypes DEF LooksUp, QueueOf, Registered
    <3>3. sink[q] = sink[w] /\ SlotOf[q] = SlotOf[w] /\ pc[q] \notin Fresh
      BY <3>2, BlockTypes DEF NameInv, FreshInv
    <3>4. pc'[q] \notin Fresh
      <4> HIDE DEF q
      <4>1. CASE q = w
        BY <1>1, <3>3, <4>1
      <4>2. CASE q # w
        BY <1>1, <3>2, <3>3, <4>2
      <4> QED
        BY <4>1, <4>2
    <3> QED
      BY <2>2, <3>2, <3>3, <3>4
  <2> QED
    BY <2>1, <2>2
<1> QED
  BY <1>4, <1>5 DEF MeetInv, Peers

LEMMA HoldStep ==
    ASSUME TypeInv, ExclusiveInv, HoldInv, NEW w \in Stream, StepOf(w),
           \A c \in Stream : PumpAlive(c) => pump'[c] = pump[c],
           \A c \in Stream : PumpAlive(c)' /\ ~PumpAlive(c) => pump'[c] = "top"
    PROVE  HoldInv'
<1> USE DEF Goto
<1>1. UNCHANGED <<snap, batch, aired, gap>>
  BY QueueSteps
<1>2. RestInv' /\ MeetInv'
  BY <1>1, MeetStep DEF HoldInv, RestInv, PumpAlive
<1>8. \A v \in Stream : Alone(v)' => Alone(v)
  BY StaysCrowded
<1>3. CASE NewQueue(w)
  <2>1. /\ card \in Stream /\ w \in Stream /\ pc[w] \in Fresh
        /\ \A c \in Stream, s \in Slots :
              queues'[c][s] = IF c = card /\ s = SlotOf[w] THEN w ELSE queues[c][s]
        /\ sink'[w] = card /\ sent' = sent
        /\ \A v \in Stream \ {w} : pc'[v] = pc[v] /\ sink'[v] = sink[v] /\ fifo'[v] = fifo[v]
        /\ pc'[w] = "ensure" /\ fifo'[w] = <<>> /\ target' = target
    BY <1>3, BlockTypes DEF NewQueue, Fresh
  <2>2. FreshInv'
    <3> SUFFICES ASSUME NEW v \in Stream, pc'[v] \in Fresh
                 PROVE  /\ sent'[v] = 0 /\ aired'[v] = 0 /\ ~gap'[v]
                        /\ \A c \in Stream, s \in Slots :
                               v \notin {queues'[c][s], snap'[c][s], batch'[c][s]}
      BY DEF FreshInv
    <3>1. v # w /\ pc[v] \in Fresh
      BY <2>1 DEF Fresh
    <3> QED
      BY <1>1, <2>1, <3>1 DEF HoldInv, FreshInv
  <2>3. QueueInv'
    <3>1. ASSUME NEW v \in Stream, v # w, pc[v] \in Feeding, Alone(v)
          PROVE  queues'[sink[v]][SlotOf[v]] = v
      <4>1. SlotOf[v] # SlotOf[w]
        BY <3>1, SoleFeeder, <1>3 DEF NewQueue
      <4>2. sink[v] \in Stream
        BY <3>1, BlockTypes DEF Feeding
      <4> QED
        BY <3>1, <4>1, <4>2, <2>1, BlockTypes DEF HoldInv, QueueInv
    <3>2. \A v \in Stream : Alone(v)' /\ pc'[v] \in Feeding =>
            queues'[sink'[v]][SlotOf[v]] = v
      <4> SUFFICES ASSUME NEW v \in Stream, Alone(v), pc'[v] \in Feeding
                   PROVE  queues'[sink'[v]][SlotOf[v]] = v
        BY <1>8
      <4>1. CASE v = w
        <5>1. SlotOf[w] \in Slots
          BY BlockTypes
        <5> QED
          BY <2>1, <4>1, <5>1
      <4>2. CASE v # w
        BY <2>1, <3>1, <4>2
      <4> QED
        BY <4>1, <4>2
    <3>3. \A v \in Stream : Alone(v)' /\ pc'[v] \in {"put", "flushput"} => target'[v] = v
      BY <1>8, <2>1 DEF HoldInv, QueueInv
    <3> QED
      BY <3>2, <3>3 DEF QueueInv
  <2>4. NameInv'
    <3> SUFFICES ASSUME NEW v \in Stream, NEW c \in Stream, NEW s \in Slots,
                        v \in {queues'[c][s], snap[c][s], batch[c][s]}
                 PROVE  sink'[v] = c /\ SlotOf[v] = s
      BY <1>1 DEF NameInv
    <3>1. CASE c = card /\ s = SlotOf[w] /\ v = w
      BY <2>1, <3>1
    <3>2. CASE v \in {queues[c][s], snap[c][s], batch[c][s]}
      <4>1. v # w
        BY <2>1, <3>2 DEF HoldInv, FreshInv
      <4> QED
        BY <2>1, <3>2, <4>1 DEF HoldInv, NameInv
    <3> QED
      BY <2>1, <3>1, <3>2
  <2>5. OwnQueue'
    <3>1. ASSUME NEW v \in Stream, Alone(v)', NEW i \in 1..Len(fifo'[v])
          PROVE  fifo'[v][i] = v
      BY <1>8, <2>1, <3>1 DEF HoldInv, OwnQueue
    <3> QED
      BY <3>1 DEF OwnQueue
  <2> QED
    BY <1>2, <2>2, <2>3, <2>4, <2>5 DEF HoldInv
<1>4. CASE ForgetsQueue(w)
  <2> DEFINE C == sink[w]
  <2>1. /\ C \in Stream
        /\ \A c \in Stream, s \in Slots :
              queues'[c][s] = IF c = C /\ s = SlotOf[w] THEN None ELSE queues[c][s]
        /\ UNCHANGED <<fifo, sink, target, sent>>
        /\ \A v \in Stream \ {w} : pc'[v] = pc[v]
        /\ pc'[w] \in {"done", "drain"}
    BY <1>4, BlockTypes DEF ForgetsQueue, Feeding
  <2>2. \A v, c \in Stream, s \in Slots : queues'[c][s] = v => queues[c][s] = v
    BY <2>1, StreamAssumption
  <2>3. FreshInv' /\ NameInv' /\ OwnQueue'
    BY <1>1, <1>8, <2>1, <2>2 DEF HoldInv, FreshInv, Fresh, NameInv, OwnQueue
  <2>4. QueueInv'
    <3>1. ASSUME NEW v \in Stream, v # w, pc[v] \in Feeding, Alone(v)
          PROVE  queues'[sink[v]][SlotOf[v]] = v
      <4>1. SlotOf[v] # SlotOf[w]
        BY <3>1, SoleFeeder, <1>4 DEF ForgetsQueue
      <4>2. sink[v] \in Stream
        BY <3>1, BlockTypes DEF Feeding
      <4> QED
        BY <3>1, <4>1, <4>2, <2>1, BlockTypes DEF HoldInv, QueueInv
    <3> QED
      BY <1>8, <2>1, <3>1 DEF HoldInv, QueueInv, Feeding, Registered
  <2> QED
    BY <1>2, <2>3, <2>4 DEF HoldInv
<1>5. CASE LooksUp(w)
  <2>1. /\ UNCHANGED <<queues, fifo, sink, sent>>
        /\ \A v \in Stream \ {w} : pc'[v] = pc[v] /\ target'[v] = target[v]
        /\ pc'[w] \in {"put", "flushput"}
        /\ pc[w] \in Feeding
        /\ target'[w] = queues[sink[w]][SlotOf[w]]
    BY <1>5, BlockTypes DEF LooksUp, QueueOf, Feeding, Registered
  <2>2. FreshInv' /\ NameInv' /\ OwnQueue'
    BY <1>1, <1>8, <2>1 DEF HoldInv, FreshInv, Fresh, NameInv, OwnQueue
  <2>3. QueueInv'
    BY <1>8, <2>1 DEF HoldInv, QueueInv, Feeding
  <2> QED
    BY <1>2, <2>2, <2>3 DEF HoldInv
<1>6. CASE Puts(w)
  <2>1. /\ UNCHANGED <<queues, sink>>
        /\ \A v \in Stream \ {w} : /\ pc'[v] = pc[v] /\ target'[v] = target[v]
                                   /\ sent'[v] = sent[v]
        /\ pc'[w] \in {"source", "release"}
        /\ pc[w] \in Feeding
        /\ target[w] \in Stream /\ SlotOf[target[w]] = SlotOf[w]
        /\ fifo' = [fifo EXCEPT ![target[w]] = Append(@, w)]
    BY <1>6, BlockTypes DEF Puts, HoldInv, MeetInv, Peers, Feeding, Registered
  <2>2. FreshInv' /\ NameInv'
    BY <1>1, <2>1 DEF HoldInv, FreshInv, Fresh, NameInv
  <2>3. OwnQueue'
    <3>1. ASSUME NEW v \in Stream, Alone(v)', NEW i \in 1..Len(fifo'[v])
          PROVE  fifo'[v][i] = v
      <4>1. CASE v # target[w]
        BY <1>8, <2>1, <3>1, <4>1, BlockTypes DEF HoldInv, OwnQueue
      <4>2. CASE v = target[w]
        <5>1. Alone(w) /\ Alone(v)
          BY <1>8, <2>1, <3>1, <4>2 DEF Alone
        <5>2. v = w
          BY <1>6, <4>2, <5>1 DEF Puts, HoldInv, QueueInv
        <5>3. fifo'[v] = Append(fifo[v], v) /\ fifo[v] \in Seq(Stream)
          BY <2>1, <4>2, <5>2, BlockTypes
        <5> QED
          BY <3>1, <5>1, <5>3 DEF HoldInv, OwnQueue
      <4> QED
        BY <4>1, <4>2
    <3> QED
      BY <3>1 DEF OwnQueue
  <2>4. QueueInv'
    BY <1>8, <2>1 DEF HoldInv, QueueInv, Feeding
  <2> QED
    BY <1>2, <2>2, <2>3, <2>4 DEF HoldInv
<1>7. CASE KeepsQueues(w)
  <2>1. /\ UNCHANGED <<queues, fifo, sink, sent>>
        /\ \A v \in Stream \ {w} : pc'[v] = pc[v] /\ target'[v] = target[v]
        /\ pc'[w] \notin {"put", "flushput"}
        /\ pc'[w] \in Feeding => pc[w] \in Feeding
        /\ pc'[w] \in Fresh => pc[w] \in Fresh
    BY <1>7, BlockTypes DEF KeepsQueues
  <2>2. FreshInv' /\ NameInv' /\ OwnQueue'
    BY <1>1, <1>8, <2>1 DEF HoldInv, FreshInv, NameInv, OwnQueue
  <2>3. QueueInv'
    BY <1>8, <2>1 DEF HoldInv, QueueInv
  <2> QED
    BY <1>2, <2>2, <2>3 DEF HoldInv
<1> QED
  BY <1>3, <1>4, <1>5, <1>6, <1>7, QueueSteps

\* A pump is told to stop for a channel that is to be added, or with the last
\* user of its card.
LEMMA StopSteps ==
    ASSUME CardInv, NEW w \in Stream, StepOf(w), NEW c \in Stream, stop'[c]
    PROVE  \/ stop[c]
           \/ c = sink[w] /\ SlotOf[w] \notin chans'[c]
           \/ Users(c)' = {}
<1> USE DEF CardInv, TypeInv, TypeOK, PumpTypeOK
<1> pc \in [Stream -> Places] /\ stop \in [Stream -> BOOLEAN]
  BY BlockTypes
<1>1. CASE StartsPump(w)
  BY <1>1 DEF StartsPump, StartPump
<1>2. CASE EnsureStopsPump(w)
  BY <1>2 DEF EnsureStopsPump, cardVars
<1>3. CASE GainFails(w)
  <2>1. UNCHANGED stop \/ (active[card] = 0 /\ stop' = [stop EXCEPT ![card] = TRUE])
    BY <1>3, Zenon DEF GainFails
  <2>2. Goto(w, "done") /\ UNCHANGED sink
    BY <1>3 DEF GainFails, Refuse, threadVars
  <2>3. ASSUME active[c] = 0 PROVE Users(c)' = {}
    <3>1. Users(c) = {}
      BY <2>3, NoUser
    <3> QED
      BY <2>2, <3>1 DEF Users, Goto, Registered
  <2> QED
    BY <2>1, <2>3
<1>4. CASE AddChannelFails(w) \/ ReleaseLast(w)
  <2>1. pc[w] \in Registered /\ UNCHANGED sink /\ (Goto(w, "done") \/ Goto(w, "drain"))
    BY <1>4 DEF AddChannelFails, ReleaseLast, Registered, Refuse, threadVars
  <2>2. UNCHANGED stop \/ (stop' = [stop EXCEPT ![sink[w]] = TRUE] /\ LastSlot(sink[w]))
    BY <1>4, Zenon DEF AddChannelFails, ReleaseLast
  <2>3. ASSUME LastSlot(sink[w]), c = sink[w] PROVE Users(c)' = {}
    <3>1. Users(c) = {w}
      BY <2>1, <2>3, LastUser
    <3> QED
      BY <2>1, <3>1 DEF Users, Goto, Registered
  <2> QED
    BY <2>2, <2>3
<1>6. CASE QuietStep(w)
  BY <1>6, QuietSteps DEF deviceSide, pumpVars
<1>7. CASE \/ StartStream(w) \/ JoinCard(w) \/ AcquireLock(w) \/ OpenCard(w)
           \/ OpenFails(w) \/ OpenMaskFails(w) \/ JoinRefused(w) \/ RegisterSlot(w)
           \/ EnqueueLookup(w) \/ PutBlock(w) \/ PutTimesOut(w) \/ ReleaseSlot(w)
           \/ CloseCard(w)
  <2>1. UNCHANGED stop
    BY <1>7 DEF StartStream, JoinCard, AcquireLock, OpenCard, OpenFails, OpenMaskFails, JoinRefused,
         RegisterSlot, EnqueueLookup, PutBlock, PutTimesOut, ReleaseSlot, CloseCard,
         deviceSide, pumpVars
  <2> QED
    BY <2>1
<1>8. CASE EnsureEnabled(w) \/ AddChannel(w)
  <2>1. StartsPump(w) \/ UNCHANGED stop
    BY <1>8 DEF EnsureEnabled, AddChannel, SinkReady, StartsPump, PumpJoined, Registered,
         Critical, threadVars, cardVars, StartPump
  <2> QED
    BY <2>1, <1>1
<1> QED
  BY <1>2, <1>3, <1>4, <1>6, <1>7, <1>8
     DEF QuietStep, StepOf, Acquire, Enqueue, Release

LEMMA StopStep ==
    ASSUME LifeInv, StopInv, NEW w \in Stream, StepOf(w)
    PROVE  StopInv'
<1> USE StreamAssumption DEF LifeInv, CardInv
<1> SUFFICES ASSUME NEW c \in Stream, stop'[c], PumpAlive(c)', Users(c)' # {}
             PROVE  chans'[c] # Slots
  BY DEF StopInv
<1>1. PumpAlive(c)
  <2>1. CASE StartsPump(w)
    BY <2>1 DEF StartsPump, StartPump, PumpAlive, TypeInv, TypeOK, PumpTypeOK
  <2>2. CASE KeepsPump
    BY <2>2 DEF KeepsPump, PumpAlive
  <2> QED
    BY <2>1, <2>2, PumpControl
<1>2. chans'[c] = chans[c]
  BY <1>1, MaskSteps
<1>3. CASE stop[c]
  <2>1. PICK u \in Stream : pc'[u] \in Registered /\ sink'[u] = c
    BY DEF Users
  <2>2. CASE Registers(w)
    <3>1. card \in Stream /\ pc[w] = "gain"
      BY <2>2 DEF Registers, TypeInv, RefInv
    <3>2. CASE u = w
      <4>1. c = card
        BY <2>1, <2>2, <3>2, BlockTypes DEF Registers
      <4>2. active[card] # 0
        BY <1>1, <3>1, <4>1 DEF PumpLifeInv
      <4>3. Users(card) # {}
        BY <3>1, <4>2, FS_EmptySet DEF CountInv
      <4> QED
        BY <1>1, <1>2, <1>3, <4>1, <4>3 DEF StopInv
    <3>3. CASE u # w
      <4>1. u \in Users(c)
        BY <2>1, <2>2, <3>3, BlockTypes DEF Registers, Users, Goto
      <4> QED
        BY <1>1, <1>2, <1>3, <4>1 DEF StopInv
    <3> QED
      BY <3>2, <3>3
  <2>3. CASE ~Registers(w)
    <3>1. UNCHANGED sink /\ pc[u] \in Registered
      BY <2>1, <2>3, CardSteps, BlockTypes
         DEF OpensCard, LeavesOpen, Leaves, ClosesCard, KeepsCard, Goto, Registered
    <3>2. u \in Users(c)
      BY <2>1, <3>1 DEF Users
    <3> QED
      BY <1>1, <1>2, <1>3, <3>2 DEF StopInv
  <2> QED
    BY <2>2, <2>3
<1>4. CASE ~stop[c]
  BY <1>4, StopSteps, BlockTypes
<1> QED
  BY <1>3, <1>4

\* The pump holds at most one block of a stream, at the place of its slot.
Carried(w) == {s \in Slots : batch[sink[w]][s] = w}

LEMMA CarriedCard ==
    ASSUME TypeInv, NameInv, NEW w \in Stream, sink[w] \in Stream
    PROVE  /\ Cardinality(Carried(w)) = IF Carried(w) = {} THEN 0 ELSE 1
           /\ Carried(w) \subseteq {SlotOf[w]}
<1>1. Carried(w) \subseteq {SlotOf[w]}
  BY DEF Carried, NameInv
<1>2. Carried(w) = {} \/ Carried(w) = {SlotOf[w]}
  BY <1>1
<1> QED
  BY <1>1, <1>2, FS_EmptySet, FS_Singleton

LEMMA LostStep ==
    ASSUME TypeInv, HoldInv, NothingLost, NEW w \in Stream, StepOf(w)
    PROVE  NothingLost'
<1> SUFFICES ASSUME NEW v \in Stream, Alone(v), pc'[v] \in Registered, ~error'[sink'[v]]
             PROVE  sent'[v] = aired'[v] + InFlight(v)'
  BY StaysCrowded DEF NothingLost
<1>1. UNCHANGED <<batch, error, aired>>
  BY QueueSteps
<1>2. CASE v = w /\ NewQueue(w)
  <2>1. /\ sink'[w] = card /\ card \in Stream
        /\ fifo'[w] = <<>>
        /\ sent'[w] = 0 /\ aired[w] = 0
    BY <1>2, BlockTypes DEF NewQueue, HoldInv, FreshInv, Fresh
  <2>2. {s \in Slots : batch'[sink'[w]][s] = w} = {}
    BY <1>1, <1>2, <2>1 DEF NewQueue, HoldInv, FreshInv, Fresh
  <2>3. InFlight(w)' = 0
    <3>1. InFlight(w)' = Len(fifo'[w]) + Cardinality({s \in Slots : batch'[sink'[w]][s] = w})
      BY DEF InFlight
    <3>2. Cardinality({s \in Slots : batch'[sink'[w]][s] = w}) = 0 /\ Len(fifo'[w]) = 0
      BY <2>1, <2>2, FS_EmptySet
    <3> QED
      BY <3>1, <3>2
  <2> QED
    BY <1>1, <1>2, <2>1, <2>3
<1>3. CASE v = w /\ Puts(w)
  <2>1. /\ fifo'[w] = Append(fifo[w], w) /\ sent'[w] = sent[w] + 1
        /\ sink' = sink
        /\ pc[w] \in Registered
        /\ fifo[w] \in Seq(Stream)
    BY <1>3, BlockTypes DEF Puts, HoldInv, QueueInv, Registered
  <2>2. sent[w] = aired[w] + InFlight(w) /\ sink[w] \in Stream
    BY <1>1, <1>3, <2>1, BlockTypes DEF NothingLost
  <2>3. InFlight(w)' = InFlight(w) + 1
    <3>1. Len(fifo'[w]) = Len(fifo[w]) + 1 /\ Len(fifo[w]) \in Nat
      BY <2>1
    <3>2. InFlight(w)' = Len(fifo'[w]) + Cardinality(Carried(w))
      BY <1>1, <2>1 DEF InFlight, Carried
    <3>3. InFlight(w) = Len(fifo[w]) + Cardinality(Carried(w))
      BY DEF InFlight, Carried
    <3>4. Cardinality(Carried(w)) \in {0, 1}
      BY <2>2, CarriedCard DEF HoldInv
    <3> QED
      BY <3>1, <3>2, <3>3, <3>4
  <2>4. sent[w] \in Nat /\ aired[w] \in Nat /\ InFlight(w) = sent[w] - aired[w]
    <3>1. InFlight(w) \in Nat
      <4>1. Cardinality(Carried(w)) \in {0, 1} /\ Len(fifo[w]) \in Nat
        BY <2>1, <2>2, CarriedCard DEF HoldInv
      <4> QED
        BY <4>1 DEF InFlight, Carried
    <3> QED
      BY <2>2, <3>1, BlockTypes
  <2> QED
    BY <1>1, <1>3, <2>1, <2>3, <2>4
<1>4. CASE ~(v = w /\ (NewQueue(w) \/ Puts(w)))
  <2>1. /\ sink'[v] = sink[v] /\ fifo'[v] = fifo[v] /\ sent'[v] = sent[v]
        /\ pc[v] \in Registered
    <3>1. CASE NewQueue(w) \/ Puts(w)
      <4>1. v # w
        BY <1>4, <3>1
      <4>2. Puts(w) => target[w] # v
        <5>1. ASSUME Puts(w), target[w] = v PROVE FALSE
          <6>1. SlotOf[v] = SlotOf[w]
            BY <5>1 DEF Puts, HoldInv, MeetInv, Peers
          <6>2. target[w] = w
            BY <5>1, <6>1 DEF Puts, Alone, HoldInv, QueueInv
          <6> QED
            BY <4>1, <5>1, <6>2
        <5> QED
          BY <5>1
      <4> QED
        BY <3>1, <4>1, <4>2, BlockTypes DEF NewQueue, Puts, Goto
    <3>2. CASE ForgetsQueue(w) \/ LooksUp(w) \/ KeepsQueues(w)
      <4>1. UNCHANGED <<sink, fifo, sent>> /\ pc[v] \in Registered
        BY <3>2, BlockTypes DEF ForgetsQueue, LooksUp, KeepsQueues, Goto, Feeding, Registered
      <4> QED
        BY <4>1
    <3> QED
      BY <3>1, <3>2, QueueSteps
  <2>2. InFlight(v)' = InFlight(v)
    BY <1>1, <2>1 DEF InFlight
  <2> QED
    BY <1>1, <2>1, <2>2 DEF NothingLost
<1> QED
  BY <1>2, <1>3, <1>4, QueueSteps

LEMMA GapStep ==
    ASSUME TypeInv, HoldInv, ZeroInv, SnapInv, GapInv, NEW w \in Stream, StepOf(w),
           \A c \in Stream : PumpAlive(c) => pump'[c] = pump[c],
           \A c \in Stream : PumpAlive(c)' /\ ~PumpAlive(c) => pump'[c] = "top"
    PROVE  ZeroInv' /\ SnapInv' /\ GapInv'
<1>1. UNCHANGED <<snap, batch, underflow, aired, gap>>
  BY QueueSteps
<1>2. ZeroInv'
  BY <1>1 DEF ZeroInv
<1>3. SnapInv'
  <2> SUFFICES ASSUME NEW v \in Stream, NEW c \in Stream, NEW s \in Slots,
                      pump'[c] \in {"collect", "write"}, queues'[c][s] = v, aired[v] > 0
               PROVE  snap[c][s] # None
    BY <1>1 DEF SnapInv
  <2>1. pump[c] = pump'[c]
    BY DEF PumpAlive
  <2>2. queues[c][s] = v
    <3>1. CASE NewQueue(w)
      <4>1. aired[w] = 0
        BY <3>1 DEF NewQueue, HoldInv, FreshInv, Fresh
      <4>2. v # w
        BY <4>1
      <4> QED
        BY <3>1, <4>2, BlockTypes DEF NewQueue
    <3>2. CASE ForgetsQueue(w)
      <4>1. v # None
        BY StreamAssumption
      <4> QED
        BY <3>2, <4>1, BlockTypes DEF ForgetsQueue, Feeding
    <3> QED
      BY <3>1, <3>2, QueueSteps DEF LooksUp, Puts, KeepsQueues
  <2> QED
    BY <2>1, <2>2 DEF SnapInv
<1>4. GapInv'
  <2> SUFFICES ASSUME NEW v \in Stream, gap[v] PROVE sink'[v] \in Stream /\ SlotOf[v] \in underflow[sink'[v]]
    BY <1>1 DEF GapInv
  <2>1. sink'[v] = sink[v]
    <3>1. CASE NewQueue(w)
      <4>1. v # w
        BY <3>1 DEF NewQueue, HoldInv, FreshInv, Fresh
      <4> QED
        BY <3>1, <4>1, BlockTypes DEF NewQueue
    <3> QED
      BY <3>1, QueueSteps DEF ForgetsQueue, LooksUp, Puts, KeepsQueues
  <2> QED
    BY <2>1 DEF GapInv
<1> QED
  BY <1>2, <1>3, <1>4

-----------------------------------------------------------------------------
(* The steps of a pump.                                                      *)

\* The cycle goes on with a slot that has no block yet.
LEMMA NextWaits ==
    ASSUME TypeInv, CycleInv, NEW c \in Stream, pump[c] = "collect"
    PROVE  NextSlot(c) \in Slots /\ batch[c][NextSlot(c)] = None
<1>1. Waiting(c) # {} /\ Waiting(c) \subseteq {"TX1", "TX2"}
  BY DEF CycleInv, Waiting, Slots, TypeInv, TypeOK, CardTypeOK
<1>2. NextSlot(c) \in Waiting(c)
  BY <1>1 DEF NextSlot
<1> QED
  BY <1>2 DEF NextSlot, Waiting, Slots

\* What a pump takes from the queue of a slot is a block of a stream of that
\* slot and card: of the one the queue was registered for when it is alone.
LEMMA TakesOwn ==
    ASSUME TypeInv, CycleInv, HoldInv, NEW c \in Stream, PumpTakes(c)
    PROVE  LET q == SnapQueue(c)
               u == Head(fifo[q])
           IN  /\ q \in Stream /\ u \in Stream
               /\ sink[u] = c /\ SlotOf[u] = NextSlot(c) /\ pc[u] \notin Fresh
               /\ sink[q] = c /\ SlotOf[q] = NextSlot(c)
               /\ Alone(u) => u = q
               /\ fifo[q] \in Seq(Stream) /\ fifo[q] # <<>>
<1> DEFINE q == SnapQueue(c)
           u == fifo[q][1]
<1>1. q \in Stream /\ NextSlot(c) \in Slots /\ q = snap[c][NextSlot(c)]
  BY NextWaits, BlockTypes DEF PumpTakes, SnapQueue
<1>2. fifo[q] \in Seq(Stream) /\ fifo[q] # <<>>
  BY <1>1, BlockTypes DEF PumpTakes
<1>3. 1 \in 1..Len(fifo[q]) /\ u \in Stream /\ Head(fifo[q]) = u
  BY <1>2
<1>4. sink[q] = c /\ SlotOf[q] = NextSlot(c)
  BY <1>1 DEF HoldInv, NameInv
<1>5. sink[u] = c /\ SlotOf[u] = NextSlot(c) /\ pc[u] \notin Fresh
  BY <1>1, <1>3, <1>4 DEF HoldInv, MeetInv, Peers
<1>6. Alone(u) => u = q
  BY <1>1, <1>3, <1>4, <1>5 DEF HoldInv, OwnQueue, Alone
<1> HIDE DEF u, q
<1> QED
  BY <1>1, <1>2, <1>3, <1>4, <1>5, <1>6 DEF q

\* A pump touches what is its own, and its blocks come from its queues.
LEMMA PumpTouches ==
    ASSUME TypeInv, CycleInv, HoldInv, NEW c \in Stream, PumpStep(c)
    PROVE  /\ PumpAlive(c)
           /\ \A d \in Stream \ {c} :
                 /\ pump'[d] = pump[d] /\ snap'[d] = snap[d] /\ batch'[d] = batch[d]
                 /\ stop'[d] = stop[d] /\ error'[d] = error[d] /\ underflow'[d] = underflow[d]
           /\ \A v \in Stream, s \in Slots :
                 /\ snap'[c][s] = v => v \in {snap[c][s], queues[c][s]}
                 /\ batch'[c][s] = v =>
                        \/ batch[c][s] = v
                        \/ sink[v] = c /\ SlotOf[v] = s /\ pc[v] \notin Fresh
           /\ \A v \in Stream : fifo'[v] = fifo[v] \/ (fifo[v] # <<>> /\ fifo'[v] = Tail(fifo[v]))
           /\ \A v \in Stream : /\ ~Airs(c, v) => aired'[v] = aired[v]
                                /\ gap'[v] => gap[v] \/ Gaps(c, v)
           /\ pump'[c] \notin {"collect", "write"} => batch'[c] = NoBatch
<1> USE BlockTypes DEF cardVars, pumpVars, historyVars
<1> /\ pump \in [Stream -> {"new", "top", "collect", "write", "dead"}]
    /\ stop \in [Stream -> BOOLEAN]
    /\ error \in [Stream -> BOOLEAN]
    /\ underflow \in [Stream -> SUBSET Slots]
  BY DEF TypeInv, TypeOK, CardTypeOK, PumpTypeOK
<1> NoQueues \in [Slots -> {None}] /\ NoBatch \in [Slots -> {None}] /\ None \notin Stream
  BY StreamAssumption DEF NoQueues, NoBatch
<1>1. CASE PumpStops(c)
  BY <1>1 DEF PumpStops, PumpAlive, HoldInv, RestInv
<1>2. CASE PumpOverheats(c) \/ PumpWriteFails(c)
  BY <1>2 DEF PumpOverheats, PumpWriteFails, PumpDies, PumpAlive
<1>3. CASE PumpBegins(c)
  BY <1>3 DEF PumpBegins, PumpAlive
<1>4. CASE PumpAbandons(c)
  BY <1>4 DEF PumpAbandons, PumpAlive
<1>5. CASE PumpWrites(c)
  BY <1>5 DEF PumpWrites, PumpAlive
<1>6. CASE PumpFeedsSilence(c) \/ PumpUnderflows(c)
  <2>1. /\ pump[c] = "collect" /\ Collect(c, Zero)
        /\ UNCHANGED <<snap, stop, error, fifo, aired, gap>>
        /\ \A d \in Stream \ {c} : underflow'[d] = underflow[d]
    BY <1>6 DEF PumpFeedsSilence, PumpUnderflows
  <2>2. /\ batch' = [batch EXCEPT ![c] = [batch[c] EXCEPT ![NextSlot(c)] = Zero]]
        /\ pump'[c] \in {"collect", "write"} /\ \A d \in Stream \ {c} : pump'[d] = pump[d]
    BY <2>1 DEF Collect
  <2>3. \A v \in Stream, s \in Slots : batch'[c][s] = v => batch[c][s] = v
    BY <2>2, StreamAssumption
  <2> QED
    BY <2>1, <2>2, <2>3 DEF PumpAlive
<1>7. CASE PumpTakes(c)
  <2> DEFINE q == SnapQueue(c)
             b == Head(fifo[q])
  <2>1. /\ pump[c] = "collect" /\ Collect(c, b)
        /\ fifo' = [fifo EXCEPT ![q] = Tail(@)]
        /\ UNCHANGED <<snap, stop, error, underflow, aired, gap>>
    BY <1>7 DEF PumpTakes
  <2>2. /\ batch' = [batch EXCEPT ![c] = [batch[c] EXCEPT ![NextSlot(c)] = b]]
        /\ pump'[c] \in {"collect", "write"} /\ \A d \in Stream \ {c} : pump'[d] = pump[d]
    BY <2>1 DEF Collect
  <2>3. \A v \in Stream, s \in Slots : batch'[c][s] = v =>
            \/ batch[c][s] = v
            \/ sink[v] = c /\ SlotOf[v] = s /\ pc[v] \notin Fresh
    <3>1. sink[b] = c /\ SlotOf[b] = NextSlot(c) /\ pc[b] \notin Fresh
      BY <1>7, TakesOwn
    <3> QED
      BY <2>2, <3>1
  <2>4. q \in Stream /\ fifo[q] # <<>>
    BY <1>7, TakesOwn
  <2> QED
    BY <2>1, <2>2, <2>3, <2>4 DEF PumpAlive
<1> QED
  BY <1>1, <1>2, <1>3, <1>4, <1>5, <1>6, <1>7 DEF PumpStep

LEMMA HoldPumpStep ==
    ASSUME TypeInv, CycleInv, HoldInv, NEW c \in Stream, PumpStep(c)
    PROVE  HoldInv'
<1>1. UNCHANGED <<queues, pc, sink, target, sent, crowded>>
  BY PumpSteps DEF streamSide, threadVars
<1>2. \A v, d \in Stream, s \in Slots :
         v \in {queues'[d][s], snap'[d][s], batch'[d][s]} =>
         \/ v \in {queues[d][s], snap[d][s], batch[d][s]}
         \/ sink[v] = d /\ SlotOf[v] = s /\ pc[v] \notin Fresh
  <2> SUFFICES ASSUME NEW v \in Stream, NEW d \in Stream, NEW s \in Slots,
                      v \in {queues'[d][s], snap'[d][s], batch'[d][s]}
               PROVE  \/ v \in {queues[d][s], snap[d][s], batch[d][s]}
                      \/ sink[v] = d /\ SlotOf[v] = s /\ pc[v] \notin Fresh
    OBVIOUS
  <2> QED
    BY <1>1, PumpTouches
<1>3. FreshInv'
  <2> SUFFICES ASSUME NEW v \in Stream, pc'[v] \in Fresh
               PROVE  /\ sent'[v] = 0 /\ aired'[v] = 0 /\ ~gap'[v]
                      /\ \A d \in Stream, s \in Slots :
                            v \notin {queues'[d][s], snap'[d][s], batch'[d][s]}
    BY DEF FreshInv
  <2>1. \A d \in Stream, s \in Slots : v \notin {queues[d][s], snap[d][s], batch[d][s]}
    BY <1>1 DEF HoldInv, FreshInv
  <2>2. ~Airs(c, v) /\ ~Gaps(c, v)
    BY <2>1, BlockTypes DEF Airs, Gaps
  <2>3. sent[v] = 0 /\ aired[v] = 0 /\ ~gap[v]
    BY <1>1 DEF HoldInv, FreshInv
  <2> QED
    BY <1>1, <1>2, <2>1, <2>2, <2>3, PumpTouches
<1>4. QueueInv'
  BY <1>1 DEF HoldInv, QueueInv, Alone
<1>5. NameInv'
  BY <1>1, <1>2 DEF HoldInv, NameInv
<1>6. RestInv'
  BY PumpTouches DEF HoldInv, RestInv
<1>7. ASSUME NEW v \in Stream, NEW i \in 1..Len(fifo'[v])
      PROVE  \E k \in 1..Len(fifo[v]) : fifo'[v][i] = fifo[v][k]
  <2>1. CASE fifo'[v] = fifo[v]
    BY <1>7, <2>1
  <2>2. CASE fifo[v] # <<>> /\ fifo'[v] = Tail(fifo[v])
    <3>1. fifo[v] \in Seq(Stream)
      BY BlockTypes
    <3>2. i + 1 \in 1..Len(fifo[v]) /\ fifo'[v][i] = fifo[v][i + 1]
      BY <1>7, <2>2, <3>1
    <3> QED
      BY <3>2
  <2> QED
    BY <2>1, <2>2, PumpTouches
<1>8. OwnQueue'
  BY <1>1, <1>7 DEF HoldInv, OwnQueue, Alone
<1>9. MeetInv'
  BY <1>1, <1>7 DEF HoldInv, MeetInv, Peers
<1> QED
  BY <1>3, <1>4, <1>5, <1>6, <1>8, <1>9 DEF HoldInv

LEMMA StopPumpStep ==
    ASSUME TypeInv, CycleInv, HoldInv, StopInv, NEW c \in Stream, PumpStep(c)
    PROVE  StopInv'
<1>1. UNCHANGED <<chans, pc, sink>>
  BY PumpSteps DEF streamSide, threadVars
<1>2. ASSUME NEW d \in Stream, stop'[d], PumpAlive(d)' PROVE stop[d] /\ PumpAlive(d)
  <2>1. CASE d = c
    <3>1. PumpAlive(c)
      BY PumpTouches
    <3>2. ~PumpOverheats(c) /\ ~PumpWriteFails(c)
      BY <1>2, <2>1 DEF PumpOverheats, PumpWriteFails, PumpDies, PumpAlive, TypeInv, TypeOK,
         PumpTypeOK
    <3>3. UNCHANGED stop
      BY <3>2 DEF PumpStep, PumpStops, PumpBegins, PumpFeedsSilence, PumpTakes,
         PumpUnderflows, PumpAbandons, PumpWrites
    <3> QED
      BY <1>2, <2>1, <3>1, <3>3
  <2>2. CASE d # c
    BY <1>2, <2>2, PumpTouches DEF PumpAlive
  <2> QED
    BY <2>1, <2>2
<1>3. \A d \in Stream : Users(d)' = Users(d)
  BY <1>1 DEF Users
<1> QED
  BY <1>1, <1>2, <1>3 DEF StopInv

\* A pump that gives a cycle up has collected nothing: it serves one channel,
\* and that one had no block.
LEMMA AbandonsNothing ==
    ASSUME TypeInv, CycleInv, StopInv, NEW c \in Stream, PumpAbandons(c), Users(c) # {}
    PROVE  batch[c] = NoBatch
<1>1. /\ pump[c] = "collect" /\ stop[c]
      /\ chans[c] # Slots /\ chans[c] \subseteq Slots
      /\ Held(c) \subseteq chans[c] /\ Waiting(c) # {}
  BY DEF PumpAbandons, GivesUp, PumpAlive, StopInv, CycleInv, TypeInv, TypeOK, CardTypeOK
<1>2. Held(c) = {}
  BY <1>1 DEF Held, Waiting, Slots
<1>3. batch[c] \in [Slots -> Block \cup {None}]
  BY BlockTypes
<1> QED
  BY <1>2, <1>3 DEF Held, NoBatch

LEMMA LostPumpStep ==
    ASSUME TypeInv, CycleInv, HoldInv, StopInv, NothingLost, NEW c \in Stream, PumpStep(c)
    PROVE  NothingLost'
<1> SUFFICES ASSUME NEW v \in Stream, Alone(v), pc'[v] \in Registered, ~error'[sink'[v]]
             PROVE  sent'[v] = aired'[v] + InFlight(v)'
  BY PumpSteps DEF NothingLost, Alone
<1> DEFINE d == sink[v]
<1>1. /\ UNCHANGED <<pc, sink, sent>>
      /\ pc[v] \in Registered /\ d \in Stream
      /\ ~error'[d]
  BY PumpSteps, BlockTypes DEF streamSide, threadVars
<1>2. /\ InFlight(v) = Len(fifo[v]) + Cardinality(Carried(v))
      /\ InFlight(v)' = Len(fifo'[v]) + Cardinality(Carried(v)')
  BY DEF InFlight, Carried
<1>3. ASSUME ~error[d] PROVE sent[v] = aired[v] + InFlight(v)
  BY <1>1, <1>3 DEF NothingLost
<1>4. Carried(v)' = {s \in Slots : batch'[d][s] = v}
  BY <1>1 DEF Carried
<1>5. ASSUME aired'[v] = aired[v], fifo'[v] = fifo[v], error'[d] = error[d],
             Carried(v)' = Carried(v)
      PROVE  sent'[v] = aired'[v] + InFlight(v)'
  BY <1>1, <1>2, <1>3, <1>5
<1>6. CASE d # c
  <2>1. batch'[d] = batch[d] /\ error'[d] = error[d]
    BY <1>1, <1>6, PumpTouches
  <2>2. ~Airs(c, v)
    BY <1>6, BlockTypes DEF Airs, HoldInv, NameInv
  <2>3. aired'[v] = aired[v]
    BY <2>2, PumpTouches
  <2>4. fifo'[v] = fifo[v]
    <3>1. CASE PumpTakes(c)
      <4>1. SnapQueue(c) # v
        BY <1>6, <3>1, TakesOwn
      <4> QED
        BY <3>1, <4>1, BlockTypes DEF PumpTakes
    <3> QED
      BY <3>1 DEF PumpStep, PumpStops, PumpOverheats, PumpBegins, PumpFeedsSilence,
         PumpUnderflows, PumpAbandons, PumpWrites, PumpWriteFails
  <2>5. Carried(v)' = Carried(v)
    BY <1>4, <2>1 DEF Carried
  <2> QED
    BY <1>5, <2>1, <2>3, <2>4, <2>5
<1>7. CASE d = c
  <2>1. Users(c) # {}
    BY <1>1, <1>7 DEF Users
  <2>2. NoBatch \in [Slots -> {None}] /\ v # None /\ v # Zero
    BY StreamAssumption DEF NoBatch
  <2>3. CASE PumpOverheats(c) \/ PumpWriteFails(c)
    BY <1>1, <1>7, <2>3 DEF PumpOverheats, PumpWriteFails, PumpDies, TypeInv, TypeOK, CardTypeOK
  <2>4. CASE PumpStops(c)
    <3>1. UNCHANGED <<aired, fifo, error, batch>>
      BY <2>4 DEF PumpStops, cardVars, historyVars
    <3>2. Carried(v)' = Carried(v)
      BY <1>1, <3>1 DEF Carried
    <3> QED
      BY <1>5, <3>1, <3>2
  <2>5. CASE PumpBegins(c) \/ PumpAbandons(c)
    <3>1. UNCHANGED <<aired, fifo, error>> /\ batch'[c] = NoBatch
      BY <2>5, BlockTypes DEF PumpBegins, PumpAbandons, cardVars, historyVars
    <3>2. batch[c] = NoBatch
      BY <2>1, <2>5, AbandonsNothing DEF PumpBegins, HoldInv, RestInv
    <3>3. Carried(v)' = Carried(v)
      BY <1>4, <1>7, <3>1, <3>2 DEF Carried
    <3> QED
      BY <1>5, <3>1, <3>3
  <2>6. CASE PumpFeedsSilence(c) \/ PumpUnderflows(c)
    <3>1. UNCHANGED <<aired, fifo, error>> /\ pump[c] = "collect"
      BY <2>6 DEF PumpFeedsSilence, PumpUnderflows, cardVars, historyVars
    <3>2. batch'[c] = [batch[c] EXCEPT ![NextSlot(c)] = Zero]
      BY <2>6, BlockTypes DEF PumpFeedsSilence, PumpUnderflows, Collect
    <3>3. batch[c][NextSlot(c)] = None
      BY <3>1, NextWaits
    <3>4. Carried(v)' = Carried(v)
      BY <1>4, <1>7, <2>2, <3>2, <3>3, BlockTypes DEF Carried
    <3> QED
      BY <1>5, <3>1, <3>4
  <2>7. CASE PumpTakes(c)
    <3> DEFINE q == SnapQueue(c)
               b == Head(fifo[q])
    <3>1. /\ UNCHANGED <<aired, error>> /\ pump[c] = "collect"
          /\ fifo' = [fifo EXCEPT ![q] = Tail(@)]
          /\ q \in Stream /\ fifo[q] \in Seq(Stream) /\ fifo[q] # <<>>
      BY <2>7, TakesOwn DEF PumpTakes, cardVars, historyVars
    <3>2. batch'[c] = [batch[c] EXCEPT ![NextSlot(c)] = b]
      BY <2>7, BlockTypes DEF PumpTakes, Collect
    <3>6. b = v <=> q = v
      <4>1. /\ SlotOf[b] = NextSlot(c) /\ SlotOf[q] = NextSlot(c)
            /\ Alone(b) => b = q
        BY <2>7, TakesOwn
      <4>2. SlotOf[v] = NextSlot(c) => Alone(b)
        BY <4>1 DEF Alone
      <4> QED
        BY <4>1, <4>2
    <3> HIDE DEF b
    <3>3. NextSlot(c) \in Slots /\ batch[c][NextSlot(c)] = None
      BY <3>1, NextWaits
    <3>4. CASE q # v
      <4>1. Carried(v)' = Carried(v)
        BY <1>4, <1>7, <2>2, <3>2, <3>3, <3>4, <3>6, BlockTypes DEF Carried
      <4>2. fifo'[v] = fifo[v]
        BY <3>1, <3>4, BlockTypes
      <4> QED
        BY <1>5, <3>1, <4>1, <4>2
    <3>5. CASE q = v
      <4>1. Len(fifo[v]) \in Nat /\ Len(fifo'[v]) = Len(fifo[v]) - 1
        BY <3>1, <3>5, BlockTypes
      <4>2. NextSlot(c) = SlotOf[v]
        BY <2>7, <3>5, TakesOwn
      <4>3. Carried(v) = {} /\ Carried(v)' = {SlotOf[v]}
        <5>1. Carried(v) \subseteq {SlotOf[v]}
          BY <1>1, CarriedCard DEF HoldInv
        <5>2. Carried(v) = {}
          BY <5>1, <1>7, <2>2, <3>3, <4>2 DEF Carried
        <5>3. Carried(v)' = {SlotOf[v]}
          BY <1>4, <1>7, <5>2, <3>2, <3>3, <3>5, <3>6, <4>2, BlockTypes DEF Carried
        <5> QED
          BY <5>2, <5>3
      <4>4. Cardinality(Carried(v)) = 0 /\ Cardinality(Carried(v)') = 1
        BY <4>3, FS_EmptySet, FS_Singleton
      <4>5. sent[v] = aired[v] + InFlight(v) /\ aired[v] \in Nat
        BY <1>1, <1>3, <3>1, BlockTypes
      <4> QED
        BY <1>1, <1>2, <3>1, <4>1, <4>4, <4>5
    <3> QED
      BY <3>4, <3>5
  <2>8. CASE PumpWrites(c)
    <3>1. UNCHANGED <<fifo, error>> /\ batch'[c] = NoBatch
      BY <2>8, BlockTypes DEF PumpWrites, cardVars
    <3>2. aired'[v] = IF Airs(c, v) THEN aired[v] + 1 ELSE aired[v]
      BY <2>8 DEF PumpWrites
    <3>3. Airs(c, v) <=> Carried(v) # {}
      BY <1>7 DEF Airs, Carried
    <3>4. Carried(v)' = {}
      BY <1>4, <1>7, <2>2, <3>1
    <3>5. Cardinality(Carried(v)') = 0
      BY <3>4, FS_EmptySet
    <3>6. Cardinality(Carried(v)) = IF Carried(v) = {} THEN 0 ELSE 1
      BY <1>1, CarriedCard DEF HoldInv
    <3>7. sent[v] = aired[v] + InFlight(v) /\ aired[v] \in Nat /\ Len(fifo[v]) \in Nat
      BY <1>1, <1>3, <3>1, BlockTypes
    <3> QED
      BY <1>1, <1>2, <3>1, <3>2, <3>3, <3>5, <3>6, <3>7
  <2> QED
    BY <2>3, <2>4, <2>5, <2>6, <2>7, <2>8 DEF PumpStep
<1> QED
  BY <1>6, <1>7

LEMMA GapPumpStep ==
    ASSUME TypeInv, CycleInv, HoldInv, ZeroInv, SnapInv, GapInv,
           NEW c \in Stream, PumpStep(c)
    PROVE  ZeroInv' /\ SnapInv' /\ GapInv'
<1>1. UNCHANGED <<queues, sink>>
  BY PumpSteps DEF streamSide, threadVars
<1>2. NoBatch \in [Slots -> {None}] /\ None # Zero /\ Zero \notin Stream /\ None \notin Stream
  BY StreamAssumption DEF NoBatch
<1>3. /\ underflow \in [Stream -> SUBSET Slots]
      /\ pump \in [Stream -> {"new", "top", "collect", "write", "dead"}]
  BY DEF TypeInv, TypeOK, CardTypeOK, PumpTypeOK
<1>4. \A d \in Stream : underflow[d] \subseteq underflow'[d]
  BY <1>3 DEF PumpStep, PumpStops, PumpOverheats, PumpBegins, PumpFeedsSilence, PumpTakes,
     PumpUnderflows, Counted, PumpAbandons, PumpWrites, PumpWriteFails, PumpDies, cardVars
<1>5. ZeroInv'
  <2> SUFFICES ASSUME NEW s \in Slots, batch'[c][s] = Zero, snap'[c][s] # None
               PROVE  s \in underflow'[c]
    BY PumpTouches DEF ZeroInv
  <2>1. pump'[c] \in {"collect", "write"}
    BY <1>2, PumpTouches
  <2>2. ~PumpBegins(c)
    BY <1>2, BlockTypes DEF PumpBegins
  <2>3. PumpFeedsSilence(c) \/ PumpTakes(c) \/ PumpUnderflows(c)
    BY <1>3, <2>1, <2>2 DEF PumpStep, PumpStops, PumpOverheats, PumpAbandons, PumpWrites,
       PumpWriteFails, PumpDies
  <2>4. snap' = snap
    BY <2>3 DEF PumpFeedsSilence, PumpTakes, PumpUnderflows
  <2>5. CASE s # NextSlot(c)
    <3>1. batch'[c][s] = batch[c][s]
      BY <2>3, <2>5, BlockTypes DEF PumpFeedsSilence, PumpTakes, PumpUnderflows, Collect
    <3> QED
      BY <1>4, <2>4, <3>1 DEF ZeroInv
  <2>6. CASE s = NextSlot(c)
    <3>1. CASE PumpFeedsSilence(c)
      BY <2>4, <2>6, <3>1 DEF PumpFeedsSilence, SnapQueue
    <3>2. CASE PumpUnderflows(c)
      BY <1>3, <2>6, <3>2 DEF PumpUnderflows, Counted
    <3>3. CASE PumpTakes(c)
      <4> DEFINE b == Head(fifo[SnapQueue(c)])
      <4>1. b \in Stream
        BY <3>3, TakesOwn
      <4>2. batch' = [batch EXCEPT ![c][NextSlot(c)] = b]
        BY <3>3 DEF PumpTakes, Collect
      <4> HIDE DEF b
      <4>3. batch'[c][s] = b
        BY <2>6, <4>2, BlockTypes
      <4> QED
        BY <1>2, <4>1, <4>3
    <3> QED
      BY <2>3, <3>1, <3>2, <3>3
  <2> QED
    BY <2>5, <2>6
<1>6. SnapInv'
  <2> SUFFICES ASSUME NEW v \in Stream, NEW d \in Stream, NEW s \in Slots,
                      pump'[d] \in {"collect", "write"}, queues[d][s] = v, aired'[v] > 0
               PROVE  snap'[d][s] # None
    BY <1>1 DEF SnapInv
  <2>1. sink[v] = d
    BY DEF HoldInv, NameInv
  <2>2. CASE d # c
    <3>1. ~Airs(c, v)
      BY <2>1, <2>2, BlockTypes DEF Airs, HoldInv, NameInv
    <3> QED
      BY <2>2, <3>1, PumpTouches DEF SnapInv
  <2>3. CASE d = c /\ PumpBegins(c)
    BY <1>2, <2>3, BlockTypes DEF PumpBegins
  <2>4. CASE d = c /\ ~PumpBegins(c)
    <3>1. PumpFeedsSilence(c) \/ PumpTakes(c) \/ PumpUnderflows(c)
      BY <1>3, <2>4 DEF PumpStep, PumpStops, PumpOverheats, PumpAbandons, PumpWrites,
         PumpWriteFails, PumpDies
    <3>2. UNCHANGED <<snap, aired>> /\ pump[c] = "collect"
      BY <3>1 DEF PumpFeedsSilence, PumpTakes, PumpUnderflows, historyVars
    <3> QED
      BY <2>4, <3>2 DEF SnapInv
  <2> QED
    BY <2>2, <2>3, <2>4
<1>7. GapInv'
  <2> SUFFICES ASSUME NEW v \in Stream, gap'[v]
               PROVE  sink[v] \in Stream /\ SlotOf[v] \in underflow'[sink[v]]
    BY <1>1 DEF GapInv
  <2>1. CASE gap[v]
    BY <1>4, <2>1 DEF GapInv
  <2>2. CASE ~gap[v]
    <3>1. Gaps(c, v)
      BY <2>2, PumpTouches
    <3>2. PumpWrites(c)
      BY <2>2 DEF PumpStep, PumpStops, PumpOverheats, PumpBegins, PumpFeedsSilence, PumpTakes,
         PumpUnderflows, PumpAbandons, PumpWriteFails, historyVars
    <3>3. sink[v] = c /\ SlotOf[v] \in Slots
      BY <3>1, BlockTypes DEF Gaps, HoldInv, NameInv
    <3>4. SlotOf[v] \in underflow[c]
      BY <3>1, <3>2, <3>3 DEF Gaps, PumpWrites, SnapInv, ZeroInv
    <3> QED
      BY <1>4, <3>3, <3>4
  <2> QED
    BY <2>1, <2>2
<1> QED
  BY <1>5, <1>6, <1>7

-----------------------------------------------------------------------------

LEMMA BlockInit == Init => BlockInv
<1> SUFFICES ASSUME Init PROVE BlockInv
  OBVIOUS
<1>1. MaskInv
  BY MaskInit
<1>2. ExclusiveInv /\ StopInv /\ NothingLost /\ ZeroInv /\ SnapInv /\ GapInv
  BY StreamAssumption
     DEF Init, ExclusiveInv, Away, StopInv, NothingLost, Registered, ZeroInv, SnapInv,
         GapInv, NoBatch, NoQueues
<1>3. FreshInv
  BY StreamAssumption DEF Init, FreshInv, NoBatch, NoQueues
<1>4. QueueInv /\ NameInv /\ RestInv /\ OwnQueue /\ MeetInv
  BY StreamAssumption
     DEF Init, QueueInv, Feeding, Registered, NameInv, RestInv, OwnQueue, MeetInv,
         NoBatch, NoQueues
<1> QED
  BY <1>1, <1>2, <1>3, <1>4 DEF BlockInv, HoldInv

\* BlockInv is inductive.
LEMMA BlockStep == BlockInv /\ [AnyStep]_vars => BlockInv'
<1> SUFFICES ASSUME BlockInv, [AnyStep]_vars PROVE BlockInv'
  OBVIOUS
<1> USE DEF BlockInv
<1>1. MaskInv'
  BY MaskStep
<1>2. TypeInv /\ LifeInv /\ SinkInv /\ CycleInv
  BY DEF MaskInv, LifeInv, CardInv
<1>3. CASE UNCHANGED vars
  <2>1. ExclusiveInv' /\ StopInv'
    BY <1>3 DEF vars, deviceSide, cardVars, pumpVars, streamSide, threadVars, historyVars,
       ExclusiveInv, Alone, StopInv, PumpAlive, Users
  <2>2. HoldInv'
    BY <1>3 DEF vars, deviceSide, cardVars, pumpVars, streamSide, threadVars, historyVars,
       HoldInv, FreshInv, QueueInv, NameInv, RestInv, OwnQueue, MeetInv, Peers, Alone
  <2>3. NothingLost'
    BY <1>3 DEF vars, deviceSide, cardVars, pumpVars, streamSide, threadVars, historyVars,
       NothingLost, InFlight, Alone
  <2>4. ZeroInv' /\ SnapInv' /\ GapInv'
    BY <1>3 DEF vars, deviceSide, cardVars, pumpVars, streamSide, threadVars, historyVars,
       ZeroInv, SnapInv, GapInv
  <2> QED
    BY <1>1, <2>1, <2>2, <2>3, <2>4
<1>4. ASSUME NEW w \in Stream, StepOf(w) PROVE BlockInv'
  <2>2. /\ \A c \in Stream : PumpAlive(c) => pump'[c] = pump[c]
        /\ \A c \in Stream : PumpAlive(c)' /\ ~PumpAlive(c) => pump'[c] = "top"
    BY <1>2, <1>4, MaskSteps
  <2>3. ExclusiveInv' /\ HoldInv' /\ StopInv' /\ NothingLost'
    BY <1>2, <1>4, <2>2, ExclusiveStep, HoldStep, StopStep, LostStep
  <2>4. ZeroInv' /\ SnapInv' /\ GapInv'
    BY <1>2, <1>4, <2>2, GapStep
  <2> QED
    BY <1>1, <2>3, <2>4
<1>5. ASSUME NEW c \in Stream, PumpStep(c) PROVE BlockInv'
  <2>1. ExclusiveInv'
    BY <1>5, PumpSteps DEF streamSide, ExclusiveInv, Alone
  <2>2. HoldInv' /\ StopInv' /\ NothingLost' /\ ZeroInv' /\ SnapInv' /\ GapInv'
    BY <1>2, <1>5, HoldPumpStep, StopPumpStep, LostPumpStep, GapPumpStep
  <2> QED
    BY <1>1, <2>1, <2>2
<1> QED
  BY <1>3, <1>4, <1>5 DEF AnyStep

LEMMA BlockInvariant == Spec => []BlockInv
  BY BlockInit, BlockStep, NextIsAnyStep, PTL DEF Spec

\* However the other slot joins, fails to join or leaves, each time stopping
\* the pump and starting another: every block that a registered stream, alone on
\* its slot, has queued is on the air, in its queue or in the pump's hands,
\* until a pump fails.
THEOREM NothingLostHolds == Spec => []NothingLost
  BY BlockInvariant, PTL DEF BlockInv

\* A stream whose port carried silence between two of its blocks, while the
\* slot's queue was its own, finds an underflow counted for its slot: it never
\* reports itself gapless.
THEOREM GaplessIsHonestHolds == Spec => []GaplessIsHonest
<1>1. BlockInv => GaplessIsHonest
  BY DEF BlockInv, GapInv, GaplessIsHonest
<1> QED
  BY <1>1, BlockInvariant, PTL

-----------------------------------------------------------------------------
(* The web side.  The handlers of TxService drive DualTx: all their steps    *)
(* are steps of DualTx or leave the card alone, so what was proved of the    *)
(* card for AnyStep holds under them too, orphaned threads included.         *)

LEMMA ServiceDrivesCard == [ServiceNext]_allVars => [AnyStep]_vars
<1> SUFFICES ASSUME [ServiceNext]_allVars PROVE [AnyStep]_vars
  OBVIOUS
<1>1. CASE UNCHANGED allVars \/ AllServed \/ CalibrationBegins \/ CalibrationEnds
  BY <1>1 DEF AllServed, CalibrationBegins, CalibrationEnds, allVars
<1>2. ASSUME NEW w \in Stream,
             \/ TakeSlot(w) \/ RequestInvalid(w) \/ ClientVanishes(w)
             \/ StopRequested(w) \/ GeneratorLeaves(w) \/ GeneratorEnds(w)
      PROVE  UNCHANGED vars
  BY <1>2 DEF TakeSlot, RequestInvalid, ClientVanishes, StopRequested, GeneratorLeaves,
     GeneratorEnds
<1>3. ASSUME NEW w \in Stream, RunGenerator(w) \/ ThreadStep(w) PROVE StepOf(w)
  BY <1>3 DEF RunGenerator, ThreadStep, StepOf
<1> QED
  BY <1>1, <1>2, <1>3 DEF ServiceNext, HandlerStep, AnyStep

\* No order of requests, stops, disconnects and slow threads closes the device
\* under a stream that is registered on it, also when an orphaned thread and
\* its successor share a slot.
THEOREM ServiceKeepsCardOpen == ServiceSpec => []UsersKeepCardOpen
<1>1. ServiceInit => CardInv
  BY CardInit DEF ServiceInit
<1>2. CardInv /\ [ServiceNext]_allVars => CardInv'
  BY CardStep, ServiceDrivesCard
<1>3. CardInv => UsersKeepCardOpen
  BY CardOpenForUsers
<1> QED
  BY <1>1, <1>2, <1>3, PTL DEF ServiceSpec

WebTypeOK ==
    /\ slots \in [Slots -> Stream \cup {Free, Calibration}]
    /\ handler \in [Stream -> {"idle", "holding", "running", "joining", "abandoned", "gone"}]
    /\ halted \in [Stream -> BOOLEAN]

SlotInv == WebTypeOK /\ SlotIsOwn

LEMMA SlotInit == ServiceInit => SlotInv
  BY DEF ServiceInit, SlotInv, WebTypeOK, SlotIsOwn

\* A handler that frees its slot frees the entry that is its own.
LEMMA SlotStep == SlotInv /\ [ServiceNext]_allVars => SlotInv'
<1> SUFFICES ASSUME SlotInv, [ServiceNext]_allVars PROVE SlotInv'
  OBVIOUS
<1> USE StreamAssumption, ServiceAssumption DEF SlotInv, WebTypeOK, SlotIsOwn, Become, FreeSlot
<1>1. CASE UNCHANGED webVars
  BY <1>1 DEF webVars
<1>2. ASSUME NEW w \in Stream, TakeSlot(w) PROVE SlotInv'
  BY <1>2 DEF TakeSlot, MayTake
<1>3. ASSUME NEW w \in Stream, RequestInvalid(w) PROVE SlotInv'
  BY <1>3 DEF RequestInvalid
<1>4. ASSUME NEW w \in Stream, RunGenerator(w) \/ ClientVanishes(w) PROVE SlotInv'
  BY <1>4 DEF RunGenerator, ClientVanishes
<1>5. ASSUME NEW w \in Stream, StopRequested(w) PROVE SlotInv'
  BY <1>5 DEF StopRequested
<1>6. ASSUME NEW w \in Stream, GeneratorLeaves(w) PROVE SlotInv'
  BY <1>6 DEF GeneratorLeaves
<1>7. ASSUME NEW w \in Stream, GeneratorEnds(w) PROVE SlotInv'
  BY <1>7 DEF GeneratorEnds, GeneratorFrees
<1>8. CASE CalibrationBegins
  BY <1>8 DEF CalibrationBegins, AllFree
<1>9. CASE CalibrationEnds
  BY <1>9 DEF CalibrationEnds
<1> QED
  BY <1>1, <1>2, <1>3, <1>4, <1>5, <1>6, <1>7, <1>8, <1>9
     DEF ServiceNext, HandlerStep, ThreadStep, AllServed, allVars

\* The entry of a slot is the handler's own from the moment it takes the slot
\* until it frees it, for any number of requests per slot and calibrations.
THEOREM SlotIsOwnHolds == ServiceSpec => []SlotIsOwn
  BY SlotInit, SlotStep, PTL DEF ServiceSpec, SlotInv

\* Handlers and threads keep every variable of both layers in its type, also
\* while an orphaned thread shares the slot of its successor.
THEOREM ServiceTypes == ServiceSpec => []ServiceTypeOK
<1>1. ServiceInit => TypeInv /\ SlotInv
  BY TypeInit, SlotInit DEF ServiceInit
<1>2. TypeInv /\ SlotInv /\ [ServiceNext]_allVars => (TypeInv /\ SlotInv)'
  BY TypeStep, SlotStep, ServiceDrivesCard
<1>3. TypeInv /\ SlotInv => ServiceTypeOK
  BY DEF TypeInv, SlotInv, WebTypeOK, ServiceTypeOK
<1> QED
  BY <1>1, <1>2, <1>3, PTL DEF ServiceSpec
=============================================================================
