-------------------------- MODULE LiveSessionProofs -------------------------
(***************************************************************************)
(* Theorems about LiveSession: types, the order of the segments, their     *)
(* common gain and the operator's state they carry, for every number of    *)
(* workers, queue length and order of failures.                            *)
(***************************************************************************)
EXTENDS LiveSession, TLAPS

Alive == maker \in {"top", "fill", "await", "put", "putting"}
Held == IF first = None THEN 0 ELSE 1
InHand == IF maker \in {"put", "putting"} THEN 1 ELSE 0
\* The numbers of the segments the queue and the producer hand out next.
Taken == Len(sent) + Held
Released == Taken + Len(out)

-----------------------------------------------------------------------------
(* Where the two threads are, and what they hold there.                      *)

AttemptInv ==
    /\ taker \in {"new", "plan", "first"} => strikes < Strikes
    /\ taker = "new" => plan = 0
    /\ taker = "plan" => plan < MaxAttempts + strikes
    /\ taker = "first" => plan <= MaxAttempts + strikes

BeforeInv ==
    /\ taker \in {"new", "plan", "first"} <=> maker = "none" /\ taker \notin Ended
    /\ maker = "none" => out = <<>> /\ inflight = <<>> /\ sent = <<>>
    /\ taker \in {"first", "hold"} => /\ first \in Segment
                                      /\ first.k = 0 /\ first.plan = plan
    /\ taker = "hold" => sent = <<>>
    /\ taker \notin {"first", "hold"} \cup Ended => first = None

MakerInv ==
    /\ maker = "await" => inflight # <<>>
    /\ maker \in {"put", "putting"} => hand \in Segment
    /\ \A i \in DOMAIN out : out[i] = Error => i = Len(out) /\ maker = "dead"

PlaceInv == TypeOK /\ AttemptInv /\ BeforeInv /\ MakerInv

LEMMA PlaceInit == Init => PlaceInv
<1> SUFFICES ASSUME Init PROVE PlaceInv
  OBVIOUS
<1> USE SessionAssumption DEF Init, Ended
<1>1. SessionTypeOK
  <2>1. view \in Views /\ plan \in Plans
    BY DEF Views, Plans, Strikes
  <2>2. gain \in Gains
    BY DEF Gains
  <2>3. out \in Seq(Segment \cup {Error}) /\ sent \in Seq(Segment) /\ jogged \in Seq(Nat)
    OBVIOUS
  <2> QED
    BY <2>1, <2>2, <2>3 DEF SessionTypeOK
<1>2. ThreadTypeOK
  BY DEF ThreadTypeOK, Numbers, Strikes
<1>3. AttemptInv /\ BeforeInv /\ MakerInv
  BY DEF AttemptInv, BeforeInv, MakerInv, Strikes
<1> QED
  BY <1>1, <1>2, <1>3 DEF PlaceInv, TypeOK

LEMMA MadeSegment ==
    ASSUME NEW r \in Segment
    PROVE  /\ Made(r) \in Segment
           /\ Made(r).k = r.k /\ Made(r).plan = r.plan /\ Made(r).view = r.view
           /\ Made(r).gain = IF r.gain = None THEN <<r.plan, r.k>> ELSE r.gain
  BY DEF Made, Segment, Gains

LEMMA RequestSegment ==
    ASSUME TypeOK, NEW k \in Numbers
    PROVE  /\ Request(k) \in Segment
           /\ Request(k).k = k /\ Request(k).plan = plan /\ Request(k).gain = gain
  BY DEF Request, Segment, TypeOK, SessionTypeOK

\* No value stands for two things.
LEMMA Distinct ==
    /\ None \notin Segment /\ Error \notin Segment /\ None # Error
    /\ \A p \in Plans, k \in Numbers : <<p, k>> # None
  BY SessionAssumption

LEMMA Queues ==
    ASSUME NEW S, NEW q \in Seq(S), NEW e \in S
    PROVE  /\ Append(q, e) \in Seq(S)
           /\ Len(Append(q, e)) = Len(q) + 1
           /\ \A i \in DOMAIN Append(q, e) :
                  Append(q, e)[i] = IF i = Len(q) + 1 THEN e ELSE q[i]
           /\ DOMAIN Append(q, e) = 1..(Len(q) + 1)
  OBVIOUS

LEMMA Heads ==
    ASSUME NEW S, NEW q \in Seq(S), q # <<>>
    PROVE  /\ Head(q) = q[1] /\ q[1] \in S
           /\ Tail(q) \in Seq(S)
           /\ Len(Tail(q)) = Len(q) - 1 /\ Len(q) \in Nat \ {0}
           /\ DOMAIN Tail(q) = 1..(Len(q) - 1) /\ DOMAIN q = 1..Len(q)
           /\ \A i \in DOMAIN Tail(q) : Tail(q)[i] = q[i + 1]
  OBVIOUS

LEMMA TypeStep == PlaceInv /\ [Next]_vars => TypeOK'
<1> SUFFICES ASSUME PlaceInv, [Next]_vars PROVE TypeOK'
  OBVIOUS
<1> USE SessionAssumption DEF sessionVars, makerVars, takerVars, pastVars, MakerKeeps,
        MakerAt, End, StartMaker, Ended, PlaceInv, TypeOK, SessionTypeOK, ThreadTypeOK
<1>1. CASE Start
  BY <1>1 DEF Start, Numbers, Strikes
<1>2. CASE WarmFails \/ PlanStopped \/ HoldStopped
  BY <1>2 DEF WarmFails, PlanStopped, HoldStopped
<1>3. CASE Resume \/ Close
  BY <1>3 DEF Resume, Close
<1>4. CASE PlanStart
  <2>1. plan + 1 \in Plans
    BY <1>4 DEF PlanStart, AttemptInv, Plans, Strikes
  <2>2. first' \in Segment
    BY <1>4, <2>1 DEF PlanStart, FreshGain, Segment, Numbers, Gains
  <2>3. gain' \in Gains
    BY <1>4 DEF PlanStart, FreshGain, Gains
  <2> QED
    BY <1>4, <2>1, <2>2, <2>3 DEF PlanStart
<1>5. CASE FirstReady \/ FirstLate
  <2>1. Made(first) \in Segment /\ Made(first).gain \in Gains
    BY <1>5, MadeSegment DEF FirstReady, FirstLate, BeforeInv, Segment
  <2>2. CASE FirstReady
    BY <2>1, <2>2 DEF FirstReady, Numbers, Strikes
  <2>3. CASE FirstLate
    BY <2>1, <2>3 DEF FirstLate
  <2> QED
    BY <1>5, <2>2, <2>3
<1>6. CASE FirstFails
  <2>1. strikes' \in 0..Strikes
    BY <1>6 DEF FirstFails, AttemptInv, Strikes
  <2> QED
    BY <1>6, <2>1 DEF FirstFails
<1>7. CASE FirstRaises
  BY <1>7 DEF FirstRaises
<1>8. CASE ReleaseFirst
  BY <1>8 DEF ReleaseFirst, BeforeInv
<1>9. CASE LoopStops \/ LoopGets \/ GetEmpty
  BY <1>9 DEF LoopStops, LoopGets, GetEmpty
<1>10. CASE EmptyAlive \/ EmptyDead
  BY <1>10 DEF EmptyAlive, EmptyDead
<1>11. CASE GetSegment
  BY <1>11 DEF GetSegment
<1>12. CASE GetError
  <2>1. out' \in Seq(Segment \cup {Error})
    BY <1>12, Heads DEF GetError
  <2> QED
    BY <1>12, <2>1 DEF GetError
<1>13. CASE TopStops \/ TopGoes \/ SubmitRefused \/ Filled
  BY <1>13 DEF TopStops, TopGoes, SubmitRefused, Filled
<1>14. CASE Submit
  BY <1>14, RequestSegment DEF Submit, Snapshot, Numbers
<1>15. CASE ResultArrives \/ ResultFails \/ ResultRaises
  <2>1. Oldest \in Segment /\ Tail(inflight) \in Seq(Segment)
    BY <1>15, Heads DEF ResultArrives, ResultFails, ResultRaises, MakerInv, Oldest
  <2>2. Made(Oldest) \in Segment /\ Made(Oldest).gain \in Gains
    BY <2>1, MadeSegment DEF Segment
  <2>3. CASE ResultArrives
    BY <2>1, <2>2, <2>3 DEF ResultArrives, Strikes
  <2>4. CASE ResultFails
    <3>1. Oldest.k \in Numbers
      BY <2>1 DEF Segment
    <3>2. kSubmit' \in Numbers /\ inflight' \in Seq(Segment)
      <4>1. CASE MayRetry
        BY <2>4, <3>1, <4>1 DEF ResultFails, RedoFrom
      <4>2. CASE ~MayRetry
        BY <2>4, <4>2 DEF ResultFails
      <4> QED
        BY <4>1, <4>2
    <3>3. strikes' \in 0..Strikes
      BY <2>4 DEF ResultFails, MayRetry, Strikes
    <3> QED
      BY <2>4, <3>2, <3>3 DEF ResultFails
  <2>5. CASE ResultRaises
    BY <2>5 DEF ResultRaises
  <2> QED
    BY <1>15, <2>3, <2>4, <2>5
<1>16. CASE PutTries \/ PutTimesOut
  BY <1>16 DEF PutTries, PutTimesOut
<1>17. CASE PutSegment
  BY <1>17 DEF PutSegment, MakerInv
<1>18. CASE PutError
  BY <1>18 DEF PutError
<1>19. CASE Jog
  BY <1>19 DEF Jog, Views
<1>20. CASE Stop
  <2>1. running' \in BOOLEAN /\ stopped' \in BOOLEAN
    BY <1>20 DEF Stop
  <2>2. UNCHANGED <<mode, view, plan, gain, pool, out, makerVars, takerVars, sent, jogged>>
    BY <1>20 DEF Stop
  <2> QED
    BY <2>1, <2>2
<1>22. CASE Crash
  BY <1>22 DEF Crash
<1>21. CASE UNCHANGED vars
  BY <1>21 DEF vars
<1> QED
  BY <1>1, <1>2, <1>3, <1>4, <1>5, <1>6, <1>7, <1>8, <1>9, <1>10, <1>11, <1>12, <1>13,
     <1>14, <1>15, <1>16, <1>17, <1>18, <1>19, <1>20, <1>21, <1>22
     DEF Next, TakerStep, MakerStep, Over

LEMMA BeforeStep == PlaceInv /\ [Next]_vars => AttemptInv' /\ BeforeInv'
<1> SUFFICES ASSUME PlaceInv, [Next]_vars PROVE AttemptInv' /\ BeforeInv'
  OBVIOUS
<1> USE SessionAssumption DEF sessionVars, makerVars, takerVars, pastVars, MakerKeeps,
        MakerAt, End, StartMaker, Ended, PlaceInv, AttemptInv, BeforeInv
<1> plan \in Nat /\ strikes \in Nat
  BY DEF TypeOK, SessionTypeOK, ThreadTypeOK, Plans, Strikes
<1>1. CASE Start
  BY <1>1 DEF Start
<1>2. CASE WarmFails \/ PlanStopped \/ HoldStopped
  BY <1>2 DEF WarmFails, PlanStopped, HoldStopped
<1>3. CASE Resume \/ Close
  BY <1>3 DEF Resume, Close
<1>4. CASE PlanStart
  <2>1. plan' \in Plans /\ view \in Views
    BY TypeStep DEF TypeOK, SessionTypeOK
  <2>2. first' = [k |-> 0, plan |-> plan', view |-> view, gain |-> None]
    BY <1>4 DEF PlanStart, FreshGain
  <2>3. first' \in Segment /\ first'.k = 0 /\ first'.plan = plan'
    BY <2>1, <2>2 DEF Segment, Numbers, Gains
  <2> QED
    BY <1>4, <2>3 DEF PlanStart
<1>5. CASE FirstReady
  BY <1>5, MadeSegment DEF FirstReady
<1>6. CASE FirstLate
  BY <1>6 DEF FirstLate, MayReplan
<1>7. CASE FirstFails \/ FirstRaises
  BY <1>7 DEF FirstFails, FirstRaises
<1>8. CASE ReleaseFirst
  BY <1>8 DEF ReleaseFirst
<1>9. CASE LoopStops \/ LoopGets \/ GetEmpty \/ EmptyAlive \/ EmptyDead
  BY <1>9 DEF LoopStops, LoopGets, GetEmpty, EmptyAlive, EmptyDead
<1>10. CASE GetSegment \/ GetError
  BY <1>10 DEF GetSegment, GetError
<1>11. CASE MakerStep
  <2>1. maker # "none" /\ maker' # "none" /\ UNCHANGED <<plan, taker, first, sent>>
    BY <1>11 DEF MakerStep, TopStops, TopGoes, SubmitRefused, Filled, Submit, ResultArrives,
       ResultFails, ResultRaises, PutTries, PutTimesOut, PutSegment, PutError
  <2> QED
    BY <2>1
<1>12. CASE Stop \/ Jog \/ Crash
  BY <1>12 DEF Stop, Jog, Crash
<1>13. CASE UNCHANGED vars
  BY <1>13 DEF vars
<1> QED
  BY <1>1, <1>2, <1>3, <1>4, <1>5, <1>6, <1>7, <1>8, <1>9, <1>10, <1>11, <1>12, <1>13
     DEF Next, TakerStep, Over

LEMMA MakerInvStep == PlaceInv /\ [Next]_vars => MakerInv'
<1> SUFFICES ASSUME PlaceInv, [Next]_vars PROVE MakerInv'
  OBVIOUS
<1> USE SessionAssumption DEF sessionVars, makerVars, takerVars, pastVars, MakerKeeps,
        MakerAt, End, StartMaker, PlaceInv, MakerInv
<1> hand \in Segment \cup {None, Error} /\ out \in Seq(Segment \cup {Error})
    /\ inflight \in Seq(Segment)
  BY DEF TypeOK, SessionTypeOK, ThreadTypeOK
<1>1. CASE Start \/ FirstReady
  BY <1>1 DEF Start, FirstReady, BeforeInv
<1>2. CASE UNCHANGED <<maker, inflight, hand, out>>
  BY <1>2
<1>3. CASE GetSegment \/ GetError
  <2>1. UNCHANGED <<maker, inflight, hand>> /\ out # <<>> /\ out' = Tail(out)
    BY <1>3 DEF GetSegment, GetError
  <2> QED
    BY <2>1, Heads
<1>4. CASE TopStops \/ TopGoes \/ SubmitRefused \/ Filled
  BY <1>4 DEF TopStops, TopGoes, SubmitRefused, Filled
<1>5. CASE Submit
  <2>1. inflight' = Append(inflight, Request(kSubmit)) /\ Request(kSubmit) \in Segment
    BY <1>5, RequestSegment DEF Submit, Snapshot, TypeOK, ThreadTypeOK
  <2>2. Len(inflight') > 0
    BY <2>1, Queues
  <2>3. maker = "fill" /\ maker' \in {"await", "fill"} /\ UNCHANGED <<hand, out>>
    BY <1>5 DEF Submit
  <2> QED
    BY <2>2, <2>3
<1>6. CASE ResultArrives
  BY <1>6, MadeSegment, Heads DEF ResultArrives, Oldest
<1>7. CASE ResultFails \/ ResultRaises \/ PutTries \/ PutTimesOut
  BY <1>7 DEF ResultFails, ResultRaises, PutTries, PutTimesOut
<1>8. CASE PutSegment
  <2>1. hand \in Segment /\ maker = "putting" /\ maker' = "top" /\ out' = Append(out, hand)
    BY <1>8 DEF PutSegment
  <2> QED
    BY <2>1, Queues
<1>9. CASE PutError
  <2>1. maker = "raise" /\ maker' = "dead" /\ out' = Append(out, Error)
    BY <1>9 DEF PutError
  <2> QED
    BY <2>1, Queues
<1> QED
  BY <1>1, <1>2, <1>3, <1>4, <1>5, <1>6, <1>7, <1>8, <1>9
     DEF Next, TakerStep, MakerStep, WarmFails, PlanStopped, HoldStopped, Resume,
         Close, PlanStart,
         FirstLate, FirstFails, FirstRaises, ReleaseFirst, LoopStops, LoopGets, GetEmpty,
         EmptyAlive, EmptyDead, Stop, Jog, Crash, Over, vars

LEMMA PlaceStep == PlaceInv /\ [Next]_vars => PlaceInv'
  BY TypeStep, BeforeStep, MakerInvStep DEF PlaceInv

\* Every state of a session is well typed; in particular the attempts of a
\* Start Now and the failures in a row stay within their limits.
THEOREM SessionTypes == Spec => []TypeOK
<1>1. Init => PlaceInv
  BY PlaceInit
<1>2. PlaceInv /\ [Next]_vars => PlaceInv'
  BY PlaceStep
<1>3. PlaceInv => TypeOK
  BY DEF PlaceInv
<1> QED
  BY <1>1, <1>2, <1>3, PTL DEF Spec

-----------------------------------------------------------------------------
(* The line of segments: handed over, held, queued, in hand, requested.      *)

SentInv == TimeAdvances
QueueInv ==
    \A i \in DOMAIN out : out[i] # Error =>
        out[i].k = Taken + i - 1 /\ out[i].plan = plan
HandInv ==
    maker \in {"put", "putting"} => hand.k = Released /\ hand.plan = plan
RequestInv == Alive =>
    /\ \A i \in DOMAIN inflight :
           inflight[i].k = Released + InHand + i - 1 /\ inflight[i].plan = plan
    /\ kSubmit = Released + InHand + Len(inflight)

LineInv == SentInv /\ QueueInv /\ HandInv /\ RequestInv

LEMMA LineInit == Init => LineInv
  BY DEF Init, LineInv, SentInv, TimeAdvances, QueueInv, HandInv, RequestInv, Alive

\* A step that moves nothing along the line.
LineStays == UNCHANGED <<plan, sent, first, out, kSubmit, inflight, hand, maker>>

LEMMA LineStep == PlaceInv /\ LineInv /\ [Next]_vars => LineInv'
<1> SUFFICES ASSUME PlaceInv, LineInv, [Next]_vars PROVE LineInv'
  OBVIOUS
<1> PlaceInv' /\ Error \notin Segment /\ None \notin Segment
  BY PlaceStep, Distinct
<1> USE DEF sessionVars, makerVars, takerVars, pastVars, MakerKeeps, MakerAt, End,
        StartMaker, LineInv, SentInv, TimeAdvances, QueueInv, HandInv, RequestInv, Alive
<1> TypeOK
  BY DEF PlaceInv
<1> out \in Seq(Segment \cup {Error}) /\ inflight \in Seq(Segment) /\ sent \in Seq(Segment)
  BY DEF TypeOK, SessionTypeOK, ThreadTypeOK
<1> Len(out) \in Nat /\ Len(sent) \in Nat /\ Len(inflight) \in Nat
  OBVIOUS
<1> plan \in Nat /\ kSubmit \in Nat
  <2>1. plan \in Plans /\ kSubmit \in Numbers
    BY DEF TypeOK, SessionTypeOK, ThreadTypeOK
  <2> QED
    BY <2>1, SessionAssumption DEF Plans, Numbers, Strikes
<1> Held \in Nat /\ InHand \in Nat /\ Taken \in Nat /\ Released \in Nat
  BY DEF Held, InHand, Taken, Released
<1>1. CASE Start
  BY <1>1 DEF Start, PlaceInv, BeforeInv, Taken, Released, Held, InHand
<1>2. CASE PlanStart \/ FirstLate \/ FirstFails \/ FirstRaises
  <2>1. /\ maker = "none" /\ sent = <<>> /\ out = <<>>
        /\ UNCHANGED <<maker, sent, out, hand>>
    BY <1>2 DEF PlanStart, FirstLate, FirstFails, FirstRaises, PlaceInv, BeforeInv, Ended
  <2> QED
    BY <2>1
<1>3. CASE FirstReady
  <2>1. /\ sent = <<>> /\ out = <<>> /\ inflight = <<>> /\ maker' = "top" /\ kSubmit' = 1
        /\ UNCHANGED <<sent, out, inflight>>
    BY <1>3 DEF FirstReady, PlaceInv, BeforeInv
  <2>2. first' # None
    BY <1>3, MadeSegment DEF FirstReady, PlaceInv, BeforeInv
  <2>3. Released' = 1 /\ InHand' = 0
    BY <2>1, <2>2 DEF Taken, Released, Held, InHand
  <2> QED
    BY <2>1, <2>3
<1>4. CASE ReleaseFirst
  <2>1. sent = <<>> /\ first \in Segment /\ first.k = 0 /\ first.plan = plan /\ sent' = <<first>>
    BY <1>4 DEF ReleaseFirst, PlaceInv, BeforeInv
  <2>2. first' = None /\ UNCHANGED <<plan, out, maker, hand, inflight, kSubmit>>
    BY <1>4 DEF ReleaseFirst
  <2>3. Len(sent') = 1 /\ sent'[1] = first /\ DOMAIN sent' = {1}
    BY <2>1
  <2>4. Taken' = Taken /\ Released' = Released /\ InHand' = InHand
    BY <2>1, <2>2, <2>3 DEF Taken, Released, Held, InHand
  <2> QED
    BY <2>1, <2>2, <2>3, <2>4
<1>5. CASE GetSegment
  <2>1. out # <<>> /\ out[1] # Error /\ out' = Tail(out) /\ sent' = Append(sent, out[1])
    BY <1>5, Heads DEF GetSegment
  <2>2. first = None /\ UNCHANGED <<first, plan, maker, hand, inflight, kSubmit>>
    BY <1>5 DEF GetSegment, PlaceInv, BeforeInv, Ended
  <2>3. out[1] \in Segment /\ out[1].k = Len(sent) /\ out[1].plan = plan
    BY <2>1, <2>2, Heads DEF Taken, Held
  <2>4. SentInv'
    <3>1. DOMAIN sent' = 1..(Len(sent) + 1) /\ DOMAIN sent = 1..Len(sent)
      BY <2>1, <2>3, Queues
    <3>2. \A i \in DOMAIN sent' : sent'[i] = IF i = Len(sent) + 1 THEN out[1] ELSE sent[i]
      BY <2>1, <2>3, Queues
    <3>3. ASSUME NEW i \in DOMAIN sent'
          PROVE  sent'[i].k = i - 1 /\ sent'[i].plan = plan
      <4>1. CASE i = Len(sent) + 1
        <5>1. sent'[i] = out[1]
          BY <3>2, <4>1
        <5> QED
          BY <2>3, <4>1, <5>1, Queues
      <4>2. CASE i # Len(sent) + 1
        <5>1. i \in DOMAIN sent /\ sent'[i] = sent[i]
          BY <3>1, <3>2, <4>2, Queues
        <5> QED
          BY <5>1
      <4> QED
        BY <4>1, <4>2
    <3> QED
      BY <2>2, <3>3
  <2>5. Len(sent') = Len(sent) + 1 /\ Len(out') = Len(out) - 1
    BY <2>1, <2>3, Heads, Queues
  <2>6. Taken' = Taken + 1 /\ Released' = Released /\ InHand' = InHand
    BY <2>2, <2>5 DEF Taken, Released, Held, InHand
  <2>7. QueueInv'
    <3> SUFFICES ASSUME NEW i \in DOMAIN out', out'[i] # Error
                 PROVE  out'[i].k = Taken' + i - 1 /\ out'[i].plan = plan'
      OBVIOUS
    <3>1. i + 1 \in DOMAIN out /\ out'[i] = out[i + 1] /\ i \in Nat
      BY <2>1, Heads
    <3> QED
      BY <3>1, <2>2, <2>6
  <2>8. HandInv' /\ RequestInv'
    BY <2>2, <2>6
  <2> QED
    BY <2>4, <2>7, <2>8
<1>6. CASE GetError
  <2>1. out # <<>> /\ out[1] = Error /\ out' = Tail(out)
    BY <1>6, Heads DEF GetError
  <2>2. 1 \in DOMAIN out
    BY <2>1, Heads
  <2>3. Len(out) = 1 /\ maker = "dead"
    BY <2>1, <2>2 DEF PlaceInv, MakerInv
  <2>4. DOMAIN out' = {}
    BY <2>1, <2>3, Heads
  <2> QED
    BY <1>6, <2>3, <2>4 DEF GetError
<1>7. CASE LineStays
  <2>1. Taken' = Taken /\ Released' = Released /\ InHand' = InHand
    BY <1>7 DEF LineStays, Taken, Released, Held, InHand
  <2> QED
    BY <1>7, <2>1 DEF LineStays
<1>8. CASE TopStops \/ TopGoes \/ SubmitRefused \/ Filled \/ PutTries \/ PutTimesOut \/ ResultRaises
  <2>1. /\ UNCHANGED <<plan, sent, first, out, kSubmit, inflight>>
        /\ Alive' => Alive /\ InHand' = InHand /\ UNCHANGED hand
    BY <1>8 DEF TopStops, TopGoes, SubmitRefused, Filled, PutTries, PutTimesOut, ResultRaises,
       InHand
  <2>2. Taken' = Taken /\ Released' = Released
    BY <2>1 DEF Taken, Released, Held
  <2>3. maker' \in {"put", "putting"} => maker \in {"put", "putting"}
    BY <1>8 DEF TopStops, TopGoes, SubmitRefused, Filled, PutTries, PutTimesOut, ResultRaises
  <2> QED
    BY <2>1, <2>2, <2>3
<1>9. CASE Submit
  <2>1. /\ inflight' = Append(inflight, Request(kSubmit)) /\ kSubmit' = kSubmit + 1
        /\ maker = "fill" /\ maker' \in {"await", "fill"}
        /\ UNCHANGED <<sent, first, out, plan, hand>>
    BY <1>9 DEF Submit, Snapshot
  <2>2. Request(kSubmit) \in Segment /\ Request(kSubmit).k = kSubmit /\ Request(kSubmit).plan = plan
    BY RequestSegment DEF PlaceInv, TypeOK, ThreadTypeOK
  <2>3. Taken' = Taken /\ Released' = Released /\ InHand' = 0 /\ InHand = 0
    BY <2>1 DEF Taken, Released, Held, InHand
  <2>4. RequestInv'
    <3>1. /\ Len(inflight') = Len(inflight) + 1
          /\ DOMAIN inflight' = 1..(Len(inflight) + 1) /\ DOMAIN inflight = 1..Len(inflight)
      BY <2>1, <2>2, Queues
    <3>2. \A i \in DOMAIN inflight' :
              inflight'[i] = IF i = Len(inflight) + 1 THEN Request(kSubmit) ELSE inflight[i]
      BY <2>1, <2>2, Queues
    <3>3. \A i \in DOMAIN inflight :
              inflight[i].k = Released + InHand + i - 1 /\ inflight[i].plan = plan
      BY <2>1
    <3>4. kSubmit = Released + InHand + Len(inflight)
      BY <2>1
    <3>5. ASSUME NEW i \in DOMAIN inflight'
          PROVE  inflight'[i].k = Released + InHand + i - 1 /\ inflight'[i].plan = plan
      <4>1. CASE i = Len(inflight) + 1
        <5>1. inflight'[i] = Request(kSubmit)
          BY <3>2, <4>1
        <5> QED
          BY <2>2, <3>4, <4>1, <5>1, Queues
      <4>2. CASE i # Len(inflight) + 1
        <5>1. i \in DOMAIN inflight /\ inflight'[i] = inflight[i]
          BY <3>1, <3>2, <4>2, Queues
        <5> QED
          BY <3>3, <5>1
      <4> QED
        BY <4>1, <4>2
    <3>6. Released \in Int /\ Len(inflight) \in Nat /\ kSubmit \in Int
      BY Queues DEF Released, Held, PlaceInv, TypeOK, ThreadTypeOK, Numbers
    <3> QED
      BY <2>1, <2>3, <3>1, <3>4, <3>5, <3>6
  <2> QED
    BY <2>1, <2>3, <2>4
<1>10. CASE ResultArrives
  <2>1. /\ inflight # <<>> /\ hand' = Made(inflight[1]) /\ inflight' = Tail(inflight)
        /\ maker = "await" /\ maker' = "put" /\ UNCHANGED <<sent, first, out, plan, kSubmit>>
    BY <1>10 DEF ResultArrives, Oldest, PlaceInv, MakerInv
  <2>2. Taken' = Taken /\ Released' = Released /\ InHand' = 1 /\ InHand = 0
    BY <2>1 DEF Taken, Released, Held, InHand
  <2>3. inflight[1] \in Segment /\ inflight[1].k = Released /\ inflight[1].plan = plan
    BY <2>1, <2>2, Heads
  <2>4. HandInv'
    BY <2>1, <2>2, <2>3, MadeSegment
  <2>5. RequestInv'
    <3>1. Len(inflight') = Len(inflight) - 1
      BY <2>1, Heads
    <3>2. ASSUME NEW i \in DOMAIN inflight'
          PROVE  inflight'[i].k = Released' + InHand' + i - 1 /\ inflight'[i].plan = plan'
      <4>1. DOMAIN Tail(inflight) = 1..(Len(inflight) - 1) /\ DOMAIN inflight = 1..Len(inflight)
            /\ inflight' = Tail(inflight)
        BY <2>1, Heads
      <4>2. i \in DOMAIN Tail(inflight) /\ i \in Nat /\ i + 1 \in DOMAIN inflight
        BY <3>2, <4>1
      <4>3. inflight'[i] = inflight[i + 1]
        BY <2>1, <4>2, Heads
      <4> QED
        BY <4>2, <4>3, <2>1, <2>2
    <3> QED
      BY <2>1, <2>2, <3>1, <3>2
  <2> QED
    BY <2>1, <2>2, <2>4, <2>5
<1>11. CASE ResultFails
  <2>1. inflight # <<>> /\ maker = "await" /\ UNCHANGED <<sent, first, out, plan>>
    BY <1>11 DEF ResultFails, PlaceInv, MakerInv
  <2>2. Taken' = Taken /\ Released' = Released /\ InHand = 0
    BY <2>1 DEF Taken, Released, Held, InHand
  <2>3. inflight[1].k = Released
    BY <2>1, <2>2, Heads
  <2>4. CASE MayRetry
    <3>1. maker' = "top" /\ inflight' = <<>> /\ kSubmit' = Released /\ InHand' = 0
      BY <1>11, <2>3, <2>4 DEF ResultFails, RedoFrom, Oldest, InHand
    <3> QED
      BY <2>1, <2>2, <3>1
  <2>5. CASE ~MayRetry
    <3>1. maker' = "raise"
      BY <1>11, <2>5 DEF ResultFails
    <3> QED
      BY <2>1, <2>2, <3>1
  <2> QED
    BY <2>4, <2>5
<1>12. CASE PutSegment
  <2>1. /\ maker = "putting" /\ maker' = "top" /\ out' = Append(out, hand) /\ hand \in Segment
        /\ UNCHANGED <<sent, first, plan, inflight, kSubmit>>
    BY <1>12 DEF PutSegment, PlaceInv, MakerInv
  <2>2. Len(out') = Len(out) + 1
    BY <2>1, Queues
  <2>3. Taken' = Taken /\ InHand' = 0 /\ InHand = 1
    BY <2>1 DEF Taken, Held, InHand
  <2>6. Released' = Released + 1
    BY <2>2, <2>3 DEF Released
  <2>4. QueueInv'
    BY <2>1, <2>3, <2>6, Queues DEF Released
  <2>5. RequestInv'
    BY <2>1, <2>3, <2>6
  <2> QED
    BY <2>1, <2>3, <2>4, <2>5, <2>6
<1>13. CASE PutError
  <2>1. maker' = "dead" /\ out' = Append(out, Error) /\ UNCHANGED <<sent, first, plan>>
    BY <1>13 DEF PutError
  <2>2. Taken' = Taken
    BY <2>1 DEF Taken, Held
  <2> QED
    BY <2>1, <2>2, Queues
<1> QED
  BY <1>1, <1>2, <1>3, <1>4, <1>5, <1>6, <1>7, <1>8, <1>9, <1>10, <1>11, <1>12, <1>13
     DEF Next, TakerStep, MakerStep, WarmFails, PlanStopped, HoldStopped, Resume,
         Close, LoopStops,
         LoopGets, GetEmpty, EmptyAlive, EmptyDead, Stop, Jog, Crash, Over, vars, LineStays

\* The time on air advances strictly for every number of workers, length of the
\* queue and order of failures, stops and crashes.
THEOREM TimeAdvancesHolds == Spec => []TimeAdvances
<1>1. Init => PlaceInv /\ LineInv
  BY PlaceInit, LineInit
<1>2. PlaceInv /\ LineInv /\ [Next]_vars => (PlaceInv /\ LineInv)'
  BY PlaceStep, LineStep
<1>3. LineInv => TimeAdvances
  BY DEF LineInv, SentInv
<1> QED
  BY <1>1, <1>2, <1>3, PTL DEF Spec

-----------------------------------------------------------------------------
(* The gain: who carries it, and that nobody runs ahead while it is unknown. *)

Level == <<plan, 0>>

CarriedInv ==
    /\ \A i \in DOMAIN sent : sent[i].gain = Level
    /\ \A i \in DOMAIN out : out[i] # Error => out[i].gain = Level
    /\ maker \in {"put", "putting"} => hand.gain = Level
    /\ taker = "hold" => first.gain = Level
    /\ taker = "first" => first.gain = None
KnownInv ==
    /\ taker = "new" => gain = None
    /\ maker # "none" => gain \in {None, Level}
    /\ Alive => \A i \in DOMAIN inflight : inflight[i].gain = gain
UnknownInv == Alive /\ gain = None =>
    /\ maker \in {"top", "fill"} => inflight = <<>> /\ kSubmit = 0
    /\ maker = "await" => Len(inflight) = 1 /\ inflight[1].k = 0
    /\ maker \notin {"put", "putting"}

LevelInv == CarriedInv /\ KnownInv /\ UnknownInv

LEMMA LevelInit == Init => LevelInv
  BY DEF Init, LevelInv, CarriedInv, KnownInv, UnknownInv, Alive

LevelStays == UNCHANGED <<plan, gain, sent, first, out, kSubmit, inflight, hand, maker>>

LEMMA LevelStep == PlaceInv /\ LineInv /\ LevelInv /\ [Next]_vars => LevelInv'
<1> SUFFICES ASSUME PlaceInv, LineInv, LevelInv, [Next]_vars PROVE LevelInv'
  OBVIOUS
<1> PlaceInv' /\ Error \notin Segment /\ None \notin Segment /\ Level # None
  <2>1. Level # None
    BY SessionAssumption DEF Level, PlaceInv, TypeOK, SessionTypeOK, Numbers
  <2> QED
    BY <2>1, PlaceStep, Distinct
<1> USE DEF sessionVars, makerVars, takerVars, pastVars, MakerKeeps, MakerAt, End,
        StartMaker, LevelInv, CarriedInv, KnownInv, UnknownInv, Alive
<1> /\ out \in Seq(Segment \cup {Error}) /\ inflight \in Seq(Segment)
    /\ sent \in Seq(Segment) /\ Len(inflight) \in Nat
  BY DEF PlaceInv, TypeOK, SessionTypeOK, ThreadTypeOK
<1>1. CASE Start
  BY <1>1 DEF Start, PlaceInv, BeforeInv, Level
<1>2. CASE PlanStart \/ FirstLate \/ FirstFails \/ FirstRaises
  <2>1. /\ maker = "none" /\ sent = <<>> /\ out = <<>>
        /\ UNCHANGED <<maker, sent, out, hand>> /\ taker' \notin {"new", "hold"}
    BY <1>2 DEF PlanStart, FirstLate, FirstFails, FirstRaises, PlaceInv, BeforeInv, Ended
  <2>2. taker' = "first" => first'.gain = None
    BY <1>2 DEF PlanStart, FirstLate, FirstFails, FirstRaises, FreshGain
  <2> QED
    BY <2>1, <2>2
<1>3. CASE FirstReady
  <2>1. /\ sent = <<>> /\ out = <<>> /\ inflight = <<>> /\ maker' = "top" /\ taker' = "hold"
        /\ UNCHANGED <<sent, out, inflight, plan>>
    BY <1>3 DEF FirstReady, PlaceInv, BeforeInv
  <2>2. Made(first).gain = Level
    BY <1>3, MadeSegment DEF FirstReady, PlaceInv, BeforeInv, Level
  <2>3. first' = Made(first) /\ gain' = Made(first).gain
    BY <1>3 DEF FirstReady
  <2> QED
    BY <2>1, <2>2, <2>3 DEF Level
<1>4. CASE ReleaseFirst
  <2>1. /\ sent = <<>> /\ first.gain = Level /\ sent' = <<first>> /\ taker' = "yielded"
        /\ UNCHANGED <<plan, gain, out, maker, hand, inflight, kSubmit>>
    BY <1>4 DEF ReleaseFirst, PlaceInv, BeforeInv
  <2> QED
    BY <2>1 DEF Level
<1>5. CASE GetSegment
  <2>1. out # <<>> /\ out[1] # Error /\ out' = Tail(out) /\ sent' = Append(sent, out[1])
    BY <1>5, Heads DEF GetSegment
  <2>2. taker' = "yielded" /\ UNCHANGED <<plan, gain, maker, hand, inflight, kSubmit>>
    BY <1>5 DEF GetSegment
  <2>3. out[1] \in Segment /\ out[1].gain = Level
    BY <2>1, Heads
  <2>4. \A i \in DOMAIN sent' : sent'[i].gain = Level
    BY <2>1, <2>3, Queues
  <2>5. \A i \in DOMAIN out' : out'[i] # Error => out'[i].gain = Level
    BY <2>1, Heads
  <2> QED
    BY <2>2, <2>4, <2>5 DEF Level
<1>6. CASE GetError
  <2>1. /\ out # <<>> /\ out' = Tail(out) /\ taker' = "raised"
        /\ UNCHANGED <<plan, gain, sent, maker, hand, inflight, kSubmit>>
    BY <1>6 DEF GetError
  <2>2. \A i \in DOMAIN out' : out'[i] # Error => out'[i].gain = Level
    BY <2>1, Heads
  <2> QED
    BY <2>1, <2>2 DEF Level
<1>7. CASE LevelStays
  <2>1. taker' \in {"hold", "first", "new"} => taker' = taker
    BY <1>7 DEF LevelStays, Next, TakerStep, MakerStep, WarmFails, PlanStopped,
       HoldStopped, Resume, Close,
       LoopStops, LoopGets, GetEmpty, EmptyAlive, EmptyDead, Stop, Jog, Crash, Over, vars,
       Start, PlanStart, FirstReady, FirstLate, FirstFails, FirstRaises, ReleaseFirst,
       GetSegment, GetError, TopStops, TopGoes, Submit, SubmitRefused, Filled, ResultArrives,
       ResultFails, ResultRaises, PutTries, PutSegment, PutTimesOut, PutError, PlaceInv,
       AttemptInv, TypeOK, SessionTypeOK, Plans
  <2> QED
    BY <1>7, <2>1 DEF LevelStays, Level
<1>8. CASE TopStops \/ TopGoes \/ SubmitRefused \/ PutTries \/ PutTimesOut \/ ResultRaises
  <2>1. UNCHANGED <<plan, gain, sent, first, taker, out, kSubmit, inflight>>
    BY <1>8 DEF TopStops, TopGoes, SubmitRefused, PutTries, PutTimesOut, ResultRaises
  <2>2. \/ maker' \notin {"none", "top", "fill", "await", "put", "putting"}
        \/ maker = "top" /\ maker' = "fill"
        \/ maker \in {"put", "putting"} /\ maker' \in {"put", "putting"} /\ hand' = hand
    BY <1>8 DEF TopStops, TopGoes, SubmitRefused, PutTries, PutTimesOut, ResultRaises
  <2>3. maker # "none"
    BY <1>8 DEF TopStops, TopGoes, SubmitRefused, PutTries, PutTimesOut, ResultRaises
  <2> QED
    BY <2>1, <2>2, <2>3 DEF Level
<1>9. CASE Filled
  <2>1. /\ maker = "fill" /\ maker' = IF inflight = <<>> THEN "dead" ELSE "await"
        /\ UNCHANGED <<plan, gain, sent, first, taker, out, kSubmit, inflight>>
    BY <1>9 DEF Filled
  <2> QED
    BY <2>1 DEF Level
<1>10. CASE Submit
  <2>1. /\ inflight' = Append(inflight, Request(kSubmit)) /\ maker = "fill"
        /\ maker' \in {"await", "fill"} /\ (kSubmit = 0 => maker' = "await")
        /\ UNCHANGED <<plan, gain, sent, first, taker, out, hand>>
    BY <1>10 DEF Submit, Snapshot, GoesAlone
  <2>2. /\ Request(kSubmit) \in Segment /\ Request(kSubmit).k = kSubmit
        /\ Request(kSubmit).gain = gain
    BY RequestSegment DEF PlaceInv, TypeOK, ThreadTypeOK
  <2>3. \A i \in DOMAIN inflight' : inflight'[i].gain = gain'
    BY <2>1, <2>2, Queues
  <2>4. gain = None => Len(inflight') = 1 /\ inflight'[1].k = 0 /\ maker' = "await"
    <3> SUFFICES ASSUME gain = None PROVE Len(inflight') = 1 /\ inflight'[1].k = 0 /\ maker' = "await"
      OBVIOUS
    <3>1. inflight = <<>> /\ kSubmit = 0
      BY <2>1
    <3> QED
      BY <2>1, <2>2, <3>1
  <2> QED
    BY <2>1, <2>3, <2>4 DEF Level
<1>11. CASE ResultArrives
  <2>1. /\ inflight # <<>> /\ hand' = Made(inflight[1]) /\ inflight' = Tail(inflight)
        /\ gain' = IF gain = None THEN Made(inflight[1]).gain ELSE gain
        /\ maker = "await" /\ maker' = "put" /\ UNCHANGED <<sent, first, taker, out, plan>>
    BY <1>11 DEF ResultArrives, Oldest, PlaceInv, MakerInv
  <2>2. /\ inflight[1] \in Segment /\ inflight[1].gain = gain /\ inflight[1].plan = plan
        /\ Len(inflight) \in Nat \ {0} /\ Len(Tail(inflight)) = Len(inflight) - 1
    BY <2>1, Heads DEF LineInv, RequestInv
  <2>3. Made(inflight[1]).gain = Level
    <3>1. CASE gain = None
      BY <2>1, <2>2, <3>1, MadeSegment DEF Level
    <3>2. CASE gain # None
      BY <2>1, <2>2, <3>2, MadeSegment
    <3> QED
      BY <3>1, <3>2
  <2>4. gain' = Level
    BY <2>1, <2>3
  <2>5. \A i \in DOMAIN inflight' : inflight'[i].gain = gain'
    <3>1. CASE gain = None
      <4>1. DOMAIN Tail(inflight) = 1..(Len(inflight) - 1) /\ Len(inflight) = 1
        BY <2>1, <3>1, Heads
      <4> QED
        BY <2>1, <4>1
    <3>2. CASE gain # None
      BY <2>1, <3>2, Heads
    <3> QED
      BY <3>1, <3>2
  <2>6. Level' = Level
    BY <2>1 DEF Level
  <2>7. CarriedInv'
    BY <2>1, <2>3, <2>6
  <2>8. KnownInv'
    <3>1. taker' # "new"
      BY <2>1 DEF PlaceInv, BeforeInv
    <3> QED
      BY <2>4, <2>5, <2>6, <3>1
  <2>9. UnknownInv'
    BY <2>4
  <2> QED
    BY <2>7, <2>8, <2>9
<1>12. CASE ResultFails
  <2>1. inflight # <<>> /\ maker = "await" /\ UNCHANGED <<sent, first, taker, out, plan, gain>>
    BY <1>12 DEF ResultFails, PlaceInv, MakerInv
  <2>2. CASE MayRetry
    <3>1. maker' = "top" /\ inflight' = <<>> /\ kSubmit' = inflight[1].k
      BY <1>12, <2>2 DEF ResultFails, RedoFrom, Oldest
    <3> QED
      BY <2>1, <3>1 DEF Level
  <2>3. CASE ~MayRetry
    <3>1. maker' = "raise"
      BY <1>12, <2>3 DEF ResultFails
    <3> QED
      BY <2>1, <3>1 DEF Level
  <2> QED
    BY <2>2, <2>3
<1>13. CASE PutSegment
  <2>1. /\ maker = "putting" /\ maker' = "top" /\ out' = Append(out, hand) /\ hand \in Segment
        /\ UNCHANGED <<sent, first, taker, plan, gain, inflight, kSubmit>>
    BY <1>13 DEF PutSegment, PlaceInv, MakerInv
  <2>2. gain # None
    BY <2>1
  <2>3. \A i \in DOMAIN out' : out'[i] # Error => out'[i].gain = Level
    BY <2>1, Queues
  <2> QED
    BY <2>1, <2>2, <2>3 DEF Level
<1>14. CASE PutError
  <2>1. /\ maker = "raise" /\ maker' = "dead" /\ out' = Append(out, Error)
        /\ UNCHANGED <<sent, first, taker, plan, gain>>
    BY <1>14 DEF PutError
  <2>2. \A i \in DOMAIN out' : out'[i] # Error => out'[i].gain = Level
    BY <2>1, Queues
  <2> QED
    BY <2>1, <2>2 DEF Level
<1> QED
  BY <1>1, <1>2, <1>3, <1>4, <1>5, <1>6, <1>7, <1>8, <1>9, <1>10, <1>11, <1>12, <1>13, <1>14
     DEF Next, TakerStep, MakerStep, WarmFails, PlanStopped, HoldStopped, Resume,
         Close, LoopStops,
         LoopGets, GetEmpty, EmptyAlive, EmptyDead, Stop, Jog, Crash, Over, vars, LevelStays

\* Every segment of a session carries the gain of the segment 0 that is played,
\* however many workers generate ahead and whatever was planned again before.
THEOREM OneLevelHolds == Spec => []OneLevel
<1>1. Init => PlaceInv /\ LineInv /\ LevelInv
  BY PlaceInit, LineInit, LevelInit
<1>2. PlaceInv /\ LineInv /\ LevelInv /\ [Next]_vars => (PlaceInv /\ LineInv /\ LevelInv)'
  BY PlaceStep, LineStep, LevelStep
<1>3. LineInv /\ LevelInv => OneLevel
  BY DEF LineInv, SentInv, TimeAdvances, LevelInv, CarriedInv, Level, OneLevel
<1> QED
  BY <1>1, <1>2, <1>3, PTL DEF Spec

-----------------------------------------------------------------------------
(* The operator: how many segments may still carry an older state.           *)

\* The queue, the pipeline and the held segment are within their limits, and
\* every change of the operator's state is recorded.
FillInv ==
    /\ Len(out) <= Prefetch
    /\ Len(inflight) + InHand <= mode.workers
    /\ taker \in {"plan", "first", "hold"} \/ first # None => mode.scheduled
    /\ first # None => first.k = 0
    /\ Len(jogged) = view

\* The segments that are or may come to be on the air.
OnLine ==
    {sent[i] : i \in DOMAIN sent} \cup ({first} \ {None})
    \cup ({out[i] : i \in DOMAIN out} \ {Error})
    \cup (IF InHand = 1 THEN {hand} ELSE {})
    \cup (IF Alive THEN {inflight[i] : i \in DOMAIN inflight} ELSE {})

ReachInv == \A x \in OnLine : x.k < Released + InHand + Len(inflight)

\* Along the line the operator's state never goes back, and a segment of an
\* older state than the v-th is within Ahead of those sent at the v-th change.
ViewInv ==
    /\ \A x \in OnLine :
         /\ x.view <= view
         /\ \A v \in 1 .. view : x.k >= jogged[v] + Ahead => x.view >= v
    /\ \A x, y \in OnLine : x.k < y.k => x.view <= y.view

JogInv == PlaceInv /\ LineInv /\ FillInv /\ ReachInv /\ ViewInv

\* The sequences and counters as the provers need them.
LineTypes ==
    /\ sent \in Seq(Segment) /\ inflight \in Seq(Segment)
    /\ out \in Seq(Segment \cup {Error}) /\ jogged \in Seq(Nat)
    /\ first \in Segment \cup {None} /\ hand \in Segment \cup {None, Error}
    /\ view \in Nat /\ kSubmit \in Nat
    /\ mode.workers \in Nat \ {0} /\ mode.scheduled \in BOOLEAN
    /\ Len(sent) \in Nat /\ Len(out) \in Nat /\ Len(inflight) \in Nat
    /\ Held \in {0, 1} /\ InHand \in {0, 1} /\ Taken \in Nat /\ Released \in Nat
    /\ maker \in {"put", "putting"} => hand \in Segment

LEMMA LineTyped == PlaceInv => LineTypes
<1> SUFFICES ASSUME PlaceInv PROVE LineTypes
  OBVIOUS
<1>1. /\ sent \in Seq(Segment) /\ inflight \in Seq(Segment)
      /\ out \in Seq(Segment \cup {Error}) /\ jogged \in Seq(Nat)
      /\ first \in Segment \cup {None} /\ hand \in Segment \cup {None, Error}
      /\ view \in Views /\ kSubmit \in Numbers /\ mode \in Modes
      /\ maker \in {"put", "putting"} => hand \in Segment
  BY DEF PlaceInv, MakerInv, TypeOK, SessionTypeOK, ThreadTypeOK
<1>2. mode.workers \in Nat \ {0} /\ mode.scheduled \in BOOLEAN
  BY <1>1, SessionAssumption
<1>3. view \in Nat /\ kSubmit \in Nat
  BY <1>1, SessionAssumption DEF Views, Numbers
<1>4. Len(sent) \in Nat /\ Len(out) \in Nat /\ Len(inflight) \in Nat
  BY <1>1
<1>5. Held \in {0, 1} /\ InHand \in {0, 1} /\ Taken \in Nat /\ Released \in Nat
  BY <1>4 DEF Held, InHand, Taken, Released
<1> QED
  BY <1>1, <1>2, <1>3, <1>4, <1>5 DEF LineTypes

LEMMA OnLineSegments == PlaceInv => OnLine \subseteq Segment
<1> SUFFICES ASSUME PlaceInv, NEW x \in OnLine PROVE x \in Segment
  OBVIOUS
<1>1. LineTypes
  BY LineTyped
<1> QED
  BY <1>1 DEF LineTypes, OnLine, InHand

LEMMA Reach == PlaceInv /\ LineInv /\ FillInv => ReachInv
<1> SUFFICES ASSUME PlaceInv, LineInv, FillInv, NEW x \in OnLine
             PROVE  x.k < Released + InHand + Len(inflight)
  BY DEF ReachInv
<1>1. LineTypes
  BY LineTyped
<1>2. CASE \E i \in DOMAIN sent : x = sent[i]
  BY <1>1, <1>2 DEF LineTypes, LineInv, SentInv, TimeAdvances, Taken, Released
<1>3. CASE x = first /\ first # None
  BY <1>1, <1>3 DEF LineTypes, FillInv, Held, Taken, Released
<1>4. CASE \E i \in DOMAIN out : x = out[i] /\ x # Error
  BY <1>1, <1>4 DEF LineTypes, LineInv, QueueInv, Released
<1>5. CASE x = hand /\ InHand = 1
  BY <1>1, <1>5 DEF LineTypes, LineInv, HandInv, InHand
<1>6. CASE Alive /\ \E i \in DOMAIN inflight : x = inflight[i]
  BY <1>1, <1>6 DEF LineTypes, LineInv, RequestInv
<1> QED
  BY <1>2, <1>3, <1>4, <1>5, <1>6 DEF OnLine

LEMMA FillInit == Init => FillInv /\ ViewInv
<1> SUFFICES ASSUME Init PROVE FillInv /\ ViewInv
  OBVIOUS
<1>1. FillInv
  BY SessionAssumption DEF Init, FillInv, InHand
<1>2. OnLine = {}
  BY DEF Init, OnLine, InHand, Alive
<1> QED
  BY <1>1, <1>2 DEF ViewInv

LEMMA FillStep == PlaceInv /\ FillInv /\ [Next]_vars => FillInv'
<1> SUFFICES ASSUME PlaceInv, FillInv, [Next]_vars PROVE FillInv'
  OBVIOUS
<1> Prefetch \in Nat \ {0} /\ LineTypes
  BY LineTyped, SessionAssumption
<1> USE DEF LineTypes, sessionVars, makerVars, takerVars, pastVars, MakerKeeps, MakerAt, End,
        StartMaker, FillInv, InHand
<1>1. CASE Start
  BY <1>1 DEF Start, PlaceInv, BeforeInv
<1>2. CASE PlanStart
  BY <1>2 DEF PlanStart
<1>3. CASE FirstReady
  <2>1. first \in Segment /\ first.k = 0 /\ inflight = <<>>
    BY <1>3 DEF FirstReady, PlaceInv, BeforeInv
  <2>2. Made(first).k = 0
    BY <2>1, MadeSegment
  <2>3. /\ first' = Made(first) /\ taker = "first" /\ taker' = "hold" /\ maker' = "top"
        /\ UNCHANGED <<mode, view, out, inflight, jogged>>
    BY <1>3 DEF FirstReady
  <2> QED
    BY <2>1, <2>2, <2>3
<1>4. CASE FirstLate \/ FirstFails \/ FirstRaises \/ ReleaseFirst
  BY <1>4 DEF FirstLate, FirstFails, FirstRaises, ReleaseFirst
<1>5. CASE GetSegment \/ GetError
  <2>1. out # <<>> /\ out' = Tail(out) /\ taker' \notin {"plan", "first", "hold"}
        /\ UNCHANGED <<mode, view, inflight, maker, first, jogged>>
    BY <1>5 DEF GetSegment, GetError
  <2> QED
    BY <2>1, Heads
<1>6. CASE TopStops \/ TopGoes \/ SubmitRefused \/ Filled
  BY <1>6 DEF TopStops, TopGoes, SubmitRefused, Filled
<1>7. CASE Submit
  <2>1. inflight' = Append(inflight, Request(kSubmit)) /\ Request(kSubmit) \in Segment
    BY <1>7, RequestSegment DEF Submit, Snapshot, PlaceInv, TypeOK, ThreadTypeOK
  <2>2. Len(inflight') = Len(inflight) + 1
    BY <2>1, Queues
  <2>3. Len(inflight) < mode.workers
    BY <1>7 DEF Submit, Wanted
  <2> QED
    BY <1>7, <2>2, <2>3 DEF Submit
<1>8. CASE ResultArrives
  <2>1. Len(inflight') = Len(inflight) - 1
    BY <1>8, Heads DEF ResultArrives, PlaceInv, MakerInv
  <2> QED
    BY <1>8, <2>1 DEF ResultArrives
<1>9. CASE ResultFails \/ ResultRaises \/ PutTries \/ PutTimesOut
  BY <1>9 DEF ResultFails, ResultRaises, PutTries, PutTimesOut
<1>10. CASE PutSegment
  <2>1. Len(out') = Len(out) + 1
    BY <1>10, Queues DEF PutSegment
  <2> QED
    BY <1>10, <2>1 DEF PutSegment, Full
<1>11. CASE PutError
  <2>1. Len(out') = Len(out) + 1
    BY <1>11, Queues DEF PutError
  <2> QED
    BY <1>11, <2>1 DEF PutError, Full
<1>12. CASE Jog
  BY <1>12 DEF Jog
<1>13. CASE WarmFails \/ PlanStopped \/ HoldStopped \/ Resume \/ Close \/ LoopStops \/ LoopGets
  BY <1>13 DEF WarmFails, PlanStopped, HoldStopped, Resume, Close, LoopStops, LoopGets
<1>14. CASE GetEmpty \/ EmptyAlive \/ EmptyDead \/ Stop \/ Crash \/ UNCHANGED vars
  BY <1>14 DEF GetEmpty, EmptyAlive, EmptyDead, Stop, Crash, vars
<1> QED
  BY <1>1, <1>2, <1>3, <1>4, <1>5, <1>6, <1>7, <1>8, <1>9, <1>10, <1>11, <1>12, <1>13, <1>14
     DEF Next, TakerStep, MakerStep, Over

\* What joins the line: nothing, or what was on it already with another gain,
\* or a new last segment with the operator's state of this moment.
Joins(x) ==
    \/ \E y \in OnLine : x.k = y.k /\ x.view = y.view
    \/ x.view = view /\ \A y \in OnLine' : y.k <= x.k

LEMMA Joining ==
    ASSUME JogInv, PlaceInv', ReachInv', Next, NEW x \in OnLine'
    PROVE  Joins(x)
<1> LineTypes /\ None \notin Segment /\ Error \notin Segment
  BY LineTyped, Distinct DEF JogInv
<1> OnLine' \subseteq Segment
  <2>1. (PlaceInv => OnLine \subseteq Segment)'
    BY OnLineSegments, PTL
  <2> QED
    BY <2>1
<1> USE DEF LineTypes, sessionVars, makerVars, takerVars, pastVars, MakerKeeps, MakerAt, End,
        StartMaker, InHand, Alive
<1>1. CASE OnLine' \subseteq OnLine
  BY <1>1 DEF Joins
<1>2. CASE Start \/ TopStops \/ TopGoes \/ SubmitRefused \/ Filled
  <2>1. OnLine' \subseteq OnLine
    BY <1>2 DEF Start, TopStops, TopGoes, SubmitRefused, Filled, JogInv, PlaceInv, BeforeInv, OnLine
  <2> QED
    BY <2>1, <1>1
<1>3. CASE PlanStart
  <2>1. sent = <<>> /\ out = <<>> /\ maker = "none"
    BY <1>3 DEF PlanStart, JogInv, PlaceInv, BeforeInv, Ended
  <2>2. OnLine' = {first'}
    BY <1>3, <2>1 DEF PlanStart, OnLine
  <2>3. first'.view = view /\ first'.k = 0
    BY <1>3 DEF PlanStart
  <2> QED
    BY <2>2, <2>3 DEF Joins
<1>4. CASE FirstReady
  <2>1. first \in Segment /\ inflight = <<>>
    BY <1>4 DEF FirstReady, JogInv, PlaceInv, BeforeInv
  <2>2. first' = Made(first) /\ first'.k = first.k /\ first'.view = first.view
    BY <1>4, <2>1, MadeSegment DEF FirstReady
  <2>3. first \in OnLine /\ OnLine' \subseteq OnLine \cup {first'}
    BY <1>4, <2>1 DEF FirstReady, OnLine
  <2> QED
    BY <2>2, <2>3 DEF Joins
<1>5. CASE FirstLate \/ FirstFails \/ FirstRaises
  <2>1. OnLine' \subseteq OnLine
    BY <1>5 DEF FirstLate, FirstFails, FirstRaises, OnLine
  <2> QED
    BY <2>1, <1>1
<1>6. CASE ReleaseFirst
  <2>1. first \in Segment /\ sent' = Append(sent, first)
    BY <1>6 DEF ReleaseFirst, JogInv, PlaceInv, BeforeInv
  <2>2. \A i \in DOMAIN sent' : sent'[i] \in OnLine
    BY <2>1, Queues DEF OnLine
  <2>3. OnLine' \subseteq OnLine
    BY <1>6, <2>2 DEF ReleaseFirst, OnLine
  <2> QED
    BY <2>3, <1>1
<1>7. CASE GetSegment
  <2>1. out # <<>> /\ out' = Tail(out) /\ out[1] # Error /\ sent' = Append(sent, out[1])
    BY <1>7, Heads DEF GetSegment
  <2>2. out[1] \in OnLine /\ out[1] \in Segment
    BY <2>1, Heads DEF OnLine
  <2>3. \A i \in DOMAIN sent' : sent'[i] \in OnLine
    BY <2>1, <2>2, Queues DEF OnLine
  <2>4. \A i \in DOMAIN out' : out'[i] \in OnLine \cup {Error}
    BY <2>1, Heads DEF OnLine
  <2>5. OnLine' \subseteq OnLine
    BY <1>7, <2>3, <2>4 DEF GetSegment, OnLine
  <2> QED
    BY <2>5, <1>1
<1>8. CASE GetError
  <2>1. \A i \in DOMAIN out' : out'[i] \in OnLine \cup {Error}
    BY <1>8, Heads DEF GetError, OnLine
  <2>2. OnLine' \subseteq OnLine
    BY <1>8, <2>1 DEF GetError, OnLine
  <2> QED
    BY <2>2, <1>1
<1>9. CASE Submit
  <2> DEFINE r == Request(kSubmit)
  <2>1. inflight' = Append(inflight, r) /\ r \in Segment /\ r.k = kSubmit /\ r.view = view
    BY <1>9, RequestSegment
       DEF Submit, Snapshot, JogInv, PlaceInv, TypeOK, ThreadTypeOK, Request
  <2>2. \A i \in DOMAIN inflight' : inflight'[i] \in OnLine \cup {r}
    BY <1>9, <2>1, Queues DEF Submit, OnLine
  <2> HIDE DEF r
  <2>3. /\ maker = "fill" /\ maker' \in {"fill", "await"}
        /\ UNCHANGED <<sent, first, out, hand>>
    BY <1>9 DEF Submit
  <2>7. OnLine' \subseteq OnLine \cup {r}
    BY <2>2, <2>3 DEF OnLine
  <2>4. Released' = Released /\ InHand = 0 /\ InHand' = 0 /\ Len(inflight') = Len(inflight) + 1
    BY <1>9, <2>1, Queues DEF Submit, Released, Taken, Held
  <2>5. kSubmit = Released + Len(inflight)
    BY <1>9, <2>4 DEF Submit, JogInv, LineInv, RequestInv
  <2>6. \A y \in OnLine' : y.k <= kSubmit
    <3> SUFFICES ASSUME NEW y \in OnLine' PROVE y.k <= kSubmit
      OBVIOUS
    <3>1. y.k < Released' + InHand' + Len(inflight')
      BY DEF ReachInv
    <3>2. y.k \in Nat
      BY SessionAssumption DEF Segment, Numbers
    <3> QED
      BY <2>4, <2>5, <3>1, <3>2
  <2> QED
    BY <2>1, <2>6, <2>7 DEF Joins
<1>10. CASE ResultArrives
  <2>1. inflight # <<>> /\ maker = "await" /\ hand' = Made(inflight[1]) /\ inflight' = Tail(inflight)
    BY <1>10 DEF ResultArrives, Oldest, JogInv, PlaceInv, MakerInv
  <2>2. inflight[1] \in OnLine /\ inflight[1] \in Segment
    BY <2>1, Heads DEF OnLine
  <2>3. hand'.k = inflight[1].k /\ hand'.view = inflight[1].view
    BY <2>1, <2>2, MadeSegment
  <2>4. \A i \in DOMAIN inflight' : inflight'[i] \in OnLine
    <3>1. \A i \in DOMAIN inflight' : inflight'[i] = inflight[i + 1] /\ i + 1 \in DOMAIN inflight
      BY <2>1, Heads
    <3>2. \A i \in DOMAIN inflight : inflight[i] \in OnLine
      BY <2>1 DEF OnLine
    <3> QED
      BY <3>1, <3>2
  <2>5. OnLine' \subseteq OnLine \cup {hand'}
    BY <1>10, <2>4 DEF ResultArrives, OnLine
  <2> QED
    BY <2>2, <2>3, <2>5 DEF Joins
<1>11. CASE ResultFails \/ ResultRaises
  <2>1. OnLine' \subseteq OnLine
    BY <1>11 DEF ResultFails, ResultRaises, OnLine
  <2> QED
    BY <2>1, <1>1
<1>12. CASE PutTries \/ PutTimesOut
  <2>1. OnLine' \subseteq OnLine
    BY <1>12 DEF PutTries, PutTimesOut, OnLine
  <2> QED
    BY <2>1, <1>1
<1>13. CASE PutSegment
  <2>1. hand \in Segment /\ hand \in OnLine /\ out' = Append(out, hand)
    BY <1>13 DEF PutSegment, OnLine
  <2>2. \A i \in DOMAIN out' : out'[i] \in OnLine \cup {Error}
    BY <2>1, Queues DEF OnLine
  <2>3. OnLine' \subseteq OnLine
    BY <1>13, <2>2 DEF PutSegment, OnLine
  <2> QED
    BY <2>3, <1>1
<1>14. CASE PutError
  <2>1. \A i \in DOMAIN out' : out'[i] \in OnLine \cup {Error}
    BY <1>14, Queues DEF PutError, OnLine
  <2>2. OnLine' \subseteq OnLine
    BY <1>14, <2>1 DEF PutError, OnLine
  <2> QED
    BY <2>2, <1>1
<1>15. CASE UNCHANGED <<sent, first, out, hand, inflight, maker>>
  <2>1. OnLine' = OnLine
    BY <1>15 DEF OnLine
  <2> QED
    BY <2>1, <1>1
<1> QED
  BY <1>2, <1>3, <1>4, <1>5, <1>6, <1>7, <1>8, <1>9, <1>10, <1>11, <1>12, <1>13, <1>14, <1>15
     DEF Next, TakerStep, MakerStep, WarmFails, PlanStopped, HoldStopped, Resume,
         Close, LoopStops,
         LoopGets, GetEmpty, EmptyAlive, EmptyDead, Stop, Jog, Crash, Over, vars

\* The whole line is within Ahead of the segments sent.
LEMMA WithinAhead ==
    ASSUME JogInv
    PROVE  \A x \in OnLine : x.k < Len(sent) + Ahead
<1>1. LineTypes /\ OnLine \subseteq Segment
  BY LineTyped, OnLineSegments DEF JogInv
<1>2. /\ Len(sent) \in Nat /\ Len(out) \in Nat /\ Len(inflight) \in Nat
      /\ InHand \in {0, 1} /\ Held \in {0, 1} /\ mode.workers \in Nat /\ Prefetch \in Nat
  BY <1>1, SessionAssumption DEF LineTypes
<1>3. Len(out) <= Prefetch /\ Len(inflight) + InHand <= mode.workers
  BY DEF JogInv, FillInv
<1>4. Held <= (IF mode.scheduled THEN 1 ELSE 0)
  BY DEF JogInv, FillInv, Held
<1>5. Released + InHand + Len(inflight) <= Len(sent) + Ahead
  BY <1>2, <1>3, <1>4 DEF Released, Taken, Ahead
<1>6. Released + InHand + Len(inflight) \in Nat /\ Len(sent) + Ahead \in Nat
  BY <1>2 DEF Released, Taken, Ahead
<1>7. \A x \in OnLine : x.k \in Nat /\ x.k < Released + InHand + Len(inflight)
  BY <1>1, SessionAssumption DEF Segment, Numbers, JogInv, ReachInv
<1> QED
  BY <1>5, <1>6, <1>7

\* A segment keeps its number and its state on its way; a change of the
\* operator's state finds all segments of the line within Ahead of those sent.
LEMMA ViewStep ==
    ASSUME JogInv, PlaceInv', ReachInv', [Next]_vars
    PROVE  ViewInv'
<1> LineTypes /\ OnLine \subseteq Segment
  BY LineTyped, OnLineSegments DEF JogInv
<1> \A x \in Segment : x.k \in Nat /\ x.view \in Nat
  BY SessionAssumption DEF Segment, Numbers, Views
<1> Ahead \in Nat
  BY SessionAssumption DEF Ahead, LineTypes
<1> USE DEF LineTypes, sessionVars, makerVars, takerVars, pastVars, MakerKeeps
<1>1. CASE UNCHANGED vars
  <2>1. OnLine' = OnLine /\ Ahead' = Ahead
    BY <1>1 DEF vars, OnLine, InHand, Alive, Ahead
  <2> QED
    BY <1>1, <2>1 DEF vars, JogInv, ViewInv
<1>2. CASE Jog
  <2>1. /\ view' = view + 1 /\ jogged' = Append(jogged, Len(sent))
        /\ UNCHANGED <<mode, sent, first, out, hand, inflight, maker>>
    BY <1>2 DEF Jog
  <2>2. OnLine' = OnLine /\ Ahead' = Ahead
    BY <2>1 DEF OnLine, InHand, Alive, Ahead
  <2>3. /\ jogged'[view + 1] = Len(sent)
        /\ \A v \in 1 .. view : jogged'[v] = jogged[v] /\ jogged[v] \in Nat
    BY <2>1 DEF JogInv, FillInv
  <2>4. \A x \in OnLine : x.k < Len(sent) + Ahead
    BY WithinAhead
  <2>5. ASSUME NEW x \in OnLine, NEW v \in 1 .. view + 1, x.k >= jogged'[v] + Ahead
        PROVE  x.view >= v
    <3>1. v # view + 1
      BY <2>3, <2>4, <2>5
    <3>2. v \in 1 .. view
      BY <3>1
    <3> QED
      BY <2>3, <2>5, <3>2 DEF JogInv, ViewInv
  <2>6. \A x \in OnLine : x.view <= view + 1
    BY DEF JogInv, ViewInv
  <2> QED
    BY <2>1, <2>2, <2>5, <2>6 DEF JogInv, ViewInv
<1>3. CASE Next /\ ~Jog /\ ~UNCHANGED vars
  <2>1. UNCHANGED <<view, jogged, mode>>
    BY <1>3 DEF Next, TakerStep, MakerStep, Over, Start, PlanStart, WarmFails,
       PlanStopped, FirstReady,
       FirstLate, FirstFails, FirstRaises, ReleaseFirst, HoldStopped, Resume, Close, LoopStops,
       LoopGets, GetSegment, GetError, GetEmpty, EmptyAlive, EmptyDead, TopStops, TopGoes, Submit,
       SubmitRefused, Filled, ResultArrives, ResultFails, ResultRaises, PutTries, PutSegment,
       PutTimesOut, PutError, Stop, Crash, End, StartMaker
  <2>2. Ahead' = Ahead /\ \A v \in 1 .. view : jogged[v] \in Nat
    BY <2>1 DEF Ahead, JogInv, FillInv
  <2>3. \A x \in OnLine' : Joins(x)
    BY <1>3, Joining
  <2>4. ASSUME NEW x \in OnLine'
        PROVE  /\ x.view <= view
               /\ \A v \in 1 .. view : x.k >= jogged[v] + Ahead => x.view >= v
    <3>1. CASE x.view = view
      BY <3>1
    <3>2. CASE \E z \in OnLine : x.k = z.k /\ x.view = z.view
      <4>1. PICK z \in OnLine : x.k = z.k /\ x.view = z.view
        BY <3>2
      <4>2. ViewInv
        BY DEF JogInv
      <4> QED
        BY <4>1, <4>2 DEF ViewInv
    <3> QED
      BY <2>3, <3>1, <3>2 DEF Joins
  <2>5. ASSUME NEW x \in OnLine', NEW y \in OnLine', x.k < y.k
        PROVE  x.view <= y.view
    <3>1. /\ x \in Segment /\ y \in Segment
      <4>1. (PlaceInv => OnLine \subseteq Segment)'
        BY OnLineSegments, PTL
      <4> QED
        BY <4>1
    <3>2. CASE \E z \in OnLine : y.k = z.k /\ y.view = z.view
      <4>1. ~(\A z \in OnLine' : z.k <= x.k)
        BY <2>5, <3>1
      <4>2. \E u \in OnLine : x.k = u.k /\ x.view = u.view
        BY <2>3, <4>1 DEF Joins
      <4> QED
        BY <2>5, <3>2, <4>2 DEF JogInv, ViewInv
    <3>3. CASE y.view = view
      BY <2>4, <3>3
    <3> QED
      BY <2>3, <3>2, <3>3 DEF Joins
  <2> QED
    BY <2>1, <2>2, <2>4, <2>5 DEF ViewInv
<1> QED
  BY <1>1, <1>2, <1>3

\* A jog or a time shift is on the air after at most Ahead more segments and
\* is never taken back, for every number of workers, length of the queue and
\* order of failures, with segments dropped and requested again.
THEOREM JogsArriveHolds == Spec => []JogsArrive
<1>1. Init => PlaceInv /\ LineInv /\ FillInv /\ ViewInv
  BY PlaceInit, LineInit, FillInit
<1>2. PlaceInv /\ LineInv /\ FillInv => ReachInv
  BY Reach
<1>3. PlaceInv /\ LineInv /\ FillInv /\ [Next]_vars => (PlaceInv /\ LineInv /\ FillInv)'
  BY PlaceStep, LineStep, FillStep
<1>4. JogInv /\ PlaceInv' /\ ReachInv' /\ [Next]_vars => ViewInv'
  BY ViewStep
<1>5. JogInv => JogsArrive
  <2> SUFFICES ASSUME JogInv PROVE JogsArrive
    OBVIOUS
  <2>1. LineTypes
    BY LineTyped DEF JogInv
  <2>2. \A i \in DOMAIN sent : i \in Nat /\ sent[i] \in OnLine /\ sent[i].k = i - 1
    BY <2>1 DEF LineTypes, OnLine, JogInv, LineInv, SentInv, TimeAdvances
  <2>3. Ahead \in Nat /\ \A v \in 1 .. view : jogged[v] \in Nat
    BY <2>1, SessionAssumption DEF Ahead, LineTypes, JogInv, FillInv
  <2> QED
    BY <2>2, <2>3 DEF JogInv, ViewInv, JogsArrive
<1> QED
  BY <1>1, <1>2, <1>3, <1>4, <1>5, PTL DEF Spec, JogInv
=============================================================================
