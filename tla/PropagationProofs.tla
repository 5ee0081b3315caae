-------------------------- MODULE PropagationProofs --------------------------
(***************************************************************************)
(* Theorems about Propagation, for every record, every instant, every      *)
(* length of the week and of the integration step: what is returned        *)
(* belongs to the instant asked for, and the integration approaches it.    *)
(***************************************************************************)
EXTENDS Propagation, SequenceTheorems, TLAPS

-----------------------------------------------------------------------------
(* The fold of a time difference into the week around zero.                  *)

\* The code adds or subtracts one week, never more: the result is the same time
\* of the week always, and within half a week if the argument was within one
\* and a half.
LEMMA WrapWeek ==
    ASSUME NEW dt \in Int
    PROVE  /\ wrap_week(dt) \in Int
           /\ (dt - wrap_week(dt)) % Week = 0
           /\ 2 * Size(dt) <= 3 * Week => 2 * Size(wrap_week(dt)) <= Week
<1>1. Week \in Nat \ {0}
  BY PropagationAssumption
<1>2. dt - wrap_week(dt) \in {0, Week, -Week} /\ wrap_week(dt) \in Int
  BY <1>1 DEF wrap_week
<1>3. 0 % Week = 0 /\ Week % Week = 0 /\ (-Week) % Week = 0
  BY <1>1
<1>4. (dt - wrap_week(dt)) % Week = 0
  BY <1>2, <1>3
<1>5. 2 * Size(dt) <= 3 * Week => 2 * Size(wrap_week(dt)) <= Week
  BY <1>1 DEF wrap_week, Size
<1> QED
  BY <1>2, <1>4, <1>5

\* A record is of one kind.
LEMMA Kinds ==
    /\ \A e \in Kepler : e \notin Vectors /\ e.sys \in Int /\ e.toe \in Int /\ e.toc \in Int
    /\ \A e \in Vectors : e.toe_ref \in Int /\ e.tau \in Int /\ e.gamma \in Int
  BY PropagationAssumption

-----------------------------------------------------------------------------
(* The invariant.                                                            *)

CallInv ==
    /\ record \in Kepler \cup Vectors /\ t_gps \in Times
    /\ at \in {"call", "newton", "integrate", "done"}
    /\ at = "newton" => record \in Kepler
    /\ at = "integrate" => record \in Vectors

\* The points computed so far are those of propagate(tk), (tk - 0.5), (tk + 0.5).
PointInv ==
    /\ iteration \in 0 .. Iterations
    /\ points \in Seq([tk : Int, row : 0 .. 3])
    /\ Len(points) <= 3
    /\ \A i \in 1 .. Len(points) : points[i].tk = Point(i)
    /\ at = "done" /\ record \in Kepler => Len(points) = 3

\* The state that is integrated and the time left always add up to the
\* instant, and the time left keeps the sign of the whole.
AimInv ==
    /\ y \in Int /\ remaining \in Int
    /\ at \in {"call", "newton"} => remaining = 0
    /\ record \in Vectors /\ at \in {"integrate", "done"} => y + remaining = t_gps
    /\ at = "done" => remaining = 0
    /\ record \in Vectors =>
         IF dt_total >= 0 THEN remaining >= 0 ELSE remaining <= 0

ClockInv ==
    /\ clock \in Int
    /\ at = "done" /\ record \in Kepler => clock = wrap_week(t_gps - record.toc)

PropInv == CallInv /\ PointInv /\ AimInv /\ ClockInv

\* The differences the code forms are integers.
LEMMA Differences ==
    ASSUME CallInv
    PROVE  /\ t_gps \in Int
           /\ record \in Kepler => t_gps - record.toe \in Int /\ t_gps - record.toc \in Int
           /\ record \in Kepler => tk \in Int
           /\ record \in Vectors => dt_total \in Int
<1>1. t_gps \in Int
  BY PropagationAssumption DEF CallInv
<1>2. record \in Kepler => t_gps - record.toe \in Int /\ t_gps - record.toc \in Int
  BY <1>1, Kinds
<1>3. record \in Vectors => dt_total \in Int
  BY <1>1, Kinds DEF dt_total
<1> QED
  BY <1>1, <1>2, <1>3, WrapWeek DEF tk

LEMMA PropInit == Init => PropInv
<1> SUFFICES ASSUME Init PROVE PropInv
  OBVIOUS
<1>1. CallInv
  BY DEF Init, CallInv
<1>2. PointInv
  BY PropagationAssumption DEF Init, PointInv
<1>3. AimInv /\ ClockInv
  BY DEF Init, AimInv, ClockInv
<1> QED
  BY <1>1, <1>2, <1>3 DEF PropInv

LEMMA PointStep ==
    ASSUME PropInv, CallInv', Next
    PROVE  PointInv'
<1> USE DEF PropInv
<1>1. CASE OrbitPoint
  <2> DEFINE new == [tk |-> Point(Len(points) + 1), row |-> Row]
  <2>1. points \in Seq([tk : Int, row : 0 .. 3]) /\ record \in Kepler /\ Len(points) < 3
    BY <1>1 DEF OrbitPoint, PointInv, CallInv
  <2>2. Row \in 0 .. 3
    BY <2>1, Kinds DEF Row
  <2>3. tk \in Int
    BY <2>1, Differences
  <2>4. Len(points) \in Nat /\ Len(points) + 1 \in {1, 2, 3}
    <3>1. Len(points) \in Nat
      BY <2>1
    <3> QED
      BY <2>1, <3>1
  <2>5. Point(Len(points) + 1) \in Int
    BY <2>3, <2>4 DEF Point
  <2>6. new \in [tk : Int, row : 0 .. 3]
    BY <2>2, <2>5
  <2>7. /\ points' = Append(points, new) /\ iteration' = 0 /\ at' = "newton"
        /\ UNCHANGED <<record, t_gps>>
    BY <1>1 DEF OrbitPoint
  <2> HIDE DEF new
  <2>8. /\ points' \in Seq([tk : Int, row : 0 .. 3])
        /\ Len(points') = Len(points) + 1
        /\ \A i \in 1 .. Len(points) : points'[i] = points[i]
        /\ points'[Len(points) + 1] = new
    BY <2>1, <2>6, <2>7
  <2>9. \A i \in {1, 2, 3} : Point(i)' = Point(i)
    BY <2>7 DEF Point, tk
  <2>10. \A i \in 1 .. Len(points') : points'[i].tk = Point(i)'
    <3> SUFFICES ASSUME NEW i \in 1 .. Len(points') PROVE points'[i].tk = Point(i)'
      OBVIOUS
    <3>1. i \in {1, 2, 3} /\ (i \in 1 .. Len(points) \/ i = Len(points) + 1)
      BY <2>4, <2>8
    <3>2. CASE i \in 1 .. Len(points)
      BY <3>1, <3>2, <2>8, <2>9 DEF PointInv
    <3>3. CASE i = Len(points) + 1
      BY <3>1, <3>3, <2>8, <2>9 DEF new
    <3> QED
      BY <3>1, <3>2, <3>3
  <2>11. 0 \in 0 .. Iterations /\ Len(points') <= 3
    BY <2>1, <2>4, <2>8, PropagationAssumption
  <2> QED
    BY <2>7, <2>8, <2>10, <2>11 DEF PointInv
<1>2. CASE ~OrbitPoint
  <2>1. UNCHANGED <<record, t_gps, points>>
    BY <1>2 DEF Next, KeplerCall, Iterate, KeplerReturns, VectorCall, Integrate, VectorReturns,
       Returned, vars
  <2>2. \A i : Point(i)' = Point(i)
    BY <2>1 DEF Point, tk
  <2>3. iteration' \in 0 .. Iterations
    BY <1>2, PropagationAssumption DEF Next, KeplerCall, Iterate, NextIteration, KeplerReturns,
       VectorCall, Integrate, VectorReturns, Returned, vars, PointInv
  <2>4. at' = "done" /\ record \in Kepler => Len(points) = 3
    BY <1>2, Kinds DEF Next, KeplerCall, Iterate, KeplerReturns, VectorCall, Integrate,
       VectorReturns, Returned, vars, PointInv, CallInv
  <2> QED
    BY <2>1, <2>2, <2>3, <2>4 DEF PointInv
<1> QED
  BY <1>1, <1>2

\* The product of two numbers that are not of opposite signs.
LEMMA SameSign ==
    ASSUME NEW a \in Int, NEW b \in Int, (b > 0 /\ a >= 0) \/ (b < 0 /\ a <= 0)
    PROVE  a * b >= 0
<1>1. \A m, n \in Nat : m * n >= 0 /\ (-m) * (-n) = m * n
  OBVIOUS
<1>2. CASE b > 0
  BY <1>1, <1>2
<1>3. CASE b < 0
  <2> DEFINE m == -a
             n == -b
  <2>1. m \in Nat /\ n \in Nat /\ a = -m /\ b = -n
    BY <1>3
  <2> HIDE DEF m, n
  <2> QED
    BY <1>1, <2>1
<1> QED
  BY <1>2, <1>3

\* One step of the integration, forward or backward: it goes towards the
\* instant, by the whole of what is left at the end.
LEMMA Towards ==
    ASSUME PropInv, Integrate
    PROVE  /\ remaining' \in Int /\ y' \in Int /\ y' + remaining' = y + remaining
           /\ Size(remaining') < Size(remaining)
           /\ IF dt_total >= 0 THEN remaining > 0 /\ remaining' >= 0
                               ELSE remaining < 0 /\ remaining' <= 0
<1>1. record \in Vectors /\ dt_total \in Int /\ StepLength \in Nat \ {0}
  BY Differences, PropagationAssumption DEF PropInv, CallInv, Integrate
<1>2. /\ y \in Int /\ remaining \in Int /\ remaining # 0
      /\ IF dt_total >= 0 THEN remaining >= 0 ELSE remaining <= 0
      /\ y' = y + h /\ remaining' = remaining - h
  BY <1>1 DEF PropInv, AimInv, Integrate
<1>3. CASE dt_total >= 0
  <2>1. step = StepLength /\ remaining > 0
    BY <1>1, <1>2, <1>3 DEF step
  <2>2. h = IF remaining > StepLength THEN StepLength ELSE remaining
    BY <1>1, <1>2, <2>1 DEF h, Size
  <2> QED
    BY <1>1, <1>2, <1>3, <2>1, <2>2 DEF Size
<1>4. CASE ~(dt_total >= 0)
  <2>1. step = -StepLength /\ remaining < 0
    BY <1>1, <1>2, <1>4 DEF step
  <2>2. h = IF -remaining > StepLength THEN -StepLength ELSE remaining
    BY <1>1, <1>2, <2>1 DEF h, Size
  <2> QED
    BY <1>1, <1>2, <1>4, <2>1, <2>2 DEF Size
<1> QED
  BY <1>3, <1>4

LEMMA AimStep ==
    ASSUME PropInv, Next
    PROVE  AimInv'
<1>1. CASE VectorCall
  <2>1. record \in Vectors /\ dt_total \in Int /\ t_gps \in Int /\ record.toe_ref \in Int
    BY <1>1, Differences, Kinds DEF VectorCall, PropInv
  <2>2. /\ y' = record.toe_ref /\ remaining' = dt_total /\ at' = "integrate"
        /\ UNCHANGED <<record, t_gps>>
    BY <1>1 DEF VectorCall
  <2>3. dt_total' = dt_total
    BY <2>2 DEF dt_total
  <2>4. y' + remaining' = t_gps
    BY <2>1, <2>2 DEF dt_total
  <2> QED
    BY <2>1, <2>2, <2>3, <2>4 DEF AimInv
<1>2. CASE Integrate
  <2>1. UNCHANGED <<record, t_gps, at>> /\ at = "integrate" /\ record \in Vectors
    BY <1>2 DEF Integrate, PropInv, CallInv
  <2>2. dt_total' = dt_total
    BY <2>1 DEF dt_total
  <2> QED
    BY <1>2, <2>1, <2>2, Towards DEF PropInv, AimInv
<1>3. CASE ~VectorCall /\ ~Integrate
  <2>1. UNCHANGED <<record, t_gps, y, remaining>>
    BY <1>3 DEF Next, KeplerCall, Iterate, OrbitPoint, KeplerReturns, VectorReturns, Returned, vars
  <2>2. dt_total' = dt_total
    BY <2>1 DEF dt_total
  <2>3. \/ at' = at
        \/ at = "call" /\ at' = "newton"
        \/ at = "newton" /\ at' = "done" /\ record \in Kepler
        \/ at = "integrate" /\ at' = "done" /\ remaining = 0
    BY <1>3 DEF Next, KeplerCall, Iterate, OrbitPoint, KeplerReturns, VectorReturns, Returned, vars,
       PropInv, CallInv
  <2> QED
    BY <2>1, <2>2, <2>3, Kinds DEF PropInv, AimInv
<1> QED
  BY <1>1, <1>2, <1>3

LEMMA PropStep == PropInv /\ [Next]_vars => PropInv'
<1> SUFFICES ASSUME PropInv, [Next]_vars PROVE PropInv'
  OBVIOUS
<1>1. CASE UNCHANGED vars
  BY <1>1 DEF vars, PropInv, CallInv, PointInv, AimInv, ClockInv, Point, tk, dt_total
<1>2. CASE Next
  <2>1. CallInv'
    BY <1>2 DEF PropInv, CallInv, Next, KeplerCall, Iterate, OrbitPoint, KeplerReturns, VectorCall,
       Integrate, VectorReturns, Returned, vars
  <2>2. ClockInv'
    <3>1. CASE KeplerReturns
      BY <3>1, Differences, WrapWeek DEF KeplerReturns, PropInv, CallInv, ClockInv
    <3>2. CASE VectorReturns
      <4>1. record \in Vectors /\ UNCHANGED record
        BY <3>2 DEF VectorReturns, PropInv, CallInv
      <4>2. clock' \in Int
        BY <3>2, <4>1, Differences, Kinds DEF VectorReturns, PropInv
      <4> QED
        BY <4>1, <4>2, Kinds DEF ClockInv
    <3>3. CASE ~KeplerReturns /\ ~VectorReturns
      BY <1>2, <3>3 DEF Next, KeplerCall, Iterate, OrbitPoint, VectorCall, Integrate, Returned,
         vars, PropInv, ClockInv
    <3> QED
      BY <3>1, <3>2, <3>3
  <2> QED
    BY <1>2, <2>1, <2>2, PointStep, AimStep DEF PropInv
<1> QED
  BY <1>1, <1>2

LEMMA PropInvariant == Spec => []PropInv
  BY PropInit, PropStep, PTL DEF Spec

-----------------------------------------------------------------------------
\* The orbit and the clock are those of the nearest weekly repetition of their
\* two reference times, the state vector is that of the instant itself, and
\* the velocity is the centred difference over one second: for every instant,
\* on either side of the epoch and of the end of the week.
THEOREM StateOfInstantHolds == Spec => []StateOfInstant
<1>1. PropInv => StateOfInstant
  <2> SUFFICES ASSUME PropInv PROVE StateOfInstant
    OBVIOUS
  <2>1. TypeOK
    <3>1. \A i \in DOMAIN points : points[i].row \in 0 .. 3
      <4>1. points \in Seq([tk : Int, row : 0 .. 3])
        BY DEF PropInv, PointInv
      <4>2. DOMAIN points = 1 .. Len(points)
        BY <4>1
      <4>3. \A i \in 1 .. Len(points) : points[i] \in [tk : Int, row : 0 .. 3]
        BY <4>1, ElementOfSeq
      <4> QED
        BY <4>2, <4>3
    <3> QED
      BY <3>1 DEF PropInv, CallInv, PointInv, AimInv, ClockInv, TypeOK
  <2>2. ASSUME at = "done", record \in Kepler
        PROVE  /\ points[1].tk = tk /\ points[2].tk = tk - 1 /\ points[3].tk = tk + 1
               /\ tk \in Int
    <3>1. Len(points) = 3 /\ \A i \in 1 .. 3 : points[i].tk = Point(i)
      BY <2>2 DEF PropInv, PointInv
    <3>2. tk \in Int
      BY <2>2, Differences DEF PropInv
    <3> QED
      BY <3>1, <3>2 DEF Point
  <2>3. SpeedIsCentred
    BY <2>2 DEF SpeedIsCentred
  <2>4. PositionOfInstant
    <3> SUFFICES ASSUME at = "done"
                 PROVE  IF record \in Vectors THEN y = t_gps
                        ELSE \A e \in {<<points[1].tk, record.toe>>, <<clock, record.toc>>} :
                               /\ (t_gps - e[2] - e[1]) % Week = 0
                               /\ 2 * Size(t_gps - e[2]) <= 3 * Week => 2 * Size(e[1]) <= Week
      BY DEF PositionOfInstant
    <3>1. CASE record \in Vectors
      BY <3>1, Differences DEF PropInv, AimInv
    <3>2. CASE record \notin Vectors
      <4>1. record \in Kepler
        BY <3>2 DEF PropInv, CallInv
      <4>2. points[1].tk = wrap_week(t_gps - record.toe) /\ clock = wrap_week(t_gps - record.toc)
        BY <4>1, <2>2 DEF PropInv, ClockInv, tk
      <4>3. \A x \in {record.toe, record.toc} :
              /\ (t_gps - x - wrap_week(t_gps - x)) % Week = 0
              /\ 2 * Size(t_gps - x) <= 3 * Week => 2 * Size(wrap_week(t_gps - x)) <= Week
        BY <4>1, Differences, WrapWeek DEF PropInv
      <4> QED
        BY <3>2, <4>2, <4>3
    <3> QED
      BY <3>1, <3>2
  <2> QED
    BY <2>1, <2>3, <2>4 DEF StateOfInstant
<1> QED
  BY <1>1, PropInvariant, PTL

\* The integration of a state vector comes nearer with every step and never
\* passes the instant, whatever the length of the last step: so the loop of
\* glonass_state() ends.
THEOREM StepsTowardsHolds == Spec => StepsTowards
<1>1. PropInv /\ [Next]_vars =>
        [remaining # 0 => /\ Size(remaining') < Size(remaining)
                          /\ remaining' * remaining >= 0]_remaining
  <2> SUFFICES ASSUME PropInv, Next, remaining' # remaining, remaining # 0
               PROVE  Size(remaining') < Size(remaining) /\ remaining' * remaining >= 0
    BY DEF vars
  <2>1. Integrate
    BY DEF PropInv, AimInv, Next, KeplerCall, Iterate, OrbitPoint, KeplerReturns, VectorCall,
       VectorReturns, Returned, vars
  <2>2. /\ remaining \in Int /\ remaining' \in Int /\ Size(remaining') < Size(remaining)
        /\ (remaining > 0 /\ remaining' >= 0) \/ (remaining < 0 /\ remaining' <= 0)
    BY <2>1, Towards DEF PropInv, AimInv
  <2>3. remaining' * remaining >= 0
    BY <2>2, SameSign
  <2> QED
    BY <2>2, <2>3
<1> QED
  BY <1>1, PropInvariant, PTL DEF Spec, StepsTowards
=============================================================================
