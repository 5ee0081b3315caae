-------------------------- MODULE FadingWalkProofs --------------------------
(***************************************************************************)
(* Theorems about GridProcess and FadingWalk. The window cache of the grid *)
(* process is transparent: for every size of blocks and window, every      *)
(* number of taps and every order of accesses, a value is the sum of its   *)
(* own part of the stream. The knots of a run resolve the processes of its *)
(* channel at the receiver's top speed, for every motion; and because they *)
(* do, a run draws every block of the stream once.                         *)
(***************************************************************************)
EXTENDS FadingWalk, WellFoundedInduction, SequenceTheorems, TLAPS

-----------------------------------------------------------------------------
(* The grid process.                                                         *)

\* The end of the value that is summed, and the part of it summed so far.
Summed == IF at = "v0" THEN m ELSE m + 1
PartInv == at # "idle" => \A e \in 1 .. Len(x) : x[e] = Stream(Summed - Taps + e)

\* The left end is complete while the right one is summed.
EndsInv ==
    /\ ValuesArePure
    /\ last_m_ # Never /\ at = "v0" => last_v1_ = ValueAt(last_m_ + 1)
    /\ at = "v1" => last_v0_ = ValueAt(m)

GridInv == TypeOK /\ WindowIsStream /\ PartInv /\ EndsInv /\ (at # "idle" => m \in Cells)

-----------------------------------------------------------------------------
LEMMA BlockIsInt == \A q \in Int : BlockOf(q) \in Int /\ Stream(q) \in Int \X Int
  BY GridAssumption DEF BlockOf, Stream

\* A complete sum is the value by definition.
LEMMA CompleteSum ==
    ASSUME NEW c \in Int, x \in Seq(Int \X Int), Len(x) = Taps,
           \A e \in 1 .. Len(x) : x[e] = Stream(c - Taps + e)
    PROVE  x = ValueAt(c)
  BY GridAssumption DEF ValueAt

LEMMA GridInit == Init => GridInv
  BY GridAssumption DEF Init, GridInv, TypeOK, WindowIsStream, PartInv, EndsInv, ValuesArePure

\* normal() moves the window and finds its block in it.
LEMMA WindowStep ==
    ASSUME NEW b \in Int, b0_ \in Int, buf_ \in Seq(Int), WindowIsStream
    PROVE  /\ NewBase(b) \in Int /\ Reach(b) \in Seq(Int)
           /\ Len(Reach(b)) <= Keep
           /\ \A e \in 1 .. Len(Reach(b)) : Reach(b)[e] = NewBase(b) + (e - 1)
           /\ b - NewBase(b) + 1 \in 1 .. Len(Reach(b))
           /\ Reach(b)[b - NewBase(b) + 1] = b
           /\ Len(Kept(b)) \in Nat /\ Len(Kept(b)) <= Len(Reach(b))
           /\ Outside(b) \/ NewBase(b) + Len(Kept(b)) = b0_ + Len(buf_)
<1> DEFINE kept == Len(Kept(b))
           size == IF b - NewBase(b) + 1 > kept THEN b - NewBase(b) + 1 ELSE kept
<1> USE GridAssumption
<1>1. Len(buf_) \in Nat /\ Len(buf_) <= Keep
  BY DEF WindowIsStream
<1>2. /\ Kept(b) \in Seq(Int) /\ kept \in Nat /\ NewBase(b) \in Int
      /\ \A e \in 1 .. kept : Kept(b)[e] = NewBase(b) + (e - 1)
      /\ b - NewBase(b) + 1 >= 1 /\ size <= Keep
      /\ Outside(b) \/ NewBase(b) + kept = b0_ + Len(buf_)
  <2>1. CASE Outside(b)
    <3>1. Kept(b) = <<>> /\ NewBase(b) = b
      BY <2>1 DEF Kept, NewBase
    <3>2. Kept(b) \in Seq(Int) /\ kept = 0
      BY <3>1
    <3> HIDE DEF kept
    <3> QED
      BY <2>1, <3>1, <3>2
  <2>2. CASE ~Outside(b) /\ Overflows(b)
    <3>1. Kept(b) = SubSeq(buf_, Drop + 1, Len(buf_)) /\ NewBase(b) = b0_ + Drop
      BY <2>2 DEF Kept, NewBase
    <3>2. b = b0_ + Len(buf_) /\ Len(buf_) >= Keep /\ Len(buf_) - Drop \in Nat
      BY <1>1, <2>2 DEF Overflows
    <3>3. \A e \in 1 .. Len(buf_) - Drop : buf_[Drop + 1 + e - 1] = b0_ + Drop + (e - 1)
      BY <1>1, <3>2 DEF WindowIsStream
    <3>4. /\ Kept(b) \in Seq(Int) /\ kept = Len(buf_) - Drop
          /\ \A e \in 1 .. kept : Kept(b)[e] = buf_[Drop + 1 + e - 1]
      <4>1. \A e \in Drop + 1 .. Len(buf_) : buf_[e] \in Int
        BY <1>1
      <4> DEFINE first == Drop + 1
                 rest == SubSeq(buf_, first, Len(buf_))
      <4>2. first \in Int /\ Len(buf_) \in Int /\ \A e \in first .. Len(buf_) : buf_[e] \in Int
        BY <1>1, <4>1
      <4> HIDE DEF first
      <4>3. /\ rest \in Seq(Int)
            /\ Len(rest) = IF first <= Len(buf_) THEN Len(buf_) - first + 1 ELSE 0
            /\ \A e \in 1 .. Len(buf_) - first + 1 : rest[e] = buf_[first + e - 1]
        BY ONLY <4>2, SubSeqProperties
      <4>4. Kept(b) = rest
        BY <3>1 DEF first
      <4> HIDE DEF rest
      <4>5. /\ Kept(b) \in Seq(Int)
            /\ kept = IF Drop + 1 <= Len(buf_) THEN Len(buf_) - (Drop + 1) + 1 ELSE 0
            /\ \A e \in 1 .. Len(buf_) - (Drop + 1) + 1 : Kept(b)[e] = buf_[Drop + 1 + e - 1]
        BY <4>3, <4>4 DEF first
      <4> QED
        BY <1>1, <3>2, <4>5
    <3>5. \A e \in 1 .. kept : Kept(b)[e] = NewBase(b) + (e - 1)
      BY <3>1, <3>3, <3>4
    <3>6. b - NewBase(b) + 1 = kept + 1 /\ kept + 1 <= Keep /\ NewBase(b) \in Int
      BY <1>1, <3>1, <3>2, <3>4
    <3>7. NewBase(b) + kept = b0_ + Len(buf_)
      <4>1. kept = Len(buf_) - Drop
        BY <3>4
      <4>2. NewBase(b) = b0_ + Drop
        BY <3>1
      <4> HIDE DEF kept
      <4> QED
        BY <1>1, <4>1, <4>2
    <3> HIDE DEF kept
    <3> QED
      BY <3>2, <3>4, <3>5, <3>6, <3>7
  <2>3. CASE ~Outside(b) /\ ~Overflows(b)
    <3>1. Kept(b) = buf_ /\ NewBase(b) = b0_
      BY <2>3 DEF Kept, NewBase
    <3>2. b >= b0_ /\ b <= b0_ + Len(buf_) /\ (b = b0_ + Len(buf_) => Len(buf_) < Keep)
      BY <1>1, <2>3 DEF Outside, Overflows
    <3> QED
      BY <1>1, <3>1, <3>2 DEF WindowIsStream
  <2> QED
    BY <2>1, <2>2, <2>3
<1>3. Reach(b) = [e \in 1 .. size |-> IF e <= kept THEN Kept(b)[e] ELSE NewBase(b) + (e - 1)]
  BY DEF Reach
<1>4. size \in Nat /\ size >= kept /\ size >= b - NewBase(b) + 1
  BY <1>2
<1>5. \A e \in 1 .. size : Reach(b)[e] = NewBase(b) + (e - 1)
  BY <1>2, <1>3, <1>4
<1>6. Reach(b) \in Seq(Int) /\ Len(Reach(b)) = size
  <2>1. Reach(b) = [e \in 1 .. size |-> NewBase(b) + (e - 1)]
    BY <1>3, <1>5
  <2> HIDE DEF size
  <2>2. Reach(b) \in [1 .. size -> Int]
    BY <1>2, <2>1
  <2> QED
    BY <1>4, <2>1, <2>2, SeqDef
<1>7. kept \in Nat /\ kept <= Len(Reach(b))
  BY <1>2, <1>4, <1>6
<1>8. Outside(b) \/ NewBase(b) + kept = b0_ + Len(buf_)
  BY <1>2
<1> QED
  <2> HIDE DEF size
  <2>1. Len(Kept(b)) \in Nat /\ Len(Kept(b)) <= Len(Reach(b))
        /\ (Outside(b) \/ NewBase(b) + Len(Kept(b)) = b0_ + Len(buf_))
    BY <1>7, <1>8
  <2> HIDE DEF kept
  <2> QED
    BY <1>2, <1>4, <1>5, <1>6, <2>1

LEMMA AskStep ==
    ASSUME GridInv, NEW c \in Cells, Ask(c)
    PROVE  GridInv'
<1> USE GridAssumption DEF GridInv
<1>1. /\ at = "idle" /\ c # last_m_ /\ m' = c /\ x' = <<>> /\ UNCHANGED <<window, last_m_, last_v1_>>
      /\ c \in Int
  BY DEF Ask, Sum
<1>2. TypeOK'
  <2>1. /\ last_v0_' \in Seq(Int \X Int) /\ at' \in {"v0", "v1"} /\ i' \in Int
        /\ i' = (IF at' = "v0" THEN c ELSE c + 1) - (Taps - 1)
    BY <1>1 DEF Ask, Sum, TypeOK
  <2> QED
    BY <1>1, <2>1 DEF TypeOK, window
<1>3. WindowIsStream'
  BY <1>1 DEF WindowIsStream, window
<1>4. PartInv'
  BY <1>1 DEF PartInv
<1>5. EndsInv'
  <2>1. CASE Adjacent(c)
    <3>1. last_m_ # Never /\ c = last_m_ + 1
      BY <2>1 DEF Adjacent
    <3>2. last_v0_' = last_v1_ /\ at' = "v1"
      BY <2>1 DEF Ask, Sum
    <3>3. last_v1_ = ValueAt(c)
      BY <1>1, <3>1 DEF EndsInv, ValuesArePure
    <3> QED
      BY <1>1, <3>2, <3>3 DEF EndsInv, ValuesArePure
  <2>2. CASE ~Adjacent(c)
    <3>1. last_v0_' = last_v0_ /\ at' = "v0"
      BY <2>2 DEF Ask, Sum
    <3> QED
      BY <1>1, <3>1 DEF EndsInv, ValuesArePure, ValueAt, Stream
  <2> QED
    BY <2>1, <2>2
<1> QED
  BY <1>1, <1>2, <1>3, <1>4, <1>5

LEMMA NormalStep ==
    ASSUME GridInv, Normal0 \/ Normal1
    PROVE  GridInv'
<1> USE GridAssumption DEF GridInv
<1>1. /\ at \in {"v0", "v1"} /\ i <= Summed /\ UNCHANGED <<last, at, m>>
      /\ b0_' = NewBase(BlockOf(i)) /\ buf_' = Reach(BlockOf(i)) /\ i' = i + 1
      /\ x' = Append(x, <<buf_'[BlockOf(i) - b0_' + 1], i % PerBlock>>)
  BY DEF Normal0, Normal1, Normal, Summed
<1>2. /\ i \in Int /\ m \in Int /\ Summed \in Int /\ BlockOf(i) \in Int /\ x \in Seq(Int \X Int)
      /\ Len(x) = i - (Summed - Taps + 1)
  BY <1>1, BlockIsInt DEF TypeOK, Summed
<1>3. /\ b0_' \in Int /\ buf_' \in Seq(Int) /\ WindowIsStream'
      /\ Reach(BlockOf(i))[BlockOf(i) - NewBase(BlockOf(i)) + 1] = BlockOf(i)
  <2>1. b0_ \in Int /\ buf_ \in Seq(Int) /\ WindowIsStream
    BY DEF TypeOK
  <2>2. BlockOf(i) \in Int
    BY <1>2
  <2> DEFINE b == BlockOf(i)
  <2>3. /\ NewBase(b) \in Int /\ Reach(b) \in Seq(Int) /\ Len(Reach(b)) <= Keep
        /\ \A e \in 1 .. Len(Reach(b)) : Reach(b)[e] = NewBase(b) + (e - 1)
        /\ Reach(b)[b - NewBase(b) + 1] = b
    <3> HIDE DEF b
    <3>1. b \in Int
      BY <2>2 DEF b
    <3> QED
      BY <2>1, <3>1, WindowStep
  <2> QED
    BY <1>1, <2>3 DEF WindowIsStream
<1>4. buf_'[BlockOf(i) - b0_' + 1] = BlockOf(i)
  BY <1>1, <1>3
<1>5. x' = Append(x, Stream(i)) /\ Stream(i) \in Int \X Int
  BY <1>1, <1>2, <1>4, BlockIsInt DEF Stream
<1>6. /\ x' \in Seq(Int \X Int) /\ Len(x') = Len(x) + 1 /\ x'[Len(x) + 1] = Stream(i)
      /\ \A e \in 1 .. Len(x) : x'[e] = x[e]
  BY <1>2, <1>5
<1>7. TypeOK'
  <2>1. i' <= Summed + 1 /\ Len(x') = i' - (Summed - Taps + 1) /\ i' \in Int
    BY <1>1, <1>2, <1>6
  <2>2. Summed = IF at' = "v0" THEN m' ELSE m' + 1
    BY <1>1 DEF Summed
  <2> HIDE DEF GridInv
  <2>3. TypeOK
    BY DEF GridInv
  <2> QED
    BY <1>1, <1>3, <1>6, <2>1, <2>2, <2>3 DEF TypeOK, last
<1>8. PartInv'
  <2>1. Summed' = Summed
    BY <1>1 DEF Summed
  <2>2. i = Summed - Taps + (Len(x) + 1) /\ Len(x) \in Nat
    BY <1>2
  <2>3. \A e \in 1 .. Len(x) : x'[e] = Stream(Summed - Taps + e)
    BY <1>1, <1>6 DEF PartInv
  <2>4. x'[Len(x) + 1] = Stream(Summed - Taps + (Len(x) + 1))
    BY <1>6, <2>2
  <2>5. \A e \in 1 .. Len(x') : e \in 1 .. Len(x) \/ e = Len(x) + 1
    BY <1>6, <2>2
  <2>6. \A e \in 1 .. Len(x') : x'[e] = Stream(Summed - Taps + e)
    BY <2>3, <2>4, <2>5
  <2> QED
    BY <2>1, <2>6 DEF PartInv, Stream, BlockOf
<1>9. EndsInv'
  BY <1>1 DEF EndsInv, ValuesArePure, last, ValueAt, Stream
<1> QED
  BY <1>1, <1>3, <1>7, <1>8, <1>9

LEMMA EndStep ==
    ASSUME GridInv, LeftEnd \/ RightEnd
    PROVE  GridInv'
<1> USE GridAssumption DEF GridInv
<1>1. at \in {"v0", "v1"} /\ i > Summed /\ m \in Cells /\ m \in Int /\ i \in Int
  BY DEF LeftEnd, RightEnd, Summed, TypeOK
<1>2. Len(x) = Taps /\ Summed \in Int /\ x \in Seq(Int \X Int)
  BY <1>1 DEF TypeOK, Summed
<1>3. x = ValueAt(Summed)
  BY <1>1, <1>2, CompleteSum DEF PartInv
<1>4. CASE LeftEnd
  <2>1. /\ at = "v0" /\ at' = "v1" /\ last_v0_' = x /\ i' = m + 1 - (Taps - 1) /\ x' = <<>>
        /\ UNCHANGED <<window, last_m_, last_v1_, m>>
    BY <1>1, <1>4 DEF LeftEnd, Sum
  <2>2. TypeOK' /\ WindowIsStream'
    BY <1>1, <1>2, <2>1 DEF TypeOK, WindowIsStream, window
  <2>3. PartInv' /\ EndsInv'
    BY <1>3, <2>1 DEF PartInv, EndsInv, ValuesArePure, Summed
  <2> QED
    BY <1>1, <2>1, <2>2, <2>3
<1>5. CASE RightEnd
  <2>1. /\ at = "v1" /\ at' = "idle" /\ last_v1_' = x /\ last_m_' = m
        /\ UNCHANGED <<window, last_v0_, m, i, x>>
    BY <1>5 DEF RightEnd
  <2>2. TypeOK' /\ WindowIsStream'
    BY <1>1, <1>2, <2>1 DEF TypeOK, WindowIsStream, window
  <2>3. PartInv' /\ EndsInv'
    BY <1>3, <2>1 DEF PartInv, EndsInv, ValuesArePure, Summed
  <2> QED
    BY <1>1, <2>1, <2>2, <2>3
<1> QED
  BY <1>4, <1>5

\* GridInv is inductive.
LEMMA GridStep == GridInv /\ [Next]_vars => GridInv'
<1> SUFFICES ASSUME GridInv, [Next]_vars PROVE GridInv'
  OBVIOUS
<1>1. CASE UNCHANGED vars
  BY <1>1 DEF vars, window, last, GridInv, TypeOK, WindowIsStream, PartInv, Summed, EndsInv,
     ValuesArePure, ValueAt, Stream
<1> QED
  BY <1>1, AskStep, NormalStep, EndStep DEF Next, Walks

\* GridInv holds in every reachable state of the process.
THEOREM GridInvariant == Spec => []GridInv
  BY GridInit, GridStep, PTL DEF Spec

\* The locals of value() stay in step with what it has summed.
THEOREM GridTypes == Spec => []TypeOK
  BY GridInvariant, PTL DEF GridInv

\* ValuesArePure for every window, block and number of taps: the same grid
\* point has the same value in every order of accesses.
THEOREM ValuesArePureHolds == Spec => []ValuesArePure
  BY GridInvariant, PTL DEF GridInv, EndsInv

\* WindowIsStream for every window: it holds consecutive blocks, and no more
\* than it may.
THEOREM WindowIsStreamHolds == Spec => []WindowIsStream
  BY GridInvariant, PTL DEF GridInv

-----------------------------------------------------------------------------
(* Numbers: order, and the least of a set, by which the stretches of a route *)
(* are counted.                                                              *)

Less == {e \in Nat \X Nat : e[1] < e[2]}

LEMMA LessIsWellFounded == IsWellFoundedOn(Less, Nat)
<1>1. IsWellFoundedOn(OpToRel(<, Nat), Nat)
  BY NatLessThanWellFounded
<1>2. OpToRel(<, Nat) = Less
  BY DEF OpToRel, Less
<1> QED
  BY <1>1, <1>2

LEMMA LeastOf ==
    ASSUME NEW S \in SUBSET Nat, S # {}
    PROVE  \E e \in S : \A f \in S : e <= f
<1>1. PICK e \in S : \A f \in S : <<f, e>> \notin Less
  BY LessIsWellFounded, WFMin
<1>2. \A f \in S : ~ (f < e)
  <2> SUFFICES ASSUME NEW f \in S, f < e PROVE FALSE
    OBVIOUS
  <2>1. <<f, e>> \in Nat \X Nat /\ <<f, e>>[1] < <<f, e>>[2]
    OBVIOUS
  <2>2. <<f, e>> \in Less
    BY <2>1 DEF Less
  <2> QED
    BY <1>1, <2>2
<1> QED
  BY <1>2

LEMMA Ordered ==
    ASSUME NEW a \in Int, NEW b \in Int, NEW c \in Nat, a <= b
    PROVE  a * c <= b * c
<1>1. (b - a) * c >= 0
  BY b - a \in Nat, SMT
<1> QED
  BY <1>1, SMT

LEMMA Cancelled ==
    ASSUME NEW a \in Int, NEW b \in Int, NEW c \in Nat \ {0}, a * c <= b * c
    PROVE  a <= b
<1> SUFFICES ASSUME a > b PROVE FALSE
  OBVIOUS
<1>1. (a - b) * c >= c
  BY a - b \in Nat \ {0}, SMT
<1>2. (a - b) * c = a * c - b * c /\ a * c \in Int /\ b * c \in Int
  BY SMT
<1> QED
  BY <1>1, <1>2

Slow(v, u, n1, p1, q1, n2, p2, q2) ==
    /\ 0 <= p2 * q1 - p1 * q2
    /\ (p2 * q1 - p1 * q2) * u <= v * (n2 - n1) * (q1 * q2)

LEMMA SlowAdds ==
    ASSUME NEW v \in Nat, NEW u \in Nat, NEW n1 \in Int, NEW n2 \in Int, NEW n3 \in Int,
           NEW p1 \in Int, NEW p2 \in Int, NEW p3 \in Int,
           NEW q1 \in Nat \ {0}, NEW q2 \in Nat \ {0}, NEW q3 \in Nat \ {0},
           Slow(v, u, n1, p1, q1, n2, p2, q2), Slow(v, u, n2, p2, q2, n3, p3, q3)
    PROVE  Slow(v, u, n1, p1, q1, n3, p3, q3)
<1> DEFINE dx == p2 * q1 - p1 * q2
           dy == p3 * q2 - p2 * q3
           dz == p3 * q1 - p1 * q3
<1>1. dx \in Int /\ dy \in Int /\ dz \in Int
  BY SMT
<1>2. dz * q2 = dx * q3 + dy * q1
  BY SMT
<1>3. 0 <= dx /\ 0 <= dy
  BY DEF Slow
<1>4. dx * u <= v * (n2 - n1) * (q1 * q2) /\ dy * u <= v * (n3 - n2) * (q2 * q3)
  BY DEF Slow
<1> HIDE DEF dx, dy, dz
<1>5. dz >= 0
  <2>1. dx * q3 >= 0 /\ dy * q1 >= 0 /\ dx * q3 \in Int /\ dy * q1 \in Int
    BY <1>1, <1>3, SMT
  <2>2. 0 * q2 <= dz * q2
    BY <1>2, <2>1
  <2> QED
    BY <1>1, <2>2, Cancelled, 0 \in Int
<1>6. dz * u <= v * (n3 - n1) * (q1 * q3)
  <2>1. dx * u \in Int /\ dy * u \in Int /\ dz * u \in Int /\ v * (n2 - n1) * (q1 * q2) \in Int
        /\ v * (n3 - n2) * (q2 * q3) \in Int /\ v * (n3 - n1) * (q1 * q3) \in Int
    BY <1>1, SMT
  <2>2. (dx * u) * q3 <= (v * (n2 - n1) * (q1 * q2)) * q3
    BY <1>4, <2>1, Ordered
  <2>3. (dy * u) * q1 <= (v * (n3 - n2) * (q2 * q3)) * q1
    BY <1>4, <2>1, Ordered
  <2>4. (dz * u) * q2 = (dx * u) * q3 + (dy * u) * q1
    <3>1. (dz * u) * q2 = (dz * q2) * u /\ (dx * u) * q3 = (dx * q3) * u /\ (dy * u) * q1 = (dy * q1) * u
      BY <1>1, SMT
    <3>2. (dx * q3 + dy * q1) * u = (dx * q3) * u + (dy * q1) * u
      BY <1>1, SMT
    <3> QED
      BY <1>2, <3>1, <3>2
  <2>5. (v * (n2 - n1) * (q1 * q2)) * q3 + (v * (n3 - n2) * (q2 * q3)) * q1
          = (v * (n3 - n1) * (q1 * q3)) * q2
    BY SMT
  <2>6. (dx * u) * q3 \in Int /\ (dy * u) * q1 \in Int
        /\ (v * (n2 - n1) * (q1 * q2)) * q3 \in Int /\ (v * (n3 - n2) * (q2 * q3)) * q1 \in Int
    BY <2>1, SMT
  <2>7. (dz * u) * q2 <= (v * (n3 - n1) * (q1 * q3)) * q2
    BY <2>2, <2>3, <2>4, <2>5, <2>6
  <2> QED
    BY <2>1, <2>7, Cancelled
<1> QED
  BY <1>5, <1>6 DEF Slow, dz

-----------------------------------------------------------------------------
(* Fractions, and the extremes the constructor takes.                        *)

Frac == [n : Nat, d : Nat \ {0}]
AtMost(f, g) == f.n * g.d <= g.n * f.d

LEMMA AtMostOrders ==
    /\ \A f, g \in Frac : ~Above(f, g) <=> AtMost(f, g)
    /\ \A f, g \in Frac : AtMost(f, g) \/ AtMost(g, f)
    /\ \A f, g, h \in Frac : AtMost(f, g) /\ AtMost(g, h) => AtMost(f, h)
<1>1. ASSUME NEW f \in Frac, NEW g \in Frac
      PROVE  (~Above(f, g) <=> AtMost(f, g)) /\ (AtMost(f, g) \/ AtMost(g, f))
  <2>1. f.n * g.d \in Int /\ g.n * f.d \in Int
    BY SMT DEF Frac
  <2> QED
    BY <2>1 DEF Above, AtMost
<1>2. ASSUME NEW f \in Frac, NEW g \in Frac, NEW h \in Frac, AtMost(f, g), AtMost(g, h)
      PROVE  AtMost(f, h)
  <2> DEFINE a == f.n
             b == f.d
             c == g.n
             e == g.d
             p == h.n
             q == h.d
  <2>1. {a, c, p} \subseteq Nat /\ {b, e, q} \subseteq Nat \ {0}
        /\ a * e <= c * b /\ c * q <= p * e
    BY <1>2 DEF Frac, AtMost
  <2> HIDE DEF a, b, c, e, p, q
  <2>2. a * e \in Int /\ c * b \in Int /\ c * q \in Int /\ p * e \in Int
        /\ a * q \in Int /\ p * b \in Int
    BY <2>1, SMT
  <2>3. (a * e) * q <= (c * b) * q /\ (c * q) * b <= (p * e) * b
    BY <2>1, <2>2, Ordered
  <2>4. (a * e) * q = (a * q) * e /\ (c * b) * q = (c * q) * b /\ (p * e) * b = (p * b) * e
        /\ (a * e) * q \in Int /\ (c * b) * q \in Int /\ (p * e) * b \in Int
    BY <2>1, SMT
  <2>5. (a * q) * e <= (p * b) * e
    BY <2>3, <2>4
  <2>6. a * q <= p * b
    BY <2>1, <2>2, <2>5, Cancelled
  <2> QED
    BY <2>6 DEF AtMost, a, b, p, q
<1> QED
  BY <1>1, <1>2

Least(S) == {f \in S : \A g \in S : AtMost(f, g)}
Largest(S) == {f \in S : \A g \in S : AtMost(g, f)}

\* Larger by one element.
LEMMA LeastGrows ==
    ASSUME NEW S \in SUBSET Frac, NEW h \in Frac
    PROVE  /\ Least(S) # {} => Least(S \cup {h}) # {}
           /\ Largest(S) # {} => Largest(S \cup {h}) # {}
<1>1. ASSUME NEW f \in Least(S) PROVE Least(S \cup {h}) # {}
  <2>1. CASE AtMost(f, h)
    <3>1. f \in Least(S \cup {h})
      BY <1>1, <2>1 DEF Least
    <3> QED
      BY <3>1
  <2>2. CASE AtMost(h, f)
    <3>1. h \in Least(S \cup {h})
      BY <1>1, <2>2, AtMostOrders DEF Least
    <3> QED
      BY <3>1
  <2> QED
    BY <1>1, <2>1, <2>2, AtMostOrders DEF Least
<1>2. ASSUME NEW f \in Largest(S) PROVE Largest(S \cup {h}) # {}
  <2>1. CASE AtMost(h, f)
    <3>1. f \in Largest(S \cup {h})
      BY <1>2, <2>1 DEF Largest
    <3> QED
      BY <3>1
  <2>2. CASE AtMost(f, h)
    <3>1. h \in Largest(S \cup {h})
      BY <1>2, <2>2, AtMostOrders DEF Largest
    <3> QED
      BY <3>1
  <2> QED
    BY <1>2, <2>1, <2>2, AtMostOrders DEF Largest
<1> QED
  BY <1>1, <1>2

LEMMA OneIsExtreme == \A f \in Frac : Least({f}) # {} /\ Largest({f}) # {}
<1> SUFFICES ASSUME NEW f \in Frac PROVE f \in Least({f}) /\ f \in Largest({f})
  OBVIOUS
<1> QED
  BY AtMostOrders DEF Least, Largest

-----------------------------------------------------------------------------
(* The receiver's motion.                                                    *)

Route ==
    /\ motion.t \in Seq(Nat) /\ motion.d \in Seq(Nat) /\ Len(motion.d) = Len(motion.t)
    /\ motion.speed \in Nat
    /\ \A r, s \in 1 .. Len(motion.t) :
         r <= s => /\ motion.t[r] <= motion.t[s] /\ motion.d[r] <= motion.d[s]
                   /\ motion.t[r] = motion.t[s] => motion.d[r] = motion.d[s]

LEMMA MotionIsRoute == motion \in Motions => Route
  BY MotionAssumption DEF Route

LEMMA PointsTyped ==
    ASSUME Route
    PROVE  /\ Len(motion.t) \in Nat
           /\ \A s \in 1 .. Len(motion.t) : motion.t[s] \in Nat /\ motion.d[s] \in Nat
  BY ElementOfSeq, LenProperties DEF Route

\* From one point of the route to the next.
LEMMA PointsOrdered ==
    ASSUME Route, NEW s \in 1 .. Len(motion.t) - 1
    PROVE  /\ s \in 1 .. Len(motion.t) /\ s + 1 \in 1 .. Len(motion.t)
           /\ motion.t[s] <= motion.t[s + 1] /\ motion.d[s] <= motion.d[s + 1]
           /\ motion.t[s] = motion.t[s + 1] => motion.d[s] = motion.d[s + 1]
<1>1. s \in 1 .. Len(motion.t) /\ s + 1 \in 1 .. Len(motion.t) /\ s <= s + 1
  BY PointsTyped
<1> QED
  BY <1>1 DEF Route

LEMMA StretchTyped ==
    ASSUME Route, NEW s \in 1 .. Len(motion.t) - 1, motion.t[s + 1] > motion.t[s]
    PROVE  Stretch(s) \in Frac
<1>1. /\ motion.t[s] \in Nat /\ motion.t[s + 1] \in Nat
      /\ motion.d[s] \in Nat /\ motion.d[s + 1] \in Nat
      /\ motion.d[s] <= motion.d[s + 1]
  BY PointsTyped, PointsOrdered
<1>2. motion.d[s + 1] - motion.d[s] \in Nat /\ motion.t[s + 1] - motion.t[s] \in Nat \ {0}
  BY <1>1
<1> QED
  BY <1>2 DEF Stretch, Frac

\* The speeds of the first `most` stretches.
SpeedsUpTo(most) ==
    {[n |-> 0, d |-> 1]} \cup
    {Stretch(s) : s \in {r \in 1 .. most : motion.t[r + 1] > motion.t[r]}}

LEMMA SpeedsTyped ==
    ASSUME Route, NEW most \in 0 .. Len(motion.t) - 1
    PROVE  SpeedsUpTo(most) \in SUBSET Frac
<1>1. Len(motion.t) \in Nat
  BY LenProperties DEF Route
<1>2. [n |-> 0, d |-> 1] \in Frac
  BY DEF Frac
<1>3. \A s \in {r \in 1 .. most : motion.t[r + 1] > motion.t[r]} : Stretch(s) \in Frac
  BY <1>1, StretchTyped
<1> QED
  BY <1>2, <1>3 DEF SpeedsUpTo

LEMMA FastestUpTo ==
    ASSUME Route, NEW most \in 0 .. Len(motion.t) - 1
    PROVE  Largest(SpeedsUpTo(most)) # {}
<1> DEFINE Without == {k \in 0 .. Len(motion.t) - 1 : Largest(SpeedsUpTo(k)) = {}}
<1>1. Len(motion.t) \in Nat
  BY LenProperties DEF Route
<1> SUFFICES ASSUME Without # {} PROVE FALSE
  OBVIOUS
<1>2. Without \in SUBSET Nat
  BY <1>1
<1>3. PICK k \in Without : \A f \in Without : k <= f
  BY <1>2, LeastOf
<1> HIDE DEF Without
<1>4. k \in 0 .. Len(motion.t) - 1 /\ Largest(SpeedsUpTo(k)) = {}
  BY <1>3 DEF Without
<1>5. CASE k = 0
  <2>1. SpeedsUpTo(0) = {[n |-> 0, d |-> 1]}
    BY DEF SpeedsUpTo
  <2>2. [n |-> 0, d |-> 1] \in Frac
    BY DEF Frac
  <2> QED
    BY <1>4, <1>5, <2>1, <2>2, OneIsExtreme
<1>6. CASE k > 0
  <2>1. k - 1 \in 0 .. Len(motion.t) - 1 /\ k - 1 \notin Without
    BY <1>1, <1>3, <1>4, <1>6
  <2>2. Largest(SpeedsUpTo(k - 1)) # {}
    BY <2>1 DEF Without
  <2>3. 1 .. k = (1 .. (k - 1)) \cup {k} /\ k \in 1 .. Len(motion.t) - 1
    BY <1>1, <1>4, <1>6
  <2>4. CASE motion.t[k + 1] > motion.t[k]
    <3>1. SpeedsUpTo(k) = SpeedsUpTo(k - 1) \cup {Stretch(k)}
      BY <2>3, <2>4 DEF SpeedsUpTo
    <3>2. SpeedsUpTo(k - 1) \in SUBSET Frac /\ Stretch(k) \in Frac
      BY <2>1, <2>3, <2>4, SpeedsTyped, StretchTyped
    <3> QED
      BY <1>4, <2>2, <3>1, <3>2, LeastGrows
  <2>5. CASE ~ (motion.t[k + 1] > motion.t[k])
    <3>1. SpeedsUpTo(k) = SpeedsUpTo(k - 1)
      BY <2>3, <2>5 DEF SpeedsUpTo
    <3> QED
      BY <1>4, <2>2, <3>1
  <2> QED
    BY <2>4, <2>5
<1> QED
  BY <1>1, <1>4, <1>5, <1>6

\* No stretch is faster than vmax.
LEMMA TopSpeed ==
    ASSUME Route
    PROVE  /\ vmax \in Frac
           /\ \A w \in Speeds : AtMost(w, vmax)
<1>1. Len(motion.t) \in Nat
  BY LenProperties DEF Route
<1>2. Speeds \in SUBSET Frac /\ Largest(Speeds) # {}
  <2>1. CASE profile
    <3>1. Speeds = SpeedsUpTo(Len(motion.t) - 1) /\ Len(motion.t) - 1 \in 0 .. Len(motion.t) - 1
      BY <1>1, <2>1 DEF Speeds, SpeedsUpTo, profile
    <3> QED
      BY <3>1, SpeedsTyped, FastestUpTo
  <2>2. CASE ~profile
    <3>1. Speeds = {[n |-> motion.speed, d |-> 1]} /\ [n |-> motion.speed, d |-> 1] \in Frac
      BY <2>2 DEF Speeds, Route, Frac
    <3> QED
      BY <3>1, OneIsExtreme
  <2> QED
    BY <2>1, <2>2
<1>3. \E v \in Speeds : \A w \in Speeds : ~Above(w, v)
  BY <1>2, AtMostOrders DEF Largest
<1>4. vmax \in Speeds /\ \A w \in Speeds : ~Above(w, vmax)
  BY <1>3 DEF vmax
<1> QED
  BY <1>2, <1>4, AtMostOrders

LEMMA ScalesTyped ==
    \A s \in {"state", "shadow", "diffuse"} :
        Scales[s].d \in Nat \ {0} /\ Scales[s].tau \in Nat \ {0}
  BY WalkAssumption

LEMMA SpacingTyped ==
    ASSUME vmax \in Frac, NEW s \in {"state", "shadow", "diffuse"}
    PROVE  Spacing(Scales[s]) \in [n : Nat \ {0}, d : Nat \ {0}]
<1> DEFINE dist == Scales[s].d
           tau == Scales[s].tau
           v == vmax.n
           u == vmax.d
<1>1. dist \in Nat \ {0} /\ tau \in Nat \ {0} /\ v \in Nat /\ u \in Nat \ {0} /\ PerTau \in Nat \ {0}
  BY ScalesTyped, WalkAssumption DEF Frac
<1>2. Spacing(Scales[s]) = [n |-> u * dist * tau, d |-> PerTau * (v * tau + u * dist)]
  BY DEF Spacing
<1> HIDE DEF dist, tau, u, v
<1>3. u * dist \in Nat \ {0} /\ v * tau \in Nat
  BY <1>1, SMT
<1>4. u * dist * tau \in Nat \ {0} /\ v * tau + u * dist \in Nat \ {0}
  BY <1>1, <1>3, SMT
<1>5. PerTau * (v * tau + u * dist) \in Nat \ {0}
  BY <1>1, <1>4, SMT
<1> QED
  BY <1>2, <1>4, <1>5

\* The knots are as close as the closest spacing.
LEMMA KnotSpacing ==
    ASSUME Route
    PROVE  /\ dt_knot \in [n : Nat \ {0}, d : Nat \ {0}]
           /\ \A s \in {"state", "shadow", "diffuse"} : AtMost(dt_knot, Spacing(Scales[s]))
<1> DEFINE f1 == Spacing(Scales["state"])
           f2 == Spacing(Scales["shadow"])
           f3 == Spacing(Scales["diffuse"])
           Positive == [n : Nat \ {0}, d : Nat \ {0}]
<1>1. f1 \in Positive /\ f2 \in Positive /\ f3 \in Positive /\ KnotMax \in Positive
  BY TopSpeed, SpacingTyped, WalkAssumption
<1>2. Spacings = (({f1} \cup {f2}) \cup {f3}) \cup {KnotMax}
  BY DEF Spacings
<1>3. \A f \in Positive : f \in Frac
  BY DEF Frac
<1> HIDE DEF f1, f2, f3
<1>4. Least(Spacings) # {}
  BY <1>1, <1>2, <1>3, OneIsExtreme, LeastGrows
<1>5. \E f \in Spacings : \A g \in Spacings : ~Above(f, g)
  BY <1>1, <1>2, <1>3, <1>4, AtMostOrders DEF Least
<1>6. dt_knot \in Spacings /\ \A g \in Spacings : ~Above(dt_knot, g)
  BY <1>5 DEF dt_knot
<1>7. dt_knot \in Positive /\ \A g \in Spacings : AtMost(dt_knot, g)
  BY <1>1, <1>2, <1>3, <1>6, AtMostOrders
<1> QED
  BY <1>2, <1>7 DEF f1, f2, f3

-----------------------------------------------------------------------------
(* What the receiver walks between two times, which have the denominator b.  *)

Node(s) == [n |-> motion.d[s], d |-> 1]

\* A time nn / b on stretch s.
Inside(s, nn, b) ==
    [n |-> motion.d[s] * b * (motion.t[s + 1] - motion.t[s])
             + (nn - motion.t[s] * b) * (motion.d[s + 1] - motion.d[s]),
     d |-> b * (motion.t[s + 1] - motion.t[s])]

WalkedAt(nn, b) == Distance([n |-> nn, d |-> b])

\* From f1 to f2 the receiver is no faster than vmax.
SlowWalk(n1, f1, n2, f2, b) == Slow(vmax.n, vmax.d * b, n1, f1.n, f1.d, n2, f2.n, f2.d)

LEMMA StretchIsSlow ==
    ASSUME NEW v \in Nat, NEW u \in Nat, NEW rise \in Nat, NEW time \in Nat \ {0},
           rise * u <= v * time,
           NEW b \in Nat \ {0}, NEW gap \in Nat, NEW c \in Nat
    PROVE  (gap * rise * c) * (u * b) <= v * gap * (c * (b * time))
<1>1. gap * c * b \in Nat /\ rise * u \in Int /\ v * time \in Int
  BY SMT
<1>2. (rise * u) * (gap * c * b) <= (v * time) * (gap * c * b)
  BY <1>1, Ordered
<1>3. (rise * u) * (gap * c * b) = (gap * rise * c) * (u * b)
  BY SMT
<1>4. (v * time) * (gap * c * b) = v * gap * (c * (b * time))
  BY SMT
<1> QED
  BY <1>2, <1>3, <1>4

\* A stretch is no faster than vmax.
LEMMA StretchAtMost ==
    ASSUME Route, profile, NEW s \in 1 .. Len(motion.t) - 1, motion.t[s] < motion.t[s + 1]
    PROVE  /\ vmax.n \in Nat /\ vmax.d \in Nat \ {0}
           /\ motion.d[s + 1] - motion.d[s] \in Nat /\ motion.t[s + 1] - motion.t[s] \in Nat \ {0}
           /\ (motion.d[s + 1] - motion.d[s]) * vmax.d <= vmax.n * (motion.t[s + 1] - motion.t[s])
<1>1. motion.t[s + 1] > motion.t[s]
  BY PointsTyped, PointsOrdered
<1>2. Stretch(s) \in Speeds /\ Stretch(s) \in Frac
  BY <1>1, StretchTyped DEF Speeds
<1>3. AtMost(Stretch(s), vmax) /\ vmax \in Frac
  BY <1>2, TopSpeed
<1> QED
  BY <1>2, <1>3 DEF AtMost, Stretch, Frac

\* Along one stretch: between two times inside, from its start, to its end.
LEMMA AlongStretch ==
    ASSUME Route, profile, NEW s \in 1 .. Len(motion.t) - 1, motion.t[s] < motion.t[s + 1],
           NEW b \in Nat \ {0}, NEW n1 \in Int, NEW n2 \in Int
    PROVE  /\ n1 <= n2 => SlowWalk(n1, Inside(s, n1, b), n2, Inside(s, n2, b), b)
           /\ motion.t[s] * b <= n2 =>
                SlowWalk(motion.t[s] * b, Node(s), n2, Inside(s, n2, b), b)
           /\ n1 <= motion.t[s + 1] * b =>
                SlowWalk(n1, Inside(s, n1, b), motion.t[s + 1] * b, Node(s + 1), b)
<1> DEFINE time == motion.t[s + 1] - motion.t[s]
           rise == motion.d[s + 1] - motion.d[s]
           t0 == motion.t[s]
           d0 == motion.d[s]
           v == vmax.n
           u == vmax.d
<1>1. t0 \in Nat /\ d0 \in Nat /\ time \in Nat \ {0} /\ rise \in Nat
      /\ v \in Nat /\ u \in Nat \ {0} /\ rise * u <= v * time
  BY PointsTyped, PointsOrdered, StretchAtMost
<1>2. motion.t[s + 1] = t0 + time /\ motion.d[s + 1] = d0 + rise
  BY PointsTyped, PointsOrdered
<1>3. \A nn : Inside(s, nn, b) = [n |-> d0 * b * time + (nn - t0 * b) * rise, d |-> b * time]
  BY DEF Inside
<1>4. Node(s) = [n |-> d0, d |-> 1] /\ Node(s + 1) = [n |-> d0 + rise, d |-> 1]
  BY <1>2 DEF Node
<1>5. \A k1, f1, k2, f2 : SlowWalk(k1, f1, k2, f2, b) <=>
         Slow(v, u * b, k1, f1.n, f1.d, k2, f2.n, f2.d)
  BY DEF SlowWalk
<1> HIDE DEF time, rise, t0, d0, v, u
<1>6. b * time \in Nat /\ 1 \in Nat
  BY <1>1, SMT
<1>7. ASSUME n1 <= n2 PROVE SlowWalk(n1, Inside(s, n1, b), n2, Inside(s, n2, b), b)
  <2> DEFINE p1 == d0 * b * time + (n1 - t0 * b) * rise
             p2 == d0 * b * time + (n2 - t0 * b) * rise
  <2>1. p2 * (b * time) - p1 * (b * time) = (n2 - n1) * rise * (b * time)
    BY <1>1, SMT
  <2>2. n2 - n1 \in Nat
    BY <1>7
  <2>3. ((n2 - n1) * rise * (b * time)) * (u * b) <= v * (n2 - n1) * ((b * time) * (b * time))
    BY <1>1, <1>6, <2>2, StretchIsSlow
  <2>4. 0 <= (n2 - n1) * rise * (b * time)
    BY <1>1, <1>6, <2>2, SMT
  <2> HIDE DEF p1, p2
  <2>5. Slow(v, u * b, n1, p1, b * time, n2, p2, b * time)
    BY <2>1, <2>3, <2>4 DEF Slow
  <2> QED
    BY <1>3, <1>5, <2>5 DEF p1, p2
<1>8. ASSUME t0 * b <= n2 PROVE SlowWalk(t0 * b, Node(s), n2, Inside(s, n2, b), b)
  <2> DEFINE p2 == d0 * b * time + (n2 - t0 * b) * rise
  <2>1. p2 * 1 - d0 * (b * time) = (n2 - t0 * b) * rise * 1
    BY <1>1, SMT
  <2>2. n2 - t0 * b \in Nat
    BY <1>1, <1>8, SMT
  <2>3. ((n2 - t0 * b) * rise * 1) * (u * b) <= v * (n2 - t0 * b) * (1 * (b * time))
    BY <1>1, <1>6, <2>2, StretchIsSlow
  <2>4. 0 <= (n2 - t0 * b) * rise * 1
    BY <1>1, <2>2, SMT
  <2> HIDE DEF p2
  <2>5. Slow(v, u * b, t0 * b, d0, 1, n2, p2, b * time)
    BY <2>1, <2>3, <2>4 DEF Slow
  <2> QED
    BY <1>3, <1>4, <1>5, <2>5 DEF p2
<1>9. ASSUME n1 <= (t0 + time) * b
      PROVE  SlowWalk(n1, Inside(s, n1, b), (t0 + time) * b, Node(s + 1), b)
  <2> DEFINE p1 == d0 * b * time + (n1 - t0 * b) * rise
             gap == (t0 + time) * b - n1
  <2>1. (d0 + rise) * (b * time) - p1 * 1 = gap * rise * 1
    BY <1>1, SMT
  <2>2. gap \in Nat
    BY <1>1, <1>9, SMT
  <2>3. (gap * rise * 1) * (u * b) <= v * gap * (1 * (b * time))
    BY <1>1, <1>6, <2>2, StretchIsSlow
  <2>4. 0 <= gap * rise * 1
    BY <1>1, <2>2, SMT
  <2>5. 1 * (b * time) = (b * time) * 1
    BY <1>6
  <2> HIDE DEF p1
  <2>6. Slow(v, u * b, n1, p1, b * time, (t0 + time) * b, d0 + rise, 1)
    BY <2>1, <2>3, <2>4, <2>5 DEF Slow
  <2> QED
    BY <1>3, <1>4, <1>5, <2>6 DEF p1
<1> QED
  BY <1>2, <1>7, <1>8, <1>9 DEF t0
\* From one point of the route to the next, and to any later one.
LEMMA NextNodeSlow ==
    ASSUME Route, profile, NEW b \in Nat \ {0}, NEW w \in 1 .. Len(motion.t) - 1
    PROVE  SlowWalk(motion.t[w] * b, Node(w), motion.t[w + 1] * b, Node(w + 1), b)
<1> DEFINE v == vmax.n
           u == vmax.d
           t0 == motion.t[w]
           d0 == motion.d[w]
           t1 == motion.t[w + 1]
           d1 == motion.d[w + 1]
<1>1. /\ t0 \in Nat /\ d0 \in Nat /\ t1 \in Nat /\ d1 \in Nat
      /\ t0 <= t1 /\ d0 <= d1 /\ (t0 = t1 => d0 = d1)
      /\ v \in Nat /\ u \in Nat
  BY PointsTyped, PointsOrdered, TopSpeed DEF Frac
<1>2. t0 < t1 => (d1 - d0) * u <= v * (t1 - t0)
  BY StretchAtMost
<1>3. SlowWalk(t0 * b, Node(w), t1 * b, Node(w + 1), b)
        <=> Slow(v, u * b, t0 * b, d0, 1, t1 * b, d1, 1)
  BY DEF SlowWalk, Node
<1> HIDE DEF v, u, t0, d0, t1, d1
<1>4. (d1 - d0) * u <= v * (t1 - t0)
  <2>1. CASE t0 = t1
    <3>1. d1 - d0 = 0 /\ t1 - t0 = 0 /\ 0 * u = 0 /\ v * 0 = 0
      BY <1>1, <2>1
    <3> QED
      BY <3>1
  <2> QED
    BY <1>1, <1>2, <2>1
<1>5. d1 * 1 - d0 * 1 = d1 - d0 /\ d1 - d0 \in Nat /\ t1 - t0 \in Nat
  BY <1>1
<1>6. ((d1 - d0) * u) * b <= (v * (t1 - t0)) * b
  <2>1. (d1 - d0) * u \in Int /\ v * (t1 - t0) \in Int
    BY <1>1, <1>5, SMT
  <2> QED
    BY <1>4, <2>1, Ordered
<1>7. ((d1 - d0) * u) * b = (d1 - d0) * (u * b)
      /\ (v * (t1 - t0)) * b = v * (t1 * b - t0 * b) * (1 * 1)
  BY <1>1, SMT
<1>8. Slow(v, u * b, t0 * b, d0, 1, t1 * b, d1, 1)
  BY <1>5, <1>6, <1>7 DEF Slow
<1> QED
  BY <1>3, <1>8 DEF t0, t1

LEMMA SlowWalkAdds ==
    ASSUME Route, NEW b \in Nat \ {0}, NEW n1 \in Int, NEW n2 \in Int, NEW n3 \in Int,
           NEW f1 \in [n : Int, d : Nat \ {0}], NEW f2 \in [n : Int, d : Nat \ {0}],
           NEW f3 \in [n : Int, d : Nat \ {0}],
           SlowWalk(n1, f1, n2, f2, b), SlowWalk(n2, f2, n3, f3, b)
    PROVE  SlowWalk(n1, f1, n3, f3, b)
<1>1. vmax.n \in Nat /\ vmax.d * b \in Nat
  <2>1. vmax.n \in Nat /\ vmax.d \in Nat
    BY TopSpeed DEF Frac
  <2> QED
    BY <2>1, SMT
<1>2. f1.n \in Int /\ f2.n \in Int /\ f3.n \in Int
      /\ f1.d \in Nat \ {0} /\ f2.d \in Nat \ {0} /\ f3.d \in Nat \ {0}
  OBVIOUS
<1> QED
  BY <1>1, <1>2, SlowAdds DEF SlowWalk

LEMMA SlowWalkStays ==
    ASSUME Route, NEW b \in Nat \ {0}, NEW nn \in Int, NEW f \in [n : Int, d : Nat \ {0}],
           NEW later \in Int, nn <= later
    PROVE  SlowWalk(nn, f, later, f, b)
<1> DEFINE v == vmax.n
           u == vmax.d * b
           p == f.n
           q == f.d
<1>1. v \in Nat /\ u \in Nat /\ p \in Int /\ q \in Nat
  <2>1. vmax.n \in Nat /\ vmax.d \in Nat
    BY TopSpeed DEF Frac
  <2> QED
    BY <2>1, SMT
<1> HIDE DEF v, u, p, q
<1>2. p * q - p * q = 0 /\ 0 * u = 0
  BY <1>1, SMT
<1>3. 0 <= v * (later - nn) * (q * q)
  <2>1. later - nn \in Nat /\ q * q \in Nat
    BY <1>1, SMT
  <2> QED
    BY <1>1, <2>1, SMT
<1>4. Slow(v, u, nn, p, q, later, p, q)
  BY <1>2, <1>3 DEF Slow
<1> QED
  BY <1>4 DEF SlowWalk, v, u, p, q

\* What is interpolated are fractions, and the times of points are whole.
LEMMA WalkTyped ==
    ASSUME Route, profile, NEW b \in Nat \ {0}
    PROVE  /\ \A k \in 1 .. Len(motion.t) : motion.t[k] * b \in Int /\ Node(k) \in [n : Int, d : Nat \ {0}]
           /\ \A k \in 1 .. Len(motion.t) - 1, nn \in Int :
                motion.t[k] < motion.t[k + 1] => Inside(k, nn, b) \in [n : Int, d : Nat \ {0}]
<1>1. ASSUME NEW k \in 1 .. Len(motion.t)
      PROVE  motion.t[k] * b \in Int /\ Node(k) \in [n : Int, d : Nat \ {0}]
  <2>1. motion.t[k] \in Nat /\ motion.d[k] \in Nat
    BY PointsTyped
  <2>2. motion.t[k] * b \in Int
    BY <2>1, SMT
  <2> QED
    BY <2>1, <2>2 DEF Node
<1>2. ASSUME NEW k \in 1 .. Len(motion.t) - 1, NEW nn \in Int, motion.t[k] < motion.t[k + 1]
      PROVE  Inside(k, nn, b) \in [n : Int, d : Nat \ {0}]
  <2> DEFINE t0 == motion.t[k]
             d0 == motion.d[k]
             time == motion.t[k + 1] - motion.t[k]
             rise == motion.d[k + 1] - motion.d[k]
  <2>1. t0 \in Nat /\ d0 \in Nat /\ time \in Nat \ {0} /\ rise \in Nat
    BY <1>2, PointsTyped, PointsOrdered, StretchAtMost
  <2>2. Inside(k, nn, b) = [n |-> d0 * b * time + (nn - t0 * b) * rise, d |-> b * time]
    BY DEF Inside
  <2> HIDE DEF t0, d0, time, rise
  <2>3. d0 * b * time + (nn - t0 * b) * rise \in Int /\ b * time \in Nat \ {0}
    BY <2>1, SMT
  <2> QED
    BY <2>2, <2>3
<1> QED
  BY <1>1, <1>2

LEMMA NodesSlow ==
    ASSUME Route, profile, NEW b \in Nat \ {0},
           NEW r \in 1 .. Len(motion.t), NEW s \in 1 .. Len(motion.t), r <= s
    PROVE  SlowWalk(motion.t[r] * b, Node(r), motion.t[s] * b, Node(s), b)
<1> DEFINE Reached(k) == SlowWalk(motion.t[r] * b, Node(r), motion.t[k] * b, Node(k), b)
           Missed == {k \in r .. Len(motion.t) : ~Reached(k)}
<1>1. Len(motion.t) \in Nat
  BY PointsTyped
<1> SUFFICES ASSUME Missed # {} PROVE FALSE
  BY <1>1
<1>2. Missed \in SUBSET Nat
  BY <1>1
<1>3. PICK k \in Missed : \A e \in Missed : k <= e
  BY <1>2, LeastOf
<1>4. k \in r .. Len(motion.t) /\ ~Reached(k)
  BY <1>3
<1>5. CASE k = r
  <2>1. motion.t[r] * b \in Int /\ Node(r) \in [n : Int, d : Nat \ {0}]
    BY WalkTyped
  <2>2. motion.t[r] * b <= motion.t[r] * b
    BY <2>1
  <2> QED
    BY <1>4, <1>5, <2>1, <2>2, SlowWalkStays
<1>6. CASE k > r
  <2>1. k - 1 \in r .. Len(motion.t) /\ k - 1 \notin Missed
        /\ k - 1 \in 1 .. Len(motion.t) - 1 /\ k - 1 \in 1 .. Len(motion.t) /\ k \in 1 .. Len(motion.t)
    BY <1>1, <1>3, <1>4, <1>6
  <2>2. Reached(k - 1)
    BY <2>1
  <2>3. (k - 1) + 1 = k
    BY <1>1, <1>4
  <2>4. SlowWalk(motion.t[k - 1] * b, Node(k - 1), motion.t[k] * b, Node(k), b)
    <3> HIDE DEF Missed, Reached
    <3>1. SlowWalk(motion.t[k - 1] * b, Node(k - 1), motion.t[(k - 1) + 1] * b, Node((k - 1) + 1), b)
      BY <2>1, NextNodeSlow
    <3> QED
      BY <2>3, <3>1
  <2>5. /\ motion.t[r] * b \in Int /\ motion.t[k - 1] * b \in Int /\ motion.t[k] * b \in Int
        /\ Node(r) \in [n : Int, d : Nat \ {0}] /\ Node(k - 1) \in [n : Int, d : Nat \ {0}]
        /\ Node(k) \in [n : Int, d : Nat \ {0}]
    <3> HIDE DEF Missed, Reached
    <3>1. motion.t[r] * b \in Int /\ Node(r) \in [n : Int, d : Nat \ {0}]
      BY WalkTyped
    <3>2. motion.t[k] * b \in Int /\ Node(k) \in [n : Int, d : Nat \ {0}]
      BY <2>1, WalkTyped
    <3>3. motion.t[k - 1] * b \in Int /\ Node(k - 1) \in [n : Int, d : Nat \ {0}]
      BY <2>1, WalkTyped
    <3> QED
      BY <3>1, <3>2, <3>3
  <2>6. Reached(k)
    <3>1. SlowWalk(motion.t[r] * b, Node(r), motion.t[k - 1] * b, Node(k - 1), b)
      BY <2>2
    <3> HIDE DEF Missed, Reached
    <3> DEFINE n1 == motion.t[r] * b
               n2 == motion.t[k - 1] * b
               n3 == motion.t[k] * b
               f1 == Node(r)
               f2 == Node(k - 1)
               f3 == Node(k)
    <3>2. n1 \in Int /\ n2 \in Int /\ n3 \in Int
          /\ f1 \in [n : Int, d : Nat \ {0}] /\ f2 \in [n : Int, d : Nat \ {0}]
          /\ f3 \in [n : Int, d : Nat \ {0}]
          /\ SlowWalk(n1, f1, n2, f2, b) /\ SlowWalk(n2, f2, n3, f3, b)
      BY <2>4, <2>5, <3>1
    <3> HIDE DEF n1, n2, n3, f1, f2, f3
    <3>3. SlowWalk(n1, f1, n3, f3, b)
      BY <3>2, SlowWalkAdds
    <3> QED
      BY <3>3 DEF Reached, n1, n3, f1, f3
  <2> QED
    BY <1>4, <2>6
<1> QED
  BY <1>1, <1>4, <1>5, <1>6

\* A time before, at or after point k of the route, or between it and the next.
Placed(k, nn, b) ==
    /\ k >= 1 => motion.t[k] * b <= nn
    /\ k < Len(motion.t) => nn <= motion.t[k + 1] * b
    /\ k = 0 => WalkedAt(nn, b) = Node(1)
    /\ k = Len(motion.t) => WalkedAt(nn, b) = Node(k)
    /\ k \in 1 .. Len(motion.t) - 1 =>
         motion.t[k] < motion.t[k + 1] /\ WalkedAt(nn, b) = Inside(k, nn, b)

LEMMA TimeIsPlaced ==
    ASSUME Route, profile, NEW nn \in Int, NEW b \in Nat \ {0}
    PROVE  \E k \in 0 .. Len(motion.t) : Placed(k, nn, b)
<1> DEFINE most == Len(motion.t)
           Before(s) == motion.t[s] * b <= nn
           s1 == CHOOSE s \in 1 .. most : Before(s) /\ \A r \in s + 1 .. most : ~Before(r)
<1>1. most \in Nat /\ most >= 2 /\ \A k \in 1 .. most : motion.t[k] \in Nat /\ motion.d[k] \in Nat
  BY PointsTyped DEF profile
<1>2. \A k \in 1 .. most : motion.t[k] * b \in Int
  <2> SUFFICES ASSUME NEW k \in 1 .. most PROVE motion.t[k] * b \in Int
    OBVIOUS
  <2>1. motion.t[k] \in Nat
    BY <1>1
  <2> QED
    BY <2>1, SMT
<1>3. /\ nn <= motion.t[1] * b => WalkedAt(nn, b) = Node(1)
      /\ ~ (nn <= motion.t[1] * b) /\ Before(most) => WalkedAt(nn, b) = Node(most)
      /\ ~ (nn <= motion.t[1] * b) /\ ~Before(most) => WalkedAt(nn, b) = Inside(s1, nn, b)
  BY DEF WalkedAt, Distance, Node, Inside
<1> HIDE DEF s1
<1>4. CASE nn <= motion.t[1] * b
  <2>1. Placed(0, nn, b)
    BY <1>1, <1>3, <1>4 DEF Placed
  <2> QED
    BY <1>1, <2>1
<1>5. CASE ~ (nn <= motion.t[1] * b) /\ Before(most)
  <2>1. Placed(most, nn, b)
    BY <1>1, <1>3, <1>5 DEF Placed
  <2> QED
    BY <1>1, <2>1
<1>6. CASE ~ (nn <= motion.t[1] * b) /\ ~Before(most)
  <2> DEFINE Later == {k \in 1 .. most : ~Before(k)}
  <2>1. Later \in SUBSET Nat /\ most \in Later
    BY <1>1, <1>6
  <2>2. PICK e \in Later : \A f \in Later : e <= f
    BY <2>1, LeastOf
  <2>3. 1 \notin Later /\ e \in 1 .. most /\ ~Before(e)
    BY <1>1, <1>2, <1>6, <2>2
  <2>4. e - 1 \in 1 .. most /\ e - 1 \notin Later
    BY <1>1, <2>2, <2>3
  <2>5. Before(e - 1)
    BY <2>4
  <2>6. ASSUME NEW r \in e .. most PROVE ~Before(r)
    <3>1. motion.t[e] <= motion.t[r] /\ motion.t[e] \in Nat /\ motion.t[r] \in Nat /\ r \in 1 .. most
      BY <1>1, <2>3 DEF Route
    <3>2. motion.t[e] * b <= motion.t[r] * b
      BY <3>1, Ordered
    <3> QED
      BY <1>2, <2>3, <3>1, <3>2
  <2>7. \A r \in (e - 1) + 1 .. most : ~Before(r)
    BY <1>1, <2>3, <2>6
  <2>8. \E s \in 1 .. most : Before(s) /\ \A r \in s + 1 .. most : ~Before(r)
    BY <2>4, <2>5, <2>7
  <2> HIDE DEF Before, Later
  <2>9. s1 \in 1 .. most /\ Before(s1) /\ \A r \in s1 + 1 .. most : ~Before(r)
    BY <2>8 DEF s1
  <2>10. s1 # most
    BY <1>6, <2>9
  <2>11. s1 \in 1 .. most - 1 /\ s1 + 1 \in 1 .. most /\ s1 + 1 \in s1 + 1 .. most
    BY <1>1, <2>9, <2>10
  <2>12. motion.t[s1] * b <= nn /\ ~ (motion.t[s1 + 1] * b <= nn)
    BY <2>9, <2>11 DEF Before
  <2>13. motion.t[s1] * b \in Int /\ motion.t[s1 + 1] * b \in Int
         /\ motion.t[s1] \in Nat /\ motion.t[s1 + 1] \in Nat
    BY <1>1, <1>2, <2>9, <2>11
  <2>14. motion.t[s1] < motion.t[s1 + 1]
    <3>1. motion.t[s1] = motion.t[s1 + 1] => motion.t[s1] * b = motion.t[s1 + 1] * b
      OBVIOUS
    <3>2. motion.t[s1] <= motion.t[s1 + 1]
      BY <2>11, PointsOrdered
    <3> QED
      BY <2>12, <2>13, <3>1, <3>2
  <2>15. Placed(s1, nn, b)
    BY <1>1, <1>3, <1>6, <2>11, <2>12, <2>13, <2>14 DEF Placed
  <2> QED
    BY <1>1, <2>9, <2>15
<1> QED
  BY <1>4, <1>5, <1>6
LEMMA PlacedTyped ==
    ASSUME Route, profile, NEW b \in Nat \ {0}, NEW nn \in Int,
           NEW k \in 0 .. Len(motion.t), Placed(k, nn, b)
    PROVE  WalkedAt(nn, b) \in [n : Int, d : Nat \ {0}]
<1>1. Len(motion.t) \in Nat /\ Len(motion.t) >= 2
  BY PointsTyped DEF profile
<1>2. CASE k = 0
  BY <1>1, <1>2, WalkTyped DEF Placed
<1>3. CASE k = Len(motion.t)
  BY <1>1, <1>3, WalkTyped DEF Placed
<1>4. CASE k \in 1 .. Len(motion.t) - 1
  <2>1. motion.t[k] < motion.t[k + 1] /\ WalkedAt(nn, b) = Inside(k, nn, b)
    BY <1>4 DEF Placed
  <2> QED
    BY <1>4, <2>1, WalkTyped
<1> QED
  BY <1>1, <1>2, <1>3, <1>4

\* On to the next point, and from the last one.
LEMMA ToNext ==
    ASSUME Route, profile, NEW b \in Nat \ {0}, NEW nn \in Int,
           NEW k \in 0 .. Len(motion.t) - 1, Placed(k, nn, b)
    PROVE  SlowWalk(nn, WalkedAt(nn, b), motion.t[k + 1] * b, Node(k + 1), b)
<1>1. Len(motion.t) \in Nat /\ Len(motion.t) >= 2
  BY PointsTyped DEF profile
<1>2. nn <= motion.t[k + 1] * b
  BY <1>1 DEF Placed
<1>3. CASE k = 0
  <2>1. WalkedAt(nn, b) = Node(1) /\ k + 1 = 1
    BY <1>3 DEF Placed
  <2>2. motion.t[1] * b \in Int /\ Node(1) \in [n : Int, d : Nat \ {0}]
    BY <1>1, WalkTyped
  <2>3. SlowWalk(nn, Node(1), motion.t[1] * b, Node(1), b)
    BY <1>2, <2>1, <2>2, SlowWalkStays
  <2> QED
    BY <2>1, <2>3
<1>4. CASE k \in 1 .. Len(motion.t) - 1
  <2>1. motion.t[k] < motion.t[k + 1] /\ WalkedAt(nn, b) = Inside(k, nn, b)
    BY <1>4 DEF Placed
  <2>2. SlowWalk(nn, Inside(k, nn, b), motion.t[k + 1] * b, Node(k + 1), b)
    BY <1>2, <1>4, <2>1, AlongStretch
  <2> QED
    BY <2>1, <2>2
<1> QED
  BY <1>1, <1>3, <1>4

LEMMA FromLast ==
    ASSUME Route, profile, NEW b \in Nat \ {0}, NEW nn \in Int,
           NEW k \in 1 .. Len(motion.t), Placed(k, nn, b)
    PROVE  SlowWalk(motion.t[k] * b, Node(k), nn, WalkedAt(nn, b), b)
<1>1. Len(motion.t) \in Nat
  BY PointsTyped
<1>2. motion.t[k] * b <= nn
  BY DEF Placed
<1>3. CASE k = Len(motion.t)
  <2>1. WalkedAt(nn, b) = Node(k)
    BY <1>3 DEF Placed
  <2>2. motion.t[k] * b \in Int /\ Node(k) \in [n : Int, d : Nat \ {0}]
    BY WalkTyped
  <2>3. SlowWalk(motion.t[k] * b, Node(k), nn, Node(k), b)
    BY <1>2, <2>2, SlowWalkStays
  <2> QED
    BY <2>1, <2>3
<1>4. CASE k \in 1 .. Len(motion.t) - 1
  <2>1. motion.t[k] < motion.t[k + 1] /\ WalkedAt(nn, b) = Inside(k, nn, b)
    BY <1>4 DEF Placed
  <2>2. SlowWalk(motion.t[k] * b, Node(k), nn, Inside(k, nn, b), b)
    BY <1>2, <1>4, <2>1, AlongStretch
  <2> QED
    BY <2>1, <2>2
<1> QED
  BY <1>1, <1>3, <1>4

\* A route is walked forwards, and never faster than vmax.
LEMMA RouteIsSlow ==
    ASSUME Route, profile, NEW b \in Nat \ {0}, NEW n1 \in Int, NEW n2 \in Int, n1 <= n2
    PROVE  SlowWalk(n1, WalkedAt(n1, b), n2, WalkedAt(n2, b), b)
<1>1. Len(motion.t) \in Nat
  BY PointsTyped
<1>2. PICK k1 \in 0 .. Len(motion.t) : Placed(k1, n1, b)
  BY TimeIsPlaced
<1>3. PICK k2 \in 0 .. Len(motion.t) : Placed(k2, n2, b)
  BY TimeIsPlaced
<1>4. WalkedAt(n1, b) \in [n : Int, d : Nat \ {0}] /\ WalkedAt(n2, b) \in [n : Int, d : Nat \ {0}]
  BY <1>2, <1>3, PlacedTyped
<1>5. CASE n1 = n2
  BY <1>4, <1>5, SlowWalkStays
<1>6. CASE n1 < n2 /\ k1 = k2
  <2>1. CASE k1 \in 1 .. Len(motion.t) - 1
    <3>1. /\ motion.t[k1] < motion.t[k1 + 1]
          /\ WalkedAt(n1, b) = Inside(k1, n1, b) /\ WalkedAt(n2, b) = Inside(k1, n2, b)
      BY <1>2, <1>3, <1>6, <2>1 DEF Placed
    <3>2. SlowWalk(n1, Inside(k1, n1, b), n2, Inside(k1, n2, b), b)
      BY <2>1, <3>1, AlongStretch
    <3> QED
      BY <3>1, <3>2
  <2>2. CASE k1 \notin 1 .. Len(motion.t) - 1
    <3>1. k1 = 0 \/ k1 = Len(motion.t)
      BY <1>1, <2>2
    <3>2. WalkedAt(n1, b) = WalkedAt(n2, b)
      BY <1>2, <1>3, <1>6, <3>1 DEF Placed
    <3>3. SlowWalk(n1, WalkedAt(n1, b), n2, WalkedAt(n1, b), b)
      BY <1>4, SlowWalkStays
    <3> QED
      BY <3>2, <3>3
  <2> QED
    BY <2>1, <2>2
<1>7. CASE n1 < n2 /\ k1 < k2
  <2>1. k1 \in 0 .. Len(motion.t) - 1 /\ k2 \in 1 .. Len(motion.t) /\ k1 + 1 \in 1 .. Len(motion.t)
        /\ k1 + 1 <= k2
    BY <1>1, <1>7
  <2> DEFINE f1 == WalkedAt(n1, b)
             f2 == WalkedAt(n2, b)
             g1 == Node(k1 + 1)
             g2 == Node(k2)
             t1 == motion.t[k1 + 1] * b
             t2 == motion.t[k2] * b
  <2>2. SlowWalk(n1, f1, t1, g1, b)
    BY <1>2, <2>1, ToNext
  <2>3. SlowWalk(t1, g1, t2, g2, b)
    BY <2>1, NodesSlow
  <2>4. SlowWalk(t2, g2, n2, f2, b)
    BY <1>3, <2>1, FromLast
  <2>5. t1 \in Int /\ g1 \in [n : Int, d : Nat \ {0}]
    BY <2>1, WalkTyped
  <2>6. t2 \in Int /\ g2 \in [n : Int, d : Nat \ {0}]
    BY <2>1, WalkTyped
  <2>7. f1 \in [n : Int, d : Nat \ {0}] /\ f2 \in [n : Int, d : Nat \ {0}]
    BY <1>4
  <2> HIDE DEF f1, f2, g1, g2, t1, t2
  <2>8. SlowWalk(n1, f1, t2, g2, b)
    BY <2>2, <2>3, <2>5, <2>6, <2>7, SlowWalkAdds
  <2>9. SlowWalk(n1, f1, n2, f2, b)
    BY <2>4, <2>6, <2>7, <2>8, SlowWalkAdds
  <2> QED
    BY <2>9 DEF f1, f2
<1>8. CASE n1 < n2 /\ k1 > k2
  <2>1. k2 + 1 \in 1 .. Len(motion.t) /\ k1 \in 1 .. Len(motion.t) /\ k2 + 1 <= k1
    BY <1>1, <1>8
  <2>2. motion.t[k1] * b <= n1 /\ n2 <= motion.t[k2 + 1] * b
    BY <1>2, <1>3, <2>1 DEF Placed
  <2>3. motion.t[k2 + 1] <= motion.t[k1] /\ motion.t[k2 + 1] \in Nat /\ motion.t[k1] \in Nat
    BY <2>1, PointsTyped DEF Route
  <2>4. motion.t[k2 + 1] * b <= motion.t[k1] * b
    BY <2>3, Ordered
  <2>5. motion.t[k2 + 1] * b \in Int /\ motion.t[k1] * b \in Int
    BY <2>1, WalkTyped
  <2> QED
    BY <1>8, <2>2, <2>4, <2>5
<1> QED
  BY <1>1, <1>5, <1>6, <1>7, <1>8

\* So is every motion.
LEMMA WalkIsSlow ==
    ASSUME Route, NEW b \in Nat \ {0}, NEW n1 \in Int, NEW n2 \in Int, n1 <= n2
    PROVE  /\ WalkedAt(n1, b) \in [n : Int, d : Nat \ {0}]
           /\ WalkedAt(n2, b) \in [n : Int, d : Nat \ {0}]
           /\ SlowWalk(n1, WalkedAt(n1, b), n2, WalkedAt(n2, b), b)
<1>1. CASE profile
  <2>1. \A nn \in Int : WalkedAt(nn, b) \in [n : Int, d : Nat \ {0}]
    BY <1>1, TimeIsPlaced, PlacedTyped
  <2> QED
    BY <1>1, <2>1, RouteIsSlow
<1>2. CASE ~profile
  <2> DEFINE v == motion.speed
  <2>1. \A nn : WalkedAt(nn, b) = [n |-> v * nn, d |-> b]
    BY <1>2 DEF WalkedAt, Distance
  <2>2. vmax = [n |-> v, d |-> 1]
    <3>1. Speeds = {[n |-> v, d |-> 1]}
      BY <1>2 DEF Speeds
    <3>2. \A w \in Speeds : ~Above(w, [n |-> v, d |-> 1])
      <4>1. v \in Nat
        BY DEF Route
      <4>2. ~ (v * 1 > v * 1)
        BY <4>1
      <4> QED
        BY <3>1, <4>2 DEF Above
    <3> QED
      BY <3>1, <3>2 DEF vmax
  <2>3. v \in Nat
    BY DEF Route
  <2> HIDE DEF v
  <2>4. v * n1 \in Int /\ v * n2 \in Int
    BY <2>3, SMT
  <2>5. (v * n2) * b - (v * n1) * b = v * (n2 - n1) * b
        /\ (v * (n2 - n1) * b) * (1 * b) = v * (n2 - n1) * (b * b)
    BY <2>3, SMT
  <2>6. 0 <= v * (n2 - n1) * b
    <3>1. n2 - n1 \in Nat
      OBVIOUS
    <3> QED
      BY <2>3, <3>1, SMT
  <2>7. v * (n2 - n1) * b \in Int /\ v * (n2 - n1) * (b * b) \in Int
    BY <2>3, SMT
  <2>8. Slow(v, 1 * b, n1, v * n1, b, n2, v * n2, b)
    BY <2>5, <2>6, <2>7 DEF Slow
  <2>9. SlowWalk(n1, WalkedAt(n1, b), n2, WalkedAt(n2, b), b)
    BY <2>1, <2>2, <2>8 DEF SlowWalk
  <2> QED
    BY <2>1, <2>4, <2>9
<1> QED
  BY <1>1, <1>2
-----------------------------------------------------------------------------
(* Grid points: quotients rounded down.                                      *)

LEMMA QuotientIs ==
    ASSUME NEW a \in Int, NEW b \in Nat \ {0}
    PROVE  a \div b \in Int /\ (a \div b) * b <= a /\ a < (a \div b + 1) * b
<1>1. a \div b \in Int
  BY SMT
<1>2. a % b \in 0 .. (b - 1)
  BY SMT
<1>3. a = b * (a \div b) + (a % b)
  BY SMT
<1> DEFINE q == a \div b
           r == a % b
<1>4. q \in Int /\ r \in Int /\ 0 <= r /\ r < b /\ a = b * q + r
  BY <1>1, <1>2, <1>3
<1> HIDE DEF q, r
<1>5. q * b = b * q /\ (q + 1) * b = b * q + b /\ b * q \in Int
  BY <1>4, SMT
<1>6. q * b <= a /\ a < (q + 1) * b
  BY <1>4, <1>5
<1> QED
  BY <1>4, <1>6 DEF q

LEMMA QuotientsOrdered ==
    ASSUME NEW a1 \in Int, NEW a2 \in Int, NEW b1 \in Nat \ {0}, NEW b2 \in Nat \ {0},
           a1 * b2 <= a2 * b1
    PROVE  /\ a1 \div b1 <= a2 \div b2
           /\ a2 * b1 - a1 * b2 <= b1 * b2 => a2 \div b2 <= a1 \div b1 + 1
<1> DEFINE q1 == a1 \div b1
           q2 == a2 \div b2
<1>1. /\ q1 \in Int /\ q1 * b1 <= a1 /\ a1 < (q1 + 1) * b1
      /\ q2 \in Int /\ q2 * b2 <= a2 /\ a2 < (q2 + 1) * b2
  BY QuotientIs
<1> HIDE DEF q1, q2
<1>2. /\ q1 * b1 \in Int /\ q2 * b2 \in Int /\ (q1 + 1) * b1 \in Int /\ (q2 + 1) * b2 \in Int
      /\ a1 * b2 \in Int /\ a2 * b1 \in Int /\ b1 * b2 \in Nat \ {0}
  BY <1>1, SMT
<1> DEFINE bb == b1 * b2
<1>3. q1 * bb <= a1 * b2 /\ a2 * b1 < (q2 + 1) * bb /\ q2 * bb <= a2 * b1
  <2>1. (q1 * b1) * b2 <= a1 * b2 /\ (q2 * b2) * b1 <= a2 * b1
    BY <1>1, <1>2, Ordered
  <2>2. (a2 + 1) * b1 <= ((q2 + 1) * b2) * b1
    BY <1>1, <1>2, Ordered, a2 + 1 \in Int, a2 + 1 <= (q2 + 1) * b2
  <2>3. (q1 * b1) * b2 = q1 * bb /\ (q2 * b2) * b1 = q2 * bb /\ ((q2 + 1) * b2) * b1 = (q2 + 1) * bb
        /\ (a2 + 1) * b1 = a2 * b1 + b1
    BY <1>1, SMT
  <2>4. (q2 + 1) * bb \in Int /\ q1 * bb \in Int /\ q2 * bb \in Int
    BY <1>1, <1>2, SMT
  <2> QED
    BY <1>2, <2>1, <2>2, <2>3, <2>4
<1>4. a1 * b2 < (q1 + 1) * bb
  <2>1. (a1 + 1) * b2 <= ((q1 + 1) * b1) * b2
    BY <1>1, <1>2, Ordered, a1 + 1 \in Int, a1 + 1 <= (q1 + 1) * b1
  <2>2. ((q1 + 1) * b1) * b2 = (q1 + 1) * bb /\ (a1 + 1) * b2 = a1 * b2 + b2 /\ (q1 + 1) * bb \in Int
    BY <1>1, SMT
  <2> QED
    BY <1>2, <2>1, <2>2
<1>5. bb \in Nat \ {0}
  BY <1>2
<1> HIDE DEF bb
<1>6. /\ q1 * bb \in Int /\ q2 * bb \in Int /\ (q1 + 1) * bb = q1 * bb + bb
      /\ (q2 + 1) * bb = q2 * bb + bb /\ (q1 + 2) * bb = q1 * bb + bb + bb
  BY <1>1, <1>5, SMT
<1>7. q1 <= q2
  <2> SUFFICES ASSUME q2 + 1 <= q1 PROVE FALSE
    BY <1>1
  <2>1. (q2 + 1) * bb <= q1 * bb
    BY <1>1, <1>5, Ordered, q2 + 1 \in Int
  <2> DEFINE left == q1 * bb
             right == (q2 + 1) * bb
             mid1 == a1 * b2
             mid2 == a2 * b1
  <2>2. left \in Int /\ right \in Int /\ mid1 \in Int /\ mid2 \in Int
    BY <1>2, <1>5, <1>6
  <2>3. left <= mid1 /\ mid1 <= mid2 /\ mid2 < right /\ right <= left
    BY <1>3, <2>1
  <2> HIDE DEF left, right, mid1, mid2
  <2> QED
    BY <2>2, <2>3
<1>8. ASSUME a2 * b1 - a1 * b2 <= bb PROVE q2 <= q1 + 1
  <2> SUFFICES ASSUME q1 + 2 <= q2 PROVE FALSE
    BY <1>1
  <2>1. (q1 + 2) * bb <= q2 * bb
    BY <1>1, <1>5, Ordered, q1 + 2 \in Int
  <2> QED
    BY <1>2, <1>3, <1>4, <1>5, <1>6, <1>8, <2>1
<1> QED
  BY <1>7, <1>8 DEF q1, q2, bb

\* A process with distance dc and time tau, at knots a / b apart, walks from
\* p1 / q1 to p2 / q2 no faster than v / u: by at most one grid step.
LEMMA GridSteps ==
    ASSUME NEW p1 \in Int, NEW p2 \in Int, NEW q1 \in Nat \ {0}, NEW q2 \in Nat \ {0},
           NEW n1 \in Int, NEW n2 \in Int, n1 <= n2, NEW b \in Nat \ {0},
           NEW v \in Nat, NEW u \in Nat \ {0},
           NEW dc \in Nat \ {0}, NEW tau \in Nat \ {0}, NEW per \in Nat \ {0},
           Slow(v, u * b, n1, p1, q1, n2, p2, q2)
    PROVE  LET a1 == per * (p1 * b * tau + n1 * q1 * dc)
               a2 == per * (p2 * b * tau + n2 * q2 * dc)
               b1 == q1 * b * dc * tau
               b2 == q2 * b * dc * tau
           IN  /\ a1 \div b1 <= a2 \div b2
               /\ (n2 - n1) * (per * (v * tau + u * dc)) <= (u * dc * tau) * b
                    => a2 \div b2 <= a1 \div b1 + 1
<1> DEFINE a1 == per * (p1 * b * tau + n1 * q1 * dc)
           a2 == per * (p2 * b * tau + n2 * q2 * dc)
           b1 == q1 * b * dc * tau
           b2 == q2 * b * dc * tau
           w == p2 * q1 - p1 * q2
           g == n2 - n1
           qq == q1 * q2
           s == b * dc * tau
           rise == per * (w * b * tau + g * qq * dc)
<1>1. w \in Int /\ qq \in Nat \ {0} /\ g \in Nat /\ s \in Nat \ {0}
      /\ 0 <= w /\ w * (u * b) <= v * g * qq
  BY SMT DEF Slow
<1>2. a1 \in Int /\ a2 \in Int /\ b1 \in Nat \ {0} /\ b2 \in Nat \ {0}
  BY SMT
<1>3. a2 * b1 - a1 * b2 = rise * s
  <2>1. a2 * b1 = (per * (p2 * b * tau + n2 * q2 * dc)) * (q1 * b * dc * tau)
        /\ a1 * b2 = (per * (p1 * b * tau + n1 * q1 * dc)) * (q2 * b * dc * tau)
    OBVIOUS
  <2> QED
    BY <2>1, SMT
<1>4. b1 * b2 = (qq * s) * s
  BY SMT
<1> HIDE DEF a1, a2, b1, b2, w, g, qq, s
<1>5. rise \in Nat /\ w * b * tau \in Nat /\ g * qq * dc \in Nat
  <2>1. w * b * tau \in Nat /\ g * qq * dc \in Nat
    BY <1>1, SMT
  <2> QED
    BY <2>1, SMT
<1>6. 0 <= rise * s /\ rise * s \in Int
  BY <1>1, <1>5, SMT
<1>7. a1 * b2 <= a2 * b1
  <2>1. a1 * b2 \in Int /\ a2 * b1 \in Int
    BY <1>2, SMT
  <2> QED
    BY <1>3, <1>6, <2>1
<1>8. ASSUME g * (per * (v * tau + u * dc)) <= (u * dc * tau) * b
      PROVE  a2 * b1 - a1 * b2 <= b1 * b2
  <2>1. rise * u <= per * ((v * g * qq) * tau + g * qq * dc * u)
    <3>1. (w * (u * b)) * tau <= (v * g * qq) * tau
      BY <1>1, Ordered, w * (u * b) \in Int, v * g * qq \in Int
    <3>2. (w * (u * b)) * tau \in Int /\ (v * g * qq) * tau \in Int /\ g * qq * dc * u \in Int
      BY <1>1, SMT
    <3>3. ((w * (u * b)) * tau + g * qq * dc * u) * per <= ((v * g * qq) * tau + g * qq * dc * u) * per
      BY <3>1, <3>2, Ordered
    <3>4. ((w * (u * b)) * tau + g * qq * dc * u) * per = rise * u
      BY <1>1, SMT
    <3>5. ((v * g * qq) * tau + g * qq * dc * u) * per = per * ((v * g * qq) * tau + g * qq * dc * u)
      BY <3>2, SMT
    <3> QED
      BY <3>3, <3>4, <3>5
  <2>2. per * ((v * g * qq) * tau + g * qq * dc * u) = (g * (per * (v * tau + u * dc))) * qq
    BY <1>1, SMT
  <2>3. (g * (per * (v * tau + u * dc))) * qq <= ((u * dc * tau) * b) * qq
    <3>1. g * (per * (v * tau + u * dc)) \in Int /\ (u * dc * tau) * b \in Int
      BY <1>1, SMT
    <3> QED
      BY <1>1, <1>8, <3>1, Ordered
  <2>4. ((u * dc * tau) * b) * qq = (qq * s) * u
    BY <1>1, SMT DEF s
  <2>5. rise * u <= (qq * s) * u
    <3>1. rise * u \in Int /\ (qq * s) * u \in Int
          /\ (g * (per * (v * tau + u * dc))) * qq \in Int
      BY <1>1, <1>5, SMT
    <3> QED
      BY <2>1, <2>2, <2>3, <2>4, <3>1
  <2>6. rise <= qq * s
    BY <1>1, <1>5, <2>5, Cancelled, qq * s \in Int
  <2>7. rise * s <= (qq * s) * s
    BY <1>1, <1>5, <2>6, Ordered, qq * s \in Int
  <2> QED
    BY <1>3, <1>4, <2>7
<1>9. a1 \div b1 <= a2 \div b2
  BY <1>2, <1>7, QuotientsOrdered
<1>10. ASSUME g * (per * (v * tau + u * dc)) <= (u * dc * tau) * b
       PROVE  a2 \div b2 <= a1 \div b1 + 1
  BY <1>2, <1>7, <1>8, <1>10, QuotientsOrdered
<1> QED
  BY <1>9, <1>10 DEF a1, a2, b1, b2, g
-----------------------------------------------------------------------------
(* The knots of a run.                                                       *)

Pt(k) == Point(TimeOf(k))

LEMMA PtKeeps ==
    ASSUME UNCHANGED <<motion, process, series>>
    PROVE  dt_knot' = dt_knot /\ \A k : Pt(k)' = Pt(k)
<1>1. vmax' = vmax
  <2>1. Speeds' = Speeds
    BY DEF Speeds, profile, Stretch
  <2> QED
    BY <2>1 DEF vmax
<1>2. dt_knot' = dt_knot
  <2>1. Spacings' = Spacings
    BY <1>1 DEF Spacings, Spacing
  <2> QED
    BY <2>1 DEF dt_knot
<1>3. \A k : TimeOf(k)' = TimeOf(k)
  BY <1>2 DEF TimeOf, Run
<1>4. \A k : Pt(k)' = Pt(k)
  <2> SUFFICES ASSUME NEW k PROVE Pt(k)' = Pt(k)
    OBVIOUS
  <2> DEFINE t == TimeOf(k)
  <2>1. t' = t
    BY <1>3
  <2> HIDE DEF t
  <2>2. Point(t)' = Point(t)
    BY <2>1 DEF Point, Distance, profile
  <2> QED
    BY <2>2 DEF Pt, t
<1> QED
  BY <1>2, <1>4

\* From an earlier knot to a later one the grid points go forward, and to the
\* next one by one point at most.
LEMMA PointsOfRun ==
    ASSUME Route, process \in {"state", "shadow"}, series = Run,
           NEW k1 \in Int, NEW k2 \in Int, k1 <= k2
    PROVE  /\ Pt(k1) \in Int /\ Pt(k2) \in Int
           /\ Pt(k1) <= Pt(k2)
           /\ k2 = k1 + 1 => Pt(k2) <= Pt(k1) + 1
<1> DEFINE a == dt_knot.n
           b == dt_knot.d
           f1 == WalkedAt(k1 * a, b)
           f2 == WalkedAt(k2 * a, b)
           v == vmax.n
           u == vmax.d
           dc == Scales[process].d
           tau == Scales[process].tau
           Top(f, nn) == PerTau * (f.n * b * tau + nn * f.d * dc)
           Bottom(f) == f.d * b * dc * tau
<1>1. /\ a \in Nat \ {0} /\ b \in Nat \ {0} /\ v \in Nat /\ u \in Nat \ {0}
      /\ dc \in Nat \ {0} /\ tau \in Nat \ {0} /\ PerTau \in Nat \ {0}
  BY KnotSpacing, TopSpeed, ScalesTyped, WalkAssumption DEF Frac
<1>2. a * (PerTau * (v * tau + u * dc)) <= (u * dc * tau) * b
  BY KnotSpacing DEF AtMost, Spacing
<1>3. Pt(k1) = Top(f1, k1 * a) \div Bottom(f1) /\ Pt(k2) = Top(f2, k2 * a) \div Bottom(f2)
  BY DEF Pt, Point, TimeOf, WalkedAt
<1> HIDE DEF f1, f2
<1> DEFINE n1 == k1 * a
           n2 == k2 * a
<1>4. n1 \in Int /\ n2 \in Int /\ n1 <= n2
  BY <1>1, Ordered, SMT
<1>5. /\ f1 \in [n : Int, d : Nat \ {0}] /\ f2 \in [n : Int, d : Nat \ {0}]
      /\ SlowWalk(n1, f1, n2, f2, b)
  <2> HIDE DEF b, n1, n2
  <2>1. f1 = WalkedAt(n1, b) /\ f2 = WalkedAt(n2, b)
    BY DEF f1, f2, n1, n2
  <2> QED
    BY <1>1, <1>4, <2>1, WalkIsSlow
<1>6. f1.n \in Int /\ f2.n \in Int /\ f1.d \in Nat \ {0} /\ f2.d \in Nat \ {0}
      /\ Slow(v, u * b, n1, f1.n, f1.d, n2, f2.n, f2.d)
  BY <1>5 DEF SlowWalk
<1>7. k2 = k1 + 1 => n2 - n1 = a
  BY <1>1, SMT
<1>8. Top(f1, n1) \in Int /\ Top(f2, n2) \in Int /\ Bottom(f1) \in Nat \ {0} /\ Bottom(f2) \in Nat \ {0}
  <2> DEFINE p1 == f1.n
             p2 == f2.n
             q1 == f1.d
             q2 == f2.d
  <2>1. p1 \in Int /\ p2 \in Int /\ q1 \in Nat \ {0} /\ q2 \in Nat \ {0}
    BY <1>6
  <2> HIDE DEF p1, p2, q1, q2, a, b, v, u, dc, tau, n1, n2
  <2>2. /\ PerTau * (p1 * b * tau + n1 * q1 * dc) \in Int
        /\ PerTau * (p2 * b * tau + n2 * q2 * dc) \in Int
        /\ q1 * b * dc * tau \in Nat \ {0} /\ q2 * b * dc * tau \in Nat \ {0}
    BY <1>1, <1>4, <2>1, SMT
  <2> QED
    BY <2>2 DEF p1, p2, q1, q2
<1>9. /\ Top(f1, n1) \div Bottom(f1) <= Top(f2, n2) \div Bottom(f2)
      /\ (n2 - n1) * (PerTau * (v * tau + u * dc)) <= (u * dc * tau) * b
           => Top(f2, n2) \div Bottom(f2) <= Top(f1, n1) \div Bottom(f1) + 1
  <2> DEFINE p1 == f1.n
             p2 == f2.n
             q1 == f1.d
             q2 == f2.d
  <2> HIDE DEF p1, p2, q1, q2, a, b, v, u, dc, tau, n1, n2
  <2>1. p1 \in Int /\ p2 \in Int /\ q1 \in Nat \ {0} /\ q2 \in Nat \ {0}
        /\ Slow(v, u * b, n1, p1, q1, n2, p2, q2)
    BY <1>6 DEF p1, p2, q1, q2
  <2>2. /\ (PerTau * (p1 * b * tau + n1 * q1 * dc)) \div (q1 * b * dc * tau)
             <= (PerTau * (p2 * b * tau + n2 * q2 * dc)) \div (q2 * b * dc * tau)
        /\ (n2 - n1) * (PerTau * (v * tau + u * dc)) <= (u * dc * tau) * b
             => (PerTau * (p2 * b * tau + n2 * q2 * dc)) \div (q2 * b * dc * tau)
                  <= (PerTau * (p1 * b * tau + n1 * q1 * dc)) \div (q1 * b * dc * tau) + 1
    BY <1>1, <1>4, <2>1, GridSteps
  <2> QED
    BY <2>2 DEF p1, p2, q1, q2
<1> DEFINE d1 == Top(f1, n1) \div Bottom(f1)
           d2 == Top(f2, n2) \div Bottom(f2)
<1>10. d1 \in Int /\ d2 \in Int
  <2> HIDE DEF Top, Bottom, n1, n2
  <2> QED
    BY <1>8, QuotientIs
<1>11. k2 = k1 + 1 => d2 <= d1 + 1
  BY <1>2, <1>7, <1>9
<1>12. Pt(k1) = d1 /\ Pt(k2) = d2
  BY <1>3
<1>13. d1 <= d2
  BY <1>9
<1> HIDE DEF d1, d2
<1> QED
  BY <1>10, <1>11, <1>12, <1>13
LEMMA KnotsOrdered ==
    ASSUME Route, NEW s1 \in Int, NEW s2 \in Int, s1 <= s2
    PROVE  KnotOf(s1) \in Int /\ KnotOf(s2) \in Int /\ KnotOf(s1) <= KnotOf(s2)
<1> DEFINE a == dt_knot.n
           b == dt_knot.d
           c == Fs * a
           a1 == s1 * b
           a2 == s2 * b
<1>1. a \in Nat \ {0} /\ b \in Nat \ {0} /\ Fs \in Nat \ {0}
  BY KnotSpacing, WalkAssumption
<1>2. KnotOf(s1) = a1 \div c /\ KnotOf(s2) = a2 \div c
  BY DEF KnotOf
<1> HIDE DEF a, b
<1>3. c \in Nat \ {0} /\ a1 \in Int /\ a2 \in Int /\ a1 <= a2
  BY <1>1, Ordered, SMT
<1> HIDE DEF a1, a2, c
<1>4. a1 * c <= a2 * c
  BY <1>3, Ordered
<1>5. a1 \div c <= a2 \div c /\ a1 \div c \in Int /\ a2 \div c \in Int
  BY <1>3, <1>4, QuotientsOrdered, QuotientIs
<1> QED
  BY <1>2, <1>5

LEMMA FirstKnot == Route => KnotOf(0) = 0
<1> SUFFICES ASSUME Route PROVE KnotOf(0) = 0
  OBVIOUS
<1> DEFINE a == dt_knot.n
           b == dt_knot.d
           c == Fs * a
<1>1. a \in Nat \ {0} /\ b \in Nat \ {0} /\ Fs \in Nat \ {0}
  BY KnotSpacing, WalkAssumption
<1>2. KnotOf(0) = (0 * b) \div c
  BY DEF KnotOf
<1> HIDE DEF a, b
<1>3. c \in Nat \ {0} /\ 0 * b = 0
  BY <1>1, SMT
<1> HIDE DEF c
<1>4. 0 \div c = 0
  BY <1>3, SMT
<1> QED
  BY <1>2, <1>3, <1>4

\* The motion, and where a run is in its blocks.
WalkTypes ==
    /\ motion \in Motions /\ process \in {"state", "shadow"}
    /\ place \in {"block", "knots", "returned"}
    /\ j \in Int
    /\ series = Run =>
         /\ blk \in BlockSizes /\ done \in Nat /\ j1 \in Int
         /\ place = "block" => at = "idle" /\ j1 - 1 <= KnotOf(done)
         /\ place = "knots" =>
              done < Total /\ KnotOf(done) <= j /\ j <= j1 + 1 /\ j1 = KnotOf(done + n - 1) + 1
         /\ place # "returned"

LEMMA WalkTypesInit == WalkInit => WalkTypes
<1> SUFFICES ASSUME WalkInit PROVE WalkTypes
  OBVIOUS
<1>1. /\ motion \in Motions /\ process \in {"state", "shadow"} /\ place = "block"
      /\ j = 0 /\ j1 = 0 /\ done = 0 /\ at = "idle"
  BY DEF WalkInit, Init
<1>2. series = Run => blk \in BlockSizes
  BY DEF WalkInit
<1>3. KnotOf(0) = 0
  BY <1>1, MotionIsRoute, FirstKnot
<1> QED
  BY <1>1, <1>2, <1>3 DEF WalkTypes

\* A block of a run has at least one sample, and ends within the run.
LEMMA BlockSize ==
    ASSUME blk \in BlockSizes, done \in Nat, done < Total
    PROVE  n \in Nat \ {0} /\ done + n <= Total
<1>1. blk \in Nat \ {0} /\ Total \in Nat
  BY WalkAssumption
<1> QED
  BY <1>1 DEF n

LEMMA WalkTypesStep == WalkTypes /\ [WalkNext]_walkVars => WalkTypes'
<1> SUFFICES ASSUME WalkTypes, [WalkNext]_walkVars PROVE WalkTypes'
  OBVIOUS
<1>1. Route
  BY MotionIsRoute DEF WalkTypes
<1>2. UNCHANGED <<motion, process, series, blk>>
  BY DEF WalkNext, StartBlock, StartSeries, AskKnot, WalkNormal, WalkEnd, EndBlock, EndSeries, run,
     walkVars
<1>3. dt_knot' = dt_knot
  BY <1>2, PtKeeps
<1>4. CASE UNCHANGED walkVars \/ WalkNormal \/ WalkEnd
  <2>1. UNCHANGED run
    BY <1>4 DEF WalkNormal, WalkEnd, walkVars
  <2>2. UNCHANGED <<done, place, j, j1>>
    BY <2>1 DEF run
  <2>3. KnotOf(done)' = KnotOf(done) /\ KnotOf(done + n - 1)' = KnotOf(done + n - 1)
    BY <1>2, <1>3, <2>2 DEF KnotOf, n
  <2>4. series = Run /\ place = "block" => at' = "idle"
    <3>1. at # "idle" \/ at' = at
      BY <1>4 DEF WalkNormal, WalkEnd, Normal0, Normal1, LeftEnd, RightEnd, walkVars, vars
    <3> QED
      BY <3>1 DEF WalkTypes
  <2> QED
    BY <1>2, <2>2, <2>3, <2>4 DEF WalkTypes, Run
<1>5. CASE StartBlock
  <2>1. /\ place = "block" /\ series = Run /\ done < Total /\ j' = KnotOf(done)
        /\ j1' = KnotOf(done + n - 1) + 1 /\ place' = "knots" /\ UNCHANGED <<vars, done>>
    BY <1>5 DEF StartBlock
  <2>2. done \in Nat /\ n \in Nat \ {0}
    BY <2>1, BlockSize DEF WalkTypes
  <2>3. KnotOf(done)' = KnotOf(done) /\ KnotOf(done + n - 1)' = KnotOf(done + n - 1)
    BY <1>2, <1>3, <2>1 DEF KnotOf, n
  <2>4. /\ KnotOf(done) \in Int /\ KnotOf(done + n - 1) \in Int
        /\ KnotOf(done) <= KnotOf(done + n - 1)
    <3>1. done \in Int /\ done + n - 1 \in Int /\ done <= done + n - 1
      BY <2>2
    <3> QED
      BY <1>1, <3>1, KnotsOrdered
  <2> QED
    BY <1>2, <2>1, <2>3, <2>4 DEF WalkTypes, Run
<1>6. CASE AskKnot
  <2>1. place = "knots" /\ j <= j1 /\ j' = j + 1 /\ UNCHANGED <<done, place, j1>>
    BY <1>6 DEF AskKnot
  <2>2. KnotOf(done)' = KnotOf(done) /\ KnotOf(done + n - 1)' = KnotOf(done + n - 1)
    BY <1>2, <1>3, <2>1 DEF KnotOf, n
  <2>3. series = Run => KnotOf(done) \in Int
    <3>1. series = Run => done \in Int
      BY DEF WalkTypes
    <3> QED
      BY <1>1, <3>1, KnotsOrdered
  <2> QED
    BY <1>2, <2>1, <2>2, <2>3 DEF WalkTypes, Run
<1>7. CASE EndBlock
  <2>1. /\ place = "knots" /\ series = Run /\ at = "idle" /\ done' = done + n /\ place' = "block"
        /\ UNCHANGED <<vars, j, j1>>
    BY <1>7 DEF EndBlock
  <2>2. done \in Nat /\ n \in Nat \ {0}
    BY <2>1, BlockSize DEF WalkTypes
  <2>3. KnotOf(done)' = KnotOf(done + n)
    BY <1>2, <1>3, <2>1 DEF KnotOf
  <2>4. /\ KnotOf(done + n - 1) \in Int /\ KnotOf(done + n) \in Int
        /\ KnotOf(done + n - 1) <= KnotOf(done + n)
    <3>1. done + n \in Int /\ done + n - 1 \in Int /\ done + n - 1 <= done + n
      BY <2>2
    <3> QED
      BY <1>1, <3>1, KnotsOrdered
  <2>5. j1 - 1 <= KnotOf(done)' /\ at' = "idle" /\ done' \in Nat
    BY <2>1, <2>2, <2>3, <2>4 DEF WalkTypes, vars
  <2> QED
    BY <1>2, <2>1, <2>5 DEF WalkTypes, Run
<1>8. CASE StartSeries \/ EndSeries
  <2>1. series # Run /\ j' \in Int /\ place' \in {"knots", "returned"}
    BY <1>8 DEF StartSeries, EndSeries, WalkTypes
  <2> QED
    BY <1>2, <2>1 DEF WalkTypes, Run
<1> QED
  BY <1>4, <1>5, <1>6, <1>7, <1>8 DEF WalkNext

LEMMA WalkTypesInvariant == WalkSpec => []WalkTypes
  BY WalkTypesInit, WalkTypesStep, PTL DEF WalkSpec

\* KnotsResolve for every motion of a receiver, and every distance, time and
\* rate of the channel.
THEOREM KnotsResolveHolds == WalkSpec => []KnotsResolve
<1>1. WalkTypes => KnotsResolve
  <2> SUFFICES ASSUME WalkTypes, place = "knots", series = Run
               PROVE  Point(TimeOf(j + 1)) - Point(TimeOf(j)) \in {0, 1}
    BY DEF KnotsResolve
  <2>1. Route /\ process \in {"state", "shadow"} /\ j \in Int
    BY MotionIsRoute DEF WalkTypes
  <2> DEFINE k1 == j
             k2 == j + 1
  <2>2. k1 \in Int /\ k2 \in Int /\ k1 <= k2 /\ k2 = k1 + 1
    BY <2>1
  <2> HIDE DEF k1, k2
  <2>3. Pt(k1) \in Int /\ Pt(k2) \in Int /\ Pt(k1) <= Pt(k2) /\ Pt(k2) <= Pt(k1) + 1
    BY <2>1, <2>2, PointsOfRun
  <2>4. Pt(k2) - Pt(k1) \in {0, 1}
    BY <2>3
  <2> QED
    BY <2>4 DEF Pt, k1, k2
<1> QED
  BY <1>1, WalkTypesInvariant, PTL
-----------------------------------------------------------------------------
(* The blocks of the stream.                                                 *)

LEMMA BlocksOrdered ==
    ASSUME NEW q1 \in Int, NEW q2 \in Int, q1 <= q2
    PROVE  BlockOf(q1) \in Int /\ BlockOf(q2) \in Int /\ BlockOf(q1) <= BlockOf(q2)
<1>1. PerBlock \in Nat \ {0}
  BY GridAssumption
<1>2. q1 * PerBlock <= q2 * PerBlock
  BY <1>1, Ordered
<1>3. q1 \div PerBlock <= q2 \div PerBlock
  BY <1>1, <1>2, QuotientsOrdered
<1> QED
  BY <1>3, BlockIsInt DEF BlockOf

LEMMA NextBlock ==
    ASSUME NEW q \in Int
    PROVE  BlockOf(q + 1) <= BlockOf(q) + 1
<1> DEFINE q2 == q + 1
<1>1. PerBlock \in Nat \ {0} /\ q2 \in Int /\ q <= q2
  BY GridAssumption
<1>2. q2 * PerBlock - q * PerBlock <= PerBlock * PerBlock
  <2>1. q2 * PerBlock - q * PerBlock = 1 * PerBlock
    BY <1>1, SMT
  <2>2. 1 * PerBlock <= PerBlock * PerBlock
    BY <1>1, Ordered, 1 \in Int, 1 <= PerBlock
  <2> QED
    BY <2>1, <2>2
<1>3. q * PerBlock <= q2 * PerBlock
  BY <1>1, Ordered
<1> HIDE DEF q2
<1>4. q2 \div PerBlock <= q \div PerBlock + 1
  BY <1>1, <1>2, <1>3, QuotientsOrdered
<1> QED
  BY <1>4 DEF BlockOf, q2

\* What stays of a window that drops its oldest blocks holds a whole sum.
LEMMA BlocksBack ==
    ASSUME NEW q \in Int
    PROVE  BlockOf(q) - (Keep - Drop) <= BlockOf(q - Taps - 1)
<1> DEFINE back == q - Taps - 1
           c == BlockOf(q)
           r == BlockOf(back)
           stay == Keep - Drop
<1>1. PerBlock \in Nat \ {0} /\ Taps \in Nat /\ stay \in Nat /\ stay * PerBlock > Taps
  BY GridAssumption, WindowAssumption
<1>2. back \in Int /\ back = q - Taps - 1
  BY <1>1
<1>3. /\ c \in Int /\ c * PerBlock <= q
      /\ r \in Int /\ back < (r + 1) * PerBlock
  <2> HIDE DEF back
  <2> QED
    BY <1>1, <1>2, QuotientIs DEF BlockOf
<1> HIDE DEF back, c, r, stay
<1>4. c * PerBlock \in Int /\ (r + 1) * PerBlock \in Int /\ stay * PerBlock \in Int
  BY <1>1, <1>3, SMT
<1>5. (c - (r + 1)) * PerBlock = c * PerBlock - (r + 1) * PerBlock
  BY <1>1, <1>3, SMT
<1>6. (c - (r + 1)) * PerBlock < stay * PerBlock
  BY <1>1, <1>2, <1>3, <1>4, <1>5
<1>7. c - (r + 1) < stay
  <2> SUFFICES ASSUME stay <= c - (r + 1) PROVE FALSE
    BY <1>1, <1>3
  <2>1. stay * PerBlock <= (c - (r + 1)) * PerBlock
    BY <1>1, <1>3, Ordered, stay \in Int, c - (r + 1) \in Int
  <2> QED
    BY <1>4, <1>5, <1>6, <2>1
<1> QED
  BY <1>1, <1>3, <1>7 DEF back, c, r, stay

\* A run asks for no point before 0.
LEMMA PointsOfRunFrom0 ==
    ASSUME Route, process \in {"state", "shadow"}, series = Run, NEW k \in Nat
    PROVE  0 <= Pt(k)
<1> DEFINE b == dt_knot.d
           f == WalkedAt(0, b)
           dc == Scales[process].d
           tau == Scales[process].tau
<1>1. b \in Nat \ {0} /\ dt_knot.n \in Nat /\ dc \in Nat \ {0} /\ tau \in Nat \ {0} /\ PerTau \in Nat \ {0}
  BY KnotSpacing, ScalesTyped, WalkAssumption
<1>2. Pt(0) = (PerTau * (f.n * b * tau + 0 * f.d * dc)) \div (f.d * b * dc * tau)
  <2>1. TimeOf(0) = [n |-> 0, d |-> b]
    BY <1>1 DEF TimeOf
  <2> QED
    BY <2>1 DEF Pt, Point, WalkedAt
<1>3. f.n \in Nat /\ f.d \in Nat \ {0}
  <2>1. CASE profile
    <3>1. Len(motion.t) \in Nat /\ 1 \in 1 .. Len(motion.t)
      BY <2>1, PointsTyped DEF profile
    <3>2. motion.t[1] \in Nat /\ motion.d[1] \in Nat
      BY <3>1, PointsTyped
    <3>3. 0 <= motion.t[1] * b
      BY <1>1, <3>2, SMT
    <3>4. f = [n |-> motion.d[1], d |-> 1]
      BY <2>1, <3>3 DEF WalkedAt, Distance
    <3> QED
      BY <3>2, <3>4
  <2>2. CASE ~profile
    <3>1. f = [n |-> motion.speed * 0, d |-> b]
      BY <2>2 DEF WalkedAt, Distance
    <3>2. motion.speed \in Nat
      BY DEF Route
    <3>3. motion.speed * 0 = 0
      BY <3>2
    <3> QED
      BY <1>1, <3>1, <3>3
  <2> QED
    BY <2>1, <2>2
<1> DEFINE p == f.n
           q == f.d
           top == PerTau * (p * b * tau + 0 * q * dc)
           bottom == q * b * dc * tau
<1>4. Pt(0) = top \div bottom /\ p \in Nat /\ q \in Nat \ {0}
  BY <1>2, <1>3
<1> HIDE DEF b, f, dc, tau, p, q
<1>5. top \in Nat /\ bottom \in Nat \ {0}
  <2>1. p * b * tau \in Nat /\ 0 * q * dc = 0
    BY <1>1, <1>4, SMT
  <2> QED
    BY <1>1, <1>4, <2>1, SMT
<1> HIDE DEF top, bottom
<1>6. 0 * bottom <= top * bottom
  BY <1>5, Ordered, 0 \in Int
<1>7. 0 \div bottom <= top \div bottom /\ 0 \div bottom = 0
  <2>1. 0 * bottom <= top * bottom /\ 0 \in Int /\ top \in Int
    BY <1>5, <1>6
  <2>2. 0 \div bottom <= top \div bottom
    BY <1>5, <2>1, QuotientsOrdered
  <2>3. 0 \div bottom = 0
    BY <1>5, SMT
  <2> QED
    BY <2>2, <2>3
<1>8. Pt(0) <= Pt(k) /\ Pt(0) \in Int /\ Pt(k) \in Int
  BY PointsOfRun
<1> QED
  BY <1>4, <1>7, <1>8
-----------------------------------------------------------------------------
(* A run draws every block once.                                             *)

\* The earliest knot that is asked for, or will be.
Low ==
    IF place = "block" THEN j1 - 1
    ELSE IF at = "idle" THEN IF j < j1 - 1 THEN j ELSE j1 - 1
    ELSE IF j - 1 < j1 - 1 THEN j - 1 ELSE j1 - 1

First(c) == c - (Taps - 1)

WindowTypes ==
    /\ b0_ \in Int /\ buf_ \in Seq(Int) /\ WindowIsStream
    /\ i \in Int /\ m \in Int /\ last_m_ \in Int /\ at \in {"idle", "v0", "v1"}

\* The grid point that is summed, or was last, is that of the knot before j.
AskedInv ==
    /\ at = "idle" /\ place = "knots" /\ KnotOf(done) < j =>
         \A k \in Int : k = j - 1 => last_m_ = Pt(k)
    /\ at # "idle" =>
         /\ place = "knots" /\ KnotOf(done) < j
         /\ \A k \in Int : k = j - 1 => m = Pt(k)
    /\ at = "v0" => j <= j1
    /\ at = "v0" => First(m) <= i /\ i <= m + 1
    /\ at = "v1" => First(m + 1) <= i /\ i <= m + 2

\* The window reaches what was summed last, so that the next innovation is in
\* it or just behind, ...
ReachInv ==
    /\ at = "idle" /\ last_m_ # Never => BlockOf(last_m_ + 1) < b0_ + Len(buf_)
    /\ at = "v0" /\ First(m) < i => BlockOf(i - 1) < b0_ + Len(buf_)
    /\ at = "v1" /\ First(m + 1) < i => BlockOf(i - 1) < b0_ + Len(buf_)
    /\ at = "v1" => BlockOf(i) <= b0_ + Len(buf_)
    /\ (at = "idle" /\ last_m_ # Never) \/ (at = "v0" /\ First(m) < i) \/ at = "v1" => buf_ # <<>>

\* ... and still begins before the first innovation of every knot to come.
BaseInv ==
    /\ buf_ = <<>> => drawn = {}
    /\ buf_ # <<>> => \A k \in Int : k = Low => b0_ <= BlockOf(First(Pt(k)))
    /\ \A b \in drawn : b \in Int /\ b < b0_ + Len(buf_)
    /\ again = {}

DrawParts == WindowTypes /\ AskedInv /\ ReachInv /\ BaseInv

DrawInv == series = Run => DrawParts

LEMMA RunPoints ==
    ASSUME WalkTypes, series = Run
    PROVE  /\ Route
           /\ \A k \in Int : Pt(k) \in Int /\ (k >= 0 => Pt(k) >= 0)
           /\ \A k1, k2 \in Int : k1 <= k2 => Pt(k1) <= Pt(k2)
           /\ \A k1, k2 \in Int : k2 = k1 + 1 => Pt(k2) <= Pt(k1) + 1
<1>1. Route /\ process \in {"state", "shadow"}
  BY MotionIsRoute DEF WalkTypes
<1>2. ASSUME NEW k1 \in Int, NEW k2 \in Int, k1 <= k2
      PROVE  /\ Pt(k1) \in Int /\ Pt(k2) \in Int /\ Pt(k1) <= Pt(k2)
             /\ k2 = k1 + 1 => Pt(k2) <= Pt(k1) + 1
  BY <1>1, <1>2, PointsOfRun
<1>3. ASSUME NEW k \in Int PROVE Pt(k) \in Int /\ (k >= 0 => Pt(k) >= 0)
  <2>1. Pt(k) \in Int
    BY <1>2
  <2>2. ASSUME k >= 0 PROVE Pt(k) >= 0
    <3>1. k \in Nat
      BY <2>2
    <3>2. 0 <= Pt(k)
      BY <1>1, <3>1, PointsOfRunFrom0
    <3> QED
      BY <2>1, <3>2
  <2> QED
    BY <2>1, <2>2
<1>4. ASSUME NEW k1 \in Int, NEW k2 \in Int, k2 = k1 + 1 PROVE Pt(k2) <= Pt(k1) + 1
  BY <1>2, <1>4
<1> QED
  BY <1>1, <1>2, <1>3, <1>4

\* Where a run is in a block.
LEMMA RunPlace ==
    ASSUME WalkTypes, series = Run
    PROVE  /\ KnotOf(done) \in Nat /\ j \in Int /\ j1 \in Int
           /\ place = "block" => at = "idle" /\ j1 - 1 <= KnotOf(done)
           /\ place = "knots" => KnotOf(done) <= j /\ j <= j1 + 1 /\ KnotOf(done) <= j1 - 1
           /\ place \in {"block", "knots"}
           /\ Low \in Int
<1>1. Route /\ done \in Nat /\ j \in Int /\ j1 \in Int
  BY MotionIsRoute DEF WalkTypes
<1>2. KnotOf(done) \in Nat
  <2>1. 0 \in Int /\ done \in Int /\ 0 <= done
    BY <1>1
  <2>2. KnotOf(0) <= KnotOf(done) /\ KnotOf(done) \in Int
    BY <1>1, <2>1, KnotsOrdered
  <2> QED
    BY <1>1, <2>2, FirstKnot
<1>3. place = "knots" => KnotOf(done) <= j1 - 1
  <2> SUFFICES ASSUME place = "knots" PROVE KnotOf(done) <= j1 - 1
    OBVIOUS
  <2>1. j1 = KnotOf(done + n - 1) + 1 /\ n \in Nat \ {0}
    BY BlockSize DEF WalkTypes
  <2>2. done \in Int /\ done + n - 1 \in Int /\ done <= done + n - 1
    BY <1>1, <2>1
  <2>3. KnotOf(done) <= KnotOf(done + n - 1) /\ KnotOf(done + n - 1) \in Int
    BY <1>1, <2>2, KnotsOrdered
  <2> QED
    BY <1>2, <2>1, <2>3
<1>4. Low \in Int
  BY <1>1 DEF Low
<1> QED
  BY <1>1, <1>2, <1>3, <1>4 DEF WalkTypes

LEMMA FirstsOrdered ==
    ASSUME NEW c1 \in Int, NEW c2 \in Int, c1 <= c2
    PROVE  /\ First(c1) \in Int /\ First(c2) \in Int /\ First(c1) <= First(c2)
           /\ BlockOf(First(c1)) \in Int /\ BlockOf(First(c2)) \in Int
           /\ BlockOf(First(c1)) <= BlockOf(First(c2))
<1>1. First(c1) \in Int /\ First(c2) \in Int /\ First(c1) <= First(c2)
  BY GridAssumption DEF First
<1> QED
  BY <1>1, BlocksOrdered

\* The window stays, and the knots to come are no earlier.
LEMMA BaseKeeps ==
    ASSUME WalkTypes, series = Run, WindowTypes, BaseInv,
           UNCHANGED <<motion, process, series, b0_, buf_, drawn, again>>,
           Low' \in Int, Low <= Low'
    PROVE  BaseInv'
<1>1. Low \in Int
  BY RunPlace
<1>2. ASSUME NEW k \in Int, k = Low', buf_ # <<>>
      PROVE  b0_ <= BlockOf(First(Pt(k)))
  <2> DEFINE low == Low
  <2>1. low \in Int /\ low <= k
    BY <1>1, <1>2
  <2>2. b0_ <= BlockOf(First(Pt(low)))
    BY <1>1, <1>2 DEF BaseInv
  <2> HIDE DEF low
  <2>3. Pt(low) \in Int /\ Pt(k) \in Int /\ Pt(low) <= Pt(k)
    BY <2>1, RunPoints
  <2> DEFINE c1 == Pt(low)
             c2 == Pt(k)
  <2>4. c1 \in Int /\ c2 \in Int /\ c1 <= c2 /\ b0_ <= BlockOf(First(c1)) /\ b0_ \in Int
    BY <2>2, <2>3 DEF WindowTypes
  <2> HIDE DEF c1, c2
  <2>5. BlockOf(First(c1)) \in Int /\ BlockOf(First(c2)) \in Int
        /\ BlockOf(First(c1)) <= BlockOf(First(c2))
    BY <2>4, FirstsOrdered
  <2>6. b0_ <= BlockOf(First(c2))
    BY <2>4, <2>5
  <2> QED
    BY <2>6 DEF c2
<1>3. \A k : Pt(k)' = Pt(k)
  BY PtKeeps
<1> QED
  BY <1>2, <1>3 DEF BaseInv, BlockOf, First
LEMMA DrawInit == WalkInit => DrawInv
  BY GridAssumption
  DEF WalkInit, Init, DrawInv, DrawParts, WindowTypes, AskedInv, ReachInv, BaseInv, WindowIsStream

\* What no step changes.
LEMMA WalkFixed == [WalkNext]_walkVars => UNCHANGED <<motion, process, series>>
  BY DEF WalkNext, StartBlock, StartSeries, AskKnot, WalkNormal, WalkEnd, EndBlock, EndSeries, run,
     walkVars

LEMMA DrawBlock ==
    ASSUME WalkTypes, WalkTypes', series = Run, DrawParts, StartBlock \/ EndBlock
    PROVE  DrawParts'
<1>1. /\ UNCHANGED <<motion, process, series>> /\ UNCHANGED vars /\ UNCHANGED <<drawn, again>>
      /\ at = "idle"
  BY DEF StartBlock, EndBlock, WalkTypes
<1>2. UNCHANGED <<b0_, buf_, last_m_, at, m, i>>
  BY <1>1 DEF vars, window, last
<1>3. \A k : Pt(k)' = Pt(k)
  BY <1>1, PtKeeps
<1>4. WindowTypes'
  BY <1>2 DEF DrawParts, WindowTypes, WindowIsStream
<1>5. ReachInv'
  BY <1>1, <1>2 DEF DrawParts, ReachInv, BlockOf
<1>6. AskedInv' /\ Low' \in Int /\ Low <= Low'
  <2>1. CASE StartBlock
    <3>1. place = "block" /\ j' = KnotOf(done) /\ place' = "knots" /\ UNCHANGED done
      BY <2>1 DEF StartBlock
    <3>2. dt_knot' = dt_knot
      BY <1>1, PtKeeps
    <3>3. KnotOf(done)' = KnotOf(done)
      BY <3>1, <3>2 DEF KnotOf
    <3>4. series' = Run /\ at' = "idle"
      BY <1>1, <1>2
    <3>5. KnotOf(done) \in Nat /\ j1 \in Int /\ j1 - 1 <= KnotOf(done)
      BY <3>1, RunPlace
    <3>6. j1' \in Int /\ KnotOf(done)' <= j1' - 1
      <4>1. done \in Nat /\ n \in Nat \ {0} /\ j1' = KnotOf(done + n - 1) + 1 /\ Route
        BY <2>1, BlockSize, MotionIsRoute DEF StartBlock, WalkTypes
      <4>2. done \in Int /\ done + n - 1 \in Int /\ done <= done + n - 1
        BY <4>1
      <4>3. KnotOf(done) <= KnotOf(done + n - 1) /\ KnotOf(done + n - 1) \in Int
        BY <4>1, <4>2, KnotsOrdered
      <4> QED
        BY <3>3, <3>5, <4>1, <4>3
    <3>7. Low = j1 - 1 /\ Low' = IF j' < j1' - 1 THEN j' ELSE j1' - 1
      BY <3>1, <3>4 DEF Low
    <3>8. AskedInv'
      BY <3>1, <3>3, <3>4, <3>5 DEF AskedInv
    <3>9. Low' \in Int /\ Low <= Low'
      BY <3>1, <3>3, <3>5, <3>6, <3>7
    <3> QED
      BY <3>8, <3>9
  <2>2. CASE EndBlock
    <3>1. place = "knots" /\ j > j1 /\ place' = "block" /\ at' = "idle" /\ UNCHANGED <<j, j1>>
      BY <1>1, <1>2, <2>2 DEF EndBlock
    <3>2. j \in Int /\ j1 \in Int
      BY RunPlace
    <3>3. Low = j1 - 1 /\ Low' = j1 - 1
      BY <1>1, <3>1, <3>2 DEF Low
    <3>4. AskedInv'
      BY <3>1 DEF AskedInv
    <3> QED
      BY <3>2, <3>3, <3>4
  <2> QED
    BY <2>1, <2>2
<1>7. BaseInv'
  BY <1>1, <1>2, <1>6, BaseKeeps DEF DrawParts
<1> QED
  BY <1>4, <1>5, <1>6, <1>7 DEF DrawParts

LEMMA DrawAsk ==
    ASSUME WalkTypes, WalkTypes', series = Run, DrawParts, AskKnot
    PROVE  DrawParts'
<1>1. /\ place = "knots" /\ at = "idle" /\ j <= j1 /\ j' = j + 1
      /\ UNCHANGED <<motion, process, series, blk, done, place, j1, drawn, again>>
  BY DEF AskKnot
<1>2. dt_knot' = dt_knot /\ \A k : Pt(k)' = Pt(k)
  BY <1>1, PtKeeps
<1>3. KnotOf(done)' = KnotOf(done)
  BY <1>1, <1>2 DEF KnotOf
<1>4. /\ KnotOf(done) \in Nat /\ j \in Int /\ j1 \in Int /\ KnotOf(done) <= j
      /\ KnotOf(done) <= j1 - 1
  BY <1>1, RunPlace
<1> DEFINE c == Pt(j)
<1>5. c \in Int /\ c >= 0
  BY <1>4, RunPoints
<1>6. \A k \in Int : k = j' - 1 => Pt(k)' = c
  <2>1. \A k \in Int : k = j' - 1 => k = j
    BY <1>1, <1>4
  <2> QED
    BY <1>2, <2>1
<1>7. KnotOf(done) < j => last_m_ \in Int /\ last_m_ <= c /\ c <= last_m_ + 1
  <2> SUFFICES ASSUME KnotOf(done) < j PROVE last_m_ \in Int /\ last_m_ <= c /\ c <= last_m_ + 1
    OBVIOUS
  <2> DEFINE before == j - 1
             now == j
  <2>1. before \in Int /\ now \in Int /\ before <= now /\ now = before + 1
    BY <1>4
  <2>2. last_m_ = Pt(before)
    BY <1>1, <1>4 DEF DrawParts, AskedInv
  <2> HIDE DEF before, now
  <2>3. Pt(before) \in Int /\ Pt(before) <= Pt(now) /\ Pt(now) <= Pt(before) + 1
    BY <2>1, RunPoints
  <2> QED
    BY <2>2, <2>3 DEF now
<1>8. /\ b0_ \in Int /\ buf_ \in Seq(Int) /\ WindowIsStream /\ last_m_ \in Int /\ m \in Int /\ i \in Int
      /\ Len(buf_) \in Nat
  BY DEF DrawParts, WindowTypes
<1>9. Taps \in Nat \ {0} /\ Never \in Int /\ Never + 1 < 0
  BY GridAssumption, WindowAssumption
<1>10. Low = IF j < j1 - 1 THEN j ELSE j1 - 1
  BY <1>1 DEF Low
<1> HIDE DEF c
<1>11. CASE UNCHANGED vars /\ c = last_m_
  <2>1. UNCHANGED <<b0_, buf_, last_m_, at, m, i>>
    BY <1>11 DEF vars, window, last
  <2>2. WindowTypes' /\ ReachInv'
    BY <1>1, <2>1 DEF DrawParts, WindowTypes, WindowIsStream, ReachInv, BlockOf
  <2>3. AskedInv'
    BY <1>1, <1>6, <1>11, <2>1 DEF AskedInv
  <2>4. Low' = IF j' < j1' - 1 THEN j' ELSE j1' - 1
    BY <1>1, <2>1 DEF Low
  <2>5. Low' \in Int /\ Low <= Low'
    BY <1>1, <1>4, <1>10, <2>4
  <2>6. BaseInv'
    BY <1>1, <2>1, <2>5, BaseKeeps DEF DrawParts
  <2> QED
    BY <2>2, <2>3, <2>6 DEF DrawParts
<1>12. CASE Ask(c)
  <2>1. /\ m' = c /\ c # last_m_ /\ UNCHANGED <<b0_, buf_, last_m_>>
        /\ (Adjacent(c) => at' = "v1" /\ i' = First(c + 1))
        /\ (~Adjacent(c) => at' = "v0" /\ i' = First(c))
    BY <1>12 DEF Ask, Sum, window, First
  <2>2. WindowTypes'
    <3>1. i' \in Int /\ m' \in Int /\ at' \in {"v0", "v1"}
      BY <1>5, <1>9, <2>1 DEF First
    <3> QED
      BY <1>8, <2>1, <3>1 DEF WindowTypes, WindowIsStream
  <2>3. ~Adjacent(c) => j' <= j1'
    <3> SUFFICES ASSUME ~Adjacent(c), ~ (j' <= j1') PROVE FALSE
      OBVIOUS
    <3>1. KnotOf(done) < j
      BY <1>1, <1>4
    <3>2. c = last_m_ + 1
      BY <1>5, <1>7, <2>1, <3>1
    <3> QED
      BY <3>2 DEF Adjacent
  <2>4. /\ First(c + 1) <= c + 2 /\ First(c) <= c + 1 /\ First(c + 1) \in Int /\ First(c) \in Int
        /\ First(c + 1) <= c + 1
    BY <1>5, <1>9 DEF First
  <2>5. AskedInv'
    <3>1. at' # "idle" /\ place' = "knots" /\ KnotOf(done)' < j'
      BY <1>1, <1>3, <1>4, <2>1
    <3>2. \A k \in Int : k = j' - 1 => m' = Pt(k)'
      BY <1>6, <2>1
    <3>3. at' = "v0" => First(m)' <= i' /\ i' <= m' + 1 /\ j' <= j1'
      BY <2>1, <2>3, <2>4 DEF First
    <3>4. at' = "v1" => First(m + 1)' <= i' /\ i' <= m' + 2
      BY <2>1, <2>4 DEF First
    <3> QED
      BY <3>1, <3>2, <3>3, <3>4 DEF AskedInv
  <2>6. ReachInv'
    <3>1. CASE Adjacent(c)
      <4>1. c = last_m_ + 1 /\ last_m_ # Never
        BY <1>5, <1>8, <1>9, <3>1 DEF Adjacent
      <4>2. BlockOf(last_m_ + 1) < b0_ + Len(buf_) /\ buf_ # <<>>
        BY <1>1, <4>1 DEF DrawParts, ReachInv
      <4>3. BlockOf(c) < b0_ + Len(buf_)
        BY <4>1, <4>2
      <4> DEFINE next == First(c + 1)
                 above == c + 1
      <4>4. next \in Int /\ above \in Int /\ next <= above
        BY <1>5, <2>4
      <4>5. BlockOf(above) <= BlockOf(c) + 1 /\ BlockOf(c) \in Int
        BY <1>5, NextBlock, BlockIsInt
      <4> HIDE DEF next, above
      <4>6. BlockOf(next) \in Int /\ BlockOf(above) \in Int /\ BlockOf(next) <= BlockOf(above)
        BY <4>4, BlocksOrdered
      <4>7. BlockOf(next) <= b0_ + Len(buf_)
        BY <1>8, <4>3, <4>5, <4>6
      <4>8. at' = "v1" /\ i' = next /\ First(m + 1)' = next /\ buf_' # <<>>
        BY <2>1, <3>1, <4>2 DEF next, First
      <4>9. BlockOf(i)' <= b0_' + Len(buf_')
        BY <2>1, <4>7, <4>8 DEF BlockOf
      <4> QED
        BY <4>4, <4>8, <4>9 DEF ReachInv
    <3>2. CASE ~Adjacent(c)
      <4>1. at' = "v0" /\ ~ (First(m)' < i')
        BY <2>1, <2>4, <3>2 DEF First
      <4> QED
        BY <4>1 DEF ReachInv
    <3> QED
      BY <3>1, <3>2
  <2>7. Low' = Low
    <3>1. Low' = IF j' - 1 < j1' - 1 THEN j' - 1 ELSE j1' - 1
      BY <1>1, <2>1 DEF Low
    <3> QED
      BY <1>1, <1>4, <1>10, <3>1
  <2>8. BaseInv'
    <3>1. Low' \in Int /\ Low <= Low'
      BY <1>4, <1>10, <2>7
    <3> QED
      BY <1>1, <2>1, <3>1, BaseKeeps DEF DrawParts
  <2> QED
    BY <2>2, <2>5, <2>6, <2>8 DEF DrawParts
<1> QED
  BY <1>1, <1>11, <1>12 DEF AskKnot, Pt, c
\* The window after normal(), where its first block is behind every sum to come.
LEMMA DrawNormal ==
    ASSUME WalkTypes, WalkTypes', series = Run, DrawParts, WalkNormal
    PROVE  DrawParts'
<1>1. /\ at \in {"v0", "v1"}
      /\ at = "v0" => i <= m
      /\ at = "v1" => i <= m + 1
      /\ b0_' = NewBase(BlockOf(i)) /\ buf_' = Reach(BlockOf(i)) /\ i' = i + 1
      /\ UNCHANGED <<motion, process, series, blk, done, place, j, j1, last_m_, at, m>>
      /\ drawn' = drawn \cup JustDrawn /\ again' = again \cup (drawn \cap JustDrawn)
  BY DEF WalkNormal, Normal0, Normal1, Normal, run, last
<1>2. dt_knot' = dt_knot /\ \A k : Pt(k)' = Pt(k)
  BY <1>1, PtKeeps
<1>3. KnotOf(done)' = KnotOf(done)
  BY <1>1, <1>2 DEF KnotOf
<1>4. /\ b0_ \in Int /\ buf_ \in Seq(Int) /\ WindowIsStream /\ last_m_ \in Int /\ m \in Int /\ i \in Int
      /\ Len(buf_) \in Nat /\ Len(buf_) <= Keep
  BY DEF DrawParts, WindowTypes, WindowIsStream
<1>5. /\ Taps \in Nat \ {0} /\ Keep \in Nat \ {0} /\ Drop \in Nat \ {0} /\ Drop <= Keep
  BY GridAssumption
<1>6. /\ place = "knots" /\ j \in Int /\ j1 \in Int /\ j <= j1 + 1
      /\ m = Pt(j - 1)
  BY <1>1, RunPlace DEF DrawParts, AskedInv
<1> DEFINE low == Low
           c == Pt(low)
           b == BlockOf(i)
           size == Len(Kept(b))
<1>7. /\ low \in Int /\ low <= j - 1 /\ j - 2 <= low
      /\ at = "v0" => low = j - 1
      /\ Low' = low
  <2>1. low = IF j - 1 < j1 - 1 THEN j - 1 ELSE j1 - 1
    BY <1>1, <1>6 DEF Low
  <2>2. at = "v0" => j <= j1
    BY DEF DrawParts, AskedInv
  <2>3. Low' = Low
    BY <1>1 DEF Low
  <2> QED
    BY <1>6, <2>1, <2>2, <2>3
<1>8. c \in Int /\ c <= m /\ m - 1 <= c /\ (at = "v0" => c = m)
  <2> DEFINE now == j - 1
             before == j - 2
  <2>1. now \in Int /\ before \in Int /\ now = before + 1 /\ low \in Int /\ before <= low /\ low <= now
        /\ (at = "v0" => low = now)
    BY <1>6, <1>7
  <2> HIDE DEF now, before, low
  <2>2. /\ Pt(now) \in Int /\ Pt(before) \in Int /\ Pt(low) \in Int
        /\ Pt(before) <= Pt(low) /\ Pt(low) <= Pt(now) /\ Pt(now) <= Pt(before) + 1
    BY <2>1, RunPoints
  <2>3. m = Pt(now)
    BY <1>6 DEF now
  <2> QED
    BY <2>1, <2>2, <2>3
<1>9. First(c) \in Int /\ First(c) <= i /\ (at = "v0" => First(c) = First(m)) /\ b \in Int
  <2>1. (at = "v0" => First(m) <= i) /\ (at = "v1" => First(m + 1) <= i)
    BY DEF DrawParts, AskedInv
  <2>2. b \in Int
    BY <1>4, BlockIsInt
  <2> HIDE DEF c, b
  <2>3. First(c) \in Int /\ First(c) <= First(m) /\ First(m) <= First(m + 1) /\ First(m) \in Int
        /\ First(m + 1) \in Int
    BY <1>4, <1>5, <1>8 DEF First
  <2>4. at = "v0" => First(c) = First(m)
    BY <1>8
  <2> QED
    BY <1>1, <1>4, <2>1, <2>2, <2>3, <2>4
<1>10. BlockOf(First(c)) \in Int /\ BlockOf(First(c)) <= b
  <2> DEFINE first == First(c)
  <2>1. first \in Int /\ i \in Int /\ first <= i
    BY <1>4, <1>9
  <2> HIDE DEF first
  <2>2. BlockOf(first) \in Int /\ BlockOf(first) <= BlockOf(i)
    BY <2>1, BlocksOrdered
  <2> QED
    BY <2>2 DEF first
\* Only what is kept of the window and full would be dropped.
<1>11. b - (Keep - Drop) <= BlockOf(First(c))
  <2> DEFINE top == m + 1
             back == top - Taps - 1
             first == First(c)
  <2>1. top \in Int /\ i \in Int /\ i <= top /\ back \in Int /\ first \in Int /\ back <= first
    <3> HIDE DEF c
    <3> QED
      BY <1>1, <1>4, <1>5, <1>8, <1>9 DEF First
  <2> HIDE DEF top, first
  <2>2. BlockOf(top) - (Keep - Drop) <= BlockOf(back)
    BY <2>1, BlocksBack
  <2> HIDE DEF back
  <2>3. /\ BlockOf(i) \in Int /\ BlockOf(top) \in Int /\ BlockOf(back) \in Int /\ BlockOf(first) \in Int
        /\ BlockOf(i) <= BlockOf(top) /\ BlockOf(back) <= BlockOf(first)
    BY <2>1, BlocksOrdered
  <2>4. BlockOf(i) - (Keep - Drop) <= BlockOf(first)
    BY <1>5, <2>2, <2>3
  <2> QED
    BY <2>4 DEF first
<1>12. /\ NewBase(b) \in Int /\ Reach(b) \in Seq(Int) /\ Len(Reach(b)) <= Keep
       /\ \A e \in 1 .. Len(Reach(b)) : Reach(b)[e] = NewBase(b) + (e - 1)
       /\ b - NewBase(b) + 1 \in 1 .. Len(Reach(b))
       /\ size \in Nat /\ size <= Len(Reach(b))
       /\ Outside(b) \/ NewBase(b) + size = b0_ + Len(buf_)
  <2> HIDE DEF b
  <2> QED
    BY <1>4, <1>9, WindowStep
<1>13. Len(Reach(b)) \in Nat /\ b < NewBase(b) + Len(Reach(b))
  <2> HIDE DEF b, size
  <2>1. Len(Reach(b)) \in Nat
    BY <1>12
  <2> QED
    BY <1>9, <1>12, <2>1
\* The window begins at the block, stays, or drops its oldest blocks.
<1>14. /\ buf_ = <<>> => NewBase(b) = b /\ First(m) = i /\ at = "v0"
       /\ buf_ # <<>> => b0_ <= BlockOf(First(c)) /\ b0_ <= b
       /\ buf_ # <<>> /\ Outside(b) => b0_ + Len(buf_) < b /\ First(m) = i /\ at = "v0"
  <2>1. ~ (at = "v0" /\ First(m) < i) /\ ~ (at = "v1") => First(m) = i /\ at = "v0"
    <3>1. at = "v0" => First(m) <= i
      BY DEF DrawParts, AskedInv
    <3>2. First(m) \in Int
      BY <1>4, <1>5 DEF First
    <3> QED
      BY <1>1, <1>4, <3>1, <3>2
  <2>2. ASSUME buf_ = <<>> PROVE NewBase(b) = b /\ First(m) = i /\ at = "v0"
    <3>1. ~ (at = "v0" /\ First(m) < i) /\ ~ (at = "v1")
      BY <2>2 DEF DrawParts, ReachInv
    <3>2. Len(buf_) = 0
      BY <2>2
    <3>3. NewBase(b) = b
      <4> HIDE DEF b
      <4> QED
        BY <1>4, <1>5, <1>9, <3>2 DEF NewBase, Outside, Overflows
    <3> QED
      BY <2>1, <3>1, <3>3
  <2>3. ASSUME buf_ # <<>> PROVE b0_ <= BlockOf(First(c)) /\ b0_ <= b
    <3>1. b0_ <= BlockOf(First(Pt(low)))
      BY <1>7, <2>3 DEF DrawParts, BaseInv
    <3> HIDE DEF b, low
    <3> QED
      BY <1>4, <1>9, <1>10, <3>1
  <2>4. ASSUME buf_ # <<>>, Outside(b)
        PROVE  b0_ + Len(buf_) < b /\ First(m) = i /\ at = "v0"
    <3>1. b0_ + Len(buf_) < b
      <4> HIDE DEF b, c
      <4> QED
        BY <1>4, <1>9, <2>3, <2>4 DEF Outside
    <3>2. ~ (at = "v0" /\ First(m) < i) /\ ~ (at = "v1")
      <4>1. at = "v1" => b <= b0_ + Len(buf_)
        BY DEF DrawParts, ReachInv
      <4>2. at = "v0" /\ First(m) < i => b <= b0_ + Len(buf_)
        <5> SUFFICES ASSUME at = "v0", First(m) < i PROVE b <= b0_ + Len(buf_)
          OBVIOUS
        <5>1. BlockOf(i - 1) < b0_ + Len(buf_)
          BY DEF DrawParts, ReachInv
        <5> DEFINE q == i - 1
        <5>2. q \in Int /\ q + 1 = i
          BY <1>4
        <5> HIDE DEF q
        <5>3. BlockOf(q + 1) <= BlockOf(q) + 1 /\ BlockOf(q) \in Int
          BY <5>2, NextBlock, BlockIsInt
        <5>4. BlockOf(q) < b0_ + Len(buf_)
          BY <5>1 DEF q
        <5>5. b <= BlockOf(q) + 1
          BY <5>2, <5>3
        <5> HIDE DEF b
        <5> QED
          BY <1>4, <1>9, <5>3, <5>4, <5>5
      <4> HIDE DEF b
      <4> QED
        BY <1>4, <1>9, <3>1, <4>1, <4>2
    <3> QED
      BY <2>1, <3>1, <3>2
  <2> QED
    BY <2>2, <2>3, <2>4
<1>15. NewBase(b) <= BlockOf(First(c))
  <2>1. CASE NewBase(b) = b /\ First(m) = i /\ at = "v0"
    <3>1. First(c) = i
      BY <1>9, <2>1
    <3> QED
      BY <1>9, <2>1, <3>1
  <2>2. CASE buf_ # <<>> /\ Outside(b)
    <3>1. NewBase(b) = b /\ First(m) = i /\ at = "v0"
      <4> HIDE DEF b
      <4> QED
        BY <1>14, <2>2 DEF NewBase
    <3> QED
      BY <2>1, <3>1
  <2>3. CASE buf_ # <<>> /\ ~Outside(b) /\ Overflows(b)
    <3>1. NewBase(b) = b - (Keep - Drop)
      <4> HIDE DEF b
      <4> QED
        BY <1>4, <1>5, <1>9, <2>3 DEF NewBase, Overflows
    <3> QED
      BY <1>11, <3>1
  <2>4. CASE buf_ # <<>> /\ ~Outside(b) /\ ~Overflows(b)
    <3>1. NewBase(b) = b0_
      BY <2>4 DEF NewBase
    <3> QED
      BY <1>14, <2>4, <3>1
  <2> QED
    BY <1>14, <2>1, <2>2, <2>3, <2>4
\* What is drawn comes behind all that was drawn before.
<1>16. \A e \in drawn : e < NewBase(b) + size
  <2>1. CASE buf_ = <<>>
    BY <2>1 DEF DrawParts, BaseInv
  <2>2. CASE buf_ # <<>>
    <3>1. b0_ + Len(buf_) <= NewBase(b) + size
      <4>1. CASE Outside(b)
        <5>1. NewBase(b) = b /\ b0_ + Len(buf_) < b
          BY <1>14, <2>2, <4>1 DEF NewBase
        <5> HIDE DEF b, size
        <5> QED
          BY <1>4, <1>9, <1>12, <5>1
      <4>2. CASE ~Outside(b)
        <5> HIDE DEF b, size
        <5> QED
          BY <1>4, <1>12, <4>2
      <4> QED
        BY <4>1, <4>2
    <3>2. \A e \in drawn : e \in Int /\ e < b0_ + Len(buf_)
      BY DEF DrawParts, BaseInv
    <3> HIDE DEF b, size
    <3> QED
      BY <1>4, <1>12, <3>1, <3>2
  <2> QED
    BY <2>1, <2>2
<1>17. \A e \in JustDrawn : e \in Int /\ NewBase(b) + size <= e /\ e < NewBase(b) + Len(Reach(b))
  <2>1. JustDrawn = {Reach(b)[e] : e \in size + 1 .. Len(Reach(b))}
    BY <1>1 DEF JustDrawn
  <2> HIDE DEF b, size
  <2>2. \A e \in size + 1 .. Len(Reach(b)) : Reach(b)[e] = NewBase(b) + (e - 1)
    BY <1>12, <1>13
  <2> QED
    BY <1>12, <1>13, <2>1, <2>2
<1>18. WindowTypes'
  <2>1. b0_' \in Int /\ buf_' \in Seq(Int) /\ WindowIsStream' /\ i' \in Int
    BY <1>1, <1>4, <1>12 DEF WindowIsStream
  <2> QED
    BY <1>1, <1>4, <2>1 DEF WindowTypes
<1>19. AskedInv'
  <2>1. /\ at = "v0" => First(m) <= i' /\ i' <= m + 1
        /\ at = "v1" => First(m + 1) <= i' /\ i' <= m + 2
    <3>1. (at = "v0" => First(m) <= i) /\ (at = "v1" => First(m + 1) <= i)
      BY DEF DrawParts, AskedInv
    <3> QED
      BY <1>1, <1>4, <1>5, <3>1 DEF First
  <2>2. /\ at' # "idle" /\ place' = "knots" /\ KnotOf(done)' < j'
        /\ \A k \in Int : k = j' - 1 => m' = Pt(k)'
        /\ at' = "v0" => j' <= j1'
    BY <1>1, <1>2, <1>3 DEF DrawParts, AskedInv
  <2>3. First(m)' = First(m) /\ First(m + 1)' = First(m + 1)
    BY <1>1 DEF First
  <2> QED
    BY <1>1, <2>1, <2>2, <2>3 DEF AskedInv
<1>20. ReachInv'
  <2>1. BlockOf(i' - 1) < b0_' + Len(buf_')
    <3>1. i' - 1 = i
      BY <1>1, <1>4
    <3>2. BlockOf(i' - 1) = b
      BY <3>1
    <3> QED
      BY <1>1, <1>13, <3>2
  <2>2. BlockOf(i') <= b0_' + Len(buf_')
    <3>1. BlockOf(i') <= b + 1
      BY <1>1, <1>4, NextBlock
    <3>2. BlockOf(i') \in Int
      BY <1>1, <1>4, BlockIsInt
    <3>3. b0_' = NewBase(b) /\ buf_' = Reach(b)
      BY <1>1
    <3> HIDE DEF b
    <3> QED
      BY <1>9, <1>12, <1>13, <3>1, <3>2, <3>3
  <2>3. buf_' # <<>>
    <3>1. buf_' = Reach(b)
      BY <1>1
    <3> HIDE DEF b, size
    <3> QED
      BY <1>12, <3>1
  <2> QED
    BY <1>1, <2>1, <2>2, <2>3 DEF ReachInv, BlockOf
<1>21. BaseInv'
  <2>1. buf_' # <<>>
    BY <1>1, <1>12
  <2>2. \A k \in Int : k = Low' => b0_' <= BlockOf(First(Pt(k)))
    BY <1>1, <1>7, <1>15
  <2>3. drawn \cap JustDrawn = {}
    <3>1. \A e \in drawn : e \in Int
      BY DEF DrawParts, BaseInv
    <3>2. NewBase(b) + size \in Int
      BY <1>12
    <3> HIDE DEF b, size
    <3> QED
      BY <1>16, <1>17, <3>1, <3>2
  <2>4. again' = {}
    BY <1>1, <2>3 DEF DrawParts, BaseInv
  <2>5. \A e \in drawn' : e \in Int /\ e < b0_' + Len(buf_')
    <3>1. \A e \in drawn : e \in Int
      BY DEF DrawParts, BaseInv
    <3>2. NewBase(b) + size <= NewBase(b) + Len(Reach(b))
      <4> HIDE DEF b, size
      <4> QED
        BY <1>12, <1>13
    <3> HIDE DEF b, size
    <3>3. \A e \in drawn : e < NewBase(b) + Len(Reach(b))
      BY <1>12, <1>13, <1>16, <3>1, <3>2
    <3>4. b0_' = NewBase(b) /\ buf_' = Reach(b)
      BY <1>1 DEF b
    <3> QED
      BY <1>1, <1>17, <3>1, <3>3, <3>4
  <2> QED
    BY <1>2, <2>1, <2>2, <2>4, <2>5 DEF BaseInv, BlockOf, First
<1> QED
  BY <1>18, <1>19, <1>20, <1>21 DEF DrawParts

LEMMA DrawEnd ==
    ASSUME WalkTypes, WalkTypes', series = Run, DrawParts, WalkEnd
    PROVE  DrawParts'
<1>1. UNCHANGED <<motion, process, series, blk, done, place, j, j1, drawn, again, b0_, buf_, m>>
  BY DEF WalkEnd, LeftEnd, RightEnd, run, window
<1>2. dt_knot' = dt_knot /\ \A k : Pt(k)' = Pt(k)
  BY <1>1, PtKeeps
<1>3. KnotOf(done)' = KnotOf(done)
  BY <1>1, <1>2 DEF KnotOf
<1>4. /\ b0_ \in Int /\ buf_ \in Seq(Int) /\ WindowIsStream /\ last_m_ \in Int /\ m \in Int /\ i \in Int
      /\ Len(buf_) \in Nat /\ Taps \in Nat \ {0}
  BY GridAssumption DEF DrawParts, WindowTypes
<1>5. j \in Int /\ j1 \in Int /\ Low \in Int
  BY RunPlace
<1>6. at # "idle"
  BY DEF WalkEnd, LeftEnd, RightEnd
<1>7. place = "knots" /\ KnotOf(done) < j /\ \A k \in Int : k = j - 1 => m = Pt(k)
  BY <1>6 DEF DrawParts, AskedInv
<1>8. CASE LeftEnd
  <2>1. at = "v0" /\ i > m /\ at' = "v1" /\ i' = First(m + 1) /\ last_m_' = last_m_
    BY <1>8 DEF LeftEnd, Sum, First
  <2>2. i = m + 1 /\ First(m) < i /\ First(m + 1) <= m + 1 /\ First(m + 1) \in Int
    BY <1>4, <2>1 DEF DrawParts, AskedInv, First
  <2>3. BlockOf(m) < b0_ + Len(buf_) /\ buf_ # <<>>
    <3>1. BlockOf(i - 1) < b0_ + Len(buf_) /\ buf_ # <<>>
      BY <2>1, <2>2 DEF DrawParts, ReachInv
    <3>2. i - 1 = m
      BY <1>4, <2>2
    <3> QED
      BY <3>1, <3>2
  <2>4. BlockOf(First(m + 1)) <= b0_ + Len(buf_)
    <3> DEFINE next == First(m + 1)
               above == m + 1
    <3>1. next \in Int /\ above \in Int /\ next <= above
      BY <1>4, <2>2
    <3>2. BlockOf(above) <= BlockOf(m) + 1 /\ BlockOf(m) \in Int
      BY <1>4, NextBlock, BlockIsInt
    <3> HIDE DEF next, above
    <3>3. BlockOf(next) \in Int /\ BlockOf(above) \in Int /\ BlockOf(next) <= BlockOf(above)
      BY <3>1, BlocksOrdered
    <3>4. BlockOf(next) <= b0_ + Len(buf_)
      BY <1>4, <2>3, <3>2, <3>3
    <3> QED
      BY <3>4 DEF next
  <2>5. WindowTypes'
    BY <1>1, <1>4, <2>1, <2>2 DEF WindowTypes, WindowIsStream
  <2>6. AskedInv'
    <3>1. First(m + 1)' = First(m + 1) /\ First(m + 1) \in Int /\ First(m + 1) <= m + 1
      BY <1>1, <2>2 DEF First
    <3>2. First(m + 1)' <= i' /\ i' <= m' + 2
      BY <1>1, <1>4, <2>1, <3>1
    <3>3. \A k \in Int : k = j' - 1 => m' = Pt(k)'
      BY <1>1, <1>2, <1>7
    <3>4. place' = "knots" /\ KnotOf(done)' < j'
      BY <1>1, <1>3, <1>7
    <3> QED
      BY <2>1, <3>2, <3>3, <3>4 DEF AskedInv
  <2>7. ReachInv'
    <3>1. First(m + 1)' = i' /\ i' \in Int
      BY <1>1, <2>1, <2>2 DEF First
    <3>2. BlockOf(i)' <= b0_' + Len(buf_')
      BY <1>1, <2>1, <2>4 DEF BlockOf
    <3> QED
      BY <1>1, <2>1, <2>3, <3>1, <3>2 DEF ReachInv
  <2>8. Low' = Low
    BY <1>1, <1>6, <2>1 DEF Low
  <2>9. Low' \in Int /\ Low <= Low'
    BY <1>5, <2>8
  <2>10. BaseInv'
    BY <1>1, <2>9, BaseKeeps DEF DrawParts
  <2> QED
    BY <2>5, <2>6, <2>7, <2>10 DEF DrawParts
<1>9. CASE RightEnd
  <2>1. at = "v1" /\ i > m + 1 /\ at' = "idle" /\ last_m_' = m /\ i' = i
    BY <1>9 DEF RightEnd
  <2>2. i = m + 2 /\ First(m + 1) < i
    BY <1>4, <2>1 DEF DrawParts, AskedInv, First
  <2>3. BlockOf(m + 1) < b0_ + Len(buf_) /\ buf_ # <<>>
    <3>1. BlockOf(i - 1) < b0_ + Len(buf_) /\ buf_ # <<>>
      BY <2>1, <2>2 DEF DrawParts, ReachInv
    <3>2. i - 1 = m + 1
      BY <1>4, <2>2
    <3> QED
      BY <3>1, <3>2
  <2>4. WindowTypes'
    BY <1>1, <1>4, <2>1 DEF WindowTypes, WindowIsStream
  <2>5. AskedInv'
    BY <1>1, <1>2, <1>7, <2>1 DEF AskedInv
  <2>6. ReachInv'
    <3>1. BlockOf(last_m_ + 1)' = BlockOf(m + 1)
      BY <2>1 DEF BlockOf
    <3> QED
      BY <1>1, <2>1, <2>3, <3>1 DEF ReachInv
  <2>7. /\ Low = (IF j - 1 < j1 - 1 THEN j - 1 ELSE j1 - 1)
        /\ Low' = (IF j < j1 - 1 THEN j ELSE j1 - 1)
    BY <1>1, <1>6, <1>7, <2>1 DEF Low
  <2>8. Low' \in Int /\ Low <= Low'
    BY <1>5, <2>7
  <2>9. BaseInv'
    BY <1>1, <2>8, BaseKeeps DEF DrawParts
  <2> QED
    BY <2>4, <2>5, <2>6, <2>9 DEF DrawParts
<1> QED
  BY <1>8, <1>9 DEF WalkEnd

LEMMA DrawStep == WalkTypes /\ WalkTypes' /\ DrawInv /\ [WalkNext]_walkVars => DrawInv'
<1> SUFFICES ASSUME WalkTypes, WalkTypes', DrawInv, [WalkNext]_walkVars, series' = Run
             PROVE  DrawParts'
  BY DEF DrawInv, Run
<1>1. series = Run /\ DrawParts /\ UNCHANGED <<motion, process, series>>
  BY WalkFixed DEF DrawInv
<1>2. CASE StartBlock \/ EndBlock
  BY <1>1, <1>2, DrawBlock
<1>3. CASE StartSeries \/ EndSeries
  BY <1>1, <1>3 DEF StartSeries, EndSeries
<1>4. CASE UNCHANGED walkVars
  <2>1. UNCHANGED <<b0_, buf_, last_m_, at, m, i, blk, done, place, j, j1, drawn, again>>
    BY <1>4 DEF walkVars, vars, window, last, run
  <2>2. dt_knot' = dt_knot /\ \A k : Pt(k)' = Pt(k)
    BY <1>1, PtKeeps
  <2>3. KnotOf(done)' = KnotOf(done) /\ Low' = Low
    BY <2>1, <2>2 DEF KnotOf, Low
  <2>4. WindowTypes' /\ ReachInv'
    BY <1>1, <2>1 DEF DrawParts, WindowTypes, WindowIsStream, ReachInv, BlockOf, First
  <2>5. AskedInv'
    BY <1>1, <2>1, <2>2, <2>3 DEF DrawParts, AskedInv, First
  <2>6. Low' \in Int /\ Low <= Low'
    BY <1>1, <2>3, RunPlace
  <2>7. BaseInv'
    BY <1>1, <2>1, <2>6, BaseKeeps DEF DrawParts
  <2> QED
    BY <2>4, <2>5, <2>7 DEF DrawParts
<1> QED
  BY <1>1, <1>2, <1>3, <1>4, DrawAsk, DrawNormal, DrawEnd DEF WalkNext

LEMMA DrawInvariant == WalkSpec => []DrawInv
  BY WalkTypesInvariant, DrawInit, DrawStep, PTL DEF WalkSpec

\* DrawnOnce for every motion, length and blocking of a run, and every size of
\* the window that holds a sum after it dropped its oldest blocks.
THEOREM DrawnOnceHolds == WalkSpec => []DrawnOnce
  BY DrawInvariant, PTL DEF DrawInv, DrawParts, BaseInv, DrawnOnce

-----------------------------------------------------------------------------
(* A run and a series are accesses of a grid process.                        *)

\* While the points that are asked for are grid points of the process, a run or
\* a series is one of its walks, with every value GridProcess promises.
THEOREM WalkIsAccess == WalkSpec /\ [](at # "idle" => m \in Cells) => Spec
<1>1. WalkInit => Init
  BY DEF WalkInit
<1>2. ASSUME [WalkNext]_walkVars, (at # "idle" => m \in Cells)' PROVE [Next]_vars
  <2>1. CASE UNCHANGED walkVars \/ StartBlock \/ StartSeries \/ EndBlock \/ EndSeries
    BY <2>1 DEF walkVars, StartBlock, StartSeries, EndBlock, EndSeries
  <2>2. CASE AskKnot
    <3>1. CASE UNCHANGED vars
      BY <3>1
    <3>2. ASSUME NEW c, Ask(c) PROVE Next
      <4>1. m' = c /\ at' # "idle"
        BY <3>2 DEF Ask, Sum
      <4> QED
        BY <1>2, <3>2, <4>1 DEF Next
    <3> QED
      BY <2>2, <3>1, <3>2 DEF AskKnot
  <2>3. CASE WalkNormal \/ WalkEnd
    BY <2>3 DEF WalkNormal, WalkEnd, Next, Walks
  <2> QED
    BY <1>2, <2>1, <2>2, <2>3 DEF WalkNext
<1> QED
  BY <1>1, <1>2, PTL DEF WalkSpec, Spec

\* So the value at a grid point is the same in every run and every series.
THEOREM WalkValuesArePure ==
    WalkSpec /\ [](at # "idle" => m \in Cells) => [](TypeOK /\ ValuesArePure)
  BY WalkIsAccess, GridTypes, ValuesArePureHolds, PTL
=============================================================================
