----------------------------- MODULE MixerProofs -----------------------------
(***************************************************************************)
(* Proofs about Mixer.                                                     *)
(***************************************************************************)
EXTENDS Mixer, SequenceTheorems, TLAPS

-----------------------------------------------------------------------------
(* Remainders. *)

\* A number is its quotient and its remainder.
LEMMA DivMod ==
    ASSUME NEW a \in Int, NEW b \in Nat \ {0}
    PROVE  /\ a \div b \in Int /\ a % b \in Int
           /\ a = b * (a \div b) + (a % b) /\ 0 <= a % b /\ a % b < b
  BY SMT

LEMMA NatDiv ==
    ASSUME NEW a \in Nat, NEW b \in Nat \ {0}
    PROVE  a \div b \in Nat
  BY SMT

LEMMA AtLeastOnce ==
    ASSUME NEW b \in Nat \ {0}, NEW d \in Int, d >= 1
    PROVE  b * d \in Int /\ b * d >= b
<1>1. b * d = b + b * (d - 1)
  BY SMT
<1>2. b * (d - 1) >= 0
  BY SMT
<1> QED
  BY <1>1, <1>2

\* ... and no other pair.
LEMMA DivUnique ==
    ASSUME NEW a \in Int, NEW b \in Nat \ {0}, NEW q \in Int, NEW r \in Int,
           a = b * q + r, 0 <= r, r < b
    PROVE  a \div b = q /\ a % b = r
<1> DEFINE x == a \div b
           y == a % b
<1>1. x \in Int /\ y \in Int /\ a = b * x + y /\ 0 <= y /\ y < b
  BY DivMod
<1> HIDE DEF x, y
<1>2. b * (x - q) = r - y /\ b * (q - x) = y - r
  BY <1>1, SMT
<1>3. CASE x > q
  <2>1. b * (x - q) >= b
    BY <1>1, <1>3, AtLeastOnce, x - q >= 1, x - q \in Int
  <2> QED
    BY <2>1, <1>1, <1>2
<1>4. CASE x < q
  <2>1. b * (q - x) >= b
    BY <1>1, <1>4, AtLeastOnce, q - x >= 1, q - x \in Int
  <2> QED
    BY <2>1, <1>1, <1>2
<1>5. CASE x = q
  BY <1>1, <1>2, <1>5 DEF x, y
<1> QED
  BY <1>1, <1>3, <1>4, <1>5

\* Counting on from a remainder.
LEMMA ModNext ==
    ASSUME NEW a \in Int, NEW b \in Nat \ {0}, NEW d \in Int
    PROVE  ((a % b) + d) % b = (a + d) % b
<1> DEFINE q == a \div b
           r == a % b
           q1 == (r + d) \div b
           r1 == (r + d) % b
<1>1. q \in Int /\ r \in Int /\ a = b * q + r
  BY DivMod
<1>2. q1 \in Int /\ r1 \in Int /\ r + d = b * q1 + r1 /\ 0 <= r1 /\ r1 < b
  BY <1>1, DivMod, r + d \in Int
<1>3. a + d = b * (q + q1) + r1
  <2> HIDE DEF q, r, q1, r1
  <2> QED
    BY <1>1, <1>2, SMT
<1>4. (a + d) % b = r1
  <2> HIDE DEF q, r, q1, r1
  <2> QED
    BY <1>1, <1>2, <1>3, DivUnique, a + d \in Int, q + q1 \in Int
<1> QED
  BY <1>4

\* Periods of periods.
LEMMA DivDiv ==
    ASSUME NEW a \in Int, NEW b \in Nat \ {0}, NEW c \in Nat \ {0}
    PROVE  (a \div b) \div c = a \div (c * b)
<1> DEFINE q == a \div b
           r == a % b
           p1 == q \div c
           s == q % c
<1>1. q \in Int /\ r \in Int /\ a = b * q + r /\ 0 <= r /\ r < b
  BY DivMod
<1>2. p1 \in Int /\ s \in Int /\ q = c * p1 + s /\ 0 <= s /\ s < c
  BY <1>1, DivMod
<1> HIDE DEF q, r, p1, s
<1>3. c * b \in Nat \ {0}
  BY SMT
<1>4. a = (c * b) * p1 + (b * s + r)
  BY <1>1, <1>2, SMT
<1>5. b * s + r \in Int /\ 0 <= b * s + r
  BY <1>1, <1>2, SMT
<1>6. b * (c - s) >= b /\ b * (c - s) = c * b - b * s
  <2>1. b * (c - s) >= b
    BY <1>2, AtLeastOnce, c - s >= 1, c - s \in Int
  <2> QED
    BY <2>1, <1>2, SMT
<1>7. b * s + r < c * b
  BY <1>1, <1>2, <1>6, b * s \in Int, c * b \in Int
<1>8. a \div (c * b) = p1
  BY <1>2, <1>3, <1>4, <1>5, <1>7, DivUnique
<1> QED
  BY <1>8 DEF q, p1

-----------------------------------------------------------------------------
(* The call. *)

Constants ==
    /\ {Word, Step, Sub, Cycle, KnotN, KnotD, L} \subseteq Nat \ {0}
    /\ Never \in Int
    /\ {sv.sec_len, sv.nbits, sv.knot_samples} \subseteq Nat
    /\ {sv.code_rate, sv.code_doppler, sv.carrier_freq, sv.carrier_phase0,
        sv.tx_chips_offset, sv.chips_per_sym, eff} \subseteq Int
    /\ {sv.tx_time_valid, sv.boc, sv.fading} \subseteq BOOLEAN
    /\ has_nav => sv.chips_per_sym > 0

\* The samples of the call are samples of the block.
CallInv ==
    /\ sv \in Channels /\ block \in Requests /\ call \in CallsOf(block)

LEMMA CallWithin ==
    ASSUME CallInv
    PROVE  /\ block.sample0 \in Nat /\ block.n \in Nat /\ call.sample0 \in Nat /\ call.n \in Nat
           /\ call = [sample0 |-> call.sample0, n |-> call.n]
           /\ block.sample0 <= call.sample0
           /\ call.sample0 + call.n <= block.sample0 + block.n
<1> DEFINE parts == IF block.nthreads = 1 \/ block.n < MinParallel THEN 1 ELSE block.nthreads
           chunk == (block.n + parts - 1) \div parts
<1>1. block.sample0 \in Nat /\ block.n \in Nat /\ block.nthreads \in Nat \ {0}
  BY RequestsAssumption DEF CallInv
<1>2. parts \in Nat \ {0}
  BY <1>1
<1>3. chunk \in Nat
  <2> HIDE DEF parts
  <2>1. block.n + parts - 1 \in Nat
    BY <1>1, <1>2
  <2> QED
    BY <2>1, <1>2, SMT
<1>4. PICK t \in {u \in 0 .. parts - 1 : u * chunk < block.n} :
        call = [sample0 |-> block.sample0 + t * chunk, n |-> Least(chunk, block.n - t * chunk)]
  BY DEF CallInv, CallsOf
<1> HIDE DEF parts, chunk
<1>5. t * chunk \in Nat /\ t * chunk < block.n
  BY <1>2, <1>3, <1>4
<1> QED
  BY <1>1, <1>3, <1>4, <1>5 DEF Least

LEMMA ConstantsTyped ==
    ASSUME CallInv
    PROVE  Constants
<1>1. /\ L \in Nat \ {0}
      /\ sv.code_phase0 \in Int
  BY ChannelsAssumption DEF CallInv, L
<1>2. eff \in Int
  <2>1. L * Sub \in Nat \ {0}
    BY <1>1, MixerAssumption
  <2>2. (sv.code_phase0 % (L * Sub)) \in Int
    BY <1>1, <2>1
  <2>3. L * Sub - (sv.code_phase0 % (L * Sub)) \in Int
    BY <2>1, <2>2
  <2> QED
    BY <2>1, <2>3 DEF eff, EffOf, L
<1> QED
  BY <1>1, <1>2, MixerAssumption, ChannelsAssumption DEF CallInv, Constants, has_nav

-----------------------------------------------------------------------------
(* The invariant. *)

\* The secondary chip and the symbol of a chip of the satellite's clock.
Nav == sv.tx_time_valid /\ has_nav
SecOf(ufl) == IF has_sec THEN (ufl \div L) % sv.sec_len ELSE None
SymOf(ufl) == IF Nav THEN (ufl \div (sv.chips_per_sym \div Sub)) % sv.nbits ELSE None

\* What is cached belongs to the chips it is found by, as long as the path
\* that mixes this channel looks at it.
CacheOf(c) ==
    /\ c = [fl |-> c.fl, ufl |-> c.ufl, ci |-> c.ci, period |-> c.period, si |-> c.si,
            sym_idx |-> c.sym_idx, nav_sym |-> c.nav_sym, cached |-> c.cached]
    /\ {c.fl, c.ufl, c.period, c.sym_idx} \subseteq Int
    /\ c.ci \in 0 .. L - 1 /\ c.si \in Nat /\ (has_sec => c.si < sv.sec_len)
    /\ c.fl # Never => /\ c.ci = c.fl % L
                       /\ Plain => c.cached = <<c.fl % L, None, None>>
                       /\ ~Plain /\ cache_chip => c.cached = <<c.fl % L, SecOf(c.ufl), SymOf(c.ufl)>>
    /\ Modulated /\ has_sec /\ c.period # Never => c.si = c.period % sv.sec_len
    /\ Modulated /\ Nav /\ c.sym_idx # Never => c.nav_sym = c.sym_idx % sv.nbits

\* The accumulator is at the phase of its sample.
RunInv ==
    /\ place \in {"tile", "mix"}
    /\ k \in Nat /\ k <= call.n /\ k1 \in Nat /\ k1 <= call.n
    /\ carr_phase \in 0 .. Word - 1
    /\ place = "mix" => k <= k1 /\ carr_phase = PhaseOfTile(k)

MixedInv ==
    mixed.s # None =>
        \E j \in 0 .. call.n - 1, s \in Nat :
            /\ mixed.s = s /\ s = call.sample0 + j
            /\ mixed.lut = LutIndex(PhaseOfTile(j))
            /\ mixed.chip = ChipOf(s)
            /\ use_gk => mixed.gain = Gain(s)

MixInv == CallInv /\ CacheOf(p) /\ CacheOf(loc) /\ RunInv /\ MixedInv

-----------------------------------------------------------------------------
(* The phases of a call are those of its samples. *)

LEMMA Samples ==
    ASSUME CallInv, NEW j \in 0 .. call.n - 1
    PROVE  /\ call.sample0 + j \in SamplesOf(block) /\ call.sample0 \in SamplesOf(block)
           /\ call.sample0 + j \in Nat /\ call.sample0 \in Nat /\ j \in Nat
BY CallWithin DEF SamplesOf

LEMMA KnotTyped ==
    ASSUME CallInv, use_traj, NEW s \in Nat
    PROVE  /\ KnotAt(s) \in Nat
           /\ sv.traj[KnotAt(s) + 1] \in [freq : Int, phase : Int, rate : Int, chips : Int]
<1>1. sv.traj \in Seq([freq : Int, phase : Int, rate : Int, chips : Int]) /\ sv.knot_samples \in Nat
  BY ChannelsAssumption DEF CallInv
<1>2. Len(sv.traj) \in Nat /\ Len(sv.traj) >= 1
  BY <1>1, EmptySeq DEF use_traj
<1>3. KnotAt(s) \in Nat /\ KnotAt(s) <= Len(sv.traj) - 1
  <2>1. CASE sv.knot_samples = 0
    BY <1>2, <2>1 DEF KnotAt, KnotOf
  <2>2. CASE sv.knot_samples # 0
    <3>1. s \div sv.knot_samples \in Nat
      BY <1>1, <2>2, NatDiv
    <3> QED
      BY <1>2, <2>2, <3>1 DEF KnotAt, KnotOf, Least
  <2> QED
    BY <2>1, <2>2
<1>4. KnotAt(s) + 1 \in 1 .. Len(sv.traj)
  BY <1>2, <1>3
<1>5. sv.traj[KnotAt(s) + 1] \in [freq : Int, phase : Int, rate : Int, chips : Int]
  BY <1>1, <1>4, ElementOfSeq
<1> QED
  BY <1>3, <1>5

LEMMA Distribute ==
    ASSUME NEW a \in Int, NEW b \in Int, NEW c \in Int
    PROVE  a * b \in Int /\ a * c \in Int /\ a * b + a * c = a * (b + c)
BY SMT

\* Every call but one of a block starts in the middle of it, and the phase
\* there is that of its first sample.
LEMMA PhaseIsOfSample ==
    ASSUME CallInv, NEW j \in 0 .. call.n - 1
    PROVE  Cp(j) \in Int /\ Cp(j) = CodePhase(call.sample0 + j)
<1> DEFINE s0 == call.sample0
<1>1. s0 \in Nat /\ j \in Nat /\ s0 + j \in Nat /\ s0 \in SamplesOf(block) /\ s0 + j \in SamplesOf(block)
  BY Samples
<1>2. CASE use_traj
  <2>1. KnotAt(s0) \in Nat /\ knot \in [freq : Int, phase : Int, rate : Int, chips : Int]
    BY <1>1, <1>2, KnotTyped DEF knot
  <2>2. KnotAt(s0 + j) = KnotAt(s0)
    BY <1>1, <1>2, CallerAssumption DEF CallInv, KnotAt, use_traj
  <2>3. sv.knot_samples \in Nat
    BY ConstantsTyped DEF Constants
  <2>4. seg = KnotAt(s0) * sv.knot_samples /\ seg \in Int
    BY <1>2, <2>1, <2>3 DEF seg
  <2>5. CodePhase(s0 + j) = knot.chips + knot.rate * ((s0 + j) - seg)
    BY <1>2, <2>2, <2>4 DEF CodePhase, PhaseOf, KnotAt, use_traj, knot
  <2>6. Cp(j) = knot.chips + knot.rate * (s0 - seg) + knot.rate * j
    BY <1>2 DEF Cp, chip_rate
  <2> HIDE DEF s0
  <2>7. knot.rate * (s0 - seg) + knot.rate * j = knot.rate * ((s0 + j) - seg)
    BY <1>1, <2>1, <2>4, Distribute, s0 - seg \in Int, (s0 - seg) + j = (s0 + j) - seg
  <2>8. knot.chips \in Int /\ knot.rate * (s0 - seg) \in Int /\ knot.rate * j \in Int
    BY <1>1, <2>1, <2>4, Distribute, s0 - seg \in Int
  <2> QED
    BY <2>5, <2>6, <2>7, <2>8 DEF s0
<1>3. CASE ~use_traj
  <2>1. sv.code_rate + sv.code_doppler \in Int /\ eff \in Int
    BY ConstantsTyped DEF Constants
  <2>2. Cp(j) = eff + (sv.code_rate + sv.code_doppler) * (s0 + j)
    BY <1>3 DEF Cp, chip_rate
  <2>3. CodePhase(s0 + j) = eff + (sv.code_rate + sv.code_doppler) * (s0 + j)
    BY <1>3 DEF CodePhase, PhaseOf, use_traj, eff
  <2>4. (sv.code_rate + sv.code_doppler) * (s0 + j) \in Int
    BY <1>1, <2>1, Distribute
  <2> QED
    BY <2>1, <2>2, <2>3, <2>4
<1> QED
  BY <1>2, <1>3

\* No sample's chip, period or symbol is the number for "never".
LEMMA NotNever ==
    ASSUME CallInv, NEW j \in 0 .. call.n - 1
    PROVE  /\ U(j) \in Int
           /\ Cp(j) \div Sub \in Int /\ Cp(j) \div Sub > Never + 1
           /\ U(j) \div Sub \in Int /\ U(j) \div Sub > Never + 1
           /\ U(j) \div (L * Sub) \in Int /\ U(j) \div (L * Sub) > Never + 1
           /\ sv.chips_per_sym > 0 => /\ U(j) \div sv.chips_per_sym \in Int
                                      /\ U(j) \div sv.chips_per_sym > Never + 1
<1> DEFINE s == call.sample0 + j
<1>1. /\ s \in SamplesOf(block)
      /\ Cp(j) \in Int /\ Cp(j) = PhaseOf(sv, s)
  BY Samples, PhaseIsOfSample DEF CodePhase
<1>2. Constants
  BY ConstantsTyped
<1>3. /\ Cp(j) \in {PhaseOf(sv, s), PhaseOf(sv, s) + sv.tx_chips_offset}
      /\ U(j) \in {PhaseOf(sv, s), PhaseOf(sv, s) + sv.tx_chips_offset} /\ U(j) \in Int
  BY <1>1, <1>2 DEF U, Constants
<1>4. L * Sub \in Nat \ {0} /\ Sub \in Nat \ {0}
  BY <1>2 DEF Constants
<1>5. /\ Cp(j) \div Sub > Never + 1 /\ U(j) \div Sub > Never + 1
      /\ U(j) \div (L * Sub) > Never + 1
      /\ sv.chips_per_sym > 0 => U(j) \div sv.chips_per_sym > Never + 1
  BY <1>1, <1>3, CallerAssumption DEF CallInv, L
<1>6. /\ Cp(j) \div Sub \in Int /\ U(j) \div Sub \in Int /\ U(j) \div (L * Sub) \in Int
      /\ sv.chips_per_sym > 0 => U(j) \div sv.chips_per_sym \in Int
  BY <1>1, <1>2, <1>3, <1>4, DivMod DEF Constants
<1> QED
  BY <1>3, <1>5, <1>6

\* What a sample ought to be, by the chips of the call.
LEMMA ChipOfCall ==
    ASSUME CallInv, NEW j \in 0 .. call.n - 1
    PROVE  ChipOf(call.sample0 + j) =
             <<(Cp(j) \div Sub) % L, SecOf(U(j) \div Sub),
               IF ~has_nav THEN None
               ELSE IF sv.tx_time_valid THEN (U(j) \div sv.chips_per_sym) % sv.nbits
               ELSE (((call.sample0 + j) * sv.code_rate) \div sv.chips_per_sym) % sv.nbits>>
<1> DEFINE s == call.sample0 + j
           u == CodePhase(s) + (IF sv.tx_time_valid THEN sv.tx_chips_offset ELSE 0)
<1>1. Cp(j) = CodePhase(s) /\ U(j) = u /\ U(j) \in Int
  BY PhaseIsOfSample, NotNever DEF U
<1>2. (U(j) \div Sub) \div L = U(j) \div (L * Sub)
  BY <1>1, ConstantsTyped, DivDiv DEF Constants
<1>3. ChipOf(s) = <<(CodePhase(s) \div Sub) % L,
          IF has_sec THEN (u \div (L * Sub)) % sv.sec_len ELSE None,
          IF ~has_nav THEN None
          ELSE ((IF sv.tx_time_valid THEN u ELSE s * sv.code_rate) \div sv.chips_per_sym) % sv.nbits>>
  BY DEF ChipOf
<1> HIDE DEF u, s
<1>4. ChipOf(s) = <<(Cp(j) \div Sub) % L, SecOf(U(j) \div Sub),
               IF ~has_nav THEN None
               ELSE IF sv.tx_time_valid THEN (U(j) \div sv.chips_per_sym) % sv.nbits
               ELSE ((s * sv.code_rate) \div sv.chips_per_sym) % sv.nbits>>
  BY <1>1, <1>2, <1>3 DEF SecOf
<1> QED
  BY <1>4 DEF s

\* A symbol of whole chips is that of the chip.
LEMMA SymbolOfChip ==
    ASSUME CallInv, NEW j \in 0 .. call.n - 1, cache_chip
    PROVE  (U(j) \div Sub) \div (sv.chips_per_sym \div Sub) = U(j) \div sv.chips_per_sym
<1> DEFINE c == sv.chips_per_sym
           m == c \div Sub
<1>1. c \in Int /\ c > 0 /\ c % Sub = 0 /\ Sub \in Nat \ {0}
  BY ConstantsTyped DEF Constants, cache_chip
<1>2. m \in Nat /\ c = Sub * m
  <2>1. c \in Nat \ {0} /\ c \div Sub \in Nat
    BY <1>1, NatDiv, c \in Nat
  <2>2. c = Sub * (c \div Sub) + (c % Sub)
    BY <1>1, DivMod
  <2> QED
    BY <1>1, <2>1, <2>2
<1> HIDE DEF m, c
<1>3. m \in Nat \ {0} /\ m * Sub = c
  BY <1>1, <1>2
<1>4. U(j) \in Int
  BY NotNever
<1>5. (U(j) \div Sub) \div m = U(j) \div (m * Sub)
  BY <1>1, <1>3, <1>4, DivDiv
<1> QED
  BY <1>3, <1>5 DEF m, c

\* Counting the chips finds the same entry as the remainder.
LEMMA ChipIndexIsMod ==
    ASSUME CallInv, CacheOf(loc), NEW fl \in Int, fl > Never + 1
    PROVE  ChipIndex(fl) = fl % L /\ fl % L \in 0 .. L - 1
<1>1. L \in Nat \ {0} /\ Never \in Int
  BY ConstantsTyped DEF Constants
<1>2. fl % L \in 0 .. L - 1
  BY <1>1, DivMod
<1>3. CASE fl = loc.fl + 1
  <2>1. loc.fl \in Int /\ loc.fl # Never
    BY <1>1, <1>3 DEF CacheOf
  <2>2. loc.ci = loc.fl % L
    BY <2>1 DEF CacheOf
  <2>3. (loc.ci + 1) % L = fl % L
    BY <1>1, <1>3, <2>1, <2>2, ModNext
  <2> QED
    BY <1>2, <1>3, <2>3 DEF ChipIndex
<1> QED
  BY <1>2, <1>3 DEF ChipIndex

-----------------------------------------------------------------------------
(* One sample. *)

\* The channel, the block and the call never change, nor what depends on them.
LEMMA CallKept ==
    ASSUME UNCHANGED <<sv, block, call>>
    PROVE  /\ UNCHANGED <<L, eff, has_sec, has_nav, Nav, cache_chip, nknots, j0>>
           /\ (use_gk <=> use_gk') /\ (Plain <=> Plain') /\ (Modulated <=> Modulated')
           /\ \A c : CacheOf(c) => CacheOf(c)'
           /\ \A j : PhaseOfTile(j)' = PhaseOfTile(j)
           /\ \A s : ChipOf(s)' = ChipOf(s) /\ Gain(s)' = Gain(s)
           /\ CallInv => CallInv'
<1> USE DEF L, eff, EffOf, has_sec, has_nav, Nav, cache_chip, nknots, j0, use_gk, Plain, Modulated
<1>1. /\ UNCHANGED <<L, eff, has_sec, has_nav, Nav, cache_chip, nknots, j0>>
      /\ (use_gk <=> use_gk') /\ (Plain <=> Plain') /\ (Modulated <=> Modulated')
  OBVIOUS
<1>2. \A c : CacheOf(c) => CacheOf(c)'
  BY DEF CacheOf, SecOf, SymOf
<1>3. CallInv => CallInv'
  BY DEF CallInv
<1>4. \A j : PhaseOfTile(j)' = PhaseOfTile(j)
  BY DEF PhaseOfTile, PhaseAt, carr_inc, IncRounded, carr_freq, carr_start, seg, use_traj, knot,
         KnotAt, KnotOf
<1>5. \A s : ChipOf(s)' = ChipOf(s) /\ Gain(s)' = Gain(s)
  BY DEF ChipOf, Gain, CodePhase, PhaseOf, KnotOf
<1> QED
  BY <1>1, <1>2, <1>3, <1>4, <1>5

LEMMA PhaseTyped ==
    ASSUME CallInv
    PROVE  /\ carr_freq \in Int /\ carr_start \in Int /\ seg \in Int
           /\ PhaseAt(call.sample0) \in Nat /\ IncRounded \in Nat /\ carr_inc \in Nat
<1>1. call.sample0 \in Nat /\ Constants
  BY CallWithin, ConstantsTyped
<1>2. carr_freq \in Int /\ carr_start \in Int /\ seg \in Int
  <2>1. CASE use_traj
    <3>1. KnotAt(call.sample0) \in Nat /\ knot \in [freq : Int, phase : Int, rate : Int, chips : Int]
      BY <1>1, <2>1, KnotTyped DEF knot
    <3> QED
      BY <1>1, <2>1, <3>1 DEF carr_freq, carr_start, seg, Constants
  <2> QED
    BY <1>1, <2>1 DEF carr_freq, carr_start, seg, Constants
<1>3. Cycle \in Nat \ {0} /\ Word \in Nat \ {0} /\ 2 * Cycle \in Nat \ {0}
  BY <1>1 DEF Constants
<1>4. IncRounded \in Nat
  <2>1. (carr_freq % Cycle) \in Nat
    BY <1>2, <1>3, DivMod
  <2>2. 2 * (carr_freq % Cycle) * Word + Cycle \in Nat
    BY <1>3, <2>1
  <2> QED
    BY <1>3, <2>2, NatDiv DEF IncRounded
<1>5. carr_inc \in Nat
  BY <1>3, <1>4, DivMod DEF carr_inc
<1>6. PhaseAt(call.sample0) \in Nat
  <2> DEFINE a == carr_start + carr_freq * (call.sample0 - seg)
  <2>1. a \in Int
    BY <1>1, <1>2
  <2>2. (a % Cycle) \in Nat
    BY <1>3, <2>1, DivMod
  <2> HIDE DEF a
  <2>3. (a % Cycle) * Word \in Nat
    BY <1>3, <2>2
  <2>4. ((a % Cycle) * Word) \div Cycle \in Nat
    BY <1>3, <2>3, NatDiv
  <2> QED
    BY <2>4 DEF a, PhaseAt
<1> QED
  BY <1>2, <1>4, <1>5, <1>6

\* The accumulator goes on from the phase of a sample to that of the next.
LEMMA PhaseGoesOn ==
    ASSUME CallInv, NEW j \in Nat
    PROVE  /\ PhaseOfTile(j) \in 0 .. Word - 1
           /\ (PhaseOfTile(j) + carr_inc) % Word = PhaseOfTile(j + 1)
<1> DEFINE b == PhaseAt(call.sample0)
<1>1. Word \in Nat \ {0} /\ b \in Nat /\ carr_inc \in Nat
  BY PhaseTyped, ConstantsTyped DEF Constants
<1> HIDE DEF b
<1>2. b + j * carr_inc \in Int /\ (b + j * carr_inc) + carr_inc = b + (j + 1) * carr_inc
  BY <1>1
<1>3. (((b + j * carr_inc) % Word) + carr_inc) % Word = (b + (j + 1) * carr_inc) % Word
  <2> DEFINE a == b + j * carr_inc
  <2>1. a \in Int /\ a + carr_inc = b + (j + 1) * carr_inc
    BY <1>2
  <2> HIDE DEF a
  <2>2. ((a % Word) + carr_inc) % Word = (a + carr_inc) % Word
    BY <1>1, <2>1, ModNext, carr_inc \in Int
  <2> QED
    BY <2>1, <2>2 DEF a
<1>4. (b + j * carr_inc) % Word \in 0 .. Word - 1
  BY <1>1, <1>2, DivMod
<1> QED
  BY <1>3, <1>4 DEF b, PhaseOfTile

\* A sample whose chip is right and whose phase is its own keeps the record of
\* the latest sample and the place in the tile right.
LEMMA EmitKeeps ==
    ASSUME CallInv, RunInv, place = "mix", k < k1,
           NEW chip, NEW gain, Emit(chip, gain),
           chip = ChipOf(call.sample0 + k), use_gk => gain = Gain(call.sample0 + k)
    PROVE  RunInv' /\ MixedInv'
<1>1. /\ UNCHANGED <<sv, block, call, place, k1>> /\ k' = k + 1
      /\ carr_phase' = (carr_phase + carr_inc) % Word
      /\ mixed' = [s |-> call.sample0 + k, chip |-> chip,
                   lut |-> LutIndex(carr_phase), gain |-> gain]
  BY DEF Emit
<1>2. k \in 0 .. call.n - 1 /\ call.n \in Nat
  BY CallWithin DEF RunInv
<1>3. carr_phase = PhaseOfTile(k) /\ \A j : PhaseOfTile(j)' = PhaseOfTile(j)
  BY <1>1, CallKept DEF RunInv
<1>4. carr_phase' = PhaseOfTile(k + 1) /\ carr_phase' \in 0 .. Word - 1
  BY <1>1, <1>2, <1>3, PhaseGoesOn
<1>5. RunInv'
  BY <1>1, <1>2, <1>3, <1>4 DEF RunInv
<1>6. MixedInv'
  <2> DEFINE s == call.sample0 + k
  <2>1. s \in Nat /\ \A t : ChipOf(t)' = ChipOf(t) /\ Gain(t)' = Gain(t)
    BY <1>1, <1>2, CallKept, CallWithin
  <2>2. use_gk <=> use_gk'
    BY <1>1, CallKept
  <2>3. /\ mixed'.s = s /\ mixed'.lut = LutIndex(PhaseOfTile(k))
        /\ mixed'.chip = ChipOf(s) /\ (use_gk => mixed'.gain = Gain(s))
    BY <1>1, <1>3
  <2> HIDE DEF s
  <2>4. PICK j \in 0 .. call.n - 1 : j = k
    BY <1>2
  <2>5. /\ j \in 0 .. call'.n - 1 /\ s = call'.sample0 + j
        /\ mixed'.lut = LutIndex(PhaseOfTile(j)) /\ PhaseOfTile(j)' = PhaseOfTile(j)
    BY <1>1, <1>3, <2>3, <2>4 DEF s
  <2> QED
    BY <2>1, <2>2, <2>3, <2>5 DEF MixedInv, LutIndex
<1> QED
  BY <1>5, <1>6

\* What a path needs to know of its sample.
LEMMA MixingTypes ==
    ASSUME CallInv, CacheOf(loc), RunInv, place = "mix", k < k1
    PROVE  /\ k \in 0 .. call.n - 1
           /\ Cp(k) \div Sub \in Int /\ Cp(k) \div Sub > Never + 1
           /\ U(k) \div Sub \in Int /\ U(k) \div Sub > Never + 1
           /\ ChipIndex(Cp(k) \div Sub) = (Cp(k) \div Sub) % L
           /\ (Cp(k) \div Sub) % L \in 0 .. L - 1
           /\ Never \in Int
<1>1. k \in 0 .. call.n - 1
  BY CallWithin DEF RunInv
<1>2. /\ Cp(k) \div Sub \in Int /\ Cp(k) \div Sub > Never + 1
      /\ U(k) \div Sub \in Int /\ U(k) \div Sub > Never + 1
  BY <1>1, NotNever
<1> QED
  BY <1>1, <1>2, ChipIndexIsMod, ConstantsTyped DEF Constants

LEMMA MixPlainKeeps ==
    ASSUME CallInv, CacheOf(p), CacheOf(loc), RunInv, MixPlain
    PROVE  CacheOf(p)' /\ CacheOf(loc)' /\ RunInv' /\ MixedInv'
<1> DEFINE fl == Cp(k) \div Sub
           chip == <<fl % L, None, None>>
<1>1. /\ place = "mix" /\ k < k1 /\ Plain
      /\ loc' = IF fl = loc.fl THEN loc
                ELSE [loc EXCEPT !.fl = fl, !.ci = ChipIndex(fl),
                                 !.cached = <<ChipIndex(fl), None, None>>]
      /\ Emit(loc'.cached, <<>>)
  BY DEF MixPlain
<1>2. /\ k \in 0 .. call.n - 1 /\ fl \in Int /\ fl > Never + 1 /\ Never \in Int
      /\ ChipIndex(fl) = fl % L /\ fl % L \in 0 .. L - 1
  BY <1>1, MixingTypes
<1>3. ChipOf(call.sample0 + k) = chip
  BY <1>1, <1>2, ChipOfCall DEF Plain, SecOf
<1>4. UNCHANGED <<sv, block, call, p>>
  BY <1>1 DEF Emit
<1> HIDE DEF fl
<1>5. loc'.cached = chip /\ CacheOf(loc)'
  <2>1. CASE fl = loc.fl
    <3>1. loc' = loc
      BY <1>1, <2>1
    <3>2. loc.cached = chip
      BY <1>1, <1>2, <2>1 DEF CacheOf
    <3> QED
      BY <1>4, <3>1, <3>2, CallKept
  <2>2. CASE fl # loc.fl
    <3>1. loc' = [loc EXCEPT !.fl = fl, !.ci = fl % L, !.cached = chip]
      BY <1>1, <1>2, <2>2
    <3>2. loc' = [fl |-> fl, ufl |-> loc.ufl, ci |-> fl % L, period |-> loc.period,
                  si |-> loc.si, sym_idx |-> loc.sym_idx, nav_sym |-> loc.nav_sym,
                  cached |-> chip]
      BY <3>1 DEF CacheOf
    <3>3. CacheOf(loc')
      BY <1>1, <1>2, <3>2 DEF CacheOf
    <3> QED
      BY <1>4, <3>2, <3>3, CallKept
  <2> QED
    BY <2>1, <2>2
<1>6. ~use_gk
  BY <1>1 DEF Plain
<1>7. RunInv' /\ MixedInv'
  BY <1>1, <1>3, <1>5, <1>6, EmitKeeps
<1> QED
  BY <1>4, <1>5, <1>7, CallKept

LEMMA CacheTyped ==
    ASSUME NEW c, CacheOf(c)
    PROVE  c.fl \in Int /\ c.ufl \in Int /\ c.period \in Int /\ c.sym_idx \in Int
BY DEF CacheOf

\* The secondary code by counting its periods, the symbol by remembering it.
LEMMA ModulationOfChip ==
    ASSUME CallInv, CacheOf(loc), NEW j \in 0 .. call.n - 1, Modulated
    PROVE  LET period == U(j) \div (L * Sub)
               sym_idx == U(j) \div sv.chips_per_sym
               symbol == IF ~Nav THEN None
                         ELSE IF sym_idx = loc.sym_idx THEN loc.nav_sym ELSE NavSymbolAt(sym_idx)
           IN  /\ period \in Int /\ (Nav => sym_idx \in Int)
               /\ SecIndex(period) = SecOf(U(j) \div Sub)
               /\ has_sec => SecIndex(period) = period % sv.sec_len
               /\ symbol = SymOf(U(j) \div Sub)
               /\ Nav => symbol = sym_idx % sv.nbits
<1> DEFINE period == U(j) \div (L * Sub)
           sym_idx == U(j) \div sv.chips_per_sym
           symbol == IF ~Nav THEN None
                     ELSE IF sym_idx = loc.sym_idx THEN loc.nav_sym ELSE NavSymbolAt(sym_idx)
<1>1. /\ L \in Nat \ {0} /\ Sub \in Nat \ {0} /\ Never \in Int
      /\ sv.sec_len \in Nat
      /\ has_nav => sv.chips_per_sym > 0
  BY ConstantsTyped DEF Constants
<1>2. /\ period \in Int /\ period > Never + 1 /\ U(j) \in Int
      /\ has_nav => sym_idx \in Int /\ sym_idx > Never + 1
  BY <1>1, NotNever
<1>3. (U(j) \div Sub) \div L = period
  BY <1>1, <1>2, DivDiv
<1>4. (U(j) \div Sub) \div (sv.chips_per_sym \div Sub) = sym_idx
  BY SymbolOfChip DEF Modulated
<1> HIDE DEF period, sym_idx
<1>5. ASSUME has_sec PROVE SecIndex(period) = period % sv.sec_len
  <2>1. sv.sec_len \in Nat \ {0} /\ loc.period \in Int
    BY <1>1, <1>5 DEF has_sec, CacheOf
  <2>2. CASE period = loc.period
    BY <1>1, <1>2, <1>5, <2>2 DEF SecIndex, CacheOf
  <2>3. CASE period = loc.period + 1
    <3>1. loc.si = loc.period % sv.sec_len
      BY <1>1, <1>2, <1>5, <2>1, <2>3 DEF CacheOf
    <3>2. (loc.si + 1) % sv.sec_len = period % sv.sec_len
      BY <2>1, <2>3, <3>1, ModNext
    <3>3. period # loc.period
      BY <2>1, <2>3
    <3> QED
      BY <1>5, <2>3, <3>2, <3>3 DEF SecIndex
  <2> QED
    BY <1>5, <2>2, <2>3 DEF SecIndex
<1>6. SecIndex(period) = SecOf(U(j) \div Sub)
  BY <1>3, <1>5 DEF SecIndex, SecOf
<1>7. ASSUME Nav PROVE symbol = sym_idx % sv.nbits
  <2>1. CASE sym_idx = loc.sym_idx
    BY <1>1, <1>2, <1>7, <2>1 DEF CacheOf, Nav
  <2> QED
    BY <1>7, <2>1 DEF NavSymbolAt
<1>8. symbol = SymOf(U(j) \div Sub)
  BY <1>4, <1>7 DEF SymOf
<1> QED
  BY <1>2, <1>5, <1>6, <1>7, <1>8 DEF period, sym_idx, Nav

LEMMA MixModulatedKeeps ==
    ASSUME CallInv, CacheOf(p), CacheOf(loc), RunInv, MixModulated
    PROVE  CacheOf(p)' /\ CacheOf(loc)' /\ RunInv' /\ MixedInv'
<1> DEFINE fl == Cp(k) \div Sub
           ufl == U(k) \div Sub
           ci == IF fl = loc.fl THEN loc.ci ELSE ChipIndex(fl)
           period == U(k) \div (L * Sub)
           sym_idx == U(k) \div sv.chips_per_sym
           symbol == IF ~Nav THEN None
                     ELSE IF sym_idx = loc.sym_idx THEN loc.nav_sym ELSE NavSymbolAt(sym_idx)
           chip == <<fl % L, SecOf(ufl), SymOf(ufl)>>
<1>1. /\ place = "mix" /\ k < k1 /\ Modulated
      /\ loc' = IF SameChip(fl, ufl) THEN loc
                ELSE [fl |-> fl, ufl |-> ufl, ci |-> ci,
                      period |-> IF has_sec THEN period ELSE loc.period,
                      si |-> IF has_sec THEN SecIndex(period) ELSE loc.si,
                      sym_idx |-> IF Nav THEN sym_idx ELSE loc.sym_idx,
                      nav_sym |-> IF Nav THEN symbol ELSE loc.nav_sym,
                      cached |-> <<ci, SecIndex(period), symbol>>]
      /\ Emit(loc'.cached, <<>>)
  BY DEF MixModulated, Nav
<1>2. /\ k \in 0 .. call.n - 1 /\ fl \in Int /\ fl > Never + 1 /\ Never \in Int
      /\ ufl \in Int
      /\ ChipIndex(fl) = fl % L /\ fl % L \in 0 .. L - 1
  BY <1>1, MixingTypes
<1>3. /\ period \in Int /\ (Nav => sym_idx \in Int)
      /\ SecIndex(period) = SecOf(ufl) /\ (has_sec => SecIndex(period) = period % sv.sec_len)
      /\ symbol = SymOf(ufl) /\ (Nav => symbol = sym_idx % sv.nbits)
  BY <1>1, <1>2, ModulationOfChip
<1>4. ChipOf(call.sample0 + k) = chip
  <2>1. cache_chip /\ (sv.tx_time_valid \/ ~has_nav)
    BY <1>1 DEF Modulated
  <2>2. (ufl \div (sv.chips_per_sym \div Sub)) = sym_idx
    BY <1>2, <2>1, SymbolOfChip
  <2> QED
    BY <1>2, <2>1, <2>2, ChipOfCall DEF SymOf, Nav
<1>5. UNCHANGED <<sv, block, call, p>>
  BY <1>1 DEF Emit
<1>6. ci = fl % L
  BY <1>2 DEF CacheOf
<1> HIDE DEF fl, ufl, ci, period, sym_idx, symbol
<1>7. loc'.cached = chip /\ CacheOf(loc)'
  <2>1. CASE SameChip(fl, ufl)
    <3>1. loc' = loc
      BY <1>1, <2>1
    <3>2. loc.cached = chip
      BY <1>1, <1>2, <2>1 DEF CacheOf, SameChip, Modulated
    <3> QED
      BY <1>5, <3>1, <3>2, CallKept
  <2>2. CASE ~SameChip(fl, ufl)
    <3>1. loc' = [fl |-> fl, ufl |-> ufl, ci |-> fl % L,
                  period |-> IF has_sec THEN period ELSE loc.period,
                  si |-> IF has_sec THEN period % sv.sec_len ELSE loc.si,
                  sym_idx |-> IF Nav THEN sym_idx ELSE loc.sym_idx,
                  nav_sym |-> IF Nav THEN sym_idx % sv.nbits ELSE loc.nav_sym,
                  cached |-> chip]
      BY <1>1, <1>3, <1>6, <2>2
    <3>2. has_sec => period % sv.sec_len \in Nat /\ period % sv.sec_len < sv.sec_len
      <4>1. has_sec => sv.sec_len \in Nat \ {0}
        BY ConstantsTyped DEF Constants, has_sec
      <4> QED
        BY <1>3, <4>1, DivMod
    <3>3. ~Plain
      BY <1>1 DEF Modulated
    <3>4. /\ {loc'.fl, loc'.ufl, loc'.period, loc'.sym_idx} \subseteq Int
          /\ loc'.si \in Nat /\ (has_sec => loc'.si < sv.sec_len)
      BY <1>2, <1>3, <3>1, <3>2, CacheTyped DEF CacheOf
    <3>5. /\ has_sec => loc'.si = loc'.period % sv.sec_len
          /\ Nav => loc'.nav_sym = loc'.sym_idx % sv.nbits
      BY <3>1
    <3>6. /\ loc'.ci = loc'.fl % L /\ loc'.ci \in 0 .. L - 1
          /\ loc'.cached = <<loc'.fl % L, SecOf(loc'.ufl), SymOf(loc'.ufl)>>
      BY <1>2, <3>1
    <3>7. loc' = [fl |-> loc'.fl, ufl |-> loc'.ufl, ci |-> loc'.ci, period |-> loc'.period,
                  si |-> loc'.si, sym_idx |-> loc'.sym_idx, nav_sym |-> loc'.nav_sym,
                  cached |-> loc'.cached]
      BY <3>1
    <3>8. CacheOf(loc')
      BY <3>3, <3>4, <3>5, <3>6, <3>7 DEF CacheOf
    <3> QED
      BY <1>5, <3>1, <3>8, CallKept
  <2> QED
    BY <2>1, <2>2
<1>8. ~use_gk
  BY <1>1 DEF Modulated
<1>9. RunInv' /\ MixedInv'
  BY <1>1, <1>4, <1>7, <1>8, EmitKeeps
<1> QED
  BY <1>5, <1>7, <1>9, CallKept

LEMMA MixGeneralKeeps ==
    ASSUME CallInv, CacheOf(p), CacheOf(loc), RunInv, MixGeneral
    PROVE  CacheOf(p)' /\ CacheOf(loc)' /\ RunInv' /\ MixedInv'
<1> DEFINE fl == Cp(k) \div Sub
           ufl == U(k) \div Sub
           hit == cache_chip /\ SameChip(fl, ufl)
           new == <<ChipIndex(fl),
                    IF has_sec THEN (U(k) \div (L * Sub)) % sv.sec_len ELSE None,
                    IF sv.tx_time_valid /\ has_nav
                    THEN NavSymbolAt(U(k) \div sv.chips_per_sym) ELSE None>>
           chip == IF hit THEN loc.cached ELSE new
           gain == IF use_gk THEN Gain(call.sample0 + k) ELSE <<>>
           sym == IF Nav THEN (U(k) \div sv.chips_per_sym) % sv.nbits ELSE None
           right == <<fl % L, SecOf(ufl), sym>>
<1>1. /\ place = "mix" /\ k < k1 /\ ~Plain /\ ~Modulated
      /\ loc' = IF hit THEN loc
                ELSE [loc EXCEPT !.fl = fl, !.ufl = ufl, !.ci = chip[1], !.cached = chip]
      /\ Emit(WithLegacySymbol(chip), gain)
  BY DEF MixGeneral
<1>2. /\ k \in 0 .. call.n - 1 /\ fl \in Int /\ fl > Never + 1 /\ Never \in Int
      /\ ufl \in Int
      /\ ChipIndex(fl) = fl % L /\ fl % L \in 0 .. L - 1
  BY <1>1, MixingTypes
<1>3. cache_chip => sym = SymOf(ufl)
  BY <1>2, SymbolOfChip DEF SymOf
<1>4. new = right
  <2>1. (U(k) \div Sub) \div L = U(k) \div (L * Sub)
    BY <1>2, NotNever, ConstantsTyped, DivDiv DEF Constants
  <2> QED
    BY <1>2, <2>1 DEF SecOf, Nav, NavSymbolAt
<1>5. UNCHANGED <<sv, block, call, p>>
  BY <1>1 DEF Emit
<1>6. ChipOf(call.sample0 + k) = WithLegacySymbol(right)
  <2>1. \A x : [right EXCEPT ![3] = x] = <<fl % L, SecOf(ufl), x>>
    OBVIOUS
  <2> QED
    BY <1>2, <2>1, ChipOfCall DEF WithLegacySymbol, Nav, NavSymbolAt
<1> HIDE DEF fl, ufl, new, sym
<1>7. chip = right
  <2>1. CASE hit
    <3>1. fl = loc.fl /\ ufl = loc.ufl /\ loc.fl # Never
      BY <1>2, <2>1 DEF SameChip
    <3>2. loc.cached = <<loc.fl % L, SecOf(loc.ufl), SymOf(loc.ufl)>>
      BY <1>1, <2>1, <3>1 DEF CacheOf
    <3> QED
      BY <1>3, <2>1, <3>1, <3>2
  <2> QED
    BY <1>4, <2>1
<1>8. chip[1] = fl % L
  BY <1>7
<1>9. loc' = IF hit THEN loc
              ELSE [loc EXCEPT !.fl = fl, !.ufl = ufl, !.ci = fl % L, !.cached = right]
  BY <1>1, <1>7, <1>8
<1> HIDE DEF hit, chip
<1>10. CacheOf(loc)'
  <2>1. CASE hit
    BY <1>5, <1>9, <2>1, CallKept
  <2>2. CASE ~hit
    <3>1. loc' = [loc EXCEPT !.fl = fl, !.ufl = ufl, !.ci = fl % L, !.cached = right]
      BY <1>9, <2>2
    <3>2. loc' = [fl |-> fl, ufl |-> ufl, ci |-> fl % L, period |-> loc.period,
                  si |-> loc.si, sym_idx |-> loc.sym_idx, nav_sym |-> loc.nav_sym,
                  cached |-> right]
      BY <3>1 DEF CacheOf
    <3>3. /\ {loc'.fl, loc'.ufl, loc'.period, loc'.sym_idx} \subseteq Int
          /\ loc'.si = loc.si /\ loc'.ci \in 0 .. L - 1 /\ loc'.ci = loc'.fl % L
          /\ cache_chip => loc'.cached = <<loc'.fl % L, SecOf(loc'.ufl), SymOf(loc'.ufl)>>
      BY <1>2, <1>3, <3>2, CacheTyped
    <3>4. loc' = [fl |-> loc'.fl, ufl |-> loc'.ufl, ci |-> loc'.ci, period |-> loc'.period,
                  si |-> loc'.si, sym_idx |-> loc'.sym_idx, nav_sym |-> loc'.nav_sym,
                  cached |-> loc'.cached]
      BY <3>2
    <3>5. CacheOf(loc')
      BY <1>1, <3>3, <3>4 DEF CacheOf
    <3> QED
      BY <1>5, <3>5, CallKept
  <2> QED
    BY <2>1, <2>2
<1>11. RunInv' /\ MixedInv'
  <2>1. WithLegacySymbol(chip) = ChipOf(call.sample0 + k)
    BY <1>6, <1>7
  <2>2. use_gk => gain = Gain(call.sample0 + k)
    OBVIOUS
  <2> QED
    BY <1>1, <2>1, <2>2, EmitKeeps
<1> QED
  BY <1>5, <1>10, <1>11, CallKept

-----------------------------------------------------------------------------
(* The invariant holds. *)

LEMMA MixInit == Init => MixInv
<1> SUFFICES ASSUME Init PROVE MixInv
  OBVIOUS
<1>1. CallInv
  BY DEF Init, CallInv
<1>2. Constants /\ call.n \in Nat
  BY <1>1, ConstantsTyped, CallWithin
<1>3. L \in Nat \ {0} /\ Never \in Int /\ (has_sec => 0 < sv.sec_len)
  BY <1>2 DEF Constants, has_sec
<1>4. CacheOf(Fresh)
  BY <1>3 DEF CacheOf, Fresh
<1>5. p = Fresh /\ loc = Fresh
  BY DEF Init
<1>6. RunInv /\ MixedInv
  BY <1>2, MixerAssumption DEF Init, RunInv, MixedInv
<1> QED
  BY <1>1, <1>4, <1>5, <1>6 DEF MixInv

LEMMA BeginTileKeeps ==
    ASSUME MixInv, BeginTile
    PROVE  MixInv'
<1>1. /\ UNCHANGED <<sv, block, call, k, p, mixed>>
      /\ loc' = p /\ place' = "mix" /\ k < call.n
      /\ k1' = Least(k + Tile, call.n) /\ carr_phase' = PhaseOfTile(k)
  BY DEF BeginTile
<1>2. k \in Nat /\ call.n \in Nat /\ Tile \in Nat \ {0}
  BY CallWithin, MixerAssumption DEF MixInv, RunInv
<1>3. k1' \in Nat /\ k1' <= call.n /\ k <= k1'
  BY <1>1, <1>2 DEF Least
<1>4. \A j : PhaseOfTile(j)' = PhaseOfTile(j)
  BY <1>1, CallKept
<1>5. PhaseOfTile(k) \in 0 .. Word - 1
  BY <1>2, PhaseGoesOn DEF MixInv
<1>6. PICK j \in Nat : j = k
  BY <1>2
<1>7. carr_phase' = PhaseOfTile(j) /\ PhaseOfTile(j)' = PhaseOfTile(j) /\ k' = j
  BY <1>1, <1>4, <1>6
<1>8. RunInv'
  BY <1>1, <1>2, <1>3, <1>5, <1>7 DEF RunInv, MixInv
<1>9. MixedInv'
  BY <1>1, CallKept DEF MixedInv, MixInv, LutIndex
<1> QED
  BY <1>1, <1>8, <1>9, CallKept DEF MixInv

\* A path writes back what it has kept running, and the rest is as it was.
LEMMA EndTileKeeps ==
    ASSUME MixInv, EndTile
    PROVE  MixInv'
<1>1. /\ UNCHANGED <<sv, block, call, k, k1, loc, carr_phase, mixed>>
      /\ p' = Saved /\ place' = "tile"
  BY DEF EndTile
<1>2. CacheOf(p) /\ CacheOf(loc)
  BY DEF MixInv
<1>3. CacheOf(Saved)
  <2>1. CASE Plain
    <3>1. ~Modulated
      BY <2>1 DEF Modulated
    <3>2. Saved = [p EXCEPT !.fl = loc.fl, !.ci = loc.ci, !.cached = loc.cached]
      BY <2>1, <3>1 DEF Saved
    <3>3. Saved = [fl |-> loc.fl, ufl |-> p.ufl, ci |-> loc.ci, period |-> p.period,
                   si |-> p.si, sym_idx |-> p.sym_idx, nav_sym |-> p.nav_sym,
                   cached |-> loc.cached]
      BY <1>2, <3>2 DEF CacheOf
    <3> QED
      BY <1>2, <2>1, <3>1, <3>3 DEF CacheOf
  <2>2. CASE Modulated
    BY <1>2, <2>2 DEF Saved, Modulated
  <2>3. CASE ~Plain /\ ~Modulated
    <3>1. Saved = [p EXCEPT !.fl = loc.fl, !.ufl = loc.ufl, !.ci = loc.ci, !.cached = loc.cached]
      BY <2>3 DEF Saved
    <3>2. Saved = [fl |-> loc.fl, ufl |-> loc.ufl, ci |-> loc.ci, period |-> p.period,
                   si |-> p.si, sym_idx |-> p.sym_idx, nav_sym |-> p.nav_sym,
                   cached |-> loc.cached]
      BY <1>2, <3>1 DEF CacheOf
    <3> QED
      BY <1>2, <2>3, <3>2 DEF CacheOf
  <2> QED
    BY <2>1, <2>2, <2>3
<1>4. RunInv'
  BY <1>1 DEF RunInv, MixInv
<1>5. MixedInv'
  BY <1>1, CallKept DEF MixedInv, MixInv, LutIndex
<1> QED
  BY <1>1, <1>2, <1>3, <1>4, <1>5, CallKept DEF MixInv

LEMMA MixStep == MixInv /\ [Next]_vars => MixInv'
<1> SUFFICES ASSUME MixInv, [Next]_vars PROVE MixInv'
  OBVIOUS
<1>1. CallInv /\ CacheOf(p) /\ CacheOf(loc) /\ RunInv
  BY DEF MixInv
<1>2. UNCHANGED <<sv, block, call>>
  BY DEF Next, BeginTile, EndTile, MixPlain, MixModulated, MixGeneral, Emit, vars
<1>3. CASE BeginTile
  BY <1>3, BeginTileKeeps
<1>4. CASE EndTile
  BY <1>4, EndTileKeeps
<1>5. CASE MixPlain
  BY <1>1, <1>2, <1>5, MixPlainKeeps, CallKept DEF MixInv
<1>6. CASE MixModulated
  BY <1>1, <1>2, <1>6, MixModulatedKeeps, CallKept DEF MixInv
<1>7. CASE MixGeneral
  BY <1>1, <1>2, <1>7, MixGeneralKeeps, CallKept DEF MixInv
<1>8. CASE UNCHANGED vars
  <2>1. UNCHANGED <<sv, block, call, place, k, k1, p, loc, carr_phase, mixed>>
    BY <1>8 DEF vars
  <2>2. \A j : PhaseOfTile(j)' = PhaseOfTile(j)
    BY <1>2, CallKept
  <2>3. PICK j \in Nat : j = k
    BY <1>1 DEF RunInv
  <2>4. RunInv'
    BY <1>1, <2>1, <2>2, <2>3 DEF RunInv
  <2>5. MixedInv'
    BY <2>1, CallKept DEF MixedInv, MixInv, LutIndex
  <2> QED
    BY <1>1, <2>1, <2>4, <2>5, CallKept DEF MixInv
<1> QED
  BY <1>3, <1>4, <1>5, <1>6, <1>7, <1>8 DEF Next

LEMMA MixAlways == Spec => []MixInv
BY MixInit, MixStep, PTL DEF Spec

\* The three paths and the cache are only short cuts: each sample is modulated
\* with the chip, the secondary chip and the symbol of its number, for every
\* code, rate and message, every cut of a block into calls and tiles.
THEOREM ChipIsOfSampleHolds == Spec => []ChipIsOfSample
<1>1. MixInv => ChipIsOfSample
  <2> SUFFICES ASSUME MixInv PROVE ChipIsOfSample
    OBVIOUS
  <2>1. TypeOK
    BY DEF MixInv, CallInv, CacheOf, RunInv, TypeOK
  <2>2. mixed.s # None => mixed.chip = ChipOf(mixed.s)
    BY DEF MixInv, MixedInv
  <2> QED
    BY <2>1, <2>2 DEF ChipIsOfSample
<1> QED
  BY <1>1, MixAlways, PTL

-----------------------------------------------------------------------------
(* The gain knots. *)

LEMMA DivMonotone ==
    ASSUME NEW a \in Int, NEW b \in Int, NEW c \in Nat \ {0}, a <= b
    PROVE  a \div c <= b \div c
<1> DEFINE x == a \div c
           y == b \div c
<1>1. /\ x \in Int /\ (a % c) \in Int /\ a = c * x + (a % c) /\ 0 <= a % c /\ a % c < c
      /\ y \in Int /\ (b % c) \in Int /\ b = c * y + (b % c) /\ 0 <= b % c /\ b % c < c
  BY DivMod
<1> HIDE DEF x, y
<1>2. CASE x > y
  <2>1. c * (x - y) >= c
    BY <1>1, <1>2, AtLeastOnce, x - y >= 1, x - y \in Int
  <2>2. c * (x - y) = c * x - c * y /\ c * x \in Int /\ c * y \in Int
    BY <1>1, SMT
  <2> QED
    BY <1>1, <2>1, <2>2
<1> QED
  BY <1>1, <1>2 DEF x, y

\* The knots a sample is interpolated between were handed over for its block,
\* and are the two that enclose it, however blocks and knots are spaced.
THEOREM GainEnclosesHolds == Spec => []GainEncloses
<1>1. MixInv => GainEncloses
  <2> SUFFICES ASSUME MixInv, mixed.s # None, use_gk
               PROVE  /\ mixed.gain[1] + 1 < nknots
                      /\ (j0 + mixed.gain[1]) * KnotN + mixed.gain[2] = mixed.s * KnotD
    BY DEF GainEncloses
  <2>1. PICK i \in 0 .. call.n - 1, s \in Nat :
          mixed.s = s /\ s = call.sample0 + i /\ mixed.gain = Gain(s)
    BY DEF MixInv, MixedInv
  <2> DEFINE first_ == block.sample0
             last_ == block.sample0 + block.n - 1
             jk == (s * KnotD) \div KnotN
  <2>2. first_ \in Nat /\ last_ \in Int /\ first_ <= s /\ s <= last_
    BY <2>1, CallWithin DEF MixInv
  <2>3. KnotN \in Nat \ {0} /\ KnotD \in Nat \ {0}
    BY MixerAssumption
  <2>4. first_ * KnotD <= s * KnotD /\ s * KnotD <= last_ * KnotD
        /\ first_ * KnotD \in Int /\ s * KnotD \in Int /\ last_ * KnotD \in Int
    <3> HIDE DEF first_, last_
    <3>1. (s - first_) * KnotD >= 0 /\ (last_ - s) * KnotD >= 0
      BY <2>2, <2>3, SMT
    <3> QED
      BY <2>2, <2>3, <3>1, SMT
  <2>5. j0 = (first_ * KnotD) \div KnotN /\ nknots = (last_ * KnotD) \div KnotN + 1 - j0 + 1
    BY DEF j0, nknots
  <2> HIDE DEF first_, last_
  <2>6. /\ jk \in Int /\ j0 \in Int /\ (last_ * KnotD) \div KnotN \in Int
        /\ j0 <= jk /\ jk <= (last_ * KnotD) \div KnotN
    BY <2>3, <2>4, <2>5, DivMod, DivMonotone
  <2>7. /\ s * KnotD = KnotN * jk + ((s * KnotD) % KnotN) /\ (s * KnotD) % KnotN \in Int
        /\ 0 <= (s * KnotD) % KnotN /\ (s * KnotD) % KnotN < KnotN
    BY <2>3, <2>4, DivMod
  <2> DEFINE f == (s * KnotD) % KnotN
  <2>8. Gain(s) = <<jk - j0, f>>
    <3>1. LET j == (s * KnotD) \div KnotN - j0
              used == IF j < 0 THEN 0 ELSE Least(j, nknots - 2)
          IN  used = jk - j0
      BY <2>5, <2>6 DEF Least
    <3>2. s * KnotD - (j0 + (jk - j0)) * KnotN = f
      <4>1. j0 + (jk - j0) = jk
        BY <2>6
      <4>2. s * KnotD = KnotN * jk + f /\ f \in Int /\ s * KnotD \in Int
        BY <2>4, <2>7
      <4> HIDE DEF jk, f
      <4>3. KnotN * jk = jk * KnotN /\ KnotN * jk \in Int
        BY <2>3, <2>6
      <4> QED
        BY <4>1, <4>2, <4>3
    <3>3. (IF f < 0 THEN 0 ELSE Least(f, KnotN)) = f
      BY <2>3, <2>7 DEF Least
    <3> QED
      BY <3>1, <3>2, <3>3 DEF Gain
  <2>9. (jk - j0) + 1 < nknots
    BY <2>5, <2>6
  <2>10. (j0 + (jk - j0)) * KnotN + f = s * KnotD
    <3>1. j0 + (jk - j0) = jk
      BY <2>6
    <3> HIDE DEF jk
    <3> QED
      BY <2>3, <2>4, <2>6, <2>7, <3>1
  <2> QED
    BY <2>1, <2>8, <2>9, <2>10
<1> QED
  BY <1>1, MixAlways, PTL

-----------------------------------------------------------------------------
(* The carrier. *)

\* The distance to the nearest multiple is at most that to any of them.
LEMMA Nearest ==
    ASSUME NEW T \in Nat \ {0}, NEW e \in Int, NEW m \in Int, NEW b \in Int,
           -b <= 2 * e, 2 * e <= b
    PROVE  2 * Least((e - T * m) % T, T - ((e - T * m) % T)) <= b
<1> DEFINE x == (e - T * m) \div T
           d == (e - T * m) % T
           y == m + x
<1> SUFFICES 2 * Least(d, T - d) <= b
  OBVIOUS
<1>1. T * m \in Int /\ e - T * m \in Int
  BY SMT
<1>2. x \in Int /\ d \in Int /\ e - T * m = T * x + d /\ 0 <= d /\ d < T
  BY <1>1, DivMod
<1> HIDE DEF x, d
<1>3. y \in Int /\ e = T * y + d
  BY <1>1, <1>2, SMT
<1> HIDE DEF y
<1>4. CASE y = 0
  BY <1>2, <1>3, <1>4 DEF Least
<1>5. CASE y >= 1
  <2>1. T * y >= T /\ T * y \in Int
    BY <1>3, <1>5, AtLeastOnce
  <2> QED
    BY <1>2, <1>3, <2>1 DEF Least
<1>6. CASE y <= -1
  <2>1. T * (-y) >= T /\ T * (-y) \in Int
    BY <1>3, <1>6, AtLeastOnce, -y \in Int, -y >= 1
  <2>2. T * (-y) = -(T * y) /\ T * y \in Int
    BY <1>3, SMT
  <2>3. T - d <= -e
    BY <1>2, <1>3, <2>1, <2>2
  <2> QED
    BY <1>2, <2>3 DEF Least
<1>7. y = 0 \/ y >= 1 \/ y <= -1
  BY <1>3
<1> QED
  BY <1>4, <1>5, <1>6, <1>7

\* The exact phase of a sample is that of the call's first sample plus the
\* frequency times the samples between.
LEMMA CarrierOfCall ==
    ASSUME CallInv, NEW j \in 0 .. call.n - 1
    PROVE  CarrierAt(call.sample0 + j)
             = (carr_start + carr_freq * (call.sample0 - seg) + carr_freq * j) % Cycle
<1> DEFINE s0 == call.sample0
<1>1. s0 \in Nat /\ j \in Nat /\ s0 + j \in Nat /\ s0 \in SamplesOf(block) /\ s0 + j \in SamplesOf(block)
  BY Samples
<1>2. CASE use_traj
  <2>1. KnotAt(s0) \in Nat /\ knot \in [freq : Int, phase : Int, rate : Int, chips : Int]
    BY <1>1, <1>2, KnotTyped DEF knot
  <2>2. KnotAt(s0 + j) = KnotAt(s0)
    BY <1>1, <1>2, CallerAssumption DEF CallInv, KnotAt, use_traj
  <2>3. sv.knot_samples \in Nat
    BY ConstantsTyped DEF Constants
  <2>4. seg = KnotAt(s0) * sv.knot_samples /\ seg \in Int
    BY <1>2, <2>1, <2>3 DEF seg
  <2>5. CarrierAt(s0 + j) = (knot.phase + knot.freq * ((s0 + j) - seg)) % Cycle
    BY <1>2, <2>2, <2>4 DEF CarrierAt, use_traj, knot
  <2>6. carr_start = knot.phase /\ carr_freq = knot.freq
    BY <1>2 DEF carr_start, carr_freq
  <2> HIDE DEF s0
  <2>7. knot.freq * (s0 - seg) + knot.freq * j = knot.freq * ((s0 + j) - seg)
    BY <1>1, <2>1, <2>4, Distribute, s0 - seg \in Int, (s0 - seg) + j = (s0 + j) - seg
  <2>8. knot.phase \in Int /\ knot.freq * (s0 - seg) \in Int /\ knot.freq * j \in Int
    BY <1>1, <2>1, <2>4, Distribute, s0 - seg \in Int
  <2>9. knot.phase + knot.freq * (s0 - seg) + knot.freq * j = knot.phase + knot.freq * ((s0 + j) - seg)
    BY <2>7, <2>8
  <2> QED
    BY <2>5, <2>6, <2>9 DEF s0
<1>3. CASE ~use_traj
  <2>1. sv.carrier_freq \in Int /\ sv.carrier_phase0 \in Int
    BY ConstantsTyped DEF Constants
  <2>2. carr_start = sv.carrier_phase0 /\ carr_freq = sv.carrier_freq /\ seg = 0
    BY <1>3 DEF carr_start, carr_freq, seg
  <2>3. CarrierAt(s0 + j) = (sv.carrier_phase0 + sv.carrier_freq * (s0 + j)) % Cycle
    BY <1>3 DEF CarrierAt
  <2> HIDE DEF s0
  <2>4. sv.carrier_freq * (s0 - 0) + sv.carrier_freq * j = sv.carrier_freq * (s0 + j)
        /\ sv.carrier_freq * (s0 - 0) \in Int /\ sv.carrier_freq * j \in Int
    BY <1>1, <2>1, Distribute, s0 - 0 = s0
  <2>5. sv.carrier_phase0 + sv.carrier_freq * (s0 - 0) + sv.carrier_freq * j
          = sv.carrier_phase0 + sv.carrier_freq * (s0 + j)
    BY <2>1, <2>4
  <2> QED
    BY <2>2, <2>3, <2>5 DEF s0
<1> QED
  BY <1>2, <1>3

\* The carrier stays within half a table step of the exact phase, and a cycle's
\* 2^-32 per sample of the call and two more, for every frequency, start, width
\* of the accumulator and size of the table.
THEOREM CarrierTracksHolds == Spec => []CarrierTracks
<1> DEFINE turn == Cycle * Word
           error == (mixed.lut * Step * Cycle - CarrierAt(mixed.s) * Word) % turn
           bound == Step * Cycle + (call.n + 2) * Cycle
<1>1. MixInv => CarrierTracks
  <2> SUFFICES ASSUME MixInv, mixed.s # None PROVE 2 * Least(error, turn - error) <= bound
    BY DEF CarrierTracks
  <2> DEFINE a == (carr_start + carr_freq * (call.sample0 - seg)) % Cycle
             f == carr_freq % Cycle
             b == PhaseAt(call.sample0)
             h == Step \div 2
  <2>1. PICK i \in 0 .. call.n - 1, s \in Nat :
          mixed.s = s /\ s = call.sample0 + i /\ mixed.lut = LutIndex(PhaseOfTile(i))
    BY DEF MixInv, MixedInv
  <2>2. /\ CallInv /\ call.n \in Nat /\ call.sample0 \in Nat /\ i \in Nat /\ i + 1 <= call.n
        /\ carr_freq \in Int /\ carr_start \in Int /\ seg \in Int
        /\ b \in Nat /\ IncRounded \in Nat /\ carr_inc \in Nat
        /\ Cycle \in Nat \ {0} /\ Word \in Nat \ {0} /\ Step \in Nat \ {0}
    BY <2>1, CallWithin, PhaseTyped, MixerAssumption DEF MixInv
  <2> DEFINE phase == PhaseOfTile(i)
             q == (phase + h) % Word
             lut == LutIndex(phase)
             carrier == CarrierAt(s)
  <2>3. /\ a \in Nat /\ f \in Nat
        /\ \E q5 \in Int : carrier = a + f * i + Cycle * q5
    <3> DEFINE start == carr_start + carr_freq * (call.sample0 - seg)
               qa == start \div Cycle
               qf == carr_freq \div Cycle
               q4 == (start + carr_freq * i) \div Cycle
    <3>1. start \in Int /\ start + carr_freq * i \in Int
      BY <2>2
    <3>2. carrier = (start + carr_freq * i) % Cycle
      BY <2>1, <2>2, CarrierOfCall
    <3>7. a = start % Cycle
      OBVIOUS
    <3> HIDE DEF start, a
    <3>3. /\ a \in Nat /\ f \in Nat /\ carrier \in Int
          /\ qa \in Int /\ start = Cycle * qa + a
          /\ qf \in Int /\ carr_freq = Cycle * qf + f
          /\ q4 \in Int /\ start + carr_freq * i = Cycle * q4 + carrier
      <4>2. /\ a \in Nat /\ qa \in Int /\ start = Cycle * qa + a
        BY <2>2, <3>1, <3>7, DivMod
      <4>3. f \in Nat /\ qf \in Int /\ carr_freq = Cycle * qf + f
        BY <2>2, DivMod
      <4>4. carrier \in Int /\ q4 \in Int /\ start + carr_freq * i = Cycle * q4 + carrier
        BY <2>2, <3>1, <3>2, DivMod
      <4> QED
        BY <4>2, <4>3, <4>4
    <3> HIDE DEF f, qa, qf, q4, carrier
    <3>4. qa + qf * i - q4 \in Int
      BY <2>2, <3>3, SMT
    <3>5. carrier = a + f * i + Cycle * (qa + qf * i - q4)
      <4>1. carr_freq * i = Cycle * (qf * i) + f * i
        <5>1. carr_freq * i = (Cycle * qf + f) * i
          BY <3>3
        <5>2. (Cycle * qf + f) * i = Cycle * (qf * i) + f * i
          BY <2>2, <3>3, SMT
        <5> QED
          BY <5>1, <5>2
      <4>2. Cycle * (qa + qf * i - q4) = Cycle * qa + Cycle * (qf * i) - Cycle * q4
            /\ Cycle * qa \in Int /\ Cycle * (qf * i) \in Int /\ Cycle * q4 \in Int /\ f * i \in Int
        BY <2>2, <3>3, SMT
      <4> QED
        BY <2>2, <3>3, <4>1, <4>2
    <3> QED
      BY <3>3, <3>4, <3>5
  <2>4. \E r1 \in Int : a * Word = Cycle * b + r1 /\ 0 <= r1 /\ r1 < Cycle
    <3>1. a * Word \in Int /\ b = (a * Word) \div Cycle
      BY <2>2, <2>3 DEF PhaseAt
    <3> HIDE DEF a, b
    <3> QED
      BY <2>2, <3>1, DivMod
  <2>5. \E r2 \in Int : 2 * f * Word + Cycle = (2 * Cycle) * IncRounded + r2 /\ 0 <= r2 /\ r2 < 2 * Cycle
    <3>1. 2 * f * Word + Cycle \in Int /\ IncRounded = (2 * f * Word + Cycle) \div (2 * Cycle)
      BY <2>2, <2>3 DEF IncRounded
    <3> HIDE DEF f
    <3> QED
      BY <2>2, <3>1, DivMod, 2 * Cycle \in Nat \ {0}
  <2>6. \E q1 \in Int : IncRounded = Word * q1 + carr_inc
    <3>1. /\ IncRounded \div Word \in Int
          /\ IncRounded = Word * (IncRounded \div Word) + (IncRounded % Word)
      BY <2>2, DivMod, IncRounded \in Int
    <3> QED
      BY <3>1 DEF carr_inc
  <2>7. phase \in Int /\ \E q2 \in Int : b + i * carr_inc = Word * q2 + phase
    <3>1. b + i * carr_inc \in Int /\ phase = (b + i * carr_inc) % Word
      BY <2>2 DEF PhaseOfTile
    <3> HIDE DEF b, phase
    <3> QED
      BY <2>2, <3>1, DivMod
  <2>8. h \in Nat /\ Step - 1 <= 2 * h /\ 2 * h <= Step
    <3>1. /\ h \in Int /\ Step % 2 \in Int /\ Step = 2 * h + (Step % 2)
          /\ 0 <= Step % 2 /\ Step % 2 < 2
      BY <2>2, DivMod, 2 \in Nat \ {0}
    <3> HIDE DEF h
    <3> QED
      BY <2>2, <3>1
  <2>9. q \in Int /\ \E q3 \in Int : phase + h = Word * q3 + q
    <3> HIDE DEF h, phase
    <3> QED
      BY <2>2, <2>7, <2>8, DivMod, phase + h \in Int
  <2>10. lut \in Int /\ \E r3 \in Int : q = Step * lut + r3 /\ 0 <= r3 /\ r3 < Step
    <3>1. lut = q \div Step
      BY DEF LutIndex
    <3> HIDE DEF q, lut
    <3> QED
      BY <2>2, <2>9, <3>1, DivMod
  <2>11. mixed.lut = lut /\ mixed.s = s
    BY <2>1
  <2> HIDE DEF a, f, b, h, phase, q, lut, carrier
  \* r1, r2 and r3 are what the start, the increment and the entry are rounded by;
  \* the q are whole turns.
  <2>12. PICK q5 \in Int, r1 \in Int, r2 \in Int, q1 \in Int, q2 \in Int, q3 \in Int, r3 \in Int :
           /\ carrier = a + f * i + Cycle * q5
           /\ a * Word = Cycle * b + r1 /\ 0 <= r1 /\ r1 < Cycle
           /\ 2 * f * Word + Cycle = (2 * Cycle) * IncRounded + r2 /\ 0 <= r2 /\ r2 < 2 * Cycle
           /\ IncRounded = Word * q1 + carr_inc
           /\ b + i * carr_inc = Word * q2 + phase
           /\ phase + h = Word * q3 + q
           /\ q = Step * lut + r3 /\ 0 <= r3 /\ r3 < Step
    BY <2>3, <2>4, <2>5, <2>6, <2>7, <2>9, <2>10
  <2>13. /\ Cycle \in Nat /\ Word \in Nat /\ Step \in Nat /\ i \in Nat /\ h \in Nat
         /\ a \in Int /\ f \in Int /\ b \in Int /\ IncRounded \in Int /\ carr_inc \in Int
         /\ phase \in Int /\ q \in Int /\ lut \in Int /\ carrier \in Int
    <3>1. carrier \in Int
      BY <2>2, <2>3, <2>12
    <3> QED
      BY <2>2, <2>3, <2>7, <2>8, <2>9, <2>10, <3>1
  <2>14. PICK e \in Int, m \in Int :
           /\ lut * Step * Cycle - carrier * Word = e - (Cycle * Word) * m
           /\ 2 * e = i * (Cycle - r2) - 2 * r1 + 2 * ((h - r3) * Cycle)
    <3> DEFINE m1 == i * q1 + q2 + q3
    <3>1. m1 \in Int /\ i * IncRounded \in Int /\ Word * m1 \in Int
      BY <2>13, SMT
    <3>2. i * carr_inc = i * IncRounded - Word * (i * q1)
      BY <2>12, <2>13, SMT
    <3>3. Word * m1 = Word * (i * q1) + Word * q2 + Word * q3
          /\ Word * (i * q1) \in Int /\ Word * q2 \in Int /\ Word * q3 \in Int
          /\ Step * lut \in Int /\ i * carr_inc \in Int
      BY <2>13, SMT
    <3>4. lut * Step = b + i * IncRounded + h - r3 - Word * m1
      <4>1. lut * Step = Step * lut
        BY <2>13, SMT
      <4> HIDE DEF m1
      <4> QED
        BY <2>12, <2>13, <3>1, <3>2, <3>3, <4>1
    <3> HIDE DEF m1
    <3>5. lut * Step * Cycle
            = Cycle * b + i * (Cycle * IncRounded) + (h - r3) * Cycle - (Cycle * Word) * m1
      <4> DEFINE x == lut * Step
      <4>1. x * Cycle = (b + i * IncRounded + h - r3 - Word * m1) * Cycle
        BY <3>4
      <4>2. (b + i * IncRounded + h - r3 - Word * m1) * Cycle
              = Cycle * b + i * (Cycle * IncRounded) + (h - r3) * Cycle - (Cycle * Word) * m1
        BY <2>13, <3>1, SMT
      <4> QED
        BY <4>1, <4>2
    <3>6. carrier * Word = a * Word + i * (f * Word) + (Cycle * Word) * q5
      <4>1. carrier * Word = (a + f * i + Cycle * q5) * Word
        BY <2>12, <2>13
      <4>2. (a + f * i + Cycle * q5) * Word = a * Word + i * (f * Word) + (Cycle * Word) * q5
        BY <2>13, SMT
      <4> QED
        BY <4>1, <4>2
    <3> DEFINE e == i * (Cycle * IncRounded - f * Word) - r1 + (h - r3) * Cycle
               m == m1 + q5
    <3>7. e \in Int /\ m \in Int
      BY <2>13, <3>1, SMT
    <3>8. lut * Step * Cycle - carrier * Word = e - (Cycle * Word) * m
      <4>1. /\ i * (Cycle * IncRounded) \in Int /\ i * (f * Word) \in Int
            /\ (h - r3) * Cycle \in Int /\ Cycle * b \in Int
            /\ a * Word \in Int /\ (Cycle * Word) * m1 \in Int /\ (Cycle * Word) * q5 \in Int
            /\ i * (Cycle * IncRounded - f * Word) = i * (Cycle * IncRounded) - i * (f * Word)
            /\ (Cycle * Word) * m = (Cycle * Word) * m1 + (Cycle * Word) * q5
        BY <2>13, <3>1, SMT
      <4>2. a * Word = Cycle * b + r1 /\ r1 \in Int
        BY <2>12
      <4>3. e = i * (Cycle * IncRounded) - i * (f * Word) - r1 + (h - r3) * Cycle
        BY <4>1
      <4> HIDE DEF e, m
      <4> QED
        BY <3>5, <3>6, <4>1, <4>2, <4>3
    <3>9. 2 * e = i * (Cycle - r2) - 2 * r1 + 2 * ((h - r3) * Cycle)
      <4>1. Cycle * IncRounded \in Int /\ f * Word \in Int /\ (h - r3) * Cycle \in Int
        BY <2>13, SMT
      <4>2. 2 * (Cycle * IncRounded) - 2 * (f * Word) = Cycle - r2
        <5>1. (2 * Cycle) * IncRounded = 2 * (Cycle * IncRounded) /\ 2 * f * Word = 2 * (f * Word)
          BY <2>13, SMT
        <5> QED
          BY <2>12, <2>13, <4>1, <5>1
      <4>3. 2 * (i * (Cycle * IncRounded - f * Word)) = i * (Cycle - r2)
        <5> DEFINE y == Cycle * IncRounded - f * Word
        <5>1. y \in Int /\ 2 * y = Cycle - r2
          BY <4>1, <4>2
        <5> HIDE DEF y
        <5>2. 2 * (i * y) = i * (2 * y)
          BY <5>1, SMT
        <5> QED
          BY <5>1, <5>2 DEF y
      <4>4. i * (Cycle * IncRounded - f * Word) \in Int
        BY <4>1, SMT
      <4> HIDE DEF m
      <4> QED
        BY <4>1, <4>3, <4>4
    <3> QED
      BY <3>7, <3>8, <3>9
  <2>15. -bound <= 2 * e /\ 2 * e <= bound /\ bound \in Int
    <3>1. -(i * Cycle) <= i * (Cycle - r2) /\ i * (Cycle - r2) <= i * Cycle /\ i * Cycle \in Int
      <4>1. i * r2 >= 0 /\ i * (2 * Cycle - r2) >= 0
        BY <2>2, <2>12, SMT
      <4>2. i * (Cycle - r2) = i * Cycle - i * r2 /\ i * (2 * Cycle - r2) = 2 * (i * Cycle) - i * r2
        BY <2>2, SMT
      <4> QED
        BY <2>2, <4>1, <4>2
    <3>2. -(Step * Cycle) <= 2 * ((h - r3) * Cycle) /\ 2 * ((h - r3) * Cycle) <= Step * Cycle
      <4>1. 2 * ((h - r3) * Cycle) = (2 * (h - r3)) * Cycle
        BY <2>2, <2>8, SMT
      <4>2. (Step - 2 * (h - r3)) * Cycle >= 0 /\ (Step + 2 * (h - r3)) * Cycle >= 0
        <5>1. Step - 2 * (h - r3) \in Nat /\ Step + 2 * (h - r3) \in Nat
          BY <2>2, <2>8, <2>12
        <5> QED
          BY <2>2, <5>1, SMT
      <4>3. /\ (Step - 2 * (h - r3)) * Cycle = Step * Cycle - (2 * (h - r3)) * Cycle
            /\ (Step + 2 * (h - r3)) * Cycle = Step * Cycle + (2 * (h - r3)) * Cycle
        BY <2>2, <2>8, SMT
      <4> QED
        BY <2>2, <2>8, <4>1, <4>2, <4>3
    <3>3. i * Cycle + Cycle <= call.n * Cycle /\ call.n * Cycle \in Int
      <4>1. (call.n - (i + 1)) * Cycle >= 0
        BY <2>2, SMT
      <4>2. (call.n - (i + 1)) * Cycle = call.n * Cycle - (i * Cycle + Cycle)
        BY <2>2, SMT
      <4> QED
        BY <2>2, <4>1, <4>2
    <3>4. bound = Step * Cycle + call.n * Cycle + 2 * Cycle
      BY <2>2
    <3> HIDE DEF bound
    <3> QED
      BY <2>2, <2>8, <2>12, <2>14, <3>1, <3>2, <3>3, <3>4
  <2>16. Cycle * Word \in Nat \ {0}
    BY <2>2, SMT
  <2>17. 2 * Least((e - turn * m) % turn, turn - ((e - turn * m) % turn)) <= bound
    <3> HIDE DEF bound
    <3> QED
      BY <2>15, <2>16, Nearest
  <2>18. error = (e - turn * m) % turn
    <3>1. CarrierAt(mixed.s) = carrier
      BY <2>11 DEF carrier
    <3> QED
      BY <2>11, <2>14, <3>1
  <2> QED
    BY <2>17, <2>18
<1> QED
  BY <1>1, MixAlways, PTL
=============================================================================
