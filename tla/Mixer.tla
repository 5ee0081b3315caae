-------------------------------- MODULE Mixer --------------------------------
(***************************************************************************)
(* One channel in one call of mix_block(): the samples of a chunk, tile by *)
(* tile, with the cached chip of prepare_sv()/mix_sv_into() and the 32-bit *)
(* carrier accumulator (backend/synth/native/mixer.cpp, nco.hpp).          *)
(*                                                                         *)
(* Channels only add up, so one stands for all. What a sample gets is kept *)
(* as the indices into the code, the secondary code, the message, the      *)
(* carrier table and the gain knots; phases are exact multiples of         *)
(* 1/Sub chip and 1/Cycle of a carrier cycle, and time is counted in       *)
(* samples: the rounding of doubles is left out, that of the accumulator   *)
(* is not.                                                                 *)
(***************************************************************************)
EXTENDS Integers, Sequences

CONSTANTS
    Channels,           \* the SvChannel records a block may be mixed with
    Requests,           \* blocks: [sample0, n, nthreads]
    MinParallel,        \* blocks below this length are one chunk (4096)
    Tile,               \* kMixTile
    Word, Step,         \* 2^32, and the part of it one table entry covers, 2^20
    Sub, Cycle,         \* resolution of code and carrier phases
    KnotN, KnotD,       \* gain_knot_dt in samples is KnotN / KnotD
    Never               \* INT64_MIN

ASSUME MixerAssumption ==
    /\ \A c \in {MinParallel, Tile, Word, Step, Sub, Cycle, KnotN, KnotD} : c \in Nat \ {0}
    /\ Word % Step = 0
    /\ Never \in Int

\* Codes, rates and phases are whole numbers of their units; a message has
\* symbols of some length, a secondary code and a message may be absent.
ASSUME ChannelsAssumption ==
    \A c \in Channels :
        /\ c.code_len \in Nat \ {0} /\ {c.sec_len, c.nbits, c.knot_samples} \subseteq Nat
        /\ {c.code_rate, c.code_doppler, c.code_phase0, c.carrier_freq, c.carrier_phase0,
            c.tx_chips_offset, c.chips_per_sym} \subseteq Int
        /\ {c.tx_time_valid, c.boc, c.fading} \subseteq BOOLEAN
        /\ c.traj \in Seq([freq : Int, phase : Int, rate : Int, chips : Int])
        /\ c.nbits > 0 => c.chips_per_sym > 0

ASSUME RequestsAssumption == Requests \subseteq [sample0 : Nat, n : Nat, nthreads : Nat \ {0}]

VARIABLES
    sv,          \* the channel
    block,       \* the block that is mixed in chunks
    call,        \* this call: [sample0, n]
    place,       \* "tile" between two tiles, "mix" inside one
    k, k1,       \* the sample and the end of the tile
    p, loc,      \* the running cache: SvPrepared's, and mix_sv_into's locals
    carr_phase,
    mixed        \* the latest sample: where it is and what went into it

vars == <<sv, block, call, place, k, k1, p, loc, carr_phase, mixed>>

Least(a, b) == IF a < b THEN a ELSE b

None == -1

-----------------------------------------------------------------------------
\* mix_block_parallel() (and the engine, likewise): the chunks of a block.
CallsOf(r) ==
    LET parts == IF r.nthreads = 1 \/ r.n < MinParallel THEN 1 ELSE r.nthreads
        chunk == (r.n + parts - 1) \div parts
    IN  {[sample0 |-> r.sample0 + t * chunk, n |-> Least(chunk, r.n - t * chunk)] :
            t \in {u \in 0 .. parts - 1 : u * chunk < r.n}}

\* The trajectory segment a sample belongs to, numbered from 0.
KnotOf(c, s) == IF c.knot_samples = 0 THEN 0
                ELSE Least(s \div c.knot_samples, Len(c.traj) - 1)
KnotAt(s) == KnotOf(sv, s)

use_traj == sv.traj # <<>>
seg == IF use_traj THEN KnotAt(call.sample0) * sv.knot_samples ELSE 0
knot == sv.traj[KnotAt(call.sample0) + 1]

carr_freq == IF use_traj THEN knot.freq ELSE sv.carrier_freq
carr_start == IF use_traj THEN knot.phase ELSE sv.carrier_phase0
chip_rate == IF use_traj THEN knot.rate ELSE sv.code_rate + sv.code_doppler

\* llround of the frequency modulo one cycle, which may be a full cycle.
IncRounded == (2 * (carr_freq % Cycle) * Word + Cycle) \div (2 * Cycle)

\* Nco::set_freq: the frequency modulo one cycle, rounded and masked.
carr_inc == IncRounded % Word

\* The phase at the first sample of the call, cut to the accumulator's width.
PhaseAt(sample0) ==
    (((carr_start + carr_freq * (sample0 - seg)) % Cycle) * Word) \div Cycle

L == sv.code_len

\* The code phase at sample 0 of a channel without a trajectory.
EffOf(c) == (c.code_len * Sub - (c.code_phase0 % (c.code_len * Sub))) % (c.code_len * Sub)
eff == EffOf(sv)

\* The code phase of sample j of the call, and the satellite's, in 1/Sub chip.
Cp(j) == IF use_traj THEN knot.chips + chip_rate * (call.sample0 - seg) + chip_rate * j
         ELSE eff + chip_rate * (call.sample0 + j)
U(j) == Cp(j) + (IF sv.tx_time_valid THEN sv.tx_chips_offset ELSE 0)

has_sec == sv.sec_len > 0
has_nav == sv.nbits > 0

\* gain_knot_j0 and gain_nknots as the engine sets them for the block.
j0 == (block.sample0 * KnotD) \div KnotN

\* Mutant: there is no knot after the last sample.
KnotsWithoutEnd == ((block.sample0 + block.n - 1) * KnotD) \div KnotN - j0 + 1

nknots == ((block.sample0 + block.n - 1) * KnotD) \div KnotN + 1 - j0 + 1

use_gk == sv.fading /\ nknots >= 2

\* chips_per_sym is a positive whole number of chips.
cache_chip == sv.chips_per_sym > 0 /\ sv.chips_per_sym % Sub = 0

Plain == ~sv.boc /\ ~use_gk /\ ~has_sec /\ ~has_nav /\ cache_chip
Modulated == ~Plain /\ ~sv.boc /\ ~use_gk /\ cache_chip /\ (sv.tx_time_valid \/ ~has_nav)

Fresh == [fl |-> Never, ufl |-> Never, ci |-> 0, period |-> Never, si |-> 0,
          sym_idx |-> Never, nav_sym |-> None, cached |-> <<None, None, None>>]

Init ==
    /\ sv \in Channels
    /\ block \in Requests
    /\ call \in CallsOf(block)
    /\ place = "tile"
    /\ k = 0 /\ k1 = 0
    /\ p = Fresh /\ loc = Fresh
    /\ carr_phase = 0
    /\ mixed = [s |-> None]

-----------------------------------------------------------------------------
\* Mutant: every tile starts with the phase of the call.
PhaseOfCall(k0) == PhaseAt(call.sample0)

PhaseOfTile(k0) == (PhaseAt(call.sample0) + k0 * carr_inc) % Word

BeginTile ==
    /\ place = "tile"
    /\ k < call.n
    /\ k1' = Least(k + Tile, call.n)
    /\ loc' = p
    /\ carr_phase' = PhaseOfTile(k)
    /\ place' = "mix"
    /\ UNCHANGED <<sv, block, call, k, p, mixed>>

\* Each path writes back what it keeps running.
Saved ==
    CASE Plain -> [p EXCEPT !.fl = loc.fl, !.ci = loc.ci, !.cached = loc.cached]
      [] Modulated -> loc
      [] OTHER -> [p EXCEPT !.fl = loc.fl, !.ufl = loc.ufl, !.ci = loc.ci, !.cached = loc.cached]

EndTile ==
    /\ place = "mix"
    /\ k = k1
    /\ p' = Saved
    /\ place' = "tile"
    /\ UNCHANGED <<sv, block, call, k, k1, loc, carr_phase, mixed>>

\* lut[(carr_phase + kLutRound) >> 20], in the accumulator's width.
LutIndex(phase) ==
    ((phase + (Step \div 2)) % Word) \div Step

\* The gain knot and the weight of the next one, in 1/KnotN, both clamped.
Gain(s) ==
    LET j == (s * KnotD) \div KnotN - j0
        used == IF j < 0 THEN 0 ELSE Least(j, nknots - 2)
        f == s * KnotD - (j0 + used) * KnotN
    IN  <<used, IF f < 0 THEN 0 ELSE Least(f, KnotN)>>

\* iq[k] gets the chip, the carrier of this sample and the gain.  The sign of a
\* sub-carrier is computed from this sample's phase alone and left out.
Emit(chip, gain) ==
    /\ mixed' = [s |-> call.sample0 + k, chip |-> chip,
                 lut |-> LutIndex(carr_phase), gain |-> gain]
    /\ carr_phase' = (carr_phase + carr_inc) % Word
    /\ k' = k + 1
    /\ UNCHANGED <<sv, block, call, place, k1, p>>

-----------------------------------------------------------------------------
\* The chip after the last one by counting, any other by the remainder.
ChipIndex(fl) == IF fl = loc.fl + 1 THEN (loc.ci + 1) % L ELSE fl % L

NavSymbolAt(idx) == idx % sv.nbits

\* Fast path 1: code only.
MixPlain ==
    LET fl == Cp(k) \div Sub
    IN  /\ place = "mix" /\ k < k1
        /\ Plain
        /\ loc' = IF fl = loc.fl THEN loc
                  ELSE [loc EXCEPT !.fl = fl, !.ci = ChipIndex(fl),
                                   !.cached = <<ChipIndex(fl), None, None>>]
        /\ Emit(loc'.cached, <<>>)

SecIndex(period) ==
    IF ~has_sec THEN None
    ELSE IF period = loc.period THEN loc.si
    ELSE IF period = loc.period + 1 THEN (loc.si + 1) % sv.sec_len
    ELSE period % sv.sec_len

\* Mutant: only the receiver's chip is compared.
SameReceiverChip(fl, ufl) == fl = loc.fl

SameChip(fl, ufl) == fl = loc.fl /\ ufl = loc.ufl

\* Fast path 2: secondary code, and message symbols on the satellite's clock.
MixModulated ==
    LET fl == Cp(k) \div Sub
        ufl == U(k) \div Sub
        ci == IF fl = loc.fl THEN loc.ci ELSE ChipIndex(fl)
        period == U(k) \div (L * Sub)
        sym_idx == U(k) \div sv.chips_per_sym
        nav == sv.tx_time_valid /\ has_nav
        symbol == IF ~nav THEN None
                  ELSE IF sym_idx = loc.sym_idx THEN loc.nav_sym ELSE NavSymbolAt(sym_idx)
    IN  /\ place = "mix" /\ k < k1
        /\ Modulated
        /\ loc' = IF SameChip(fl, ufl) THEN loc
                  ELSE [fl |-> fl, ufl |-> ufl, ci |-> ci,
                        period |-> IF has_sec THEN period ELSE loc.period,
                        si |-> IF has_sec THEN SecIndex(period) ELSE loc.si,
                        sym_idx |-> IF nav THEN sym_idx ELSE loc.sym_idx,
                        nav_sym |-> IF nav THEN symbol ELSE loc.nav_sym,
                        cached |-> <<ci, SecIndex(period), symbol>>]
        /\ Emit(loc'.cached, <<>>)

\* The symbol on the receiver's clock: nav_symbol(t), never cached.
WithLegacySymbol(chip) ==
    IF ~sv.tx_time_valid /\ has_nav
    THEN [chip EXCEPT ![3] = NavSymbolAt(((call.sample0 + k) * sv.code_rate) \div sv.chips_per_sym)]
    ELSE chip

\* Every other channel: with sub-carriers, gain knots, symbols inside a chip.
MixGeneral ==
    LET fl == Cp(k) \div Sub
        ufl == U(k) \div Sub
        chip == IF cache_chip /\ SameChip(fl, ufl) THEN loc.cached
                ELSE <<ChipIndex(fl),
                       IF has_sec THEN (U(k) \div (L * Sub)) % sv.sec_len ELSE None,
                       IF sv.tx_time_valid /\ has_nav
                       THEN NavSymbolAt(U(k) \div sv.chips_per_sym) ELSE None>>
    IN  /\ place = "mix" /\ k < k1
        /\ ~Plain /\ ~Modulated
        /\ loc' = IF cache_chip /\ SameChip(fl, ufl) THEN loc
                  ELSE [loc EXCEPT !.fl = fl, !.ufl = ufl, !.ci = chip[1], !.cached = chip]
        /\ Emit(WithLegacySymbol(chip), IF use_gk THEN Gain(call.sample0 + k) ELSE <<>>)

Next == BeginTile \/ EndTile \/ MixPlain \/ MixModulated \/ MixGeneral

Spec == Init /\ [][Next]_vars

-----------------------------------------------------------------------------
\* The remaining definitions say what a sample ought to be by its number alone.
PhaseOf(c, s) ==
    IF c.traj # <<>> THEN LET t == c.traj[KnotOf(c, s) + 1]
                          IN  t.chips + t.rate * (s - KnotOf(c, s) * c.knot_samples)
    ELSE EffOf(c) + (c.code_rate + c.code_doppler) * s
CodePhase(s) == PhaseOf(sv, s)

SamplesOf(r) == r.sample0 .. r.sample0 + r.n - 1

\* What the caller owes: the samples of a block lie under one knot (abi.h:188)
\* and in the reach of 64-bit chip numbers, so that INT64_MIN is no chip's.
ASSUME CallerAssumption ==
    \A c \in Channels : \A r \in Requests : \A s \in SamplesOf(r) :
        /\ c.traj # <<>> => KnotOf(c, s) = KnotOf(c, r.sample0)
        /\ \A cp \in {PhaseOf(c, s), PhaseOf(c, s) + c.tx_chips_offset} :
            /\ cp \div Sub > Never + 1
            /\ cp \div (c.code_len * Sub) > Never + 1
            /\ c.chips_per_sym > 0 => cp \div c.chips_per_sym > Never + 1

ChipOf(s) ==
    LET cp == CodePhase(s)
        u == cp + (IF sv.tx_time_valid THEN sv.tx_chips_offset ELSE 0)
    IN  <<(cp \div Sub) % L,
          IF has_sec THEN (u \div (L * Sub)) % sv.sec_len ELSE None,
          IF ~has_nav THEN None
          ELSE ((IF sv.tx_time_valid THEN u ELSE s * sv.code_rate) \div sv.chips_per_sym) % sv.nbits>>

\* The exact carrier phase, in 1/Cycle.
CarrierAt(s) ==
    IF use_traj THEN LET t == sv.traj[KnotAt(s) + 1]
                     IN  (t.phase + t.freq * (s - KnotAt(s) * sv.knot_samples)) % Cycle
    ELSE (sv.carrier_phase0 + sv.carrier_freq * s) % Cycle

TypeOK ==
    /\ sv \in Channels /\ block \in Requests /\ call \in CallsOf(block)
    /\ place \in {"tile", "mix"}
    /\ 0 <= k /\ k <= call.n /\ k1 <= call.n
    /\ \A c \in {p, loc} : c.ci \in 0 .. L - 1 /\ c.si >= 0 /\ (has_sec => c.si < sv.sec_len)
    /\ carr_phase \in 0 .. Word - 1

\* The three paths and the cache are only short cuts: each sample is modulated
\* with the chip, the secondary chip and the symbol of its number, whatever
\* the chunk it is in and whatever the tiles and chips before it.
ChipIsOfSample == TypeOK /\ (mixed.s # None => mixed.chip = ChipOf(mixed.s))

\* The carrier is within half a table step of the exact phase, plus what the
\* rounded increment adds over one call.
CarrierTracks ==
    mixed.s # None =>
        LET turn == Cycle * Word
            error == (mixed.lut * Step * Cycle
                        - CarrierAt(mixed.s) * Word) % turn
            bound == Step * Cycle + (call.n + 2) * Cycle
        IN  2 * Least(error, turn - error) <= bound

\* The knots a sample is interpolated between were handed over, and are the
\* two that enclose it.
GainEncloses ==
    mixed.s # None /\ use_gk =>
        /\ mixed.gain[1] + 1 < nknots
        /\ (j0 + mixed.gain[1]) * KnotN + mixed.gain[2] = mixed.s * KnotD
=============================================================================
