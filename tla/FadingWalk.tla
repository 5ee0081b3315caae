----------------------------- MODULE FadingWalk ------------------------------
(***************************************************************************)
(* A fading channel over a run: the constructor of gs::ChannelProcess sizes*)
(* the spacing of the gain knots from the receiver's motion, the engine    *)
(* asks for the gain at the knots of each block, and a grid process of the *)
(* channel walks along (backend/synth/native/fading.cpp, engine.cpp). Or   *)
(* fading_gain_series() asks for gains at evenly spaced times, which may   *)
(* lie before 0, far apart, and run backwards.                             *)
(*                                                                         *)
(* One of the channel's two grid processes is watched. Speeds, distances   *)
(* and times are fractions [n, d]; the gain itself is left out.            *)
(***************************************************************************)
EXTENDS GridProcess

CONSTANTS
    Motions,      \* FadingCfg: a profile [t, d, speed], t = <<>> for a speed
    Scales,       \* per process: correlation distance and longest time
    KnotMax,      \* kKnotMax, a fraction of a second
    PerTau,       \* kPerTau
    Fs, Total,    \* samples per second, and of the run
    BlockSizes,
    Series        \* calls of fading_gain_series: [t0, dt, per, n]

ASSUME WalkAssumption ==
    /\ {"state", "shadow", "diffuse"} \subseteq DOMAIN Scales
    /\ \A s \in {"state", "shadow", "diffuse"} : Scales[s] \in [d : Nat \ {0}, tau : Nat \ {0}]
    /\ KnotMax \in [n : Nat \ {0}, d : Nat \ {0}]
    /\ {PerTau, Fs, Total} \cup BlockSizes \subseteq Nat \ {0}

\* route_distance_profile() of scenario.py sums the lengths of the legs of a route:
\* it is walked forwards, and no distance is covered in no time.
ASSUME MotionAssumption ==
    \A c \in Motions :
        /\ c.t \in Seq(Nat) /\ c.d \in Seq(Nat) /\ Len(c.d) = Len(c.t) /\ c.speed \in Nat
        /\ \A r, s \in 1 .. Len(c.t) :
             r <= s => /\ c.t[r] <= c.t[s] /\ c.d[r] <= c.d[s]
                       /\ c.t[r] = c.t[s] => c.d[r] = c.d[s]

\* After the oldest blocks are dropped a whole sum still lies in the window. A run
\* asks for points from 0 on, which the mark of "no interval yet" is far from.
ASSUME WindowAssumption == (Keep - Drop) * PerBlock > Taps /\ Never + 1 < 0

VARIABLES
    motion, process,  \* the receiver's motion, and the process that is watched
    series,           \* the call of fading_gain_series, or Run
    blk, done,        \* block length, and samples of the blocks done
    place,            \* "block" between blocks, "knots" inside one, "returned"
    j, j1,            \* the next knot, or call, and the last one
    drawn, again      \* blocks of the stream drawn, and drawn more than once

run == <<motion, process, series, blk, done, place, j, j1>>
walkVars == <<vars, run, drawn, again>>

Above(a, b) == a.n * b.d > b.n * a.d

-----------------------------------------------------------------------------
profile == Len(motion.t) >= 2

Stretch(s) == [n |-> motion.d[s + 1] - motion.d[s], d |-> motion.t[s + 1] - motion.t[s]]

\* Stretches of no duration have no speed.
Speeds ==
    IF ~profile THEN {[n |-> motion.speed, d |-> 1]}
    ELSE {[n |-> 0, d |-> 1]} \cup
         {Stretch(s) : s \in {r \in 1 .. Len(motion.t) - 1 : motion.t[r + 1] > motion.t[r]}}

vmax == CHOOSE v \in Speeds : \A w \in Speeds : ~Above(w, v)

\* 1 / (kPerTau * (vmax / distance + 1 / time)): one grid step at top speed.
Spacing(scale) ==
    [n |-> vmax.d * scale.d * scale.tau,
     d |-> PerTau * (vmax.n * scale.tau + vmax.d * scale.d)]

Spacings == {Spacing(Scales[s]) : s \in {"state", "shadow", "diffuse"}} \cup {KnotMax}

\* Mutant: the shadowing is not considered.
WithoutShadow == LET s == {Spacing(Scales["state"]), KnotMax}
                 IN  CHOOSE f \in s : \A g \in s : ~Above(f, g)

dt_knot == CHOOSE f \in Spacings : \A g \in Spacings : ~Above(f, g)

\* ChannelProcess::distance: interpolated, and held beyond the ends.
Distance(t) ==
    LET last_ == Len(motion.t)
        AtOrBefore(s) == motion.t[s] * t.d <= t.n
        s1 == CHOOSE s \in 1 .. last_ : AtOrBefore(s) /\ \A r \in s + 1 .. last_ : ~AtOrBefore(r)
        dt == motion.t[s1 + 1] - motion.t[s1]
    IN  IF ~profile THEN [n |-> motion.speed * t.n, d |-> t.d]
        ELSE IF t.n <= motion.t[1] * t.d THEN [n |-> motion.d[1], d |-> 1]
        ELSE IF AtOrBefore(last_) THEN [n |-> motion.d[last_], d |-> 1]
        ELSE [n |-> motion.d[s1] * t.d * dt
                      + (t.n - motion.t[s1] * t.d) * (motion.d[s1 + 1] - motion.d[s1]),
              d |-> t.d * dt]

\* The grid point of u = distance / d_c + t / tau_max at time t.
Point(t) ==
    LET dist == Distance(t)
        scale == Scales[process]
    IN  (PerTau * (dist.n * t.d * scale.tau + t.n * dist.d * scale.d))
            \div (dist.d * t.d * scale.d * scale.tau)

\* A run of the engine, no series.
Run == [t0 |-> 0, dt |-> 0, per |-> 1, n |-> 0]

\* j * dt_knot, or t0 + i * dt.
TimeOf(k) == IF series = Run THEN [n |-> k * dt_knot.n, d |-> dt_knot.d]
             ELSE [n |-> series.t0 + k * series.dt, d |-> series.per]

\* floor(sample / fs / dt_knot).
KnotOf(s) == (s * dt_knot.d) \div (Fs * dt_knot.n)

WalkInit ==
    /\ Init
    /\ motion \in Motions
    /\ process \in {"state", "shadow"}
    /\ \/ blk \in BlockSizes /\ series = Run
       \/ blk = 0 /\ series \in Series \ {Run}
    /\ done = 0
    /\ place = "block"
    /\ j = 0 /\ j1 = 0
    /\ drawn = {} /\ again = {}

-----------------------------------------------------------------------------
n == IF blk < Total - done THEN blk ELSE Total - done

StartBlock ==
    /\ place = "block"
    /\ series = Run
    /\ done < Total
    /\ j' = KnotOf(done)
    /\ j1' = KnotOf(done + n - 1) + 1
    /\ place' = "knots"
    /\ UNCHANGED <<vars, motion, process, series, blk, done, drawn, again>>

StartSeries ==
    /\ place = "block"
    /\ series # Run
    /\ j' = 0
    /\ j1' = series.n - 1
    /\ place' = "knots"
    /\ UNCHANGED <<vars, motion, process, series, blk, done, drawn, again>>

\* gain(j * dt): at() of the process, nothing to do in the same interval.
AskKnot ==
    /\ place = "knots"
    /\ at = "idle"
    /\ j <= j1
    /\ \/ Ask(Point(TimeOf(j)))
       \/ Point(TimeOf(j)) = last_m_ /\ UNCHANGED vars
    /\ j' = j + 1
    /\ UNCHANGED <<motion, process, series, blk, done, place, j1, drawn, again>>

\* The blocks a step of normal() has drawn: those behind what it kept.
JustDrawn == {buf_'[b] : b \in Len(Kept(BlockOf(i))) + 1 .. Len(buf_')}

WalkNormal ==
    /\ Normal0 \/ Normal1
    /\ drawn' = drawn \cup JustDrawn
    /\ again' = again \cup (drawn \cap JustDrawn)
    /\ UNCHANGED run

WalkEnd ==
    /\ LeftEnd \/ RightEnd
    /\ UNCHANGED <<run, drawn, again>>

EndBlock ==
    /\ place = "knots"
    /\ series = Run
    /\ at = "idle"
    /\ j > j1
    /\ done' = done + n
    /\ place' = "block"
    /\ UNCHANGED <<vars, motion, process, series, blk, j, j1, drawn, again>>

EndSeries ==
    /\ place = "knots"
    /\ series # Run
    /\ at = "idle"
    /\ j > j1
    /\ place' = "returned"
    /\ UNCHANGED <<vars, motion, process, series, blk, done, j, j1, drawn, again>>

WalkNext ==
    StartBlock \/ StartSeries \/ AskKnot \/ WalkNormal \/ WalkEnd \/ EndBlock \/ EndSeries

WalkSpec == WalkInit /\ [][WalkNext]_walkVars

-----------------------------------------------------------------------------
\* The knots resolve both processes at the receiver's top speed: from one knot
\* to the next, a process moves by one grid point at most, on every profile.
KnotsResolve ==
    place = "knots" /\ series = Run /\ j <= j1 => Point(TimeOf(j + 1)) - Point(TimeOf(j)) \in {0, 1}

\* fading.hpp: "the forward walk of a synthesis run draws every block once",
\* although each block of samples asks for the last knots again.
DrawnOnce == series = Run => again = {}
=============================================================================
