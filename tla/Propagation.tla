----------------------------- MODULE Propagation -----------------------------
(***************************************************************************)
(* Where a satellite is at an instant: the Keplerian records, propagated   *)
(* from their reference time within the week, and the state vectors of     *)
(* GLONASS and SBAS, integrated in steps of a minute                       *)
(* (backend/synth/native/ephem.cpp, glonass.cpp).                          *)
(*                                                                         *)
(* The orbit formulas are left out: a position is the time it is computed  *)
(* for. Time is counted in half seconds, the distance of the points the    *)
(* velocity is differenced from.                                           *)
(***************************************************************************)
EXTENDS Integers, Sequences

CONSTANTS
    Kepler,       \* records of synth_sat_state_sys: [sys, toe, toc]
    Vectors,      \* records of synth_glonass_state: [toe_ref, tau, gamma]
    Times,        \* the instants t_gps
    Week,         \* 604800 s
    StepLength,   \* STEP_S
    Iterations    \* of Newton's method at most (30)

ASSUME PropagationAssumption ==
    /\ Week \in Nat \ {0} /\ Week % 2 = 0
    /\ StepLength \in Nat \ {0} /\ Iterations \in Nat \ {0}
    /\ Times \subseteq Int
    /\ Kepler \subseteq [sys : Int, toe : Int, toc : Int]
    /\ Vectors \subseteq [toe_ref : Int, tau : Int, gamma : Int]

VARIABLES
    record, t_gps, \* the call
    at,            \* "call", "newton" or "integrate" inside it, "done"
    iteration,     \* of keplerE
    points,        \* the times relative to toe the orbit was computed for
    y, remaining,  \* the instant of the integrated state, and the time left
    clock          \* tsv, or the correction of a state vector

vars == <<record, t_gps, at, iteration, points, y, remaining, clock>>

Size(x) == IF x < 0 THEN -x ELSE x

Init ==
    /\ record \in Kepler \cup Vectors
    /\ t_gps \in Times
    /\ at = "call"
    /\ iteration = 0
    /\ points = <<>>
    /\ y = 0 /\ remaining = 0 /\ clock = 0

-----------------------------------------------------------------------------
\* Mutant: only the end of the week is looked at.
WrapEnd(dt) == IF 2 * dt > Week THEN dt - Week ELSE dt

wrap_week(dt) == IF 2 * dt > Week THEN dt - Week ELSE IF 2 * dt < -Week THEN dt + Week ELSE dt

tk == wrap_week(t_gps - record.toe)

\* A system outside the table is propagated as GPS.
Row == IF record.sys < 0 \/ record.sys > 3 THEN 0 ELSE record.sys

KeplerCall ==
    /\ at = "call"
    /\ record \in Kepler
    /\ at' = "newton"
    /\ UNCHANGED <<record, t_gps, iteration, points, y, remaining, clock>>

NextIteration == iteration < Iterations /\ iteration' = iteration + 1

Iterate ==
    /\ at = "newton"
    /\ Len(points) < 3
    /\ NextIteration
    /\ UNCHANGED <<record, t_gps, at, points, y, remaining, clock>>

Point(i) == tk + <<0, -1, 1>>[i]

\* propagate(): converged, or after the last iteration.
OrbitPoint ==
    /\ at = "newton"
    /\ Len(points) < 3
    /\ iteration > 0
    /\ points' = Append(points, [tk |-> Point(Len(points) + 1), row |-> Row])
    /\ iteration' = 0
    /\ UNCHANGED <<record, t_gps, at, y, remaining, clock>>

KeplerReturns ==
    /\ at = "newton"
    /\ Len(points) = 3
    /\ clock' = wrap_week(t_gps - record.toc)
    /\ at' = "done"
    /\ UNCHANGED <<record, t_gps, iteration, points, y, remaining>>

-----------------------------------------------------------------------------
dt_total == t_gps - record.toe_ref

VectorCall ==
    /\ at = "call"
    /\ record \in Vectors
    /\ y' = record.toe_ref
    /\ remaining' = dt_total
    /\ at' = "integrate"
    /\ UNCHANGED <<record, t_gps, iteration, points, clock>>

\* Mutant: the integration only goes forward.
Forward == StepLength

step == IF dt_total >= 0 THEN StepLength ELSE -StepLength

h == IF Size(remaining) > Size(step) THEN step ELSE remaining

Integrate ==
    /\ at = "integrate"
    /\ remaining # 0
    /\ y' = y + h
    /\ remaining' = remaining - h
    /\ UNCHANGED <<record, t_gps, at, iteration, points, clock>>

VectorReturns ==
    /\ at = "integrate"
    /\ remaining = 0
    /\ clock' = record.tau + record.gamma * dt_total
    /\ at' = "done"
    /\ UNCHANGED <<record, t_gps, iteration, points, y, remaining>>

Returned == at = "done" /\ UNCHANGED vars

Next ==
    \/ KeplerCall \/ Iterate \/ OrbitPoint \/ KeplerReturns
    \/ VectorCall \/ Integrate \/ VectorReturns \/ Returned

Spec == Init /\ [][Next]_vars

-----------------------------------------------------------------------------
TypeOK ==
    /\ record \in Kepler \cup Vectors /\ t_gps \in Times
    /\ at \in {"call", "newton", "integrate", "done"}
    /\ iteration \in 0 .. Iterations
    /\ Len(points) <= 3 /\ \A i \in DOMAIN points : points[i].row \in 0 .. 3
    /\ {y, remaining, clock} \subseteq Int

\* The position is that of the instant asked for: a Keplerian record is taken at
\* the nearest of its weekly repetitions, for the orbit and for the clock, as
\* long as the instant is within a week and a half of it; a vector is
\* integrated to the instant itself, before and after its epoch.
PositionOfInstant ==
    at = "done" =>
        IF record \in Vectors THEN y = t_gps
        ELSE \A e \in {<<points[1].tk, record.toe>>, <<clock, record.toc>>} :
                /\ (t_gps - e[2] - e[1]) % Week = 0
                /\ 2 * Size(t_gps - e[2]) <= 3 * Week => 2 * Size(e[1]) <= Week

\* The velocity is the difference over the second around that same instant,
\* also where the week rolls over between its two points.
SpeedIsCentred ==
    at = "done" /\ record \in Kepler =>
        /\ points[3].tk - points[2].tk = 2
        /\ points[2].tk + points[3].tk = 2 * points[1].tk

\* What is returned belongs to the instant asked for, position, clock and velocity.
StateOfInstant == TypeOK /\ PositionOfInstant /\ SpeedIsCentred

\* The integration never runs away from the instant, nor past it.
StepsTowards ==
    [][remaining # 0 => /\ Size(remaining') < Size(remaining)
                        /\ remaining' * remaining >= 0]_remaining
=============================================================================
