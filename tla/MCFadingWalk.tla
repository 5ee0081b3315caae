---------------------------- MODULE MCFadingWalk -----------------------------
(***************************************************************************)
(* FadingWalk with standing, steady and changing receivers: a stop, two    *)
(* points of one time, a fastest stretch in the middle or at the end; and  *)
(* series that go on, skip, stand, start before 0 and go back.             *)
(***************************************************************************)
EXTENDS FadingWalk

Speed(v) == [t |-> <<>>, d |-> <<>>, speed |-> v]
Route(times, metres) == [t |-> times, d |-> metres, speed |-> 0]

MCMotions == {Speed(0), Speed(1), Speed(6),
              Route(<<0, 2, 3, 5>>, <<0, 2, 8, 8>>), Route(<<1, 2, 2, 4>>, <<0, 3, 3, 15>>),
              Route(<<0, 4>>, <<0, 4>>)}

MCScales == [state |-> [d |-> 5, tau |-> 4], shadow |-> [d |-> 2, tau |-> 3],
             diffuse |-> [d |-> 3, tau |-> 6]]

MCKnotMax == [n |-> 1, d |-> 2]

\* Times in quarters of a second.
Every(t0, dt, calls) == [t0 |-> t0, dt |-> dt, per |-> 4, n |-> calls]

MCSeries == {Every(-9, 1, 30), Every(0, 4, 9), Every(30, -1, 40), Every(20, -7, 6),
             Every(-20, 11, 6), Every(5, 0, 3)}

MCCells == -100 .. 200
MCNever == -1000
=============================================================================
