--------------------------- MODULE MCRangingCodes ----------------------------
(***************************************************************************)
(* RangingCodes with the polynomials, resets and lengths of the source and *)
(* some of its satellites.                                                 *)
(***************************************************************************)
EXTENDS RangingCodes, Sequences

All(stages) == 1 .. stages

Code(family, stages, taps1, taps2, first1, first2, len) ==
    [family |-> family, stages |-> stages, taps1 |-> taps1, taps2 |-> taps2,
     first1 |-> first1, first2 |-> first2, out |-> {stages}, len |-> len, reset |-> 0,
     start |-> 0, period |-> 0, sec_len |-> 0, repeats |-> FALSE,
     pilot |-> {}]

Gps == Code("taps", 10, {3, 10}, {2, 3, 6, 8, 9, 10}, All(10), All(10), 1023)

Delayed(delay) == [Gps EXCEPT !.family = "delay", !.start = 1023 - delay, !.period = 1023]

B1I == [Code("b1i", 11, {1, 7, 8, 9, 10, 11}, {1, 2, 3, 4, 5, 8, 9, 11},
             {2, 4, 6, 8, 10}, {2, 4, 6, 8, 10}, 2046) EXCEPT !.out = {1, 3}, !.sec_len = 20]

L5(adv) == [Code("l5", 13, {9, 10, 12, 13}, {1, 3, 4, 6, 7, 8, 12, 13}, All(13), All(13), 10230)
            EXCEPT !.reset = 8190, !.start = adv, !.period = 8191, !.repeats = TRUE]

B2a(taps1, taps2, first2) ==
    [Code("b2a", 13, taps1, taps2, All(13), first2, 10230) EXCEPT !.reset = 8190]

\* Bit b of the octal mask 0445112474 and of the state 0742417664 is stage 27 - b.
L2C == Code("l2c", 27, {1, 4, 7, 9, 12, 15, 17, 19, 22, 23, 24, 25},
            {27}, {1, 2, 3, 4, 8, 10, 15, 16, 17, 18, 19, 20, 22, 23, 25}, {1}, 10230)

\* The long code, 75 times as long: only its length is used, no buffer has room.
L2CWithPilot == [L2C EXCEPT !.repeats = TRUE, !.pilot = {[L2C EXCEPT !.repeats = TRUE, !.len = 767250]}]

Table(len) == Code("memory", 1, {1}, {1}, {1}, {1}, len)

E1C == [Table(4092) EXCEPT !.sec_len = 25]

E5a == [Table(10230) EXCEPT !.repeats = TRUE, !.pilot = {[Table(10230) EXCEPT !.repeats = TRUE]}]

B2aPilot == B2a({3, 6, 7, 13}, {1, 5, 7, 8, 12, 13}, {1, 8, 11, 13})

MCGold == {[Gps EXCEPT !.out = {2, 6}], Delayed(339), Delayed(1021), B1I,
           [Gps EXCEPT !.family = "navic", !.first2 = {1, 2, 3, 6, 8, 9, 10}]}

MCLong == {[L5(266) EXCEPT !.pilot = {L5(1701)}], L2CWithPilot, E1C, E5a,
           [B2a({1, 5, 11, 13}, {3, 5, 9, 11, 12, 13}, {1, 8, 11, 13}) EXCEPT !.pilot = {B2aPilot}]}

MCCodes == MCGold \cup MCLong

RECURSIVE Chips(_, _, _, _)
Chips(r, taps, stages, n) ==
    IF n = 1 THEN <<r>>
    ELSE LET before == Chips(r, taps, stages, n \div 2)
         IN  before \o Chips(Shift(before[Len(before)], taps, stages), taps, stages, n - n \div 2)

FreeRun(first, taps, stages, turn) ==
    LET chips == Chips(first, taps, stages, turn + 1) IN [i \in 0 .. turn |-> chips[i + 1]]

MCGenerators == MCCodes \cup UNION {c.pilot : c \in MCCodes}
MCRun1 == [c \in MCGenerators |-> FreeRun(c.first1, c.taps1, c.stages, Turn1(c))]
MCRun2 == [c \in MCGenerators |-> FreeRun(c.first2, c.taps2, c.stages, Turn2(c))]

Buffer(size, sec_size, known) == [size |-> size, sec_size |-> sec_size, known |-> known]

MCBuffers == {Buffer(1022, 0, TRUE), Buffer(1023, 20, TRUE), Buffer(2046, 19, TRUE),
              Buffer(2047, 20, TRUE), Buffer(4092, 25, TRUE), Buffer(10240, 10229, TRUE),
              Buffer(10230, 10240, TRUE),
              Buffer(10240, 0, FALSE)}
=============================================================================
