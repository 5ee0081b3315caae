------------------------------- MODULE MCMixer -------------------------------
(***************************************************************************)
(* Instances of Mixer for TLC: codes of three chips of four parts, symbols *)
(* of two and of one and a half chips, rates below, at and above one chip  *)
(* a sample, and carriers that round to a full cycle.                      *)
(***************************************************************************)
EXTENDS Mixer

Base == [code_len |-> 3, code_rate |-> 3, code_doppler |-> 0, code_phase0 |-> 5,
         carrier_freq |-> 7, carrier_phase0 |-> 0, sec_len |-> 0, nbits |-> 0,
         chips_per_sym |-> 8, tx_time_valid |-> FALSE, tx_chips_offset |-> 0,
         boc |-> FALSE, fading |-> FALSE, traj |-> <<>>, knot_samples |-> 0]

Modulations ==
    {[Base EXCEPT !.code_rate = r, !.sec_len = s, !.nbits = b, !.chips_per_sym = c,
                  !.tx_time_valid = x # 0, !.tx_chips_offset = x, !.boc = o, !.fading = g] :
        r \in {1, 3, 9}, s \in {0, 2}, b \in {0, 3}, c \in {6, 8}, x \in {-7, 0, 3, 4},
        o \in BOOLEAN, g \in BOOLEAN}

Carriers ==
    {[Base EXCEPT !.carrier_freq = f, !.carrier_phase0 = c, !.code_doppler = 1, !.boc = TRUE] :
        f \in {0, 1, -1, 123, 333, 999}, c \in {-1, 0, 500}}

Knot(f, c, r, h) == [freq |-> f, phase |-> c, rate |-> r, chips |-> h]

Trajectories ==
    {[Base EXCEPT !.traj = t, !.knot_samples = 8, !.nbits = 2, !.tx_time_valid = x, !.sec_len = 2] :
        t \in {<<Knot(5, 17, 3, 1), Knot(-9, 400, 4, 26)>>, <<Knot(333, 0, 9, -5)>>}, x \in BOOLEAN}

MCChannels == Modulations \cup Carriers \cup Trajectories

MCRequests == {[sample0 |-> 0, n |-> 8, nthreads |-> 1], [sample0 |-> 8, n |-> 8, nthreads |-> 3],
               [sample0 |-> 8, n |-> 7, nthreads |-> 2], [sample0 |-> 16, n |-> 3, nthreads |-> 4]}

MCNever == -1000000
=============================================================================
