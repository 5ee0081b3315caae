---------------------------- MODULE RangingCodes -----------------------------
(***************************************************************************)
(* The generators of the ranging codes: two shift registers whose outputs  *)
(* are added, one of them reset early (short cycle), delayed or advanced   *)
(* per satellite; one modular register for L2C; and tables in memory       *)
(* (backend/synth/native/ca_code.cpp, l5_codes.cpp, beidou_b2a_codes.cpp,  *)
(* l2c_codes.cpp, galileo_e5a.cpp, codes_mem.cpp).                         *)
(*                                                                         *)
(* A register is the set of its stages that hold a 1; stage 1 is the       *)
(* newest, the last one is read out. Of a sequence that the code first     *)
(* stores and then reads at a shifted index, the register that produced    *)
(* the current entry is kept.                                              *)
(***************************************************************************)
EXTENDS Integers, FiniteSets

CONSTANTS
    Codes,      \* the generators, with the constants of the source
    Run1, Run2, \* per generator, its registers from chip to chip when nothing interferes
    Requests    \* buffers a caller may pass: [size, sec_size, known]

\* stages, the taps and first states of both registers, the stages of the
\* second one that are added, the length, and the chip of the short cycle.
\* `start` and `period` are the first index into the stored sequence of the
\* second register and the number of entries it is read modulo. `pilot` holds
\* the code of the second component that the same call writes, if any.
Families == {"taps", "delay", "navic", "b1i", "b2a", "l5", "l2c", "memory"}

\* The codes that begin again when their registers do.
Gold == {"taps", "delay", "navic", "b1i"}

Generators == Codes \cup UNION {c.pilot : c \in Codes}

Stages(c) == 1 .. c.stages

ASSUME CodesAssumption ==
    \A c \in Generators :
        /\ c.family \in Families
        /\ c.stages \in Nat \ {0}
        /\ {c.len, c.reset, c.start, c.period, c.sec_len} \subseteq Nat
        /\ {c.taps1, c.taps2, c.first1, c.first2, c.out} \subseteq SUBSET Stages(c)
        /\ (IF c.family = "l2c" THEN 1 ELSE c.stages) \in c.taps1 /\ c.stages \in c.taps2
        /\ c.first1 # {} /\ c.first2 # {}
        /\ IF c.period = 0 THEN c.start = 0 ELSE c.start < c.period
        /\ c.reset > 0 => c.family \in {"l5", "b2a"}
        /\ c.family \in Gold =>
            c.reset = 0 /\ ~c.repeats /\ c.period = IF c.family = "delay" THEN c.len ELSE 0

ASSUME RequestsAssumption == Requests \subseteq [size : Nat, sec_size : Nat, known : BOOLEAN]

-----------------------------------------------------------------------------
Odd(s) == Cardinality(s) % 2 = 1

\* A Fibonacci register: shifted by one, the parity of its taps enters.
Shift(r, taps, stages) == {i + 1 : i \in r \ {stages}} \cup (IF Odd(r \cap taps) THEN {1} ELSE {})

\* The chips after which a register is at its first state again: what the
\* source calls its period, or the length of the code. 0: it is not relied on.
Turn(c) == CASE c.family = "b1i" -> c.len + 1 [] c.family \in Gold \ {"b1i"} -> c.len [] OTHER -> 0
Turn1(c) == IF c.reset > 0 THEN c.reset + 1 ELSE Turn(c)
Turn2(c) == IF c.period > 0 THEN c.period ELSE Turn(c)

ComesBack(run, first, taps, stages, turn) ==
    /\ run[0] = first /\ run[turn] = first
    /\ \A i \in 0 .. turn - 1 : run[i + 1] = Shift(run[i], taps, stages)

\* The polynomials have the periods that resets, lengths and stored sequences
\* of the source take for granted.
ASSUME PeriodAssumption ==
    \A c \in Generators :
        /\ ComesBack(Run1[c], c.first1, c.taps1, c.stages, Turn1(c))
        /\ ComesBack(Run2[c], c.first2, c.taps2, c.stages, Turn2(c))

VARIABLES
    code, request,
    part,           \* the component it writes: 1 the data, 2 the pilot
    phase,          \* "call", "seek", "run", "done", or "refused"
    k,              \* chips written
    r1, r2, pos,    \* the registers, and the index of the second
    n1, n2, start2, \* the same registers run freely, and r2 at chip 0
    sec             \* chips of the secondary code written

registers == <<r1, r2, pos>>
history == <<n1, n2, start2>>
vars == <<code, request, part, phase, k, registers, history, sec>>

-----------------------------------------------------------------------------
Step(r, taps) == Shift(r, taps, code.stages)

\* The modular register of L2C: stage `stages` is bit 0, its output; a 1 that
\* leaves adds the mask.
Galois(r) ==
    LET shifted == {i + 1 : i \in r \ {code.stages}}
    IN  IF code.stages \in r THEN (shifted \ code.taps1) \cup (code.taps1 \ shifted)
        ELSE shifted

Init ==
    /\ code \in Codes /\ request \in Requests
    /\ part = 1 /\ phase = "call"
    /\ k = 0
    /\ r1 = code.first1 /\ r2 = code.first2 /\ pos = 0
    /\ n1 = code.first1 /\ n2 = code.first2 /\ start2 = code.first2
    /\ sec = 0

\* Mutant: only the check all systems share is made.
SharedCheck == request.known /\ request.size >= 1023

\* The satellite is in the table and the buffer holds the code.
Accepts == request.known /\ request.size >= 1023 /\ request.size >= code.len

\* Neumann-Hoffman or CS25, when the caller's buffer has room.
Secondary == IF code.sec_len > 0 /\ request.sec_size >= code.sec_len THEN code.sec_len ELSE 0

Refuse ==
    /\ phase = "call"
    /\ ~Accepts
    /\ phase' = "refused"
    /\ UNCHANGED <<code, request, part, k, registers, history, sec>>

Begin ==
    /\ phase = "call"
    /\ Accepts
    /\ phase' = "seek"
    /\ sec' = Secondary
    /\ UNCHANGED <<code, request, part, k, registers, history>>

\* (k + 1023 - delay) % 1023, or (i + adv) % 8191, at chip 0.
FirstIndex == code.start

\* The stored sequence, from its beginning to the first entry that is read.
Seek ==
    /\ phase = "seek"
    /\ pos < FirstIndex
    /\ r2' = Step(r2, code.taps2)
    /\ n2' = r2' /\ start2' = r2'
    /\ pos' = pos + 1
    /\ UNCHANGED <<code, request, part, phase, k, r1, n1, sec>>

Found ==
    /\ phase = "seek"
    /\ pos = FirstIndex
    /\ phase' = "run"
    /\ UNCHANGED <<code, request, part, k, registers, history, sec>>

-----------------------------------------------------------------------------
\* Mutant: the short cycle comes one chip late.
ResetLate == code.reset + 1

ResetChip == code.reset

Modulo == code.period

\* One chip of two registers.
Chip ==
    /\ phase = "run"
    /\ code.family \notin {"l2c", "memory"}
    /\ k < code.len
    /\ r1' = IF code.reset > 0 /\ k + 1 = ResetChip THEN code.first1 ELSE Step(r1, code.taps1)
    /\ r2' = IF code.period > 0 /\ pos + 1 = Modulo THEN code.first2 ELSE Step(r2, code.taps2)
    /\ pos' = IF code.period > 0 /\ pos + 1 = Modulo THEN 0 ELSE pos + 1
    /\ n1' = Step(n1, code.taps1) /\ n2' = Step(n2, code.taps2)
    /\ k' = k + 1
    /\ UNCHANGED <<code, request, part, phase, start2, sec>>

ChipL2C ==
    /\ phase = "run"
    /\ code.family = "l2c"
    /\ k < code.len
    /\ r1' = Galois(r1)
    /\ k' = k + 1
    /\ UNCHANGED <<code, request, part, phase, r2, pos, history, sec>>

\* A table is copied at once.
Copy ==
    /\ phase = "run"
    /\ code.family = "memory"
    /\ k < code.len
    /\ k' = code.len
    /\ UNCHANGED <<code, request, part, phase, registers, history, sec>>

\* The caller's buffer of the component.
Room == IF part = 1 THEN request.size ELSE request.sec_size

\* What is written: l2c, l5 and e5a repeat the code to the buffer's end.
Finish ==
    /\ phase = "run"
    /\ k = code.len
    /\ k' = IF code.repeats THEN Room ELSE k
    /\ phase' = "done"
    /\ UNCHANGED <<code, request, part, registers, history, sec>>

\* l5_q, e5a_q, b2a_p or l2c_cl after the data component, with registers of its
\* own; the call succeeds without it when the second buffer is absent or short.
Pilot ==
    /\ phase = "done" /\ part = 1
    /\ \E c \in code.pilot :
        /\ request.sec_size >= c.len
        /\ code' = c
        /\ r1' = c.first1 /\ r2' = c.first2 /\ pos' = 0
        /\ n1' = c.first1 /\ n2' = c.first2 /\ start2' = c.first2
    /\ k' = 0
    /\ part' = 2 /\ phase' = "seek"
    /\ UNCHANGED <<request, sec>>

Next == Refuse \/ Begin \/ Seek \/ Found \/ Chip \/ ChipL2C \/ Copy \/ Finish \/ Pilot

Spec == Init /\ [][Next]_vars

\* The chip that is written: 1 stands for -1.
ChipValue == Odd({code.stages} \cap r1) # Odd(code.out \cap r2)

-----------------------------------------------------------------------------
TypeOK ==
    /\ code \in Generators
    /\ request \in Requests /\ part \in 1 .. 2
    /\ phase \in {"call", "seek", "run", "done", "refused"}
    /\ k \in Nat /\ pos \in Nat /\ sec \in Nat
    /\ {r1, r2, n1, n2, start2} \subseteq SUBSET Stages(code)

\* No register runs into the state it cannot leave, where the code is silent.
NeverStuck == r1 # {} /\ r2 # {}

\* No chip is written behind the end of the caller's buffers.
NoOverrun == k <= Room /\ sec <= request.sec_size

\* Until the short cycle the register runs freely, from then on it is one chip
\* ahead: its free period is one chip longer than the chip of the reset.
ShortCycled ==
    code.reset > 0 /\ phase = "run" =>
        r1 = IF k < code.reset THEN n1 ELSE Step(n1, code.taps1)

\* The second register never jumps: reading the stored sequence modulo its
\* number of entries goes on as the register would.
RunsFreely == phase \in {"run", "done"} => r2 = n2

\* A delayed register reaches its first state that many chips late.
StartsLate ==
    code.family = "delay" /\ phase = "run" /\ k = code.period - code.start => r2 = code.first2

\* A Gold code closes up: the mixer reads it modulo its length without a seam.
\* That of B1I is cut one chip before its registers would begin again.
ClosesUp ==
    phase = "done" /\ code.family \in Gold =>
        IF code.family = "b1i" THEN Step(r1, code.taps1) = code.first1 /\ Step(r2, code.taps2) = start2
        ELSE r1 = code.first1 /\ r2 = start2

\* The chips are those of the code asked for: every way to shorten, delay, reset
\* or wrap a register keeps it in the sequence of its polynomial, at the chip
\* the signal's definition names.
ChipsOfCode == TypeOK /\ NeverStuck /\ ShortCycled /\ RunsFreely /\ StartsLate /\ ClosesUp
=============================================================================
