------------------------- MODULE RangingCodesProofs --------------------------
(***************************************************************************)
(* Theorems about RangingCodes: whatever the registers, taps, resets and   *)
(* delays, as long as the polynomials have the periods that the source     *)
(* takes for granted, a generator writes the chips of its code and writes  *)
(* them into the caller's buffer.                                          *)
(***************************************************************************)
EXTENDS RangingCodes, FiniteSetTheorems, TLAPS

\* How much is written, and that a pilot belongs to the code it was asked with.
LengthInv ==
    /\ sec <= request.sec_size
    /\ part = 1 => code \in Codes
    /\ phase \in {"call", "refused"} => part = 1
    /\ phase \in {"call", "seek", "refused"} => k = 0
    /\ phase \in {"seek", "run", "done"} => code.len <= Room
    /\ phase = "run" => k <= code.len
    /\ phase = "done" => k <= Room /\ (~code.repeats => k = code.len)

\* The index k is that of a chip, and chips come from two registers.
Chipping == code.family \notin {"l2c", "memory"} /\ (phase = "done" => ~code.repeats)

FirstInv ==
    Chipping =>
        /\ k <= Turn1(code) => n1 = Run1[code][k]
        /\ r1 = IF code.reset = 0 \/ k < code.reset THEN n1 ELSE Step(n1, code.taps1)

\* Where the second register is in its free run.
SecondInv ==
    /\ r2 = n2
    /\ pos <= Turn2(code) => r2 = Run2[code][pos]
    /\ code.period > 0 => pos < code.period
    /\ phase \in {"call", "refused"} => pos = 0
    /\ phase \in {"call", "refused", "seek"} => pos <= code.start /\ start2 = r2
    /\ phase \in {"run", "done"} => start2 = Run2[code][code.start]

GoldInv ==
    code.family \in Gold /\ phase \in {"run", "done"} =>
        pos = IF code.period = 0 \/ code.start + k < code.period THEN code.start + k
              ELSE code.start + k - code.period

CodeInv == TypeOK /\ NeverStuck /\ LengthInv /\ FirstInv /\ SecondInv /\ GoldInv

-----------------------------------------------------------------------------
\* What CodesAssumption and PeriodAssumption say of the code in hand.
CodeFacts ==
    /\ code.family \in Families
    /\ code.stages \in Nat \ {0}
    /\ code.len \in Nat /\ code.reset \in Nat /\ code.start \in Nat
    /\ code.period \in Nat /\ code.sec_len \in Nat
    /\ code.taps1 \subseteq Stages(code) /\ code.taps2 \subseteq Stages(code)
    /\ code.first1 \subseteq Stages(code) /\ code.first2 \subseteq Stages(code)
    /\ code.first1 # {} /\ code.first2 # {}
    /\ (IF code.family = "l2c" THEN 1 ELSE code.stages) \in code.taps1
    /\ code.stages \in code.taps2
    /\ code.period = 0 => code.start = 0
    /\ code.period # 0 => code.start < code.period
    /\ code.reset > 0 => code.family \in {"l5", "b2a"}
    /\ code.family \in Gold =>
         code.reset = 0 /\ ~code.repeats /\ code.period = IF code.family = "delay" THEN code.len ELSE 0

PeriodFacts ==
    /\ ComesBack(Run1[code], code.first1, code.taps1, code.stages, Turn1(code))
    /\ ComesBack(Run2[code], code.first2, code.taps2, code.stages, Turn2(code))

LEMMA Facts == code \in Generators => CodeFacts /\ PeriodFacts
<1> SUFFICES ASSUME code \in Generators PROVE CodeFacts /\ PeriodFacts
  OBVIOUS
<1>1. CodeFacts
  BY CodesAssumption DEF CodeFacts
<1>2. PeriodFacts
  BY PeriodAssumption DEF PeriodFacts
<1> QED
  BY <1>1, <1>2

LEMMA TurnsTyped ==
    ASSUME CodeFacts
    PROVE  /\ Turn1(code) \in Nat /\ Turn2(code) \in Nat
           /\ code.reset > 0 => Turn1(code) = code.reset + 1
           /\ code.period > 0 => Turn2(code) = code.period
           /\ code.family \in Gold \ {"delay", "b1i"} => Turn1(code) = code.len /\ Turn2(code) = code.len
           /\ code.family = "delay" => Turn1(code) = code.len
           /\ code.family = "b1i" => Turn1(code) = code.len + 1 /\ Turn2(code) = code.len + 1
<1>1. Turn(code) = IF code.family = "b1i" THEN code.len + 1
                   ELSE IF code.family \in Gold THEN code.len ELSE 0
  BY DEF Turn, Gold
<1> QED
  BY <1>1 DEF CodeFacts, Turn1, Turn2, Gold

-----------------------------------------------------------------------------
\* A register keeps to its stages, and one that is read at its last stage and
\* fed back from it never becomes empty.
LEMMA ShiftTyped ==
    ASSUME NEW n \in Nat \ {0}, NEW r \in SUBSET (1 .. n), NEW taps
    PROVE  Shift(r, taps, n) \in SUBSET (1 .. n)
  BY DEF Shift

LEMMA ShiftNotEmpty ==
    ASSUME NEW n \in Nat \ {0}, NEW r \in SUBSET (1 .. n), NEW taps, r # {}, n \in taps
    PROVE  Shift(r, taps, n) # {}
<1>1. CASE \E i \in r : i # n
  BY <1>1 DEF Shift
<1>2. CASE r = {n}
  <2>1. r \cap taps = {n}
    BY <1>2
  <2>2. Odd(r \cap taps)
    <3>1. Cardinality({n}) = 1
      BY FS_Singleton
    <3>2. 1 % 2 = 1
      OBVIOUS
    <3> QED
      BY <2>1, <3>1, <3>2 DEF Odd
  <2> QED
    BY <2>2 DEF Shift
<1> QED
  BY <1>1, <1>2

LEMMA GaloisTyped ==
    ASSUME CodeFacts, NEW r \in SUBSET Stages(code)
    PROVE  Galois(r) \in SUBSET Stages(code)
  BY DEF Galois, CodeFacts, Stages

LEMMA GaloisNotEmpty ==
    ASSUME CodeFacts, code.family = "l2c", NEW r \in SUBSET Stages(code), r # {}
    PROVE  Galois(r) # {}
<1> DEFINE shifted == {i + 1 : i \in r \ {code.stages}}
<1>1. 1 \in code.taps1 /\ 1 \notin shifted
  BY DEF CodeFacts, Stages
<1>2. CASE code.stages \in r
  BY <1>1, <1>2 DEF Galois
<1>3. CASE code.stages \notin r
  BY <1>3 DEF Galois
<1> QED
  BY <1>2, <1>3

LEMMA StepTyped ==
    ASSUME CodeFacts, NEW r \in SUBSET Stages(code), NEW taps
    PROVE  Step(r, taps) \in SUBSET Stages(code)
  BY ShiftTyped DEF Step, Stages, CodeFacts

LEMMA StepNotEmpty ==
    ASSUME CodeFacts, NEW r \in SUBSET Stages(code), r # {}, NEW taps, code.stages \in taps
    PROVE  Step(r, taps) # {}
  BY ShiftNotEmpty DEF Step, Stages, CodeFacts

-----------------------------------------------------------------------------
LEMMA InitInv == Init => CodeInv
<1> SUFFICES ASSUME Init PROVE CodeInv
  OBVIOUS
<1> USE DEF Init
<1>1. code \in Generators /\ CodeFacts /\ PeriodFacts
  BY Facts DEF Generators
<1>2. TypeOK
  BY <1>1 DEF TypeOK, CodeFacts
<1>3. NeverStuck
  BY <1>1 DEF NeverStuck, CodeFacts
<1>4. LengthInv
  BY RequestsAssumption DEF LengthInv
<1>5. FirstInv
  BY <1>1, TurnsTyped DEF FirstInv, PeriodFacts, ComesBack, CodeFacts
<1>6. SecondInv
  BY <1>1, TurnsTyped DEF SecondInv, PeriodFacts, ComesBack, CodeFacts
<1>7. GoldInv
  BY DEF GoldInv
<1> QED
  BY <1>2, <1>3, <1>4, <1>5, <1>6, <1>7 DEF CodeInv

\* Every step but Pilot's leaves the code alone, and Pilot begins with a new one.
LEMMA PilotBegins ==
    ASSUME TypeOK, LengthInv, Pilot
    PROVE  /\ code' \in Generators
           /\ r1' = code'.first1 /\ r2' = code'.first2 /\ pos' = 0
           /\ n1' = code'.first1 /\ n2' = code'.first2 /\ start2' = code'.first2
           /\ request.sec_size >= code'.len
           /\ k' = 0 /\ part' = 2 /\ phase' = "seek" /\ request' = request /\ sec' = sec
  BY DEF Pilot, LengthInv, Generators

LEMMA FactsNext == code' \in Generators => CodeFacts' /\ PeriodFacts'
<1>1. (code \in Generators => CodeFacts /\ PeriodFacts)'
  BY Facts, PTL
<1> QED
  BY <1>1

LEMMA TypeStep ==
    ASSUME TypeOK, LengthInv, [Next]_vars
    PROVE  TypeOK'
<1>1. CodeFacts
  BY Facts DEF TypeOK
<1>2. request.size \in Nat /\ request.sec_size \in Nat /\ Room \in Nat
  BY RequestsAssumption DEF TypeOK, Room
<1>3. CASE UNCHANGED vars
  BY <1>3 DEF TypeOK, vars, registers, history, Stages
<1>4. CASE Refuse
  BY <1>4 DEF Refuse, TypeOK, registers, history, Stages
<1>5. CASE Begin
  BY <1>1, <1>5 DEF Begin, TypeOK, registers, history, Stages, Secondary, CodeFacts
<1>6. CASE Seek
  BY <1>1, <1>6, StepTyped DEF Seek, TypeOK, Stages
<1>7. CASE Found
  BY <1>7 DEF Found, TypeOK, registers, history, Stages
<1>8. CASE Chip
  <2>1. {Step(r1, code.taps1), Step(r2, code.taps2), Step(n1, code.taps1), Step(n2, code.taps2),
         code.first1, code.first2} \subseteq SUBSET Stages(code)
    BY <1>1, StepTyped DEF TypeOK, CodeFacts
  <2>2. code' = code /\ {r1', r2', n1', n2', start2'} \subseteq SUBSET Stages(code)
    BY <1>8, <2>1 DEF Chip, TypeOK
  <2> QED
    BY <1>8, <2>2 DEF Chip, TypeOK, Stages
<1>9. CASE ChipL2C
  BY <1>1, <1>9, GaloisTyped DEF ChipL2C, TypeOK, history, Stages
<1>10. CASE Copy
  BY <1>1, <1>10 DEF Copy, TypeOK, registers, history, Stages, CodeFacts
<1>11. CASE Finish
  BY <1>2, <1>11 DEF Finish, TypeOK, registers, history, Stages
<1>12. CASE Pilot
  <2>1. code' \in Generators /\ CodeFacts'
    BY <1>12, PilotBegins, FactsNext
  <2> QED
    BY <1>12, <2>1, PilotBegins DEF TypeOK, CodeFacts
<1> QED
  BY <1>3, <1>4, <1>5, <1>6, <1>7, <1>8, <1>9, <1>10, <1>11, <1>12 DEF Next

LEMMA NeverStuckStep ==
    ASSUME TypeOK, NeverStuck, LengthInv, [Next]_vars
    PROVE  NeverStuck'
<1>1. CodeFacts
  BY Facts DEF TypeOK
<1> USE DEF NeverStuck
<1>2. CASE UNCHANGED vars \/ Refuse \/ Begin \/ Found \/ Copy \/ Finish
  BY <1>2 DEF vars, registers, Refuse, Begin, Found, Copy, Finish
<1>3. CASE Seek
  BY <1>1, <1>3, StepNotEmpty DEF Seek, TypeOK, CodeFacts
<1>4. CASE Chip
  <2>1. code.stages \in code.taps1 /\ code.stages \in code.taps2
    BY <1>1, <1>4 DEF Chip, CodeFacts
  <2>2. Step(r1, code.taps1) # {} /\ Step(r2, code.taps2) # {}
    BY <1>1, <2>1, StepNotEmpty DEF TypeOK
  <2> QED
    BY <1>1, <1>4, <2>2 DEF Chip, CodeFacts
<1>5. CASE ChipL2C
  BY <1>1, <1>5, GaloisNotEmpty DEF ChipL2C, TypeOK
<1>6. CASE Pilot
  BY <1>6, PilotBegins, FactsNext DEF CodeFacts
<1> QED
  BY <1>2, <1>3, <1>4, <1>5, <1>6 DEF Next

LEMMA LengthStep ==
    ASSUME TypeOK, LengthInv, [Next]_vars
    PROVE  LengthInv'
<1>1. CodeFacts
  BY Facts DEF TypeOK
<1>2. request.size \in Nat /\ request.sec_size \in Nat /\ k \in Nat
  BY RequestsAssumption DEF TypeOK
<1> USE DEF LengthInv, Room
<1>3. CASE UNCHANGED vars \/ Refuse \/ Begin
  BY <1>1, <1>2, <1>3 DEF vars, Refuse, Begin, Accepts, Secondary, CodeFacts
<1>4. CASE Seek \/ Found \/ Chip \/ ChipL2C
  BY <1>1, <1>2, <1>4 DEF Seek, Found, Chip, ChipL2C, CodeFacts
<1>5. CASE Copy
  BY <1>1, <1>2, <1>5 DEF Copy, CodeFacts
<1>6. CASE Finish
  BY <1>1, <1>2, <1>6 DEF Finish, CodeFacts
<1>7. CASE Pilot
  BY <1>2, <1>7, PilotBegins
<1> QED
  BY <1>3, <1>4, <1>5, <1>6, <1>7 DEF Next

\* The short cycle: the chip of the reset is the last but one of the free run,
\* so from there on the register is one chip ahead of it.
LEMMA FirstStep ==
    ASSUME TypeOK, FirstInv, LengthInv, [Next]_vars
    PROVE  FirstInv'
<1>1. CodeFacts /\ PeriodFacts /\ k \in Nat
  BY Facts DEF TypeOK
<1>2. CASE UNCHANGED vars
  BY <1>2 DEF FirstInv, Chipping, vars, registers, history, Step
<1>3. CASE Refuse \/ Begin \/ Found
  BY <1>3 DEF FirstInv, Chipping, Refuse, Begin, Found, registers, history, Step
<1>4. CASE Seek
  BY <1>4 DEF FirstInv, Chipping, Seek, Step
<1>5. CASE Chip
  <2>1. /\ phase = "run" /\ Chipping /\ code' = code /\ k' = k + 1
        /\ n1' = Step(n1, code.taps1)
        /\ r1' = IF code.reset > 0 /\ k + 1 = code.reset THEN code.first1 ELSE Step(r1, code.taps1)
    BY <1>5 DEF Chip, Chipping, ResetChip
  <2>2. code.reset \in Nat /\ Turn1(code) \in Nat /\ (code.reset > 0 => Turn1(code) = code.reset + 1)
    BY <1>1, TurnsTyped DEF CodeFacts
  <2>3. /\ Run1[code][Turn1(code)] = code.first1
        /\ \A i \in 0 .. Turn1(code) - 1 : Run1[code][i + 1] = Step(Run1[code][i], code.taps1)
    BY <1>1 DEF PeriodFacts, ComesBack, Step
  <2>4. /\ k <= Turn1(code) => n1 = Run1[code][k]
        /\ r1 = IF code.reset = 0 \/ k < code.reset THEN n1 ELSE Step(n1, code.taps1)
    BY <2>1 DEF FirstInv
  <2>5. k + 1 <= Turn1(code) => n1' = Run1[code][k + 1]
    <3> SUFFICES ASSUME k + 1 <= Turn1(code) PROVE n1' = Run1[code][k + 1]
      OBVIOUS
    <3>1. k \in 0 .. Turn1(code) - 1 /\ k <= Turn1(code)
      BY <1>1, <2>2
    <3> QED
      BY <2>1, <2>3, <2>4, <3>1
  <2>6. r1' = IF code.reset = 0 \/ k + 1 < code.reset THEN n1' ELSE Step(n1', code.taps1)
    <3>1. CASE code.reset = 0 \/ k + 1 < code.reset
      BY <1>1, <2>1, <2>2, <2>4, <3>1
    <3>2. CASE code.reset > 0 /\ k + 1 = code.reset
      <4>1. code.reset \in 0 .. Turn1(code) - 1 /\ code.reset + 1 = Turn1(code)
            /\ code.reset <= Turn1(code)
        BY <2>2, <3>2
      <4>2. n1' = Run1[code][code.reset]
        BY <2>5, <3>2, <4>1
      <4>3. Step(n1', code.taps1) = code.first1
        BY <2>3, <4>1, <4>2
      <4> QED
        BY <2>1, <2>2, <3>2, <4>3
    <3>3. CASE code.reset > 0 /\ k + 1 > code.reset
      BY <1>1, <2>1, <2>2, <2>4, <3>3
    <3> QED
      BY <1>1, <2>2, <3>1, <3>2, <3>3
  <2> QED
    BY <2>1, <2>5, <2>6 DEF FirstInv, Step
<1>6. CASE ChipL2C \/ Copy
  BY <1>6 DEF FirstInv, Chipping, ChipL2C, Copy
<1>7. CASE Finish
  BY <1>7 DEF FirstInv, Chipping, Finish, registers, history, Step
<1>8. CASE Pilot
  <2>1. CodeFacts' /\ PeriodFacts'
    BY <1>8, PilotBegins, FactsNext
  <2>2. Run1[code'][0] = code'.first1 /\ code'.reset \in Nat
    BY <2>1 DEF PeriodFacts, ComesBack, CodeFacts
  <2> QED
    BY <1>8, <2>2, PilotBegins DEF FirstInv
<1> QED
  BY <1>2, <1>3, <1>4, <1>5, <1>6, <1>7, <1>8 DEF Next

\* Reading the stored sequence from `start` modulo its period goes on as the
\* register would.
LEMMA SecondStep ==
    ASSUME TypeOK, SecondInv, LengthInv, [Next]_vars
    PROVE  SecondInv'
<1>1. CodeFacts /\ PeriodFacts /\ pos \in Nat
  BY Facts DEF TypeOK
<1>2. /\ Turn2(code) \in Nat /\ code.period \in Nat /\ code.start \in Nat
      /\ code.period > 0 => Turn2(code) = code.period /\ code.start < code.period
      /\ code.period = 0 => code.start = 0
  BY <1>1, TurnsTyped DEF CodeFacts
<1>3. /\ Run2[code][0] = code.first2 /\ Run2[code][Turn2(code)] = code.first2
      /\ \A i \in 0 .. Turn2(code) - 1 : Run2[code][i + 1] = Step(Run2[code][i], code.taps2)
  BY <1>1 DEF PeriodFacts, ComesBack, Step
\* One chip of the second register in its free run.
<1>4. pos + 1 <= Turn2(code) => Step(r2, code.taps2) = Run2[code][pos + 1]
  <2> SUFFICES ASSUME pos + 1 <= Turn2(code) PROVE Step(r2, code.taps2) = Run2[code][pos + 1]
    OBVIOUS
  <2>1. pos \in 0 .. Turn2(code) - 1 /\ pos <= Turn2(code)
    BY <1>1, <1>2
  <2> QED
    BY <1>3, <2>1 DEF SecondInv
<1>5. CASE UNCHANGED vars \/ Refuse \/ Copy \/ ChipL2C \/ Finish
  BY <1>5 DEF SecondInv, vars, registers, history, Refuse, Copy, ChipL2C, Finish
<1>6. CASE Begin
  <2>1. pos = 0 /\ pos <= Turn2(code)
    BY <1>2, <1>6 DEF SecondInv, Begin
  <2>2. start2 = r2
    BY <1>6 DEF SecondInv, Begin
  <2> QED
    BY <1>2, <1>6, <2>1, <2>2 DEF SecondInv, Begin, registers, history
<1>7. CASE Seek
  <2>1. pos < code.start /\ pos' = pos + 1 /\ code' = code /\ phase' = "seek"
        /\ r2' = Step(r2, code.taps2) /\ n2' = r2' /\ start2' = r2'
    BY <1>7 DEF Seek, FirstIndex
  <2>2. code.period > 0 /\ pos + 1 <= Turn2(code) /\ pos + 1 < code.period
    BY <1>1, <1>2, <2>1
  <2> QED
    BY <1>1, <1>2, <1>4, <2>1, <2>2 DEF SecondInv
<1>8. CASE Found
  <2>1. pos = code.start /\ start2 = r2 /\ pos <= Turn2(code)
    BY <1>2, <1>8 DEF SecondInv, Found, FirstIndex
  <2> QED
    BY <1>8, <2>1 DEF SecondInv, Found, registers, history
<1>9. CASE Chip
  <2>1. /\ phase = "run" /\ code' = code /\ phase' = phase /\ start2' = start2
        /\ r2' = IF code.period > 0 /\ pos + 1 = code.period THEN code.first2 ELSE Step(r2, code.taps2)
        /\ pos' = IF code.period > 0 /\ pos + 1 = code.period THEN 0 ELSE pos + 1
        /\ n2' = Step(n2, code.taps2)
    BY <1>9 DEF Chip, Modulo
  <2>2. CASE code.period > 0 /\ pos + 1 = code.period
    <3>1. Step(r2, code.taps2) = code.first2
      BY <1>2, <1>3, <1>4, <2>2
    <3> QED
      BY <1>3, <2>1, <2>2, <3>1 DEF SecondInv
  <2>3. CASE ~(code.period > 0 /\ pos + 1 = code.period)
    <3>1. code.period > 0 => pos + 1 < code.period
      BY <1>1, <1>2, <2>3 DEF SecondInv
    <3> QED
      BY <1>1, <1>4, <2>1, <2>3, <3>1 DEF SecondInv
  <2> QED
    BY <2>2, <2>3
<1>10. CASE Pilot
  <2>1. CodeFacts' /\ PeriodFacts'
    BY <1>10, PilotBegins, FactsNext
  <2>2. Run2[code'][0] = code'.first2 /\ code'.start \in Nat /\ code'.period \in Nat
    BY <2>1 DEF PeriodFacts, ComesBack, CodeFacts
  <2> QED
    BY <1>10, <2>2, PilotBegins DEF SecondInv
<1> QED
  BY <1>5, <1>6, <1>7, <1>8, <1>9, <1>10 DEF Next

LEMMA GoldStep ==
    ASSUME TypeOK, GoldInv, LengthInv, SecondInv, [Next]_vars
    PROVE  GoldInv'
<1>1. CodeFacts /\ pos \in Nat /\ k \in Nat
  BY Facts DEF TypeOK
<1>2. CASE UNCHANGED vars \/ Refuse \/ Begin \/ Seek
  BY <1>2 DEF GoldInv, vars, registers, Refuse, Begin, Seek
<1>3. CASE Found
  BY <1>1, <1>3 DEF GoldInv, Found, FirstIndex, LengthInv, registers, CodeFacts
<1>4. CASE Chip
  <2> SUFFICES ASSUME code.family \in Gold
               PROVE  pos' = IF code.period = 0 \/ code.start + (k + 1) < code.period
                             THEN code.start + (k + 1) ELSE code.start + (k + 1) - code.period
    BY <1>4 DEF GoldInv, Chip
  <2>1. /\ pos' = IF code.period > 0 /\ pos + 1 = code.period THEN 0 ELSE pos + 1
        /\ k < code.len
        /\ pos = IF code.period = 0 \/ code.start + k < code.period THEN code.start + k
                 ELSE code.start + k - code.period
    BY <1>4 DEF Chip, Modulo, GoldInv
  <2>2. /\ code.start \in Nat /\ code.period \in Nat /\ code.len \in Nat
        /\ code.period = 0 \/ code.period = code.len
        /\ code.period # 0 => code.start < code.period
    BY <1>1 DEF CodeFacts
  <2> QED
    BY <1>1, <2>1, <2>2
<1>5. CASE ChipL2C \/ Copy
  BY <1>5 DEF GoldInv, ChipL2C, Copy, Gold
<1>6. CASE Finish
  BY <1>1, <1>6 DEF GoldInv, Finish, registers, CodeFacts
<1>7. CASE Pilot
  BY <1>7, PilotBegins DEF GoldInv
<1> QED
  BY <1>2, <1>3, <1>4, <1>5, <1>6, <1>7 DEF Next

THEOREM CodeInvariant == Spec => []CodeInv
<1>1. CodeInv /\ [Next]_vars => CodeInv'
  BY TypeStep, NeverStuckStep, LengthStep, FirstStep, SecondStep, GoldStep DEF CodeInv
<1> QED
  BY <1>1, InitInv, PTL DEF Spec

-----------------------------------------------------------------------------
LEMMA ShortCycledFollows == CodeInv => ShortCycled
<1> SUFFICES ASSUME CodeInv, code.reset > 0, phase = "run"
             PROVE  r1 = IF k < code.reset THEN n1 ELSE Step(n1, code.taps1)
  BY DEF ShortCycled
<1>1. code.reset \in Nat /\ Chipping
  BY Facts DEF CodeInv, TypeOK, CodeFacts, Chipping
<1> QED
  BY <1>1 DEF CodeInv, FirstInv

LEMMA StartsLateFollows == CodeInv => StartsLate
<1> SUFFICES ASSUME CodeInv, code.family = "delay", phase = "run", k = code.period - code.start
             PROVE  r2 = code.first2
  BY DEF StartsLate
<1>1. CodeFacts /\ PeriodFacts /\ k \in Nat
  BY Facts DEF CodeInv, TypeOK
<1>2. code.family \in Gold /\ code.period \in Nat /\ code.start \in Nat
  BY <1>1 DEF Gold, CodeFacts
<1>3. pos = 0
  BY <1>1, <1>2 DEF CodeInv, GoldInv, CodeFacts
<1> QED
  BY <1>1, <1>3, TurnsTyped DEF CodeInv, SecondInv, PeriodFacts, ComesBack

LEMMA ClosesUpFollows == CodeInv => ClosesUp
<1> SUFFICES ASSUME CodeInv, phase = "done", code.family \in Gold
             PROVE  IF code.family = "b1i"
                    THEN Step(r1, code.taps1) = code.first1 /\ Step(r2, code.taps2) = start2
                    ELSE r1 = code.first1 /\ r2 = start2
  BY DEF ClosesUp
<1>1. CodeFacts /\ PeriodFacts
  BY Facts DEF CodeInv, TypeOK
<1>2. code.len \in Nat /\ code.reset = 0 /\ ~code.repeats /\ Chipping
      /\ code.period = IF code.family = "delay" THEN code.len ELSE 0
  BY <1>1 DEF CodeFacts, Chipping, Gold
<1>3. k = code.len /\ start2 = Run2[code][code.start]
  BY <1>2 DEF CodeInv, LengthInv, SecondInv
<1>4. r1 = n1 /\ (code.len <= Turn1(code) => r1 = Run1[code][code.len])
  BY <1>2, <1>3 DEF CodeInv, FirstInv
<1>5. CASE code.family = "b1i"
  <2>1. Turn1(code) = code.len + 1 /\ Turn2(code) = code.len + 1 /\ code.start = 0 /\ code.period = 0
    BY <1>1, <1>2, <1>5, TurnsTyped DEF CodeFacts
  <2>2. code.len \in 0 .. (code.len + 1) - 1 /\ code.len <= code.len + 1
    BY <1>2
  <2>3. r1 = Run1[code][code.len] /\ Step(r1, code.taps1) = Run1[code][code.len + 1]
    BY <1>1, <1>4, <2>1, <2>2 DEF PeriodFacts, ComesBack, Step
  <2>4. pos = code.len
    BY <1>2, <1>3, <2>1 DEF CodeInv, GoldInv
  <2>5. r2 = Run2[code][code.len] /\ Step(r2, code.taps2) = Run2[code][code.len + 1]
    BY <1>1, <2>1, <2>2, <2>4 DEF CodeInv, SecondInv, PeriodFacts, ComesBack, Step
  <2> QED
    BY <1>1, <1>3, <1>5, <2>1, <2>3, <2>5 DEF PeriodFacts, ComesBack
<1>6. CASE code.family = "delay"
  <2>1. Turn1(code) = code.len /\ code.period = code.len
    BY <1>1, <1>2, <1>6, TurnsTyped
  <2>2. r1 = code.first1
    BY <1>1, <1>2, <1>4, <2>1 DEF PeriodFacts, ComesBack
  <2>3. code.start \in Nat /\ (code.len = 0 => code.start = 0)
    BY <1>1, <2>1 DEF CodeFacts
  <2>4. pos = code.start
    BY <1>2, <1>3, <2>1, <2>3 DEF CodeInv, GoldInv
  <2>5. pos <= Turn2(code)
    BY <1>1, <2>1, <2>3, <2>4, TurnsTyped DEF CodeFacts
  <2> QED
    BY <1>3, <1>6, <2>2, <2>4, <2>5 DEF CodeInv, SecondInv
<1>7. CASE code.family \in Gold \ {"delay", "b1i"}
  <2>1. Turn1(code) = code.len /\ Turn2(code) = code.len /\ code.period = 0 /\ code.start = 0
    BY <1>1, <1>2, <1>7, TurnsTyped DEF CodeFacts
  <2>2. r1 = code.first1
    BY <1>1, <1>2, <1>4, <2>1 DEF PeriodFacts, ComesBack
  <2>3. pos = code.len
    BY <1>2, <1>3, <2>1 DEF CodeInv, GoldInv
  <2>4. r2 = Run2[code][code.len]
    BY <1>2, <2>1, <2>3 DEF CodeInv, SecondInv
  <2> QED
    BY <1>1, <1>3, <1>7, <2>1, <2>2, <2>4 DEF PeriodFacts, ComesBack
<1> QED
  BY <1>5, <1>6, <1>7

\* Shortened, delayed, advanced or wrapped, a register stays in the sequence of
\* its polynomial and at the chip the code's definition names: for every
\* generator whose registers have the periods that the source relies on.
THEOREM ChipsOfCodeHolds == Spec => []ChipsOfCode
<1>1. CodeInv => RunsFreely
  BY DEF CodeInv, SecondInv, RunsFreely
<1>2. CodeInv => ChipsOfCode
  BY <1>1, ShortCycledFollows, StartsLateFollows, ClosesUpFollows DEF CodeInv, ChipsOfCode
<1> QED
  BY <1>2, CodeInvariant, PTL

\* Codes, their repetitions, secondary codes and pilots end within the buffer
\* the caller passed for them, whatever its size.
THEOREM NoOverrunHolds == Spec => []NoOverrun
<1>1. CodeInv => NoOverrun
  <2> SUFFICES ASSUME CodeInv PROVE NoOverrun
    OBVIOUS
  <2>1. CodeFacts /\ k \in Nat
    BY Facts DEF CodeInv, TypeOK
  <2>2. request.size \in Nat /\ request.sec_size \in Nat
    BY RequestsAssumption DEF CodeInv, TypeOK
  <2> QED
    BY <2>1, <2>2 DEF CodeInv, TypeOK, LengthInv, NoOverrun, Room, CodeFacts
<1> QED
  BY <1>1, CodeInvariant, PTL
=============================================================================
