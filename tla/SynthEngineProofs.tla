------------------------- MODULE SynthEngineProofs --------------------------
(***************************************************************************)
(* Every sample the engine hands over is in its place, for every request,  *)
(* length of the blocks and number of threads, also while the writer       *)
(* drains one block and the next one is mixed.                             *)
(***************************************************************************)
EXTENDS SynthEngine, FiniteSetTheorems, TLAPS

\* The locals of run_one_band() while it works on a band.
Working == main \in {"loop", "mix", "close"}

IType ==
    /\ asked \in Seq(Band) /\ bands \in Seq(Band)
    /\ at \in 1 .. Len(bands) + 1
    /\ main \in {"total", "enter", "loop", "mix", "close", "returned"}
    /\ rc \in {0, -1, -2}
    /\ done \in Nat /\ cur \in 0 .. 1 /\ mixed \subseteq Nat
    /\ writer \in [state : {"none", "writing", "ended"}, q : 0 .. 1, n : Nat, pos : Nat]
    /\ writer.pos <= writer.n
    /\ write_ok \in BOOLEAN

IBand ==
    /\ Working => at <= Len(bands) /\ Accepted /\ done <= b.total
    /\ main = "mix" => done < b.total
    /\ writer.state # "none" => Working /\ b.target = "file"

IBuffers ==
    Working => /\ fbuf \in [0 .. Blk - 1 -> SUBSET Nat]
               /\ qbuf \in [0 .. 1 -> [0 .. Blk - 1 -> SUBSET Nat]]

\* The chunks that are done hold their samples.
IMixed ==
    main = "mix" /\ b.target = "file" =>
        \A t \in mixed : t < nchunk /\ \A k \in Slice(t) : qbuf[cur][k] = {done + k}

\* The writer drains the other buffer, which holds the samples before `done`,
\* and continues the file where the block before ended.
IWriter ==
    /\ writer.state = "writing" =>
        /\ writer.q = 1 - cur /\ writer.n <= Blk /\ writer.n <= done
        /\ Len(out[at]) = done - writer.n + writer.pos
        /\ \A k \in 0 .. writer.n - 1 : qbuf[writer.q][k] = {done - writer.n + k}
    /\ writer.state = "ended" /\ write_ok => Len(out[at]) = done
    /\ main \in {"loop", "mix"} /\ b.target = "file" /\ writer.state = "none" =>
        done = 0 /\ Len(out[at]) = 0

IOut ==
    /\ out = [i \in 1 .. Len(bands) |-> out[i]]
    /\ \A i \in 1 .. Len(bands) :
        IF bands[i].target = "mem"
        THEN /\ out[i] \in [0 .. bands[i].total - 1 -> SUBSET Nat]
             /\ \A k \in 0 .. bands[i].total - 1 : out[i][k] \subseteq {k}
        ELSE /\ out[i] \in Seq(SUBSET Nat)
             /\ \A k \in 1 .. Len(out[i]) : out[i][k] = {k - 1}
             /\ i > at \/ (i = at /\ main \in {"total", "enter"}) => Len(out[i]) = 0

EngineInv == IType /\ IBand /\ IBuffers /\ IMixed /\ IWriter /\ IOut

-----------------------------------------------------------------------------
\* ceil(m / c) chunks of that length cover a block of m samples.
LEMMA ChunksCover ==
    ASSUME NEW m \in Nat \ {0}, NEW c \in Nat \ {0}, NEW k \in 0 .. m - 1,
           NEW len, len = (m + c - 1) \div c
    PROVE  /\ len \in Nat \ {0}
           /\ \E t \in 0 .. c - 1 : k \in t * len .. Least(m, t * len + len) - 1
<1>1. len \in Int /\ c * len <= m + c - 1 /\ m + c - 1 < c * len + c
  OBVIOUS
<1>2. len > 0
  BY <1>1
<1> DEFINE t == k \div len
<1>3. t \in Int /\ len * t <= k /\ k < len * t + len
  BY <1>1, <1>2
<1>4. t >= 0
  BY <1>1, <1>2, <1>3
<1>5. t < c
  <2>1. SUFFICES ASSUME t >= c PROVE FALSE
    BY <1>3
  <2>2. len * t >= len * c
    BY <2>1, <1>1, <1>2, <1>3
  <2> QED
    BY <2>2, <1>1, <1>3
<1> QED
  BY <1>1, <1>2, <1>3, <1>4, <1>5 DEF Least

\* The lengths of a band, and of a block that is not empty.
LEMMA Sizes ==
    ASSUME EngineInv, Working
    PROVE  /\ at \in 1 .. Len(bands) /\ b \in Band
           /\ Blk \in Nat \ {0} /\ n \in Nat /\ n <= Blk /\ done + n <= b.total
           /\ nchunk \in Nat \ {0}
           /\ main = "mix" => n > 0
<1>1. at \in 1 .. Len(bands) /\ done \in Nat /\ done <= b.total /\ b \in Band
  BY DEF EngineInv, IType, IBand, b
<1>2. Blk \in Nat \ {0}
  BY <1>1, EngineAssumption DEF Blk, Band
<1>3. n \in Nat /\ n <= Blk /\ done + n <= b.total /\ (main = "mix" => n > 0)
  BY <1>1, <1>2 DEF n, Least, EngineInv, IBand, Band
<1>4. nchunk \in Nat \ {0}
  BY <1>1 DEF nchunk, Band
<1> QED
  BY <1>1, <1>2, <1>3, <1>4

\* A slice lies in its block.
LEMMA SliceInBlock ==
    ASSUME EngineInv, main = "mix", NEW t \in 0 .. nchunk - 1
    PROVE  Slice(t) \subseteq 0 .. n - 1
<1>1. n \in Nat \ {0} /\ nchunk \in Nat \ {0}
  BY Sizes DEF Working
<1>2. chunk \in Nat \ {0}
  BY <1>1, ChunksCover DEF chunk
<1>3. t * chunk \in Nat
  BY <1>2
<1> QED
  BY <1>1, <1>2, <1>3 DEF Slice, Least

LEMMA SlicesCoverBlock ==
    ASSUME EngineInv, main = "mix", NEW k \in 0 .. n - 1
    PROVE  \E t \in 0 .. nchunk - 1 : k \in Slice(t)
<1>1. n \in Nat \ {0} /\ nchunk \in Nat \ {0}
  BY Sizes DEF Working
<1> QED
  BY <1>1, ChunksCover DEF chunk, Slice

-----------------------------------------------------------------------------
LEMMA EngineInit == Init => EngineInv
<1> SUFFICES ASSUME Init PROVE EngineInv
  OBVIOUS
<1>1. asked \in Seq(Band)
  BY EngineAssumption DEF Init
<1>2. bands \in Seq(Band)
  <2>1. CASE bands = asked
    BY <2>1, <1>1
  <2>2. CASE Len(asked) = 1 /\ \E s \in Uninitialised : bands = <<s>>
    <3>1. asked[1] \in Band
      BY <1>1, <2>2
    <3>2. Uninitialised \subseteq Band
      BY <3>1 DEF Uninitialised, Band
    <3> QED
      BY <2>2, <3>2
  <2> QED
    BY <2>1, <2>2 DEF Init
<1>3. IType
  BY <1>1, <1>2 DEF Init, IType, NoWriter
<1>4. IBand /\ IBuffers /\ IMixed /\ IWriter
  BY DEF Init, IBand, IBuffers, IMixed, IWriter, Working, NoWriter
<1>5. IOut
  <2>1. out = [i \in 1 .. Len(bands) |-> IF bands[i].target = "mem" THEN Fresh(bands[i].total) ELSE <<>>]
    BY <1>2 DEF Init
  <2>2. \A i \in 1 .. Len(bands) : bands[i].target = "mem" => out[i] = Fresh(bands[i].total)
    BY <2>1
  <2>3. \A i \in 1 .. Len(bands) : bands[i].target # "mem" => out[i] = <<>>
    BY <2>1
  <2>4. \A m \in Nat : Fresh(m) \in [0 .. m - 1 -> SUBSET Nat] /\ \A k \in 0 .. m - 1 : Fresh(m)[k] = {}
    BY DEF Fresh
  <2>5. \A i \in 1 .. Len(bands) : bands[i] \in Band
    BY <1>2
  <2>6. \A i \in 1 .. Len(bands) : bands[i].total \in Nat
    BY <2>5 DEF Band
  <2>7. ASSUME NEW i \in 1 .. Len(bands), bands[i].target = "mem"
        PROVE  /\ out[i] \in [0 .. bands[i].total - 1 -> SUBSET Nat]
               /\ \A k \in 0 .. bands[i].total - 1 : out[i][k] \subseteq {k}
    <3>1. out[i] = Fresh(bands[i].total) /\ bands[i].total \in Nat
      BY <2>2, <2>6, <2>7
    <3>2. /\ Fresh(bands[i].total) \in [0 .. bands[i].total - 1 -> SUBSET Nat]
          /\ \A k \in 0 .. bands[i].total - 1 : Fresh(bands[i].total)[k] = {}
      BY <2>4, <3>1
    <3> QED
      BY <3>1, <3>2
  <2>8. ASSUME NEW i \in 1 .. Len(bands), bands[i].target # "mem"
        PROVE  /\ out[i] \in Seq(SUBSET Nat) /\ Len(out[i]) = 0
               /\ \A k \in 1 .. Len(out[i]) : out[i][k] = {k - 1}
    <3>1. out[i] = <<>>
      BY <2>3, <2>8
    <3> QED
      BY <3>1
  <2>9. out = [i \in 1 .. Len(bands) |-> out[i]]
    BY <2>1
  <2> QED
    BY <2>7, <2>8, <2>9 DEF IOut
<1> QED
  BY <1>3, <1>4, <1>5 DEF EngineInv

-----------------------------------------------------------------------------
\* Steps that leave the samples alone.
LEMMA QuietSteps ==
    ASSUME EngineInv, AllAdded \/ AllBandsDone \/ Refuse \/ BandMixed \/ WriteFailed \/ Returned \/ UNCHANGED vars
    PROVE  EngineInv'
<1>0. CASE AllAdded
  BY <1>0 DEF AllAdded, EngineInv, IType, IBand, IBuffers, IMixed, IWriter, IOut, Working,
              block, writing, b, Accepted, Blk
<1>1. CASE AllBandsDone
  BY <1>1 DEF AllBandsDone, Ends, EngineInv, IType, IBand, IBuffers, IMixed, IWriter, IOut, Working,
              block, writing, b, Accepted, Blk
<1>2. CASE Refuse
  <2>1. writer.state = "none" /\ writer' = writer /\ main' = "returned" /\ rc' = -1
    BY <1>2 DEF Refuse, Ends, writing, EngineInv, IBand, Working
  <2> QED
    BY <1>2, <2>1 DEF Refuse, EngineInv, IType, IBand, IBuffers, IMixed, IWriter, IOut, Working,
                block, writing, b, Accepted, Blk
<1>3. CASE BandMixed
  BY <1>3 DEF BandMixed, EngineInv, IType, IBand, IBuffers, IMixed, IWriter, IOut, Working,
              block, writing, b, Accepted, Blk
<1>4. CASE WriteFailed
  <2>1. /\ b' = b /\ Blk' = Blk /\ Accepted' = Accepted
        /\ writer' = NoWriter /\ main' = "close" /\ main = "mix"
    BY <1>4 DEF WriteFailed, AllMixed, b, Blk, Accepted
  <2>2. IType' /\ IBand'
    BY <1>4, <2>1 DEF WriteFailed, NoWriter, block, EngineInv, IType, IBand, Working
  <2>3. IBuffers' /\ IMixed' /\ IWriter' /\ IOut'
    BY <1>4, <2>1 DEF WriteFailed, NoWriter, block, EngineInv, IBuffers, IMixed, IWriter, IOut, Working
  <2> QED
    BY <2>2, <2>3 DEF EngineInv
<1>5. CASE Returned \/ UNCHANGED vars
  <2>1. b' = b /\ Blk' = Blk /\ Accepted' = Accepted
    BY <1>5 DEF Returned, vars, block, b, Blk, Accepted
  <2>2. IType' /\ IBand'
    BY <1>5, <2>1 DEF Returned, vars, block, writing, EngineInv, IType, IBand, Working
  <2>3. IBuffers' /\ IWriter' /\ IOut'
    BY <1>5, <2>1 DEF Returned, vars, block, writing, EngineInv, IBuffers, IWriter, IOut, Working
  <2>4. IMixed'
    BY <1>5 DEF Returned, vars, block, EngineInv, IMixed, b, Slice, chunk, nchunk, n, Blk
  <2> QED
    BY <2>2, <2>3, <2>4 DEF EngineInv
<1> QED
  BY <1>0, <1>1, <1>2, <1>3, <1>4, <1>5

\* One more summand.
LEMMA AddStep == ASSUME EngineInv, AddBand PROVE EngineInv'
<1>1. b' = b /\ Blk' = Blk /\ Accepted' = Accepted
  BY DEF AddBand, b, Blk, Accepted
<1> QED
  BY <1>1 DEF AddBand, EngineInv, IType, IBand, IBuffers, IMixed, IWriter, IOut, Working,
     block, writing

\* The buffers are made anew; no writer runs.
LEMMA EnterStep == ASSUME EngineInv, Enter PROVE EngineInv'
<1>1. b' = b /\ Blk' = Blk /\ Accepted' = Accepted /\ at <= Len(bands) /\ writer.state = "none"
  BY DEF Enter, b, Blk, Accepted, EngineInv, IBand, Working, writing
<1>2. at \in 1 .. Len(bands) /\ b \in Band
  BY <1>1 DEF EngineInv, IType, b
<1>3. Blk \in Nat \ {0} /\ b.total \in Nat
  BY <1>2, EngineAssumption DEF Blk, Band
<1>4. IType' /\ IBand'
  BY <1>1, <1>3 DEF Enter, EngineInv, IType, IBand, Working
<1>5. IBuffers' /\ IMixed'
  BY <1>1, <1>3 DEF Enter, IBuffers, IMixed, Fresh
<1>6. IOut'
  BY DEF Enter, EngineInv, IOut
<1>7. IWriter'
  BY <1>1, <1>2 DEF Enter, EngineInv, IWriter, IOut, b
<1> QED
  BY <1>4, <1>5, <1>6, <1>7 DEF EngineInv

LEMMA StartBlockStep == ASSUME EngineInv, StartBlock PROVE EngineInv'
<1>1. b' = b /\ Blk' = Blk /\ Accepted' = Accepted
  BY DEF StartBlock, b, Blk, Accepted
<1> QED
  BY <1>1 DEF StartBlock, block, writing, EngineInv, IType, IBand, IBuffers, IMixed, IWriter, IOut,
              Working

-----------------------------------------------------------------------------
\* A chunk is mixed: its own samples get their numbers, all others stay.
LEMMA MixStep ==
    ASSUME EngineInv, main = "mix", NEW t \in 0 .. nchunk - 1, MixChunk(t)
    PROVE  EngineInv'
<1> DEFINE S == Slice(t)
<1>1. /\ at \in 1 .. Len(bands) /\ b \in Band /\ Blk \in Nat \ {0} /\ n \in Nat /\ n <= Blk
      /\ done \in Nat /\ b.total \in Nat /\ S \subseteq 0 .. Blk - 1 /\ nchunk \in Nat \ {0}
  <2>1. S \subseteq 0 .. n - 1
    BY SliceInBlock
  <2>2. /\ at \in 1 .. Len(bands) /\ b \in Band /\ Blk \in Nat \ {0} /\ n \in Nat /\ n <= Blk
        /\ nchunk \in Nat \ {0}
    BY Sizes DEF Working
  <2> QED
    BY <2>1, <2>2 DEF EngineInv, IType, Band
<1>2. /\ b' = b /\ Blk' = Blk /\ Accepted' = Accepted /\ done' = done /\ at' = at /\ cur' = cur
      /\ bands' = bands /\ main' = main /\ writer' = writer /\ write_ok' = write_ok
  BY DEF MixChunk, b, Blk, Accepted, writing
<1>3. \A s : Slice(s)' = Slice(s)
  BY <1>2 DEF Slice, chunk, nchunk, n, b, Blk
<1>4. IType' /\ IBand'
  BY <1>1, <1>2 DEF MixChunk, EngineInv, IType, IBand, Working
<1>5. /\ fbuf' \in [0 .. Blk - 1 -> SUBSET Nat]
      /\ \A k \in S : fbuf'[k] = {done + k}
  <2>1. fbuf \in [0 .. Blk - 1 -> SUBSET Nat]
    BY DEF EngineInv, IBuffers, Working
  <2>2. fbuf' = [k \in 0 .. Blk - 1 |-> IF k \in S THEN {done + k} ELSE fbuf[k]]
    BY <2>1 DEF MixChunk, Mixed
  <2> HIDE DEF S
  <2> QED
    BY <1>1, <2>1, <2>2
<1>6. qbuf \in [0 .. 1 -> [0 .. Blk - 1 -> SUBSET Nat]] /\ cur \in 0 .. 1
  BY DEF EngineInv, IBuffers, IType, Working
<1>7. CASE b.target = "mem"
  <2> HIDE DEF S
  <2>1. qbuf' = qbuf /\ writer.state = "none"
    BY <1>7 DEF MixChunk, EngineInv, IBand
  <2>2. IBuffers'
    BY <1>2, <1>5, <1>6, <2>1 DEF IBuffers
  <2>3. IMixed' /\ IWriter'
    BY <1>2, <1>7, <2>1 DEF IMixed, IWriter
  <2>4. out[at] \in [0 .. b.total - 1 -> SUBSET Nat] /\ \A k \in 0 .. b.total - 1 : out[at][k] \subseteq {k}
    BY <1>1, <1>7 DEF EngineInv, IOut, b
  <2>5. out' = [out EXCEPT ![at] = [k \in 0 .. b.total - 1 |->
                    IF k - done \in S THEN fbuf'[k - done] ELSE out[at][k]]]
    BY <1>7, <2>4 DEF MixChunk, S
  <2>6. \A k \in 0 .. b.total - 1 : k - done \in S => fbuf'[k - done] = {k}
    BY <1>1, <1>5
  <2>7. /\ out'[at] \in [0 .. b.total - 1 -> SUBSET Nat]
        /\ \A k \in 0 .. b.total - 1 : out'[at][k] \subseteq {k}
    <3>1. out'[at] = [k \in 0 .. b.total - 1 |-> IF k - done \in S THEN fbuf'[k - done] ELSE out[at][k]]
      BY <1>1, <2>5 DEF EngineInv, IOut
    <3> QED
      BY <2>4, <2>6, <3>1
  <2>8. /\ out' = [i \in 1 .. Len(bands) |-> out'[i]]
        /\ \A i \in 1 .. Len(bands) : i # at => out'[i] = out[i]
    BY <1>1, <2>5 DEF EngineInv, IOut
  <2>9. IOut'
    <3>1. bands[at].target = "mem" /\ bands[at] = b
      BY <1>7 DEF b
    <3> SUFFICES ASSUME NEW i \in 1 .. Len(bands)
                 PROVE  IF bands[i].target = "mem"
                        THEN /\ out'[i] \in [0 .. bands[i].total - 1 -> SUBSET Nat]
                             /\ \A k \in 0 .. bands[i].total - 1 : out'[i][k] \subseteq {k}
                        ELSE /\ out'[i] \in Seq(SUBSET Nat)
                             /\ \A k \in 1 .. Len(out'[i]) : out'[i][k] = {k - 1}
                             /\ i > at \/ (i = at /\ main \in {"total", "enter"}) => Len(out'[i]) = 0
      BY <1>2, <2>8 DEF IOut
    <3>2. CASE i = at
      BY <2>7, <3>1, <3>2
    <3>3. CASE i # at
      BY <2>8, <3>3 DEF EngineInv, IOut
    <3> QED
      BY <3>2, <3>3
  <2> QED
    BY <1>4, <2>2, <2>3, <2>9 DEF EngineInv
<1>8. CASE b.target # "mem"
  <2> HIDE DEF S
  <2>1. out' = out /\ b.target = "file"
    BY <1>8 DEF MixChunk, EngineInv, IBand, Working, Accepted
  <2>2. /\ qbuf' \in [0 .. 1 -> [0 .. Blk - 1 -> SUBSET Nat]]
        /\ qbuf'[1 - cur] = qbuf[1 - cur]
        /\ \A k \in 0 .. Blk - 1 : qbuf'[cur][k] = IF k \in S THEN fbuf'[k] ELSE qbuf[cur][k]
    <3>1. qbuf[cur] \in [0 .. Blk - 1 -> SUBSET Nat]
      BY <1>6
    <3>2. qbuf' = [qbuf EXCEPT ![cur] =
                    [k \in 0 .. Blk - 1 |-> IF k \in S THEN fbuf'[k] ELSE qbuf[cur][k]]]
      BY <1>8, <3>1 DEF MixChunk, S
    <3>3. [k \in 0 .. Blk - 1 |-> IF k \in S THEN fbuf'[k] ELSE qbuf[cur][k]]
            \in [0 .. Blk - 1 -> SUBSET Nat]
      BY <1>5, <3>1
    <3> QED
      BY <1>6, <3>2, <3>3
  <2>3. IBuffers'
    BY <1>2, <1>5, <2>2 DEF IBuffers
  <2>4. IMixed'
    <3> SUFFICES ASSUME NEW s \in mixed', NEW k \in Slice(s)'
                 PROVE  qbuf'[cur][k] = {done + k}
      <4>1. nchunk' = nchunk
        BY <1>2 DEF nchunk, n, b, Blk
      <4>2. \A s \in mixed' : s < nchunk
        BY <1>1, <2>1 DEF MixChunk, EngineInv, IMixed
      <4> QED
        BY <1>2, <4>1, <4>2 DEF IMixed
    <3>1. k \in Slice(s) /\ (s \in mixed \/ s = t)
      BY <1>3 DEF MixChunk
    <3>2. CASE k \in S
      BY <1>1, <1>5, <2>2, <3>2
    <3>3. CASE k \notin S
      <4>1. s \in mixed
        BY <3>1, <3>3 DEF S
      <4>2. qbuf[cur][k] = {done + k}
        BY <2>1, <3>1, <4>1 DEF EngineInv, IMixed
      <4>3. k \in 0 .. Blk - 1
        <5>1. s \in 0 .. nchunk - 1
          <6>1. s \in Nat
            BY <4>1 DEF EngineInv, IType
          <6>2. s < nchunk
            BY <2>1, <4>1 DEF EngineInv, IMixed
          <6> QED
            BY <1>1, <6>1, <6>2
        <5>2. Slice(s) \subseteq 0 .. n - 1
          BY <5>1, SliceInBlock
        <5> QED
          BY <1>1, <3>1, <5>2
      <4> QED
        BY <2>2, <3>3, <4>2, <4>3
    <3> QED
      BY <3>2, <3>3
  <2>5. IWriter'
    BY <1>2, <1>6, <2>1, <2>2 DEF EngineInv, IWriter, IType, b
  <2>6. IOut'
    BY <1>2, <2>1 DEF EngineInv, IOut
  <2> QED
    BY <1>4, <2>3, <2>4, <2>5, <2>6 DEF EngineInv
<1> QED
  BY <1>7, <1>8

-----------------------------------------------------------------------------
\* All chunks of a block for a file are done: so is the block.
LEMMA BlockMixed ==
    ASSUME EngineInv, AllMixed, b.target = "file"
    PROVE  \A k \in 0 .. n - 1 : qbuf[cur][k] = {done + k}
<1> SUFFICES ASSUME NEW k \in 0 .. n - 1 PROVE qbuf[cur][k] = {done + k}
  OBVIOUS
<1>1. PICK t \in 0 .. nchunk - 1 : k \in Slice(t)
  BY SlicesCoverBlock DEF AllMixed
<1> QED
  BY <1>1 DEF EngineInv, IMixed, AllMixed

LEMMA MemoryStep == ASSUME EngineInv, BlockInMemory PROVE EngineInv'
<1>1. /\ at \in 1 .. Len(bands) /\ n \in Nat /\ done + n <= b.total /\ b \in Band /\ done \in Nat
      /\ writer.state = "none"
  BY Sizes DEF BlockInMemory, AllMixed, Working, EngineInv, IType, IBand
<1>2. /\ b' = b /\ Blk' = Blk /\ Accepted' = Accepted
      /\ done' = done + n /\ main = "mix" /\ main' = "loop"
  BY DEF BlockInMemory, BlockDone, AllMixed, b, Blk, Accepted
<1>3. IType' /\ IBand'
  BY <1>1, <1>2 DEF BlockInMemory, BlockDone, writing, EngineInv, IType, IBand, Working
<1>4. IBuffers' /\ IMixed' /\ IWriter'
  BY <1>1, <1>2 DEF BlockInMemory, writing, EngineInv, IBuffers, IMixed, IWriter, Working
<1>5. IOut'
  BY <1>2 DEF BlockInMemory, EngineInv, IOut
<1> QED
  BY <1>3, <1>4, <1>5 DEF EngineInv

\* The block before is in the file, the writer gets this one, and the mixer the
\* buffer that is free.
LEMMA HandStep == ASSUME EngineInv, HandToWriter PROVE EngineInv'
<1>1. /\ at \in 1 .. Len(bands) /\ n \in Nat /\ n <= Blk /\ done + n <= b.total /\ b \in Band
      /\ done \in Nat /\ cur \in 0 .. 1
  BY Sizes DEF HandToWriter, AllMixed, Working, EngineInv, IType
<1>2. /\ b' = b /\ Blk' = Blk /\ Accepted' = Accepted /\ b.target = "file"
      /\ done' = done + n /\ cur' = 1 - cur /\ main = "mix" /\ main' = "loop"
      /\ writer' = [state |-> "writing", q |-> cur, n |-> n, pos |-> 0]
  BY DEF HandToWriter, BlockDone, Swap, AllMixed, b, Blk, Accepted
<1>3. Len(out[at]) = done
  BY <1>2 DEF HandToWriter, Joinable, EngineInv, IWriter
<1>4. \A k \in 0 .. n - 1 : qbuf[cur][k] = {done + k}
  BY BlockMixed DEF HandToWriter
<1>5. IType' /\ IBand'
  BY <1>1, <1>2 DEF HandToWriter, BlockDone, EngineInv, IType, IBand, Working
<1>6. IBuffers' /\ IMixed'
  BY <1>2 DEF HandToWriter, EngineInv, IBuffers, IMixed, Working
<1>7. IWriter'
  <2>1. \A k \in 0 .. n - 1 : qbuf[cur][k] = {(done + n) - n + k}
    BY <1>1, <1>4
  <2>2. done + n - n + 0 = done /\ n <= done + n /\ 1 - (1 - cur) = cur
    BY <1>1
  <2>3. qbuf' = qbuf /\ out' = out /\ at' = at
    BY DEF HandToWriter
  <2> QED
    BY <1>1, <1>2, <1>3, <2>1, <2>2, <2>3 DEF IWriter
<1>8. IOut'
  BY <1>2 DEF HandToWriter, EngineInv, IOut
<1> QED
  BY <1>5, <1>6, <1>7, <1>8 DEF EngineInv

LEMMA CloseStep == ASSUME EngineInv, CloseBand PROVE EngineInv'
<1>1. /\ at \in 1 .. Len(bands) /\ main = "close" /\ main' \in {"enter", "returned"}
      /\ writer' = NoWriter
      /\ (main' = "enter" /\ at' = at + 1 /\ rc' = 0) \/ (main' = "returned" /\ at' = at)
  BY Sizes DEF CloseBand, Ends, Working
<1>2. IType'
  <2>1. rc' \in {0, -1, -2}
    BY DEF CloseBand, CloseResult, Ends, EngineInv, IType
  <2> QED
    BY <1>1, <2>1 DEF CloseBand, NoWriter, block, EngineInv, IType
<1>3. IBand' /\ IBuffers' /\ IMixed' /\ IWriter'
  BY <1>1 DEF NoWriter, IBand, IBuffers, IMixed, IWriter, Working
<1>4. IOut'
  <2>1. /\ out' = out /\ bands' = bands /\ at \in Nat
        /\ \A i \in 1 .. Len(bands) : i > at' \/ (i = at' /\ main' \in {"total", "enter"}) => i > at
    BY <1>1 DEF CloseBand
  <2> QED
    BY <2>1 DEF EngineInv, IOut
<1> QED
  BY <1>2, <1>3, <1>4 DEF EngineInv

-----------------------------------------------------------------------------
\* fwrite continues the file with the next sample of the other buffer.
LEMMA WriteStep == ASSUME EngineInv, WriteSample PROVE EngineInv'
<1>1. /\ Working /\ b.target = "file" /\ writer.state = "writing"
      /\ writer.pos \in Nat /\ writer.n \in Nat /\ writer.pos < writer.n
      /\ done \in Nat /\ writer.n <= done /\ writer.q \in 0 .. 1 /\ writer.n <= Blk
  BY DEF WriteSample, EngineInv, IType, IBand, IWriter
<1>2. at \in 1 .. Len(bands) /\ Blk \in Nat
  BY <1>1, Sizes
<1> DEFINE sample == qbuf[writer.q][writer.pos]
           old == out[at]
<1>3. sample = {Len(old)} /\ old \in Seq(SUBSET Nat) /\ Len(old) = done - writer.n + writer.pos
  <2>1. writer.pos \in 0 .. writer.n - 1
    BY <1>1
  <2>2. sample = {done - writer.n + writer.pos}
    BY <1>1, <2>1 DEF EngineInv, IWriter
  <2>3. Len(old) = done - writer.n + writer.pos
    BY <1>1 DEF EngineInv, IWriter
  <2>4. old \in Seq(SUBSET Nat)
    BY <1>1, <1>2 DEF EngineInv, IOut, b
  <2> QED
    BY <2>2, <2>3, <2>4
<1>4. sample \in SUBSET Nat
  BY <1>3
<1>5. /\ out' = [i \in 1 .. Len(bands) |-> out'[i]]
      /\ out'[at] = Append(old, sample)
      /\ \A i \in 1 .. Len(bands) : i # at => out'[i] = out[i]
  BY <1>2 DEF WriteSample, EngineInv, IOut
<1> HIDE DEF sample
<1>6. /\ out'[at] \in Seq(SUBSET Nat) /\ Len(out'[at]) = Len(old) + 1
      /\ \A k \in 1 .. Len(out'[at]) : out'[at][k] = {k - 1}
  <2>1. /\ Append(old, sample) \in Seq(SUBSET Nat)
        /\ Len(Append(old, sample)) = Len(old) + 1
        /\ \A k \in 1 .. Len(old) : Append(old, sample)[k] = old[k]
        /\ Append(old, sample)[Len(old) + 1] = sample
    BY <1>3, <1>4
  <2>2. \A k \in 1 .. Len(old) : old[k] = {k - 1}
    BY <1>1, <1>2 DEF EngineInv, IOut, b
  <2>3. Len(old) \in Nat
    BY <1>3
  <2>4. ASSUME NEW k \in 1 .. Len(old) + 1 PROVE Append(old, sample)[k] = {k - 1}
    BY <1>3, <2>1, <2>2, <2>3
  <2> HIDE DEF old
  <2> QED
    BY <1>5, <2>1, <2>4
<1>7. /\ b' = b /\ Blk' = Blk /\ Accepted' = Accepted /\ at' = at /\ bands' = bands /\ main' = main
      /\ done' = done /\ cur' = cur /\ write_ok' = write_ok /\ mixed' = mixed /\ qbuf' = qbuf
      /\ fbuf' = fbuf /\ \A s : Slice(s)' = Slice(s)
  BY DEF WriteSample, block, b, Blk, Accepted, Slice, chunk, nchunk, n
<1>8. writer' = [writer EXCEPT !.pos = @ + 1]
  BY DEF WriteSample
<1>9. writer' \in [state : {"none", "writing", "ended"}, q : 0 .. 1, n : Nat, pos : Nat]
      /\ writer'.state = "writing" /\ writer'.q = writer.q /\ writer'.n = writer.n
      /\ writer'.pos = writer.pos + 1
  BY <1>1, <1>8 DEF EngineInv, IType
<1>10. IType' /\ IBand'
  BY <1>1, <1>7, <1>9 DEF WriteSample, EngineInv, IType, IBand, Working
<1>11. IBuffers'
  BY <1>7 DEF EngineInv, IBuffers, Working
<1>12. IMixed'
  BY <1>7 DEF EngineInv, IMixed, nchunk, n, b, Blk, Slice, chunk
<1>13. IWriter'
  <2>1. Len(out'[at]) = done - writer.n + (writer.pos + 1)
    BY <1>1, <1>3, <1>6
  <2>2. /\ writer.q = 1 - cur
        /\ \A k \in 0 .. writer.n - 1 : qbuf[writer.q][k] = {done - writer.n + k}
    BY <1>1 DEF EngineInv, IWriter
  <2> HIDE DEF old
  <2> QED
    BY <1>1, <1>7, <1>9, <2>1, <2>2 DEF IWriter
<1>14. IOut'
  <2>1. ASSUME NEW i \in 1 .. Len(bands)
        PROVE  IF bands[i].target = "mem"
               THEN /\ out'[i] \in [0 .. bands[i].total - 1 -> SUBSET Nat]
                    /\ \A k \in 0 .. bands[i].total - 1 : out'[i][k] \subseteq {k}
               ELSE /\ out'[i] \in Seq(SUBSET Nat)
                    /\ \A k \in 1 .. Len(out'[i]) : out'[i][k] = {k - 1}
                    /\ i > at \/ (i = at /\ main \in {"total", "enter"}) => Len(out'[i]) = 0
    <3>1. CASE i = at
      BY <1>1, <1>2, <1>6, <3>1 DEF b, Working
    <3>2. CASE i # at
      BY <1>5, <3>2 DEF EngineInv, IOut
    <3> QED
      BY <3>1, <3>2
  <2> QED
    BY <1>5, <1>7, <2>1 DEF IOut
<1> QED
  BY <1>10, <1>11, <1>12, <1>13, <1>14 DEF EngineInv

\* fwrite returns; what it has not written is missing at the end only.
LEMMA WriteEndsStep == ASSUME EngineInv, WriteEnds PROVE EngineInv'
<1>1. /\ b' = b /\ Blk' = Blk /\ Accepted' = Accepted /\ at' = at /\ bands' = bands /\ main' = main
      /\ done' = done /\ mixed' = mixed /\ out' = out /\ cur' = cur /\ qbuf' = qbuf /\ fbuf' = fbuf
  BY DEF WriteEnds, block, b, Blk, Accepted
<1>2. writer' = [writer EXCEPT !.state = "ended"] /\ write_ok' = (writer.pos = writer.n)
  BY DEF WriteEnds
<1>3. /\ writer' \in [state : {"none", "writing", "ended"}, q : 0 .. 1, n : Nat, pos : Nat]
      /\ writer'.state = "ended" /\ writer'.n = writer.n /\ writer'.pos = writer.pos
  BY <1>2 DEF EngineInv, IType
<1>4. IType'
  <2>1. write_ok' \in BOOLEAN
    BY <1>2, Zenon
  <2> QED
    BY <1>1, <1>3, <2>1 DEF WriteEnds, EngineInv, IType
<1>5. IBand' /\ IBuffers'
  BY <1>1, <1>3 DEF WriteEnds, EngineInv, IBand, IBuffers, Working
<1>6. IMixed'
  BY <1>1 DEF EngineInv, IMixed, nchunk, n, b, Blk, Slice, chunk
<1>7. IWriter'
  <2>1. write_ok' => writer.pos = writer.n
    BY <1>2
  <2> QED
    BY <1>1, <1>3, <2>1 DEF WriteEnds, EngineInv, IType, IWriter
<1>8. IOut'
  BY <1>1 DEF EngineInv, IOut
<1> QED
  BY <1>4, <1>5, <1>6, <1>7, <1>8 DEF EngineInv

-----------------------------------------------------------------------------
LEMMA EngineStep == EngineInv /\ [Next]_vars => EngineInv'
<1> SUFFICES ASSUME EngineInv, [Next]_vars PROVE EngineInv'
  OBVIOUS
<1>1. CASE AllAdded \/ AllBandsDone \/ Refuse \/ BandMixed \/ WriteFailed \/ Returned \/ UNCHANGED vars
  BY <1>1, QuietSteps
<1>2. CASE Enter
  BY <1>2, EnterStep
<1>3. CASE StartBlock
  BY <1>3, StartBlockStep
<1>4. CASE main = "mix" /\ \E t \in 0 .. nchunk - 1 : MixChunk(t)
  BY <1>4, MixStep
<1>5. CASE BlockInMemory
  BY <1>5, MemoryStep
<1>6. CASE HandToWriter
  BY <1>6, HandStep
<1>7. CASE CloseBand
  BY <1>7, CloseStep
<1>8. CASE WriteSample
  BY <1>8, WriteStep
<1>9. CASE WriteEnds
  BY <1>9, WriteEndsStep
<1>10. CASE AddBand
  BY <1>10, AddStep
<1> QED
  BY <1>1, <1>2, <1>3, <1>4, <1>5, <1>6, <1>7, <1>8, <1>9, <1>10 DEF Next, MainStep, WriterStep

-----------------------------------------------------------------------------
(* The totals, as synth_run_bands() adds them up before the first band.      *)

TotalInv ==
    /\ totals \in Seq(Nat)
    /\ Len(totals) \in 1 .. Len(bands) + 1
    /\ totals[1] = 0
    /\ \A k \in 1 .. Len(totals) - 1 : totals[k + 1] = totals[k] + bands[k].total
    /\ IF main = "total" THEN at = 1 ELSE Len(totals) = Len(bands) + 1

LEMMA TotalInit == Init => TotalInv
<1> SUFFICES ASSUME Init PROVE TotalInv
  OBVIOUS
<1>1. bands \in Seq(Band)
  BY EngineInit DEF EngineInv, IType
<1> QED
  BY <1>1 DEF Init, TotalInv

LEMMA TotalStep == EngineInv /\ TotalInv /\ [Next]_vars => TotalInv'
<1> SUFFICES ASSUME EngineInv, TotalInv, [Next]_vars PROVE TotalInv'
  OBVIOUS
<1>1. CASE AddBand
  <2>1. /\ totals \in Seq(Nat) /\ Len(totals) \in 1 .. Len(bands) /\ bands \in Seq(Band)
        /\ Len(bands) \in Nat
    BY <1>1 DEF AddBand, EngineInv, IType, TotalInv
  <2> DEFINE m == Len(totals)
             sum == totals[m] + bands[m].total
  <2>2. sum \in Nat
    <3>1. bands[m] \in Band /\ totals[m] \in Nat
      BY <2>1
    <3> QED
      BY <3>1 DEF Band
  <2>3. totals' = Append(totals, sum) /\ bands' = bands /\ main' = main /\ main = "total"
    BY <1>1 DEF AddBand, grand_total
  <2> HIDE DEF sum
  <2>4. /\ totals' \in Seq(Nat) /\ Len(totals') = m + 1 /\ totals'[m + 1] = sum
        /\ \A k \in 1 .. m : totals'[k] = totals[k]
    BY <2>1, <2>2, <2>3
  <2>5. ASSUME NEW k \in 1 .. m PROVE totals'[k + 1] = totals'[k] + bands[k].total
    <3>1. CASE k = m
      BY <2>1, <2>4, <3>1 DEF sum
    <3>2. CASE k # m
      <4>1. k \in 1 .. Len(totals) - 1 /\ k + 1 \in 1 .. m
        BY <2>1, <3>2
      <4>2. totals[k + 1] = totals[k] + bands[k].total
        BY <4>1 DEF TotalInv
      <4> QED
        BY <2>4, <4>1, <4>2
    <3> QED
      BY <3>1, <3>2
  <2> QED
    BY <1>1, <2>1, <2>3, <2>4, <2>5 DEF AddBand, TotalInv
<1>2. CASE AllAdded
  BY <1>2 DEF AllAdded, TotalInv, EngineInv, IType
<1>3. CASE ~AddBand /\ ~AllAdded
  <2>1. UNCHANGED <<totals, bands>> /\ (main' = "total" => main = "total" /\ at' = at)
    BY <1>3 DEF Next, MainStep, WriterStep, AllBandsDone, Refuse, Enter, StartBlock, MixChunk,
       BlockInMemory, BlockDone, HandToWriter, WriteFailed, BandMixed, CloseBand, Ends,
       WriteSample, WriteEnds, Returned, vars
  <2>2. main # "total" \/ main' = "total"
    BY <1>3 DEF Next, MainStep, WriterStep, AllBandsDone, Refuse, Enter, StartBlock, MixChunk,
       BlockInMemory, BlockDone, HandToWriter, AllMixed, WriteFailed, BandMixed, CloseBand, Ends,
       WriteSample, WriteEnds, Returned, vars, EngineInv, IBand, Working
  <2> QED
    BY <2>1, <2>2 DEF TotalInv
<1> QED
  BY <1>1, <1>2, <1>3

LEMMA Invariant == Spec => [](EngineInv /\ TotalInv)
  BY EngineInit, EngineStep, TotalInit, TotalStep, PTL DEF Spec

LEMMA InvariantImplies == EngineInv /\ TotalInv => SamplesInPlace
<1> SUFFICES ASSUME EngineInv, TotalInv PROVE SamplesInPlace
  OBVIOUS
<1>1. TypeOK
  <2>1. at <= Len(bands) /\ main \in {"loop", "mix", "close"} => done <= b.total
    BY DEF EngineInv, IBand, Working
  <2> QED
    BY <2>1 DEF EngineInv, IType, TotalInv, TypeOK
<1>2. ASSUME NEW i \in DOMAIN out, NEW k \in DOMAIN out[i]
      PROVE  IF bands[i].target = "mem" THEN out[i][k] \subseteq {k} ELSE out[i][k] = {k - 1}
  <2>1. i \in 1 .. Len(bands)
    BY DEF EngineInv, IOut
  <2>2. CASE bands[i].target = "mem"
    BY <2>1, <2>2 DEF EngineInv, IOut
  <2>3. CASE bands[i].target # "mem"
    BY <2>1, <2>3 DEF EngineInv, IOut
  <2> QED
    BY <2>2, <2>3
<1> QED
  BY <1>1, <1>2 DEF SamplesInPlace

\* A file of the engine never has a gap, a repeated or a half-mixed sample, nor
\* has a buffer in memory, for every request, block length and thread count and
\* however the writer thread and the mixing chunks interleave (run_one_band()).
THEOREM EngineKeepsOrder == Spec => []SamplesInPlace
  BY Invariant, InvariantImplies, PTL

-----------------------------------------------------------------------------
(* What a call that succeeds has handed over, and reported.                  *)

Complete(i) ==
    IF bands[i].target = "mem" THEN \A k \in 0 .. bands[i].total - 1 : out[i][k] # {}
    ELSE Len(out[i]) = bands[i].total

\* The bands before this one are complete, and so is this one when it is closed
\* without an error, but for the writer that is still to be joined.
DoneInv ==
    /\ main \notin {"close", "returned"} => rc = 0
    /\ main = "returned" /\ rc = 0 => at > Len(bands)
    /\ \A i \in 1 .. Len(bands) : i < at => Complete(i)
    /\ main = "close" /\ rc = 0 =>
         /\ done = b.total
         /\ b.target = "file" /\ writer.state = "none" => Len(out[at]) = done

\* A band in memory is filled up to `done`, and by the chunks after it.
MemoryInv ==
    /\ Working /\ b.target = "mem" => \A k \in 0 .. done - 1 : out[at][k] # {}
    /\ main = "mix" /\ b.target = "mem" =>
         \A t \in mixed : t < nchunk /\ \A k \in Slice(t) : out[at][done + k] # {}

\* The progress is that of the samples of all bands.
ReportInv ==
    /\ main = "total" => reported = <<0, 0>>
    /\ reported = <<0, 0>> \/ reported[2] = grand_total
    /\ Working => reported[1] = base_done + done
    /\ main = "enter" \/ (main = "returned" /\ rc = 0) => reported[1] = base_done

CompleteInv == EngineInv /\ TotalInv /\ DoneInv /\ MemoryInv /\ ReportInv

LEMMA CompleteInit == Init => DoneInv /\ MemoryInv /\ ReportInv
  BY DEF Init, DoneInv, MemoryInv, ReportInv, Working, grand_total

\* A step writes to the band it works on.
LEMMA OtherBands ==
    ASSUME EngineInv, Next
    PROVE  /\ bands' = bands /\ Len(bands) \in Nat /\ at \in Nat
           /\ \A i \in 1 .. Len(bands) : i # at => out'[i] = out[i]
<1>1. bands' = bands /\ Len(bands) \in Nat /\ at \in Nat
  BY DEF Next, MainStep, WriterStep, AddBand, AllAdded, AllBandsDone, Refuse, Enter, StartBlock,
     MixChunk, BlockInMemory, HandToWriter, WriteFailed, BandMixed, CloseBand,
     WriteSample, WriteEnds, Returned, vars, EngineInv, IType
<1>2. out' = out \/ \E v : out' = [out EXCEPT ![at] = v]
  BY DEF Next, MainStep, WriterStep, AddBand, AllAdded, AllBandsDone, Refuse, Enter, StartBlock,
     MixChunk, BlockInMemory, HandToWriter, WriteFailed, BandMixed, CloseBand,
     WriteSample, WriteEnds, Returned, vars
<1>3. out = [i \in 1 .. Len(bands) |-> out[i]]
  BY DEF EngineInv, IOut
<1> QED
  BY <1>1, <1>2, <1>3

LEMMA DoneStep == EngineInv /\ DoneInv /\ MemoryInv /\ [Next]_vars => DoneInv'
<1> SUFFICES ASSUME EngineInv, DoneInv, MemoryInv, [Next]_vars PROVE DoneInv'
  OBVIOUS
<1>1. CASE UNCHANGED vars
  BY <1>1 DEF vars, block, writing, DoneInv, Complete, b
<1>2. ASSUME Next, UNCHANGED at
      PROVE  \A i \in 1 .. Len(bands) : i < at => Complete(i)'
  BY <1>2, OtherBands DEF DoneInv, Complete
<1>3. CASE CloseBand
  <2>1. /\ main = "close" /\ Joinable /\ out' = out /\ bands' = bands /\ at \in 1 .. Len(bands)
        /\ done \in Nat /\ b.target \in {"file", "mem"} /\ Len(bands) \in Nat
    BY <1>3, Sizes DEF CloseBand, EngineInv, IBand, IType, Working, Accepted
  <2>2. CASE CloseResult = 0
    <3>1. rc = 0 /\ (writer.state = "none" \/ write_ok) /\ done = b.total
      BY <2>1, <2>2 DEF CloseResult, Joinable, DoneInv
    <3>2. b.target = "file" => Len(out[at]) = done
      BY <2>1, <3>1 DEF Joinable, DoneInv, EngineInv, IWriter
    <3>3. b.target = "mem" => \A k \in 0 .. b.total - 1 : out[at][k] # {}
      BY <2>1, <3>1 DEF MemoryInv, Working
    <3>4. Complete(at)
      BY <2>1, <3>1, <3>2, <3>3 DEF Complete, b
    <3>5. at' = at + 1 /\ rc' = 0 /\ main' = "enter"
      BY <1>3, <2>2 DEF CloseBand
    <3>6. \A i \in 1 .. Len(bands) : i < at + 1 => Complete(i)
      BY <2>1, <3>4 DEF DoneInv
    <3>7. \A i \in 1 .. Len(bands) : Complete(i)' <=> Complete(i)
      BY <2>1 DEF Complete
    <3> QED
      BY <2>1, <3>5, <3>6, <3>7 DEF DoneInv
  <2>3. CASE CloseResult # 0
    <3>1. at' = at /\ rc' # 0 /\ main' = "returned"
      BY <1>3, <2>3 DEF CloseBand, Ends
    <3> QED
      BY <1>2, <1>3, <2>1, <3>1 DEF DoneInv, Next, MainStep
  <2> QED
    BY <2>2, <2>3
<1>4. CASE BandMixed
  <2>1. /\ main = "loop" /\ main' = "close" /\ UNCHANGED <<bands, at, rc, done, writer, out>>
        /\ done >= b.total /\ done <= b.total /\ done \in Nat /\ b' = b
    BY <1>4 DEF BandMixed, block, writing, EngineInv, IBand, Working, IType, b
  <2>2. b.total \in Nat
    BY <2>1, Sizes DEF Working, Band
  <2>3. b.target = "file" /\ writer.state = "none" => Len(out[at]) = done
    BY <2>1 DEF EngineInv, IWriter
  <2> QED
    BY <1>2, <1>4, <2>1, <2>2, <2>3 DEF DoneInv, Next, MainStep
<1>5. CASE WriteSample \/ WriteEnds
  <2>1. /\ writer.state = "writing" /\ writer'.state # "none"
        /\ UNCHANGED <<bands, at, main, rc, done>>
    BY <1>5 DEF WriteSample, WriteEnds, block, EngineInv, IType
  <2>2. b' = b
    BY <2>1 DEF b
  <2> QED
    BY <1>2, <1>5, <2>1, <2>2 DEF DoneInv, Next, WriterStep
<1>6. CASE Next /\ ~CloseBand /\ ~BandMixed /\ ~WriteSample /\ ~WriteEnds
  <2>1. /\ UNCHANGED <<bands, at>>
        /\ main' \notin {"close", "returned"} => rc' = 0
        /\ main' = "close" => rc' # 0
        /\ main' = "returned" /\ rc' = 0 => at > Len(bands)
    BY <1>6 DEF Next, MainStep, WriterStep, AddBand, AllAdded, AllBandsDone, Refuse, Ends, Enter,
       StartBlock, MixChunk, BlockInMemory, BlockDone, AllMixed, HandToWriter, WriteFailed, Returned,
       vars, DoneInv
  <2> QED
    BY <1>2, <1>6, <2>1 DEF DoneInv
<1> QED
  BY <1>1, <1>3, <1>4, <1>5, <1>6

\* A chunk fills its own samples in memory and takes none away.
LEMMA MixFills ==
    ASSUME EngineInv, MemoryInv, main = "mix", NEW t \in 0 .. nchunk - 1, MixChunk(t)
    PROVE  MemoryInv'
<1>1. /\ b' = b /\ done' = done /\ at' = at /\ bands' = bands /\ main' = main
      /\ mixed' = mixed \cup {t}
  BY DEF MixChunk, b
<1>2. nchunk' = nchunk /\ \A s : Slice(s)' = Slice(s)
  BY <1>1 DEF Slice, chunk, nchunk, n, b, Blk
<1>3. CASE b.target # "mem"
  BY <1>1, <1>3 DEF MemoryInv
<1>4. CASE b.target = "mem"
  <2> DEFINE S == Slice(t)
  <2>1. /\ n \in Nat /\ n <= Blk /\ Blk \in Nat /\ done \in Nat /\ done + n <= b.total
        /\ b.total \in Nat /\ nchunk \in Nat /\ at \in 1 .. Len(bands) /\ mixed \subseteq Nat
    BY Sizes DEF Working, EngineInv, IType, Band
  <2>2. \A s \in mixed' : s \in 0 .. nchunk - 1
    BY <1>1, <1>4, <2>1 DEF MemoryInv
  <2>3. \A s \in mixed' : Slice(s) \subseteq 0 .. n - 1
    BY <2>2, SliceInBlock
  <2>4. \A k \in S : k \in 0 .. n - 1 /\ fbuf'[k] = {done + k}
    <3>1. fbuf \in [0 .. Blk - 1 -> SUBSET Nat]
      BY DEF EngineInv, IBuffers, Working
    <3>2. \A k \in S : k \in 0 .. n - 1
      BY SliceInBlock
    <3> QED
      BY <2>1, <3>1, <3>2 DEF MixChunk, Mixed
  <2>5. out[at] \in [0 .. b.total - 1 -> SUBSET Nat]
    BY <1>4, <2>1 DEF EngineInv, IOut, b
  <2> HIDE DEF S
  <2>6. out'[at] = [k \in 0 .. b.total - 1 |->
                      IF k - done \in S THEN fbuf'[k - done] ELSE out[at][k]]
    BY <1>4, <2>1, <2>5 DEF MixChunk, EngineInv, IOut, S
  <2>7. \A k \in 0 .. b.total - 1 : out[at][k] # {} \/ k - done \in S => out'[at][k] # {}
    BY <2>4, <2>6
  <2>8. \A k \in 0 .. done - 1 : out'[at][k] # {}
    <3>1. \A k \in 0 .. done - 1 : out[at][k] # {}
      BY <1>4 DEF MemoryInv, Working
    <3>2. \A k \in 0 .. done - 1 : k \in 0 .. b.total - 1
      BY <2>1
    <3> QED
      BY <2>7, <3>1, <3>2
  <2>9. ASSUME NEW s \in mixed', NEW k \in Slice(s)
        PROVE  out'[at][done + k] # {}
    <3>1. k \in 0 .. n - 1
      BY <2>3
    <3>2. done + k \in 0 .. b.total - 1 /\ (done + k) - done = k
      BY <2>1, <3>1
    <3>3. CASE s = t
      BY <2>7, <3>2, <3>3 DEF S
    <3>4. CASE s \in mixed
      BY <1>4, <2>7, <3>2, <3>4 DEF MemoryInv
    <3> QED
      BY <1>1, <3>3, <3>4
  <2>10. \A s \in mixed' : s < nchunk' /\ \A k \in Slice(s)' : out'[at'][done' + k] # {}
    <3>1. \A s \in mixed' : s < nchunk'
      BY <1>2, <2>1, <2>2
    <3>2. \A s \in mixed' : \A k \in Slice(s)' : out'[at'][done' + k] # {}
      BY <1>1, <1>2, <2>9
    <3> QED
      BY <3>1, <3>2
  <2>11. \A k \in 0 .. done' - 1 : out'[at'][k] # {}
    BY <1>1, <2>8
  <2> QED
    BY <2>10, <2>11 DEF MemoryInv
<1> QED
  BY <1>3, <1>4

LEMMA MemoryFills == EngineInv /\ MemoryInv /\ [Next]_vars => MemoryInv'
<1> SUFFICES ASSUME EngineInv, MemoryInv, [Next]_vars PROVE MemoryInv'
  OBVIOUS
<1>1. CASE Enter
  BY <1>1 DEF Enter, MemoryInv
<1>2. CASE StartBlock
  BY <1>2 DEF StartBlock, MemoryInv, Working, b
<1>3. CASE main = "mix" /\ \E t \in 0 .. nchunk - 1 : MixChunk(t)
  BY <1>3, MixFills
<1>4. CASE BlockInMemory
  <2>1. /\ b' = b /\ done' = done + n /\ out' = out /\ at' = at /\ main' = "loop"
        /\ main = "mix" /\ b.target = "mem" /\ mixed = 0 .. nchunk - 1
    BY <1>4 DEF BlockInMemory, BlockDone, AllMixed, b
  <2>2. done \in Nat /\ n \in Nat
    BY <2>1, Sizes DEF Working, EngineInv, IType
  <2>3. ASSUME NEW k \in 0 .. (done + n) - 1 PROVE out[at][k] # {}
    <3>1. CASE k < done
      BY <2>1, <2>2, <3>1 DEF MemoryInv, Working
    <3>2. CASE k >= done
      <4>1. k - done \in 0 .. n - 1 /\ done + (k - done) = k
        BY <2>2, <3>2
      <4>2. PICK t \in 0 .. nchunk - 1 : k - done \in Slice(t)
        BY <2>1, <4>1, SlicesCoverBlock
      <4> QED
        BY <2>1, <4>1, <4>2 DEF MemoryInv
    <3> QED
      BY <2>2, <3>1, <3>2
  <2> QED
    BY <2>1, <2>3 DEF MemoryInv
<1>5. CASE HandToWriter
  <2>1. b' = b /\ b.target = "file"
    BY <1>5 DEF HandToWriter, b
  <2> QED
    BY <2>1 DEF MemoryInv
<1>6. CASE WriteSample
  <2>1. b' = b /\ b.target = "file"
    BY <1>6 DEF WriteSample, EngineInv, IBand, b
  <2> QED
    BY <2>1 DEF MemoryInv
<1>7. CASE BandMixed \/ WriteFailed
  BY <1>7 DEF BandMixed, WriteFailed, AllMixed, block, MemoryInv, Working, b
<1>8. CASE CloseBand
  BY <1>8 DEF CloseBand, Ends, MemoryInv, Working
<1>9. CASE UNCHANGED vars \/ Returned \/ WriteEnds
  BY <1>9 DEF vars, block, Returned, WriteEnds, MemoryInv, Working, b, Slice, chunk, nchunk, n, Blk
<1>10. CASE AddBand \/ AllAdded \/ AllBandsDone \/ Refuse
  BY <1>10 DEF AddBand, AllAdded, AllBandsDone, Refuse, Ends, MemoryInv, Working
<1> QED
  BY <1>1, <1>2, <1>3, <1>4, <1>5, <1>6, <1>7, <1>8, <1>9, <1>10
     DEF Next, MainStep, WriterStep

LEMMA ReportStep ==
    EngineInv /\ TotalInv /\ DoneInv /\ ReportInv /\ [Next]_vars => ReportInv'
<1> SUFFICES ASSUME EngineInv, TotalInv, DoneInv, ReportInv, [Next]_vars PROVE ReportInv'
  OBVIOUS
<1>1. /\ totals \in Seq(Nat) /\ Len(totals) \in 1 .. Len(bands) + 1 /\ Len(bands) \in Nat
      /\ at \in 1 .. Len(bands) + 1 /\ done \in Nat
  BY DEF TotalInv, EngineInv, IType
<1>2. CASE AddBand
  BY <1>2 DEF AddBand, ReportInv, Working
<1>3. CASE AllAdded
  <2>1. at' = at /\ totals' = totals /\ reported' = reported /\ main = "total" /\ main' = "enter"
    BY <1>3 DEF AllAdded
  <2>2. base_done' = 0 /\ reported[1] = 0
    BY <2>1 DEF TotalInv, ReportInv, base_done
  <2> QED
    BY <2>1, <2>2 DEF ReportInv, Working
<1>4. CASE BlockInMemory \/ HandToWriter
  <2>1. /\ main = "mix" /\ main' = "loop" /\ totals' = totals /\ at' = at
        /\ done' = done + n /\ reported' = <<base_done + done + n, grand_total>>
    BY <1>4 DEF BlockInMemory, HandToWriter, AllMixed, BlockDone, Progress
  <2>2. base_done \in Nat /\ n \in Nat
    BY <1>1, <2>1, Sizes DEF TotalInv, base_done, Working
  <2>3. base_done' = base_done /\ grand_total' = grand_total
    BY <2>1 DEF base_done, grand_total
  <2>4. reported'[1] = base_done + (done + n) /\ reported'[2] = grand_total
    BY <1>1, <2>1, <2>2
  <2> QED
    BY <2>1, <2>3, <2>4 DEF ReportInv, Working
<1>5. CASE CloseBand
  <2>1. /\ main = "close" /\ totals' = totals /\ reported' = reported /\ at \in 1 .. Len(bands)
        /\ reported[1] = base_done + done
    BY <1>5, Sizes DEF CloseBand, Working, ReportInv
  <2>2. CASE CloseResult = 0
    <3>1. rc = 0 /\ done = b.total
      BY <2>1, <2>2 DEF CloseResult, DoneInv
    <3>2. totals[at + 1] = totals[at] + bands[at].total
      BY <1>1, <2>1 DEF TotalInv
    <3>3. at' = at + 1 /\ main' = "enter"
      BY <1>5, <2>2 DEF CloseBand
    <3>4. base_done' = base_done + done
      BY <2>1, <3>1, <3>2, <3>3 DEF base_done, b
    <3> QED
      BY <2>1, <3>3, <3>4 DEF ReportInv, grand_total, Working
  <2>3. CASE CloseResult # 0
    BY <1>5, <2>1, <2>3 DEF CloseBand, Ends, ReportInv, grand_total, Working
  <2> QED
    BY <2>2, <2>3
<1>6. CASE Enter
  <2>1. /\ main = "enter" /\ main' = "loop" /\ done' = 0 /\ UNCHANGED <<totals, at, reported>>
        /\ base_done \in Nat
    BY <1>1, <1>6 DEF Enter, TotalInv, base_done
  <2> QED
    BY <2>1 DEF ReportInv, base_done, grand_total, Working
<1>7. CASE AllBandsDone \/ Refuse
  <2>1. /\ main = "enter" /\ main' = "returned" /\ UNCHANGED <<totals, at, reported>>
    BY <1>7 DEF AllBandsDone, Refuse, Ends
  <2> QED
    BY <2>1 DEF ReportInv, base_done, grand_total, Working
<1>8. CASE StartBlock \/ BandMixed \/ WriteFailed
  <2>1. Working /\ Working' /\ UNCHANGED <<totals, at, done, reported>> /\ main' \in {"mix", "close"}
    BY <1>8 DEF StartBlock, BandMixed, WriteFailed, AllMixed, block, Working
  <2> QED
    BY <2>1 DEF ReportInv, base_done, grand_total, Working
<1>9. CASE UNCHANGED <<main, rc, totals, at, done, reported>>
  BY <1>9 DEF ReportInv, base_done, grand_total, Working
<1> QED
  BY <1>2, <1>3, <1>4, <1>5, <1>6, <1>7, <1>8, <1>9
     DEF Next, MainStep, WriterStep, MixChunk, WriteSample, WriteEnds, Returned, vars, block, writing

\* A call that returns 0 has handed over every sample of every band and its
\* progress has reached 1, for every request, block length and thread count and
\* however the writer and the mixing interleave (synth_run_bands()).
THEOREM SuccessIsCompleteHolds == Spec => []SuccessIsComplete
<1>1. CompleteInv => SuccessIsComplete
  <2> SUFFICES ASSUME CompleteInv, main = "returned", rc = 0
               PROVE  /\ \A i \in DOMAIN out : /\ Cardinality(DOMAIN out[i]) = bands[i].total
                                               /\ \A k \in DOMAIN out[i] : out[i][k] # {}
                      /\ reported[1] = reported[2]
    BY DEF SuccessIsComplete
  <2>1. at = Len(bands) + 1 /\ bands \in Seq(Band)
    BY DEF CompleteInv, DoneInv, EngineInv, IType
  <2>2. \A m \in Nat : Cardinality(1 .. m) = m /\ Cardinality(0 .. m - 1) = m
    BY FS_Interval
  <2>3. ASSUME NEW i \in DOMAIN out
        PROVE  /\ Cardinality(DOMAIN out[i]) = bands[i].total
               /\ \A k \in DOMAIN out[i] : out[i][k] # {}
    <3>1. i \in 1 .. Len(bands) /\ bands[i] \in Band
      BY <2>1 DEF CompleteInv, EngineInv, IOut
    <3>2. bands[i].total \in Nat /\ Complete(i)
      BY <2>1, <3>1 DEF CompleteInv, DoneInv, Band
    <3>3. CASE bands[i].target = "mem"
      <4>1. DOMAIN out[i] = 0 .. bands[i].total - 1
        BY <3>1, <3>3 DEF CompleteInv, EngineInv, IOut
      <4> QED
        BY <2>2, <3>2, <3>3, <4>1 DEF Complete
    <3>4. CASE bands[i].target # "mem"
      <4>1. out[i] \in Seq(SUBSET Nat) /\ \A k \in 1 .. Len(out[i]) : out[i][k] = {k - 1}
        BY <3>1, <3>4 DEF CompleteInv, EngineInv, IOut
      <4>2. DOMAIN out[i] = 1 .. bands[i].total
        BY <3>2, <3>4, <4>1 DEF Complete
      <4> QED
        BY <2>2, <3>2, <3>4, <4>1, <4>2 DEF Complete
    <3> QED
      BY <3>3, <3>4
  <2>4. reported[1] = reported[2]
    <3>1. base_done = grand_total
      BY <2>1 DEF CompleteInv, TotalInv, base_done, grand_total
    <3> QED
      BY <3>1 DEF CompleteInv, ReportInv
  <2> QED
    BY <2>3, <2>4
<1>2. Init => CompleteInv
  BY EngineInit, TotalInit, CompleteInit DEF CompleteInv
<1>3. CompleteInv /\ [Next]_vars => CompleteInv'
  BY EngineStep, TotalStep, DoneStep, MemoryFills, ReportStep DEF CompleteInv
<1> QED
  BY <1>1, <1>2, <1>3, PTL DEF Spec
=============================================================================
