----------------------------- MODULE SynthEngine -----------------------------
(***************************************************************************)
(* synth_run_bands(): the bands of a request, one after the other, each in *)
(* blocks that the pool mixes in chunks while a writer thread drains the   *)
(* block before (backend/synth/native/engine.cpp).                         *)
(*                                                                         *)
(* The value of a sample is the set of absolute sample numbers that were   *)
(* accumulated into it: {k} for a correct sample k, {} for the zero of a   *)
(* new vector. The pool is used through what it promises (ParallelFor,     *)
(* which WorkerPool implements): the chunks of a block are executed once   *)
(* each, in any order, and run() returns when all are done.                *)
(***************************************************************************)
EXTENDS Integers, Sequences, FiniteSets

CONSTANTS
    Entries,       \* the functions called: "synth_run", "synth_run_bands"
    Requests,      \* the sequences of bands a caller may ask for
    MinParallel,   \* blocks below this length are one chunk (4096)
    DefaultBlock,  \* block length for block_samples <= 0 (65536)
    Faults         \* what may fail: "open", "write"

\* BandSpec: where the samples go, whether its channels are given, and sizes;
\* pool is the number of threads including the caller.
Band == [target : {"file", "mem", "both", "neither"}, specs : BOOLEAN,
         total : Nat, block : Int, pool : Nat \ {0}]

ASSUME EngineAssumption ==
    /\ Entries \subseteq {"synth_run", "synth_run_bands"}
    /\ Requests \subseteq Seq(Band)
    /\ MinParallel \in Nat
    /\ DefaultBlock \in Nat \ {0}
    /\ Faults \subseteq {"open", "write"}

VARIABLES
    asked,       \* the request, as the caller gave it
    bands,       \* and as run_one_band() sees it
    totals,      \* total_samples of the first k bands, summed up so far
    at,          \* the band run_one_band() works on
    main,        \* where the calling thread is
    rc,          \* its result so far
    done, cur,   \* run_one_band's locals
    mixed,       \* chunks of the block that are done
    fbuf, qbuf,  \* the float buffer and the two output buffers
    writer,      \* the writer thread: its state, buffer, length and position
    write_ok,
    out,         \* per band: what out_path or out_mem has received
    reported     \* the latest progress: its numerator and denominator

block == <<done, cur, mixed, fbuf, qbuf>>
writing == <<writer, write_ok>>
vars == <<asked, bands, totals, at, main, rc, block, writing, out, reported>>

\* What the two loops of synth_run_bands() have added up: the sum of all bands,
\* and that of the bands before this one.
grand_total == totals[Len(totals)]
base_done == totals[at]

Least(a, b) == IF a < b THEN a ELSE b

-----------------------------------------------------------------------------
b == bands[at]

\* Mutant: a block length of 0 is taken as given.
BlkAsGiven == b.block

Blk == IF b.block > 0 THEN b.block ELSE DefaultBlock
n == Least(Blk, b.total - done)

\* Both targets or none, or channels without specs: refused.
Accepted == b.target \in {"file", "mem"} /\ b.specs

NoWriter == [state |-> "none", q |-> 0, n |-> 0, pos |-> 0]

Fresh(len) == [k \in 0 .. len - 1 |-> {}]

\* What `BandSpec b;` of synth_run leaves in out_mem, which it never assigns:
\* NULL, or anything else.
Uninitialised == {[asked[1] EXCEPT !.target = IF @ = "file" THEN t ELSE @] : t \in {"file", "both"}}

Init ==
    /\ asked \in Requests
    /\ \/ "synth_run_bands" \in Entries /\ bands = asked
       \/ "synth_run" \in Entries /\ Len(asked) = 1 /\ \E s \in Uninitialised : bands = <<s>>
    /\ totals = <<0>>
    /\ at = 1
    /\ main = "total"
    /\ rc = 0
    /\ done = 0 /\ cur = 0
    /\ mixed = {}
    /\ fbuf = Fresh(0)
    /\ qbuf = [i \in 0 .. 1 |-> Fresh(0)]
    /\ writer = NoWriter /\ write_ok = TRUE
    /\ out = [i \in DOMAIN bands |-> IF bands[i].target = "mem" THEN Fresh(bands[i].total)
                                     ELSE <<>>]
    /\ reported = <<0, 0>>

AddBand ==
    /\ main = "total"
    /\ Len(totals) <= Len(bands)
    /\ totals' = Append(totals, grand_total + bands[Len(totals)].total)
    /\ UNCHANGED <<asked, bands, at, main, rc, block, writing, out, reported>>

AllAdded ==
    /\ main = "total"
    /\ Len(totals) > Len(bands)
    /\ main' = "enter"
    /\ UNCHANGED <<asked, bands, totals, at, rc, block, writing, out, reported>>

Ends(result) == rc' = result /\ main' = "returned"

AllBandsDone ==
    /\ main = "enter"
    /\ at > Len(bands)
    /\ Ends(0)
    /\ UNCHANGED <<asked, bands, totals, at, block, writing, out, reported>>

Refuse ==
    /\ main = "enter"
    /\ at <= Len(bands)
    /\ \/ ~Accepted
       \/ b.target = "file" /\ "open" \in Faults
    /\ Ends(-1)
    /\ UNCHANGED <<asked, bands, totals, at, block, writing, out, reported>>

Enter ==
    /\ main = "enter"
    /\ at <= Len(bands)
    /\ Accepted
    /\ main' = "loop"
    /\ done' = 0 /\ cur' = 0 /\ mixed' = {}
    /\ fbuf' = Fresh(Blk)
    /\ qbuf' = [i \in 0 .. 1 |-> Fresh(Blk)]
    /\ write_ok' = TRUE
    /\ UNCHANGED <<asked, bands, totals, at, rc, writer, out, reported>>

-----------------------------------------------------------------------------
StartBlock ==
    /\ main = "loop"
    /\ done < b.total
    /\ mixed' = {}
    /\ main' = "mix"
    /\ UNCHANGED <<asked, bands, totals, at, rc, done, cur, fbuf, qbuf, writing, out, reported>>

nchunk == IF n < MinParallel THEN 1 ELSE b.pool

\* Mutant: the chunk is rounded down and the end of the block is left out.
ChunkFloor == n \div nchunk

chunk == (n + nchunk - 1) \div nchunk

\* The offsets of chunk t; none when lo >= hi.
Slice(t) == t * chunk .. Least(n, t * chunk + chunk) - 1

\* std::fill, then mix_block from absolute sample done + lo.
Mixed(t) == [k \in DOMAIN fbuf |-> IF k \in Slice(t) THEN {done + k} ELSE fbuf[k]]

\* quantize_block writes the slice to out_mem at done + lo, or to qbuf[cur].
MixChunk(t) ==
    /\ main = "mix"
    /\ t \notin mixed
    /\ mixed' = mixed \cup {t}
    /\ fbuf' = Mixed(t)
    /\ IF b.target = "mem"
       THEN /\ out' = [out EXCEPT ![at] =
                        [k \in DOMAIN @ |-> IF k - done \in Slice(t) THEN fbuf'[k - done] ELSE @[k]]]
            /\ UNCHANGED qbuf
       ELSE /\ qbuf' = [qbuf EXCEPT ![cur] =
                        [k \in DOMAIN @ |-> IF k \in Slice(t) THEN fbuf'[k] ELSE @[k]]]
            /\ UNCHANGED out
    /\ UNCHANGED <<asked, bands, totals, at, main, rc, done, cur, writing, reported>>

Progress == base_done + done + n

\* done += n; progress((base_done + done) / grand_total) after every block.
BlockDone ==
    /\ done' = done + n
    /\ reported' = <<Progress, grand_total>>
    /\ main' = "loop"
    /\ UNCHANGED mixed

AllMixed == main = "mix" /\ mixed = 0 .. nchunk - 1

BlockInMemory ==
    /\ AllMixed
    /\ b.target = "mem"
    /\ BlockDone
    /\ UNCHANGED <<asked, bands, totals, at, rc, cur, fbuf, qbuf, writing, out>>

Joinable == writer.state \in {"none", "ended"}

\* Mutant: the next block is mixed into the same buffer.
SameBuffer == cur' = cur

Swap == cur' = 1 - cur

\* The writer of the block before is joined, and the next one started.
HandToWriter ==
    /\ AllMixed
    /\ b.target = "file"
    /\ Joinable
    /\ writer.state = "none" \/ write_ok
    /\ writer' = [state |-> "writing", q |-> cur, n |-> n, pos |-> 0]
    /\ Swap
    /\ BlockDone
    /\ UNCHANGED <<asked, bands, totals, at, rc, fbuf, qbuf, write_ok, out>>

WriteFailed ==
    /\ AllMixed
    /\ b.target = "file"
    /\ writer.state = "ended" /\ ~write_ok
    /\ rc' = -2
    /\ writer' = NoWriter
    /\ main' = "close"
    /\ UNCHANGED <<asked, bands, totals, at, block, write_ok, out, reported>>

BandMixed ==
    /\ main = "loop"
    /\ done >= b.total
    /\ main' = "close"
    /\ UNCHANGED <<asked, bands, totals, at, rc, block, writing, out, reported>>

CloseResult == IF writer.state = "ended" /\ ~write_ok /\ rc = 0 THEN -2 ELSE rc

\* The last writer is joined and the file closed. What fclose returns, which
\* writes what is still buffered, is not looked at: rc does not depend on it.
CloseBand ==
    /\ main = "close"
    /\ Joinable
    /\ writer' = NoWriter
    /\ IF CloseResult = 0 THEN main' = "enter" /\ at' = at + 1 /\ rc' = 0
       ELSE Ends(CloseResult) /\ UNCHANGED at
    /\ UNCHANGED <<asked, bands, totals, block, write_ok, out, reported>>

-----------------------------------------------------------------------------
\* std::fwrite of the writer thread: sample by sample, it may stop short.
WriteSample ==
    /\ writer.state = "writing"
    /\ writer.pos < writer.n
    /\ out' = [out EXCEPT ![at] = Append(@, qbuf[writer.q][writer.pos])]
    /\ writer' = [writer EXCEPT !.pos = @ + 1]
    /\ UNCHANGED <<asked, bands, totals, at, main, rc, block, write_ok, reported>>

WriteEnds ==
    /\ writer.state = "writing"
    /\ \/ writer.pos = writer.n
       \/ "write" \in Faults
    /\ write_ok' = (writer.pos = writer.n)
    /\ writer' = [writer EXCEPT !.state = "ended"]
    /\ UNCHANGED <<asked, bands, totals, at, main, rc, block, out, reported>>

-----------------------------------------------------------------------------
MainStep ==
    \/ AddBand \/ AllAdded \/ AllBandsDone \/ Refuse \/ Enter \/ StartBlock
    \/ main = "mix" /\ \E t \in 0 .. nchunk - 1 : MixChunk(t)
    \/ BlockInMemory \/ HandToWriter \/ WriteFailed \/ BandMixed \/ CloseBand

WriterStep == WriteSample \/ WriteEnds

Returned == main = "returned" /\ UNCHANGED vars

Next == MainStep \/ WriterStep \/ Returned

Spec == Init /\ [][Next]_vars

\* Both threads are scheduled and a write returns.
FairSpec == Spec /\ WF_vars(MainStep) /\ WF_vars(WriterStep)

-----------------------------------------------------------------------------
TypeOK ==
    /\ {asked, bands} \subseteq Seq(Band)
    /\ at \in 1 .. Len(bands) + 1
    /\ totals \in Seq(Nat)
    /\ main \in {"total", "enter", "loop", "mix", "close", "returned"}
    /\ rc \in {0, -1, -2}
    /\ done \in Nat /\ cur \in 0 .. 1
    /\ mixed \subseteq Nat
    /\ writer.state \in {"none", "writing", "ended"} /\ writer.pos <= writer.n
    /\ write_ok \in BOOLEAN
    /\ at <= Len(bands) /\ main \in {"loop", "mix", "close"} => done <= b.total

\* A file never has a gap, a repeated or a half-mixed sample, also when a write
\* stops short and while the next block is mixed; nor has a buffer in memory.
SamplesInPlace ==
    TypeOK /\ \A i \in DOMAIN out : \A k \in DOMAIN out[i] :
        IF bands[i].target = "mem" THEN out[i][k] \subseteq {k} ELSE out[i][k] = {k - 1}

\* A call that returns 0 has handed over every sample of every band, for each
\* number of threads and length of the blocks, and its progress has reached 1.
SuccessIsComplete ==
    main = "returned" /\ rc = 0 =>
        /\ \A i \in DOMAIN out : /\ Cardinality(DOMAIN out[i]) = bands[i].total
                                 /\ \A k \in DOMAIN out[i] : out[i][k] # {}
        /\ reported[1] = reported[2]

\* A call returns, whatever block length it asks for and whatever write fails.
CallReturns == <>(main = "returned")
=============================================================================
