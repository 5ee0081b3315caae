----------------------------- MODULE GridProcess -----------------------------
(***************************************************************************)
(* gs::GridProcess of the fading model: a correlated process on a grid,    *)
(* drawn from a stream of ChaCha20 blocks of which a window is kept        *)
(* (backend/synth/native/fading.cpp).                                      *)
(*                                                                         *)
(* The q-th normal of the stream is <<its block, its place in the block>>, *)
(* and a grid value is the sequence of the normals it was summed from. The *)
(* vector buf_ of 8 numbers per block is the sequence of its blocks.       *)
(***************************************************************************)
EXTENDS Integers, Sequences

CONSTANTS
    PerBlock,      \* normals of a block (8)
    Taps,          \* kArTaps (192)
    Keep, Drop,    \* blocks the window may hold, and drops when full (4096, 2048)
    Cells,         \* the grid points at() may be asked for
    Never          \* INT64_MIN

ASSUME GridAssumption ==
    /\ PerBlock \in Nat \ {0} /\ Taps \in Nat \ {0}
    /\ Keep \in Nat \ {0} /\ Drop \in Nat \ {0} /\ Drop <= Keep
    /\ Cells \subseteq Int
    /\ Never \in Int /\ \A c \in Cells : Never + 1 < c

VARIABLES
    b0_, buf_,                    \* first block of the window, and its blocks
    last_m_, last_v0_, last_v1_,  \* the grid interval of the last call
    at,                           \* "idle", or the value that is summed
    m, i, x                       \* locals of at() and value()

window == <<b0_, buf_>>
last == <<last_m_, last_v0_, last_v1_>>
vars == <<window, last, at, m, i, x>>

Init ==
    /\ b0_ = 0 /\ buf_ = <<>>
    /\ last_m_ = Never /\ last_v0_ = <<>> /\ last_v1_ = <<>>
    /\ at = "idle"
    /\ m = Never /\ i = 0 /\ x = <<>>

\* Mutant: one innovation too many.
SumLonger(which, c) == at' = which /\ i' = c - Taps /\ x' = <<>>

\* value(c) begins with the innovation Taps - 1 steps back.
Sum(which, c) == at' = which /\ i' = c - (Taps - 1) /\ x' = <<>>

\* Mutant: the old right end is kept when the next interval is not adjacent.
Follows(c) == c >= last_m_ + 1

Adjacent(c) == c = last_m_ + 1

\* at(u) with floor(u / dt_) = c: the same interval, the next, or any other.
Ask(c) ==
    /\ at = "idle"
    /\ c # last_m_
    /\ m' = c
    /\ IF Adjacent(c) THEN last_v0_' = last_v1_ /\ Sum("v1", c + 1)
       ELSE UNCHANGED last_v0_ /\ Sum("v0", c)
    /\ UNCHANGED <<window, last_m_, last_v1_>>

-----------------------------------------------------------------------------
\* floor_div(q, 8), also for q < 0.
BlockOf(q) == q \div PerBlock

Outside(b) == b < b0_ \/ b > b0_ + Len(buf_)

\* The full window has to take one more block.
Overflows(b) == ~Outside(b) /\ b = b0_ + Len(buf_) /\ Len(buf_) >= Keep

\* Mutant: the oldest blocks are dropped, but the window's start stays.
BaseStays(b) == IF Outside(b) THEN b ELSE b0_

NewBase(b) == IF Outside(b) THEN b ELSE IF Overflows(b) THEN b0_ + Drop ELSE b0_

Kept(b) == IF Outside(b) THEN <<>>
           ELSE IF Overflows(b) THEN SubSeq(buf_, Drop + 1, Len(buf_)) ELSE buf_

\* Blocks are drawn behind the window until it reaches b.
Reach(b) ==
    LET n == Len(Kept(b))
        size == IF b - NewBase(b) + 1 > n THEN b - NewBase(b) + 1 ELSE n
    IN  [j \in 1 .. size |-> IF j <= n THEN Kept(b)[j] ELSE NewBase(b) + (j - 1)]

\* normal(i), one innovation of the value that is summed.
Normal(end) ==
    /\ i <= end
    /\ b0_' = NewBase(BlockOf(i))
    /\ buf_' = Reach(BlockOf(i))
    /\ x' = Append(x, <<buf_'[BlockOf(i) - b0_' + 1], i % PerBlock>>)
    /\ i' = i + 1
    /\ UNCHANGED <<last, at, m>>

Normal0 == at = "v0" /\ Normal(m)
Normal1 == at = "v1" /\ Normal(m + 1)

LeftEnd ==
    /\ at = "v0"
    /\ i > m
    /\ last_v0_' = x
    /\ Sum("v1", m + 1)
    /\ UNCHANGED <<window, last_m_, last_v1_, m>>

\* last_v1_ and last_m_ are set: the call returns last_v0_ + f * (v1 - v0).
RightEnd ==
    /\ at = "v1"
    /\ i > m + 1
    /\ last_v1_' = x
    /\ last_m_' = m
    /\ at' = "idle"
    /\ UNCHANGED <<window, last_v0_, m, i, x>>

Walks == Normal0 \/ Normal1 \/ LeftEnd \/ RightEnd

Next == Walks \/ \E c \in Cells : Ask(c)

Spec == Init /\ [][Next]_vars

-----------------------------------------------------------------------------
Stream(q) == <<BlockOf(q), q % PerBlock>>

\* The value of grid point c by definition.
ValueAt(c) == [j \in 1 .. Taps |-> Stream(c - Taps + j)]

TypeOK ==
    /\ b0_ \in Int /\ buf_ \in Seq(Int)
    /\ last_m_ \in Cells \cup {Never}
    /\ last_v0_ \in Seq(Int \X Int) /\ last_v1_ \in Seq(Int \X Int) /\ x \in Seq(Int \X Int)
    /\ at \in {"idle", "v0", "v1"}
    /\ m \in Cells \cup {Never}
    /\ i \in Int
    /\ at # "idle" => LET end == IF at = "v0" THEN m ELSE m + 1
                      IN  i <= end + 1 /\ Len(x) = i - (end - Taps + 1)

\* fading.hpp: "any other access order still returns the same values": what a
\* call returns depends on its grid point alone, not on the calls before it.
ValuesArePure ==
    at = "idle" /\ last_m_ # Never =>
        last_v0_ = ValueAt(last_m_) /\ last_v1_ = ValueAt(last_m_ + 1)

\* The window holds consecutive blocks of the stream, and is bounded.
WindowIsStream ==
    /\ \A j \in 1 .. Len(buf_) : buf_[j] = b0_ + (j - 1)
    /\ Len(buf_) <= Keep
=============================================================================
