----------------------------- MODULE SharedCard -----------------------------
(***************************************************************************)
(* What dual_tx.acquire() and _release() promise their callers: one device *)
(* that is opened with the tuning of the first user, that only users with  *)
(* the same tuning join (TX1 and TX2 physically cannot disagree), and that *)
(* is closed after its last user has left, never under one.                *)
(***************************************************************************)
CONSTANTS Stream, TuneOf, None

VARIABLES
    users,       \* the streams that hold the device
    tuning       \* the tuning it is open with, or None when it is closed

vars == <<users, tuning>>

Init == users = {} /\ tuning = None

Open(w) ==
    /\ tuning = None
    /\ tuning' = TuneOf[w]
    /\ UNCHANGED users

Join(w) ==
    /\ w \notin users
    /\ tuning = TuneOf[w]
    /\ users' = users \cup {w}
    /\ UNCHANGED tuning

Leave(w) ==
    /\ w \in users
    /\ users' = users \ {w}
    /\ UNCHANGED tuning

Close ==
    /\ tuning # None
    /\ users = {}
    /\ tuning' = None
    /\ UNCHANGED users

Next == Close \/ \E w \in Stream : Open(w) \/ Join(w) \/ Leave(w)

Spec == Init /\ [][Next]_vars
=============================================================================
