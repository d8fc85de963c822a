--------------------------- MODULE RecursiveLock ---------------------------
(***************************************************************************)
(* What a mutex promises: at most one thread holds it, and it is free      *)
(* again when that thread has let go of it as often as it has got it.      *)
(***************************************************************************)
EXTENDS Naturals

CONSTANTS Threads, Nobody

VARIABLES holder, depth

Init == holder = Nobody /\ depth = 0

Acquire(t) == holder = Nobody /\ holder' = t /\ depth' = 1

Reacquire(t) == holder = t /\ holder' = t /\ depth' = depth + 1

Release(t) ==
  /\ holder = t
  /\ depth' = depth - 1
  /\ holder' = IF depth = 1 THEN Nobody ELSE t

Next == \E t \in Threads : Acquire(t) \/ Reacquire(t) \/ Release(t)

Spec == Init /\ [][Next]_<<holder, depth>>
=============================================================================
