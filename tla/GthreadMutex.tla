---------------------------- MODULE GthreadMutex ----------------------------
(***************************************************************************)
(* The mutexes of gthr-default.h on Win32: a counter changed by Interlocked*)
(* operations, a semaphore for those who must wait, and for the recursive  *)
(* kind an owner and a depth.  The mutex is made by __gthread_once, as     *)
(* libgcc's users do (__GTHREAD_MUTEX_INIT_FUNCTION).                      *)
(*                                                                         *)
(* A step is one access to what threads share: an Interlocked operation, a *)
(* call of the system, or reads and writes of fields nobody else changes   *)
(* at that time.  Bounds: MaxDepth; MaxLost, on the failed waits; and what  *)
(* Followed says, on a recursive mutex that let in two threads.            *)
(***************************************************************************)
EXTENDS Integers, FiniteSets

CONSTANTS
  Threads,
  Nobody,        \* owner 0
  Kinds,         \* "plain", "recursive"
  Faults,        \* "waitFails": WAIT_FAILED; "throws": the once function does
  MaxDepth,      \* bound on how often a thread locks a recursive mutex
  MaxLost        \* bound: no wait fails any more when so many units are lost

ASSUME ThreadsAssumption ==
  /\ IsFiniteSet(Threads) /\ Nobody \notin Threads
  /\ Kinds \subseteq {"plain", "recursive"}
  /\ MaxDepth \in Nat /\ MaxLost \in Nat

VARIABLES
  kind,                        \* chosen at the start
  done, started,               \* __gthread_once_t
  counter, sema, depth, owner, \* the mutex; sema is the semaphore's count
  at,                          \* where each thread is
  lost                         \* history: units that nobody was left to take

once == <<done, started>>
mutex == <<counter, sema, depth, owner>>
vars == <<kind, once, mutex, at, lost>>

(***************************************************************************)
(* Where a thread can be.  In __gthread_once: "func" runs the function,    *)
(* "spin" waits for it.  Between calls: "out" without the mutex, "in" with *)
(* it.  In lock: "test" and "retest" (of a thread that has it) before the  *)
(* test of owner, "back" before the counter is taken back, "wait", "fail"  *)
(* after WAIT_FAILED, "enter" before depth and owner are set.  In unlock:  *)
(* "leave" before the decrement, "release" before ReleaseSemaphore.        *)
(***************************************************************************)
Once == {"begin", "func", "spin", "gone"}
Holding == {"enter", "in", "retest", "back"}
Waiting == {"test", "wait", "fail"}
Places == Once \cup Holding \cup Waiting \cup {"out", "leave", "release"}

TypeOK ==
  /\ kind \in Kinds
  /\ done \in BOOLEAN /\ started \in Int
  /\ counter \in Int /\ sema \in Nat
  /\ depth \in Nat /\ owner \in Threads \cup {Nobody}
  /\ at \in [Threads -> Places]
  /\ lost \in Nat

\* The memory of the mutex holds anything before it is made; nobody may look.
Init ==
  /\ kind \in Kinds
  /\ done = FALSE /\ started = -1
  /\ counter \in {-1, 0} /\ sema = 0
  /\ depth \in {0, 1} /\ owner \in Threads \cup {Nobody}
  /\ at = [t \in Threads |-> "begin"]
  /\ lost = 0

Goes(t, p) == at' = [at EXCEPT ![t] = p]

-----------------------------------------------------------------------------
\* A wrong variant: who finds it started does not wait until it is done.
OnceStart_passes(t) ==
  /\ at[t] = "begin" /\ ~done
  /\ started' = started + 1
  /\ Goes(t, IF started + 1 = 0 THEN "func" ELSE "out")
  /\ UNCHANGED <<kind, done, mutex, lost>>

\* __gthread_once: not done, started is incremented
OnceStart(t) ==
  /\ at[t] = "begin" /\ ~done
  /\ started' = started + 1
  /\ Goes(t, IF started + 1 = 0 THEN "func" ELSE "spin")
  /\ UNCHANGED <<kind, done, mutex, lost>>

\* It is done, at the first look or while spinning.
OnceDone(t) ==
  /\ at[t] \in {"begin", "spin"} /\ done
  /\ Goes(t, "out")
  /\ UNCHANGED <<kind, once, mutex, lost>>

\* The function makes the mutex: __gthread_mutex_init_function or
\* __gthread_recursive_mutex_init_function.
OnceFunc(t) ==
  /\ at[t] = "func"
  /\ counter' = -1 /\ sema' = 0
  /\ IF kind = "recursive" THEN depth' = 0 /\ owner' = Nobody
     ELSE UNCHANGED <<depth, owner>>
  /\ done' = TRUE
  /\ Goes(t, "out")
  /\ UNCHANGED <<kind, started, lost>>

\* The function ends by an exception: done stays as it is.
OnceThrows(t) ==
  /\ "throws" \in Faults /\ at[t] = "func"
  /\ Goes(t, "gone")
  /\ UNCHANGED <<kind, once, mutex, lost>>

-----------------------------------------------------------------------------
\* Where a thread is that has got the mutex
Got == IF kind = "recursive" THEN "enter" ELSE "in"

\* lock: the counter is incremented.  A thread locks a plain mutex only when
\* it does not have it.
Lock(t) ==
  /\ at[t] = "out"
  /\ counter' = counter + 1
  /\ Goes(t, IF counter + 1 = 0 THEN Got
             ELSE IF kind = "recursive" THEN "test" ELSE "wait")
  /\ UNCHANGED <<kind, once, sema, depth, owner, lost>>

Relock(t) ==
  /\ at[t] = "in" /\ kind = "recursive" /\ depth < MaxDepth
  /\ counter' = counter + 1
  /\ Goes(t, IF counter + 1 = 0 THEN Got ELSE "retest")
  /\ UNCHANGED <<kind, once, sema, depth, owner, lost>>

\* recursive lock: is it mine?
TestOwner(t) ==
  /\ at[t] \in {"test", "retest"}
  /\ Goes(t, IF owner = t THEN "back" ELSE "wait")
  /\ UNCHANGED <<kind, once, mutex, lost>>

\* recursive lock of a thread that has it: the increment is taken back.
TakeBack(t) ==
  /\ at[t] = "back"
  /\ counter' = counter - 1 /\ depth' = depth + 1
  /\ Goes(t, "in")
  /\ UNCHANGED <<kind, once, sema, owner, lost>>

\* A wrong variant: a wait that timed out is taken for success.
Take_timeout(t) ==
  /\ at[t] = "wait"
  /\ sema' = sema - 1
  /\ Goes(t, Got)
  /\ UNCHANGED <<kind, once, counter, depth, owner, lost>>

\* WaitForSingleObject has got a unit.
Take(t) ==
  /\ at[t] = "wait" /\ sema > 0
  /\ sema' = sema - 1
  /\ Goes(t, Got)
  /\ UNCHANGED <<kind, once, counter, depth, owner, lost>>

\* recursive lock and trylock: depth and owner
Enter(t) ==
  /\ at[t] = "enter"
  /\ depth' = 1 /\ owner' = t
  /\ Goes(t, "in")
  /\ UNCHANGED <<kind, once, counter, sema, lost>>

WaitFails(t) ==
  /\ "waitFails" \in Faults /\ at[t] = "wait" /\ lost < MaxLost
  /\ Goes(t, "fail")
  /\ UNCHANGED <<kind, once, mutex, lost>>

\* The best-effort cleanup.  If nobody else is there, the unit that was for
\* this thread has been released, or will be, and nobody is left to take it.
Cleanup(t) ==
  /\ at[t] = "fail"
  /\ counter' = counter - 1
  /\ lost' = IF counter = 0 THEN lost + 1 ELSE lost
  /\ Goes(t, "out")
  /\ UNCHANGED <<kind, once, sema, depth, owner>>

\* trylock: the counter is exchanged if it is -1.
TryLock(t) ==
  /\ at[t] = "out" /\ counter = -1
  /\ counter' = 0
  /\ Goes(t, Got)
  /\ UNCHANGED <<kind, once, sema, depth, owner, lost>>

\* recursive trylock of a thread that has it
TryRelock(t) ==
  /\ at[t] = "in" /\ kind = "recursive" /\ depth < MaxDepth
  /\ counter # -1 /\ owner = t
  /\ depth' = depth + 1
  /\ UNCHANGED <<kind, once, counter, sema, owner, at, lost>>

-----------------------------------------------------------------------------
\* A wrong variant: owner is not reset.
Unnest_owned(t) ==
  /\ at[t] = "in" /\ kind = "recursive"
  /\ depth' = depth - 1
  /\ Goes(t, IF depth = 1 THEN "leave" ELSE "in")
  /\ UNCHANGED <<kind, once, counter, sema, owner, lost>>

\* unlock of a recursive mutex: depth, and owner
Unnest(t) ==
  /\ at[t] = "in" /\ kind = "recursive"
  /\ depth' = depth - 1
  /\ IF depth = 1 THEN owner' = Nobody /\ Goes(t, "leave") ELSE UNCHANGED <<owner, at>>
  /\ UNCHANGED <<kind, once, counter, sema, lost>>

\* A wrong variant: > 0
Leave_late(t) ==
  /\ at[t] = "leave" \/ (at[t] = "in" /\ kind = "plain")
  /\ counter' = counter - 1
  /\ Goes(t, IF counter - 1 > 0 THEN "release" ELSE "out")
  /\ UNCHANGED <<kind, once, sema, depth, owner, lost>>

\* A wrong variant: the unit is released whether or not somebody waits.
Leave_always(t) ==
  /\ at[t] = "leave" \/ (at[t] = "in" /\ kind = "plain")
  /\ counter' = counter - 1
  /\ Goes(t, "release")
  /\ UNCHANGED <<kind, once, sema, depth, owner, lost>>

\* unlock: the counter is decremented
Leave(t) ==
  /\ at[t] = "leave" \/ (at[t] = "in" /\ kind = "plain")
  /\ counter' = counter - 1
  /\ Goes(t, IF counter - 1 >= 0 THEN "release" ELSE "out")
  /\ UNCHANGED <<kind, once, sema, depth, owner, lost>>

\* ReleaseSemaphore
Release(t) ==
  /\ at[t] = "release"
  /\ sema' = sema + 1
  /\ Goes(t, "out")
  /\ UNCHANGED <<kind, once, counter, depth, owner, lost>>

-----------------------------------------------------------------------------
Steps(t) ==
  \/ OnceStart(t) \/ OnceDone(t) \/ OnceFunc(t)
  \/ TestOwner(t) \/ TakeBack(t) \/ Enter(t) \/ Cleanup(t)
  \/ Unnest(t) \/ Leave(t) \/ Release(t)

\* Two threads have the mutex.
Shared == \E t, u \in Threads : t # u /\ at[t] \in Holding /\ at[u] \in Holding

\* Bound: owner and depth of a recursive mutex that two threads have are those
\* of whoever came last, and the model ends there.
Followed == kind = "recursive" => ~Shared

Next ==
  /\ Followed
  /\ \E t \in Threads :
       \/ Steps(t) \/ Take(t)
       \/ Lock(t) \/ Relock(t) \/ TryLock(t) \/ TryRelock(t)
       \/ WaitFails(t) \/ OnceThrows(t)

(***************************************************************************)
(* Threads go on, and unlock what they have locked in the end, however     *)
(* often they lock it again before.  The system does not pass over a       *)
(* waiting thread for ever.                                                *)
(***************************************************************************)
Fairness ==
  \A t \in Threads :
    /\ WF_vars(Followed /\ Steps(t))
    /\ SF_vars(Followed /\ depth = 1 /\ Unnest(t))
    /\ SF_vars(Followed /\ Take(t))

Spec == Init /\ [][Next]_vars /\ Fairness

-----------------------------------------------------------------------------
\* Where a thread has the mutex or is unlocking it
Tokens == Holding \cup {"leave", "release"}

\* One thread at most has the mutex or is unlocking it, and none while a unit
\* is on its way to a waiting one.  Each unit that a failed wait lost lets in
\* one thread more, and nothing else does (gthr-default.h:636-681).
OneToken == Cardinality({t \in Threads : at[t] \in Tokens}) + sema <= 1 + lost

\* The function of __gthread_once runs once, and nobody goes on before it is
\* done (gthr-default.h:540-563).
OnceFirst ==
  /\ \A t, u \in Threads : at[t] = "func" /\ at[u] \in {"func", "gone"} => t = u
  /\ (\E t \in Threads : at[t] \notin Once) => done

\* Who holds the mutex, and how often
Held == \E t \in Threads : at[t] \in Holding

Holder == IF Held THEN CHOOSE t \in Threads : at[t] \in Holding ELSE Nobody

HeldTimes ==
  IF ~Held THEN 0
  ELSE IF kind = "plain" \/ \E t \in Threads : at[t] = "enter" THEN 1
  ELSE depth

\* The recursive mutex is a lock that counts (gthr-default.h:692-755), and so
\* is the plain one, without the counting: until a unit is lost, every step is
\* a step of RecursiveLock or none.
Abstract == INSTANCE RecursiveLock WITH holder <- Holder, depth <- HeldTimes

ImplementsLock ==
  Abstract!Init /\ [][lost' = 0 => Abstract!Next]_<<Holder, HeldTimes>>

\* Who waits for the mutex gets it or is told that the wait failed, whether or
\* not units were lost: no wakeup gets lost between the counter and the
\* semaphore.  Who waits for the once function goes on, unless it threw: then
\* nobody runs it again (gthr-default.h:548-560, 636-681).  Both up to where
\* the model ends.
EveryoneServed ==
  \A t \in Threads :
    /\ at[t] = "wait" ~> (at[t] # "wait" \/ ~Followed)
    /\ at[t] = "spin" ~> (at[t] # "spin" \/ ~Followed \/ \E u \in Threads : at[u] = "gone")
=============================================================================
