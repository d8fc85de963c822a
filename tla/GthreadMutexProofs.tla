------------------------- MODULE GthreadMutexProofs -------------------------
(***************************************************************************)
(* The mutex of gthr-default.h excludes, for any number of threads, any    *)
(* depth, and waits and once functions that fail, but for the units that   *)
(* failed waits lose; it is a RecursiveLock until one is lost.             *)
(***************************************************************************)
EXTENDS GthreadMutex, FiniteSetTheorems, TLAPS

-----------------------------------------------------------------------------
(* The inductive invariant *)

\* Places of threads that are in the counter, and of those that are in it twice
Counted == Holding \cup Waiting \cup {"leave"}
Doubled == {"retest", "back"}

Count(f, P) == Cardinality({u \in Threads : f[u] \in P})

\* Only one thread has run or runs the once function, and before it is done
\* nobody is past it.
OnceInv ==
  /\ started >= -1
  /\ started = -1 => ~done /\ \A t \in Threads : at[t] = "begin"
  /\ done => \A t \in Threads : at[t] \notin {"func", "gone"}
  /\ ~done => sema = 0 /\ lost = 0 /\ \A t \in Threads : at[t] \in Once
  /\ \A t, u \in Threads : at[t] \in {"func", "gone"} /\ at[u] \in {"func", "gone"} => t = u

\* The counter is one less than the threads that are in it, and the lock of a
\* thread that has the mutex counts again until it is taken back.
CounterInv == done => counter + 1 = Count(at, Counted) + Count(at, Doubled)

\* Who has the mutex or unlocks it and the units that were released are one
\* together while anybody is in the counter, and each lost unit is one more.
TokenInv == done => Count(at, Tokens) + sema = lost + IF counter >= 0 THEN 1 ELSE 0

\* owner names the thread that has the recursive mutex and is not on its way
\* in or out; a plain mutex has no owner, depth or test.
OwnerInv ==
  /\ kind = "recursive" /\ done =>
       \A t \in Threads : /\ owner = t <=> at[t] \in {"in", "retest", "back"}
                          /\ owner = t => depth >= 1
  /\ kind = "plain" =>
       \A t \in Threads : at[t] \notin {"enter", "test", "retest", "back", "leave"}

IInv == TypeOK /\ OnceInv /\ CounterInv /\ TokenInv /\ OwnerInv

-----------------------------------------------------------------------------
(* Counting threads *)

\* What a thread adds to the count of P, and to the counter, at a place
One(p, P) == IF p \in P THEN 1 ELSE 0

Weight(p) == One(p, Counted) + One(p, Doubled)

Weighed(f) == Count(f, Counted) + Count(f, Doubled)

\* When one thread goes on, the threads at the places P change by that one.
LEMMA CountGoes ==
  ASSUME NEW f \in [Threads -> Places], NEW t \in Threads, NEW p \in Places, NEW P
  PROVE  Count([f EXCEPT ![t] = p], P) = Count(f, P) + One(p, P) - One(f[t], P)
<1> DEFINE g == [f EXCEPT ![t] = p]
           F == {u \in Threads : f[u] \in P}
           G == {u \in Threads : g[u] \in P}
<1>1. IsFiniteSet(F) /\ IsFiniteSet(G)
  BY FS_Subset, ThreadsAssumption
<1>2. Cardinality(F) \in Nat /\ Cardinality(G) \in Nat
  BY <1>1, FS_CardinalityType
<1>3. CASE p \in P /\ f[t] \notin P
  <2>1. G = F \cup {t} /\ t \notin F
    BY <1>3
  <2>2. Cardinality(G) = Cardinality(F) + 1
    BY <2>1, <1>1, FS_AddElement
  <2> QED BY <2>2, <1>2, <1>3 DEF Count, One
<1>4. CASE p \notin P /\ f[t] \in P
  <2>1. G = F \ {t} /\ t \in F
    BY <1>4
  <2>2. Cardinality(G) = Cardinality(F) - 1
    BY <2>1, <1>1, FS_RemoveElement
  <2> QED BY <2>2, <1>2, <1>4 DEF Count, One
<1>5. CASE p \in P <=> f[t] \in P
  <2>1. G = F
    BY <1>5
  <2> QED BY <2>1, <1>2, <1>5 DEF Count, One, One
<1> QED BY <1>3, <1>4, <1>5

\* Only threads at counted places weigh.
LEMMA WeighedIn ==
  ASSUME NEW f
  PROVE  /\ Weighed(f) \in Nat
         /\ Weighed(f) = 0 => \A t \in Threads : f[t] \notin Counted
         /\ (\A t \in Threads : f[t] \notin Counted) => Weighed(f) = 0
<1> DEFINE F == {u \in Threads : f[u] \in Counted}
           G == {u \in Threads : f[u] \in Doubled}
<1>1. IsFiniteSet(F) /\ IsFiniteSet(G)
  BY FS_Subset, ThreadsAssumption
<1>2. Cardinality(F) \in Nat /\ Cardinality(G) \in Nat
  BY <1>1, FS_CardinalityType
<1>3. (Cardinality(F) = 0 <=> F = {}) /\ (Cardinality(G) = 0 <=> G = {})
  BY <1>1, FS_EmptySet
<1>4. G \subseteq F
  BY DEF Counted, Doubled, Holding
<1>5. Weighed(f) = Cardinality(F) + Cardinality(G)
  BY DEF Weighed, Count
<1>6. Weighed(f) \in Nat /\ (Weighed(f) = 0 <=> F = {})
  BY <1>2, <1>3, <1>4, <1>5
<1> QED BY <1>6

\* A step of a thread in terms of where it was and where it is
LEMMA Going ==
  ASSUME TypeOK, NEW t \in Threads, NEW p \in Places, Goes(t, p)
  PROVE  /\ at' \in [Threads -> Places]
         /\ at'[t] = p
         /\ \A u \in Threads : u # t => at'[u] = at[u]
         /\ Weighed(at') = Weighed(at) + Weight(p) - Weight(at[t])
         /\ Count(at', Tokens) = Count(at, Tokens) + One(p, Tokens) - One(at[t], Tokens)
         /\ Count(at, Tokens) \in Nat
<1>1. at \in [Threads -> Places] /\ at' = [at EXCEPT ![t] = p]
  BY DEF TypeOK, Goes
<1>2. ASSUME NEW P PROVE Count(at', P) = Count(at, P) + One(p, P) - One(at[t], P)
  BY <1>1, CountGoes
<1>3. ASSUME NEW P PROVE Count(at, P) \in Nat
  <2>1. IsFiniteSet({u \in Threads : at[u] \in P})
    BY FS_Subset, ThreadsAssumption
  <2> QED BY <2>1, FS_CardinalityType DEF Count
<1>4. Weighed(at') = Weighed(at) + Weight(p) - Weight(at[t])
  <2>1. Count(at, Counted) \in Nat /\ Count(at, Doubled) \in Nat
    BY <1>3
  <2>2. \A x, P : One(x, P) \in Nat
    BY DEF One
  <2> QED BY <1>2, <2>1, <2>2 DEF Weighed, Weight
<1> QED BY <1>1, <1>2, <1>3, <1>4

-----------------------------------------------------------------------------
(* Every step keeps the invariant *)

LEMMA InitInv == Init => IInv
<1> SUFFICES ASSUME Init PROVE IInv
  OBVIOUS
<1>1. TypeOK
  <2>1. "begin" \in Places
    BY DEF Places, Once
  <2>2. depth \in Nat /\ counter \in Int /\ sema \in Nat /\ started \in Int
    BY DEF Init
  <2> QED BY <2>1, <2>2 DEF Init, TypeOK
<1> QED BY <1>1 DEF Init, IInv, OnceInv, CounterInv, TokenInv, OwnerInv, Once

\* The invariant of a step is proved in parts: the types and the count are the
\* same argument for every step, given what it does to the counter.
LEMMA CounterStep ==
  ASSUME TypeOK, CounterInv, NEW t \in Threads, NEW p \in Places, Goes(t, p),
         done' = done,
         done => counter' = counter + Weight(p) - Weight(at[t])
  PROVE  CounterInv'
<1>1. Weighed(at') = Weighed(at) + Weight(p) - Weight(at[t])
  BY Going
<1>2. Weighed(at) \in Nat /\ Weight(p) \in Nat /\ Weight(at[t]) \in Nat
  BY WeighedIn DEF Weight, One
<1> QED BY <1>1, <1>2 DEF CounterInv, Weighed, TypeOK

\* The counter is -1 when nobody is in it, and more otherwise.
LEMMA CounterSays ==
  ASSUME TypeOK, CounterInv, done
  PROVE  /\ counter = -1 => \A t \in Threads : at[t] \notin Counted
         /\ (\E t \in Threads : at[t] \in Counted) => counter >= 0
         /\ counter >= -1
  BY WeighedIn DEF CounterInv, Weighed, TypeOK

LEMMA Weights ==
  /\ \A p \in {"retest", "back"} : Weight(p) = 2
  /\ \A p \in {"enter", "in", "test", "wait", "fail", "leave"} : Weight(p) = 1
  /\ \A p \in {"out", "release", "begin", "func", "spin", "gone"} : Weight(p) = 0
  BY DEF Weight, One, Counted, Doubled, Holding, Waiting

LEMMA TokenWeights ==
  /\ \A p \in Holding \cup {"leave", "release"} : One(p, Tokens) = 1
  /\ \A p \in Waiting \cup Once \cup {"out"} : One(p, Tokens) = 0
  /\ Got \in Holding /\ {"enter", "in", "retest", "back"} \subseteq Holding
  BY DEF One, Tokens, Holding, Waiting, Once, Got

\* What a step does to the tokens and the units, given what it does to the counter
LEMMA TokenStep ==
  ASSUME TypeOK, TokenInv, done, NEW t \in Threads, NEW p \in Places, Goes(t, p),
         counter' \in Int, sema' \in Nat, lost' \in Nat,
         (sema' - sema) + (One(p, Tokens) - One(at[t], Tokens)) =
           (lost' - lost) + (IF counter' >= 0 THEN 1 ELSE 0) - (IF counter >= 0 THEN 1 ELSE 0)
  PROVE  TokenInv'
<1>1. /\ Count(at', Tokens) = Count(at, Tokens) + One(p, Tokens) - One(at[t], Tokens)
      /\ Count(at, Tokens) \in Nat
  BY Going
<1>2. One(p, Tokens) \in Nat /\ One(at[t], Tokens) \in Nat
  BY DEF One
<1> QED BY <1>1, <1>2 DEF TokenInv, TypeOK

LEMMA OnceStartInv ==
  ASSUME IInv, NEW t \in Threads, OnceStart(t)
  PROVE  IInv'
<1> DEFINE p == IF started + 1 = 0 THEN "func" ELSE "spin"
<1> USE DEF IInv
<1>1. p \in Places /\ Goes(t, p) /\ at[t] = "begin"
  BY DEF OnceStart, Places, Once, Holding, Waiting
<1>2. /\ at' \in [Threads -> Places] /\ at'[t] = p
      /\ \A u \in Threads : u # t => at'[u] = at[u]
  BY <1>1, Going
<1>3. TypeOK'
  BY <1>1, <1>2 DEF OnceStart, TypeOK, once, mutex
<1>4. OnceInv'
  BY <1>1, <1>2 DEF OnceStart, OnceInv, TypeOK, Once, once, mutex
<1>5. CounterInv'
  BY DEF OnceStart, CounterInv
<1>6. TokenInv'
  BY <1>1 DEF OnceStart, TokenInv, once
<1>7. OwnerInv'
  BY <1>1, <1>2 DEF OnceStart, OwnerInv, TypeOK, once, mutex
<1> QED BY <1>3, <1>4, <1>5, <1>6, <1>7

LEMMA OnceDoneInv ==
  ASSUME IInv, NEW t \in Threads, OnceDone(t)
  PROVE  IInv'
<1> DEFINE p == "out"
<1> USE DEF IInv
<1>1. p \in Places /\ Goes(t, p) /\ done /\ at[t] \in {"begin", "spin"}
  BY DEF OnceDone, Places, Once, Holding, Waiting
<1>2. /\ at' \in [Threads -> Places] /\ at'[t] = p
      /\ \A u \in Threads : u # t => at'[u] = at[u]
  BY <1>1, Going
<1>3. TypeOK'
  BY <1>1, <1>2 DEF OnceDone, TypeOK, once, mutex
<1>4. OnceInv'
  BY <1>1, <1>2 DEF OnceDone, OnceInv, TypeOK, Once, once, mutex
<1>5. CounterInv'
  BY <1>1, CounterStep, Weights DEF OnceDone, TypeOK, once, mutex
<1>6. TokenInv'
  <2>1. One(at[t], Tokens) = 0 /\ One(p, Tokens) = 0
    BY <1>1, TokenWeights DEF Once, Waiting
  <2>2. counter' = counter /\ sema' = sema /\ lost' = lost /\ done' = done
    BY DEF OnceDone, once, mutex
  <2> QED BY <1>1, <2>1, <2>2, TokenStep DEF TypeOK
<1>7. OwnerInv'
  BY <1>1, <1>2 DEF OnceDone, OwnerInv, TypeOK, once, mutex
<1> QED BY <1>3, <1>4, <1>5, <1>6, <1>7

LEMMA OnceFuncInv ==
  ASSUME IInv, NEW t \in Threads, OnceFunc(t)
  PROVE  IInv'
<1> DEFINE p == "out"
<1> USE DEF IInv
<1>1. p \in Places /\ Goes(t, p) /\ at[t] = "func" /\ ~done
  BY DEF OnceFunc, OnceInv, Places, Once, Holding, Waiting
<1>2. /\ at' \in [Threads -> Places] /\ at'[t] = p
      /\ \A u \in Threads : u # t => at'[u] = at[u]
  BY <1>1, Going
<1>3. TypeOK'
  BY <1>1, <1>2 DEF OnceFunc, TypeOK, once, mutex
<1>4. OnceInv'
  BY <1>1, <1>2 DEF OnceFunc, OnceInv, TypeOK, Once, once, mutex
<1>5. CounterInv'
  <2>1. \A u \in Threads : at'[u] \notin Counted
    BY <1>1, <1>2 DEF OnceInv, Once, Counted, Holding, Waiting
  <2>2. Weighed(at') = 0
    BY <2>1, WeighedIn
  <2> QED BY <2>2 DEF OnceFunc, CounterInv, Weighed
<1>6. TokenInv'
  <2>1. \A u \in Threads : at'[u] \notin Tokens
    BY <1>1, <1>2 DEF OnceInv, Once, Tokens, Holding
  <2>2. Count(at', Tokens) = 0
    <3>1. {u \in Threads : at'[u] \in Tokens} = {}
      BY <2>1
    <3> QED BY <3>1, FS_EmptySet DEF Count
  <2> QED BY <1>1, <2>2 DEF OnceFunc, OnceInv, TokenInv
<1>7. OwnerInv'
  BY <1>1, <1>2, ThreadsAssumption DEF OnceFunc, OnceInv, Once, OwnerInv
<1> QED BY <1>3, <1>4, <1>5, <1>6, <1>7

LEMMA OnceThrowsInv ==
  ASSUME IInv, NEW t \in Threads, OnceThrows(t)
  PROVE  IInv'
<1> DEFINE p == "gone"
<1> USE DEF IInv
<1>1. p \in Places /\ Goes(t, p) /\ at[t] = "func" /\ ~done
  BY DEF OnceThrows, OnceInv, Places, Once, Holding, Waiting
<1>2. /\ at' \in [Threads -> Places] /\ at'[t] = p
      /\ \A u \in Threads : u # t => at'[u] = at[u]
  BY <1>1, Going
<1>3. TypeOK'
  BY <1>1, <1>2 DEF OnceThrows, TypeOK, once, mutex
<1>4. OnceInv'
  BY <1>1, <1>2 DEF OnceThrows, OnceInv, TypeOK, Once, once, mutex
<1>5. CounterInv'
  BY <1>1 DEF OnceThrows, CounterInv, once
<1>6. TokenInv'
  BY <1>1 DEF OnceThrows, TokenInv, once
<1>7. OwnerInv'
  BY <1>1, <1>2 DEF OnceThrows, OwnerInv, TypeOK, once, mutex
<1> QED BY <1>3, <1>4, <1>5, <1>6, <1>7

LEMMA LockInv ==
  ASSUME IInv, NEW t \in Threads, Lock(t)
  PROVE  IInv'
<1> DEFINE p == IF counter + 1 = 0 THEN Got ELSE IF kind = "recursive" THEN "test" ELSE "wait"
<1> USE DEF IInv
<1>1. p \in Places /\ Goes(t, p) /\ at[t] = "out" /\ done
  BY DEF Lock, OnceInv, Got, Places, Once, Holding, Waiting
<1>2. /\ at' \in [Threads -> Places] /\ at'[t] = p
      /\ \A u \in Threads : u # t => at'[u] = at[u]
  BY <1>1, Going
<1>a. counter >= -1
  BY <1>1, CounterSays
<1>b. (p = Got /\ counter = -1) \/ p \in Waiting
  BY <1>1, <1>a DEF TypeOK, Waiting
<1>3. TypeOK'
  BY <1>1, <1>2 DEF Lock, TypeOK, once, mutex
<1>4. OnceInv'
  BY <1>1, <1>2 DEF Lock, OnceInv, Got, TypeOK, Once, once, mutex
<1>5. CounterInv'
  <2>1. Weight(p) = 1 /\ Weight(at[t]) = 0
    BY <1>1, Weights DEF Got
  <2> QED BY <1>1, <2>1, CounterStep DEF Lock, TypeOK, once
<1>6. TokenInv'
  <2>1. One(at[t], Tokens) = 0
    BY <1>1, TokenWeights
  <2>2. counter' = counter + 1 /\ sema' = sema /\ lost' = lost
    BY DEF Lock
  <2>3. CASE p = Got /\ counter = -1
    <3>1. One(p, Tokens) = 1
      BY <2>3, TokenWeights
    <3> HIDE DEF p
    <3> QED BY <1>1, <2>1, <2>2, <2>3, <3>1, TokenStep DEF TypeOK
  <2>4. CASE p \in Waiting /\ counter # -1
    <3>1. One(p, Tokens) = 0
      BY <2>4, TokenWeights
    <3> HIDE DEF p
    <3> QED BY <1>1, <1>a, <2>1, <2>2, <2>4, <3>1, TokenStep DEF TypeOK
  <2> QED BY <1>1, <1>a, <2>3, <2>4 DEF TypeOK, Waiting
<1>7. OwnerInv'
  BY <1>1, <1>2 DEF Lock, OwnerInv, Got, TypeOK, once
<1> QED BY <1>3, <1>4, <1>5, <1>6, <1>7

LEMMA RelockInv ==
  ASSUME IInv, NEW t \in Threads, Relock(t)
  PROVE  IInv'
<1> DEFINE p == "retest"
<1> USE DEF IInv
<1>1. p \in Places /\ Goes(t, p) /\ at[t] = "in" /\ done
  <2>1. at[t] = "in" /\ done
    BY DEF Relock, OnceInv, Once
  <2>2. counter >= 0
    BY <2>1, CounterSays DEF Counted, Holding
  <2> QED BY <2>1, <2>2 DEF Relock, TypeOK, Places, Once, Holding, Waiting
<1>2. /\ at' \in [Threads -> Places] /\ at'[t] = p
      /\ \A u \in Threads : u # t => at'[u] = at[u]
  BY <1>1, Going
<1>3. TypeOK'
  BY <1>1, <1>2 DEF Relock, TypeOK, once, mutex
<1>4. OnceInv'
  BY <1>1, <1>2 DEF Relock, OnceInv, TypeOK, Once, once, mutex
<1>5. CounterInv'
  BY <1>1, CounterStep, Weights DEF Relock, TypeOK, once, mutex
<1>6. TokenInv'
  <2>1. One(at[t], Tokens) = 1 /\ One(p, Tokens) = 1
    BY <1>1, TokenWeights DEF Once, Waiting
  <2>2. counter >= 0 /\ counter' = counter + 1 /\ sema' = sema /\ lost' = lost
    BY <1>1, CounterSays DEF Relock, Counted, Holding
  <2> QED BY <1>1, <2>1, <2>2, TokenStep DEF TypeOK
<1>7. OwnerInv'
  BY <1>1, <1>2 DEF Relock, OwnerInv, TypeOK, once, mutex
<1> QED BY <1>3, <1>4, <1>5, <1>6, <1>7

LEMMA TestOwnerInv ==
  ASSUME IInv, NEW t \in Threads, TestOwner(t)
  PROVE  IInv'
<1> DEFINE p == IF owner = t THEN "back" ELSE "wait"
<1> USE DEF IInv
<1>1. p \in Places /\ Goes(t, p) /\ done /\ kind = "recursive"
      /\ ((at[t] = "test" /\ p = "wait") \/ (at[t] = "retest" /\ p = "back"))
  <2>1. at[t] \in {"test", "retest"} /\ done
    BY DEF TestOwner, OnceInv, Once
  <2>2. kind = "recursive"
    BY <2>1, ThreadsAssumption DEF OwnerInv, TypeOK
  <2>3. owner = t <=> at[t] = "retest"
    BY <2>1, <2>2 DEF OwnerInv
  <2>4. p \in Places /\ Goes(t, p)
    BY DEF TestOwner, Places, Once, Holding, Waiting
  <2> QED BY <2>1, <2>2, <2>3, <2>4
<1>2. /\ at' \in [Threads -> Places] /\ at'[t] = p
      /\ \A u \in Threads : u # t => at'[u] = at[u]
  BY <1>1, Going
<1>3. TypeOK'
  BY <1>1, <1>2 DEF TestOwner, TypeOK, once, mutex
<1>4. OnceInv'
  BY <1>1, <1>2 DEF TestOwner, OnceInv, TypeOK, Once, once, mutex
<1>5. CounterInv'
  BY <1>1, CounterStep, Weights DEF TestOwner, TypeOK, once, mutex
<1>6. TokenInv'
  <2>1. One(at[t], Tokens) = One(p, Tokens) /\ One(p, Tokens) \in Nat
    BY <1>1, TokenWeights DEF Waiting
  <2>2. counter' = counter /\ sema' = sema /\ lost' = lost /\ done' = done
    BY DEF TestOwner, once, mutex
  <2> QED BY <1>1, <2>1, <2>2, TokenStep DEF TypeOK
<1>7. OwnerInv'
  BY <1>1, <1>2 DEF TestOwner, OwnerInv, TypeOK, once, mutex
<1> QED BY <1>3, <1>4, <1>5, <1>6, <1>7

LEMMA TakeBackInv ==
  ASSUME IInv, NEW t \in Threads, TakeBack(t)
  PROVE  IInv'
<1> DEFINE p == "in"
<1> USE DEF IInv
<1>1. p \in Places /\ Goes(t, p) /\ at[t] = "back" /\ done
  BY DEF TakeBack, OnceInv, Places, Once, Holding, Waiting
<1>2. /\ at' \in [Threads -> Places] /\ at'[t] = p
      /\ \A u \in Threads : u # t => at'[u] = at[u]
  BY <1>1, Going
<1>3. TypeOK'
  BY <1>1, <1>2 DEF TakeBack, TypeOK, once, mutex
<1>4. OnceInv'
  BY <1>1, <1>2 DEF TakeBack, OnceInv, TypeOK, Once, once, mutex
<1>5. CounterInv'
  BY <1>1, CounterStep, Weights DEF TakeBack, TypeOK, once, mutex
<1>6. TokenInv'
  <2>1. One(at[t], Tokens) = 1 /\ One(p, Tokens) = 1
    BY <1>1, TokenWeights DEF Once, Waiting
  <2>2. counter' = counter - 1 /\ sema' = sema /\ lost' = lost /\ done' = done
    BY DEF TakeBack, once
  <2>3. counter' >= 0
    <3>1. at'[t] \in Counted
      BY <1>2 DEF Counted, Holding
    <3>2. Weighed(at') \in Nat /\ Weighed(at') # 0
      BY <3>1, WeighedIn
    <3> QED BY <1>1, <1>3, <1>5, <2>2, <3>2 DEF CounterInv, Weighed, TypeOK
  <2> QED BY <1>1, <2>1, <2>2, <2>3, TokenStep DEF TypeOK
<1>7. OwnerInv'
  BY <1>1, <1>2 DEF TakeBack, OwnerInv, TypeOK, once, mutex
<1> QED BY <1>3, <1>4, <1>5, <1>6, <1>7

LEMMA TakeInv ==
  ASSUME IInv, NEW t \in Threads, Take(t)
  PROVE  IInv'
<1> DEFINE p == Got
<1> USE DEF IInv
<1>1. p \in Places /\ Goes(t, p) /\ at[t] = "wait" /\ done
  BY DEF Take, OnceInv, TypeOK, Got, Places, Once, Holding, Waiting
<1>2. /\ at' \in [Threads -> Places] /\ at'[t] = p
      /\ \A u \in Threads : u # t => at'[u] = at[u]
  BY <1>1, Going
<1>3. TypeOK'
  BY <1>1, <1>2 DEF Take, TypeOK, once, mutex
<1>4. OnceInv'
  BY <1>1, <1>2 DEF Take, OnceInv, Got, TypeOK, Once, once, mutex
<1>5. CounterInv'
  <2>1. Weight(p) = 1 /\ Weight(at[t]) = 1
    BY <1>1, Weights DEF Got
  <2> QED BY <1>1, <2>1, CounterStep DEF Take, TypeOK, once
<1>6. TokenInv'
  <2>1. One(at[t], Tokens) = 0 /\ One(p, Tokens) = 1
    BY <1>1, TokenWeights DEF Once, Waiting
  <2>2. counter' = counter /\ sema' = sema - 1 /\ sema' \in Nat /\ lost' = lost
    BY DEF Take, TypeOK
  <2> QED BY <1>1, <2>1, <2>2, TokenStep DEF TypeOK
<1>7. OwnerInv'
  BY <1>1, <1>2 DEF Take, OwnerInv, Got, TypeOK, once
<1> QED BY <1>3, <1>4, <1>5, <1>6, <1>7

LEMMA EnterInv ==
  ASSUME IInv, Followed, NEW t \in Threads, Enter(t)
  PROVE  IInv'
<1> DEFINE p == "in"
<1> USE DEF IInv
<1>1. p \in Places /\ Goes(t, p) /\ at[t] = "enter" /\ done
  BY DEF Enter, OnceInv, Places, Once, Holding, Waiting
<1>2. /\ at' \in [Threads -> Places] /\ at'[t] = p
      /\ \A u \in Threads : u # t => at'[u] = at[u]
  BY <1>1, Going
<1>3. TypeOK'
  BY <1>1, <1>2 DEF Enter, TypeOK, once, mutex
<1>4. OnceInv'
  BY <1>1, <1>2 DEF Enter, OnceInv, TypeOK, Once, once, mutex
<1>5. CounterInv'
  BY <1>1, CounterStep, Weights DEF Enter, TypeOK, once, mutex
<1>6. TokenInv'
  BY <1>1, <1>2, <1>3, TokenStep, TokenWeights DEF Enter, TypeOK, once, mutex
<1>7. OwnerInv'
  BY <1>1, <1>2 DEF Enter, OwnerInv, Followed, Shared, Holding, TypeOK, once
<1> QED BY <1>3, <1>4, <1>5, <1>6, <1>7

LEMMA WaitFailsInv ==
  ASSUME IInv, NEW t \in Threads, WaitFails(t)
  PROVE  IInv'
<1> DEFINE p == "fail"
<1> USE DEF IInv
<1>1. p \in Places /\ Goes(t, p) /\ at[t] = "wait" /\ done
  BY DEF WaitFails, OnceInv, Places, Once, Holding, Waiting
<1>2. /\ at' \in [Threads -> Places] /\ at'[t] = p
      /\ \A u \in Threads : u # t => at'[u] = at[u]
  BY <1>1, Going
<1>3. TypeOK'
  BY <1>1, <1>2 DEF WaitFails, TypeOK, once, mutex
<1>4. OnceInv'
  BY <1>1, <1>2 DEF WaitFails, OnceInv, TypeOK, Once, once, mutex
<1>5. CounterInv'
  BY <1>1, CounterStep, Weights DEF WaitFails, TypeOK, once, mutex
<1>6. TokenInv'
  <2>1. One(at[t], Tokens) = 0 /\ One(p, Tokens) = 0
    BY <1>1, TokenWeights DEF Once, Waiting
  <2>2. counter' = counter /\ sema' = sema /\ lost' = lost /\ done' = done
    BY DEF WaitFails, once, mutex
  <2> QED BY <1>1, <2>1, <2>2, TokenStep DEF TypeOK
<1>7. OwnerInv'
  BY <1>1, <1>2 DEF WaitFails, OwnerInv, TypeOK, once, mutex
<1> QED BY <1>3, <1>4, <1>5, <1>6, <1>7

LEMMA CleanupInv ==
  ASSUME IInv, NEW t \in Threads, Cleanup(t)
  PROVE  IInv'
<1> DEFINE p == "out"
<1> USE DEF IInv
<1>1. p \in Places /\ Goes(t, p) /\ at[t] = "fail" /\ done /\ counter >= 0
  <2>1. at[t] = "fail" /\ done
    BY DEF Cleanup, OnceInv, Once
  <2>2. counter >= 0
    BY <2>1, CounterSays DEF Counted, Waiting
  <2> QED BY <2>1, <2>2 DEF Cleanup, Places, Once, Holding, Waiting
<1>2. /\ at' \in [Threads -> Places] /\ at'[t] = p
      /\ \A u \in Threads : u # t => at'[u] = at[u]
  BY <1>1, Going
<1>3. TypeOK'
  BY <1>1, <1>2 DEF Cleanup, TypeOK, once, mutex
<1>4. OnceInv'
  BY <1>1, <1>2 DEF Cleanup, OnceInv, TypeOK, Once, once, mutex
<1>5. CounterInv'
  BY <1>1, CounterStep, Weights DEF Cleanup, TypeOK, once, mutex
<1>6. TokenInv'
  <2>1. One(at[t], Tokens) = 0 /\ One(p, Tokens) = 0
    BY <1>1, TokenWeights DEF Once, Waiting
  <2>2. counter' = counter - 1 /\ sema' = sema /\ lost' = IF counter = 0 THEN lost + 1 ELSE lost
    BY DEF Cleanup
  <2>3. lost' \in Nat /\ counter' \in Int
    BY <2>2 DEF TypeOK
  <2>4. (IF counter' >= 0 THEN 1 ELSE 0) - (IF counter >= 0 THEN 1 ELSE 0) = lost - lost'
    BY <1>1, <2>2 DEF TypeOK
  <2>5. (sema' - sema) + (One(p, Tokens) - One(at[t], Tokens)) =
          (lost' - lost) + (IF counter' >= 0 THEN 1 ELSE 0) - (IF counter >= 0 THEN 1 ELSE 0)
    <3>1. (IF counter' >= 0 THEN 1 ELSE 0) \in Int /\ (IF counter >= 0 THEN 1 ELSE 0) \in Int
      OBVIOUS
    <3> QED BY <3>1, <2>1, <2>2, <2>3, <2>4 DEF TypeOK
  <2> HIDE DEF p
  <2>6. sema' \in Nat
    BY <2>2 DEF TypeOK
  <2> QED BY <1>1, <2>3, <2>5, <2>6, TokenStep
<1>7. OwnerInv'
  BY <1>1, <1>2 DEF Cleanup, OwnerInv, TypeOK, once, mutex
<1> QED BY <1>3, <1>4, <1>5, <1>6, <1>7

LEMMA TryLockInv ==
  ASSUME IInv, NEW t \in Threads, TryLock(t)
  PROVE  IInv'
<1> DEFINE p == Got
<1> USE DEF IInv
<1>1. p \in Places /\ Goes(t, p) /\ at[t] = "out" /\ done /\ counter = -1
  BY DEF TryLock, OnceInv, Got, Places, Once, Holding, Waiting
<1>2. /\ at' \in [Threads -> Places] /\ at'[t] = p
      /\ \A u \in Threads : u # t => at'[u] = at[u]
  BY <1>1, Going
<1>3. TypeOK'
  BY <1>1, <1>2 DEF TryLock, TypeOK, once, mutex
<1>4. OnceInv'
  BY <1>1, <1>2 DEF TryLock, OnceInv, Got, TypeOK, Once, once, mutex
<1>5. CounterInv'
  <2>1. Weight(p) = 1 /\ Weight(at[t]) = 0
    BY <1>1, Weights DEF Got
  <2> QED BY <1>1, <2>1, CounterStep DEF TryLock, TypeOK, once
<1>6. TokenInv'
  BY <1>1, <1>2, <1>3, TokenStep, TokenWeights DEF TryLock, TypeOK, once, mutex
<1>7. OwnerInv'
  BY <1>1, <1>2 DEF TryLock, OwnerInv, Got, TypeOK, once
<1> QED BY <1>3, <1>4, <1>5, <1>6, <1>7

LEMMA TryRelockInv ==
  ASSUME IInv, NEW t \in Threads, TryRelock(t)
  PROVE  IInv'
<1> USE DEF IInv
<1>1. TypeOK'
  BY DEF TryRelock, TypeOK, once
<1>2. OwnerInv'
  BY DEF TryRelock, OwnerInv, TypeOK, once
<1> QED BY <1>1, <1>2 DEF TryRelock, OnceInv, CounterInv, TokenInv, once

LEMMA UnnestInv ==
  ASSUME IInv, Followed, NEW t \in Threads, Unnest(t)
  PROVE  IInv'
<1> DEFINE p == IF depth = 1 THEN "leave" ELSE "in"
<1> USE DEF IInv
<1>1. p \in Places /\ at[t] = "in" /\ done /\ Goes(t, p) /\ depth' = depth - 1 /\ depth >= 1
      /\ owner' = (IF depth = 1 THEN Nobody ELSE owner)
  <2>1. at[t] = "in" /\ done /\ depth >= 1
    BY DEF Unnest, OnceInv, OwnerInv, Once
  <2>2. at = [at EXCEPT ![t] = at[t]]
    BY DEF TypeOK
  <2> QED BY <2>1, <2>2 DEF Unnest, Goes, Places, Once, Holding, Waiting
<1>2. /\ at' \in [Threads -> Places] /\ at'[t] = p
      /\ \A u \in Threads : u # t => at'[u] = at[u]
  BY <1>1, Going
<1>3. TypeOK'
  BY <1>1, <1>2 DEF Unnest, TypeOK, once, mutex
<1>4. OnceInv'
  BY <1>1, <1>2 DEF Unnest, OnceInv, TypeOK, Once, once, mutex
<1>5. CounterInv'
  BY <1>1, CounterStep, Weights DEF Unnest, TypeOK, once, mutex
<1>6. TokenInv'
  BY <1>1, <1>2, <1>3, TokenStep, TokenWeights DEF Unnest, TypeOK, once, mutex
<1>7. OwnerInv'
  BY <1>1, <1>2, ThreadsAssumption DEF Unnest, OwnerInv, Followed, Shared, Holding, TypeOK, once
<1> QED BY <1>3, <1>4, <1>5, <1>6, <1>7

LEMMA LeaveInv ==
  ASSUME IInv, NEW t \in Threads, Leave(t)
  PROVE  IInv'
<1> DEFINE p == IF counter - 1 >= 0 THEN "release" ELSE "out"
<1> USE DEF IInv
<1>1. p \in Places /\ Goes(t, p) /\ at[t] \in {"leave", "in"} /\ (at[t] = "in" => kind = "plain")
      /\ done
  BY DEF Leave, OnceInv, Places, Once, Holding, Waiting
<1>2. /\ at' \in [Threads -> Places] /\ at'[t] = p
      /\ \A u \in Threads : u # t => at'[u] = at[u]
  BY <1>1, Going
<1>3. TypeOK'
  BY <1>1, <1>2 DEF Leave, TypeOK, once, mutex
<1>4. OnceInv'
  BY <1>1, <1>2 DEF Leave, OnceInv, TypeOK, Once, once, mutex
<1>5. CounterInv'
  BY <1>1, CounterStep, Weights DEF Leave, TypeOK, once, mutex
<1>6. TokenInv'
  <2>1. One(at[t], Tokens) = 1
    BY <1>1, TokenWeights
  <2>2. counter >= 0 /\ counter' = counter - 1 /\ sema' = sema /\ lost' = lost
    BY <1>1, CounterSays DEF Leave, Counted, Holding
  <2>3. One("release", Tokens) = 1 /\ One("out", Tokens) = 0
    BY TokenWeights
  <2> QED BY <1>1, <2>1, <2>2, <2>3, TokenStep DEF TypeOK
<1>7. OwnerInv'
  BY <1>1, <1>2 DEF Leave, OwnerInv, TypeOK, once
<1> QED BY <1>3, <1>4, <1>5, <1>6, <1>7

LEMMA ReleaseInv ==
  ASSUME IInv, NEW t \in Threads, Release(t)
  PROVE  IInv'
<1> DEFINE p == "out"
<1> USE DEF IInv
<1>1. p \in Places /\ Goes(t, p) /\ at[t] = "release" /\ done
  BY DEF Release, OnceInv, Places, Once, Holding, Waiting
<1>2. /\ at' \in [Threads -> Places] /\ at'[t] = p
      /\ \A u \in Threads : u # t => at'[u] = at[u]
  BY <1>1, Going
<1>3. TypeOK'
  BY <1>1, <1>2 DEF Release, TypeOK, once, mutex
<1>4. OnceInv'
  BY <1>1, <1>2 DEF Release, OnceInv, TypeOK, Once, once, mutex
<1>5. CounterInv'
  BY <1>1, CounterStep, Weights DEF Release, TypeOK, once, mutex
<1>6. TokenInv'
  BY <1>1, <1>2, <1>3, TokenStep, TokenWeights DEF Release, TypeOK, once, mutex
<1>7. OwnerInv'
  BY <1>1, <1>2 DEF Release, OwnerInv, TypeOK, once, mutex
<1> QED BY <1>3, <1>4, <1>5, <1>6, <1>7

-----------------------------------------------------------------------------
(* What follows from the invariant *)

LEMMA StutterInv ==
  ASSUME IInv, UNCHANGED vars
  PROVE  IInv'
  BY DEF IInv, vars, once, mutex, TypeOK, OnceInv, CounterInv, TokenInv, OwnerInv

LEMMA NextInv ==
  ASSUME IInv, [Next]_vars
  PROVE  IInv'
<1>1. CASE UNCHANGED vars
  BY <1>1, StutterInv
<1>2. ASSUME Followed, NEW t \in Threads, Steps(t)
      PROVE  IInv'
  BY <1>2, OnceStartInv, OnceDoneInv, OnceFuncInv, TestOwnerInv, TakeBackInv, EnterInv,
     CleanupInv, UnnestInv, LeaveInv, ReleaseInv DEF Steps
<1>3. ASSUME NEW t \in Threads,
             \/ Take(t)
             \/ Lock(t) \/ Relock(t) \/ TryLock(t) \/ TryRelock(t)
             \/ WaitFails(t) \/ OnceThrows(t)
      PROVE  IInv'
  BY <1>3, TakeInv, LockInv, RelockInv, TryLockInv, TryRelockInv, WaitFailsInv, OnceThrowsInv
<1> QED BY <1>1, <1>2, <1>3 DEF Next

\* The inductive invariant of the mutex and of its once function.
THEOREM MutexInvariant == Spec => []IInv
<1>1. Init => IInv
  BY InitInv
<1>2. IInv /\ [Next]_vars => IInv'
  BY NextInv
<1> QED BY <1>1, <1>2, PTL DEF Spec

\* The fields keep their types: no wait takes a unit there is not, and no
\* unlock makes the depth negative (gthr-default.h:636-757).
THEOREM MutexTypeOK == Spec => []TypeOK
<1>1. IInv => TypeOK
  BY DEF IInv
<1> QED BY <1>1, MutexInvariant, PTL

\* One thread at most has the mutex, is unlocking it, or has been released
\* from waiting for it, and one more for each unit that a failed wait lost
\* (gthr-default.h:636-681, 692-757).
THEOREM MutexOneToken == Spec => []OneToken
<1>1. IInv => OneToken
  <2> SUFFICES ASSUME IInv PROVE OneToken
    OBVIOUS
  <2>1. Count(at, Tokens) \in Nat
    <3>1. IsFiniteSet({u \in Threads : at[u] \in Tokens})
      BY FS_Subset, ThreadsAssumption
    <3> QED BY <3>1, FS_CardinalityType DEF Count
  <2>2. CASE done
    BY <2>1, <2>2 DEF IInv, TokenInv, TypeOK, OneToken, Count
  <2>3. CASE ~done
    <3>1. {u \in Threads : at[u] \in Tokens} = {}
      BY <2>3 DEF IInv, OnceInv, Once, Tokens, Holding
    <3> QED BY <3>1, <2>3, FS_EmptySet DEF IInv, OnceInv, OneToken
  <2> QED BY <2>2, <2>3
<1> QED BY <1>1, MutexInvariant, PTL

\* The function of __gthread_once runs once and before anybody goes on
\* (gthr-default.h:540-568).
THEOREM MutexOnceFirst == Spec => []OnceFirst
<1>1. IInv => OnceFirst
  BY DEF IInv, OnceInv, OnceFirst
<1> QED BY <1>1, MutexInvariant, PTL

-----------------------------------------------------------------------------
(* The mutex is a RecursiveLock *)

\* Holder and HeldTimes as functions of the state, to speak of the next one
HolderOf(f) ==
  IF \E t \in Threads : f[t] \in Holding
  THEN CHOOSE t \in Threads : f[t] \in Holding ELSE Nobody

TimesOf(f, k, d) ==
  IF ~\E t \in Threads : f[t] \in Holding THEN 0
  ELSE IF k = "plain" \/ \E t \in Threads : f[t] = "enter" THEN 1
  ELSE d

OneHolds(f) == \A t, u \in Threads : f[t] \in Holding /\ f[u] \in Holding => t = u

LEMMA Functions ==
  /\ Holder = HolderOf(at) /\ Holder' = HolderOf(at')
  /\ HeldTimes = TimesOf(at, kind, depth) /\ HeldTimes' = TimesOf(at', kind', depth')
  BY DEF Holder, HeldTimes, Held, HolderOf, TimesOf

LEMMA OneHeld ==
  ASSUME NEW f \in [Threads -> Places], Count(f, Tokens) <= 1
  PROVE  OneHolds(f)
<1> SUFFICES ASSUME NEW t \in Threads, NEW u \in Threads, t # u,
                    f[t] \in Holding, f[u] \in Holding
             PROVE  FALSE
  BY DEF OneHolds
<1> DEFINE F == {v \in Threads : f[v] \in Tokens}
<1>1. IsFiniteSet(F) /\ t \in F /\ u \in F
  BY FS_Subset, ThreadsAssumption DEF Tokens
<1>2. IsFiniteSet({t}) /\ Cardinality({t}) = 1
  BY FS_Singleton
<1>3. Cardinality({t} \cup {u}) = 2
  BY <1>2, FS_AddElement
<1>4. {t} \cup {u} \subseteq F
  BY <1>1
<1>5. Cardinality({t} \cup {u}) <= Cardinality(F)
  BY <1>1, <1>4, FS_Subset
<1>6. Cardinality(F) \in Nat
  BY <1>1, FS_CardinalityType
<1> QED BY <1>3, <1>5, <1>6 DEF Count

\* Until a unit is lost, one thread at most has the mutex.
LEMMA InvOneHolds ==
  /\ IInv /\ lost = 0 => OneHolds(at)
  /\ IInv' /\ lost' = 0 => OneHolds(at')
<1>1. \A f : Count(f, Tokens) \in Nat
  <2> SUFFICES ASSUME NEW f PROVE Count(f, Tokens) \in Nat
    OBVIOUS
  <2>1. IsFiniteSet({u \in Threads : f[u] \in Tokens})
    BY FS_Subset, ThreadsAssumption
  <2> QED BY <2>1, FS_CardinalityType DEF Count
<1>2. ASSUME IInv, lost = 0, done PROVE OneHolds(at)
  BY <1>1, <1>2, OneHeld DEF IInv, TokenInv, TypeOK
<1>3. ASSUME IInv', lost' = 0, done' PROVE OneHolds(at')
  BY <1>1, <1>3, OneHeld DEF IInv, TokenInv, TypeOK
<1>4. ASSUME IInv, ~done PROVE OneHolds(at)
  BY <1>4 DEF IInv, OnceInv, Once, Holding, OneHolds
<1>5. ASSUME IInv', ~done' PROVE OneHolds(at')
  BY <1>5 DEF IInv, OnceInv, Once, Holding, OneHolds
<1> QED BY <1>2, <1>3, <1>4, <1>5

\* Who holds is unique, so CHOOSE finds it.
LEMMA HeldBy ==
  ASSUME NEW f, OneHolds(f), NEW t \in Threads, f[t] \in Holding, NEW k, NEW d
  PROVE  /\ HolderOf(f) = t
         /\ TimesOf(f, k, d) = IF k = "plain" \/ f[t] = "enter" THEN 1 ELSE d
<1>1. \A u \in Threads : f[u] \in Holding => u = t
  BY DEF OneHolds
<1>2. (\E u \in Threads : f[u] = "enter") <=> f[t] = "enter"
  BY <1>1 DEF Holding
<1> QED BY <1>1, <1>2 DEF HolderOf, TimesOf

LEMMA HeldByNobody ==
  ASSUME NEW f, \A t \in Threads : f[t] \notin Holding, NEW k, NEW d
  PROVE  HolderOf(f) = Nobody /\ TimesOf(f, k, d) = 0
  BY DEF HolderOf, TimesOf

\* A step of a thread outside changes nothing.
LEMMA Elsewhere ==
  ASSUME IInv, OneHolds(at), OneHolds(at'), NEW t \in Threads, at[t] \notin Holding, at'[t] \notin Holding,
         \A u \in Threads : u # t => at'[u] = at[u],
         kind' = kind, depth' = depth
  PROVE  UNCHANGED <<Holder, HeldTimes>>
<1>1. CASE \E u \in Threads : at[u] \in Holding
  <2>1. PICK u \in Threads : at[u] \in Holding
    BY <1>1
  <2>2. at'[u] = at[u]
    BY <2>1
  <2>3. HolderOf(at) = u /\ TimesOf(at, kind, depth) = IF kind = "plain" \/ at[u] = "enter" THEN 1 ELSE depth
    BY <2>1, HeldBy
  <2>4. HolderOf(at') = u /\ TimesOf(at', kind', depth') = IF kind' = "plain" \/ at'[u] = "enter" THEN 1 ELSE depth'
    BY <2>1, <2>2, HeldBy
  <2> QED BY <2>2, <2>3, <2>4, Functions
<1>2. CASE \A u \in Threads : at[u] \notin Holding
  <2>1. \A u \in Threads : at'[u] \notin Holding
    BY <1>2
  <2> QED BY <1>2, <2>1, HeldByNobody, Functions
<1> QED BY <1>1, <1>2

\* A step into the mutex is an Acquire.
LEMMA Acquires ==
  ASSUME IInv, OneHolds(at), OneHolds(at'), NEW t \in Threads, at[t] \notin Holding, at'[t] = Got, kind' = kind,
         \A u \in Threads : u # t => at'[u] = at[u]
  PROVE  Abstract!Acquire(t)
<1>1. at'[t] \in Holding /\ (kind' = "plain" \/ at'[t] = "enter")
  BY ThreadsAssumption DEF Got, Holding, IInv, TypeOK
<1>2. HolderOf(at') = t /\ TimesOf(at', kind', depth') = 1
  BY <1>1, HeldBy
<1>3. \A u \in Threads : at[u] \notin Holding
  BY <1>1 DEF OneHolds
<1> QED BY <1>2, <1>3, HeldByNobody, Functions DEF Abstract!Acquire

\* A step out of the mutex is a Release.
LEMMA Releases ==
  ASSUME IInv, OneHolds(at), OneHolds(at'), NEW t \in Threads, at[t] \in Holding, at'[t] \notin Holding,
         HeldTimes = 1,
         \A u \in Threads : u # t => at'[u] = at[u]
  PROVE  Abstract!Release(t)
<1>1. HolderOf(at) = t
  BY HeldBy
<1>2. \A u \in Threads : at'[u] \notin Holding
  BY DEF OneHolds
<1>3. HolderOf(at') = Nobody /\ TimesOf(at', kind', depth') = 0
  BY <1>2, HeldByNobody
<1> QED BY <1>1, <1>3, Functions DEF Abstract!Release

\* A step inside the recursive mutex
LEMMA Inside ==
  ASSUME IInv, OneHolds(at), OneHolds(at'), NEW t \in Threads, kind = "recursive", kind' = kind,
         at[t] \in Holding, at'[t] \in Holding
  PROVE  /\ Holder = t /\ Holder' = t
         /\ HeldTimes = IF at[t] = "enter" THEN 1 ELSE depth
         /\ HeldTimes' = IF at'[t] = "enter" THEN 1 ELSE depth'
<1>1. HolderOf(at) = t /\ TimesOf(at, kind, depth) = IF at[t] = "enter" THEN 1 ELSE depth
  BY HeldBy
<1>2. HolderOf(at') = t /\ TimesOf(at', kind', depth') = IF at'[t] = "enter" THEN 1 ELSE depth'
  BY HeldBy
<1> QED BY <1>1, <1>2, Functions

\* Every step is a step of a RecursiveLock or none.
LEMMA AbstractStep ==
  ASSUME IInv, IInv', OneHolds(at), OneHolds(at'), Next
  PROVE  (\E t \in Threads : Abstract!Acquire(t) \/ Abstract!Reacquire(t) \/ Abstract!Release(t))
         \/ UNCHANGED <<Holder, HeldTimes>>
<1> PICK t \in Threads :
      \/ Steps(t) \/ Take(t)
      \/ Lock(t) \/ Relock(t) \/ TryLock(t) \/ TryRelock(t)
      \/ WaitFails(t) \/ OnceThrows(t)
  BY DEF Next
<1> DEFINE Others == \A u \in Threads : u # t => at'[u] = at[u]
<1>at. at \in [Threads -> Places] /\ at' \in [Threads -> Places]
  BY DEF IInv, TypeOK
<1>g. ASSUME NEW p, Goes(t, p) PROVE at'[t] = p /\ Others
  BY <1>at, <1>g DEF Goes
<1>k. kind' = kind
  BY DEF Steps, OnceStart, OnceDone, OnceFunc, TestOwner, TakeBack, Enter, Cleanup, Unnest,
     Leave, Release, Take, Lock, Relock, TryLock, TryRelock, WaitFails, OnceThrows
<1>1. CASE OnceStart(t) \/ OnceDone(t) \/ OnceThrows(t) \/ WaitFails(t) \/ Cleanup(t) \/ Release(t)
  <2>1. at[t] \notin Holding /\ at'[t] \notin Holding /\ Others /\ depth' = depth
    BY <1>1, <1>g DEF OnceStart, OnceDone, OnceThrows, WaitFails, Cleanup, Release, Holding,
       once, mutex
  <2> QED BY <2>1, <1>k, Elsewhere
<1>2. CASE OnceFunc(t)
  <2>1. \A u \in Threads : at[u] \notin Holding
    BY <1>2 DEF OnceFunc, IInv, OnceInv, Once, Holding
  <2>2. \A u \in Threads : at'[u] \notin Holding
    BY <2>1, <1>2, <1>g DEF OnceFunc, Holding
  <2> QED BY <2>1, <2>2, HeldByNobody, Functions
<1>3. CASE TestOwner(t)
  <2>1. Goes(t, IF owner = t THEN "back" ELSE "wait") /\ depth' = depth /\ at[t] \in {"test", "retest"}
    BY <1>3 DEF TestOwner, mutex
  <2>2. kind = "recursive" /\ done
    BY <2>1, ThreadsAssumption DEF IInv, TypeOK, OwnerInv, OnceInv, Once
  <2>3. owner = t <=> at[t] = "retest"
    BY <2>1, <2>2 DEF IInv, OwnerInv
  <2>4. CASE at[t] = "test"
    <3>1. at'[t] = "wait" /\ Others
      BY <2>1, <2>3, <2>4, <1>g
    <3>2. at[t] \notin Holding /\ at'[t] \notin Holding
      BY <3>1, <2>4 DEF Holding
    <3> QED BY <3>1, <3>2, <2>1, <1>k, Elsewhere
  <2>5. CASE at[t] = "retest"
    <3>1. at'[t] = "back"
      BY <2>1, <2>3, <2>5, <1>g
    <3> QED BY <3>1, <2>1, <2>2, <2>5, <1>k, Inside DEF Holding
  <2> QED BY <2>1, <2>4, <2>5
<1>4. CASE TakeBack(t)
  <2>1. at[t] = "back" /\ at'[t] = "in" /\ depth' = depth + 1
    BY <1>4, <1>g DEF TakeBack
  <2>2. kind = "recursive"
    BY <2>1, ThreadsAssumption DEF IInv, TypeOK, OwnerInv
  <2>3. Abstract!Reacquire(t)
    BY <2>1, <2>2, <1>k, Inside DEF Holding, Abstract!Reacquire
  <2> QED BY <2>3
<1>5. CASE Enter(t)
  <2>1. at[t] = "enter" /\ at'[t] = "in" /\ depth' = 1
    BY <1>5, <1>g DEF Enter
  <2>2. kind = "recursive"
    BY <2>1, ThreadsAssumption DEF IInv, TypeOK, OwnerInv
  <2> QED BY <2>1, <2>2, <1>k, Inside DEF Holding
<1>6. CASE Unnest(t)
  <2>1. at[t] = "in" /\ kind = "recursive" /\ depth' = depth - 1
        /\ (depth = 1 => Goes(t, "leave")) /\ (depth # 1 => at' = at)
    BY <1>6 DEF Unnest
  <2>2. HeldTimes = depth
    BY <2>1, HeldBy, Functions DEF Holding
  <2>3. CASE depth = 1
    <3>1. at'[t] = "leave" /\ Others
      BY <2>1, <2>3, <1>g
    <3>2. Abstract!Release(t)
      BY <3>1, <2>1, <2>2, <2>3, Releases DEF Holding
    <3> QED BY <3>2
  <2>4. CASE depth # 1
    <3>1. Abstract!Release(t)
      BY <2>1, <2>4, <1>k, Inside DEF Holding, Abstract!Release
    <3> QED BY <3>1
  <2> QED BY <2>3, <2>4
<1>7. CASE Leave(t)
  <2>1. /\ at[t] = "leave" \/ (at[t] = "in" /\ kind = "plain")
        /\ at'[t] \notin Holding /\ Others /\ depth' = depth
    BY <1>7, <1>g DEF Leave, Holding
  <2>2. CASE at[t] = "leave"
    BY <2>1, <2>2, <1>k, Elsewhere DEF Holding
  <2>3. CASE at[t] = "in" /\ kind = "plain"
    <3>1. HeldTimes = 1
      BY <2>3, HeldBy, Functions DEF Holding
    <3>2. Abstract!Release(t)
      BY <3>1, <2>1, <2>3, Releases DEF Holding
    <3> QED BY <3>2
  <2> QED BY <2>1, <2>2, <2>3
<1>8. CASE Take(t) \/ TryLock(t)
  <2>1. at[t] \notin Holding /\ at'[t] = Got /\ Others
    BY <1>8, <1>g DEF Take, TryLock, Holding
  <2>2. Abstract!Acquire(t)
    BY <2>1, <1>k, Acquires
  <2> QED BY <2>2
<1>9. CASE Lock(t)
  <2>1. at[t] \notin Holding /\ Others /\ depth' = depth /\ at'[t] \in {Got, "test", "wait"}
    BY <1>9, <1>g DEF Lock, Holding
  <2>2. CASE at'[t] = Got
    <3>1. Abstract!Acquire(t)
      BY <2>1, <2>2, <1>k, Acquires
    <3> QED BY <3>1
  <2>3. CASE at'[t] \in {"test", "wait"}
    <3>1. at'[t] \notin Holding
      BY <2>3 DEF Holding
    <3> QED BY <3>1, <2>1, <1>k, Elsewhere
  <2> QED BY <2>1, <2>2, <2>3
<1>10. CASE Relock(t)
  <2>1. at[t] = "in" /\ kind = "recursive" /\ depth' = depth
        /\ (at'[t] = Got \/ at'[t] = "retest")
    BY <1>10, <1>g DEF Relock
  <2>2. counter >= 0 /\ counter \in Int
    BY <2>1, CounterSays DEF IInv, TypeOK, OnceInv, Once, Counted, Holding
  <2>3. at'[t] = "retest"
    BY <1>10, <2>2, <1>g DEF Relock
  <2> QED BY <2>1, <2>3, <1>k, Inside DEF Holding
<1>11. CASE TryRelock(t)
  <2>1. at[t] = "in" /\ at' = at /\ kind = "recursive" /\ depth' = depth + 1
    BY <1>11 DEF TryRelock
  <2>2. Abstract!Reacquire(t)
    BY <2>1, <1>k, Inside DEF Holding, Abstract!Reacquire
  <2> QED BY <2>2
<1> QED BY <1>1, <1>2, <1>3, <1>4, <1>5, <1>6, <1>7, <1>8, <1>9, <1>10, <1>11 DEF Steps

\* The plain and the recursive mutex are a RecursiveLock, whatever trylock,
\* failed waits and the once function do, until a failed wait loses a unit
\* (gthr-default.h:636-757).
THEOREM MutexImplementsLock == Spec => ImplementsLock
<1>1. Init => Abstract!Init
  <2> SUFFICES ASSUME Init PROVE Abstract!Init
    OBVIOUS
  <2>1. \A t \in Threads : at[t] \notin Holding
    BY DEF Init, Holding
  <2> QED BY <2>1, HeldByNobody, Functions DEF Abstract!Init
<1>2. IInv /\ IInv' /\ [Next]_vars => [lost' = 0 => Abstract!Next]_<<Holder, HeldTimes>>
  <2> SUFFICES ASSUME IInv, IInv', [Next]_vars, lost' = 0
               PROVE  Abstract!Next \/ UNCHANGED <<Holder, HeldTimes>>
    OBVIOUS
  <2>1. CASE Next
    <3>1. lost = 0
      BY <2>1 DEF Next, Steps, OnceStart, OnceDone, OnceFunc, TestOwner, TakeBack, Enter, Cleanup,
         Unnest, Leave, Release, Take, Lock, Relock, TryLock, TryRelock, WaitFails, OnceThrows,
         IInv, TypeOK
    <3>2. OneHolds(at) /\ OneHolds(at')
      BY <3>1, InvOneHolds
    <3> QED BY <2>1, <3>2, AbstractStep DEF Abstract!Next
  <2>2. CASE UNCHANGED vars
    <3>1. at' = at /\ kind' = kind /\ depth' = depth
      BY <2>2 DEF vars, mutex
    <3> QED BY <3>1, Functions
  <2> QED BY <2>1, <2>2
<1> QED BY <1>1, <1>2, MutexInvariant, PTL DEF Spec, ImplementsLock
=============================================================================
