------------------------------ MODULE ThreadSync ------------------------------
(***************************************************************************)
(* Thread::Queue and Thread::Semaphore: perl threads that share a queue    *)
(* and a semaphore.                                                        *)
(*                                                                         *)
(* A method holds the lock of its object from its first line to its last,  *)
(* except while it is in cond_wait: so each call is one step, or one until *)
(* it goes to sleep and one each time it has been woken and has the lock   *)
(* again. Which sleeper a cond_signal wakes, and who gets the lock next,   *)
(* is anybody's guess; threads that never slept compete for it too.        *)
(***************************************************************************)
EXTENDS Integers, Sequences

CONSTANTS
  Threads,
  Calls,      \* the methods the application uses
  Counts,     \* how many items dequeue asks for
  Amounts,    \* by how much down and up change the semaphore
  Initial,    \* the semaphore's first value
  MaxItems,   \* bound: items put on the queue over the whole run
  MaxValue    \* bound: the semaphore stays in -MaxValue..MaxValue

AllCalls == {"enqueue", "dequeue", "dequeue_nb", "insert", "extract",
             "down", "down_nb", "down_force", "up"}

ASSUME SyncAssumption ==
  /\ Calls \subseteq AllCalls
  /\ Counts \subseteq Nat \ {0}
  /\ Amounts \subseteq Nat \ {0}
  /\ MaxItems \in Nat /\ MaxValue \in Nat
  /\ Initial \in -MaxValue..MaxValue

VARIABLES
  queue,     \* the items of the queue
  sema,      \* the value of the semaphore
  thread,    \* what each thread is doing
  nextItem,  \* items enqueued or inserted so far, plus one
  taken      \* the items returned to a caller

vars == <<queue, sema, thread, nextItem, taken>>

Indices == -(MaxItems + 1)..MaxItems

\* A thread outside the methods, one in cond_wait, and one that was woken and
\* wants the lock back; n is what it waits for.
Running == [pc : {"running"}, on : {"queue"}, n : {0}]
Waiting == [pc : {"asleep", "woken"}, on : {"queue"}, n : Counts]
           \cup [pc : {"asleep", "woken"}, on : {"semaphore"}, n : Amounts]
Run     == [pc |-> "running", on |-> "queue", n |-> 0]

Init ==
  /\ queue = <<>>
  /\ sema = Initial
  /\ thread = [t \in Threads |-> Run]
  /\ nextItem = 1
  /\ taken = {}

------------------------------------------------------------------------------
(* threads::shared *)

Asleep(th, o) == {t \in Threads : th[t].pc = "asleep" /\ th[t].on = o}

Wake(th, ts) == [t \in Threads |-> IF t \in ts THEN [th[t] EXCEPT !.pc = "woken"] ELSE th[t]]

\* The states of the threads after a call of cond_signal.
cond_signal(th, o) ==
  IF Asleep(th, o) = {} THEN {th} ELSE {Wake(th, {t}) : t \in Asleep(th, o)}

cond_broadcast(th, o) == Wake(th, Asleep(th, o))

\* A sleeper may be notified even if nobody signals.
Notified ==
  \E t \in Threads :
    /\ thread[t].pc = "asleep"
    /\ thread' = Wake(thread, {t})
    /\ UNCHANGED <<queue, sema, nextItem, taken>>

Calling(t, m) == m \in Calls /\ thread[t].pc = "running"

------------------------------------------------------------------------------
(* Thread::Queue *)

\* The next k new items.
New(k) == [i \in 1..k |-> nextItem + i - 1]

Elements(q) == {q[i] : i \in DOMAIN q}

Within(i, q) == IF i < Len(q) THEN i ELSE Len(q)

\* Take n items out of q after the first i.
Cut(q, i, n) ==
  [items |-> SubSeq(q, i + 1, Within(i + n, q)),
   rest  |-> SubSeq(q, 1, Within(i, q)) \o SubSeq(q, i + n + 1, Len(q))]

\* Where insert puts its items: a negative index counts from the tail, and one
\* before the head is the head.
insert_position(q, index) ==
  IF index >= 0 THEN Within(index, q) ELSE IF index + Len(q) < 0 THEN 0 ELSE index + Len(q)

inserted_drops_tail(q, i, new) == SubSeq(q, 1, i) \o new

inserted_reverses_tail(q, i, new) ==
  SubSeq(q, 1, i) \o new \o [j \in 1..(Len(q) - i) |-> q[Len(q) + 1 - j]]

\* q with new items after the first i
inserted(q, i, new) == SubSeq(q, 1, i) \o new \o SubSeq(q, i + 1, Len(q))

extracted_keeps_count(q, index, count) ==
  LET i == IF index < 0 THEN index + Len(q) ELSE index
  IN  IF i >= 0 THEN Cut(q, i, count) ELSE Cut(q, 0, count)

\* What extract takes and leaves; an index before the head shortens count.
extracted(q, index, count) ==
  LET i == IF index < 0 THEN index + Len(q) ELSE index
  IN  IF i >= 0 THEN Cut(q, i, count)
      ELSE IF count + i <= 0 THEN Cut(q, 0, 0)
      ELSE Cut(q, 0, count + i)

signal_if_empty(th, q, k) == IF q = <<>> THEN cond_signal(th, "queue") ELSE {th}

\* k items were added to q: push returns the queue's new length, and 0 is false.
signal_added(th, q, k) == IF q = <<>> /\ k = 0 THEN {th} ELSE cond_signal(th, "queue")

Enqueue ==
  \E t \in Threads, k \in 0..MaxItems :
    /\ Calling(t, "enqueue")
    /\ nextItem + k <= MaxItems + 1
    /\ queue' = queue \o New(k)
    /\ nextItem' = nextItem + k
    /\ thread' \in signal_added(thread, queue, k)
    /\ UNCHANGED <<sema, taken>>

signal_more_never(th, n) == {th}

\* dequeue found n items or more: it passes the signal on if some are left.
signal_more(th, n) == IF Len(queue) > n THEN cond_signal(th, "queue") ELSE {th}

\* dequeue, from its start or from cond_wait
Dequeue(t, n) ==
  IF Len(queue) >= n
  THEN /\ thread' \in signal_more([thread EXCEPT ![t] = Run], n)
       /\ queue' = Cut(queue, 0, n).rest
       /\ taken' = taken \cup Elements(Cut(queue, 0, n).items)
       /\ UNCHANGED <<sema, nextItem>>
  ELSE /\ thread' = [thread EXCEPT ![t] = [pc |-> "asleep", on |-> "queue", n |-> n]]
       /\ UNCHANGED <<queue, sema, nextItem, taken>>

CallDequeue == \E t \in Threads, n \in Counts : Calling(t, "dequeue") /\ Dequeue(t, n)

DequeueNb ==
  \E t \in Threads, n \in 1..MaxItems :
    /\ Calling(t, "dequeue_nb")
    /\ queue' = Cut(queue, 0, n).rest
    /\ taken' = taken \cup Elements(Cut(queue, 0, n).items)
    /\ UNCHANGED <<sema, thread, nextItem>>

Insert ==
  \E t \in Threads, index \in Indices, k \in 1..MaxItems :
    /\ Calling(t, "insert")
    /\ nextItem + k <= MaxItems + 1
    /\ queue' = inserted(queue, insert_position(queue, index), New(k))
    /\ nextItem' = nextItem + k
    /\ thread' \in cond_signal(thread, "queue")
    /\ UNCHANGED <<sema, taken>>

Extract ==
  \E t \in Threads, index \in Indices, n \in 1..MaxItems :
    /\ Calling(t, "extract")
    /\ queue' = extracted(queue, index, n).rest
    /\ taken' = taken \cup Elements(extracted(queue, index, n).items)
    /\ UNCHANGED <<sema, thread, nextItem>>

------------------------------------------------------------------------------
(* Thread::Semaphore *)

\* down, from its start or from cond_wait
Down(t, n) ==
  /\ IF sema >= n
     THEN /\ sema' = sema - n
          /\ thread' = [thread EXCEPT ![t] = Run]
     ELSE /\ thread' = [thread EXCEPT ![t] = [pc |-> "asleep", on |-> "semaphore", n |-> n]]
          /\ UNCHANGED sema
  /\ UNCHANGED <<queue, nextItem, taken>>

CallDown == \E t \in Threads, n \in Amounts : Calling(t, "down") /\ Down(t, n)

DownNb_unchecked ==
  \E t \in Threads, n \in Amounts :
    /\ Calling(t, "down_nb")
    /\ sema' = sema - n
    /\ UNCHANGED <<queue, thread, nextItem, taken>>

DownNb ==
  \E t \in Threads, n \in Amounts :
    /\ Calling(t, "down_nb")
    /\ sema >= n
    /\ sema' = sema - n
    /\ UNCHANGED <<queue, thread, nextItem, taken>>

DownForce ==
  \E t \in Threads, n \in Amounts :
    /\ Calling(t, "down_force")
    /\ sema - n >= -MaxValue
    /\ sema' = sema - n
    /\ UNCHANGED <<queue, thread, nextItem, taken>>

notified_by_up_one(th, value) == IF value > 0 THEN cond_signal(th, "semaphore") ELSE {th}
notified_by_up_late(th, value) == {IF value > 1 THEN cond_broadcast(th, "semaphore") ELSE th}

\* up has set the semaphore to value.
notified_by_up(th, value) == {IF value > 0 THEN cond_broadcast(th, "semaphore") ELSE th}

Up ==
  \E t \in Threads, n \in Amounts :
    /\ Calling(t, "up")
    /\ sema + n <= MaxValue
    /\ sema' = sema + n
    /\ thread' \in notified_by_up(thread, sema + n)
    /\ UNCHANGED <<queue, nextItem, taken>>

------------------------------------------------------------------------------
\* A thread that was woken has the lock again and tests its condition.
Resume(t) ==
  /\ thread[t].pc = "woken"
  /\ \/ thread[t].on = "queue" /\ Dequeue(t, thread[t].n)
     \/ thread[t].on = "semaphore" /\ Down(t, thread[t].n)

Next ==
  \/ Enqueue \/ CallDequeue \/ DequeueNb \/ Insert \/ Extract
  \/ CallDown \/ DownNb \/ DownForce \/ Up
  \/ Notified
  \/ \E t \in Threads : Resume(t)

\* A thread that was woken gets the lock some day: every method gives it back.
Spec == Init /\ [][Next]_vars /\ \A t \in Threads : WF_vars(Resume(t))

------------------------------------------------------------------------------
(* Properties *)

\* The variables keep their types, and the semaphore stays between its bounds:
\* down and down_nb only take what is there.
TypeOK ==
  /\ queue \in Seq(Nat) /\ taken \subseteq Nat
  /\ nextItem \in 1..(MaxItems + 1)
  /\ sema \in -MaxValue..MaxValue
  /\ thread \in [Threads -> Running \cup Waiting]

Woken(o) == {t \in Threads : thread[t].pc = "woken" /\ thread[t].on = o}

\* While a thread sleeps in dequeue although the queue holds all it asked for,
\* another was woken and has yet to look at the queue: the one signal of
\* enqueue, insert and dequeue is passed on until the items are gone.
DequeueAwake ==
  \A t \in Asleep(thread, "queue") : Len(queue) >= thread[t].n => Woken("queue") # {}

\* No thread sleeps in down while the semaphore is high enough for it,
\* whatever amounts the threads use.
DownAwake == \A t \in Asleep(thread, "semaphore") : sema < thread[t].n

\* No item is lost, returned twice or made up, whatever the indices and counts
\* of insert and extract.
ItemsOnce ==
  /\ \A i, j \in DOMAIN queue : queue[i] = queue[j] => i = j
  /\ Elements(queue) \cap taken = {}
  /\ Elements(queue) \cup taken = 1..(nextItem - 1)

Before(q, x, y) == \E i, j \in DOMAIN q : i < j /\ q[i] = x /\ q[j] = y

\* Two items that stay in the queue stay in their order.
OrderKept ==
  [][\A i, j \in DOMAIN queue : i < j => ~ Before(queue', queue[j], queue[i])]_queue

\* s has the items of q at the positions P, in their order.
Picks(s, q, P) ==
  /\ Elements(s) = {q[p] : p \in P}
  /\ \A i, j \in DOMAIN s : i < j => Before(q, s[i], s[j])

\* extract takes the items at the positions from index on, count of them, as
\* far as the queue has them, and leaves the others; a negative index counts
\* from the tail.
ExtractsWindow ==
  \A index \in Indices, count \in 1..MaxItems :
    LET e      == extracted(queue, index, count)
        from   == IF index < 0 THEN index + Len(queue) ELSE index
        window == {p \in DOMAIN queue : from < p /\ p <= from + count}
    IN  Picks(e.items, queue, window) /\ Picks(e.rest, queue, DOMAIN queue \ window)

Waits(t, o) == thread[t].pc # "running" /\ thread[t].on = o

Servable == \E t \in Threads : Waits(t, "queue") /\ Len(queue) >= thread[t].n

\* As long as a thread waits in dequeue and the queue holds what it asked for,
\* items go on being taken, by this thread or another.
ItemsServed == []<>(~ Servable) \/ []<><<taken' # taken>>_taken

\* A thread that waits in down returns, unless the semaphore falls below what
\* it waits for.
UnitsServed ==
  \A t \in Threads :
    (Waits(t, "semaphore") /\ sema >= thread[t].n)
      ~> (thread[t].pc = "running" \/ sema < thread[t].n)
==============================================================================
