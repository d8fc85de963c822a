------------------------------ MODULE AtomicTxn ------------------------------
(***************************************************************************)
(* What DBIx::Class promises an application about transactions, with no    *)
(* connections, depth counters or savepoints in sight: the writes of an    *)
(* outermost block become durable together, when its caller is told so, or *)
(* not at all; a write outside any block is durable at once; and writes    *)
(* that were undone stay undone.                                           *)
(***************************************************************************)
CONSTANT Writes

VARIABLES
  inTxn,      \* the application is inside an outermost block
  pending,    \* the writes of that block that still stand
  committed,  \* the durable writes
  acked,      \* the writes whose callers were told they are durable
  failed      \* the writes undone by a rollback or a restart

vars == <<inTxn, pending, committed, acked, failed>>

Init ==
  /\ inTxn = FALSE
  /\ pending = {} /\ committed = {} /\ acked = {} /\ failed = {}

Begin ==
  /\ ~inTxn
  /\ inTxn' = TRUE
  /\ UNCHANGED <<pending, committed, acked, failed>>

Fresh(w) == w \notin pending \cup committed \cup failed

Write(w) ==
  /\ inTxn
  /\ Fresh(w)
  /\ pending' = pending \cup {w}
  /\ UNCHANGED <<inTxn, committed, acked, failed>>

AutoCommit(w) ==
  /\ ~inTxn
  /\ Fresh(w)
  /\ committed' = committed \cup {w}
  /\ acked' = acked \cup {w}
  /\ UNCHANGED <<inTxn, pending, failed>>

\* A savepoint is rolled back, or the whole block starts again.
Undo(ws) ==
  /\ inTxn
  /\ pending' = pending \ ws
  /\ failed' = failed \cup ws
  /\ UNCHANGED <<inTxn, committed, acked>>

Commit ==
  /\ inTxn
  /\ inTxn' = FALSE
  /\ pending' = {}
  /\ committed' = committed \cup pending
  /\ acked' = acked \cup pending
  /\ UNCHANGED failed

Abort ==
  /\ inTxn
  /\ inTxn' = FALSE
  /\ pending' = {}
  /\ failed' = failed \cup pending
  /\ UNCHANGED <<committed, acked>>

Next ==
  \/ Begin \/ Commit \/ Abort
  \/ \E w \in Writes : Write(w) \/ AutoCommit(w)
  \/ \E ws \in SUBSET pending : Undo(ws)

Spec == Init /\ [][Next]_vars

------------------------------------------------------------------------------
TypeOK ==
  /\ inTxn \in BOOLEAN
  /\ pending \subseteq Writes /\ committed \subseteq Writes
  /\ acked \subseteq Writes /\ failed \subseteq Writes

\* What callers were told is exactly what is durable, and neither a failed nor
\* a pending write is part of it.
Atomic ==
  /\ acked = committed
  /\ committed \cap failed = {}
  /\ committed \cap pending = {}
  /\ pending \cap failed = {}
  /\ ~inTxn => pending = {}

==============================================================================
