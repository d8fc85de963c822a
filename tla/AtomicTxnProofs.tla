--------------------------- MODULE AtomicTxnProofs ---------------------------
(***************************************************************************)
(* The promise of AtomicTxn is coherent for every set of writes.           *)
(***************************************************************************)
EXTENDS AtomicTxn, TLAPS

IInv == TypeOK /\ Atomic

\* What the application was told, what is durable and what was undone never
\* contradict each other: DBIx::Class's "atomically", stated abstractly.
THEOREM AtomicTxnCorrect == Spec => [](TypeOK /\ Atomic)
<1>1. Init => IInv
  BY DEF Init, IInv, TypeOK, Atomic
<1>2. IInv /\ [Next]_vars => IInv'
  <2> SUFFICES ASSUME IInv, [Next]_vars PROVE IInv'
    OBVIOUS
  <2> USE DEF IInv, TypeOK, Atomic
  <2>1. CASE Begin
    BY <2>1 DEF Begin
  <2>2. CASE Commit
    BY <2>2 DEF Commit
  <2>3. CASE Abort
    BY <2>3 DEF Abort
  <2>4. ASSUME NEW w \in Writes, Write(w) PROVE IInv'
    BY <2>4 DEF Write, Fresh
  <2>5. ASSUME NEW w \in Writes, AutoCommit(w) PROVE IInv'
    BY <2>5 DEF AutoCommit, Fresh
  <2>6. ASSUME NEW ws \in SUBSET pending, Undo(ws) PROVE IInv'
    BY <2>6 DEF Undo
  <2>7. CASE UNCHANGED vars
    BY <2>7 DEF vars
  <2> QED
    BY <2>1, <2>2, <2>3, <2>4, <2>5, <2>6, <2>7 DEF Next
<1> QED
  BY <1>1, <1>2, PTL DEF Spec, IInv

==============================================================================
