----------------------------- MODULE DBICStorage -----------------------------
(***************************************************************************)
(* Transactions of DBIx::Class::Storage::DBI: one storage object of one    *)
(* process, the database session behind it, and an application that nests  *)
(* txn_do blocks, scope guards and eval blocks in any order.               *)
(*                                                                         *)
(* The application is the nondeterministic part: at each point its code    *)
(* may run a statement, open or leave a scope, throw, or use savepoints.   *)
(* A handler of the storage class (txn_begin, svp_release, dbh_do, ...)    *)
(* is an operator from a state of the storage and its session to the SET   *)
(* of states it may leave them in, one per way the database can answer.    *)
(* The handle is in AutoCommit mode, which DBIx::Class sets by default.    *)
(***************************************************************************)
EXTENDS Integers, Sequences, FiniteSets

CONSTANTS
  AutoSavepoint,  \* the auto_savepoint connection attribute
  Calls,          \* optional parts of the interface the application uses
  Faults,         \* what can go wrong in the database and its connection
  MaxWrites,      \* bound: writes an application issues over the whole run
  MaxFrames       \* bound: nesting of scopes and eval blocks, and names of
                  \* savepoints the storage has on its stack

AllCalls  == {"txn_do", "guard", "eval", "svp", "dbh", "disconnect",
              "disconnectInScope"}   \* disconnect in the middle of a scope too
AllFaults == {"drop",        \* the connection is lost; the server rolls back
              "outage",      \* a connection attempt is refused
              "ackLost",     \* COMMIT is done but its answer is lost
              "sqlError",    \* a statement is refused, the session lives on
              "commitError", "rollbackError", "savepointError"}

ASSUME StorageAssumption ==
  /\ AutoSavepoint \in BOOLEAN
  /\ Calls \subseteq AllCalls
  /\ Faults \subseteq AllFaults
  /\ MaxWrites \in Nat
  /\ MaxFrames \in Nat

VARIABLES
  st,        \* the storage object and its database session
  stack,     \* the blocks the application is in, innermost last
  exc,       \* the exception being propagated
  nextw,     \* the next write the application will issue
  claims,    \* writes the application was told are durable
  points,    \* the savepoints the application has set, and what it had written
  aborted,   \* writes of outermost scopes that failed or were restarted
  undone     \* writes of scopes, at any level, that failed or were restarted

vars == <<st, stack, exc, nextw, claims, points, aborted, undone>>

Writes == 1..MaxWrites
Default == -1    \* a savepoint name left out by the caller
\* A name of the caller's own: the storage makes up savepoint_0, _1, ... for
\* savepoints it gives no name to, and MaxFrames bounds how many.
Named == MaxFrames

Session ==
  [dbh       : {"none", "live", "dead"},  \* _dbh: undef, answering, stale
   depth     : Nat,                       \* transaction_depth
   svps      : Seq(Nat),                  \* savepoints
   open      : BOOLEAN,                   \* server: a transaction is open
   work      : SUBSET Writes,             \* server: its uncommitted writes
   marks     : Seq([name : Nat, work : SUBSET Writes]), \* server: savepoints
   committed : SUBSET Writes,             \* server: the durable writes
   err       : {"none", "error", "nested"}]  \* what the last handler threw

Frame == [kind  : {"txn_do", "bypass", "guard", "eval"},
          tried : BOOLEAN,                \* txn_do: $tried
          work  : SUBSET Writes]          \* writes issued inside it

Point == [name : {Default, Named}, work : SUBSET Writes]

------------------------------------------------------------------------------
(* Outcomes *)

Fail(s)   == [s EXCEPT !.err = "error"]
Caught(s) == [s EXCEPT !.err = "none"]

\* Run Op on the outcomes of a handler that did not throw.
Then(S, Op(_)) == UNION {IF t.err = "none" THEN Op(t) ELSE {t} : t \in S}

\* The connection goes away: the server rolls back the open transaction.
Lost(s) == [s EXCEPT !.dbh = "dead", !.open = FALSE,
                     !.work = {}, !.marks = <<>>]

\* One statement: it is done, it is refused, or the connection is lost.
Statement(s, fault, done) ==
  IF s.dbh # "live" THEN {Fail(s)}
  ELSE {done} \cup {Fail(s) : f \in Faults \cap {fault}}
              \cup {Fail(Lost(s)) : f \in Faults \cap {"drop"}}

------------------------------------------------------------------------------
(* Connection management *)

\* A name that extends the name of the definition after it, here and below, is
\* a wrong variant of that definition, kept to see the properties reject it.
populate_dbh_keeps_depth(s) ==
  {[s EXCEPT !.dbh = "live"]}
    \cup {Fail([s EXCEPT !.dbh = "none"]) : f \in Faults \cap {"outage"}}

populate_dbh(s) ==
  {[s EXCEPT !.dbh = "live", !.depth = 0]}
    \cup {Fail([s EXCEPT !.dbh = "none"]) : f \in Faults \cap {"outage"}}

connected(s) == s.dbh = "live"

get_dbh(s) == IF s.dbh = "none" THEN populate_dbh(s) ELSE {s}

------------------------------------------------------------------------------
(* The server's side of a transaction *)

BEGIN(s) ==
  IF s.open THEN {Fail(s)}
  ELSE Statement(s, "sqlError", [s EXCEPT !.open = TRUE])

Closed(s) == [s EXCEPT !.open = FALSE, !.work = {}, !.marks = <<>>]

COMMIT(s) ==
  LET done == [Closed(s) EXCEPT !.committed = @ \cup s.work]
  IN  Statement(s, "commitError", done)
        \cup {Fail(Lost(done)) : f \in Faults \cap
                 (IF connected(s) THEN {"ackLost"} ELSE {})}

ROLLBACK(s) == Statement(s, "rollbackError", Closed(s))

\* A write joins the open transaction; without one it is durable at once.
WRITE(s, w) ==
  Statement(s, "sqlError",
            IF s.open THEN [s EXCEPT !.work = @ \cup {w}]
                      ELSE [s EXCEPT !.committed = @ \cup {w}])

\* What dbh_do is given to run: BEGIN, or one write.
BeginWork == 0
Code(s, w) == IF w = BeginWork THEN BEGIN(s) ELSE WRITE(s, w)

dbh_do_in_transactions(s, in_dbh_do, w) ==
  Then(get_dbh(s), LAMBDA c :
    UNION {IF t.err = "none" \/ connected(t) THEN {t}
           ELSE Then(populate_dbh(Caught(t)), LAMBDA r : Code(r, w)) : t \in Code(c, w)})

\* Outside transactions a lost connection is replaced and the code rerun.
dbh_do(s, in_dbh_do, w) ==
  Then(get_dbh(s), LAMBDA c :
    IF in_dbh_do \/ c.depth > 0 THEN Code(c, w)
    ELSE UNION {IF t.err = "none" \/ connected(t) THEN {t}
                ELSE Then(populate_dbh(Caught(t)), LAMBDA r : Code(r, w)) : t \in Code(c, w)})

Positions(seq, Test(_)) == {i \in DOMAIN seq : Test(seq[i])}
Greatest(S) == CHOOSE i \in S : \A j \in S : j <= i

SAVEPOINT(s, name) ==
  Statement(s, "savepointError",
            IF s.open
            THEN [s EXCEPT !.marks = Append(@, [name |-> name, work |-> s.work])]
            ELSE s)

\* Both forms refuse a name that is not set and drop the later savepoints.
ToSavepoint(s, name, Done(_, _)) ==
  LET at == Positions(s.marks, LAMBDA m : m.name = name)
  IN  IF at = {} THEN {Fail(s)}
      ELSE Statement(s, "savepointError", Done(s, Greatest(at)))

RELEASE_SAVEPOINT(s, name) ==
  ToSavepoint(s, name, LAMBDA t, i :
    [t EXCEPT !.marks = SubSeq(@, 1, i - 1)])

ROLLBACK_TO_SAVEPOINT(s, name) ==
  ToSavepoint(s, name, LAMBDA t, i :
    [t EXCEPT !.marks = SubSeq(@, 1, i), !.work = t.marks[i].work])

------------------------------------------------------------------------------
(* Savepoints *)

svp_generate_name_last(s) == Len(s.svps) - 1

svp_generate_name(s) == Len(s.svps)

svp_begin(s, name) ==
  LET n == IF name = Default THEN svp_generate_name(s) ELSE name
  IN  IF s.depth = 0 THEN {Fail(s)}
      ELSE Then(get_dbh([s EXCEPT !.svps = Append(@, n)]),
                LAMBDA t : SAVEPOINT(t, n))

\* Where a named savepoint is in the storage's stack, or its top; 0 if absent.
svp_position(s, name) ==
  LET at == IF name = Default THEN DOMAIN s.svps
            ELSE Positions(s.svps, LAMBDA n : n = name)
  IN  IF at = {} THEN 0 ELSE Greatest(at)

svp_release(s, name) ==
  LET i == svp_position(s, name)
  IN  IF s.depth = 0 \/ i = 0 THEN {Fail(s)}
      ELSE Then(get_dbh([s EXCEPT !.svps = SubSeq(@, 1, i - 1)]),
                LAMBDA t : RELEASE_SAVEPOINT(t, s.svps[i]))

\* The name is not looked for.
svp_rollback_last(s, name) ==
  LET i == Len(s.svps)
  IN  IF s.depth = 0 \/ i = 0 THEN {Fail(s)}
      ELSE Then(get_dbh(s), LAMBDA t : ROLLBACK_TO_SAVEPOINT(t, s.svps[i]))

svp_rollback(s, name) ==
  LET i == svp_position(s, name)
  IN  IF s.depth = 0 \/ i = 0 THEN {Fail(s)}
      ELSE Then(get_dbh([s EXCEPT !.svps = SubSeq(@, 1, i)]),
                LAMBDA t : ROLLBACK_TO_SAVEPOINT(t, s.svps[i]))

------------------------------------------------------------------------------
(* Transactions *)

dbh_begin_work_assumed(s, in_dbh_do) ==
  IF in_dbh_do THEN {s} ELSE dbh_do(s, in_dbh_do, BeginWork)

dbh_begin_work(s, in_dbh_do) ==
  IF in_dbh_do THEN BEGIN(s) ELSE dbh_do(s, in_dbh_do, BeginWork)

txn_begin_uncounted(s, in_dbh_do) ==
  Then(CASE s.depth = 0                  -> dbh_begin_work(s, in_dbh_do)
         [] s.depth > 0 /\ AutoSavepoint -> svp_begin(s, Default)
         [] OTHER                        -> {s},
       LAMBDA t : {[t EXCEPT !.depth = 1]})

txn_begin(s, in_dbh_do) ==
  Then(CASE s.depth = 0                  -> dbh_begin_work(s, in_dbh_do)
         [] s.depth > 0 /\ AutoSavepoint -> svp_begin(s, Default)
         [] OTHER                        -> {s},
       LAMBDA t : {[t EXCEPT !.depth = @ + 1]})

\* On a handle with no open transaction DBI's commit and rollback only warn.
dbh_commit(s)   == IF connected(s) /\ ~s.open THEN {s} ELSE COMMIT(s)
dbh_rollback(s) == IF connected(s) /\ ~s.open THEN {s} ELSE ROLLBACK(s)

Inner(s) == [s EXCEPT !.depth = @ - 1]

txn_commit_forgets(s) ==
  CASE s.depth = 0 -> {s}
    [] s.depth = 1 -> {[s EXCEPT !.depth = 0]}
    [] OTHER -> IF AutoSavepoint THEN svp_release(Inner(s), Default) ELSE {Inner(s)}

txn_commit(s) ==
  CASE s.depth = 0 -> {s}
    [] s.depth = 1 -> Then(dbh_commit(s), LAMBDA t : {[t EXCEPT !.depth = 0]})
    [] OTHER -> IF AutoSavepoint THEN svp_release(Inner(s), Default) ELSE {Inner(s)}

rollback_outermost_keeps_depth(s) == dbh_rollback(s)
rollback_outermost_commits(s) == dbh_commit([s EXCEPT !.depth = 0])

rollback_outermost(s) == dbh_rollback([s EXCEPT !.depth = 0])

rollback_inner_releases(s) ==
  IF AutoSavepoint THEN svp_release(s, Default) ELSE {s}

rollback_inner(s) ==
  IF AutoSavepoint
  THEN Then(svp_rollback(s, Default), LAMBDA t : svp_release(t, Default))
  ELSE {s}

\* A failed rollback resets the depth, so that the next scope starts afresh.
RolledBack(S) == {IF t.err = "error" THEN [t EXCEPT !.depth = 0] ELSE t : t \in S}

txn_rollback_unchecked(s) ==
  RolledBack(IF s.depth = 1 THEN rollback_outermost(s) ELSE rollback_inner(Inner(s)))

txn_rollback(s) ==
  RolledBack(CASE s.depth = 0 -> {[s EXCEPT !.err = "nested"]}
               [] s.depth = 1 -> rollback_outermost(s)
               [] OTHER -> rollback_inner(Inner(s)))

------------------------------------------------------------------------------
(* The application's blocks *)

Scopes(stk)  == {i \in DOMAIN stk : stk[i].kind # "eval"}
Counted(stk) == {i \in DOMAIN stk : stk[i].kind \in {"txn_do", "guard"}}
WorkOf(stk)  == UNION {stk[i].work : i \in DOMAIN stk}
InScope == Scopes(stack) # {}

\* _in_dbh_do is local to dbh_do and txn_do: set while a txn_do is running.
in_dbh_do == \E i \in DOMAIN stack : stack[i].kind = "txn_do"

Top == stack[Len(stack)]
Below == SubSeq(stack, 1, Len(stack) - 1)

NewFrame(kind) == [kind |-> kind, tried |-> FALSE, work |-> {}]
Push(kind) == stack' = Append(stack, NewFrame(kind))

AddWork(stk, ws) == [stk EXCEPT ![Len(stk)].work = @ \cup ws]

\* Leave the top block; its writes now share the fate of the block around it.
Merged == IF Scopes(Below) = {} THEN Below ELSE AddWork(Below, Top.work)

OpenWork == WorkOf(stack)

\* The application's savepoints end with its transaction.
Standing == points' = IF Scopes(stack') = {} THEN <<>> ELSE points

\* Bookkeeping for a top block that returns normally.
Succeed ==
  /\ stack' = Merged
  /\ Standing
  /\ claims' = IF Scopes(Below) = {} THEN claims \cup Top.work ELSE claims
  /\ UNCHANGED <<aborted, undone>>

\* ... and for one that fails. Only a savepoint undoes it on its own.
Disown(ws, outermost) ==
  /\ undone' = undone \cup ws
  /\ aborted' = IF outermost THEN aborted \cup ws ELSE aborted
  /\ UNCHANGED claims

GiveUp ==
  /\ stack' = IF AutoSavepoint THEN Below ELSE Merged
  /\ Standing
  /\ Disown(Top.work, Scopes(Below) = {})

Bookless == UNCHANGED <<claims, points, aborted, undone>>

\* The application goes on in state s, or with the exception s carries.
Settle(s) == st' = Caught(s) /\ exc' = s.err

Running == exc = "none"
MayNest == Running /\ Len(stack) < MaxFrames

\* Names stay on the savepoints stack when a transaction ends: with
\* auto_savepoint a new scope is only entered while there are few.
FewNames == AutoSavepoint => Len(st.svps) < MaxFrames

------------------------------------------------------------------------------
Init ==
  /\ st = [dbh |-> "none", depth |-> 0, svps |-> <<>>, open |-> FALSE,
           work |-> {}, marks |-> <<>>, committed |-> {}, err |-> "none"]
  /\ stack = <<>>
  /\ exc = "none"
  /\ nextw = 1
  /\ points = <<>>
  /\ claims = {} /\ aborted = {} /\ undone = {}

\* The loop body of txn_do up to the coderef.
txn_do_attempt(s) == Then(get_dbh(s), LAMBDA t : txn_begin(t, TRUE))

TxnDo ==
  /\ MayNest /\ FewNames
  /\ "txn_do" \in Calls
  /\ IF st.depth > 0 /\ ~AutoSavepoint
     THEN Push("bypass") /\ UNCHANGED <<st, exc>>
     ELSE /\ Push("txn_do")
          /\ \E s \in txn_do_attempt(st) : Settle(s)
  /\ Bookless
  /\ UNCHANGED nextw

GuardNew ==
  /\ MayNest /\ FewNames
  /\ "guard" \in Calls
  /\ \E s \in txn_begin(st, in_dbh_do) :
       /\ Settle(s)
       /\ IF s.err = "none" THEN Push("guard") ELSE UNCHANGED stack
  /\ Bookless
  /\ UNCHANGED nextw

EvalBegin ==
  /\ MayNest
  /\ "eval" \in Calls
  /\ Push("eval")
  /\ Bookless
  /\ UNCHANGED <<st, exc, nextw>>

\* A block's code returns (or calls $guard->commit as its last act).
Return ==
  /\ Running
  /\ stack # <<>>
  /\ \E s \in IF Top.kind \in {"txn_do", "guard"} THEN txn_commit(st) ELSE {st} :
       /\ Settle(s)
       /\ IF s.err = "none" THEN Succeed ELSE Bookless /\ UNCHANGED stack
  /\ UNCHANGED nextw

\* A guard leaves its scope, uncommitted and without an exception.
GuardAbandon ==
  /\ Running
  /\ stack # <<>>
  /\ Top.kind = "guard"
  /\ \E s \in txn_rollback(st) : st' = Caught(s)
  /\ GiveUp
  /\ UNCHANGED <<exc, nextw>>

Write ==
  /\ Running
  /\ nextw \in Writes
  /\ \E s \in dbh_do(st, in_dbh_do, nextw) :
       /\ Settle(s)
       /\ IF s.err # "none" THEN UNCHANGED <<stack, nextw, claims>>
          ELSE /\ nextw' = nextw + 1
               /\ IF InScope
                  THEN stack' = AddWork(stack, {nextw}) /\ UNCHANGED claims
                  ELSE claims' = claims \cup {nextw} /\ UNCHANGED stack
  /\ UNCHANGED <<points, aborted, undone>>

Throw ==
  /\ Running
  /\ stack # <<>>
  /\ exc' = "error"
  /\ UNCHANGED <<st, stack, nextw, claims, points, aborted, undone>>

Rethrown_quiet(s) == exc

\* What a rollback that failed turns the exception into: "Rollback failed".
Rethrown(s) == IF s.err = "error" THEN "rollbackFailed" ELSE exc

no_retry_uncounted(frame, s) == connected(s)

\* Whether txn_do's handler gives up, or may run the coderef a second time.
no_retry(frame, s) == frame.tried \/ connected(s)

\* txn_do's handler: roll back and rethrow, or reconnect and try once more.
UnwindTxnDo ==
  /\ Top.kind = "txn_do"
  /\ IF no_retry(Top, st)
     THEN /\ \E s \in txn_rollback(st) : st' = Caught(s) /\ exc' = Rethrown(s)
          /\ GiveUp
     ELSE \E s \in populate_dbh(st) :
            IF s.err # "none" THEN Settle(s) /\ GiveUp
            ELSE /\ \E t \in txn_do_attempt(s) : Settle(t)
                 /\ stack' = [stack EXCEPT ![Len(stack)] =
                                [@ EXCEPT !.tried = TRUE, !.work = {}]]
                 /\ points' = <<>>
                 /\ Disown(Top.work, Scopes(Below) = {})

\* DESTROY of a guard the exception passes. The rollback's error is kept.
UnwindGuard ==
  /\ Top.kind = "guard"
  /\ \E s \in txn_rollback(st) :
       st' = Caught(s) /\ exc' = IF s.err = "error" THEN "rollbackFailed" ELSE exc
  /\ GiveUp

UnwindBypass ==
  /\ Top.kind = "bypass"
  /\ GiveUp
  /\ UNCHANGED <<st, exc>>

\* The application catches the exception.
UnwindEval ==
  /\ Top.kind = "eval"
  /\ exc' = "none"
  /\ Succeed
  /\ UNCHANGED st

Unwind ==
  /\ ~Running
  /\ IF stack = <<>>
     THEN exc' = "none" /\ Bookless /\ UNCHANGED <<st, stack>>
     ELSE UnwindTxnDo \/ UnwindGuard \/ UnwindBypass \/ UnwindEval
  /\ UNCHANGED nextw

\* Which of its savepoints a call of the application means: the last of that
\* name, or without a name the last; 0 if it has none.  With auto_savepoint a
\* call without a name can also mean the savepoint of a block, which is not here.
Meant(name) ==
  LET at == IF name = Default THEN DOMAIN points
            ELSE Positions(points, LAMBDA p : p.name = name)
  IN  IF at = {} THEN 0 ELSE Greatest(at)

\* The application's open savepoints are bounded by MaxFrames.
SvpBegin(name) ==
  /\ Len(st.svps) < MaxFrames
  /\ \E s \in svp_begin(st, name) :
       /\ Settle(s)
       /\ points' = IF s.err # "none" THEN points
                    ELSE Append(points, [name |-> name, work |-> OpenWork])
  /\ UNCHANGED <<stack, undone>>

SvpRelease(name) ==
  /\ \E s \in svp_release(st, name) :
       /\ Settle(s)
       /\ points' = IF s.err # "none" THEN points
                    ELSE SubSeq(points, 1, Meant(name) - 1)
  /\ UNCHANGED <<stack, undone>>

\* What it wrote since the savepoint it means is no longer part of its blocks.
SvpRollback(name) ==
  \E s \in svp_rollback(st, name) :
    LET i    == Meant(name)
        gone == IF s.err # "none" \/ i = 0 THEN {} ELSE OpenWork \ points[i].work
    IN  /\ Settle(s)
        /\ points' = IF s.err # "none" THEN points ELSE SubSeq(points, 1, i)
        /\ stack' = [j \in DOMAIN stack |-> [stack[j] EXCEPT !.work = @ \ gone]]
        /\ undone' = undone \cup gone

\* The application uses savepoints itself, with a name or without.
SvpCall ==
  /\ Running
  /\ "svp" \in Calls
  /\ \E name \in {Default, Named} :
        SvpBegin(name) \/ SvpRelease(name) \/ SvpRollback(name)
  /\ UNCHANGED <<nextw, claims, aborted>>

\* $storage->dbh: ping, and reconnect if there is no answer.
CallDbh ==
  /\ Running
  /\ "dbh" \in Calls
  /\ ~connected(st)
  /\ \E s \in populate_dbh(st) : Settle(s)
  /\ Bookless
  /\ UNCHANGED <<stack, nextw>>

\* $storage->disconnect.  It does not look at the depth.
Disconnect ==
  /\ Running
  /\ "disconnect" \in Calls
  /\ InScope => "disconnectInScope" \in Calls
  /\ st.dbh # "none"
  /\ st' = [Lost(st) EXCEPT !.dbh = "none"]
  /\ Bookless
  /\ UNCHANGED <<stack, exc, nextw>>

\* The server times the session out, or is restarted, between two statements.
Drop ==
  /\ "drop" \in Faults
  /\ connected(st)
  /\ st' = Lost(st)
  /\ Bookless
  /\ UNCHANGED <<stack, exc, nextw>>

Next ==
  \/ TxnDo \/ GuardNew \/ EvalBegin \/ Return \/ GuardAbandon
  \/ Write \/ Throw \/ Unwind \/ SvpCall \/ CallDbh \/ Disconnect \/ Drop

\* An exception that has been thrown propagates: perl runs the handlers.
Spec == Init /\ [][Next]_vars /\ WF_vars(Unwind)

------------------------------------------------------------------------------
(* Properties *)

\* Type invariant: between two steps no handler is half done (err is "none").
TypeOK ==
  /\ st \in Session /\ st.err = "none"
  /\ stack \in Seq(Frame) /\ Len(stack) <= MaxFrames
  /\ exc \in {"none", "error", "rollbackFailed"}
  /\ nextw \in 1..(MaxWrites + 1)
  /\ points \in Seq(Point)
  /\ claims \subseteq Writes /\ aborted \subseteq Writes /\ undone \subseteq Writes

\* txn_do and txn_scope_guard report success only for writes that are durable:
\* all of them, whatever blocks were nested in the outermost one.
ClaimsDurable == claims \subseteq st.committed

\* Nothing is left behind by an outermost scope that failed, nor by the
\* attempt txn_do threw away when it reconnected and ran its coderef again.
AbortedInvisible == aborted \cap st.committed = {}

\* A scope at any level that failed leaves nothing behind.
UndoneInvisible == undone \cap st.committed = {}

\* While a scope is open none of its writes can be seen by anyone else.
InFlightInvisible == InScope => OpenWork \cap st.committed = {}

\* transaction_depth counts the scopes the application is in, and the server
\* has a transaction open exactly when the storage believes so.
DepthMatches ==
  Running =>
    /\ st.depth = Cardinality(Counted(stack))
    /\ connected(st) => (st.open <=> st.depth > 0)

\* A txn_do that ends with the transaction it began still open on the server,
\* or an inner one whose failed rollback has reset the depth to 0, says so: "If
\* the rollback fails, an exception is thrown that includes a Rollback failed
\* message" (Storage.pm, txn_do).
RollbackFailureTold ==
  [][(/\ stack # <<>> /\ Top.kind = "txn_do" /\ Len(stack') < Len(stack)
      /\ \/ st.depth = 1 /\ st'.open
         \/ st.depth > 1 /\ st'.depth = 0) => exc' = "rollbackFailed"]_vars

\* Seen from outside, the storage is the atomic transactions it promises. With
\* savepoints a failed inner scope is undone on its own; without, only with
\* the outermost one.
Promise == INSTANCE AtomicTxn WITH
  inTxn <- InScope, pending <- IF InScope THEN OpenWork ELSE {},
  committed <- st.committed, acked <- claims,
  failed <- IF AutoSavepoint THEN undone ELSE aborted

\* The storage implements AtomicTxn: every step is one of its steps or none.
ImplementsAtomicTxn == Promise!Spec

\* An exception always reaches the application: reconnecting never loops.
ExceptionsArrive == ~Running ~> Running

==============================================================================
