# TLA+ models of the Catalyst / DBIx::Class stack in CataMooseC

The repository is a portable Strawberry Perl with the modules a Catalyst
application needs (`src/perl/site/lib`, `src/perl/vendor/lib`), perl's own
library (`src/perl/lib`) and a C compiler (`src/c`). It has no single program:
what runs is an application that calls these modules. The models take the
modules with state that outlives a call, or is shared between processes or
threads, and let the application be the nondeterministic part.

## 1. Inventory

| component | its state | operations | interacts with | what is hard | what makes it correct |
|---|---|---|---|---|---|
| DBIx::Class transactions (`DBIx/Class/Storage/DBI.pm`, `Storage.pm`, `Storage/TxnScopeGuard.pm`, `Storage/DBI/mysql.pm`) | the handle `_dbh`, `transaction_depth`, the `savepoints` stack; the database session behind it | `txn_do`, `txn_begin/commit/rollback`, guards, `svp_*`, `dbh_do`, `dbh`, `disconnect` | the database, the application's nesting of blocks and exceptions | the connection may go at any statement; handlers read a depth that may describe a session that no longer exists; reruns | a block is atomic: durable and reported, or neither |
| Catalyst sessions (`Catalyst/Plugin/Session.pm`, `Session/State/Cookie.pm`) | per request a dozen fields; in the store `session:<sid>` and `expires:<sid>`; in the browser a cookie | `session`, `flash`, `keep_flash`, `clear_flash`, `session_expires`, `delete_session`, `change_session_id`, the finalize hooks | the request cycle of `Catalyst.pm`, a store, a browser | one call is several store accesses; requests overlap, die, lose their answers; the session expires | a client finds what it left; nobody else does; deleted is deleted |
| Stores of sessions (`Session/Store/File.pm` on `Cache/FileBackend.pm`; `Session/Store/DBIC.pm`, `Delegate.pm`) | files; rows and per-request row delegates | get, store, delete one key; flush | sessions, DBIx::Class | delegates are written back at the end of a request | one key is read and written whole |
| Net::Server::PreFork (`Net/Server/PreFork.pm`, `PreForkSimple.pm`, `SIG.pm`, `Server.pm`) | `children`, `tally`, `reaped_children`, time stamps in the parent; `connected` in a child | fork, accept, report by pipe, HUP, reap, count, restart | signals, a pipe, pids | status lines are late and race SIGCHLD; HUP races accept; a restart keeps children and loses what was known of them | `tally` counts `children`; what is believed is true once the lines are read; never above `max_servers`; no death is forgotten |
| Thread::Queue, Thread::Semaphore | a shared array or counter, its waiters | `enqueue`, `dequeue`, `insert`, `extract`; `down`, `up` | threads | one signal, many kinds of waiter | whoever can go on is not left asleep |
| Apache::Session and locks (`Apache/Session.pm`, `File.pm`, `Flex.pm`, `Store/*.pm`, `Lock/*.pm`) | `status`, `lock` bits; flock or SysV semaphores; a file or a row | tie, change, delete, untie, clean | processes that share a session | upgrading a read lock; buffered writes; exceptions in DESTROY; killed processes; lock files removed while open | under `Transaction` no update is lost; nothing half written is read; nobody waits for ever |
| Threads layer of libgcc (`src/c/.../gthr-default.h`) | `done`, `started`; `counter`, `sema`, `depth`, `owner` | `__gthread_once`; mutex and recursive mutex lock, trylock, unlock | threads, the Win32 scheduler | the counter and the semaphore are changed by separate operations; waits fail; the once function throws | it is a lock; who waits is served |
| DBIx::Class replicated storage | replicants, `active`, lag, time of the last validation | route, validate, fail over | several storages | a replicant fails after it was chosen | reads in a transaction go to the master |
| DBIx::Class::Ordered | a position column | move, delete, group change | the storage | several statements per move | positions stay 1..n |
| DBM::Deep | transaction slots, staleness counters, a file | begin, commit, rollback, read | processes, flock | reuse of slots and sectors | a transaction sees its snapshot |
| Catalyst's dispatcher, authentication | the request | dispatch, forward, detach; login, logout | sessions | exceptions as control flow | `end` runs; the user survives in the session |
| the rest: Moose, Template, DateTime, POE and Plack adapters, perl's core library and tools, MinGW headers | none shared | pure functions, build tools, data | – | – | out of scope |

`PROJECT.json` lists the same components with their sources and status, and
under `hazards` the places in the code that a test would hardly reach.

## 2. Plan

Order of work; 1–11 exist.

1. `AtomicTxn`, the abstract promise of transactions, and `DBICStorage`, the
   storage class and its database session; `DBICStorage` implements `AtomicTxn`.
2. `AtomicTxnProofs`; `DBICStorageProofs`: what holds for every use of the storage, and
   without savepoints the inductive invariant, its safety properties, and the refinement.
3. `CatalystSession` with `MCCatalystSession`.
4. Disagreements between documentation and code.
5. `ThreadSync`, a queue and a semaphore with the threads that wait for them,
   and `ThreadSyncProofs`.
6. `PreForkPool` with `MCPreForkPool`: parent, children, pipe, signals, restarts;
   `PreForkPoolProofs`.
7. `ApacheSession` with `MCApacheSession`: processes, locks, stores.
8. `RecursiveLock`, the abstract promise of a mutex; `GthreadMutex`, which
   implements it; `GthreadMutexProofs`.
9. `CatalystSessionProofs`: whose an id is, and from that `NoCrossTalk`,
   `DeletedStaysDeleted` and `AddressKept`, for any number of clients, slots and requests;
    then what a request finds, `SessionSeen` and `FlashSeen`, for requests in turn.
10. The rest of `PreForkPool`'s invariants (`BeliefTrue`, `WithinMax`), proved;
    `ApacheSessionProofs`.
11. `DBICSavepointProofs`: the same with savepoints at every level, and atomicity
    with the application's own savepoints.
12. `SessionStoreDBIC`: the row a request reads once, whatever the key, and writes
    back at its end (`Session/Store/DBIC/Delegate.pm`).
13. If room is left: the replicated pool, `Ordered`, the reference counts of
    `shared_ptr` (`boost_sp_counted_base.h`).

## 3. Transactions: `AtomicTxn`, `DBICStorage`

### State and code

One storage object of one process. `st` is the object and the database session
as one record: `dbh` is `_dbh` (undef; a handle that answers; one that does not
any more), `depth` is `transaction_depth`, `svps` is `savepoints`; `open`,
`work`, `marks` and `committed` are the server's (transaction open, its writes,
its savepoints, what is durable). `err` is what the handler in progress threw.
`stack` is perl's stack as far as it matters: the `txn_do` blocks (`bypass`: one
that only calls its coderef because a transaction is open and savepoints are
off), scope guards and `eval`/`try` blocks the application is in, with the
writes issued in each. `exc` is the exception on its way up. `claims`, `aborted`
and `undone` are history: what the application was told is durable, and the
writes of outermost scopes, and of all scopes, that failed or were started over.
`points` is history too: the savepoints the application has set itself, with the name it
gave and what its blocks had written then. `Meant` is the one a later call of the
application means, and what a `svp_rollback` undoes is what was written since that one,
whatever the storage's stack of names and the server make of the call.

A handler of the class is an operator from a record to the set of records it may
leave, one per answer of the database; `Then` chains two handlers and stops at
the first that threw. The operators have the names of the subs (`txn_begin`,
`txn_commit`, `txn_rollback`, `svp_begin`, `dbh_do`, `populate_dbh`, ...). An
action of `Next` is something the application does (enter a block, issue a
statement, leave, throw, use savepoints, ask for the handle, disconnect), one
step of an exception's way up (`Unwind`, which is the handler of `txn_do`,
`TxnScopeGuard::DESTROY` or an `eval`), or the server dropping the connection
between two statements (`Drop`). A handler is one step: nothing else in the
process runs in it, and the loss of the connection inside it is one of its
outcomes. SQL is a write that is new each time: what matters is where it ends up.

`AtomicTxn` is what an application is promised: a block is pending, then
durable as a whole and acknowledged, or failed as a whole.

### Runs

Bounds: `MaxWrites` writes in a whole behaviour, `MaxFrames` blocks at once. Two
writes tell a block's first half from its second; the third is for what comes
after it. Three frames are an outer block, an inner one and an `eval` between
or around them; four add a third level. Depth 3 behaves as depth 2: the code
only distinguishes 0, 1 and more. `MaxFrames` also bounds the names on the `savepoints`
stack (`FewNames`, `SvpBegin`), which transactions leave behind, and the application's own name
(`Named`) is none the storage makes up. `{"drop", ...}` are the faults of the run.

| run | constants | shows |
|---|---|---|
| `DBICFlat` | no savepoints; `txn_do`, guards, `eval`, `disconnect`; lost connections, refused statements and commits | `TypeOK`, `AbortedInvisible`, `DepthMatches`, the refinement `ImplementsAtomicTxn` and the liveness property `ExceptionsArrive` |
| `DBICNested` | `auto_savepoint`; `txn_do`, guards, `eval`, `dbh` (which does nothing while connected), `disconnect` between outermost scopes; refused statements, commits and connection attempts | an inner block that fails is undone alone (`UndoneInvisible`), the refinement with `failed` at every level |
| `DBICInterface` | the application's own savepoints, with a name and without, `dbh`, `disconnect` between transactions; refused statements, commits, savepoints and connection attempts | `ClaimsDurable`, `UndoneInvisible` (nothing written since the savepoint the application named survives going back to it), `InFlightInvisible` |
| `DBICRollbackFails` | `auto_savepoint`; `txn_do`, guards, `eval`, `disconnect` anywhere (`disconnectInScope`); lost sessions, refused `ROLLBACK`, `SAVEPOINT` and `ROLLBACK TO`, a `COMMIT` whose answer is lost | a `txn_do` that leaves the transaction it began open, or an inner one whose refused rollback reset the depth, throws "Rollback failed" |
| `DBICNestedRetry` | see section 9 | fails |

Deadlock is checked in all of them. Fairness: weak fairness of `Unwind` only,
because perl runs the handlers of an exception that was thrown. The application
need not do anything, and the database may fail for ever.

### Proofs

`DBICStorageProofs` first proves what holds for every value of the constants, that is for
all calls, all faults, with and without `auto_savepoint`: `StorageTypeOK`, and
`StorageRollbackFailureTold`. The inductive invariant `StorageInv` adds to the types that
a transaction is open on a connection that answers only (`Alive`). Both are needed for
the second: the branch of `txn_do`'s handler that reconnects may give up without
"Rollback failed" (`_populate_dbh` throws at line 819) because nothing can be open by then.
The theorem is about the `txn_do` whose rollback failed. An outer `txn_do` whose block caught
that exception is outside of it, and may return success with the transaction open (section 9). There is a lemma for
every handler (`AnyStatement`, `AnyDbhDo`, `AnySvpRollback`, `AnyTxnCommit`, ...), and
`GreatestIn` for the search of a name on the stack of savepoints: a nonempty set of positions
has a greatest element, from the well-foundedness of the natural numbers.

Its second part proves about `DBICStorage`, for every `MaxWrites` and
`MaxFrames`, under `FlatUse`: savepoints off, the application uses `txn_do`,
guards, `eval` and, outside of scopes, `disconnect`, and connections may be lost and statements and
commits refused, but a reconnection succeeds, a rollback is only refused by a
connection that is gone, and a commit's answer arrives. Each part is needed:
without it a run or an item of section 9 shows a violation (`DBICNestedRetry`
for savepoints, the items on reconnections and on `dbh`). `FlatUse` is a hypothesis of each theorem, not an assumption of a module.

- The inductive invariant `IInv`: between two handlers the record is sound; the
  stack has the shape the code can build (an outermost scope, and in it only
  `bypass` and inner guards); `depth` counts the scopes, except while the
  exception of a failed `txn_begin` has not left the block it was called for
  (`BeginFailed`); a live session has a transaction open exactly when the depth
  is not 0, and then its writes are exactly those of the open blocks;
  `claims = committed`; and committed, pending and aborted writes are disjoint
  and below `nextw`. The last two conjuncts are why `ImplementsAtomicTxn` is
  inductive: without freshness the abstract `Write` would not be enabled, and
  without the equality of work and pending writes a commit would not be atomic.
- One lemma per handler (`StatementOutcome`, `BeginWorkOutcome`,
  `TxnCommitOutcome`, `TxnRollbackOutcome`, `WriteOutcome`, ...) says what its
  outcomes are; one per action (`TxnDoStep`, `ReturnStep`, `WriteStep`,
  `UnwindTxnDoStep`, ...) that it keeps `IInv` and is a step of `AtomicTxn` or
  none. The lemmas on stacks before them (`PushCount`, `PopCount`, `ShapePush`,
  ...) say what pushing and popping a frame does to depth, work and shape.
- Theorems: `FlatInvariant`, `FlatClaimsDurable`,
  `FlatAbortedInvisible`, `FlatInFlightInvisible`, `FlatDepthMatches`,
  `FlatImplementsAtomicTxn`.
- In `AtomicTxnProofs`: `AtomicTxnCorrect`, that the abstract specification is
  coherent (acknowledged = durable; durable, failed and pending are disjoint).

`DBICSavepointProofs` proves the same about nested blocks that are savepoints, again for
every `MaxWrites` and `MaxFrames`, under `NestedUse`: `auto_savepoint` is on, the
application uses `txn_do`, guards, `eval`, `dbh` and `disconnect`, and statements,
commits and reconnections may be refused, but the server does not drop the session, does
not refuse a `SAVEPOINT` or a `ROLLBACK`, and its answer to a `COMMIT` arrives. These are the conditions of the run
`DBICNested`. Without them section 9 has what happens: a dropped session in a nested
`txn_do` (`DBICNestedRetry`), a refused `SAVEPOINT`, the application's own
savepoints in a nested block, `dbh` after a loss.

- The inductive invariant `NestedInv`: between two handlers the session is idle or in
  a transaction (`Idle`, `Busy`), and then the n-th name on the `savepoints` stack is
  the n-th savepoint of the server (`Numbered`); there is one savepoint for each
  scope but the outermost, and the savepoint of a scope holds exactly what the blocks
  around it had written when it began (`Levels`); no write is in two blocks; the
  session's writes are those of the blocks; `claims = committed`; and no write is at once
  durable, pending or undone (`Fates`).
- `Levels` is why an inner failure undoes what it should. `ROLLBACK TO` the last savepoint
  sets the session's writes to those of that mark; that these are the writes of
  the blocks below the failing one is not visible in the depth or in the session's
  writes, and has to be kept while blocks above come and go, an `eval` joins its writes
  to the scope around it, or `txn_do` starts a block over (`LevelsPush`, `LevelsSave`, `LevelsTop`,
  `LevelsPop`). With it an inner failure is one `Undo` of `AtomicTxn` of exactly the block's own
  writes, and an outermost one an `Abort`.
- Theorems: `NestedInvariant`, `NestedUndoneInvisible`, `NestedClaimsDurable`,
  `NestedInFlightInvisible`, `NestedDepthMatches`, `NestedImplementsAtomicTxn`.

The last section of `DBICSavepointProofs` is about savepoints the application sets itself, for
every `MaxWrites` and `MaxFrames`, under `OwnUse`: without `auto_savepoint`, the application
uses `txn_do`, `svp_begin`, `svp_release`, `svp_rollback`, `dbh` and `disconnect`, and
statements, commits, savepoints and reconnections may be refused. These are the conditions of
the run `DBICInterface`. TLC finds one of its three properties violated as soon as one more
call or fault is allowed: `eval` or a guard inside `txn_do` keeps the writes of a block that
failed, a `ROLLBACK` that is refused leaves them to whoever comes next, a `COMMIT` whose answer
is lost is durable in a `txn_do` that threw, and lost sessions and `auto_savepoint` are in
section 9.

- The inductive invariant `OwnInv`: the session is at rest (`Resting`) or in one `txn_do`
  (`Begun`), whose transaction holds exactly the writes its blocks still have; each mark of the
  server holds no more than the marks after it and the transaction (`Chain`); `claims =
  committed`; nothing durable is pending or undone; and, unless an exception is on its way up,
  nothing undone is pending and the stacks match (`Matched`). The exception is necessary: a
  `bypass` block that an exception leaves counts as undone at once, while its writes are in the
  transaction until `txn_do`'s handler has rolled it back, and a refused `SAVEPOINT` has changed
  the storage's names before the statement was sent.
- `Matched`: the server's savepoints have, in order, the last names on the storage's stack,
  which may have older ones below from transactions before, and the writes of the
  application's `points`. It is what makes going back right: with it the name found
  from the top of the storage's stack, the last mark of that name on the server and the savepoint
  the application means are the same one (`MeantFound`), though names are used twice and
  left out, and a rollback to it removes from the transaction exactly what is taken out
  of the blocks (`OwnSvpRollback`, `OwnStrip`). Setting a savepoint and cutting the stacks at the
  same one keep them matched (`MatchedPush`, `MatchedCut`).
- Theorems: `OwnInvariant`, `OwnClaimsDurable`, `OwnUndoneInvisible`, `OwnInFlightInvisible`.

Only model-checked: `ExceptionsArrive`, which is liveness.

Not modelled: `AutoCommit => 0`; handles given up by a fork (`_verify_pid`) or a
thread; the `on_connect`/`on_disconnect` hooks; `txn_begin`, `txn_commit` and
`txn_rollback` called by hand; the retry of `dbh_do` for a statement of several
calls; the generation of SQL.

## 4. Sessions: `CatalystSession`

### State and code

`q[r]` is the request a server process `r` is serving, with the plugin's
accessors as fields (`sid` is `_sessionid`, `data` is `_session`, `sig` is
`_session_data_sig`, `extended` is `_extended_session_expires`, ...); `session`
and `expires` are the store; `cookie` is what each browser holds. `pc` says
which access to the store a call is about to make. Each action is one access
to the store with everything the code does up to the next one: `LoadExpires` and
`LoadData` are `_load_session`, `DeleteSession` and `DeleteExpires` are
`delete_session`, `ChangeSession`, `ChangeExpires` and `ChangeStore` are
`change_session_id`, `FinalizeHeaders`, `SaveSession` and `SaveFlash` are the
hooks of `finalize`. The action of the application is any sequence of at most
`MaxCalls` calls (`CallSession`, `CallFlash`, ...). A store keeps or loses one
key at a time: `Cache::FileBackend` writes a temporary file and renames it.

An item, or a flash value, is a pair of the client and the request that stored
it, so that every value is distinguishable. `__flash` may be the same hash as
`_flash` (`alias`) or not, as in the code, which decides when a change of the one
shows in the other. `left[c]` is what the last answered request of client `c`
left in its session and `expect` what the next should find, computed only from
what the application called. `dead` are the sessions that were deleted, or whose
id was changed, while no other request was using them. Key 0 of the store is the key `session:`
that the code makes of an undefined id.

### Runs

| run | constants | shows |
|---|---|---|
| `SessionInTurn` | one client, one request at a time, three calls a request out of nine, three requests, time to expire | `TypeOK`; `SessionSeen` and `FlashSeen`: a request finds exactly what the earlier ones left |
| `SessionOverlap` | two clients, two slots, two addresses, `verify_address`, three requests that overlap, die or lose their answer, and may delete `__address` (`unbind`) | `NoCrossTalk`, `DeletedStaysDeleted`, `AddressKept` |
| `SessionClearFlash` | see section 9 | fails |

Three requests are a first that makes the session, a second that changes it and
a third that looks; two slots are enough for any pairwise race. `TTL` is 1 in
`SessionInTurn`, so that a session lives on, or expires, between two requests,
and 0 in `SessionOverlap`, so that two instants suffice for both. `MaxSids` is one
id a request. `SessionInTurn` leaves out `clearFlash` and `verify_address`, because
with them the properties do not hold (section 9); `SessionOverlap` has them. It has no
`flash`, with which it takes too long: what `NoCrossTalk` says of the flash rests on
its proof. `AddressKept` lets a request have a session without an address, which is
what an application makes of its own by deleting `__address`; that the next request
cannot go on with it is a disagreement of section 9. The lost update of two requests
that change one session is no property: Session.pm:1072-1109 gives it up.
Clients, slots and addresses are only compared, so they are symmetric.
`CHECK_DEADLOCK FALSE`: requests and time are bounded, the runs end. No fairness
is assumed and no liveness claimed: what happens after a browser sends a request
is the application's affair.

Not modelled: `session_expire_key`, `flash_to_stash`, `verify_user_agent` (the same
check as the address), cookie paths, ids that are not hexadecimal, answers
whose headers are sent before the action is over, `flash:<sid>` keys, which are
deleted but never stored.

### Proofs

`CatalystSessionProofs` proves, for any clients, slots, addresses, calls and times,
`TypeOK`, `NoCrossTalk`, `DeletedStaysDeleted` and `AddressKept` (`SessionTypeOK`,
`SessionNoCrossTalk`, ...). The inductive invariant (`SessionInvariant`) has a function
`own`, not a variable of the model, from ids to the clients they were made for:
every id in a request, in a cookie or in an answer was given out and is of that
client; all items in a request's session and flash, and all in the store under an id, are
its client's. A request that changes its id keeps the data and takes a new id, which
nobody else has, so the function only grows. For deleted sessions: the store has
no expiry time for them, and a request that comes with such an id has got no further
than to find it expired (`Late`), so it never stores under it; `change_session_id`, which
moves data from one id to another, holds the old id only up to its last access
(`InPlace`). `Addressed`: with `verify_address` loaded data are of the request's address.

`SessionSeen` and `FlashSeen` compare what a request finds with what the
application's calls should have left, which the model computes call by call beside the
code. They are proved (`SessionSessionSeen`, `SessionFlashSeen`) for any number of
clients, slots, requests, calls and instants under `InTurnUse`, a hypothesis of these
theorems only: the requests of one client follow one another (`OneAtATime`), each is
served and answered (`Faults = {}`), no call is `clear_flash`, nobody deletes
`__address`, and with `verify_address` every request has an address and nobody uses
the flash. TLC finds a
counterexample with each of these dropped: overlapping requests overwrite each other;
after a request that died or lost its answer the session is not what the last
answered one left; `clear_flash`, a deleted `__address` and a session that begins with
a flash value are disagreements of section 9; a session made without an address is deleted by a request
that has one, as that session is. For different clients, requests overlap in any way.

The inductive invariant is `TurnInv` (`SessionTurn`). A client has at most one request
under way. Between two requests the session its cookie names agrees with `left`
(`Agrees`): the same items, flash and time to expire, or nothing in either. During a
request, `Turn` has for each place of a handler what the request holds (`Right`), what
the store still has (`KeptIn`), the expiry time before it is stored and after (`Timed`,
`Recorded`), that a request which looked and has no data should find none
(`Settled`, `Looked`), and the store between saving session and flash (`Saved`). Two of its parts are not obvious. Data not yet read
are exactly what is expected; data that were read lie between the expected and the current
ones, which is why a save the code skips, because the signature has not changed, loses
nothing. And a step of one client leaves what another one's request sees alone
(`Apart`), because their ids differ: that is `own` of `SessionInvariant`, which
the proof uses, together with the fact that an id not given out has no session. With
`verify_address` every stored session has an address (`AllAddressed`). The proof is one lemma
for each action. It needs, beside `SessionAssumption`, that undef is not a hash
(`NoneAssumption`).

## 5. Threads: `ThreadSync`

### State and code

`queue` is the array of one `Thread::Queue`, `sema` the counter of one
`Thread::Semaphore`, `thread[t]` what thread `t` is doing: running, asleep in
`cond_wait`, or woken and waiting for the lock, with what it waits for. Items are
numbers, new each time; `taken` are those given to a caller. Every method locks
its object on its first line and holds the lock to its end, so a call is one
step; `cond_wait` ends the step of a thread that goes to sleep, and `Resume` is
its next test of the condition. Between a signal and `Resume` any other thread
may have the lock. `threads::shared` is external: `cond_signal` wakes one sleeper,
any one, and a sleeper may also be woken by nobody (`Notified`).

### Runs

| run | constants | shows |
|---|---|---|
| `ThreadSync` | three threads, all nine methods, consumers that ask for two items, amounts 1 and 2 | `TypeOK`; `DequeueAwake`, `DownAwake`: nobody sleeps beside what it waits for; `ItemsOnce`, `OrderKept`, `ExtractsWindow`; `ItemsServed`, `UnitsServed`: whoever can go on does |

Three threads are two that wait and one that adds. Four items (`MaxItems`) are two
full requests in one `enqueue`, with one signal; consumers of two also see a queue
that is neither empty nor long enough. `MaxValue` 2 lets the semaphore go as far
below 0 as above. Indices go one past the head and one past the tail.
`CHECK_DEADLOCK FALSE`: items are bounded, and an application may stop calling.
Fairness: weak fairness of `Resume` of every thread, because every method gives the
lock back; no fairness of any call, nor of notifications nobody sent.

### Proofs

`ThreadSyncProofs` begins with what `Cut`, `inserted` and an append do to a sequence of
distinct items: positions of the old sequence map upwards to those of the new one
(`Embedding`), or two sequences fill a third between them (`Merging`), from which
the elements, their distinctness and their order follow. It proves,
for any threads, methods, counts, amounts and bounds, the invariant
`QueueInv /\ ThreadInv`: types, `ItemsOnce`, `DownAwake`, and `DequeueAwake` under
`UniformCounts`. It is inductive because `dequeue` signals again exactly when items
are left: with one count for all, what is left over without a signal is less than
anybody asks for. `UniformCounts` is a hypothesis of `SyncDequeueAwake` only;
an item of section 9 shows that it is needed. Also proved: `SyncTypeOK`,
`SyncDownAwake`, `SyncItemsOnce`, `SyncOrderKept`, and `SyncExtractsWindow` (`CutPicks`: what
`Cut` takes are the positions after the first `i`, and an index before the head is
a shorter cut at the head). Only model-checked: the liveness properties.

Not modelled: `peek` and `pending`, which only read; croaking over an argument,
which happens before anything changes; several queues, or a caller's own
`lock($q)` around several calls.

## 6. Servers: `PreForkPool`

### State and code

`proc[p]` is the process with pid `p`: where it is in `run_child` (`young` and
`deaf` before its own handlers are set, `idle` in accept, `taken` between accept
and `connected = 1`, `serving`, `ending`, `said` after "exiting"), or dead and not waited
for: a `zombie`, whose SIGCHLD the parent caught, or `unheard`, which died before
`register_sig`; `hup` is that a SIGHUP came while it was connected,
`old` that it was started before a restart of the parent. `children`, `tally`
and `reaped` are the parent's properties of these names, `left` the entries with
`hup => 1` taken over from `HUP_CHILDREN`, `due` that `tally.time` is 0. `pipe` is
what the pipe holds, `buffer` what perl's handle has read from it in advance:
`<$fh>` takes all there is and returns one line. `chld` is a SIGCHLD whose handler
has not run: `register_sig` only sets a flag, `check_sigs` calls the handler.

The parent's steps are `Start` (`loop`, which forks the first children), `Register`
(`run_parent` up to `register_sig`; children run, and die, between the two), `Hear` and `TimeOut`
(a pass of `run_parent` with and without a line), `Coordinate` (all of
`coordinate_children`, as a chain of operators on a record of the parent's
state: reaped children out, re-tally, `run_n_children`, `kill_n_children`,
`check_for_dead`) and `Restart` (SIGHUP, `server_close`, `exec`). A
child's step ends where it writes a line or changes what SIGHUP does to it.
Clocks are choices: whether `check_for_dead`, `check_for_waiting` or another
interval is over is open at each test.

### Run

`PreForkPool`: `min_servers` 1, `max_servers` 2, spare 1, three pids, two lines in the pipe and two in the buffer, one
restart that keeps or ends the children; children crash, fail to accept, and
run out of requests.

| property | says |
|---|---|
| `TallyExact` | `tally` counts the table in every state of the running parent |
| `BeliefTrue` | a server is in the table, and its last unread line is what it does |
| `WithinMax` | however late the lines, never more than the larger of `min_servers` and `max_servers` servers that the parent started |
| `DeathsKept` | no death the parent was told of is lost: the entry of a zombie has a SIGCHLD to come, that of a process that is gone is in `reaped_children`, unless it was taken over at a restart |

Three pids are a full pool and a successor (or a survivor of a restart) beside it.
`post_configure` does not compare `min_servers` with `max_servers` (PreFork.pm:93-106), and
neither does `LimitsAssumption`; with 3 and 2 the properties hold too. A pid comes back when no line and no entry has it any
more: the system takes pids in turn, and without this a late line would be taken
for the new process's. Pids are only
compared, so they are symmetric. `CHECK_DEADLOCK FALSE`: a restart at the bound
and a pipe nobody reads end a run of the model, and pids may be used up. No
fairness is assumed: `DeathsKept` is the safety part of "every dead child is
replaced", for the deaths the parent is told of; what is left is that `run_parent` goes round its loop.

### Proofs

`PreForkPoolProofs` proves, for any finite set of pids and any limits, that
`TypeOK`, `TallyExact` and `DeathsKept` are invariants (`PoolTypeOK`,
`PoolTallyExact`, `PoolDeathsKept`). Their conjunction is
inductive (`PoolInvariant`). `Good` says the same of the record the handlers work on; one lemma
per handler (`DeleteGood`, `RunGood`, `KillGood`, `TrimmedGood`, `HeardGood`, ...)
that it keeps it, so that `Coordinate` is a chain of them. `DeleteGood` is why
`reaped_children` may be emptied: what was in it is out of the table by then. `TallyExact` rests on lemmas that say what `delete_children`,
`Forked` and `heard` do to the number of entries with a status
(`RemovedCount`, `ForkedCount`, `HeardCount`).

`BeliefInv` is a second inductive invariant on top of it (`PoolBelief`). For every server that the
parent started, the last line that was not read, or else its entry, says what it does
(`Fits`); a line "exiting" is of one that serves no more; and the servers are at most
`MostServers`, the larger of the two limits. The last part is proved with the
first: `run_n_children` computes the room from the tally, the tally is exact, and an
entry is in the table for each server, so there are not more servers than entries
counted. A line that is read changes entry and tally together (`HeardFine`); the
order of the lines of one child matters, and is why the pipe is a sequence.
`reaped_children` names pids without a process only, and is empty when children are forked.
That a pid comes back only when nothing unread names it is used in `RunFine`: without
it a late line would be taken for the new process's. `PoolBeliefTrue` and `PoolWithinMax`
follow, so that every property of the run is proved.

Not modelled: the end of the server by TERM or INT; `check_for_dequeue`, which is
undef unless the program sets it (and then section 9); `child_communication` and the
hooks; `serialize` and its lock or pipe; how long anything takes.

## 7. Tied sessions: `ApacheSession`

### State and code

`obj[p]` is the session object of process `p`: `status`, `lock`, `data` are
`Apache::Session`'s, and `named` says whether the data still have `_session_id`; `held`
and `file` are the lock manager's flag and lock file; `fd` and `buffer` are
`Store::File`'s handle with what was printed to it and not written; `at` and `next` say
where in `TIEHASH`, `save`, `delete` or `DESTROY` the process is. `dir` and `content` are the
files or rows, by name and by what they hold: a file that was unlinked or replaced goes
on for those who have it open. `locks` are the lock files, `sem` the two semaphores of a
session. Data are the set of the objects ("visits") that changed the session. `saved`,
`nameless`, `known`, `cut` and `loose` are history.

A step ends where the process may block or others can see what it did: asking
for a lock (`Ask`: `AskFlock`, `AskSemaphore`), getting it (`Get`), looking for the file
(`Restore`) and opening it (`Open`: `materialize` tests `-e` and then opens with
`O_CREAT`), or reading the row (`Restore`), writing (`Save`: `Remove`, `Insert`, and `Update` with
`UpdateFile` or `UpdateRow`), closing the handle (`Close`), letting go (`Unlock`), the end of the
object (`Free`). `Program` is what the application does: tie with and without an id and
`Transaction`, `STORE` and `DELETE` (`Change`), `CLEAR` (`Clear`), `delete`, untie. `Die` kills a
process at any step, `SqlFails` makes a statement of the database throw, `Clean` is
`Lock::File->clean`.

`CLEAR` drops `_session_id` with the rest of the data. From then on the database's `UPDATE` and
`DELETE` address `id = NULL` and find no row, without an error; `Store::File` goes on with the
handle it has open, but without one it addresses the directory: `update` and `remove` die. What is
stored through the handle has no id either, and so has who restores it.

The classes are `File` (`Apache::Session::File`: files and `flock`), `FileWin32`, which is the same
on Windows, `FlexMySQL` (rows and semaphores) and `FlexFile` (files and semaphores). On Windows
`acquire_read_lock` is `acquire_write_lock` (Lock/File.pm:29-32), so a read lock is
held as the write lock and need not be asked for again, and `clean` cannot remove a lock file that
is open (153-155). Cygwin has the first branch and not the second: it is `FileWin32` but for `Clean`, which is
`File`'s. SysV semaphores exist on POSIX systems only. Elsewhere than on Windows asking for the
exclusive lock gives up the shared one first (`AskFlock`), as flock(2) of Linux says.

### Run

`ApacheSession`: three processes, one session, three visits, one lock file removed
by `clean`; `File`, `FileWin32` or `FlexMySQL`; all ties with `Transaction`, or any; processes
killed, statements failing (916,876 states).

| property | says |
|---|---|
| `ReadsWhole` | who has the read lock finds a whole session, except after a writer was killed in the middle, or `clean` removed its lock file while it was open |
| `TransactionsKept` | with `Transaction` everywhere no change that was let go of is lost, except with such a lock file, or if a hash whose session is a row was cleared |
| `NobodyStuck` | while someone waits someone can go on: no deadlock between upgrades, waits and leaked locks |
| `DeletedStaysDeleted` | only the object that deleted a session can bring it back, except with such a lock file |

Three processes are two that hold the read lock and one that waits for the write
lock, or a writer, a waiter and a newcomer; two sessions were checked too and
add nothing, because no object has more than one. Processes and ids are only
compared, so they are symmetric. `CHECK_DEADLOCK FALSE`: visits are bounded.
`NobodyStuck` is the safety form of deadlock freedom and needs no fairness.

Not modelled: `release_*` called by the program, `STORE` and `DELETE` of the key `_session_id`
itself (after which the object goes on as another session's), `DB_File`, Postgres, Sybase and
Oracle stores, `Lock::MySQL` and `Lock::Null`, `Lock::Semaphore->remove`, several
sessions in one process.

### Proofs

`ApacheSessionProofs` proves, for any finite set of processes, any ids, visits,
classes and faults, every property of the run (`ApacheTypeOK`, `ApacheNobodyStuck`,
`ApacheReadsWhole`, `ApacheTransactionsKept`, `ApacheDeletedStaysDeleted`), with the exceptions
the table names. The processes are finite because the read semaphore is counted with a
cardinality. The inductive invariant (`ApacheInvariant`) says:

- where an object is tells what it has: its flags, its locks, its handle and what
  is not yet written (`Sound`; the flags are `Flagged`, which on Windows lets a session with the
  `READ` flag hold the write lock); an object that is new is the only one of its session
  (`Apart`);
- with semaphores, `read` is the number of those that hold the read lock, and `write`
  is 1 exactly when somebody holds, or leaked, the write lock (`Counted`); with
  flock, all of a session have the same lock file open, unless one was removed
  (`OneFile`), and a writer is alone on its file (`Alone`);
- every file and row is of one session (`Owns`, with a function that is not a
  variable of the model), and a session's file has its data, or was cut, or is in
  the hands of a writer who has them in its buffer (`Whole`);
- a restore that found the file, and has not opened it, still has it (`Opened`): whoever could
  unlink it needs the lock the restore holds;
- with `Transaction` everywhere, what is owed, which is what was let go of with an id (`Owed`), is
  contained in what is stored, and in what the one object that has the session holds and is
  about to print (`Transactions`).

The last three leave out the sessions in `loose`, whose lock file was removed while open.

`NobodyStuck` needs the counts: who waits for the write semaphore waits for a
process that holds it or reads, and that process can go on, because an upgrade gives up
the read lock before it asks. `DeletedStaysDeleted` needs `Opened`: a restore makes no file, so
that only the `update` of an object that removed the session does. `ReadsWhole` and
`TransactionsKept` have the hypothesis that `Classes` does not contain `FlexFile`: its `DESTROY` lets
go of the lock before the handle is closed, and section 9 has the violation. The other
theorems hold for all classes.

## 8. Mutexes: `RecursiveLock`, `GthreadMutex`

### State and code

`done` and `started` are `__gthread_once_t`; `counter`, `sema`, `depth`, `owner` are the
fields of `__gthread_mutex_t` and `__gthread_recursive_mutex_t`, with the semaphore's
count for its handle; `at[t]` says where thread `t` is. A step is one Interlocked
operation, one system call, or reads and writes of fields nobody else changes at
that time; in particular the decrement of the counter (`Leave`) and the
`ReleaseSemaphore` after it (`Release`) are two. The mutex is made by
`__gthread_once`, as libgcc's users do. `lost` is history: how many units of the
semaphore were, or will be, released for a thread whose wait failed and that nobody
else is there to take. The same functions are
compiled into libgcc for programs that define `__GTHREAD_HIDE_WIN32API`.

### Run

`GthreadMutex`: three threads, the plain and the recursive kind, two levels, waits
that fail, once functions that throw. `OneToken` is mutual exclusion of holders and
of the unit on its way to a waiter, and says what is left of it when units are lost:
holders and units are at most one more than those. `OnceFirst` that the function runs once and
before anybody goes on; `ImplementsLock` that the mutex is a `RecursiveLock`
until a unit is lost (`holder` is who is between lock and unlock, `depth` how often it has it);
`EveryoneServed` that who waits gets the mutex or an error, before and after a loss,
and who spins goes on unless the function threw. Three threads are a holder, a waiter and one that
takes the mutex between the two steps of an unlock.

Fairness: weak fairness of a thread's own steps, because the scheduler runs it;
strong fairness of leaving the outermost level, because a holder may lock and
unlock the inner level for ever, and a program that never lets go serves
nobody; strong fairness of `Take`, because Win32 semaphores serve waiters in turn.
`CHECK_DEADLOCK FALSE`: threads that spin for a function that threw never stop.

Bounds: `MaxDepth` = 2 levels, and `MaxLost` = 1, the number of lost units after which
no wait fails any more: without it the semaphore could grow for ever. Threads go
on locking after a loss, as in the code, and the second one is let in (section 9). A
plain mutex is followed through that; a recursive one until two threads have it
(`Followed`), because `owner` and `depth` are then whoever's came last and what an unlock
does is not what the thread meant.

### Proofs

`GthreadMutexProofs` proves `TypeOK`, `OneToken`, `OnceFirst` and `ImplementsLock` for
any finite set of threads, any depth, any number of lost units and all faults. The
inductive invariant `IInv` adds: the counter is one less than the number of threads in
it, the lock of a holder counted twice until it is taken back (`CounterInv`); the
threads inside and the units released are `lost`, and one more while anybody is in the
counter (`TokenInv`), an equation that every step keeps and from which `OneToken` follows;
`owner = t` exactly when `t` is inside (`OwnerInv`); and the phases of
the once function (`OnceInv`). `CountGoes` says how a count of places changes when
one thread moves; with it each step is arithmetic on its two places. While `lost` is 0
the equation says that one thread at most is inside (`OneHeld`), and
`AbstractStep` maps every step to one of `RecursiveLock`.
`EveryoneServed` is only model-checked.

Not modelled: thread-specific data, which no two threads share; `started`
overflowing after 2^32 calls before the function is done; the Objective-C part.

## 9. Disagreements between documentation and code

Found by runs that are expected to fail:

- `DBICNestedRetry`: with `auto_savepoint` an inner `txn_do` that finds the
  connection lost reconnects and commits alone; the outer one, at depth 0,
  reports success for writes that are gone.
- `SessionClearFlash`: `clear_flash` in a request that has not loaded its session
  replaces the stored session by an empty one.

Seen with the same modules, and not kept as runs; the constants reproduce them:

- A refused reconnection at the end of `txn_do`'s loop leaves `transaction_depth` at
  1, and the next `txn_do` runs in autocommit, though Storage.pm:143 says that it
  "Executes $coderef ... atomically" (`DBICStorage`, `AutoSavepoint = FALSE`,
  `Calls = {"txn_do"}`, `Faults = {"drop", "outage"}`, `InFlightInvisible`).
- With `verify_address` a session that begins with a flash value is stored without
  its address and deleted by the next request (`SessionClearFlash.cfg` with
  `VerifyAddress = TRUE`, `Calls = {"putFlash"}`, `FlashSeen`).
- Session.pm:1066-1070 says that an application lets "the address of the client to
  change" by deleting `__address` from the session. Lines 227-228 compare the missing key
  with the request's address all the same, and the next request, also one from the same
  address, deletes the session (`SessionInTurn.cfg` with `VerifyAddress = TRUE`,
  `Calls = {"put", "unbind"}`, `MaxCalls = 2`, `SessionSeen`).
- `dequeue` does not pass on a signal it cannot use: a consumer of one item sleeps
  for ever beside an item when the signal went to a consumer of two, though
  Queue.pm:331 says it is blocked "until the requisite number of items are
  available" (`ThreadSync` with counts 1 and 2, `ItemsServed`).
- Without `auto_savepoint` a rollback at depth 2 or more only decrements
  `transaction_depth`; the outer commit keeps the inner writes (`AutoSavepoint =
  FALSE`, `Calls = {"txn_do", "guard"}`, no faults, `UndoneInvisible`).
- `dbh` in a `txn_do` after the connection was lost resets the depth to 0, and
  `txn_do` reports success (`Calls = {"txn_do", "dbh"}`, `Faults = {"drop"}`,
  `ClaimsDurable`).
- An inner `txn_do` that fails with a savepoint of the application's own set is only
  rolled back to that one (`AutoSavepoint = TRUE`, `Calls = {"txn_do", "svp",
  "eval"}`, no faults, `UndoneInvisible`).
- A refused `SAVEPOINT` makes the inner `txn_do` roll back the outer transaction
  (`AutoSavepoint = TRUE`, `Calls = {"txn_do", "eval"}`, `Faults =
  {"savepointError"}`, `InFlightInvisible`).
- `txn_commit` and `txn_rollback` leave the names on the `savepoints` stack. A call of the
  application that names no savepoint, or one it has not set, can so reach a name of an earlier transaction.
- `svp_begin`, `svp_release` and `svp_rollback` change the stack of names before the statement is
  sent. If it is refused and the application catches that in its `txn_do`, a later call without
  a name means another savepoint for the storage than for the application
  (`AutoSavepoint = FALSE`, `Calls = {"txn_do", "svp", "eval"}`, `Faults = {"savepointError"}`,
  `ClaimsDurable`).
- A refused `ROLLBACK TO` in an inner `txn_do` resets the depth to 0 (DBI.pm:1378-1387). The inner one
  throws "Rollback failed"; if the outer block catches that, the outer `txn_do` returns success and
  its transaction is still open (`AutoSavepoint = TRUE`, `Calls = {"txn_do", "eval"}`, `Faults =
  {"savepointError"}`, `ClaimsDurable`).
- `disconnect` does not look at the depth. Called in a `txn_do` it ends the session, the depth
  stays until the next connection, and `txn_do` reports success for writes that are gone, or runs
  the rest in autocommit (`AutoSavepoint = FALSE`, `Calls = {"txn_do", "disconnect",
  "disconnectInScope"}`, no faults, `ClaimsDurable`, `InFlightInvisible`).
- `session_expires` extends a session it has just deleted as expired, and returns
  a time to come: the 0 of `_load_session_expires` is defined (`CallExpires`).
- A session deleted while another request has it loaded comes back when that
  request ends: it stores `expires:<sid>` whatever happened since.
- `Apache::Session::Flex` with `Store::File` has not `File.pm`'s `close` before the locks
  are released: what it printed is written after that, and a reader may find an
  empty file, though Session.pm:118-120 says that it writes, then releases its
  locks (`ApacheSession`, `Classes = {"FlexFile"}`, `ReadsWhole`).
- An exception in `save` during `DESTROY` skips `release_all_locks`; `Lock::Semaphore` has
  no `DESTROY`, so the semaphore stays taken until the process ends (`leaked`).
- The comment at Lock/Semaphore.pm:87-90 wants the upgrade to the write lock to be
  atomic; line 125 gives up the read lock first.
- `CLEAR` drops `_session_id` (Session.pm:458-464). A session in a database is then updated `WHERE id =
  NULL`, no row, no error: a change let go of is lost, under `Transaction` too, though Session.pm:118-120
  says that untie checks "if anything has changed" and then "writes the session to the data
  store" (`ApacheSession`, `Classes =
  {"FlexMySQL"}`, `Modes = {"all"}`, `TransactionsKept` without `\ nameless`). With
  `Store::File` `delete` of such a session dies, because it tries to unlink the directory, and the file
  is written without the id, so that it cannot be deleted by who restores it either.
- `Lock::File->clean` removes lock files that others have open and wait for; after
  that two processes may hold "the" lock (`loose`): one that restores may find the file of a
  session, and when it opens it, with `O_CREAT`, another has deleted it. The deleted session is
  there again, empty. `clean` looks at the time of the last access, its documentation speaks of the
  last modification.
- A process killed between `truncate` and the close of the handle leaves an empty
  file that cannot be restored (`cut`).
- Server.pm:981-983 says of `dequeue` "currently only supported in PreFork". With
  `check_for_dequeue` and `max_dequeue` set, PreFork.pm:506 calls the `run_dequeue` it inherits,
  PreForkSimple.pm:396-398, which dies "virtual method not defined": the parent ends.
- A child that has just been forked still has the parent's handlers, which only set
  a flag: SIGHUP and SIGTERM sent to it then are lost, and after a restart it is a
  server nobody knows (`deaf`, `old`).
- The first children are forked at PreFork.pm:144, SIGCHLD is caught from 314 on. One that dies
  in between (`unheard`), or was dead at the `exec` of a restart, keeps its entry and is counted as
  waiting until some other child dies: `kill(0, $pid)` succeeds for a zombie, so `check_for_dead`,
  which is there to "make sure children are alive" (PreFork.pm:482), does not find it.
  `DeathsKept` is therefore about deaths the parent is told of.
- A SIGHUP between accept and `connected = 1` drops the client, as the comment at
  PreFork.pm:166 says.
- After WAIT_FAILED the "best-effort" cleanup of gthr-default.h:646-652 may leave a
  unit of the semaphore nobody waits for; later it lets a second thread in.

## 10. Mutants

In the modules of the components a definition whose name extends the name
of the definition after it (`txn_commit_forgets`, `Stale_none`; `signal_if_empty` for `signal_added`) is a wrong variant
of that definition: a dropped guard, a forgotten reset, an extension from the
wrong base. None is used by the specifications; each shows that the property it
is listed with in `PROJECT.json` rejects it.

## 11. Components not modelled

The stores of `Catalyst::Plugin::Session` appear in `CatalystSession` as its
environment, one key at a time, which is what `Store::File` does; `Store::DBIC` keeps a
row for a request and is planned (section 2). The dispatcher and authentication
are sequential code inside one request. Replicated storage, `Ordered` and DBM::Deep
have state worth a model and are left for later. Templates, Moose, DateTime and
the other CPAN modules, perl's tools and data and the remaining headers of the
compiler keep no state that outlives a call and is shared: there is nothing in
them for a model checker. They are most of the repository's lines.
