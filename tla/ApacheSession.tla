--------------------------- MODULE ApacheSession ---------------------------
(***************************************************************************)
(* Apache::Session: a hash tied to a stored session, its lock manager      *)
(* (Lock::File or Lock::Semaphore) and its object store (Store::File or    *)
(* the DBI store).  Each process has at most one session object at a time. *)
(*                                                                         *)
(* A step ends where a process may block, or where another process can     *)
(* see, or be kept from seeing, what it did: a lock is asked for, got or   *)
(* released, the store is read or written, a buffered handle is closed.    *)
(* Session data are the set of the visits whose changes led to them, a     *)
(* CLEAR that has emptied the hash included.                               *)
(***************************************************************************)
EXTENDS Integers, FiniteSets

CONSTANTS
  Procs,
  Sids,          \* session ids
  Classes,       \* the classes of session a behaviour may use
  Modes,         \* "all": every tie has Transaction; "any": it is open
  Faults,        \* "crash": processes are killed; "sqlError": statements
                 \* fail; "clean": Lock::File->clean is used
  MaxVisits,     \* bound on session objects
  MaxCleans      \* bound on lock files removed

(***************************************************************************)
(* Apache::Session::File closes its store before it lets go of its locks.  *)
(* Apache::Session::Flex has the classes it is told to have, and the       *)
(* DESTROY of Apache::Session, which does not.  On Windows Lock::File has  *)
(* one kind of lock, and an open file cannot be removed.                   *)
(***************************************************************************)
Class ==
  [File      |-> [store |-> "file", lock |-> "flock", closes |-> TRUE, windows |-> FALSE],
   FileWin32 |-> [store |-> "file", lock |-> "flock", closes |-> TRUE, windows |-> TRUE],
   FlexMySQL |-> [store |-> "dbi", lock |-> "semaphore", closes |-> FALSE, windows |-> FALSE],
   FlexFile  |-> [store |-> "file", lock |-> "semaphore", closes |-> FALSE, windows |-> FALSE]]

ASSUME BoundsAssumption ==
  /\ Classes \subseteq DOMAIN Class
  /\ Modes \subseteq {"all", "any"}
  /\ IsFiniteSet(Procs) /\ MaxVisits \in Nat /\ MaxCleans \in Nat

VARIABLES
  class, mode,   \* chosen at the start
  obj,           \* the session object of each process
  dir,           \* the file, or row, each session id names; 0: none
  content,       \* what is in each file or row
  locks,         \* the lock file of each session id; 0: none
  sem,           \* the values of the read and the write semaphore
  leaked,        \* the units only the exit of the process will give back
  visits,        \* session objects so far
  known,         \* session ids that have been handed to a client
  saved,         \* the visits whose changes to a session were let go of
  nameless,      \* the visits that let go of a row's session without its id
  cut,           \* files whose writer was killed before it had written
  cleans,        \* lock files removed so far
  loose          \* sessions whose lock file was removed while it was open

store == <<dir, content>>
history == <<visits, known, saved, nameless, cut, cleans, loose>>
vars == <<class, mode, obj, store, locks, sem, leaked, history>>

Visits == 1 .. MaxVisits
Here == Class[class]

(***************************************************************************)
(* A file or row is empty or has been frozen from an object's data, with   *)
(* or without _session_id.  A new file and a new lock file have the number *)
(* of the visit that made them.                                            *)
(***************************************************************************)
Empty == [full |-> FALSE, data |-> {}, named |-> FALSE]
Frozen(o) == [full |-> TRUE, data |-> o.data, named |-> o.named]
Contents == [full : BOOLEAN, data : SUBSET Visits, named : BOOLEAN]

Status == {"NEW", "MODIFIED", "DELETED", "SYNCED"}
Places == {"none", "restore", "open", "use", "ask", "wait", "save", "close", "unlock", "free"}

(***************************************************************************)
(* A session object: at is where its process is, next where it goes on     *)
(* when it has the lock it asks for, from the method that called save.     *)
(* lock, status and data are those of Apache::Session, named says whether  *)
(* the data have _session_id; held is the read and write flag of the lock  *)
(* manager and what it has of the system, file its lock file; fd and       *)
(* buffer are the handle of Store::File.                                   *)
(***************************************************************************)
NoSession ==
  [at |-> "none", next |-> "none", from |-> "none", want |-> "none",
   sid |-> "none", visit |-> 0, status |-> {}, lock |-> {}, data |-> {}, named |-> TRUE,
   held |-> "none", file |-> 0, fd |-> 0, buffer |-> Empty, removed |-> FALSE]

TypeOK ==
  /\ class \in Classes /\ mode \in Modes
  /\ obj \in [Procs ->
       [at : Places, next : {"none", "restore", "save"},
        from : {"none", "TIEHASH", "delete", "DESTROY"},
        want : {"none", "read", "write"}, sid : Sids \cup {"none"},
        visit : 0 .. MaxVisits, status : SUBSET Status,
        lock : SUBSET {"READ", "WRITE"}, data : SUBSET Visits, named : BOOLEAN,
        held : {"none", "read", "write"}, file : 0 .. MaxVisits,
        fd : 0 .. MaxVisits, buffer : Contents, removed : BOOLEAN]]
  /\ dir \in [Sids -> 0 .. MaxVisits]
  /\ content \in [Visits -> Contents]
  /\ locks \in [Sids -> 0 .. MaxVisits]
  /\ sem \in [{"read", "write"} -> 0 .. Cardinality(Procs)]
  /\ leaked \in [Procs -> BOOLEAN]
  /\ visits \in 0 .. MaxVisits
  /\ known \subseteq Sids
  /\ saved \in [Sids -> SUBSET Visits] /\ nameless \subseteq Visits
  /\ cut \subseteq Visits
  /\ cleans \in 0 .. MaxCleans
  /\ loose \subseteq Sids

Init ==
  /\ class \in Classes /\ mode \in Modes
  /\ obj = [p \in Procs |-> NoSession]
  /\ dir = [s \in Sids |-> 0]
  /\ content = [v \in Visits |-> Empty]
  /\ locks = [s \in Sids |-> 0]
  /\ sem = [k \in {"read", "write"} |-> 0]
  /\ leaked = [p \in Procs |-> FALSE]
  /\ visits = 0
  /\ known = {}
  /\ saved = [s \in Sids |-> {}] /\ nameless = {}
  /\ cut = {}
  /\ cleans = 0
  /\ loose = {}

-----------------------------------------------------------------------------
(***************************************************************************)
(* Where a call leads: acquire_read_lock and acquire_write_lock do not ask *)
(* for a lock the object has, save returns at once if there is nothing to  *)
(* do.                                                                     *)
(***************************************************************************)
Acquire(o, flag, want, next) ==
  IF flag \in o.lock THEN [o EXCEPT !.at = next]
  ELSE [o EXCEPT !.at = "ask", !.want = want, !.next = next]

\* Where save returns to, and where it leaves for when it dies: an exception
\* out of delete ends the program's use of the object, one out of DESTROY
\* ends DESTROY, and what the object refers to is freed.
Returned(o) ==
  CASE o.from = "DESTROY" -> [o EXCEPT !.at = IF Here.closes THEN "close" ELSE "unlock"]
    [] OTHER              -> [o EXCEPT !.at = "use"]

Saving(o, from) ==
  LET caller == [o EXCEPT !.from = from]
  IN  IF o.status \cap {"MODIFIED", "NEW", "DELETED"} = {} THEN Returned(caller)
      ELSE Acquire(caller, "WRITE", "write", "save")

Destroyed(o) == Saving(o, "DESTROY")

Died(o) == IF o.from = "DESTROY" THEN [o EXCEPT !.at = "free"] ELSE Destroyed(o)

Is(p, o) == obj' = [obj EXCEPT ![p] = o]

(***************************************************************************)
(* TIEHASH without an id makes one nobody has had, and saves; with an id   *)
(* it restores, under the write lock if it is told to by Transaction.      *)
(***************************************************************************)
Tied(s, status) ==
  [NoSession EXCEPT !.sid = s, !.visit = visits + 1, !.status = status,
                    !.from = "TIEHASH"]

TieNew(p) ==
  /\ obj[p].at = "none" /\ visits < MaxVisits
  /\ \E s \in Sids \ known :
       /\ \A q \in Procs : obj[q].sid # s
       /\ dir[s] = 0
       /\ Is(p, Saving(Tied(s, {"NEW"}), "TIEHASH"))
  /\ visits' = visits + 1
  /\ UNCHANGED <<class, mode, store, locks, sem, leaked, known, saved, nameless, cut, cleans, loose>>

\* A wrong variant: Transaction is not looked at.
Tie_shared(p) ==
  /\ obj[p].at = "none" /\ visits < MaxVisits
  /\ \E s \in known : Is(p, Acquire(Tied(s, {}), "READ", "read", "restore"))
  /\ visits' = visits + 1
  /\ UNCHANGED <<class, mode, store, locks, sem, leaked, known, saved, nameless, cut, cleans, loose>>

Tie(p) ==
  /\ obj[p].at = "none" /\ visits < MaxVisits
  /\ \E s \in known, transaction \in BOOLEAN :
       /\ mode = "all" => transaction
       /\ LET o == Tied(s, {})
          IN  Is(p, IF transaction THEN Acquire(o, "WRITE", "write", "restore")
                    ELSE Acquire(o, "READ", "read", "restore"))
  /\ visits' = visits + 1
  /\ UNCHANGED <<class, mode, store, locks, sem, leaked, known, saved, nameless, cut, cleans, loose>>

-----------------------------------------------------------------------------
(***************************************************************************)
(* Lock::File.  The lock file is opened, and made if it is not there.  On  *)
(* Linux flock gives up the lock a handle has before it waits for another. *)
(* On Windows the read lock is the write lock: it need not be asked for    *)
(* twice.                                                                  *)
(***************************************************************************)
Locked(o) ==
  [o EXCEPT !.at = o.next, !.lock = @ \cup {IF o.want = "read" THEN "READ" ELSE "WRITE"}]

AskFlock(p) ==
  LET o == obj[p]
      file == IF o.file # 0 THEN o.file
              ELSE IF locks[o.sid] # 0 THEN locks[o.sid] ELSE o.visit
  IN  /\ IF o.held = "write"
         THEN Is(p, Locked(o)) /\ UNCHANGED locks
         ELSE /\ Is(p, [o EXCEPT !.at = "wait", !.file = file, !.held = "none"])
              /\ locks' = IF o.file = 0 THEN [locks EXCEPT ![o.sid] = file] ELSE locks
      /\ UNCHANGED sem

FlockFree(p) ==
  \A q \in Procs \ {p} :
    (obj[q].file = obj[p].file /\ obj[q].held # "none")
      => obj[p].want = "read" /\ obj[q].held = "read"

(***************************************************************************)
(* Lock::Semaphore.  Every session has the same two semaphores here, those *)
(* its id is hashed to.  acquire_write_lock gives back the read unit, then *)
(* waits for both semaphores to be 0.                                      *)
(***************************************************************************)

\* A wrong variant: it keeps its read unit while it waits.
AskSemaphore_keeps(p) ==
  /\ Is(p, [obj[p] EXCEPT !.at = "wait"])
  /\ UNCHANGED <<sem, locks>>

\* acquire_write_lock, or acquire_read_lock, up to the wait
AskSemaphore(p) ==
  /\ Is(p, [obj[p] EXCEPT !.at = "wait", !.held = "none"])
  /\ sem' = IF obj[p].held = "read" THEN [sem EXCEPT !["read"] = @ - 1] ELSE sem
  /\ UNCHANGED locks

SemaphoreFree(p) ==
  /\ sem["write"] = 0
  /\ obj[p].want = "write" => sem["read"] = 0

\* The lock manager's acquire methods, up to where they may block
Ask(p) ==
  /\ obj[p].at = "ask"
  /\ IF Here.lock = "flock" THEN AskFlock(p) ELSE AskSemaphore(p)
  /\ UNCHANGED <<class, mode, store, leaked, history>>

\* A wrong variant: a reader need not wait.
Get_reader(p) ==
  LET o == obj[p] IN
  /\ o.at = "wait"
  /\ \/ o.want = "read"
     \/ IF Here.lock = "flock" THEN FlockFree(p) ELSE SemaphoreFree(p)
  /\ Is(p, [Locked(o) EXCEPT !.held = IF Here.windows THEN "write" ELSE o.want])
  /\ sem' = IF Here.lock = "semaphore" THEN [sem EXCEPT ![o.want] = @ + 1] ELSE sem
  /\ UNCHANGED <<class, mode, store, locks, leaked, history>>

\* The system lets the process have what it waits for.
Get(p) ==
  LET o == obj[p] IN
  /\ o.at = "wait"
  /\ IF Here.lock = "flock" THEN FlockFree(p) ELSE SemaphoreFree(p)
  /\ Is(p, [Locked(o) EXCEPT !.held = IF Here.windows THEN "write" ELSE o.want])
  /\ sem' = IF Here.lock = "semaphore" THEN [sem EXCEPT ![o.want] = @ + 1] ELSE sem
  /\ UNCHANGED <<class, mode, store, locks, leaked, history>>

-----------------------------------------------------------------------------
(***************************************************************************)
(* The object store.  Store::File keeps the file it has opened open, and   *)
(* what it prints in the buffer of its handle; it truncates at once.  The  *)
(* DBI store writes and reads a row.                                       *)
(***************************************************************************)
Flushed(o) ==
  IF o.buffer.full THEN [content EXCEPT ![o.fd] = o.buffer] ELSE content

Closed(o) == [o EXCEPT !.fd = 0, !.buffer = Empty]

\* materialize and unserialize have read c.
Read(o, c) ==
  IF c.full
  THEN [o EXCEPT !.at = "use", !.data = c.data, !.named = c.named, !.status = {"SYNCED"}]
  ELSE Died(o)

\* restore, with the lock: materialize looks for the file, or reads the row.
Restore(p) ==
  LET o == [obj[p] EXCEPT !.lock = @ \cup {"READ"}]
      row == dir[o.sid]
  IN  /\ o.at = "restore"
      /\ Is(p, IF row = 0 THEN Died(o)
               ELSE IF Here.store = "file" THEN [o EXCEPT !.at = "open"]
               ELSE Read(o, content[row]))
      /\ UNCHANGED <<class, mode, store, locks, sem, leaked, history>>

\* A wrong variant: the file is not kept open.
Open_closes(p) ==
  LET o == obj[p]
      file == IF dir[o.sid] # 0 THEN dir[o.sid] ELSE o.visit
      found == IF dir[o.sid] # 0 THEN content[file] ELSE Empty
  IN  /\ o.at = "open"
      /\ Is(p, Read(o, found))
      /\ dir' = [dir EXCEPT ![o.sid] = file]
      /\ content' = [content EXCEPT ![file] = found]
      /\ UNCHANGED <<class, mode, locks, sem, leaked, history>>

\* materialize opens the file, and makes one if it has gone meanwhile.
Open(p) ==
  LET o == obj[p]
      file == IF dir[o.sid] # 0 THEN dir[o.sid] ELSE o.visit
      found == IF dir[o.sid] # 0 THEN content[file] ELSE Empty
  IN  /\ o.at = "open"
      /\ Is(p, Read([o EXCEPT !.fd = file], found))
      /\ dir' = [dir EXCEPT ![o.sid] = file]
      /\ content' = [content EXCEPT ![file] = found]
      /\ UNCHANGED <<class, mode, locks, sem, leaked, history>>

Saved(o) == Returned([o EXCEPT !.status = {"SYNCED"}])

\* save of a deleted session.  Store::File dies if it is gone, or if it is asked
\* to unlink the directory, for want of an id; the other store finds no row.
Remove(p) ==
  LET o == IF Here.store = "file" THEN Closed(obj[p]) ELSE obj[p] IN
  /\ "DELETED" \in o.status
  /\ content' = Flushed(obj[p])
  /\ IF o.named /\ (dir[o.sid] # 0 \/ Here.store = "dbi")
     THEN /\ Is(p, Saved([o EXCEPT !.removed = TRUE]))
          /\ dir' = [dir EXCEPT ![o.sid] = 0]
     ELSE /\ Is(p, IF Here.store = "file" THEN Died(o) ELSE Saved(o))
          /\ UNCHANGED dir
  /\ UNCHANGED known

\* update of Store::File.  The file may be one that has been unlinked; without
\* an id it can only be the one that is open, for the directory is no file.
UpdateFile(p) ==
  LET o == obj[p]
      fd == IF o.fd # 0 THEN o.fd ELSE IF dir[o.sid] # 0 THEN dir[o.sid] ELSE o.visit
  IN  IF o.fd # 0 \/ o.named
      THEN /\ Is(p, Saved([o EXCEPT !.fd = fd, !.buffer = Frozen(o)]))
           /\ content' = [content EXCEPT ![fd] = Empty]
           /\ dir' = IF o.fd = 0 THEN [dir EXCEPT ![o.sid] = fd] ELSE dir
      ELSE Is(p, Died(o)) /\ UNCHANGED store

\* update of the DBI store: no row has an undefined id.
UpdateRow(p) ==
  LET o == obj[p] IN
  /\ Is(p, Saved(o))
  /\ content' = IF dir[o.sid] = 0 \/ ~o.named THEN content
                ELSE [content EXCEPT ![dir[o.sid]] = Frozen(o)]
  /\ UNCHANGED dir

\* save of a modified one
Update(p) ==
  /\ "DELETED" \notin obj[p].status /\ "MODIFIED" \in obj[p].status
  /\ IF Here.store = "file" THEN UpdateFile(p) ELSE UpdateRow(p)
  /\ UNCHANGED known

\* save of a new one.  Its id is one nobody else has.
Insert(p) ==
  LET o == obj[p] IN
  /\ o.status = {"NEW"}
  /\ IF Here.store = "file"
     THEN /\ Is(p, Saved([o EXCEPT !.fd = o.visit, !.buffer = Frozen(o)]))
          /\ content' = [content EXCEPT ![o.visit] = Empty]
     ELSE /\ Is(p, Saved(o))
          /\ content' = [content EXCEPT ![o.visit] = Frozen(o)]
  /\ dir' = [dir EXCEPT ![o.sid] = o.visit]
  /\ known' = known \cup {o.sid}

\* A statement of restore or save fails: RaiseError is set.
SqlFails(p) ==
  /\ "sqlError" \in Faults /\ Here.store = "dbi"
  /\ obj[p].at \in {"restore", "save"}
  /\ Is(p, Died(obj[p]))
  /\ UNCHANGED <<class, mode, store, locks, sem, leaked, history>>

\* save, with the lock
Save(p) ==
  /\ obj[p].at = "save"
  /\ Remove(p) \/ Update(p) \/ Insert(p)
  /\ UNCHANGED <<class, mode, locks, sem, leaked, visits, saved, nameless, cut, cleans, loose>>

-----------------------------------------------------------------------------
\* STORE or DELETE: the data are changed.
Change(p) ==
  LET o == obj[p] IN
  /\ o.at = "use" /\ ("MODIFIED" \notin o.status \/ o.visit \notin o.data)
  /\ Is(p, [o EXCEPT !.data = @ \cup {o.visit}, !.status = @ \cup {"MODIFIED"}])
  /\ UNCHANGED <<class, mode, store, locks, sem, leaked, history>>

\* CLEAR: the hash is emptied, and has no _session_id any more.
Clear(p) ==
  LET o == obj[p] IN
  /\ o.at = "use"
  /\ Is(p, [o EXCEPT !.data = @ \cup {o.visit}, !.named = FALSE,
                     !.status = @ \cup {"MODIFIED"}])
  /\ UNCHANGED <<class, mode, store, locks, sem, leaked, history>>

\* delete
Delete(p) ==
  /\ obj[p].at = "use" /\ "NEW" \notin obj[p].status
  /\ Is(p, Saving([obj[p] EXCEPT !.status = @ \cup {"DELETED"}], "delete"))
  /\ UNCHANGED <<class, mode, store, locks, sem, leaked, history>>

\* The hash is untied, or goes out of scope: DESTROY.
Untie(p) ==
  /\ obj[p].at = "use"
  /\ Is(p, Destroyed(obj[p]))
  /\ UNCHANGED <<class, mode, store, locks, sem, leaked, history>>

\* DESTROY of Apache::Session::File: the store is closed.
Close(p) ==
  /\ obj[p].at = "close"
  /\ content' = Flushed(obj[p])
  /\ Is(p, [Closed(obj[p]) EXCEPT !.at = "unlock"])
  /\ UNCHANGED <<class, mode, dir, locks, sem, leaked, history>>

\* A wrong variant: release_all_locks goes by the flags of the session, which
\* has both when the lock manager has given back the read unit.
GivenBack_both(o) ==
  IF Here.lock = "semaphore"
  THEN [sem EXCEPT !["read"] = IF "READ" \in o.lock THEN @ - 1 ELSE @,
                   !["write"] = IF "WRITE" \in o.lock THEN @ - 1 ELSE @]
  ELSE sem

\* What the system's semaphores are without the units o has
GivenBack(o) ==
  IF Here.lock = "semaphore" /\ o.held # "none" THEN [sem EXCEPT ![o.held] = @ - 1]
  ELSE sem

\* DESTROY: release_all_locks
Unlock(p) ==
  LET o == obj[p] IN
  /\ o.at = "unlock"
  /\ Is(p, [o EXCEPT !.at = "free", !.held = "none", !.file = 0, !.lock = {}])
  /\ sem' = GivenBack(o)
  /\ saved' = [saved EXCEPT ![o.sid] = @ \cup ({o.visit} \cap o.data)]
  /\ nameless' = IF Here.store = "dbi" /\ ~o.named THEN nameless \cup {o.visit} ELSE nameless
  /\ UNCHANGED <<class, mode, store, locks, leaked, visits, known, cut, cleans, loose>>

\* What the object refers to is freed.  Store::File closes its handle,
\* Lock::File its lock file; a semaphore that is still held stays as it is.
Free(p) ==
  /\ obj[p].at = "free"
  /\ content' = Flushed(obj[p])
  /\ leaked' = [leaked EXCEPT ![p] =
                  @ \/ (Here.lock = "semaphore" /\ obj[p].held # "none")]
  /\ Is(p, NoSession)
  /\ UNCHANGED <<class, mode, dir, locks, sem, history>>

-----------------------------------------------------------------------------
\* A process is killed, or ends with units it leaked: the system closes its
\* files, whose buffers are lost, and undoes what it did to the semaphores.
Die(p) ==
  LET o == obj[p] IN
  /\ leaked[p] \/ ("crash" \in Faults /\ o.at # "none")
  /\ sem' = IF leaked[p] THEN [GivenBack(o) EXCEPT !["write"] = @ - 1] ELSE GivenBack(o)
  /\ cut' = IF o.buffer.full THEN cut \cup {o.fd} ELSE cut
  /\ leaked' = [leaked EXCEPT ![p] = FALSE]
  /\ Is(p, NoSession)
  /\ UNCHANGED <<class, mode, store, locks, visits, known, saved, nameless, cleans, loose>>

\* Lock::File->clean finds a lock file old, whatever it is used for, gets its
\* lock and removes it; on Windows it removes it if nobody has it open.
Clean(s) ==
  /\ "clean" \in Faults /\ cleans < MaxCleans
  /\ Here.lock = "flock" /\ locks[s] # 0
  /\ \A q \in Procs : obj[q].file = locks[s] => obj[q].held = "none" /\ ~Here.windows
  /\ locks' = [locks EXCEPT ![s] = 0]
  /\ cleans' = cleans + 1
  /\ loose' = IF \E q \in Procs : obj[q].file = locks[s] THEN loose \cup {s} ELSE loose
  /\ UNCHANGED <<class, mode, obj, store, sem, leaked, visits, known, saved, nameless, cut>>

Program(p) == TieNew(p) \/ Tie(p) \/ Change(p) \/ Clear(p) \/ Delete(p) \/ Untie(p)
Goes(p) ==
  \/ Ask(p) \/ Get(p) \/ Restore(p) \/ Open(p) \/ Save(p) \/ SqlFails(p)
  \/ Close(p) \/ Unlock(p) \/ Free(p)

Next ==
  \/ \E p \in Procs : Program(p) \/ Goes(p) \/ Die(p)
  \/ \E s \in Sids : Clean(s)

Spec == Init /\ [][Next]_vars

-----------------------------------------------------------------------------
CanGo(p) ==
  CASE obj[p].at = "none" -> FALSE
    [] obj[p].at = "wait" -> IF Here.lock = "flock" THEN FlockFree(p) ELSE SemaphoreFree(p)
    [] OTHER -> TRUE

\* Who has got the lock to read a stored session finds all of it, unless its
\* last writer was killed (Store/File.pm truncates before it writes, and
\* writes when its handle is closed) or the lock file was removed under it.
ReadsWhole ==
  \A p \in Procs :
    (obj[p].at \in {"restore", "open"} /\ dir[obj[p].sid] # 0 /\ obj[p].sid \notin loose)
      => \/ content[dir[obj[p].sid]].full
         \/ dir[obj[p].sid] \in cut

\* If every tie has Transaction, no change that a process let go of is lost
\* (Session.pm, LOCKING AND TRANSACTIONS), unless clean removed the lock file
\* while a process had it open, or the process had cleared a hash whose session
\* is a row: its update finds none.
TransactionsKept ==
  mode = "all" =>
    \A s \in Sids \ loose :
      (dir[s] # 0 /\ content[dir[s]].full) => saved[s] \ nameless \subseteq content[dir[s]].data

\* Only the object that removed a session brings it back, when it is changed
\* after that: the objects of other processes save to the file they have open,
\* and to no row (Store/File.pm: update and materialize have O_CREAT).  Without
\* its lock, which clean may take away, a restore makes an empty file of it.
DeletedStaysDeleted ==
  [][\A s \in known \ loose :
       (dir[s] = 0 /\ dir'[s] # 0) => \E p \in Procs : obj[p].sid = s /\ obj[p].removed]_vars

\* No process waits for ever: not for itself when it asks for the write lock
\* with the read lock, nor two for each other.  (A waiting process goes on, or
\* another one that has a session does.)  Only a unit that was leaked, when an
\* exception ended a DESTROY, keeps the others waiting until its process ends.
NobodyStuck ==
  (\E p \in Procs : obj[p].at = "wait") => \E p \in Procs : CanGo(p) \/ leaked[p]
=============================================================================
