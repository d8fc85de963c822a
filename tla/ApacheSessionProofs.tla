------------------------ MODULE ApacheSessionProofs ------------------------
(***************************************************************************)
(* Tied sessions for any sets of processes and sessions, any classes and   *)
(* any faults: nobody waits for ever, whoever reads finds a whole session, *)
(* no change is lost under Transaction, and a deleted session comes back   *)
(* only through the object that removed it.                                *)
(***************************************************************************)
EXTENDS ApacheSession, FiniteSetTheorems, TLAPS

-----------------------------------------------------------------------------
(* The inductive invariant, part by part, of the values of the variables:  *)
(* H stands for Here, n for visits, K for known, and the others for those  *)
(* whose names they begin.                                                 *)

Dirty == {"MODIFIED", "NEW", "DELETED"}

Objs ==
  [at : Places, next : {"none", "restore", "save"},
   from : {"none", "TIEHASH", "delete", "DESTROY"},
   want : {"none", "read", "write"}, sid : Sids \cup {"none"},
   visit : 0 .. MaxVisits, status : SUBSET Status,
   lock : SUBSET {"READ", "WRITE"}, data : SUBSET Visits, named : BOOLEAN,
   held : {"none", "read", "write"}, file : 0 .. MaxVisits,
   fd : 0 .. MaxVisits, buffer : Contents, removed : BOOLEAN]

\* What is told apart of the classes
Kind(H) ==
  /\ H.store \in {"file", "dbi"} /\ H.lock \in {"flock", "semaphore"}
  /\ H.closes \in BOOLEAN /\ H.windows \in BOOLEAN
  /\ H.closes <=> H.lock = "flock"
  /\ H.closes => H.store = "file"
  /\ H.windows => H.lock = "flock"

\* What an object has when it asks for a lock, and goes on with next
Asking(o) ==
  \/ /\ o.next = "restore" /\ o.from = "TIEHASH" /\ o.status = {} /\ o.lock = {}
     /\ o.want \in {"read", "write"}
  \/ /\ o.next = "save" /\ o.from # "none" /\ o.status \cap Dirty # {}
     /\ o.want = "write"

\* The flags tell what an object holds: on Windows, either lock.
Flagged(o, H) ==
  /\ "WRITE" \in o.lock => o.held = "write"
  /\ o.held = "write" /\ ~H.windows => "WRITE" \in o.lock
  /\ H.windows => o.held # "read"
  /\ o.held # "none" /\ H.lock = "flock" => o.file # 0

\* Where an object is tells what it has.
Placed(o, H) ==
  /\ o.at \in {"none", "wait"} => o.held = "none"
  /\ o.at \in {"ask", "wait"} => "WRITE" \notin o.lock /\ Asking(o)
  /\ o.at = "wait" /\ H.lock = "flock" => o.file # 0
  /\ o.at \in {"restore", "open"} =>
       o.held # "none" /\ o.status = {} /\ o.from = "TIEHASH"
  /\ o.at = "open" => H.store = "file"
  /\ o.at = "use" => o.status # {} /\ "NEW" \notin o.status
  /\ o.at = "save" =>
       "WRITE" \in o.lock /\ o.status \cap Dirty # {} /\ o.from # "none"
  /\ o.at = "close" => H.closes
  /\ o.at \in {"close", "unlock"} => o.status \cap Dirty = {} /\ o.from = "DESTROY"
  /\ o.at = "free" => o.held # "read"

\* What the object has read or written
Handled(o, H) ==
  /\ o.status = {} => o.data = {} /\ ~o.buffer.full
  /\ "NEW" \in o.status =>
       /\ o.status = {"NEW"} /\ o.data = {} /\ ~o.buffer.full
       /\ o.at \in {"ask", "wait", "save", "free"}
  /\ o.at \in {"none", "ask", "wait", "restore", "open"} => ~o.buffer.full
  /\ o.buffer.full => o.fd # 0 /\ ("WRITE" \in o.lock \/ ~H.closes)
  /\ o.buffer.full /\ ~H.closes => "WRITE" \in o.lock \/ o.at = "free"
  /\ o.at \in {"unlock", "free"} /\ H.closes => ~o.buffer.full
  /\ H.store = "dbi" => o.fd = 0
  /\ H.store = "file" /\ o.fd = 0 /\ o.at \in {"use", "ask", "wait", "save"} =>
       o.status \cap {"NEW", "DELETED"} # {} \/ o.status = {} \/ o.removed

\* An object of a session that is in use is of this run.
Dated(o, n, K) ==
  /\ o.sid \in Sids /\ o.visit \in 1..n /\ o.fd <= n
  /\ "NEW" \in o.status <=> o.sid \notin K

Numbered(o, n, K) ==
  /\ o.at = "none" => o = NoSession
  /\ o.at # "none" => Dated(o, n, K)

Sound(o, n, K, H) == Flagged(o, H) /\ Placed(o, H) /\ Handled(o, H) /\ Numbered(o, n, K)

\* A new session is nobody else's.
Apart(ob) ==
  \A p, q \in Procs :
    p # q /\ ob[q].at # "none" /\ "NEW" \in ob[p].status => ob[q].sid # ob[p].sid

Objects(ob, n, K, H) == Apart(ob) /\ \A p \in Procs : Sound(ob[p], n, K, H)

\* The semaphores: a unit for each that holds one, and for each that leaked one
Readers(ob) == {p \in Procs : ob[p].held = "read"}
Writes(p, ob, lk) == ob[p].held = "write" \/ lk[p]

Counted(ob, se, lk) ==
  /\ se["read"] = Cardinality(Readers(ob))
  /\ (\E p \in Procs : Writes(p, ob, lk)) => se["write"] = 1
  /\ (\A p \in Procs : ~Writes(p, ob, lk)) => se["write"] = 0
  /\ \A p, q \in Procs : Writes(p, ob, lk) =>
       ob[q].held # "read" /\ (Writes(q, ob, lk) => p = q)
  /\ \A p \in Procs : lk[p] => ob[p].held = "none"

Semaphores(ob, se, lk, lo, H) ==
  /\ H.lock = "semaphore" => Counted(ob, se, lk) /\ lo = {}
  /\ H.lock = "flock" => \A p \in Procs : ~lk[p]

\* The lock files: one for each session, unless it was removed
Alone(ob) ==
  \A p, q \in Procs :
    p # q /\ ob[p].file = ob[q].file /\ ob[p].held = "write" => ob[q].held = "none"

OneFile(ob, lf, lo) ==
  \A p \in Procs :
    ob[p].at # "none" /\ ob[p].file # 0 /\ ob[p].sid \notin lo => ob[p].file = lf[ob[p].sid]

LockFiles(ob, lf, lo, H) == H.lock = "flock" => Alone(ob) /\ OneFile(ob, lf, lo)

\* The class keeps the lock until the store is closed.
Closes(H) == H.store = "file" => H.closes

\* Files and rows are of one session each: who tells which.
Owns(who, ob, di) ==
  /\ \A s \in Sids : di[s] # 0 => who[di[s]] = s
  /\ \A p \in Procs : ob[p].at # "none" =>
       who[ob[p].visit] = ob[p].sid /\ (ob[p].fd # 0 => who[ob[p].fd] = ob[p].sid)

\* A session's file has its data, or was cut, or will have them.
Whole(s, ob, di, co, cu) ==
  di[s] # 0 =>
    \/ co[di[s]].full
    \/ di[s] \in cu
    \/ \E p \in Procs : ob[p].sid = s /\ ob[p].fd = di[s] /\ ob[p].buffer.full

Files(ob, di, n) ==
  /\ \E who \in [Visits -> Sids \cup {"none"}] : Owns(who, ob, di)
  /\ \A s \in Sids : di[s] \in 0..n

Wholes(ob, di, co, cu, lo) == \A s \in Sids \ lo : Whole(s, ob, di, co, cu)

\* A file that was found under a lock is still there when it is opened.
Opened(ob, di, lo) ==
  \A p \in Procs : ob[p].at = "open" /\ ob[p].sid \notin lo => di[ob[p].sid] # 0

\* Under Transaction: what was let go of will be found, by who has the
\* session in hand and in its file or row; but for what was let go of without
\* the id of a row.
Owed == [s \in Sids |-> saved[s] \ nameless]

Kept(s, di, co, sa) == di[s] # 0 /\ co[di[s]].full => sa[s] \subseteq co[di[s]].data

InHand(o) == o.at \in {"use", "save", "close", "unlock"} /\ o.status # {} /\ "NEW" \notin o.status

Latest(o, di, co, H) ==
  /\ o.fd # 0 => o.fd = di[o.sid]
  /\ o.status = {"SYNCED"} /\ di[o.sid] # 0 /\ (H.store = "file" \/ o.named) =>
       IF o.buffer.full THEN o.buffer = Frozen(o) ELSE co[di[o.sid]] = Frozen(o)

Follows(o, di, co, sa, H) ==
  InHand(o) =>
    /\ sa[o.sid] \subseteq o.data /\ Latest(o, di, co, H)
    /\ o.buffer.full => sa[o.sid] \subseteq o.buffer.data

\* Every tie has Transaction.
Exclusive(o) ==
  /\ o.at \in {"restore", "open", "use", "save", "close", "unlock"} => "WRITE" \in o.lock
  /\ o.at \in {"ask", "wait"} => o.status \in {{}, {"NEW"}} /\ o.want = "write"

Transactions(ob, di, co, sa, lo, H) ==
  /\ \A s \in Sids \ lo : Kept(s, di, co, sa)
  /\ \A p \in Procs :
       ob[p].at # "none" /\ ob[p].sid \notin lo => Follows(ob[p], di, co, sa, H)

IInv ==
  /\ TypeOK
  /\ Objects(obj, visits, known, Here)
  /\ Semaphores(obj, sem, leaked, loose, Here)
  /\ LockFiles(obj, locks, loose, Here)
  /\ Files(obj, dir, visits)
  /\ \A s \in Sids \ known : saved[s] = {}
  /\ Opened(obj, dir, loose)
  /\ Closes(Here) => Wholes(obj, dir, content, cut, loose)
  /\ mode = "all" => \A p \in Procs : Exclusive(obj[p])
  /\ mode = "all" /\ Closes(Here) => Transactions(obj, dir, content, Owed, loose, Here)

-----------------------------------------------------------------------------
(* Where a call leads *)

\* Two states of one object, but for where it is
Kin(r, o) ==
  /\ r.sid = o.sid /\ r.visit = o.visit /\ r.status = o.status /\ r.lock = o.lock
  /\ r.data = o.data /\ r.named = o.named /\ r.held = o.held /\ r.file = o.file
  /\ r.fd = o.fd /\ r.buffer = o.buffer /\ r.removed = o.removed

\* Where save, called from f, leads an object o
Callers == {"TIEHASH", "delete", "DESTROY"}

Leads(r, o, f, H) ==
  /\ r \in Objs /\ Kin(r, o) /\ r.from = f
  /\ o.status \cap Dirty = {} =>
       r.at = IF f = "DESTROY" THEN IF H.closes THEN "close" ELSE "unlock" ELSE "use"
  /\ o.status \cap Dirty # {} =>
       IF "WRITE" \in o.lock THEN r.at = "save"
       ELSE r.at = "ask" /\ r.want = "write" /\ r.next = "save"

\* Where an exception leads
LeadsOut(r, o, H) ==
  IF o.from = "DESTROY" THEN r \in Objs /\ Kin(r, o) /\ r.from = "DESTROY" /\ r.at = "free"
  ELSE Leads(r, o, "DESTROY", H)

LEMMA ObjType == TypeOK => obj \in [Procs -> Objs]
BY DEF TypeOK, Objs

LEMMA HereKind == TypeOK => Kind(Here)
<1> SUFFICES ASSUME TypeOK PROVE Kind(Here)
  OBVIOUS
<1>1. class \in {"File", "FileWin32", "FlexMySQL", "FlexFile"}
  BY BoundsAssumption DEF TypeOK, Class
<1>2. /\ Class["File"] =
           [store |-> "file", lock |-> "flock", closes |-> TRUE, windows |-> FALSE]
      /\ Class["FileWin32"] =
           [store |-> "file", lock |-> "flock", closes |-> TRUE, windows |-> TRUE]
      /\ Class["FlexMySQL"] =
           [store |-> "dbi", lock |-> "semaphore", closes |-> FALSE, windows |-> FALSE]
      /\ Class["FlexFile"] =
           [store |-> "file", lock |-> "semaphore", closes |-> FALSE, windows |-> FALSE]
  BY DEF Class
<1>3. CASE class \in {"File", "FileWin32"}
  <2>1. Here.store = "file" /\ Here.lock = "flock" /\ Here.closes = TRUE
    BY <1>2, <1>3 DEF Here
  <2>2. Here.windows = TRUE \/ Here.windows = FALSE
    BY <1>2, <1>3 DEF Here
  <2> QED
    BY <2>1, <2>2 DEF Kind
<1>4. CASE class \in {"FlexMySQL", "FlexFile"}
  <2>1. Here.store \in {"file", "dbi"} /\ Here.lock = "semaphore"
    BY <1>2, <1>4 DEF Here
  <2>2. Here.closes = FALSE /\ Here.windows = FALSE
    BY <1>2, <1>4 DEF Here
  <2> QED
    BY <2>1, <2>2 DEF Kind
<1> QED
  BY <1>1, <1>3, <1>4

\* Every class but Flex with Store::File closes first.
LEMMA HereCloses == TypeOK /\ "FlexFile" \notin Classes => Closes(Here)
<1> SUFFICES ASSUME TypeOK, "FlexFile" \notin Classes PROVE Closes(Here)
  OBVIOUS
<1>1. class \in {"File", "FileWin32", "FlexMySQL"}
  BY BoundsAssumption DEF TypeOK, Class
<1>2. Class["File"].closes = TRUE /\ Class["FileWin32"].closes = TRUE
  BY DEF Class
<1>3. Class["FlexMySQL"].store = "dbi"
  BY DEF Class
<1> QED
  BY <1>1, <1>2, <1>3 DEF Here, Closes

LEMMA ReturnedLeads ==
  ASSUME TypeOK, NEW o \in Objs, o.from \in Callers, o.status \cap Dirty = {}
  PROVE  Leads(Returned(o), o, o.from, Here)
<1> PICK r : r = Returned(o)
  OBVIOUS
<1>1. CASE o.from = "DESTROY"
  <2>1. CASE Here.closes
    <3>1. r = [o EXCEPT !.at = "close"]
      BY <1>1, <2>1 DEF Returned
    <3>2. r \in Objs /\ Kin(r, o) /\ r.from = o.from /\ r.at = "close"
      BY <3>1 DEF Objs, Places, Kin
    <3> QED
      BY <1>1, <2>1, <3>2 DEF Leads
  <2>2. CASE ~Here.closes
    <3>1. r = [o EXCEPT !.at = "unlock"]
      BY <1>1, <2>2 DEF Returned
    <3>2. r \in Objs /\ Kin(r, o) /\ r.from = o.from /\ r.at = "unlock"
      BY <3>1 DEF Objs, Places, Kin
    <3> QED
      BY <1>1, <2>2, <3>2 DEF Leads
  <2> QED
    BY <2>1, <2>2
<1>2. CASE o.from # "DESTROY"
  <2>1. r = [o EXCEPT !.at = "use"]
    BY <1>2 DEF Returned
  <2>2. r \in Objs /\ Kin(r, o) /\ r.from = o.from /\ r.at = "use"
    BY <2>1 DEF Objs, Places, Kin
  <2> QED
    BY <1>2, <2>2 DEF Leads
<1> QED
  BY <1>1, <1>2

LEMMA SavingLeads ==
  ASSUME TypeOK, NEW o \in Objs, NEW f \in Callers
  PROVE  Leads(Saving(o, f), o, f, Here)
<1>0. PICK c : c = [o EXCEPT !.from = f]
  OBVIOUS
<1>1. c \in Objs /\ Kin(c, o) /\ c.from = f
  BY <1>0 DEF Objs, Kin, Callers
<1>2. CASE o.status \cap Dirty = {}
  <2>1. Saving(o, f) = Returned(c)
    BY <1>0, <1>2 DEF Saving, Dirty
  <2>2. Leads(Returned(c), c, c.from, Here)
    BY <1>1, <1>2, ReturnedLeads DEF Kin
  <2> QED
    BY <1>1, <2>1, <2>2 DEF Leads, Kin
<1>3. CASE o.status \cap Dirty # {}
  <2>1. Saving(o, f) = Acquire(c, "WRITE", "write", "save")
    BY <1>0, <1>3 DEF Saving, Dirty
  <2>2. CASE "WRITE" \in o.lock
    <3> PICK r : r = [c EXCEPT !.at = "save"]
      OBVIOUS
    <3>1. Saving(o, f) = r
      BY <1>1, <2>1, <2>2 DEF Acquire, Kin
    <3>2. r \in Objs /\ Kin(r, c) /\ r.from = c.from /\ r.at = "save"
      BY <1>1 DEF Objs, Places, Kin
    <3> QED
      BY <1>1, <1>3, <2>2, <3>1, <3>2 DEF Leads, Kin
  <2>3. CASE "WRITE" \notin o.lock
    <3>0. PICK r : r = [c EXCEPT !.at = "ask", !.want = "write", !.next = "save"]
      OBVIOUS
    <3>1. Saving(o, f) = r
      BY <1>1, <2>1, <2>3, <3>0 DEF Acquire, Kin
    <3>2. /\ r \in Objs
          /\ Kin(r, c) /\ r.from = c.from
          /\ r.at = "ask" /\ r.want = "write" /\ r.next = "save"
      <4>1. r \in Objs
        <5>1. PICK a : a = [c EXCEPT !.at = "ask"]
          OBVIOUS
        <5>2. PICK b : b = [a EXCEPT !.want = "write"]
          OBVIOUS
        <5>3. a \in Objs
          BY <1>1, <5>1 DEF Objs, Places
        <5>4. b \in Objs
          BY <5>2, <5>3 DEF Objs
        <5>5. r = [b EXCEPT !.next = "save"]
          BY <1>1, <3>0, <5>1, <5>2 DEF Objs
        <5> QED
          BY <5>4, <5>5 DEF Objs
      <4>2. Kin(r, c) /\ r.from = c.from
        BY <1>1, <3>0 DEF Objs, Kin
      <4>3. r.at = "ask" /\ r.want = "write" /\ r.next = "save"
        BY <1>1, <3>0 DEF Objs
      <4> QED
        BY <4>1, <4>2, <4>3
    <3> QED
      BY <1>1, <1>3, <2>3, <3>1, <3>2 DEF Leads, Kin
  <2> QED
    BY <2>2, <2>3
<1> QED
  BY <1>2, <1>3

LEMMA DiedLeads ==
  ASSUME TypeOK, NEW o \in Objs
  PROVE  LeadsOut(Died(o), o, Here)
<1>1. CASE o.from = "DESTROY"
  <2> PICK r : r = [o EXCEPT !.at = "free"]
    OBVIOUS
  <2>1. Died(o) = r
    BY <1>1 DEF Died
  <2>2. r \in Objs /\ Kin(r, o) /\ r.from = "DESTROY" /\ r.at = "free"
    BY <1>1 DEF Objs, Places, Kin
  <2> QED
    BY <1>1, <2>1, <2>2 DEF LeadsOut
<1>2. CASE o.from # "DESTROY"
  <2>1. Died(o) = Saving(o, "DESTROY")
    BY <1>2 DEF Died, Destroyed
  <2>2. Leads(Saving(o, "DESTROY"), o, "DESTROY", Here)
    BY SavingLeads DEF Callers
  <2> QED
    BY <1>2, <2>1, <2>2 DEF LeadsOut
<1> QED
  BY <1>1, <1>2

-----------------------------------------------------------------------------
(* What an object has wherever it goes *)

Fit(o, H) ==
  /\ o.status = {} => o.data = {} /\ ~o.buffer.full
  /\ "NEW" \in o.status => o.status = {"NEW"} /\ o.data = {} /\ ~o.buffer.full
  /\ o.buffer.full => o.fd # 0 /\ "WRITE" \in o.lock
  /\ H.store = "dbi" => o.fd = 0
  /\ H.store = "file" /\ o.fd = 0 =>
       o.status \cap {"NEW", "DELETED"} # {} \/ o.status = {} \/ o.removed

LEMMA LeadsSound ==
  ASSUME NEW H, Kind(H), NEW n, NEW K, NEW o \in Objs, NEW f \in Callers, NEW r,
         Leads(r, o, f, H), Flagged(o, H), Fit(o, H), Dated(o, n, K),
         f # "DESTROY" => o.status # {}
  PROVE  Sound(r, n, K, H) /\ r.at \notin {"none", "free", "restore", "open", "wait"}
<1>1. r \in Objs /\ Kin(r, o)
  BY DEF Leads
<1>2. r.at \in {"close", "unlock", "use", "save", "ask"}
  BY DEF Leads, Kind
<1>3. Flagged(r, H)
  BY <1>1 DEF Flagged, Kin
<1>4. Placed(r, H)
  <2>1. CASE o.status \cap Dirty = {}
    BY <1>1, <2>1 DEF Leads, Placed, Kin, Dirty, Kind
  <2>2. CASE o.status \cap Dirty # {}
    BY <1>1, <2>2 DEF Leads, Placed, Kin, Asking, Callers
  <2> QED
    BY <2>1, <2>2
<1>5. Handled(r, H)
  <2>1. CASE o.status \cap Dirty = {}
    <3>1. "NEW" \notin o.status
      BY <2>1 DEF Dirty
    <3>2. r.at = "unlock" => ~H.closes
      BY <2>1 DEF Leads
    <3> QED
      BY <1>1, <1>2, <2>1, <3>1, <3>2 DEF Leads, Handled, Kin, Fit, Kind
  <2>2. CASE o.status \cap Dirty # {}
    <3>1. r.at \in {"save", "ask"} /\ (r.at = "ask" => "WRITE" \notin o.lock)
      BY <2>2 DEF Leads
    <3> QED
      BY <1>1, <3>1 DEF Handled, Kin, Fit, Kind
  <2> QED
    BY <2>1, <2>2
<1>6. Numbered(r, n, K)
  BY <1>1, <1>2 DEF Numbered, Dated, Kin
<1> QED
  BY <1>2, <1>3, <1>4, <1>5, <1>6 DEF Sound

LEMMA LeadsOutSound ==
  ASSUME NEW H, Kind(H), NEW n, NEW K, NEW o \in Objs, NEW r,
         LeadsOut(r, o, H), Flagged(o, H), Fit(o, H), Dated(o, n, K),
         o.from = "DESTROY" => o.held # "read" /\ ~o.buffer.full
  PROVE  /\ Sound(r, n, K, H) /\ Kin(r, o) /\ r \in Objs
         /\ r.at \notin {"none", "restore", "open", "use", "wait"}
<1>1. CASE o.from = "DESTROY"
  <2>1. r \in Objs /\ Kin(r, o) /\ r.at = "free"
    BY <1>1 DEF LeadsOut
  <2>2. Flagged(r, H) /\ Placed(r, H) /\ Numbered(r, n, K)
    BY <1>1, <2>1 DEF Flagged, Placed, Numbered, Dated, Kin
  <2>3. Handled(r, H)
    BY <1>1, <2>1 DEF Handled, Fit, Kin, Kind
  <2> QED
    BY <2>1, <2>2, <2>3 DEF Sound
<1>2. CASE o.from # "DESTROY"
  <2>1. Leads(r, o, "DESTROY", H)
    BY <1>2 DEF LeadsOut
  <2>2. Sound(r, n, K, H) /\ r.at \notin {"none", "free", "restore", "open", "wait"}
    BY <2>1, LeadsSound DEF Callers
  <2>3. r.at # "use"
    BY <2>1 DEF Leads, Kind
  <2> QED
    BY <2>1, <2>2, <2>3 DEF Leads
<1> QED
  BY <1>1, <1>2

\* An object in use, or about to be saved, is fit.
LEMMA SoundFit ==
  ASSUME NEW H, Kind(H), NEW n, NEW K, NEW o \in Objs, Sound(o, n, K, H),
         o.at \in {"restore", "open", "use", "save", "ask", "wait"}
  PROVE  Fit(o, H) /\ Flagged(o, H) /\ Dated(o, n, K)
<1>1. Flagged(o, H) /\ Handled(o, H) /\ Numbered(o, n, K)
  BY DEF Sound
<1>2. Dated(o, n, K)
  BY <1>1 DEF Numbered
<1>3. o.at \in {"restore", "open"} => o.status = {}
  BY DEF Sound, Placed
<1>4. Fit(o, H)
  BY <1>1, <1>3 DEF Handled, Fit, Kind
<1> QED
  BY <1>1, <1>2, <1>4

-----------------------------------------------------------------------------
(* What the step of one process leaves of each part *)

\* Who is new is in use.
LEMMA NewUsed ==
  ASSUME NEW H, NEW n, NEW K, NEW o, Sound(o, n, K, H), "NEW" \in o.status
  PROVE  o.at # "none" /\ o.sid \in Sids /\ o.sid \notin K
<1>1. o.at # "none"
  BY DEF Sound, Handled
<1> QED
  BY <1>1 DEF Sound, Numbered, Dated

\* Visits are only counted up.
LEMMA LaterSound ==
  ASSUME NEW H, NEW n \in Nat, NEW m \in Nat, n <= m, NEW K, NEW o \in Objs,
         Sound(o, n, K, H)
  PROVE  Sound(o, m, K, H)
<1>1. o.fd \in Nat /\ o.visit \in Nat
  BY BoundsAssumption DEF Objs
<1>2. Numbered(o, m, K)
  BY <1>1 DEF Sound, Numbered, Dated
<1> QED
  BY <1>2 DEF Sound

LEMMA ObjectsStep ==
  ASSUME NEW H, NEW ob \in [Procs -> Objs], NEW p \in Procs, NEW r \in Objs,
         NEW n \in Nat, NEW m \in Nat, n <= m, NEW K, Objects(ob, n, K, H),
         Sound(r, m, K, H),
         \/ r.at = "none"
         \/ ob[p].at # "none" /\ r.sid = ob[p].sid
              /\ ("NEW" \in r.status => "NEW" \in ob[p].status)
         \/ r.sid \in K
         \/ \A q \in Procs : ob[q].sid # r.sid
  PROVE  Objects([ob EXCEPT ![p] = r], m, K, H)
<1> DEFINE nb == [ob EXCEPT ![p] = r]
<1>1. \A q \in Procs : nb[q] = IF q = p THEN r ELSE ob[q]
  OBVIOUS
<1>2. \A q \in Procs : Sound(ob[q], n, K, H)
  BY DEF Objects
<1>3. \A q \in Procs : Sound(nb[q], m, K, H)
  <2> TAKE q \in Procs
  <2>1. Sound(ob[q], m, K, H)
    BY <1>2, LaterSound
  <2> QED
    BY <1>1, <2>1
<1>4. Apart(nb)
  <2> SUFFICES ASSUME NEW a \in Procs, NEW b \in Procs, a # b, nb[b].at # "none",
                      "NEW" \in nb[a].status
               PROVE  nb[b].sid # nb[a].sid
    BY DEF Apart
  <2>1. nb[a].at # "none" /\ nb[a].sid \notin K
    BY <1>3, NewUsed
  <2>2. CASE a = p
    <3>1. nb[a] = r /\ nb[b] = ob[b]
      BY <1>1, <2>2
    <3>2. CASE ob[p].at # "none" /\ r.sid = ob[p].sid /\ "NEW" \in ob[p].status
      BY <2>2, <3>1, <3>2 DEF Objects, Apart
    <3> QED
      BY <2>1, <3>1, <3>2
  <2>3. CASE b = p
    <3>1. nb[b] = r /\ nb[a] = ob[a]
      BY <1>1, <2>3
    <3>2. CASE ob[p].at # "none" /\ r.sid = ob[p].sid
      BY <2>3, <3>1, <3>2 DEF Objects, Apart
    <3> QED
      BY <2>1, <3>1, <3>2
  <2>4. CASE a # p /\ b # p
    BY <1>1, <2>4 DEF Objects, Apart
  <2> QED
    BY <2>2, <2>3, <2>4
<1> QED
  BY <1>3, <1>4 DEF Objects

\* A session gets known: nobody else has it.
LEMMA ObjectsKnown ==
  ASSUME NEW H, NEW ob \in [Procs -> Objs], NEW p \in Procs, NEW r \in Objs,
         NEW n \in Nat, NEW K, Objects(ob, n, K, H),
         "NEW" \in ob[p].status, r.sid = ob[p].sid, "NEW" \notin r.status,
         Sound(r, n, K \cup {r.sid}, H)
  PROVE  Objects([ob EXCEPT ![p] = r], n, K \cup {r.sid}, H)
<1> DEFINE nb == [ob EXCEPT ![p] = r]
           L == K \cup {r.sid}
<1>1. \A q \in Procs : nb[q] = IF q = p THEN r ELSE ob[q]
  OBVIOUS
<1>2. \A q \in Procs : Sound(ob[q], n, K, H)
  BY DEF Objects
<1>3. \A q \in Procs : Sound(nb[q], n, L, H)
  <2> TAKE q \in Procs
  <2>1. CASE q = p
    BY <1>1, <2>1
  <2>2. CASE q # p
    <3>1. ob[q].at # "none" => ob[q].sid # r.sid
      BY <2>2 DEF Objects, Apart
    <3>2. Numbered(ob[q], n, K)
      BY <1>2 DEF Sound
    <3>3. Numbered(ob[q], n, L)
      BY <3>1, <3>2 DEF Numbered, Dated
    <3>4. Sound(ob[q], n, L, H)
      BY <1>2, <3>3 DEF Sound
    <3> QED
      BY <1>1, <2>2, <3>4
  <2> QED
    BY <2>1, <2>2
<1>4. Apart(nb)
  <2> SUFFICES ASSUME NEW a \in Procs, NEW b \in Procs, a # b, nb[b].at # "none",
                      "NEW" \in nb[a].status
               PROVE  nb[b].sid # nb[a].sid
    BY DEF Apart
  <2>1. nb[a].sid \notin L /\ nb[a] = ob[a] /\ a # p
    BY <1>1, <1>3, NewUsed
  <2>2. CASE b = p
    BY <1>1, <2>1, <2>2
  <2>3. CASE b # p
    BY <1>1, <2>1, <2>3 DEF Objects, Apart
  <2> QED
    BY <2>2, <2>3
<1> QED
  BY <1>3, <1>4 DEF Objects

-----------------------------------------------------------------------------
(* The semaphores *)

Kinds == {"read", "write"}

Sems == [Kinds -> 0 .. Cardinality(Procs)]

LEMMA ReadersFinite ==
  ASSUME NEW ob
  PROVE  /\ IsFiniteSet(Readers(ob)) /\ Cardinality(Readers(ob)) \in Nat
         /\ Cardinality(Readers(ob)) <= Cardinality(Procs)
         /\ Cardinality(Procs) \in Nat
<1>1. Readers(ob) \in SUBSET Procs
  BY DEF Readers
<1>2. IsFiniteSet(Readers(ob)) /\ Cardinality(Readers(ob)) <= Cardinality(Procs)
  BY <1>1, FS_Subset, BoundsAssumption
<1> QED
  BY <1>2, FS_CardinalityType, BoundsAssumption

\* Where there is a process, one unit may be taken.
LEMMA OneUnit == ASSUME NEW p \in Procs PROVE Cardinality(Procs) >= 1
<1>1. Cardinality(Procs) # 0
  BY FS_EmptySet, BoundsAssumption
<1> QED
  BY <1>1, FS_CardinalityType, BoundsAssumption

\* Semaphores that are counted are in range.
LEMMA CountedType ==
  ASSUME NEW ob, NEW se, NEW lk, Counted(ob, se, lk), DOMAIN se = Kinds,
         se = [k \in Kinds |-> se[k]]
  PROVE  se \in Sems
<1>1. se["read"] \in 0 .. Cardinality(Procs)
  BY ReadersFinite DEF Counted
<1>2. se["write"] \in 0 .. Cardinality(Procs)
  <2>1. CASE \E p \in Procs : Writes(p, ob, lk)
    BY <2>1, OneUnit, ReadersFinite DEF Counted
  <2>2. CASE \A p \in Procs : ~Writes(p, ob, lk)
    BY <2>2, ReadersFinite DEF Counted
  <2> QED
    BY <2>1, <2>2
<1> QED
  BY <1>1, <1>2 DEF Sems, Kinds

LEMMA CountedQuiet ==
  ASSUME NEW ob \in [Procs -> Objs], NEW p \in Procs, NEW r \in Objs, NEW se, NEW lk,
         Counted(ob, se, lk), r.held = ob[p].held
  PROVE  Counted([ob EXCEPT ![p] = r], se, lk)
<1> DEFINE nb == [ob EXCEPT ![p] = r]
<1>1. \A q \in Procs : nb[q].held = ob[q].held
  OBVIOUS
<1>2. Readers(nb) = Readers(ob)
  BY <1>1 DEF Readers
<1>3. \A q \in Procs : Writes(q, nb, lk) <=> Writes(q, ob, lk)
  BY <1>1 DEF Writes
<1> HIDE DEF nb
<1>4. \A q \in Procs : lk[q] => nb[q].held = "none"
  BY <1>1 DEF Counted
<1>5. \A q \in Procs : nb[q].held = "read" <=> ob[q].held = "read"
  BY <1>1
<1>6. Counted(nb, se, lk)
  BY <1>2, <1>3, <1>4, <1>5 DEF Counted
<1> QED
  BY <1>6 DEF nb

\* A process gives back its read unit.
LEMMA CountedReadBack ==
  ASSUME NEW ob \in [Procs -> Objs], NEW p \in Procs, NEW r \in Objs,
         NEW se \in Sems, NEW lk, Counted(ob, se, lk),
         ob[p].held = "read", r.held = "none"
  PROVE  /\ Counted([ob EXCEPT ![p] = r], [se EXCEPT !["read"] = @ - 1], lk)
         /\ [se EXCEPT !["read"] = @ - 1] \in Sems
<1> DEFINE nb == [ob EXCEPT ![p] = r]
           ne == [se EXCEPT !["read"] = @ - 1]
<1>1. \A q \in Procs : nb[q].held = IF q = p THEN "none" ELSE ob[q].held
  OBVIOUS
<1>2. Readers(nb) = Readers(ob) \ {p} /\ p \in Readers(ob)
  BY <1>1 DEF Readers
<1>3. Cardinality(Readers(nb)) = Cardinality(Readers(ob)) - 1
  BY <1>2, ReadersFinite, FS_RemoveElement
<1>4. \A q \in Procs : Writes(q, nb, lk) <=> Writes(q, ob, lk)
  BY <1>1 DEF Writes
<1>5. /\ ne["read"] = se["read"] - 1 /\ ne["write"] = se["write"]
      /\ DOMAIN ne = Kinds /\ ne = [k \in Kinds |-> ne[k]]
  BY DEF Sems, Kinds
<1> HIDE DEF nb, ne
<1>6. Counted(nb, ne, lk)
  <2>1. ne["read"] = Cardinality(Readers(nb))
    BY <1>3, <1>5 DEF Counted
  <2> QED
    BY <1>1, <1>4, <1>5, <2>1 DEF Counted
<1>7. ne \in Sems
  BY <1>5, <1>6, CountedType
<1> QED
  BY <1>6, <1>7 DEF nb, ne

\* A process gives back the write unit it holds, or has leaked.
LEMMA CountedWriteBack ==
  ASSUME NEW ob \in [Procs -> Objs], NEW p \in Procs, NEW r \in Objs,
         NEW se \in Sems, NEW lk \in [Procs -> BOOLEAN], Counted(ob, se, lk),
         Writes(p, ob, lk), r.held = "none"
  PROVE  /\ Counted([ob EXCEPT ![p] = r], [se EXCEPT !["write"] = @ - 1],
                    [lk EXCEPT ![p] = FALSE])
         /\ [se EXCEPT !["write"] = @ - 1] \in Sems
<1> DEFINE nb == [ob EXCEPT ![p] = r]
           ne == [se EXCEPT !["write"] = @ - 1]
           nk == [lk EXCEPT ![p] = FALSE]
<1>1. \A q \in Procs : nb[q].held = IF q = p THEN "none" ELSE ob[q].held
  OBVIOUS
<1>2. \A q \in Procs : nk[q] <=> (q # p /\ lk[q])
  OBVIOUS
<1>3. \A q \in Procs : ob[q].held # "read" /\ (Writes(q, ob, lk) => q = p)
  BY DEF Counted
<1>4. Readers(nb) = Readers(ob)
  BY <1>1, <1>3 DEF Readers
<1>5. /\ ne["read"] = se["read"] /\ ne["write"] = se["write"] - 1
      /\ DOMAIN ne = Kinds /\ ne = [k \in Kinds |-> ne[k]]
  BY DEF Sems, Kinds
<1> HIDE DEF nb, ne, nk
<1>6. \A q \in Procs : ~Writes(q, nb, nk) /\ ~nk[q]
  BY <1>1, <1>2, <1>3 DEF Writes
<1>7. se["write"] = 1
  BY DEF Counted
<1>8. Counted(nb, ne, nk)
  BY <1>4, <1>5, <1>6, <1>7 DEF Counted
<1>9. ne \in Sems
  BY <1>5, <1>8, CountedType
<1> QED
  BY <1>8, <1>9 DEF nb, ne, nk

\* A process gets a unit.
LEMMA CountedGet ==
  ASSUME NEW ob \in [Procs -> Objs], NEW p \in Procs, NEW r \in Objs,
         NEW se \in Sems, NEW lk \in [Procs -> BOOLEAN], Counted(ob, se, lk),
         NEW k \in Kinds, ob[p].held = "none", r.held = k,
         se["write"] = 0, k = "write" => se["read"] = 0
  PROVE  /\ Counted([ob EXCEPT ![p] = r], [se EXCEPT ![k] = @ + 1], lk)
         /\ [se EXCEPT ![k] = @ + 1] \in Sems
<1> DEFINE nb == [ob EXCEPT ![p] = r]
           ne == [se EXCEPT ![k] = @ + 1]
<1>1. \A q \in Procs : nb[q].held = IF q = p THEN k ELSE ob[q].held
  OBVIOUS
<1>2. \A q \in Procs : ~Writes(q, ob, lk)
  BY DEF Counted
<1>3. \A q \in Procs : ~lk[q] /\ ob[q].held # "write"
  BY <1>2 DEF Writes
<1>4. DOMAIN ne = Kinds /\ ne = [j \in Kinds |-> ne[j]]
  BY DEF Sems
<1>5. CASE k = "read"
  <2>1. Readers(nb) = Readers(ob) \cup {p} /\ p \notin Readers(ob)
    BY <1>1, <1>5 DEF Readers
  <2>2. ne["read"] = se["read"] + 1 /\ ne["write"] = se["write"]
    BY <1>5 DEF Sems, Kinds
  <2> HIDE DEF nb, ne
  <2>3. Cardinality(Readers(nb)) = Cardinality(Readers(ob)) + 1
    <3>1. IsFiniteSet(Readers(ob)) /\ p \notin Readers(ob)
      BY <2>1, ReadersFinite
    <3>2. Cardinality(Readers(ob) \cup {p}) = Cardinality(Readers(ob)) + 1
      BY <3>1, FS_AddElement
    <3> QED
      BY <2>1, <3>2
  <2>4. \A q \in Procs : ~Writes(q, nb, lk)
    BY <1>1, <1>3, <1>5 DEF Writes
  <2>5. ne["read"] = Cardinality(Readers(nb))
    BY <2>2, <2>3 DEF Counted
  <2>6. Counted(nb, ne, lk)
    BY <1>3, <2>2, <2>4, <2>5 DEF Counted
  <2>7. ne \in Sems
    BY <1>4, <2>6, CountedType
  <2> QED
    BY <2>6, <2>7 DEF nb, ne
<1>6. CASE k = "write"
  <2>1. Readers(ob) = {}
    BY <1>6, ReadersFinite, FS_EmptySet DEF Counted
  <2>2. Readers(nb) = {} /\ \A q \in Procs : nb[q].held # "read"
    BY <1>1, <1>6, <2>1 DEF Readers
  <2>3. ne["read"] = se["read"] /\ ne["write"] = se["write"] + 1
    BY <1>6 DEF Sems, Kinds
  <2> HIDE DEF nb, ne
  <2>4. \A q \in Procs : Writes(q, nb, lk) <=> q = p
    BY <1>1, <1>3, <1>6 DEF Writes
  <2>5. ne["read"] = Cardinality(Readers(nb))
    BY <2>1, <2>2, <2>3 DEF Counted
  <2>6. Counted(nb, ne, lk)
    BY <1>3, <1>6, <2>2, <2>3, <2>4, <2>5 DEF Counted
  <2>7. ne \in Sems
    BY <1>4, <2>6, CountedType
  <2> QED
    BY <2>6, <2>7 DEF nb, ne
<1> QED
  BY <1>5, <1>6 DEF Kinds

\* What holds the write unit is freed: its process has leaked it.
LEMMA CountedLeak ==
  ASSUME NEW ob \in [Procs -> Objs], NEW p \in Procs, NEW r \in Objs,
         NEW se \in Sems, NEW lk \in [Procs -> BOOLEAN], Counted(ob, se, lk),
         ob[p].held = "write", r.held = "none"
  PROVE  Counted([ob EXCEPT ![p] = r], se, [lk EXCEPT ![p] = TRUE])
<1> DEFINE nb == [ob EXCEPT ![p] = r]
           nk == [lk EXCEPT ![p] = TRUE]
<1>1. \A q \in Procs : nb[q].held = IF q = p THEN "none" ELSE ob[q].held
  OBVIOUS
<1>2. \A q \in Procs : nk[q] <=> (q = p \/ lk[q])
  OBVIOUS
<1>3. Readers(nb) = Readers(ob)
  BY <1>1 DEF Readers
<1> HIDE DEF nb, nk
<1>4. \A q \in Procs : Writes(q, nb, nk) <=> Writes(q, ob, lk)
  BY <1>1, <1>2 DEF Writes
<1>5. \A q \in Procs : nk[q] => nb[q].held = "none"
  BY <1>1, <1>2 DEF Counted
<1>6. \A q \in Procs : nb[q].held = "read" <=> ob[q].held = "read"
  BY <1>1
<1>7. Counted(nb, se, nk)
  BY <1>3, <1>4, <1>5, <1>6 DEF Counted
<1> QED
  BY <1>7 DEF nb, nk

-----------------------------------------------------------------------------
(* The lock files *)

\* What lets go of no file, or has none
LEMMA LockFilesQuiet ==
  ASSUME NEW H, NEW ob \in [Procs -> Objs], NEW p \in Procs, NEW r \in Objs, NEW lf, NEW lo,
         LockFiles(ob, lf, lo, H),
         r.held \in {ob[p].held, "none"},
         \/ r.file = ob[p].file /\ r.sid = ob[p].sid /\ ob[p].at # "none"
         \/ r.file = 0 /\ r.held = "none"
  PROVE  LockFiles([ob EXCEPT ![p] = r], lf, lo, H)
<1> DEFINE nb == [ob EXCEPT ![p] = r]
<1>1. \A q \in Procs : nb[q] = IF q = p THEN r ELSE ob[q]
  OBVIOUS
<1> HIDE DEF nb
<1> SUFFICES ASSUME H.lock = "flock" PROVE Alone(nb) /\ OneFile(nb, lf, lo)
  BY DEF LockFiles, nb
<1>2. Alone(ob) /\ OneFile(ob, lf, lo)
  BY DEF LockFiles
<1>3. Alone(nb)
  <2> SUFFICES ASSUME NEW a \in Procs, NEW b \in Procs, a # b, nb[a].file = nb[b].file,
                      nb[a].held = "write"
               PROVE  nb[b].held = "none"
    BY DEF Alone
  <2>1. CASE a = p
    BY <1>1, <1>2, <2>1 DEF Alone
  <2>2. CASE b = p
    BY <1>1, <1>2, <2>2 DEF Alone
  <2>3. CASE a # p /\ b # p
    BY <1>1, <1>2, <2>3 DEF Alone
  <2> QED
    BY <2>1, <2>2, <2>3
<1>4. OneFile(nb, lf, lo)
  BY <1>1, <1>2 DEF OneFile
<1> QED
  BY <1>3, <1>4

\* A process opens its session's lock file, and makes it if it is not there.
LEMMA LockFilesAsk ==
  ASSUME NEW H, NEW ob \in [Procs -> Objs], NEW p \in Procs, NEW r \in Objs,
         NEW lf \in [Sids -> 0 .. MaxVisits], NEW lo,
         LockFiles(ob, lf, lo, H), \A q \in Procs : ob[q].at # "none" => ob[q].sid \in Sids,
         ob[p].at # "none", r.sid = ob[p].sid, r.held = "none",
         IF ob[p].file # 0 THEN r.file = ob[p].file
         ELSE r.file # 0 /\ (lf[r.sid] # 0 => r.file = lf[r.sid])
  PROVE  LockFiles([ob EXCEPT ![p] = r],
                   IF ob[p].file = 0 THEN [lf EXCEPT ![r.sid] = r.file] ELSE lf, lo, H)
<1> DEFINE nb == [ob EXCEPT ![p] = r]
<1>0. PICK nf : nf = IF ob[p].file = 0 THEN [lf EXCEPT ![r.sid] = r.file] ELSE lf
  OBVIOUS
<1>1. \A q \in Procs : nb[q] = IF q = p THEN r ELSE ob[q]
  OBVIOUS
<1> HIDE DEF nb
<1>2. SUFFICES ASSUME H.lock = "flock" PROVE Alone(nb) /\ OneFile(nb, nf, lo)
  BY <1>0 DEF LockFiles, nb
<1>3. Alone(ob) /\ OneFile(ob, lf, lo)
  BY <1>2 DEF LockFiles
<1>4. Alone(nb)
  <2> SUFFICES ASSUME NEW a \in Procs, NEW b \in Procs, a # b, nb[a].file = nb[b].file,
                      nb[a].held = "write"
               PROVE  nb[b].held = "none"
    BY DEF Alone
  <2>1. CASE a = p
    BY <1>1, <2>1
  <2>2. CASE b = p
    BY <1>1, <2>2
  <2>3. CASE a # p /\ b # p
    BY <1>1, <1>3, <2>3 DEF Alone
  <2> QED
    BY <2>1, <2>2, <2>3
<1>5. OneFile(nb, nf, lo)
  <2>1. CASE ob[p].file # 0
    <3>1. nf = lf /\ r.file = ob[p].file
      BY <1>0, <2>1
    <3> QED
      BY <1>1, <1>3, <3>1 DEF OneFile
  <2>2. CASE ob[p].file = 0
    <3>1. nf = [lf EXCEPT ![r.sid] = r.file]
      BY <1>0, <2>2
    <3>2. r.sid \in Sids /\ (lf[r.sid] # 0 => r.file = lf[r.sid]) /\ r.file # 0
      BY <2>2
    <3>3. nf[r.sid] = r.file /\ \A s \in Sids : s # r.sid => nf[s] = lf[s]
      BY <3>1, <3>2
    <3> SUFFICES ASSUME NEW q \in Procs, nb[q].at # "none", nb[q].file # 0,
                        nb[q].sid \notin lo
                 PROVE  nb[q].file = nf[nb[q].sid]
      BY DEF OneFile
    <3>4. CASE q = p
      BY <1>1, <3>3, <3>4
    <3>5. CASE q # p
      <4>1. ob[q] = nb[q] /\ ob[q].file = lf[ob[q].sid] /\ ob[q].sid \in Sids
        BY <1>1, <1>3, <3>5 DEF OneFile
      <4> QED
        BY <3>2, <3>3, <4>1
    <3> QED
      BY <3>4, <3>5
  <2> QED
    BY <2>1, <2>2
<1> QED
  BY <1>4, <1>5

\* A process gets the lock of its file when it is free.
LEMMA LockFilesGet ==
  ASSUME NEW H, NEW ob \in [Procs -> Objs], NEW p \in Procs, NEW r \in Objs, NEW lf, NEW lo,
         LockFiles(ob, lf, lo, H),
         r.file = ob[p].file, r.sid = ob[p].sid, ob[p].at # "none",
         H.lock = "flock" =>
           \A q \in Procs \ {p} :
             (ob[q].file = ob[p].file /\ ob[q].held # "none")
               => r.held = "read" /\ ob[q].held = "read"
  PROVE  LockFiles([ob EXCEPT ![p] = r], lf, lo, H)
<1> DEFINE nb == [ob EXCEPT ![p] = r]
<1>1. \A q \in Procs : nb[q] = IF q = p THEN r ELSE ob[q]
  OBVIOUS
<1> HIDE DEF nb
<1> SUFFICES ASSUME H.lock = "flock" PROVE Alone(nb) /\ OneFile(nb, lf, lo)
  BY DEF LockFiles, nb
<1>2. Alone(ob) /\ OneFile(ob, lf, lo)
  BY DEF LockFiles
<1>3. Alone(nb)
  <2> SUFFICES ASSUME NEW a \in Procs, NEW b \in Procs, a # b, nb[a].file = nb[b].file,
                      nb[a].held = "write"
               PROVE  nb[b].held = "none"
    BY DEF Alone
  <2>1. CASE a = p
    BY <1>1, <2>1
  <2>2. CASE b = p
    BY <1>1, <2>2
  <2>3. CASE a # p /\ b # p
    BY <1>1, <1>2, <2>3 DEF Alone
  <2> QED
    BY <2>1, <2>2, <2>3
<1>4. OneFile(nb, lf, lo)
  BY <1>1, <1>2 DEF OneFile
<1> QED
  BY <1>3, <1>4

\* A lock file is removed: who has it open goes on with it.
LEMMA LockFilesClean ==
  ASSUME NEW H, NEW ob, NEW lf \in [Sids -> 0 .. MaxVisits], NEW lo, NEW s \in Sids,
         LockFiles(ob, lf, lo, H)
  PROVE  LockFiles(ob, [lf EXCEPT ![s] = 0],
                   IF \E q \in Procs : ob[q].file = lf[s] THEN lo \cup {s} ELSE lo, H)
<1>0. PICK nl : nl = IF \E q \in Procs : ob[q].file = lf[s] THEN lo \cup {s} ELSE lo
  OBVIOUS
<1>1. PICK nf : nf = [lf EXCEPT ![s] = 0]
  OBVIOUS
<1>2. SUFFICES ASSUME H.lock = "flock" PROVE Alone(ob) /\ OneFile(ob, nf, nl)
  BY <1>0, <1>1 DEF LockFiles
<1>3. Alone(ob) /\ OneFile(ob, lf, lo)
  BY <1>2 DEF LockFiles
<1>4. OneFile(ob, nf, nl)
  <2> SUFFICES ASSUME NEW q \in Procs, ob[q].at # "none", ob[q].file # 0, ob[q].sid \notin nl
               PROVE  ob[q].file = nf[ob[q].sid]
    BY DEF OneFile
  <2>1. ob[q].sid \notin lo
    BY <1>0
  <2>2. ob[q].file = lf[ob[q].sid]
    BY <1>3, <2>1 DEF OneFile
  <2>3. ob[q].sid # s
    BY <1>0, <2>2
  <2> QED
    BY <1>1, <2>2, <2>3
<1> QED
  BY <1>3, <1>4

\* Who has a session under the write lock has it alone.
LEMMA Excludes ==
  ASSUME NEW H, Kind(H), NEW ob \in [Procs -> Objs], NEW n, NEW K, NEW se, NEW lk, NEW lf, NEW lo,
         Objects(ob, n, K, H), Semaphores(ob, se, lk, lo, H), LockFiles(ob, lf, lo, H),
         NEW p \in Procs, NEW q \in Procs, p # q,
         ob[p].held = "write", ob[q].sid = ob[p].sid, ob[p].sid \notin lo
  PROVE  ob[q].held = "none"
<1>1. CASE H.lock = "semaphore"
  <2>1. Counted(ob, se, lk)
    BY <1>1 DEF Semaphores
  <2>2. Writes(p, ob, lk)
    BY DEF Writes
  <2>3. ob[q].held # "read" /\ ~Writes(q, ob, lk)
    BY <2>1, <2>2 DEF Counted
  <2> QED
    BY <2>3 DEF Writes, Objs
<1>2. CASE H.lock = "flock"
  <2> SUFFICES ASSUME ob[q].held # "none" PROVE FALSE
    OBVIOUS
  <2>1. \A a \in Procs : ob[a].held # "none" => ob[a].file # 0 /\ ob[a].at # "none"
    BY <1>2 DEF Objects, Sound, Flagged, Placed
  <2>2. ob[p].file = lf[ob[p].sid] /\ ob[q].file = lf[ob[q].sid]
    BY <1>2, <2>1 DEF LockFiles, OneFile
  <2> QED
    BY <1>2, <2>2 DEF LockFiles, Alone
<1> QED
  BY <1>1, <1>2 DEF Kind

-----------------------------------------------------------------------------
(* The files and rows *)

\* The files an object can write to are its session's.
Uses(o, f, di) == f # 0 /\ f \in {o.fd, o.visit, di[o.sid]}

LEMMA Mine ==
  ASSUME NEW ob, NEW di, NEW n, Files(ob, di, n), NEW p \in Procs, NEW o, o = ob[p],
         o.at # "none", o.sid \in Sids,
         NEW f, Uses(o, f, di)
  PROVE  \A s \in Sids : s # o.sid => di[s] # f
<1>1. PICK who \in [Visits -> Sids \cup {"none"}] : Owns(who, ob, di)
  BY DEF Files
<1>2. who[f] = o.sid
  BY <1>1 DEF Owns, Uses
<1>3. \A s \in Sids : di[s] # 0 => who[di[s]] = s
  BY <1>1 DEF Owns
<1> QED
  BY <1>2, <1>3 DEF Uses

\* What a step may leave of the files an object r, o before, and its session have
Moves(r, o, di, ni) ==
  /\ r.at # "none" =>
       /\ r.sid = o.sid /\ r.visit = o.visit
       /\ r.fd \in {0, o.fd, o.visit, di[o.sid]}
  /\ \A s \in Sids : s # o.sid => ni[s] = di[s]
  /\ ni[o.sid] \in {0, o.visit, di[o.sid]}

LEMMA FilesStep ==
  ASSUME NEW ob \in [Procs -> Objs], NEW di, NEW ni, NEW n, NEW K, Files(ob, di, n),
         NEW p \in Procs, NEW r \in Objs, n \in Nat,
         ob[p].at # "none", Dated(ob[p], n, K), Moves(r, ob[p], di, ni)
  PROVE  Files([ob EXCEPT ![p] = r], ni, n)
<1> DEFINE nb == [ob EXCEPT ![p] = r]
<1>0. \A q \in Procs : nb[q] = IF q = p THEN r ELSE ob[q]
  OBVIOUS
<1> HIDE DEF nb
<1>1. PICK who \in [Visits -> Sids \cup {"none"}] : Owns(who, ob, di)
  BY DEF Files
<1>2. ob[p].sid \in Sids /\ ob[p].visit \in 1..n
  BY DEF Dated
<1>3. /\ \A s \in Sids : di[s] # 0 => who[di[s]] = s
      /\ \A q \in Procs : ob[q].at # "none" =>
           who[ob[q].visit] = ob[q].sid /\ (ob[q].fd # 0 => who[ob[q].fd] = ob[q].sid)
  BY <1>1 DEF Owns
<1>4. \A s \in Sids : ni[s] # 0 => who[ni[s]] = s
  <2> SUFFICES ASSUME NEW s \in Sids, ni[s] # 0 PROVE who[ni[s]] = s
    OBVIOUS
  <2>1. CASE s = ob[p].sid
    BY <1>3, <2>1, <1>2 DEF Moves
  <2>2. CASE s # ob[p].sid
    BY <1>3, <2>2 DEF Moves
  <2> QED
    BY <2>1, <2>2
<1>5. \A q \in Procs : nb[q].at # "none" =>
        who[nb[q].visit] = nb[q].sid /\ (nb[q].fd # 0 => who[nb[q].fd] = nb[q].sid)
  <2> SUFFICES ASSUME NEW q \in Procs, nb[q].at # "none"
               PROVE  who[nb[q].visit] = nb[q].sid /\ (nb[q].fd # 0 => who[nb[q].fd] = nb[q].sid)
    OBVIOUS
  <2>1. CASE q = p
    BY <1>0, <1>2, <1>3, <2>1 DEF Moves
  <2>2. CASE q # p
    BY <1>0, <1>3, <2>2
  <2> QED
    BY <2>1, <2>2
<1>6. \A s \in Sids : ni[s] \in 0..n
  <2> TAKE s \in Sids
  <2>1. \A t \in Sids : di[t] \in 0..n
    BY DEF Files
  <2>2. ob[p].visit \in 0..n /\ 0 \in 0..n
    BY <1>2
  <2> QED
    BY <1>2, <2>1, <2>2 DEF Moves
<1>7. Owns(who, nb, ni)
  BY <1>4, <1>5 DEF Owns
<1> QED
  BY <1>6, <1>7 DEF Files, nb

\* A new visit: its number is in no use.
LEMMA FilesTie ==
  ASSUME NEW H, NEW ob \in [Procs -> Objs], NEW di, NEW n \in Nat, NEW K, Files(ob, di, n),
         NEW p \in Procs, NEW r \in Objs, n < MaxVisits, Objects(ob, n, K, H),
         r.sid \in Sids, r.visit = n + 1, r.fd = 0
  PROVE  Files([ob EXCEPT ![p] = r], di, n + 1)
<1> DEFINE nb == [ob EXCEPT ![p] = r]
<1>0. \A q \in Procs : nb[q] = IF q = p THEN r ELSE ob[q]
  OBVIOUS
<1> HIDE DEF nb
<1>1. PICK who \in [Visits -> Sids \cup {"none"}] : Owns(who, ob, di)
  BY DEF Files
<1>2. PICK own : own = [who EXCEPT ![n + 1] = r.sid]
  OBVIOUS
<1>3. own \in [Visits -> Sids \cup {"none"}]
  BY <1>2
<1>4. own[n + 1] = r.sid
  BY <1>2, BoundsAssumption DEF Visits
<1>5. \A v \in Visits : v <= n => own[v] = who[v]
  BY <1>2 DEF Visits
<1>6. \A s \in Sids : di[s] \in 0..n
  BY DEF Files
<1>7. \A v \in 1..n : v \in Visits
  BY BoundsAssumption DEF Visits
<1>8. \A s \in Sids : di[s] # 0 => own[di[s]] = s
  BY <1>1, <1>5, <1>6, <1>7 DEF Owns
<1>9. \A q \in Procs : nb[q].at # "none" =>
        own[nb[q].visit] = nb[q].sid /\ (nb[q].fd # 0 => own[nb[q].fd] = nb[q].sid)
  <2> SUFFICES ASSUME NEW q \in Procs, nb[q].at # "none"
               PROVE  own[nb[q].visit] = nb[q].sid /\ (nb[q].fd # 0 => own[nb[q].fd] = nb[q].sid)
    OBVIOUS
  <2>1. CASE q = p
    BY <1>0, <1>4, <2>1
  <2>2. CASE q # p
    <3>1. nb[q] = ob[q] /\ Dated(ob[q], n, K)
      BY <1>0, <2>2 DEF Objects, Sound, Numbered
    <3>2. ob[q].visit \in 1..n /\ ob[q].fd <= n /\ ob[q].fd \in 0 .. MaxVisits
      BY <3>1 DEF Dated, Objs
    <3>3. ob[q].fd # 0 => ob[q].fd \in 1..n
      BY <3>2, BoundsAssumption
    <3> QED
      BY <1>1, <1>5, <1>7, <3>1, <3>2, <3>3 DEF Owns
  <2> QED
    BY <2>1, <2>2
<1>10. \A s \in Sids : di[s] \in 0 .. n + 1
  BY <1>6
<1>11. Owns(own, nb, di)
  BY <1>8, <1>9 DEF Owns
<1> QED
  BY <1>3, <1>10, <1>11 DEF Files, nb

\* What a step leaves whole: it unlinks files, fills them, and forgets no
\* buffer, unless it tells that the file was cut.
LEMMA WholesStep ==
  ASSUME NEW ob \in [Procs -> Objs], NEW p \in Procs, NEW r \in Objs,
         NEW di, NEW ni, NEW co, NEW no, NEW cu, NEW nu, NEW lo, Wholes(ob, di, co, cu, lo),
         \A s \in Sids \ lo : ni[s] \in {0, di[s]},
         \A s \in Sids \ lo : di[s] # 0 /\ co[di[s]].full => no[di[s]].full,
         cu \subseteq nu,
         ob[p].buffer.full =>
           \/ r.sid = ob[p].sid /\ r.fd = ob[p].fd /\ r.buffer = ob[p].buffer
           \/ ob[p].fd \in nu \/ no[ob[p].fd].full
  PROVE  Wholes([ob EXCEPT ![p] = r], ni, no, nu, lo)
<1> DEFINE nb == [ob EXCEPT ![p] = r]
<1>0. \A q \in Procs : nb[q] = IF q = p THEN r ELSE ob[q]
  OBVIOUS
<1> HIDE DEF nb
<1> SUFFICES ASSUME NEW s \in Sids \ lo, ni[s] # 0
             PROVE  \/ no[ni[s]].full
                    \/ ni[s] \in nu
                    \/ \E q \in Procs : nb[q].sid = s /\ nb[q].fd = ni[s] /\ nb[q].buffer.full
  BY DEF Wholes, Whole, nb
<1>1. ni[s] = di[s]
  OBVIOUS
<1>2. Whole(s, ob, di, co, cu)
  BY DEF Wholes
<1>3. CASE co[di[s]].full
  BY <1>1, <1>3
<1>4. CASE di[s] \in cu
  BY <1>1, <1>4
<1>5. CASE \E q \in Procs : ob[q].sid = s /\ ob[q].fd = di[s] /\ ob[q].buffer.full
  <2> PICK q \in Procs : ob[q].sid = s /\ ob[q].fd = di[s] /\ ob[q].buffer.full
    BY <1>5
  <2>1. CASE q = p
    <3>1. CASE r.sid = ob[p].sid /\ r.fd = ob[p].fd /\ r.buffer = ob[p].buffer
      BY <1>0, <1>1, <2>1, <3>1
    <3> QED
      BY <1>1, <2>1, <3>1
  <2>2. CASE q # p
    BY <1>0, <1>1, <2>2
  <2> QED
    BY <2>1, <2>2
<1> QED
  BY <1>1, <1>2, <1>3, <1>4, <1>5 DEF Whole

\* A file is truncated, or a row written, and what its session names is that
\* one, or was before.
Truncates(r, o, f, di, ni, co, no) ==
  /\ \A v \in Visits : v # f => no[v] = co[v]
  /\ no[f].full \/ (r.fd = f /\ r.buffer.full)
  /\ r.sid = o.sid /\ r.sid \in Sids /\ (o.buffer.full => o.fd = f)
  /\ \A s \in Sids : s # r.sid => ni[s] = di[s] /\ di[s] # f
  /\ \A s \in Sids : di[s] \in 0 .. MaxVisits
  /\ ni[r.sid] \in {f, di[r.sid]}

LEMMA WholesWrite ==
  ASSUME NEW ob \in [Procs -> Objs], NEW p \in Procs, NEW r \in Objs,
         NEW di, NEW ni, NEW co, NEW no, NEW cu, NEW lo,
         Wholes(ob, di, co, cu, lo),
         NEW f \in Visits, Truncates(r, ob[p], f, di, ni, co, no)
  PROVE  Wholes([ob EXCEPT ![p] = r], ni, no, cu, lo)
<1> DEFINE nb == [ob EXCEPT ![p] = r]
<1>0. \A q \in Procs : nb[q] = IF q = p THEN r ELSE ob[q]
  OBVIOUS
<1> HIDE DEF nb
<1> SUFFICES ASSUME NEW s \in Sids \ lo, ni[s] # 0
             PROVE  \/ no[ni[s]].full
                    \/ ni[s] \in cu
                    \/ \E q \in Procs : nb[q].sid = s /\ nb[q].fd = ni[s] /\ nb[q].buffer.full
  BY DEF Wholes, Whole, nb
<1>9. /\ \A v \in Visits : v # f => no[v] = co[v]
      /\ no[f].full \/ (r.fd = f /\ r.buffer.full)
      /\ r.sid = ob[p].sid /\ r.sid \in Sids /\ (ob[p].buffer.full => ob[p].fd = f)
      /\ \A t \in Sids : t # r.sid => ni[t] = di[t] /\ di[t] # f
      /\ \A t \in Sids : di[t] \in 0 .. MaxVisits
      /\ ni[r.sid] \in {f, di[r.sid]}
  BY DEF Truncates
<1>1. CASE ni[s] = f
  <2>1. s = r.sid
    BY <1>1, <1>9
  <2>2. nb[p] = r
    BY <1>0
  <2> QED
    BY <1>1, <1>9, <2>1, <2>2
<1>2. CASE ni[s] # f
  <2>1. ni[s] = di[s] /\ di[s] \in Visits
    BY <1>2, <1>9, BoundsAssumption DEF Visits
  <2>2. no[di[s]] = co[di[s]]
    BY <1>2, <1>9, <2>1
  <2>3. Whole(s, ob, di, co, cu)
    BY DEF Wholes
  <2>4. CASE \E q \in Procs : ob[q].sid = s /\ ob[q].fd = di[s] /\ ob[q].buffer.full
    <3> PICK q \in Procs : ob[q].sid = s /\ ob[q].fd = di[s] /\ ob[q].buffer.full
      BY <2>4
    <3>1. q # p
      BY <1>2, <1>9, <2>1
    <3> QED
      BY <1>0, <2>1, <3>1
  <2> QED
    BY <2>1, <2>2, <2>3, <2>4 DEF Whole
<1> QED
  BY <1>1, <1>2

LEMMA OpenedStep ==
  ASSUME NEW ob \in [Procs -> Objs], NEW p \in Procs, NEW r \in Objs, NEW di, NEW lo,
         Opened(ob, di, lo), r.at = "open" /\ r.sid \notin lo => di[r.sid] # 0
  PROVE  Opened([ob EXCEPT ![p] = r], di, lo)
<1> DEFINE nb == [ob EXCEPT ![p] = r]
<1>0. \A q \in Procs : nb[q] = IF q = p THEN r ELSE ob[q]
  OBVIOUS
<1> HIDE DEF nb
<1> QED
  BY <1>0 DEF Opened, nb

-----------------------------------------------------------------------------
(* Under Transaction *)

\* What a step does to other sessions: nothing
Elsewhere(sid, di, ni, co, no, sa, na) ==
  \A s \in Sids : s # sid =>
    ni[s] = di[s] /\ na[s] \subseteq sa[s] /\ (di[s] # 0 => no[di[s]] = co[di[s]])

\* Nobody but p has sid in hand.
OnlyWith(p, sid, ob) ==
  \A q \in Procs \ {p} : ob[q].at # "none" /\ ob[q].sid = sid => ~InHand(ob[q])

InUse(ob) == \A q \in Procs : ob[q].at # "none" => ob[q].sid \in Sids

\* What p leaves of its session
Leaves(r, sid, di, co, sa, lo, H) ==
  /\ sid \in Sids \ lo => Kept(sid, di, co, sa)
  /\ r.at # "none" /\ r.sid \notin lo => Follows(r, di, co, sa, H)

LEMMA TransactionsStep ==
  ASSUME NEW H, NEW ob \in [Procs -> Objs], NEW p \in Procs, NEW r \in Objs,
         NEW di, NEW ni, NEW co, NEW no, NEW sa, NEW na, NEW lo, NEW sid,
         Transactions(ob, di, co, sa, lo, H), InUse(ob),
         Elsewhere(sid, di, ni, co, no, sa, na),
         Leaves(r, sid, ni, no, na, lo, H),
         sid \notin lo => OnlyWith(p, sid, ob)
  PROVE  Transactions([ob EXCEPT ![p] = r], ni, no, na, lo, H)
<1> DEFINE nb == [ob EXCEPT ![p] = r]
<1>0. \A q \in Procs : nb[q] = IF q = p THEN r ELSE ob[q]
  OBVIOUS
<1> HIDE DEF nb
<1>1. \A s \in Sids \ lo : Kept(s, ni, no, na)
  <2> TAKE s \in Sids \ lo
  <2>1. CASE s = sid
    BY <2>1 DEF Leaves
  <2>2. CASE s # sid
    <3>1. Kept(s, di, co, sa)
      BY DEF Transactions
    <3> QED
      BY <2>2, <3>1 DEF Kept, Elsewhere
  <2> QED
    BY <2>1, <2>2
<1>2. \A q \in Procs : nb[q].at # "none" /\ nb[q].sid \notin lo => Follows(nb[q], ni, no, na, H)
  <2> SUFFICES ASSUME NEW q \in Procs, nb[q].at # "none", nb[q].sid \notin lo
               PROVE  Follows(nb[q], ni, no, na, H)
    OBVIOUS
  <2>1. CASE q = p
    BY <1>0, <2>1 DEF Leaves
  <2>2. CASE q # p
    <3>1. nb[q] = ob[q] /\ ob[q].at # "none" /\ ob[q].sid \notin lo
      BY <1>0, <2>2
    <3>2. Follows(ob[q], di, co, sa, H) /\ ob[q].sid \in Sids
      BY <3>1 DEF Transactions, InUse
    <3>3. CASE ob[q].sid = sid
      BY <2>2, <3>1, <3>3 DEF Follows, OnlyWith
    <3>4. CASE ob[q].sid # sid
      BY <3>1, <3>2, <3>4 DEF Follows, Latest, Elsewhere
    <3> QED
      BY <3>3, <3>4
  <2> QED
    BY <2>1, <2>2
<1> QED
  BY <1>1, <1>2 DEF Transactions, nb

LEMMA TransactionsQuiet ==
  ASSUME NEW H, NEW ob \in [Procs -> Objs], NEW p \in Procs, NEW r \in Objs,
         NEW di, NEW co, NEW sa, NEW lo, Transactions(ob, di, co, sa, lo, H),
         r.at # "none" /\ r.sid \notin lo => Follows(r, di, co, sa, H)
  PROVE  Transactions([ob EXCEPT ![p] = r], di, co, sa, lo, H)
<1> DEFINE nb == [ob EXCEPT ![p] = r]
<1>0. \A q \in Procs : nb[q] = IF q = p THEN r ELSE ob[q]
  OBVIOUS
<1> HIDE DEF nb
<1> QED
  BY <1>0 DEF Transactions, nb

-----------------------------------------------------------------------------
(* The invariant is kept by each action. *)

\* What is so before any step
LEMMA Before ==
  ASSUME IInv
  PROVE  /\ TypeOK /\ obj \in [Procs -> Objs] /\ Kind(Here)
         /\ visits \in Nat /\ MaxVisits \in Nat
         /\ dir \in [Sids -> 0 .. MaxVisits] /\ content \in [Visits -> Contents]
         /\ locks \in [Sids -> 0 .. MaxVisits] /\ leaked \in [Procs -> BOOLEAN]
         /\ sem \in Sems
         /\ \A p \in Procs :
              /\ obj[p] \in Objs /\ Sound(obj[p], visits, known, Here)
              /\ obj[p].at # "none" => Dated(obj[p], visits, known) /\ obj[p].sid \in Sids
         /\ \A s \in Sids : dir[s] \in 0..visits
         /\ InUse(obj)
<1>1. TypeOK /\ obj \in [Procs -> Objs] /\ Kind(Here)
  BY ObjType, HereKind DEF IInv
<1>2. /\ visits \in Nat /\ MaxVisits \in Nat
      /\ dir \in [Sids -> 0 .. MaxVisits] /\ content \in [Visits -> Contents]
      /\ locks \in [Sids -> 0 .. MaxVisits] /\ leaked \in [Procs -> BOOLEAN]
      /\ sem \in Sems
  BY <1>1, BoundsAssumption DEF TypeOK, Sems, Kinds
<1>3. \A p \in Procs : obj[p] \in Objs /\ Sound(obj[p], visits, known, Here)
  BY <1>1 DEF IInv, Objects
<1>4. \A p \in Procs : obj[p].at # "none" => Dated(obj[p], visits, known) /\ obj[p].sid \in Sids
  BY <1>3 DEF Sound, Numbered, Dated
<1>5. \A s \in Sids : dir[s] \in 0..visits
  BY DEF IInv, Files
<1>6. InUse(obj)
  BY <1>4 DEF InUse
<1> QED
  BY <1>1, <1>2, <1>3, <1>4, <1>5, <1>6

\* Steps of an object that go on with its session, and change nothing else
OnlyObj == UNCHANGED <<class, mode, store, locks, sem, leaked, history>>

GoesOn(r, o) ==
  /\ r.at # "none" /\ r.sid = o.sid /\ r.visit = o.visit
  /\ r.held = o.held /\ r.file = o.file
  /\ "NEW" \in r.status => "NEW" \in o.status

\* What such a step leaves of the parts about objects and files
Stays(r, o) ==
  /\ r.at # "none" /\ r.sid = o.sid /\ r.visit = o.visit
  /\ "NEW" \in r.status => "NEW" \in o.status

LEMMA ObjectPart ==
  ASSUME IInv, NEW p \in Procs, NEW r \in Objs, Is(p, r),
         (obj[p].at # "none" /\ Stays(r, obj[p])) \/ r.at = "none",
         Sound(r, visits, known, Here)
  PROVE  obj' \in [Procs -> Objs] /\ Objects(obj', visits, known, Here)
<1>1. obj' = [obj EXCEPT ![p] = r]
  BY DEF Is
<1>2. Objects(obj, visits, known, Here) /\ visits \in Nat /\ visits <= visits
  BY Before DEF IInv
<1>3. CASE obj[p].at # "none" /\ Stays(r, obj[p])
  <2>1. r.sid = obj[p].sid /\ ("NEW" \in r.status => "NEW" \in obj[p].status)
    BY <1>3 DEF Stays
  <2> QED
    BY <1>1, <1>2, <2>1, Before, ObjectsStep
<1>4. CASE r.at = "none"
  BY <1>1, <1>2, <1>4, Before, ObjectsStep
<1> QED
  BY <1>3, <1>4

LEMMA SameFiles ==
  ASSUME IInv, NEW p \in Procs, NEW r \in Objs, Is(p, r),
         obj[p].at # "none", Stays(r, obj[p]),
         r.fd \in {0, obj[p].fd, dir[obj[p].sid]},
         obj[p].buffer.full => r.fd = obj[p].fd /\ r.buffer = obj[p].buffer
  PROVE  /\ Files(obj', dir, visits)
         /\ Closes(Here) => Wholes(obj', dir, content, cut, loose)
<1>1. obj' = [obj EXCEPT ![p] = r]
  BY DEF Is
<1>2. Files(obj', dir, visits)
  <2>1. Files(obj, dir, visits) /\ Dated(obj[p], visits, known) /\ obj[p].sid \in Sids
    BY Before DEF IInv
  <2> QED
    BY <1>1, <2>1, Before, FilesStep DEF Stays, Moves
<1>3. Closes(Here) => Wholes(obj', dir, content, cut, loose)
  BY <1>1, Before, WholesStep DEF IInv, Stays
<1> QED
  BY <1>2, <1>3

\* ... and of the parts about locks, when it has those it had
LEMMA SameLocks ==
  ASSUME IInv, NEW p \in Procs, NEW r \in Objs, Is(p, r), obj[p].at # "none",
         r.held = obj[p].held, r.file = obj[p].file, r.sid = obj[p].sid
  PROVE  /\ Semaphores(obj', sem, leaked, loose, Here)
         /\ LockFiles(obj', locks, loose, Here)
<1>1. obj' = [obj EXCEPT ![p] = r]
  BY DEF Is
<1>2. Semaphores(obj', sem, leaked, loose, Here)
  BY <1>1, Before, CountedQuiet DEF IInv, Semaphores
<1>3. LockFiles(obj', locks, loose, Here)
  BY <1>1, Before, LockFilesQuiet DEF IInv
<1> QED
  BY <1>2, <1>3

LEMMA SameStep ==
  ASSUME IInv, NEW p \in Procs, NEW r \in Objs, Is(p, r), OnlyObj,
         obj[p].at # "none", GoesOn(r, obj[p]),
         Sound(r, visits, known, Here),
         r.fd \in {0, obj[p].fd, dir[obj[p].sid]},
         obj[p].buffer.full => r.fd = obj[p].fd /\ r.buffer = obj[p].buffer,
         r.at = "open" => dir[r.sid] # 0,
         mode = "all" => Exclusive(r),
         mode = "all" /\ Closes(Here) /\ r.sid \notin loose =>
           Follows(r, dir, content, Owed, Here)
  PROVE  IInv'
<1>1. obj' = [obj EXCEPT ![p] = r]
  BY DEF Is
<1>2. /\ Here' = Here /\ class' = class /\ mode' = mode /\ dir' = dir /\ content' = content
      /\ locks' = locks /\ sem' = sem /\ leaked' = leaked
      /\ visits' = visits /\ known' = known /\ saved' = saved /\ nameless' = nameless
      /\ Owed' = Owed /\ cut' = cut /\ cleans' = cleans /\ loose' = loose
  BY DEF OnlyObj, Here, store, history, Owed
<1>3. Stays(r, obj[p])
  BY DEF GoesOn, Stays
<1>4. obj' \in [Procs -> Objs] /\ Objects(obj', visits, known, Here)
  BY <1>3, ObjectPart
<1>5. TypeOK'
  BY <1>2, <1>4 DEF IInv, TypeOK, Objs
<1>6. Semaphores(obj', sem, leaked, loose, Here) /\ LockFiles(obj', locks, loose, Here)
  BY SameLocks DEF GoesOn
<1>7. Files(obj', dir, visits) /\ (Closes(Here) => Wholes(obj', dir, content, cut, loose))
  BY <1>3, SameFiles
<1>8. mode = "all" => \A q \in Procs : Exclusive(obj'[q])
  BY <1>1, Before DEF IInv
<1>9. mode = "all" /\ Closes(Here) => Transactions(obj', dir, content, Owed, loose, Here)
  BY <1>1, Before, TransactionsQuiet DEF IInv
<1>10. Opened(obj', dir, loose)
  BY <1>1, Before, OpenedStep DEF IInv
<1> QED
  BY <1>2, <1>4, <1>5, <1>6, <1>7, <1>8, <1>9, <1>10 DEF IInv

LEMMA FollowsKin ==
  ASSUME NEW H, NEW r, NEW o, NEW di, NEW co, NEW sa, Kin(r, o), InHand(r) => InHand(o),
         Follows(o, di, co, sa, H)
  PROVE  Follows(r, di, co, sa, H)
BY DEF Follows, Latest, Kin, Frozen

LEMMA ExclusiveLeads ==
  ASSUME NEW r, NEW o, NEW f, NEW H, Leads(r, o, f, H),
         "WRITE" \in o.lock \/ o.status = {"NEW"}
  PROVE  Exclusive(r)
<1>1. Kin(r, o)
  BY DEF Leads
<1>2. CASE "WRITE" \in o.lock
  <2>1. r.at \in {"close", "unlock", "use", "save"}
    BY <1>2 DEF Leads
  <2> QED
    BY <1>1, <1>2, <2>1 DEF Exclusive, Kin
<1>3. CASE "WRITE" \notin o.lock /\ o.status = {"NEW"}
  <2>1. r.at = "ask" /\ r.want = "write"
    BY <1>3 DEF Leads, Dirty
  <2> QED
    BY <1>1, <1>3, <2>1 DEF Exclusive, Kin
<1> QED
  BY <1>2, <1>3

LEMMA ExclusiveLeadsOut ==
  ASSUME NEW r, NEW o, NEW H, LeadsOut(r, o, H), "WRITE" \in o.lock
  PROVE  Exclusive(r)
<1>1. CASE o.from = "DESTROY"
  BY <1>1 DEF LeadsOut, Exclusive
<1>2. CASE o.from # "DESTROY"
  BY <1>2, ExclusiveLeads DEF LeadsOut
<1> QED
  BY <1>1, <1>2

\* The data of an object in use are changed: it has another status.
LEMMA ChangedStep ==
  ASSUME IInv, NEW p \in Procs, NEW r \in Objs, Is(p, r), OnlyObj,
         obj[p].at = "use", r.at = "use",
         r.status = obj[p].status \cup {"MODIFIED"},
         r.data = obj[p].data \cup {obj[p].visit},
         r.sid = obj[p].sid, r.visit = obj[p].visit, r.lock = obj[p].lock,
         r.held = obj[p].held, r.file = obj[p].file, r.fd = obj[p].fd,
         r.buffer = obj[p].buffer, r.removed = obj[p].removed
  PROVE  IInv'
<1>0. PICK o : o = obj[p]
  OBVIOUS
<1>2. /\ o \in Objs /\ Sound(o, visits, known, Here) /\ Kind(Here)
      /\ o.at = "use" /\ Dated(o, visits, known)
  BY <1>0, Before
<1>4. /\ r.status = o.status \cup {"MODIFIED"} /\ r.data = o.data \cup {o.visit}
      /\ r.at = "use" /\ r.sid = o.sid /\ r.visit = o.visit /\ r.lock = o.lock
      /\ r.held = o.held /\ r.file = o.file /\ r.fd = o.fd /\ r.buffer = o.buffer
      /\ r.removed = o.removed
  BY <1>0
<1>7. "NEW" \notin o.status /\ o.status # {}
  BY <1>2 DEF Sound, Placed
<1>8. Sound(r, visits, known, Here)
  <2>1. Flagged(r, Here)
    BY <1>2, <1>4 DEF Sound, Flagged
  <2>2. Placed(r, Here)
    BY <1>2, <1>4, <1>7 DEF Sound, Placed
  <2>3. Handled(r, Here)
    BY <1>2, <1>4, <1>7 DEF Sound, Handled
  <2>4. Numbered(r, visits, known)
    BY <1>2, <1>4, <1>7 DEF Numbered, Dated
  <2> QED
    BY <2>1, <2>2, <2>3, <2>4 DEF Sound
<1>9. GoesOn(r, o)
  BY <1>4, <1>7 DEF GoesOn
<1>10. mode = "all" => Exclusive(r)
  BY <1>0, <1>2, <1>4 DEF IInv, Exclusive
<1>11. mode = "all" /\ Closes(Here) /\ r.sid \notin loose =>
         Follows(r, dir, content, Owed, Here)
  <2> SUFFICES ASSUME mode = "all", Closes(Here), r.sid \notin loose
               PROVE  Follows(r, dir, content, Owed, Here)
    OBVIOUS
  <2>1. Follows(o, dir, content, Owed, Here) /\ InHand(o)
    BY <1>0, <1>2, <1>4, <1>7 DEF IInv, Transactions, InHand
  <2>2. r.status # {"SYNCED"}
    BY <1>4
  <2> QED
    BY <1>4, <2>1, <2>2 DEF Follows, Latest
<1> QED
  BY <1>0, <1>2, <1>4, <1>8, <1>9, <1>10, <1>11, SameStep

LEMMA ChangeKeeps == ASSUME IInv, NEW p \in Procs, Change(p) PROVE IInv'
<1>0. PICK o : o = obj[p]
  OBVIOUS
<1>1. PICK D, S : D = o.data \cup {o.visit} /\ S = o.status \cup {"MODIFIED"}
  OBVIOUS
<1>2. PICK r : r = [o EXCEPT !.data = D, !.status = S]
  OBVIOUS
<1>3. /\ o \in Objs /\ o.at = "use" /\ o.visit \in Visits
  BY <1>0, Before, BoundsAssumption DEF Change, TypeOK, Dated, Visits
<1>4. D \in SUBSET Visits /\ S \in SUBSET Status
  BY <1>1, <1>3 DEF Objs, Status
<1>5. r \in Objs
  BY <1>2, <1>3, <1>4 DEF Objs
<1>6. /\ r.status = S /\ r.data = D /\ r.at = "use" /\ r.sid = o.sid /\ r.visit = o.visit
      /\ r.lock = o.lock /\ r.held = o.held /\ r.file = o.file /\ r.fd = o.fd
      /\ r.buffer = o.buffer /\ r.removed = o.removed
  BY <1>2, <1>3 DEF Objs
<1>7. Is(p, r) /\ OnlyObj
  <2>1. r = [o EXCEPT !.data = @ \cup {o.visit}, !.status = @ \cup {"MODIFIED"}]
    BY <1>1, <1>2, <1>3 DEF Objs
  <2> QED
    BY <1>0, <2>1 DEF Change, OnlyObj
<1> QED
  BY <1>0, <1>1, <1>3, <1>5, <1>6, <1>7, ChangedStep

LEMMA ClearKeeps == ASSUME IInv, NEW p \in Procs, Clear(p) PROVE IInv'
<1>0. PICK o : o = obj[p]
  OBVIOUS
<1>1. PICK D, S : D = o.data \cup {o.visit} /\ S = o.status \cup {"MODIFIED"}
  OBVIOUS
<1>2. PICK a : a = [o EXCEPT !.named = FALSE]
  OBVIOUS
<1>3. PICK r : r = [a EXCEPT !.data = D, !.status = S]
  OBVIOUS
<1>4. /\ o \in Objs /\ o.at = "use" /\ o.visit \in Visits
  BY <1>0, Before, BoundsAssumption DEF Clear, TypeOK, Dated, Visits
<1>5. D \in SUBSET Visits /\ S \in SUBSET Status
  BY <1>1, <1>4 DEF Objs, Status
<1>6. r \in Objs
  <2>1. a \in Objs
    BY <1>4, <1>2 DEF Objs
  <2> QED
    BY <1>3, <1>5, <2>1 DEF Objs
<1>7. /\ r.status = S /\ r.data = D /\ r.at = "use" /\ r.sid = o.sid /\ r.visit = o.visit
      /\ r.lock = o.lock /\ r.held = o.held /\ r.file = o.file /\ r.fd = o.fd
      /\ r.buffer = o.buffer /\ r.removed = o.removed
  BY <1>3, <1>4, <1>2 DEF Objs
<1>8. Is(p, r) /\ OnlyObj
  <2>1. r = [o EXCEPT !.data = @ \cup {o.visit}, !.named = FALSE,
                      !.status = @ \cup {"MODIFIED"}]
    BY <1>1, <1>3, <1>4, <1>2 DEF Objs
  <2> QED
    BY <1>0, <2>1 DEF Clear, OnlyObj
<1> QED
  BY <1>0, <1>1, <1>4, <1>6, <1>7, <1>8, ChangedStep

LEMMA DeleteKeeps == ASSUME IInv, NEW p \in Procs, Delete(p) PROVE IInv'
<1>0. PICK o : o = obj[p]
  OBVIOUS
<1>1. PICK c : c = [o EXCEPT !.status = @ \cup {"DELETED"}]
  OBVIOUS
<1>2. PICK r : r = Saving(c, "delete")
  OBVIOUS
<1>3. /\ o \in Objs /\ Sound(o, visits, known, Here) /\ Kind(Here) /\ TypeOK
      /\ o.at = "use" /\ Dated(o, visits, known)
  BY <1>0, Before DEF Delete
<1>4. /\ c.status = o.status \cup {"DELETED"} /\ c.data = o.data
      /\ c.sid = o.sid /\ c.visit = o.visit /\ c.lock = o.lock
      /\ c.held = o.held /\ c.file = o.file /\ c.fd = o.fd /\ c.buffer = o.buffer
      /\ c.removed = o.removed /\ c.named = o.named
  BY <1>1, <1>3 DEF Objs
<1>5. c \in Objs
  <2>1. PICK S : S = o.status \cup {"DELETED"}
    OBVIOUS
  <2>2. S \in SUBSET Status
    BY <1>3, <2>1 DEF Objs, Status
  <2>3. c = [o EXCEPT !.status = S]
    BY <1>1, <1>3, <2>1
  <2> QED
    BY <1>3, <2>2, <2>3 DEF Objs
<1>6. Leads(r, c, "delete", Here)
  BY <1>2, <1>3, <1>5, SavingLeads DEF Callers
<1>7. r \in Objs /\ Kin(r, c)
  BY <1>6 DEF Leads
<1>8. Is(p, r) /\ OnlyObj
  BY <1>0, <1>1, <1>2 DEF Delete, OnlyObj
<1>9. "NEW" \notin o.status /\ o.status # {}
  BY <1>3 DEF Sound, Placed
<1>10. Fit(o, Here) /\ Flagged(o, Here)
  BY <1>3, SoundFit
<1>11. Fit(c, Here) /\ Flagged(c, Here) /\ Dated(c, visits, known) /\ c.status # {}
  BY <1>3, <1>4, <1>9, <1>10 DEF Fit, Flagged, Dated
<1>12. Sound(r, visits, known, Here) /\ r.at \notin {"none", "open"}
  BY <1>3, <1>5, <1>6, <1>11, LeadsSound DEF Callers
<1>13. GoesOn(r, o)
  BY <1>4, <1>7, <1>9, <1>12 DEF GoesOn, Kin
<1>14. mode = "all" => Exclusive(r)
  <2>1. mode = "all" => "WRITE" \in c.lock
    BY <1>0, <1>3, <1>4 DEF IInv, Exclusive
  <2> QED
    BY <1>6, <2>1, ExclusiveLeads
<1>15. mode = "all" /\ Closes(Here) /\ r.sid \notin loose =>
         Follows(r, dir, content, Owed, Here)
  <2> SUFFICES ASSUME mode = "all", Closes(Here), r.sid \notin loose
               PROVE  Follows(r, dir, content, Owed, Here)
    OBVIOUS
  <2>1. Follows(o, dir, content, Owed, Here) /\ InHand(o)
    BY <1>0, <1>3, <1>4, <1>7, <1>9 DEF IInv, Transactions, InHand, Kin
  <2>2. r.status # {"SYNCED"}
    BY <1>4, <1>7 DEF Kin
  <2> QED
    BY <1>4, <1>7, <2>1, <2>2 DEF Follows, Latest, Kin
<1>16. r.fd = o.fd /\ r.buffer = o.buffer
  BY <1>4, <1>7 DEF Kin
<1> QED
  BY <1>0, <1>3, <1>7, <1>8, <1>12, <1>13, <1>14, <1>15, <1>16, SameStep

LEMMA UntieKeeps == ASSUME IInv, NEW p \in Procs, Untie(p) PROVE IInv'
<1>0. PICK o : o = obj[p]
  OBVIOUS
<1>1. PICK r : r = Saving(o, "DESTROY")
  OBVIOUS
<1>2. /\ o \in Objs /\ Sound(o, visits, known, Here) /\ Kind(Here) /\ TypeOK
      /\ o.at = "use" /\ Dated(o, visits, known)
  BY <1>0, Before DEF Untie
<1>3. Leads(r, o, "DESTROY", Here)
  BY <1>1, <1>2, SavingLeads DEF Callers
<1>4. r \in Objs /\ Kin(r, o)
  BY <1>3 DEF Leads
<1>5. Is(p, r) /\ OnlyObj
  BY <1>0, <1>1 DEF Untie, OnlyObj, Destroyed
<1>6. "NEW" \notin o.status /\ o.status # {}
  BY <1>2 DEF Sound, Placed
<1>7. Fit(o, Here) /\ Flagged(o, Here)
  BY <1>2, SoundFit
<1>8. Sound(r, visits, known, Here) /\ r.at \notin {"none", "open"}
  BY <1>2, <1>3, <1>7, LeadsSound DEF Callers
<1>9. GoesOn(r, o)
  BY <1>4, <1>8 DEF GoesOn, Kin
<1>10. mode = "all" => Exclusive(r)
  <2>1. mode = "all" => "WRITE" \in o.lock
    BY <1>0, <1>2 DEF IInv, Exclusive
  <2> QED
    BY <1>3, <2>1, ExclusiveLeads
<1>11. mode = "all" /\ Closes(Here) /\ r.sid \notin loose =>
         Follows(r, dir, content, Owed, Here)
  <2>1. mode = "all" /\ Closes(Here) /\ r.sid \notin loose =>
          Follows(o, dir, content, Owed, Here)
    BY <1>0, <1>2, <1>4 DEF IInv, Transactions, Kin
  <2>2. InHand(o)
    BY <1>2, <1>6 DEF InHand
  <2> QED
    BY <1>4, <2>1, <2>2, FollowsKin
<1>12. r.fd = o.fd /\ r.buffer = o.buffer
  BY <1>4 DEF Kin
<1> QED
  BY <1>0, <1>2, <1>4, <1>5, <1>8, <1>9, <1>10, <1>11, <1>12, SameStep

LEMMA SqlFailsKeeps == ASSUME IInv, NEW p \in Procs, SqlFails(p) PROVE IInv'
<1>0. PICK o : o = obj[p]
  OBVIOUS
<1>1. PICK r : r = Died(o)
  OBVIOUS
<1>2. /\ o \in Objs /\ Sound(o, visits, known, Here) /\ Kind(Here) /\ TypeOK
      /\ o.at \in {"restore", "save"} /\ Dated(o, visits, known) /\ Here.store = "dbi"
  BY <1>0, Before DEF SqlFails
<1>3. LeadsOut(r, o, Here)
  BY <1>1, <1>2, DiedLeads
<1>4. Is(p, r) /\ OnlyObj
  BY <1>0, <1>1 DEF SqlFails, OnlyObj
<1>5. Fit(o, Here) /\ Flagged(o, Here)
  BY <1>2, SoundFit
<1>6. o.from = "DESTROY" => o.held # "read" /\ ~o.buffer.full
  BY <1>2 DEF Sound, Placed, Flagged, Handled
<1>7. /\ Sound(r, visits, known, Here) /\ Kin(r, o) /\ r \in Objs
      /\ r.at \notin {"none", "open", "use"}
  BY <1>2, <1>3, <1>5, <1>6, LeadsOutSound
<1>8. GoesOn(r, o)
  BY <1>7 DEF GoesOn, Kin
<1>9. mode = "all" => Exclusive(r)
  <2>1. mode = "all" => "WRITE" \in o.lock
    BY <1>0, <1>2 DEF IInv, Exclusive
  <2> QED
    BY <1>3, <2>1, ExclusiveLeadsOut
<1>10. mode = "all" /\ Closes(Here) /\ r.sid \notin loose =>
         Follows(r, dir, content, Owed, Here)
  <2>1. mode = "all" /\ Closes(Here) /\ r.sid \notin loose =>
          Follows(o, dir, content, Owed, Here)
    BY <1>0, <1>2, <1>7 DEF IInv, Transactions, Kin
  <2>2. o.at = "restore" => o.status = {}
    BY <1>2 DEF Sound, Placed
  <2>3. InHand(r) => InHand(o)
    BY <1>2, <1>7, <2>2 DEF InHand, Kin
  <2> QED
    BY <1>7, <2>1, <2>3, FollowsKin
<1>11. r.fd = o.fd /\ r.buffer = o.buffer
  BY <1>7 DEF Kin
<1> QED
  BY <1>0, <1>2, <1>4, <1>7, <1>8, <1>9, <1>10, <1>11, SameStep

\* What an object is that has read a file or row c
Reads(r, o, c) ==
  /\ r \in Objs /\ r.at \notin {"none", "restore", "open"} /\ "NEW" \notin r.status
  /\ r.sid = o.sid /\ r.visit = o.visit /\ r.lock = o.lock /\ r.held = o.held
  /\ r.file = o.file /\ r.fd = o.fd /\ r.buffer = o.buffer
  /\ InHand(r) => c.full /\ c.data = r.data /\ c = Frozen(r)

LEMMA ReadSound ==
  ASSUME TypeOK, Kind(Here), NEW o \in Objs, NEW c \in Contents, NEW n, NEW K, NEW r,
         r = Read(o, c), Flagged(o, Here), Fit(o, Here), Dated(o, n, K),
         o.status = {}, o.from = "TIEHASH", o.held # "none", ~o.buffer.full,
         Here.store = "file" => o.fd # 0
  PROVE  /\ Reads(r, o, c) /\ Sound(r, n, K, Here)
         /\ "WRITE" \in o.lock => Exclusive(r)
<1>1. CASE ~c.full
  <2>1. r = Died(o)
    BY <1>1 DEF Read
  <2>2. LeadsOut(r, o, Here)
    BY <2>1, DiedLeads
  <2>3. /\ Sound(r, n, K, Here) /\ Kin(r, o) /\ r \in Objs
        /\ r.at \notin {"none", "restore", "open"}
    BY <2>2, LeadsOutSound
  <2>4. "WRITE" \in o.lock => Exclusive(r)
    BY <2>2, ExclusiveLeadsOut
  <2>5. Reads(r, o, c)
    BY <2>3 DEF Reads, Kin, InHand
  <2> QED
    BY <2>3, <2>4, <2>5
<1>2. CASE c.full
  <2>1. PICK D, m : D = c.data /\ m = c.named
    OBVIOUS
  <2>2. D \in SUBSET Visits /\ m \in BOOLEAN /\ c = [full |-> TRUE, data |-> D, named |-> m]
    BY <1>2, <2>1 DEF Contents
  <2>3. PICK a, b : a = [o EXCEPT !.at = "use"] /\ b = [a EXCEPT !.data = D]
    OBVIOUS
  <2>4. PICK d : d = [b EXCEPT !.named = m]
    OBVIOUS
  <2>5. a \in Objs /\ b \in Objs
    BY <2>2, <2>3 DEF Objs, Places
  <2>6. d \in Objs
    BY <2>2, <2>4, <2>5 DEF Objs
  <2>7. r = [d EXCEPT !.status = {"SYNCED"}]
    BY <1>2, <2>1, <2>3, <2>4 DEF Read, Objs
  <2>8. r \in Objs
    <3>1. {"SYNCED"} \in SUBSET Status
      BY DEF Status
    <3> QED
      BY <2>6, <2>7, <3>1 DEF Objs
  <2>9. /\ r.at = "use" /\ r.data = D /\ r.named = m /\ r.status = {"SYNCED"}
        /\ r.lock = o.lock /\ r.fd = o.fd /\ r.sid = o.sid /\ r.visit = o.visit
        /\ r.held = o.held /\ r.file = o.file /\ r.buffer = o.buffer
    BY <2>3, <2>4, <2>7 DEF Objs
  <2>10. Reads(r, o, c)
    <3>1. c = Frozen(r)
      BY <2>2, <2>9 DEF Frozen
    <3>2. "NEW" \notin r.status
      BY <2>9
    <3> QED
      BY <1>2, <2>1, <2>8, <2>9, <3>1, <3>2 DEF Reads
  <2>11. Sound(r, n, K, Here)
    <3>1. Flagged(r, Here)
      BY <2>9 DEF Flagged
    <3>2. Placed(r, Here)
      BY <2>9 DEF Placed
    <3>3. Handled(r, Here)
      BY <2>9 DEF Handled, Fit, Kind
    <3>4. Numbered(r, n, K)
      BY <2>9 DEF Numbered, Dated
    <3> QED
      BY <3>1, <3>2, <3>3, <3>4 DEF Sound
  <2>12. "WRITE" \in o.lock => Exclusive(r)
    BY <2>9 DEF Exclusive
  <2> QED
    BY <2>10, <2>11, <2>12
<1> QED
  BY <1>1, <1>2

\* What is read from what a session names is the latest.
LEMMA ReadFollows ==
  ASSUME NEW H, NEW r, NEW o, NEW c, NEW di, NEW co, NEW sa, Reads(r, o, c),
         di[o.sid] # 0, c = co[di[o.sid]], Kept(o.sid, di, co, sa),
         o.fd # 0 => o.fd = di[o.sid], ~o.buffer.full
  PROVE  Follows(r, di, co, sa, H)
BY DEF Follows, Latest, Reads, Kept

LEMMA RestoreKeeps == ASSUME IInv, NEW p \in Procs, Restore(p) PROVE IInv'
<1>0. PICK o : o = obj[p]
  OBVIOUS
<1>1. PICK row : row = dir[o.sid]
  OBVIOUS
<1>2. /\ o \in Objs /\ Sound(o, visits, known, Here) /\ Kind(Here) /\ TypeOK
      /\ o.at = "restore" /\ Dated(o, visits, known) /\ o.sid \in Sids
  BY <1>0, Before DEF Restore
<1>3. PICK L : L = o.lock \cup {"READ"}
  OBVIOUS
<1>4. PICK c : c = [o EXCEPT !.lock = L]
  OBVIOUS
<1>5. row \in 0 .. visits /\ row \in 0 .. MaxVisits /\ L \in SUBSET {"READ", "WRITE"}
  BY <1>0, <1>1, <1>2, <1>3, Before DEF Objs
<1>6. o.status = {} /\ o.from = "TIEHASH" /\ o.held # "none"
  BY <1>2 DEF Sound, Placed
<1>7. ~o.buffer.full /\ Flagged(o, Here) /\ Fit(o, Here)
  BY <1>2, SoundFit DEF Sound, Handled
<1>8. /\ c.lock = L /\ c.fd = o.fd /\ c.sid = o.sid /\ c.visit = o.visit
      /\ c.status = o.status /\ c.data = o.data /\ c.held = o.held /\ c.file = o.file
      /\ c.buffer = o.buffer /\ c.removed = o.removed /\ c.from = o.from
  BY <1>2, <1>4 DEF Objs
<1>9. c \in Objs
  BY <1>2, <1>4, <1>5 DEF Objs
<1>10. "WRITE" \in L <=> "WRITE" \in o.lock
  BY <1>3
<1>11. Flagged(c, Here) /\ Fit(c, Here) /\ Dated(c, visits, known)
  BY <1>2, <1>7, <1>8, <1>10 DEF Fit, Flagged, Dated
<1>12. OnlyObj /\ obj[p].at # "none"
  BY <1>0, <1>2 DEF Restore, OnlyObj
<1>13. mode = "all" => "WRITE" \in c.lock
  BY <1>0, <1>2, <1>8, <1>10 DEF IInv, Exclusive
<1>14. Is(p, IF row = 0 THEN Died(c)
             ELSE IF Here.store = "file" THEN [c EXCEPT !.at = "open"]
             ELSE Read(c, content[row]))
  BY <1>0, <1>1, <1>3, <1>4 DEF Restore
<1>15. CASE row = 0
  <2>1. PICK r : r = Died(c)
    OBVIOUS
  <2>2. Is(p, r)
    BY <1>14, <1>15, <2>1
  <2>3. LeadsOut(r, c, Here)
    BY <1>2, <1>9, <2>1, DiedLeads
  <2>4. /\ Sound(r, visits, known, Here) /\ Kin(r, c) /\ r \in Objs
        /\ r.at \notin {"none", "open"}
    BY <1>2, <1>6, <1>8, <1>9, <1>11, <2>3, LeadsOutSound
  <2>5. GoesOn(r, o)
    BY <1>8, <2>4 DEF GoesOn, Kin
  <2>6. mode = "all" => Exclusive(r)
    BY <1>13, <2>3, ExclusiveLeadsOut
  <2>7. Follows(r, dir, content, Owed, Here)
    BY <1>6, <1>8, <2>4 DEF Follows, InHand, Kin
  <2>8. r.fd = o.fd /\ r.buffer = o.buffer
    BY <1>8, <2>4 DEF Kin
  <2> QED
    BY <1>0, <1>12, <2>2, <2>4, <2>5, <2>6, <2>7, <2>8, SameStep
<1>16. CASE row # 0 /\ Here.store = "file"
  <2>1. PICK r : r = [c EXCEPT !.at = "open"]
    OBVIOUS
  <2>2. Is(p, r)
    BY <1>14, <1>16, <2>1
  <2>3. r \in Objs
    BY <1>9, <2>1 DEF Objs, Places
  <2>4. /\ r.at = "open" /\ r.lock = c.lock /\ r.fd = o.fd /\ r.sid = o.sid
        /\ r.visit = o.visit /\ r.status = {} /\ r.data = o.data /\ r.held = o.held
        /\ r.file = o.file /\ r.buffer = o.buffer /\ r.removed = o.removed
        /\ r.from = "TIEHASH"
    BY <1>6, <1>8, <1>9, <2>1 DEF Objs
  <2>5. Sound(r, visits, known, Here)
    <3>1. Flagged(r, Here)
      BY <1>8, <1>11, <2>4 DEF Flagged
    <3>2. Placed(r, Here)
      BY <1>6, <1>16, <2>4 DEF Placed
    <3>3. Handled(r, Here)
      BY <1>6, <1>7, <1>16, <2>4 DEF Handled, Fit
    <3>4. Numbered(r, visits, known)
      BY <1>2, <1>6, <2>4 DEF Numbered, Dated
    <3> QED
      BY <3>1, <3>2, <3>3, <3>4 DEF Sound
  <2>6. GoesOn(r, o)
    BY <2>4 DEF GoesOn
  <2>7. mode = "all" => Exclusive(r)
    BY <1>13, <2>4 DEF Exclusive
  <2>8. Follows(r, dir, content, Owed, Here)
    BY <2>4 DEF Follows, InHand
  <2>9. dir[r.sid] # 0
    BY <1>1, <1>16, <2>4
  <2> QED
    BY <1>0, <1>12, <2>2, <2>3, <2>4, <2>5, <2>6, <2>7, <2>8, <2>9, SameStep
<1>17. CASE row # 0 /\ Here.store # "file"
  <2>1. PICK r : r = Read(c, content[row])
    OBVIOUS
  <2>2. Is(p, r)
    BY <1>14, <1>17, <2>1
  <2>3. content[row] \in Contents
    BY <1>5, <1>17, Before DEF Visits
  <2>4. /\ Reads(r, c, content[row]) /\ Sound(r, visits, known, Here)
        /\ "WRITE" \in c.lock => Exclusive(r)
    BY <1>2, <1>6, <1>7, <1>8, <1>9, <1>11, <1>17, <2>1, <2>3, ReadSound
  <2>5. GoesOn(r, o) /\ r \in Objs /\ r.fd = o.fd /\ r.buffer = o.buffer /\ r.at # "open"
    BY <1>8, <2>4 DEF GoesOn, Reads
  <2>6. mode = "all" /\ Closes(Here) /\ r.sid \notin loose =>
          Follows(r, dir, content, Owed, Here)
    <3> SUFFICES ASSUME mode = "all", Closes(Here), r.sid \notin loose
                 PROVE  Follows(r, dir, content, Owed, Here)
      OBVIOUS
    <3>1. Kept(o.sid, dir, content, Owed)
      BY <1>2, <1>8, <2>4 DEF IInv, Transactions, Reads
    <3>2. o.fd = 0
      BY <1>2, <1>17 DEF Sound, Handled, Kind
    <3> QED
      BY <1>1, <1>7, <1>8, <1>17, <2>4, <3>1, <3>2, ReadFollows
  <2> QED
    BY <1>0, <1>12, <1>13, <2>2, <2>4, <2>5, <2>6, SameStep
<1> QED
  BY <1>15, <1>16, <1>17

\* A session object is made.
LEMMA TiedStep ==
  ASSUME IInv, NEW p \in Procs, NEW r \in Objs, Is(p, r),
         UNCHANGED <<class, mode, store, locks, sem, leaked>>,
         UNCHANGED <<known, saved, nameless, cut, cleans, loose>>,
         visits' = visits + 1, visits < MaxVisits, obj[p].at = "none",
         Sound(r, visits + 1, known, Here),
         r.at \notin {"none", "open"}, r.sid \in Sids, r.visit = visits + 1, r.fd = 0,
         r.held = "none", r.file = 0,
         r.sid \in known \/ \A q \in Procs : obj[q].sid # r.sid,
         mode = "all" => Exclusive(r), ~InHand(r)
  PROVE  IInv'
<1>1. obj' = [obj EXCEPT ![p] = r]
  BY DEF Is
<1>2. /\ Here' = Here /\ class' = class /\ mode' = mode /\ dir' = dir /\ content' = content
      /\ locks' = locks /\ sem' = sem /\ leaked' = leaked
      /\ known' = known /\ saved' = saved /\ nameless' = nameless /\ Owed' = Owed
      /\ cut' = cut /\ cleans' = cleans /\ loose' = loose
  BY DEF Here, store, Owed
<1>3. obj[p] = NoSession
  BY Before DEF Sound, Numbered
<1>4. obj[p].held = "none" /\ ~obj[p].buffer.full
  BY <1>3 DEF NoSession, Empty
<1>5. visits \in Nat /\ visits + 1 \in Nat /\ visits <= visits + 1
  BY Before
<1>6. TypeOK'
  <2>1. obj' \in [Procs -> Objs]
    BY <1>1, Before
  <2>2. visits' \in 0 .. MaxVisits
    BY <1>5, BoundsAssumption
  <2> QED
    BY <1>2, <2>1, <2>2 DEF IInv, TypeOK, Objs
<1>7. Objects(obj', visits + 1, known, Here)
  <2>1. Objects(obj, visits, known, Here)
    BY DEF IInv
  <2> QED
    BY <1>1, <1>5, <2>1, Before, ObjectsStep
<1>8. Semaphores(obj', sem, leaked, loose, Here)
  BY <1>1, <1>4, Before, CountedQuiet DEF IInv, Semaphores
<1>9. LockFiles(obj', locks, loose, Here)
  BY <1>1, Before, LockFilesQuiet DEF IInv
<1>10. Files(obj', dir, visits + 1)
  <2>1. Objects(obj, visits, known, Here) /\ Files(obj, dir, visits)
    BY DEF IInv
  <2> QED
    BY <1>1, <1>5, <2>1, Before, FilesTie
<1>11. Closes(Here) => Wholes(obj', dir, content, cut, loose)
  BY <1>1, <1>4, Before, WholesStep DEF IInv
<1>12. mode = "all" => \A q \in Procs : Exclusive(obj'[q])
  BY <1>1, Before DEF IInv
<1>13. mode = "all" /\ Closes(Here) => Transactions(obj', dir, content, Owed, loose, Here)
  <2>1. Follows(r, dir, content, Owed, Here)
    BY DEF Follows
  <2> QED
    BY <1>1, <2>1, Before, TransactionsQuiet DEF IInv
<1>14. Opened(obj', dir, loose)
  BY <1>1, Before, OpenedStep DEF IInv
<1> QED
  BY <1>2, <1>6, <1>7, <1>8, <1>9, <1>10, <1>11, <1>12, <1>13, <1>14 DEF IInv

\* What a new object has
LEMMA TiedFields ==
  ASSUME TypeOK, NEW s \in Sids, NEW S \in SUBSET Status, visits < MaxVisits
  PROVE  LET c == Tied(s, S)
         IN  /\ c \in Objs
             /\ c.sid = s /\ c.visit = visits + 1 /\ c.status = S /\ c.from = "TIEHASH"
             /\ c.lock = {} /\ c.data = {} /\ c.held = "none" /\ c.file = 0 /\ c.fd = 0
             /\ ~c.buffer.full
<1> DEFINE c == Tied(s, S)
<1>1. visits + 1 \in 0 .. MaxVisits /\ 0 \in 0 .. MaxVisits
  BY BoundsAssumption DEF TypeOK
<1>2. Empty \in Contents /\ ~Empty.full
  BY DEF Empty, Contents
<1>3. PICK v : v = visits + 1
  OBVIOUS
<1>4. /\ NoSession \in Objs /\ NoSession.lock = {} /\ NoSession.data = {}
      /\ NoSession.held = "none" /\ NoSession.file = 0 /\ NoSession.fd = 0
      /\ NoSession.buffer = Empty
  BY <1>1, <1>2 DEF NoSession, Objs, Places
<1>5. v \in 0 .. MaxVisits
  BY <1>1, <1>3
<1>6. PICK a : a = [NoSession EXCEPT !.sid = s]
  OBVIOUS
<1>7. PICK b : b = [a EXCEPT !.visit = v]
  OBVIOUS
<1>8. PICK d : d = [b EXCEPT !.status = S]
  OBVIOUS
<1>9. c = [d EXCEPT !.from = "TIEHASH"]
  BY <1>3, <1>4, <1>6, <1>7, <1>8 DEF Tied, Objs
<1> HIDE DEF c
<1>10. a \in Objs
  BY <1>4, <1>6 DEF Objs
<1>11. b \in Objs
  BY <1>5, <1>7, <1>10 DEF Objs
<1>12. d \in Objs
  BY <1>8, <1>11 DEF Objs
<1>13. c \in Objs
  BY <1>9, <1>12 DEF Objs
<1>14. /\ c.sid = s /\ c.visit = v /\ c.status = S /\ c.from = "TIEHASH"
       /\ c.lock = {} /\ c.data = {} /\ c.held = "none" /\ c.file = 0 /\ c.fd = 0
       /\ c.buffer = Empty
  BY <1>4, <1>6, <1>7, <1>8, <1>9 DEF Objs
<1> QED
  BY <1>2, <1>3, <1>13, <1>14 DEF c

LEMMA TieNewKeeps == ASSUME IInv, NEW p \in Procs, TieNew(p) PROVE IInv'
<1>1. PICK s \in Sids \ known :
        /\ \A q \in Procs : obj[q].sid # s
        /\ Is(p, Saving(Tied(s, {"NEW"}), "TIEHASH"))
  BY DEF TieNew
<1>2. PICK c : c = Tied(s, {"NEW"})
  OBVIOUS
<1>3. PICK r : r = Saving(c, "TIEHASH")
  OBVIOUS
<1>4. obj[p].at = "none" /\ visits < MaxVisits /\ visits \in Nat /\ TypeOK /\ Kind(Here)
  BY Before DEF TieNew
<1>5. /\ c \in Objs
      /\ c.sid = s /\ c.visit = visits + 1 /\ c.status = {"NEW"} /\ c.from = "TIEHASH"
      /\ c.lock = {} /\ c.data = {} /\ c.held = "none" /\ c.file = 0 /\ c.fd = 0
      /\ ~c.buffer.full
  <2>1. {"NEW"} \in SUBSET Status
    BY DEF Status
  <2> QED
    BY <1>2, <1>4, <2>1, TiedFields
<1>6. Leads(r, c, "TIEHASH", Here)
  BY <1>3, <1>4, <1>5, SavingLeads DEF Callers
<1>7. r \in Objs /\ Kin(r, c)
  BY <1>6 DEF Leads
<1>8. Fit(c, Here) /\ Flagged(c, Here) /\ Dated(c, visits + 1, known) /\ c.status # {}
  BY <1>4, <1>5 DEF Fit, Flagged, Dated
<1>9. Sound(r, visits + 1, known, Here) /\ r.at \notin {"none", "open"}
  BY <1>4, <1>5, <1>6, <1>8, LeadsSound DEF Callers
<1>10. Exclusive(r)
  BY <1>5, <1>6, ExclusiveLeads
<1>11. ~InHand(r)
  BY <1>5, <1>7 DEF InHand, Kin
<1>12. Is(p, r)
  BY <1>1, <1>2, <1>3
<1>13. /\ r.sid = s /\ r.visit = visits + 1 /\ r.fd = 0 /\ r.held = "none" /\ r.file = 0
  BY <1>5, <1>7 DEF Kin
<1>14. /\ visits' = visits + 1
       /\ UNCHANGED <<class, mode, store, locks, sem, leaked>>
       /\ UNCHANGED <<known, saved, nameless, cut, cleans, loose>>
  BY DEF TieNew
<1> QED
  BY <1>1, <1>4, <1>7, <1>9, <1>10, <1>11, <1>12, <1>13, <1>14, TiedStep

LEMMA TieKeeps == ASSUME IInv, NEW p \in Procs, Tie(p) PROVE IInv'
<1>1. PICK s \in known, transaction \in BOOLEAN :
        /\ mode = "all" => transaction
        /\ Is(p, IF transaction THEN Acquire(Tied(s, {}), "WRITE", "write", "restore")
                 ELSE Acquire(Tied(s, {}), "READ", "read", "restore"))
  BY DEF Tie
<1>2. PICK c : c = Tied(s, {})
  OBVIOUS
<1>3. PICK w : w = IF transaction THEN "write" ELSE "read"
  OBVIOUS
<1>4. PICK r : r = [c EXCEPT !.at = "ask", !.want = w, !.next = "restore"]
  OBVIOUS
<1>5. obj[p].at = "none" /\ visits < MaxVisits /\ visits \in Nat /\ TypeOK /\ Kind(Here)
  BY Before DEF Tie
<1>6. s \in Sids
  BY <1>5 DEF TypeOK
<1>7. /\ c \in Objs
      /\ c.sid = s /\ c.visit = visits + 1 /\ c.status = {} /\ c.from = "TIEHASH"
      /\ c.lock = {} /\ c.data = {} /\ c.held = "none" /\ c.file = 0 /\ c.fd = 0
      /\ ~c.buffer.full
  <2>1. {} \in SUBSET Status
    OBVIOUS
  <2> QED
    BY <1>2, <1>5, <1>6, <2>1, TiedFields
<1>8. Is(p, r)
  <2>1. CASE transaction
    BY <1>1, <1>2, <1>3, <1>4, <1>7, <2>1 DEF Acquire
  <2>2. CASE ~transaction
    BY <1>1, <1>2, <1>3, <1>4, <1>7, <2>2 DEF Acquire
  <2> QED
    BY <2>1, <2>2
<1>9. w \in {"read", "write"} /\ (mode = "all" => w = "write")
  BY <1>1, <1>3
<1>10. r \in Objs
  <2>1. PICK a : a = [c EXCEPT !.at = "ask"]
    OBVIOUS
  <2>2. PICK b : b = [a EXCEPT !.want = w]
    OBVIOUS
  <2>3. a \in Objs
    BY <1>7, <2>1 DEF Objs, Places
  <2>4. b \in Objs
    BY <1>9, <2>2, <2>3 DEF Objs
  <2>5. r = [b EXCEPT !.next = "restore"]
    BY <1>4, <1>7, <2>1, <2>2 DEF Objs
  <2> QED
    BY <2>4, <2>5 DEF Objs
<1>11. /\ r.at = "ask" /\ r.want = w /\ r.next = "restore" /\ r.from = "TIEHASH"
       /\ r.sid = s /\ r.visit = visits + 1 /\ r.status = {} /\ r.lock = {} /\ r.data = {}
       /\ r.held = "none" /\ r.file = 0 /\ r.fd = 0 /\ ~r.buffer.full
  BY <1>4, <1>7 DEF Objs
<1>12. Sound(r, visits + 1, known, Here)
  <2>1. Flagged(r, Here)
    BY <1>11 DEF Flagged
  <2>2. Placed(r, Here)
    BY <1>9, <1>11 DEF Placed, Asking
  <2>3. Handled(r, Here)
    BY <1>11 DEF Handled
  <2>4. Numbered(r, visits + 1, known)
    BY <1>1, <1>5, <1>6, <1>11 DEF Numbered, Dated
  <2> QED
    BY <2>1, <2>2, <2>3, <2>4 DEF Sound
<1>13. mode = "all" => Exclusive(r)
  BY <1>9, <1>11 DEF Exclusive
<1>14. ~InHand(r)
  BY <1>11 DEF InHand
<1>15. /\ visits' = visits + 1
       /\ UNCHANGED <<class, mode, store, locks, sem, leaked>>
       /\ UNCHANGED <<known, saved, nameless, cut, cleans, loose>>
  BY DEF Tie
<1> QED
  BY <1>1, <1>5, <1>6, <1>8, <1>10, <1>11, <1>12, <1>13, <1>14, <1>15, TiedStep

\* What an object that asks is like when it waits
LEMMA WaitSound ==
  ASSUME NEW H, Kind(H), NEW n, NEW K, NEW o \in Objs, NEW r \in Objs,
         Sound(o, n, K, H), o.at = "ask",
         r.at = "wait", r.held = "none", H.lock = "flock" => r.file # 0,
         r.next = o.next, r.from = o.from, r.want = o.want, r.sid = o.sid,
         r.visit = o.visit, r.status = o.status, r.lock = o.lock, r.data = o.data,
         r.fd = o.fd, r.buffer = o.buffer, r.removed = o.removed
  PROVE  Sound(r, n, K, H)
<1>1. "WRITE" \notin o.lock /\ Asking(o)
  BY DEF Sound, Placed
<1>2. Flagged(r, H)
  BY <1>1 DEF Flagged
<1>3. Placed(r, H)
  BY <1>1 DEF Placed, Asking
<1>4. Handled(r, H)
  BY DEF Sound, Handled
<1>5. Numbered(r, n, K)
  BY DEF Sound, Numbered, Dated
<1> QED
  BY <1>2, <1>3, <1>4, <1>5 DEF Sound

\* What an object that asked is like when it has its lock
LEMMA GotSound ==
  ASSUME NEW H, Kind(H), NEW n, NEW K, NEW o \in Objs, NEW r \in Objs,
         Sound(o, n, K, H), o.at \in {"ask", "wait"}, H.lock = "flock" => o.file # 0,
         r.at = o.next, r.held = IF H.windows THEN "write" ELSE o.want,
         r.lock = o.lock \cup {IF o.want = "read" THEN "READ" ELSE "WRITE"},
         r.from = o.from, r.sid = o.sid, r.file = o.file,
         r.visit = o.visit, r.status = o.status, r.data = o.data,
         r.fd = o.fd, r.buffer = o.buffer, r.removed = o.removed
  PROVE  Sound(r, n, K, H) /\ r.at \in {"restore", "save"} /\ r.held \in Kinds
<1>1. "WRITE" \notin o.lock /\ Asking(o) /\ o.want \in Kinds
  BY DEF Sound, Placed, Asking, Kinds
<1>2. r.at \in {"restore", "save"} /\ r.held \in Kinds
  BY <1>1 DEF Asking, Kinds
<1>3. "WRITE" \in r.lock <=> o.want = "write"
  BY <1>1, <1>2 DEF Kinds
<1>4. Flagged(r, H)
  BY <1>1, <1>3 DEF Flagged, Kinds
<1>5. Placed(r, H)
  BY <1>1, <1>2, <1>3 DEF Placed, Asking, Kinds
<1>6. Handled(r, H)
  <2>1. "NEW" \in o.status => o.next = "save"
    BY <1>1 DEF Asking
  <2>2. r.at = "restore" => o.status = {}
    BY <1>1 DEF Asking
  <2>3. ~o.buffer.full
    BY DEF Sound, Handled
  <2> QED
    BY <1>2, <2>1, <2>2, <2>3 DEF Sound, Handled
<1>7. Numbered(r, n, K)
  BY <1>2 DEF Sound, Numbered, Dated
<1> QED
  BY <1>2, <1>4, <1>5, <1>6, <1>7 DEF Sound

\* On Windows the lock is already the object's.
LEMMA AskAgain ==
  ASSUME IInv, NEW p \in Procs, Ask(p), Here.lock = "flock", obj[p].held = "write"
  PROVE  IInv'
<1>0. PICK o : o = obj[p]
  OBVIOUS
<1>1. PICK L : L = o.lock \cup {IF o.want = "read" THEN "READ" ELSE "WRITE"}
  OBVIOUS
<1>2. PICK r : r = [o EXCEPT !.at = o.next, !.lock = L]
  OBVIOUS
<1>3. /\ o \in Objs /\ Sound(o, visits, known, Here) /\ Kind(Here) /\ TypeOK
      /\ o.at = "ask" /\ o.held = "write"
  BY <1>0, Before DEF Ask
<1>4. Asking(o) /\ o.next \in Places /\ L \in SUBSET {"READ", "WRITE"}
  <2>1. Asking(o)
    BY <1>3 DEF Sound, Placed
  <2> QED
    BY <1>1, <1>3, <2>1 DEF Asking, Places, Objs
<1>5. /\ r.at = o.next /\ r.held = o.held /\ r.lock = L
      /\ r.next = o.next /\ r.from = o.from /\ r.want = o.want /\ r.sid = o.sid
      /\ r.visit = o.visit /\ r.status = o.status /\ r.data = o.data /\ r.file = o.file
      /\ r.fd = o.fd /\ r.buffer = o.buffer /\ r.removed = o.removed
  BY <1>2, <1>3 DEF Objs
<1>6. r \in Objs
  BY <1>2, <1>3, <1>4 DEF Objs
<1>7. Is(p, r) /\ OnlyObj
  <2>1. r = Locked(o)
    BY <1>1, <1>2, <1>3 DEF Locked, Objs
  <2> QED
    BY <1>0, <1>3, <2>1 DEF Ask, AskFlock, OnlyObj
<1>8. Here.windows /\ o.file # 0
  BY <1>3 DEF Sound, Placed, Flagged
<1>9. Sound(r, visits, known, Here) /\ r.at \in {"restore", "save"}
  BY <1>1, <1>3, <1>5, <1>6, <1>8, GotSound
<1>10. GoesOn(r, o)
  BY <1>5, <1>9 DEF GoesOn
<1>11. mode = "all" => o.status \in {{}, {"NEW"}} /\ o.want = "write"
  BY <1>0, <1>3 DEF IInv, Exclusive
<1>12. mode = "all" => Exclusive(r)
  BY <1>1, <1>5, <1>9, <1>11 DEF Exclusive
<1>13. mode = "all" => Follows(r, dir, content, Owed, Here)
  BY <1>5, <1>11 DEF Follows, InHand
<1> QED
  BY <1>0, <1>3, <1>5, <1>6, <1>7, <1>9, <1>10, <1>12, <1>13, SameStep

LEMMA AskWaits ==
  ASSUME IInv, NEW p \in Procs, Ask(p), Here.lock = "flock" => obj[p].held # "write"
  PROVE  IInv'
<1>0. PICK o : o = obj[p]
  OBVIOUS
<1>1. PICK file : file = IF Here.lock = "flock"
                         THEN IF o.file # 0 THEN o.file
                              ELSE IF locks[o.sid] # 0 THEN locks[o.sid] ELSE o.visit
                         ELSE o.file
  OBVIOUS
<1>2. PICK r : r = [o EXCEPT !.at = "wait", !.file = file, !.held = "none"]
  OBVIOUS
<1>3. /\ o \in Objs /\ Sound(o, visits, known, Here) /\ Kind(Here) /\ TypeOK
      /\ o.at = "ask" /\ Dated(o, visits, known) /\ o.sid \in Sids
      /\ o.visit \in 1..visits /\ visits \in Nat
  BY <1>0, Before DEF Ask, Dated
<1>4. file \in 0 .. MaxVisits
  BY <1>1, <1>3, Before DEF Objs
<1>5. /\ r.at = "wait" /\ r.file = file /\ r.held = "none"
      /\ r.next = o.next /\ r.from = o.from /\ r.want = o.want /\ r.sid = o.sid
      /\ r.visit = o.visit /\ r.status = o.status /\ r.lock = o.lock /\ r.data = o.data
      /\ r.fd = o.fd /\ r.buffer = o.buffer /\ r.removed = o.removed
  BY <1>2, <1>3 DEF Objs
<1>6. r \in Objs
  <2>1. PICK a : a = [o EXCEPT !.at = "wait"]
    OBVIOUS
  <2>2. PICK b : b = [a EXCEPT !.file = file]
    OBVIOUS
  <2>3. a \in Objs
    BY <1>3, <2>1 DEF Objs, Places
  <2>4. b \in Objs
    BY <1>4, <2>2, <2>3 DEF Objs
  <2>5. r = [b EXCEPT !.held = "none"]
    BY <1>2, <1>3, <2>1, <2>2 DEF Objs
  <2> QED
    BY <2>4, <2>5 DEF Objs
<1>7. /\ Here' = Here /\ class' = class /\ mode' = mode /\ dir' = dir /\ content' = content
      /\ leaked' = leaked /\ visits' = visits /\ known' = known /\ saved' = saved
      /\ nameless' = nameless /\ Owed' = Owed /\ cut' = cut /\ cleans' = cleans /\ loose' = loose
  BY DEF Ask, Here, store, history, Owed
<1>8. Is(p, r)
  <2>1. CASE Here.lock = "flock"
    BY <1>0, <1>1, <1>2, <2>1 DEF Ask, AskFlock
  <2>2. CASE Here.lock # "flock"
    <3>1. r = [o EXCEPT !.at = "wait", !.held = "none"]
      BY <1>1, <1>2, <1>3, <2>2 DEF Objs
    <3> QED
      BY <1>0, <2>2, <3>1 DEF Ask, AskSemaphore
  <2> QED
    BY <2>1, <2>2
<1>9. obj' = [obj EXCEPT ![p] = r]
  BY <1>8 DEF Is
<1>10. Here.lock = "flock" => file # 0 /\ (o.file # 0 => file = o.file)
         /\ (o.file = 0 /\ locks[o.sid] # 0 => file = locks[o.sid])
  BY <1>1, <1>3
<1>11. Sound(r, visits, known, Here) /\ Stays(r, o)
  BY <1>3, <1>5, <1>6, <1>10, WaitSound DEF Stays
<1>12. obj' \in [Procs -> Objs] /\ Objects(obj', visits, known, Here)
  BY <1>0, <1>3, <1>6, <1>8, <1>11, ObjectPart
<1>13. Files(obj', dir, visits) /\ (Closes(Here) => Wholes(obj', dir, content, cut, loose))
  BY <1>0, <1>3, <1>5, <1>6, <1>8, <1>11, SameFiles
<1>14. mode = "all" => \A q \in Procs : Exclusive(obj'[q])
  <2>1. mode = "all" => Exclusive(r)
    BY <1>0, <1>3, <1>5 DEF IInv, Exclusive
  <2> QED
    BY <1>9, <2>1, Before DEF IInv
<1>15. mode = "all" /\ Closes(Here) => Transactions(obj', dir, content, Owed, loose, Here)
  <2>1. Follows(r, dir, content, Owed, Here)
    BY <1>5 DEF Follows, InHand
  <2> QED
    BY <1>6, <1>9, <2>1, Before, TransactionsQuiet DEF IInv
<1>16. Opened(obj', dir, loose)
  BY <1>5, <1>6, <1>9, Before, OpenedStep DEF IInv
<1>17. CASE Here.lock = "flock"
  <2>1. /\ sem' = sem
        /\ locks' = IF o.file = 0 THEN [locks EXCEPT ![r.sid] = r.file] ELSE locks
    BY <1>0, <1>1, <1>5, <1>17 DEF Ask, AskFlock
  <2>2. Semaphores(obj', sem', leaked, loose, Here)
    BY <1>17 DEF IInv, Semaphores, Kind
  <2>3. LockFiles(obj', locks', loose, Here)
    <3>1. LockFiles(obj, locks, loose, Here) /\ locks \in [Sids -> 0 .. MaxVisits]
      BY Before DEF IInv
    <3>2. IF obj[p].file # 0 THEN r.file = obj[p].file
          ELSE r.file # 0 /\ (locks[r.sid] # 0 => r.file = locks[r.sid])
      BY <1>0, <1>5, <1>10, <1>17
    <3> QED
      BY <1>0, <1>3, <1>5, <1>6, <1>9, <2>1, <3>1, <3>2, Before, LockFilesAsk
  <2>4. locks' \in [Sids -> 0 .. MaxVisits]
    BY <1>4, <1>5, <2>1, Before
  <2>5. TypeOK'
    BY <1>7, <1>12, <2>1, <2>4 DEF IInv, TypeOK, Objs
  <2> QED
    BY <1>7, <1>12, <1>13, <1>14, <1>15, <1>16, <2>2, <2>3, <2>5 DEF IInv
<1>18. CASE Here.lock = "semaphore"
  <2>1. /\ sem' = IF o.held = "read" THEN [sem EXCEPT !["read"] = @ - 1] ELSE sem
        /\ locks' = locks
    BY <1>0, <1>18 DEF Ask, AskSemaphore
  <2>2. Counted(obj, sem, leaked) /\ loose = {}
    BY <1>18 DEF IInv, Semaphores
  <2>3. Counted(obj', sem', leaked) /\ sem' \in Sems
    <3>1. CASE o.held = "read"
      BY <1>0, <1>5, <1>6, <1>9, <2>1, <2>2, <3>1, Before, CountedReadBack
    <3>2. CASE o.held # "read"
      <4>1. o.held = "none"
        BY <1>3, <1>18, <3>2 DEF Sound, Placed, Flagged, Kind, Objs
      <4> QED
        BY <1>0, <1>5, <1>6, <1>9, <2>1, <2>2, <3>2, <4>1, Before, CountedQuiet
    <3> QED
      BY <3>1, <3>2
  <2>4. Semaphores(obj', sem', leaked, loose, Here)
    BY <1>18, <2>2, <2>3 DEF Semaphores
  <2>5. LockFiles(obj', locks', loose, Here)
    BY <1>18 DEF LockFiles
  <2>6. TypeOK'
    BY <1>7, <1>12, <2>1, <2>3 DEF IInv, TypeOK, Objs, Sems, Kinds
  <2> QED
    BY <1>7, <1>12, <1>13, <1>14, <1>15, <1>16, <2>4, <2>5, <2>6 DEF IInv
<1> QED
  BY <1>3, <1>17, <1>18 DEF Kind

LEMMA AskKeeps == ASSUME IInv, NEW p \in Procs, Ask(p) PROVE IInv'
BY AskAgain, AskWaits

LEMMA GetKeeps == ASSUME IInv, NEW p \in Procs, Get(p) PROVE IInv'
<1>0. PICK o : o = obj[p]
  OBVIOUS
<1>1. PICK L : L = o.lock \cup {IF o.want = "read" THEN "READ" ELSE "WRITE"}
  OBVIOUS
<1>2. PICK h : h = IF Here.windows THEN "write" ELSE o.want
  OBVIOUS
<1>3. PICK r : r = [o EXCEPT !.at = o.next, !.held = h, !.lock = L]
  OBVIOUS
<1>4. /\ o \in Objs /\ Sound(o, visits, known, Here) /\ Kind(Here) /\ TypeOK
      /\ o.at = "wait" /\ o.held = "none"
  BY <1>0, Before DEF Get, Sound, Placed
<1>5. Asking(o) /\ o.next \in Places /\ h \in Kinds /\ o.want \in Kinds /\ L \in SUBSET {"READ", "WRITE"}
  <2>1. Asking(o)
    BY <1>4 DEF Sound, Placed
  <2> QED
    BY <1>1, <1>4, <1>2, <2>1 DEF Asking, Places, Kinds, Objs
<1>6. /\ r.at = o.next /\ r.held = h /\ r.lock = L
      /\ r.next = o.next /\ r.from = o.from /\ r.want = o.want /\ r.sid = o.sid
      /\ r.visit = o.visit /\ r.status = o.status /\ r.data = o.data /\ r.file = o.file
      /\ r.fd = o.fd /\ r.buffer = o.buffer /\ r.removed = o.removed
  BY <1>3, <1>4 DEF Objs
<1>7. r \in Objs
  <2>1. PICK a : a = [o EXCEPT !.at = o.next]
    OBVIOUS
  <2>2. PICK b : b = [a EXCEPT !.held = h]
    OBVIOUS
  <2>3. a \in Objs
    BY <1>4, <1>5, <2>1 DEF Objs
  <2>4. b \in Objs
    BY <1>5, <2>2, <2>3 DEF Objs, Kinds
  <2>5. r = [b EXCEPT !.lock = L]
    BY <1>3, <1>4, <2>1, <2>2 DEF Objs
  <2> QED
    BY <1>5, <2>4, <2>5 DEF Objs
<1>8. /\ Here' = Here /\ class' = class /\ mode' = mode /\ dir' = dir /\ content' = content
      /\ leaked' = leaked /\ visits' = visits /\ known' = known /\ saved' = saved
      /\ nameless' = nameless /\ Owed' = Owed /\ cut' = cut /\ cleans' = cleans /\ loose' = loose
      /\ locks' = locks
  BY DEF Get, Here, store, history, Owed
<1>9. /\ Is(p, r)
      /\ sem' = IF Here.lock = "semaphore" THEN [sem EXCEPT ![o.want] = @ + 1] ELSE sem
      /\ IF Here.lock = "flock" THEN FlockFree(p) ELSE SemaphoreFree(p)
  <2>1. r = [Locked(o) EXCEPT !.held = IF Here.windows THEN "write" ELSE o.want]
    BY <1>1, <1>3, <1>4, <1>2 DEF Locked, Objs
  <2> QED
    BY <1>0, <2>1 DEF Get
<1>10. obj' = [obj EXCEPT ![p] = r]
  BY <1>9 DEF Is
<1>11. Sound(r, visits, known, Here) /\ r.at \in {"restore", "save"}
  <2>1. Here.lock = "flock" => o.file # 0
    BY <1>4 DEF Sound, Placed
  <2> QED
    BY <1>1, <1>4, <1>6, <1>7, <1>2, <2>1, GotSound
<1>12. Stays(r, o)
  BY <1>6, <1>11 DEF Stays
<1>13. obj' \in [Procs -> Objs] /\ Objects(obj', visits, known, Here)
  BY <1>0, <1>4, <1>7, <1>9, <1>11, <1>12, ObjectPart
<1>14. Files(obj', dir, visits) /\ (Closes(Here) => Wholes(obj', dir, content, cut, loose))
  BY <1>0, <1>4, <1>6, <1>7, <1>9, <1>12, SameFiles
<1>15. mode = "all" => o.status \in {{}, {"NEW"}} /\ o.want = "write"
  BY <1>0, <1>4 DEF IInv, Exclusive
<1>16. mode = "all" => \A q \in Procs : Exclusive(obj'[q])
  <2>1. mode = "all" => Exclusive(r)
    BY <1>1, <1>6, <1>11, <1>15 DEF Exclusive
  <2> QED
    BY <1>10, <2>1, Before DEF IInv
<1>17. mode = "all" /\ Closes(Here) => Transactions(obj', dir, content, Owed, loose, Here)
  <2>1. mode = "all" => Follows(r, dir, content, Owed, Here)
    BY <1>6, <1>15 DEF Follows, InHand
  <2> QED
    BY <1>7, <1>10, <2>1, Before, TransactionsQuiet DEF IInv
<1>18. LockFiles(obj', locks, loose, Here)
  <2>1. LockFiles(obj, locks, loose, Here)
    BY DEF IInv
  <2>2. Here.lock = "flock" =>
          \A q \in Procs \ {p} :
            (obj[q].file = obj[p].file /\ obj[q].held # "none")
              => r.held = "read" /\ obj[q].held = "read"
    <3>1. \A q \in Procs : Here.windows => obj[q].held # "read"
      BY Before DEF Sound, Flagged
    <3> QED
      BY <1>0, <1>6, <1>9, <1>2, <3>1 DEF FlockFree
  <2> QED
    BY <1>0, <1>4, <1>6, <1>7, <1>10, <2>1, <2>2, Before, LockFilesGet
<1>19. Semaphores(obj', sem', leaked, loose, Here) /\ sem' \in Sems
  <2>1. CASE Here.lock = "flock"
    BY <1>9, <2>1, Before DEF IInv, Semaphores
  <2>2. CASE Here.lock = "semaphore"
    <3>1. Counted(obj, sem, leaked) /\ loose = {}
      BY <2>2 DEF IInv, Semaphores
    <3>2. sem["write"] = 0 /\ (o.want = "write" => sem["read"] = 0)
      BY <1>0, <1>9, <2>2 DEF SemaphoreFree
    <3>3. sem' = [sem EXCEPT ![o.want] = @ + 1]
      BY <1>9, <2>2
    <3>4. Counted(obj', sem', leaked) /\ sem' \in Sems
      <4>1. PICK k \in Kinds : k = o.want
        BY <1>5
      <4>2. /\ obj[p].held = "none" /\ r.held = k /\ sem' = [sem EXCEPT ![k] = @ + 1]
            /\ k = "write" => sem["read"] = 0
        BY <1>0, <1>4, <1>6, <1>2, <2>2, <3>2, <3>3, <4>1 DEF Kind
      <4>3. obj \in [Procs -> Objs] /\ sem \in Sems /\ leaked \in [Procs -> BOOLEAN]
        BY Before
      <4>4. /\ Counted([obj EXCEPT ![p] = r], [sem EXCEPT ![k] = @ + 1], leaked)
            /\ [sem EXCEPT ![k] = @ + 1] \in Sems
        BY <1>7, <3>1, <3>2, <4>2, <4>3, CountedGet
      <4> QED
        BY <1>10, <4>2, <4>4
    <3> QED
      BY <2>2, <3>1, <3>4 DEF Semaphores
  <2> QED
    BY <1>4, <2>1, <2>2 DEF Kind
<1>20. TypeOK'
  BY <1>8, <1>13, <1>19 DEF IInv, TypeOK, Objs, Sems, Kinds
<1>21. Opened(obj', dir, loose)
  BY <1>7, <1>10, <1>11, Before, OpenedStep DEF IInv
<1> QED
  BY <1>8, <1>13, <1>14, <1>16, <1>17, <1>18, <1>19, <1>20, <1>21 DEF IInv

LEMMA NoSessionFields ==
  /\ NoSession \in Objs /\ NoSession.at = "none" /\ NoSession.held = "none"
  /\ NoSession.file = 0 /\ NoSession.fd = 0 /\ NoSession.status = {} /\ NoSession.lock = {}
  /\ NoSession.data = {} /\ ~NoSession.buffer.full
<1>1. 0 \in 0 .. MaxVisits
  BY BoundsAssumption
<1>2. Empty \in Contents /\ ~Empty.full
  BY DEF Empty, Contents
<1> QED
  BY <1>1, <1>2 DEF NoSession, Objs, Places

LEMMA NoSessionSound == ASSUME NEW n, NEW K, NEW H PROVE Sound(NoSession, n, K, H)
BY NoSessionFields DEF Sound, Flagged, Placed, Handled, Numbered

\* What is written back, and where
LEMMA FlushedFacts ==
  ASSUME IInv, NEW p \in Procs
  PROVE  LET no == Flushed(obj[p])
         IN  /\ no \in [Visits -> Contents]
             /\ \A v \in Visits : content[v].full => no[v].full
             /\ obj[p].buffer.full => no[obj[p].fd].full
             /\ obj[p].buffer.full => no[obj[p].fd] = obj[p].buffer
             /\ \A s \in Sids : s # obj[p].sid /\ dir[s] # 0 => no[dir[s]] = content[dir[s]]
<1>0. PICK o : o = obj[p]
  OBVIOUS
<1>1. PICK no : no = Flushed(obj[p])
  OBVIOUS
<1>2. o \in Objs /\ Sound(o, visits, known, Here) /\ content \in [Visits -> Contents]
  BY <1>0, Before
<1>3. CASE o.buffer.full
  <2>1. o.fd # 0 /\ o.at # "none"
    BY <1>2, <1>3 DEF Sound, Handled
  <2>2. o.fd \in Visits /\ o.buffer \in Contents
    BY <1>2, <2>1, BoundsAssumption DEF Objs, Visits
  <2>3. no = [content EXCEPT ![o.fd] = o.buffer]
    BY <1>0, <1>1, <1>3 DEF Flushed
  <2>4. no \in [Visits -> Contents] /\ no[o.fd] = o.buffer
    BY <1>2, <2>2, <2>3
  <2>5. \A v \in Visits : v # o.fd => no[v] = content[v]
    BY <1>2, <2>2, <2>3
  <2>6. \A v \in Visits : content[v].full => no[v].full
    BY <1>3, <2>4, <2>5
  <2>7. ASSUME NEW s \in Sids, s # o.sid, dir[s] # 0 PROVE no[dir[s]] = content[dir[s]]
    <3>1. o.sid \in Sids /\ Files(obj, dir, visits) /\ dir[s] \in Visits
      BY <1>0, <2>1, <2>7, Before, BoundsAssumption DEF IInv, Visits
    <3>2. dir[s] # o.fd
      <4>1. Uses(o, o.fd, dir)
        BY <2>1 DEF Uses
      <4> QED
        BY <1>0, <2>1, <2>7, <3>1, <4>1, Mine
    <3> QED
      BY <2>5, <3>1, <3>2
  <2> QED
    BY <1>0, <1>1, <1>3, <2>4, <2>6, <2>7
<1>4. CASE ~o.buffer.full
  <2>1. no = content
    BY <1>0, <1>1, <1>4 DEF Flushed
  <2> QED
    BY <1>0, <1>1, <1>2, <1>4, <2>1
<1> QED
  BY <1>3, <1>4

\* Under Transaction nobody else has the session in hand.
LEMMA OthersOut ==
  ASSUME IInv, mode = "all", NEW p \in Procs, obj[p].held = "write",
         obj[p].sid \notin loose
  PROVE  OnlyWith(p, obj[p].sid, obj)
<1> SUFFICES ASSUME NEW q \in Procs \ {p}, obj[q].at # "none",
                    obj[q].sid = obj[p].sid, InHand(obj[q])
             PROVE  FALSE
  BY DEF OnlyWith
<1>1. obj[q].held = "none"
  <2>1. /\ Objects(obj, visits, known, Here) /\ Semaphores(obj, sem, leaked, loose, Here)
        /\ LockFiles(obj, locks, loose, Here)
    BY DEF IInv
  <2> QED
    BY <2>1, Before, Excludes
<1>2. "WRITE" \in obj[q].lock
  BY DEF IInv, Exclusive, InHand
<1>3. obj[q].held = "write"
  BY <1>2, Before DEF Sound, Flagged
<1> QED
  BY <1>1, <1>3

LEMMA CloseKeeps == ASSUME IInv, NEW p \in Procs, Close(p) PROVE IInv'
<1>0. PICK o : o = obj[p]
  OBVIOUS
<1>1. PICK r : r = [o EXCEPT !.at = "unlock", !.fd = 0, !.buffer = Empty]
  OBVIOUS
<1>2. /\ o \in Objs /\ Sound(o, visits, known, Here) /\ Kind(Here) /\ TypeOK
      /\ o.at = "close" /\ Dated(o, visits, known) /\ o.sid \in Sids
  BY <1>0, Before DEF Close
<1>3. /\ r.at = "unlock" /\ r.fd = 0 /\ r.buffer = Empty
      /\ r.from = o.from /\ r.want = o.want /\ r.sid = o.sid
      /\ r.visit = o.visit /\ r.status = o.status /\ r.data = o.data /\ r.file = o.file
      /\ r.held = o.held /\ r.lock = o.lock /\ r.removed = o.removed
      /\ r.named = o.named
  BY <1>1, <1>2 DEF Objs
<1>4. Empty \in Contents /\ ~Empty.full /\ 0 \in 0 .. MaxVisits
  BY BoundsAssumption DEF Empty, Contents
<1>5. r \in Objs
  <2>1. PICK a : a = [o EXCEPT !.at = "unlock"]
    OBVIOUS
  <2>2. PICK b : b = [a EXCEPT !.fd = 0]
    OBVIOUS
  <2>3. a \in Objs
    BY <1>2, <2>1 DEF Objs, Places
  <2>4. b \in Objs
    BY <1>4, <2>2, <2>3 DEF Objs
  <2>5. r = [b EXCEPT !.buffer = Empty]
    BY <1>1, <1>2, <2>1, <2>2 DEF Objs
  <2> QED
    BY <1>4, <2>4, <2>5 DEF Objs
<1>6. /\ Here' = Here /\ class' = class /\ mode' = mode /\ dir' = dir
      /\ leaked' = leaked /\ visits' = visits /\ known' = known /\ saved' = saved
      /\ nameless' = nameless /\ Owed' = Owed /\ cut' = cut /\ cleans' = cleans
      /\ loose' = loose /\ locks' = locks /\ sem' = sem
      /\ content' = Flushed(obj[p])
  BY DEF Close, Here, history, Owed
<1>7. Is(p, r)
  <2>1. [Closed(o) EXCEPT !.at = "unlock"] = r
    BY <1>1, <1>2 DEF Closed, Objs
  <2> QED
    BY <1>0, <2>1 DEF Close
<1>8. obj' = [obj EXCEPT ![p] = r]
  BY <1>7 DEF Is
<1>9. o.status \cap Dirty = {} /\ o.from = "DESTROY" /\ Here.closes
  BY <1>2 DEF Sound, Placed
<1>10. Sound(r, visits, known, Here)
  <2>1. Flagged(r, Here) /\ Placed(r, Here)
    BY <1>2, <1>3, <1>9 DEF Sound, Flagged, Placed
  <2>2. Handled(r, Here)
    BY <1>2, <1>3, <1>4, <1>9 DEF Sound, Handled, Dirty
  <2>3. Numbered(r, visits, known)
    BY <1>2, <1>3, Before DEF Numbered, Dated
  <2> QED
    BY <2>1, <2>2, <2>3 DEF Sound
<1>11. Stays(r, o)
  BY <1>3 DEF Stays
<1>12. obj' \in [Procs -> Objs] /\ Objects(obj', visits, known, Here)
  BY <1>0, <1>2, <1>5, <1>7, <1>10, <1>11, ObjectPart
<1>13. Semaphores(obj', sem, leaked, loose, Here) /\ LockFiles(obj', locks, loose, Here)
  BY <1>0, <1>2, <1>3, <1>5, <1>7, SameLocks
<1>14. Files(obj', dir, visits)
  <2>1. Files(obj, dir, visits)
    BY DEF IInv
  <2> QED
    BY <1>0, <1>2, <1>3, <1>5, <1>8, <2>1, Before, FilesStep DEF Moves
<1>15. /\ content' \in [Visits -> Contents]
       /\ \A v \in Visits : content[v].full => content'[v].full
       /\ o.buffer.full => content'[o.fd].full /\ content'[o.fd] = o.buffer
       /\ \A s \in Sids : s # o.sid /\ dir[s] # 0 => content'[dir[s]] = content[dir[s]]
       /\ ~o.buffer.full => content' = content
  <2>1. ~o.buffer.full => content' = content
    BY <1>0, <1>6 DEF Flushed
  <2> QED
    BY <1>0, <1>6, <2>1, FlushedFacts
<1>16. \A s \in Sids : dir[s] # 0 => dir[s] \in Visits
  BY Before, BoundsAssumption DEF Visits
<1>17. Closes(Here) => Wholes(obj', dir, content', cut, loose)
  <2> SUFFICES ASSUME Closes(Here) PROVE Wholes(obj', dir, content', cut, loose)
    OBVIOUS
  <2>1. Wholes(obj, dir, content, cut, loose)
    BY DEF IInv
  <2> QED
    BY <1>0, <1>5, <1>8, <1>15, <1>16, <2>1, Before, WholesStep
<1>18. mode = "all" => "WRITE" \in o.lock /\ o.held = "write"
  BY <1>0, <1>2 DEF IInv, Exclusive, Sound, Flagged
<1>19. mode = "all" => \A q \in Procs : Exclusive(obj'[q])
  <2>1. mode = "all" => Exclusive(r)
    BY <1>3, <1>18 DEF Exclusive
  <2> QED
    BY <1>8, <2>1, Before DEF IInv
<1>20. mode = "all" /\ Closes(Here) => Transactions(obj', dir, content', Owed, loose, Here)
  <2> SUFFICES ASSUME mode = "all", Closes(Here)
               PROVE  Transactions(obj', dir, content', Owed, loose, Here)
    OBVIOUS
  <2>1. Transactions(obj, dir, content, Owed, loose, Here)
    BY DEF IInv
  <2>2. o.status # {} => o.status = {"SYNCED"}
    BY <1>2, <1>9 DEF Objs, Status, Dirty
  <2>3. InHand(r) => InHand(o)
    BY <1>2, <1>3 DEF InHand
  <2>4. o.buffer.full => InHand(o) /\ o.status = {"SYNCED"}
    BY <1>2, <2>2 DEF InHand, Sound, Handled
  <2>5. o.buffer \in Contents
    BY <1>2 DEF Objs
  <2>6. ASSUME o.sid \notin loose
        PROVE  Kept(o.sid, dir, content', Owed) /\ Follows(r, dir, content', Owed, Here)
    <3>1. Kept(o.sid, dir, content, Owed) /\ Follows(o, dir, content, Owed, Here)
      BY <1>0, <1>2, <2>1, <2>6 DEF Transactions
    <3>2. CASE o.buffer.full
      <4>1. o.fd # 0 /\ Here.store = "file"
        BY <1>2, <3>2 DEF Sound, Handled, Kind
      <4>2. Owed[o.sid] \subseteq o.data /\ o.fd = dir[o.sid] /\ o.buffer = Frozen(o)
        BY <2>4, <3>1, <3>2, <4>1 DEF Follows, Latest
      <4>3. content'[o.fd] = Frozen(o)
        BY <1>15, <3>2, <4>2
      <4>4. Frozen(o).data = o.data /\ Frozen(r) = Frozen(o)
        BY <1>3 DEF Frozen
      <4>5. Kept(o.sid, dir, content', Owed)
        BY <4>2, <4>3, <4>4 DEF Kept
      <4>6. Follows(r, dir, content', Owed, Here)
        BY <1>3, <1>4, <4>2, <4>3, <4>4 DEF Follows, Latest
      <4> QED
        BY <4>5, <4>6
    <3>3. CASE ~o.buffer.full
      <4>1. content' = content
        BY <1>15, <3>3
      <4>2. Follows(r, dir, content, Owed, Here)
        <5>1. Frozen(r) = Frozen(o)
          BY <1>3 DEF Frozen
        <5> QED
          BY <1>3, <1>4, <2>3, <3>1, <3>3, <5>1 DEF Follows, Latest
      <4> QED
        BY <3>1, <4>1, <4>2
    <3> QED
      BY <3>2, <3>3
  <2>7. o.sid \notin loose => OnlyWith(p, o.sid, obj)
    BY <1>0, <1>18, OthersOut
  <2>8. Elsewhere(o.sid, dir, dir, content, content', Owed, Owed)
    BY <1>15 DEF Elsewhere
  <2>9. Leaves(r, o.sid, dir, content', Owed, loose, Here)
    BY <1>3, <2>6 DEF Leaves
  <2> QED
    BY <1>5, <1>8, <2>1, <2>7, <2>8, <2>9, Before, TransactionsStep
<1>21. TypeOK'
  BY <1>6, <1>12, <1>15 DEF IInv, TypeOK, Objs
<1>22. Opened(obj', dir, loose)
  BY <1>3, <1>5, <1>8, Before, OpenedStep DEF IInv
<1> QED
  BY <1>6, <1>12, <1>13, <1>14, <1>17, <1>19, <1>20, <1>21, <1>22 DEF IInv

LEMMA UnlockKeeps == ASSUME IInv, NEW p \in Procs, Unlock(p) PROVE IInv'
<1>0. PICK o : o = obj[p]
  OBVIOUS
<1>1. PICK r : r = [o EXCEPT !.at = "free", !.held = "none", !.file = 0, !.lock = {}]
  OBVIOUS
<1>2. /\ o \in Objs /\ Sound(o, visits, known, Here) /\ Kind(Here) /\ TypeOK
      /\ o.at = "unlock" /\ Dated(o, visits, known) /\ o.sid \in Sids
  BY <1>0, Before DEF Unlock
<1>3. /\ r.at = "free" /\ r.held = "none" /\ r.file = 0 /\ r.lock = {}
      /\ r.sid = o.sid /\ r.visit = o.visit /\ r.status = o.status /\ r.data = o.data
      /\ r.fd = o.fd /\ r.buffer = o.buffer /\ r.removed = o.removed
  BY <1>1, <1>2 DEF Objs
<1>4. r \in Objs
  <2>1. PICK a : a = [o EXCEPT !.at = "free"]
    OBVIOUS
  <2>2. PICK b : b = [a EXCEPT !.held = "none"]
    OBVIOUS
  <2>3. PICK c : c = [b EXCEPT !.file = 0]
    OBVIOUS
  <2>4. a \in Objs
    BY <1>2, <2>1 DEF Objs, Places
  <2>5. b \in Objs
    BY <2>2, <2>4 DEF Objs
  <2>6. c \in Objs
    BY <2>3, <2>5, BoundsAssumption DEF Objs
  <2>7. r = [c EXCEPT !.lock = {}]
    BY <1>1, <1>2, <2>1, <2>2, <2>3 DEF Objs
  <2> QED
    BY <2>6, <2>7 DEF Objs
<1>5. /\ Here' = Here /\ class' = class /\ mode' = mode /\ dir' = dir /\ content' = content
      /\ leaked' = leaked /\ visits' = visits /\ known' = known
      /\ cut' = cut /\ cleans' = cleans /\ loose' = loose /\ locks' = locks
      /\ sem' = GivenBack(o)
  BY <1>0 DEF Unlock, Here, store
<1>6. PICK S : S = saved[o.sid] \cup ({o.visit} \cap o.data)
  OBVIOUS
<1>7. saved \in [Sids -> SUBSET Visits] /\ S \in SUBSET Visits
  BY <1>2, <1>6 DEF TypeOK, Objs
<1>8. Is(p, r) /\ saved' = [saved EXCEPT ![o.sid] = S]
  BY <1>0, <1>1, <1>6 DEF Unlock
<1>9. PICK N :
        /\ N = nameless' /\ nameless \subseteq N /\ N \subseteq Visits
        /\ (Here.store = "dbi" /\ ~o.named) => o.visit \in N
  <2>1. nameless' = IF Here.store = "dbi" /\ ~o.named THEN nameless \cup {o.visit} ELSE nameless
    BY <1>0 DEF Unlock
  <2>2. nameless \subseteq Visits /\ o.visit \in Visits
    BY <1>2, Before, BoundsAssumption DEF TypeOK, Dated, Visits
  <2> QED
    BY <2>1, <2>2
<1>10. obj' = [obj EXCEPT ![p] = r]
  BY <1>8 DEF Is
<1>11. o.status \cap Dirty = {} /\ "NEW" \notin o.status
  BY <1>2 DEF Sound, Placed, Dirty
<1>12. Sound(r, visits, known, Here)
  <2>1. Flagged(r, Here) /\ Placed(r, Here)
    BY <1>3 DEF Flagged, Placed
  <2>2. Handled(r, Here)
    BY <1>2, <1>3 DEF Sound, Handled
  <2>3. Numbered(r, visits, known)
    BY <1>2, <1>3 DEF Numbered, Dated
  <2> QED
    BY <2>1, <2>2, <2>3 DEF Sound
<1>13. Stays(r, o)
  BY <1>3 DEF Stays
<1>14. obj' \in [Procs -> Objs] /\ Objects(obj', visits, known, Here)
  BY <1>0, <1>2, <1>4, <1>8, <1>12, <1>13, ObjectPart
<1>15. Files(obj', dir, visits) /\ (Closes(Here) => Wholes(obj', dir, content, cut, loose))
  BY <1>0, <1>2, <1>3, <1>4, <1>8, <1>13, SameFiles
<1>16. LockFiles(obj', locks, loose, Here)
  BY <1>3, <1>4, <1>10, Before, LockFilesQuiet DEF IInv
<1>17. Semaphores(obj', sem', leaked, loose, Here) /\ sem' \in Sems
  <2>1. CASE Here.lock = "flock"
    BY <1>5, <2>1, Before DEF IInv, Semaphores, GivenBack
  <2>2. CASE Here.lock = "semaphore"
    <3>1. Counted(obj, sem, leaked) /\ loose = {}
      BY <2>2 DEF IInv, Semaphores
    <3>2. CASE o.held = "none"
      <4>1. sem' = sem
        BY <1>5, <3>2 DEF GivenBack
      <4>2. Counted(obj', sem, leaked)
        BY <1>0, <1>3, <1>4, <1>10, <3>1, <3>2, Before, CountedQuiet
      <4> QED
        BY <2>2, <3>1, <4>1, <4>2, Before DEF Semaphores
    <3>3. CASE o.held = "read"
      <4>1. sem' = [sem EXCEPT !["read"] = @ - 1]
        BY <1>5, <2>2, <3>3 DEF GivenBack
      <4>2. Counted(obj', sem', leaked) /\ sem' \in Sems
        BY <1>0, <1>3, <1>4, <1>10, <3>1, <3>3, <4>1, Before, CountedReadBack
      <4> QED
        BY <2>2, <3>1, <4>2 DEF Semaphores
    <3>4. CASE o.held = "write"
      <4>1. sem' = [sem EXCEPT !["write"] = @ - 1]
        BY <1>5, <2>2, <3>4 DEF GivenBack
      <4>2. leaked = [leaked EXCEPT ![p] = FALSE] /\ Writes(p, obj, leaked)
        BY <1>0, <3>1, <3>4, Before DEF Counted, Writes
      <4>3. Counted(obj', sem', leaked) /\ sem' \in Sems
        <5>1. obj \in [Procs -> Objs] /\ sem \in Sems /\ leaked \in [Procs -> BOOLEAN]
          BY Before
        <5>2. /\ Counted([obj EXCEPT ![p] = r], [sem EXCEPT !["write"] = @ - 1],
                         [leaked EXCEPT ![p] = FALSE])
              /\ [sem EXCEPT !["write"] = @ - 1] \in Sems
          BY <1>3, <1>4, <3>1, <4>2, <5>1, CountedWriteBack
        <5> QED
          BY <1>10, <4>1, <4>2, <5>2
      <4> QED
        BY <2>2, <3>1, <4>3 DEF Semaphores
    <3> QED
      BY <1>2, <3>2, <3>3, <3>4 DEF Objs
  <2> QED
    BY <1>2, <2>1, <2>2 DEF Kind
<1>18. \A s \in Sids \ known : saved'[s] = {}
  <2>1. o.sid \in known
    BY <1>2, <1>11 DEF Dated
  <2> QED
    BY <1>7, <1>8, <2>1 DEF IInv
<1>19. mode = "all" => \A q \in Procs : Exclusive(obj'[q])
  <2>1. Exclusive(r)
    BY <1>3 DEF Exclusive
  <2> QED
    BY <1>10, <2>1, Before DEF IInv
<1>20. mode = "all" /\ Closes(Here) => Transactions(obj', dir, content, Owed', loose, Here)
  <2> SUFFICES ASSUME mode = "all", Closes(Here)
               PROVE  Transactions(obj', dir, content, Owed', loose, Here)
    OBVIOUS
  <2>1. Transactions(obj, dir, content, Owed, loose, Here)
    BY DEF IInv
  <2>2. o.held = "write"
    BY <1>0, <1>2 DEF IInv, Exclusive, Sound, Flagged
  <2>3. ~o.buffer.full
    BY <1>2 DEF Sound, Handled, Closes, Kind
  <2>4. PICK na : na = [s \in Sids |-> (IF s = o.sid THEN S ELSE saved[s]) \ N]
    OBVIOUS
  <2>5. Owed' = na
    BY <1>2, <1>7, <1>8, <1>9, <2>4 DEF Owed
  <2>6. \A s \in Sids : s # o.sid => na[s] \subseteq Owed[s]
    BY <1>9, <2>4 DEF Owed
  <2>7. na[o.sid] = S \ N /\ Owed[o.sid] = saved[o.sid] \ nameless
    BY <1>2, <2>4 DEF Owed
  <2>8. o.sid \notin loose => Kept(o.sid, dir, content, na)
    <3> SUFFICES ASSUME o.sid \notin loose PROVE Kept(o.sid, dir, content, na)
      OBVIOUS
    <3>1. Kept(o.sid, dir, content, Owed) /\ Follows(o, dir, content, Owed, Here)
      BY <1>0, <1>2, <2>1 DEF Transactions
    <3>2. CASE o.status = {}
      <4>1. S = saved[o.sid]
        BY <1>2, <1>6, <3>2 DEF Sound, Handled
      <4>2. na[o.sid] \subseteq Owed[o.sid]
        BY <1>9, <2>7, <4>1
      <4> QED
        BY <3>1, <4>2 DEF Kept
    <3>3. CASE Here.store # "file" /\ ~o.named
      <4>1. o.visit \in N
        BY <1>2, <1>9, <3>3 DEF Kind
      <4>2. na[o.sid] \subseteq Owed[o.sid]
        BY <1>6, <1>9, <2>7, <4>1
      <4> QED
        BY <3>1, <4>2 DEF Kept
    <3>4. CASE o.status # {} /\ (Here.store = "file" \/ o.named)
      <4>1. o.status = {"SYNCED"} /\ InHand(o)
        BY <1>2, <1>11, <3>4 DEF Objs, Status, Dirty, InHand
      <4>2. Owed[o.sid] \subseteq o.data
        BY <3>1, <4>1 DEF Follows
      <4>3. na[o.sid] \subseteq o.data
        BY <1>6, <1>9, <2>7, <4>2
      <4>4. dir[o.sid] # 0 => content[dir[o.sid]] = Frozen(o)
        BY <2>3, <3>1, <3>4, <4>1 DEF Follows, Latest
      <4>5. Frozen(o).data = o.data
        BY DEF Frozen
      <4> QED
        BY <4>3, <4>4, <4>5 DEF Kept
    <3> QED
      BY <3>2, <3>3, <3>4
  <2>9. o.sid \notin loose => OnlyWith(p, o.sid, obj)
    BY <1>0, <2>2, OthersOut
  <2>10. Elsewhere(o.sid, dir, dir, content, content, Owed, na)
    BY <2>6 DEF Elsewhere
  <2>11. Leaves(r, o.sid, dir, content, na, loose, Here)
    BY <1>3, <2>8 DEF Leaves, Follows, InHand
  <2>12. Transactions(obj', dir, content, na, loose, Here)
    BY <1>4, <1>10, <2>1, <2>9, <2>10, <2>11, Before, TransactionsStep
  <2> QED
    BY <2>5, <2>12
<1>21. TypeOK'
  <2>1. saved' \in [Sids -> SUBSET Visits]
    BY <1>7, <1>8
  <2> QED
    BY <1>5, <1>14, <1>17, <1>9, <2>1 DEF IInv, TypeOK, Objs, Sems, Kinds
<1>22. Opened(obj', dir, loose)
  BY <1>3, <1>4, <1>10, Before, OpenedStep DEF IInv
<1> QED
  BY <1>5, <1>14, <1>15, <1>16, <1>17, <1>18, <1>19, <1>20, <1>21, <1>22 DEF IInv

\* What goes with the object of a process that frees it, or ends
LEMMA EndPart ==
  ASSUME IInv, NEW p \in Procs, Is(p, NoSession)
  PROVE  /\ obj' \in [Procs -> Objs] /\ Objects(obj', visits, known, Here)
         /\ LockFiles(obj', locks, loose, Here)
         /\ Files(obj', dir, visits)
         /\ Opened(obj', dir, loose)
         /\ mode = "all" => \A q \in Procs : Exclusive(obj'[q])
         /\ mode = "all" /\ Closes(Here) =>
              Transactions(obj', dir, content, Owed, loose, Here)
<1>1. obj' = [obj EXCEPT ![p] = NoSession]
  BY DEF Is
<1>2. obj' \in [Procs -> Objs] /\ Objects(obj', visits, known, Here)
  BY NoSessionFields, NoSessionSound, ObjectPart
<1>3. LockFiles(obj', locks, loose, Here)
  BY <1>1, Before, NoSessionFields, LockFilesQuiet DEF IInv
<1>4. Files(obj', dir, visits)
  <2>1. PICK who \in [Visits -> Sids \cup {"none"}] : Owns(who, obj, dir)
    BY DEF IInv, Files
  <2>2. \A q \in Procs : obj'[q] = IF q = p THEN NoSession ELSE obj[q]
    BY <1>1, Before
  <2>3. Owns(who, obj', dir)
    BY <2>1, <2>2, NoSessionFields DEF Owns
  <2> QED
    BY <2>3 DEF IInv, Files
<1>5. mode = "all" => \A q \in Procs : Exclusive(obj'[q])
  <2>1. Exclusive(NoSession)
    BY NoSessionFields DEF Exclusive
  <2> QED
    BY <1>1, <2>1, Before DEF IInv
<1>6. mode = "all" /\ Closes(Here) => Transactions(obj', dir, content, Owed, loose, Here)
  BY <1>1, Before, NoSessionFields, TransactionsQuiet DEF IInv
<1>7. Opened(obj', dir, loose)
  BY <1>1, Before, NoSessionFields, OpenedStep DEF IInv
<1> QED
  BY <1>2, <1>3, <1>4, <1>5, <1>6, <1>7

LEMMA FreeKeeps == ASSUME IInv, NEW p \in Procs, Free(p) PROVE IInv'
<1>0. PICK o : o = obj[p]
  OBVIOUS
<1>1. /\ o \in Objs /\ Sound(o, visits, known, Here) /\ Kind(Here) /\ TypeOK
      /\ o.at = "free" /\ Dated(o, visits, known) /\ o.sid \in Sids
  BY <1>0, Before DEF Free
<1>2. /\ Here' = Here /\ class' = class /\ mode' = mode /\ dir' = dir
      /\ visits' = visits /\ known' = known /\ saved' = saved /\ nameless' = nameless
      /\ Owed' = Owed /\ cut' = cut /\ cleans' = cleans /\ loose' = loose
      /\ locks' = locks /\ sem' = sem /\ content' = Flushed(obj[p]) /\ Is(p, NoSession)
  BY DEF Free, Here, history, Owed
<1>3. obj' = [obj EXCEPT ![p] = NoSession]
  BY <1>2 DEF Is
<1>4. o.held \in {"none", "write"}
  BY <1>1 DEF Sound, Placed, Objs
<1>5. /\ obj' \in [Procs -> Objs] /\ Objects(obj', visits, known, Here)
      /\ LockFiles(obj', locks, loose, Here)
      /\ Files(obj', dir, visits) /\ Opened(obj', dir, loose)
      /\ mode = "all" => \A q \in Procs : Exclusive(obj'[q])
      /\ mode = "all" /\ Closes(Here) =>
           Transactions(obj', dir, content, Owed, loose, Here)
  BY <1>2, EndPart
<1>6. /\ content' \in [Visits -> Contents]
      /\ \A v \in Visits : content[v].full => content'[v].full
      /\ o.buffer.full => content'[o.fd].full
      /\ ~o.buffer.full => content' = content
  <2>1. ~o.buffer.full => content' = content
    BY <1>0, <1>2 DEF Flushed
  <2> QED
    BY <1>0, <1>2, <2>1, FlushedFacts
<1>7. Closes(Here) => content' = content
  BY <1>1, <1>6 DEF Sound, Handled, Closes, Kind
<1>8. Closes(Here) => Wholes(obj', dir, content', cut, loose)
  <2>1. \A s \in Sids : dir[s] # 0 => dir[s] \in Visits
    BY Before, BoundsAssumption DEF Visits
  <2>2. Closes(Here) => Wholes(obj, dir, content, cut, loose)
    BY DEF IInv
  <2> QED
    BY <1>0, <1>3, <1>6, <2>1, <2>2, Before, NoSessionFields, WholesStep
<1>9. leaked' = [leaked EXCEPT ![p] = leaked[p] \/ (Here.lock = "semaphore" /\ o.held # "none")]
  BY <1>0 DEF Free
<1>10. leaked' \in [Procs -> BOOLEAN]
  BY <1>9, Before
<1>11. Semaphores(obj', sem, leaked', loose, Here)
  <2>1. CASE Here.lock = "flock"
    <3>1. \A q \in Procs : ~leaked[q]
      BY <2>1 DEF IInv, Semaphores
    <3>2. \A q \in Procs : ~leaked'[q]
      BY <1>9, <2>1, <3>1, Before
    <3> QED
      BY <2>1, <3>2 DEF Semaphores
  <2>2. CASE Here.lock = "semaphore"
    <3>1. Counted(obj, sem, leaked) /\ loose = {}
      BY <2>2 DEF IInv, Semaphores
    <3>2. CASE o.held = "none"
      <4>1. leaked' = leaked
        <5>1. CASE leaked[p]
          BY <1>9, <5>1, Before
        <5>2. CASE ~leaked[p]
          BY <1>9, <3>2, <5>2, Before
        <5> QED
          BY <5>1, <5>2
      <4>2. Counted(obj', sem, leaked)
        BY <1>0, <1>3, <3>1, <3>2, Before, NoSessionFields, CountedQuiet
      <4> QED
        BY <2>2, <3>1, <4>1, <4>2 DEF Semaphores
    <3>3. CASE o.held = "write"
      <4>1. leaked' = [leaked EXCEPT ![p] = TRUE]
        BY <1>9, <2>2, <3>3, Before
      <4>2. Counted(obj', sem, leaked')
        BY <1>0, <1>3, <3>1, <3>3, <4>1, Before, NoSessionFields, CountedLeak
      <4> QED
        BY <2>2, <3>1, <4>2 DEF Semaphores
    <3> QED
      BY <1>4, <3>2, <3>3
  <2> QED
    BY <1>1, <2>1, <2>2 DEF Kind
<1>12. TypeOK'
  BY <1>2, <1>5, <1>6, <1>10 DEF IInv, TypeOK, Objs
<1>13. mode = "all" /\ Closes(Here) => Transactions(obj', dir, content', Owed, loose, Here)
  BY <1>5, <1>7
<1> QED
  BY <1>2, <1>5, <1>8, <1>11, <1>12, <1>13 DEF IInv

LEMMA DieKeeps == ASSUME IInv, NEW p \in Procs, Die(p) PROVE IInv'
<1>0. PICK o : o = obj[p]
  OBVIOUS
<1>1. /\ o \in Objs /\ Sound(o, visits, known, Here) /\ Kind(Here) /\ TypeOK
  BY <1>0, Before
<1>2. /\ Here' = Here /\ class' = class /\ mode' = mode /\ dir' = dir /\ content' = content
      /\ visits' = visits /\ known' = known /\ saved' = saved /\ nameless' = nameless
      /\ Owed' = Owed /\ cleans' = cleans /\ loose' = loose /\ locks' = locks
      /\ Is(p, NoSession)
      /\ leaked' = [leaked EXCEPT ![p] = FALSE]
      /\ cut' = (IF o.buffer.full THEN cut \cup {o.fd} ELSE cut)
      /\ sem' = (IF leaked[p] THEN [GivenBack(o) EXCEPT !["write"] = @ - 1] ELSE GivenBack(o))
  BY <1>0 DEF Die, Here, store, Owed
<1>3. obj' = [obj EXCEPT ![p] = NoSession]
  BY <1>2 DEF Is
<1>4. /\ obj' \in [Procs -> Objs] /\ Objects(obj', visits, known, Here)
      /\ LockFiles(obj', locks, loose, Here)
      /\ Files(obj', dir, visits) /\ Opened(obj', dir, loose)
      /\ mode = "all" => \A q \in Procs : Exclusive(obj'[q])
      /\ mode = "all" /\ Closes(Here) =>
           Transactions(obj', dir, content, Owed, loose, Here)
  BY <1>2, EndPart
<1>5. /\ cut' \subseteq Visits /\ cut \subseteq cut'
      /\ o.buffer.full => o.fd \in cut'
  <2>1. o.buffer.full => o.fd \in Visits
    BY <1>1, BoundsAssumption DEF Sound, Handled, Objs, Visits
  <2> QED
    BY <1>1, <1>2, <2>1 DEF TypeOK
<1>6. Closes(Here) => Wholes(obj', dir, content, cut', loose)
  <2>1. Closes(Here) => Wholes(obj, dir, content, cut, loose)
    BY DEF IInv
  <2> QED
    BY <1>0, <1>3, <1>5, <2>1, Before, NoSessionFields, WholesStep
<1>7. leaked' \in [Procs -> BOOLEAN]
  BY <1>2, Before
<1>8. Semaphores(obj', sem', leaked', loose, Here) /\ sem' \in Sems
  <2>1. CASE Here.lock = "flock"
    <3>1. \A q \in Procs : ~leaked[q]
      BY <2>1 DEF IInv, Semaphores
    <3>2. \A q \in Procs : ~leaked'[q]
      BY <1>2, <3>1, Before
    <3>3. sem' = sem
      BY <1>2, <2>1, <3>1 DEF GivenBack
    <3> QED
      BY <2>1, <3>2, <3>3, Before DEF Semaphores
  <2>2. CASE Here.lock = "semaphore"
    <3>1. Counted(obj, sem, leaked) /\ loose = {}
      BY <2>2 DEF IInv, Semaphores
    <3>2. CASE leaked[p] \/ o.held = "write"
      <4>1. Writes(p, obj, leaked)
        BY <1>0, <3>2 DEF Writes
      <4>2. sem' = [sem EXCEPT !["write"] = @ - 1]
        <5>1. CASE leaked[p]
          <6>1. o.held = "none"
            BY <1>0, <3>1, <5>1 DEF Counted
          <6> QED
            BY <1>2, <5>1, <6>1 DEF GivenBack
        <5>2. CASE ~leaked[p]
          BY <1>2, <2>2, <3>2, <5>2 DEF GivenBack
        <5> QED
          BY <5>1, <5>2
      <4>3. Counted(obj', sem', leaked') /\ sem' \in Sems
        <5>1. obj \in [Procs -> Objs] /\ sem \in Sems /\ leaked \in [Procs -> BOOLEAN]
          BY Before
        <5>2. /\ Counted([obj EXCEPT ![p] = NoSession], [sem EXCEPT !["write"] = @ - 1],
                         [leaked EXCEPT ![p] = FALSE])
              /\ [sem EXCEPT !["write"] = @ - 1] \in Sems
          BY <3>1, <4>1, <5>1, NoSessionFields, CountedWriteBack
        <5> QED
          BY <1>2, <1>3, <4>2, <5>2
      <4> QED
        BY <2>2, <3>1, <4>3 DEF Semaphores
    <3>3. CASE ~leaked[p] /\ o.held = "read"
      <4>1. sem' = [sem EXCEPT !["read"] = @ - 1] /\ leaked' = leaked
        BY <1>2, <2>2, <3>3, Before DEF GivenBack
      <4>2. Counted(obj', sem', leaked) /\ sem' \in Sems
        BY <1>0, <1>3, <3>1, <3>3, <4>1, Before, NoSessionFields, CountedReadBack
      <4> QED
        BY <2>2, <3>1, <4>1, <4>2 DEF Semaphores
    <3>4. CASE ~leaked[p] /\ o.held = "none"
      <4>1. sem' = sem /\ leaked' = leaked
        BY <1>2, <3>4, Before DEF GivenBack
      <4>2. Counted(obj', sem, leaked)
        BY <1>0, <1>3, <3>1, <3>4, Before, NoSessionFields, CountedQuiet
      <4> QED
        BY <2>2, <3>1, <4>1, <4>2, Before DEF Semaphores
    <3> QED
      BY <1>1, <3>2, <3>3, <3>4 DEF Objs
  <2> QED
    BY <1>1, <2>1, <2>2 DEF Kind
<1>9. TypeOK'
  BY <1>2, <1>4, <1>5, <1>7, <1>8 DEF IInv, TypeOK, Objs, Sems, Kinds
<1> QED
  BY <1>2, <1>4, <1>6, <1>8, <1>9 DEF IInv

LEMMA CleanKeeps == ASSUME IInv, NEW s \in Sids, Clean(s) PROVE IInv'
<1>1. /\ Here' = Here /\ class' = class /\ mode' = mode /\ dir' = dir /\ content' = content
      /\ obj' = obj /\ sem' = sem /\ leaked' = leaked
      /\ visits' = visits /\ known' = known /\ saved' = saved /\ nameless' = nameless
      /\ Owed' = Owed /\ cut' = cut /\ cleans' = cleans + 1 /\ cleans < MaxCleans
      /\ locks' = [locks EXCEPT ![s] = 0] /\ Here.lock = "flock"
      /\ loose' = IF \E q \in Procs : obj[q].file = locks[s] THEN loose \cup {s} ELSE loose
  BY DEF Clean, Here, store, Owed
<1>2. loose \subseteq loose' /\ loose' \subseteq loose \cup {s}
  BY <1>1
<1>3. TypeOK'
  <2>1. TypeOK /\ cleans \in 0 .. MaxCleans
    BY DEF IInv, TypeOK
  <2>2. cleans' \in 0 .. MaxCleans
    BY <1>1, <2>1, BoundsAssumption
  <2>3. locks' \in [Sids -> 0 .. MaxVisits]
    BY <1>1, Before, BoundsAssumption
  <2>4. loose' \subseteq Sids
    BY <1>2, <2>1 DEF TypeOK
  <2> QED
    BY <1>1, <2>1, <2>2, <2>3, <2>4 DEF TypeOK
<1>4. Semaphores(obj, sem, leaked, loose', Here)
  BY <1>1 DEF IInv, Semaphores
<1>5. LockFiles(obj, locks', loose', Here)
  <2>1. LockFiles(obj, locks, loose, Here) /\ locks \in [Sids -> 0 .. MaxVisits]
    BY Before DEF IInv
  <2> QED
    BY <1>1, <2>1, LockFilesClean
<1>6. mode = "all" /\ Closes(Here) => Transactions(obj, dir, content, Owed, loose', Here)
  BY <1>2 DEF IInv, Transactions
<1>7. Opened(obj, dir, loose') /\ (Closes(Here) => Wholes(obj, dir, content, cut, loose'))
  BY <1>2 DEF IInv, Opened, Wholes
<1> QED
  BY <1>1, <1>3, <1>4, <1>5, <1>6, <1>7 DEF IInv

\* What save leaves when it has written
LEMMA SavedSound ==
  ASSUME TypeOK, NEW o \in Objs, o.from \in Callers, NEW K, Flagged(o, Here), "WRITE" \in o.lock,
         o.buffer.full => o.fd # 0,
         Here.store = "dbi" => o.fd = 0,
         Here.store = "file" /\ o.fd = 0 => o.removed,
         o.sid \in Sids, o.sid \in K, o.visit \in 1..visits, o.fd <= visits
  PROVE  LET r == Saved(o)
         IN  /\ r \in Objs /\ Sound(r, visits, K, Here) /\ r.at \notin {"none", "open"}
             /\ r.sid = o.sid /\ r.visit = o.visit /\ r.held = o.held /\ r.file = o.file
             /\ r.fd = o.fd /\ r.buffer = o.buffer /\ r.data = o.data /\ r.named = o.named
             /\ r.status = {"SYNCED"} /\ r.removed = o.removed
             /\ Exclusive(r)
<1>1. PICK c : c = [o EXCEPT !.status = {"SYNCED"}]
  OBVIOUS
<1>2. PICK r : r = Saved(o)
  OBVIOUS
<1>3. {"SYNCED"} \in SUBSET Status /\ {"SYNCED"} \cap Dirty = {}
  BY DEF Status, Dirty
<1>4. c \in Objs
  BY <1>1, <1>3 DEF Objs
<1>5. /\ c.status = {"SYNCED"} /\ c.sid = o.sid /\ c.visit = o.visit /\ c.held = o.held
      /\ c.file = o.file /\ c.fd = o.fd /\ c.buffer = o.buffer /\ c.data = o.data
      /\ c.lock = o.lock /\ c.from = o.from /\ c.removed = o.removed /\ c.named = o.named
  BY <1>1 DEF Objs
<1>6. r = Returned(c)
  BY <1>1, <1>2 DEF Saved
<1>7. Leads(r, c, c.from, Here)
  BY <1>3, <1>4, <1>5, <1>6, ReturnedLeads
<1>8. r \in Objs /\ Kin(r, c)
  BY <1>7 DEF Leads
<1>9. Fit(c, Here) /\ Flagged(c, Here) /\ Dated(c, visits, K) /\ c.status # {}
  BY <1>5 DEF Fit, Flagged, Dated
<1>10. Sound(r, visits, K, Here) /\ r.at \notin {"none", "open"}
  BY <1>4, <1>5, <1>7, <1>9, HereKind, LeadsSound
<1>11. Exclusive(r)
  BY <1>5, <1>7, ExclusiveLeads
<1> QED
  BY <1>2, <1>5, <1>8, <1>10, <1>11 DEF Kin

\* What is so when save has the lock
LEMMA AtSave ==
  ASSUME IInv, NEW p \in Procs, obj[p].at = "save"
  PROVE  LET o == obj[p]
         IN  /\ o \in Objs /\ Sound(o, visits, known, Here)
             /\ Fit(o, Here) /\ Flagged(o, Here) /\ Dated(o, visits, known)
             /\ o.sid \in Sids /\ o.visit \in 1..visits /\ o.visit \in Visits /\ o.fd <= visits
             /\ "WRITE" \in o.lock /\ o.held = "write" /\ o.from \in Callers
             /\ o.status \cap Dirty # {}
             /\ "NEW" \notin o.status => o.sid \in known /\ InHand(o)
<1>0. PICK o : o = obj[p]
  OBVIOUS
<1>1. o \in Objs /\ Sound(o, visits, known, Here) /\ Dated(o, visits, known) /\ Kind(Here)
  BY <1>0, Before
<1>2. Fit(o, Here) /\ Flagged(o, Here)
  BY <1>0, <1>1, SoundFit
<1>3. o.sid \in Sids /\ o.visit \in 1..visits /\ o.fd <= visits
  BY <1>1 DEF Dated
<1>4. o.visit \in Visits
  BY <1>3, Before, BoundsAssumption DEF Visits, TypeOK
<1>5. "WRITE" \in o.lock /\ o.status \cap Dirty # {} /\ o.from # "none"
  BY <1>0, <1>1 DEF Sound, Placed
<1>6. o.held = "write" /\ o.from \in Callers
  BY <1>1, <1>2, <1>5 DEF Flagged, Callers, Objs
<1>7. "NEW" \notin o.status => o.sid \in known /\ InHand(o)
  BY <1>0, <1>1, <1>5 DEF Dated, InHand
<1> QED
  BY <1>0, <1>1, <1>2, <1>3, <1>4, <1>5, <1>6, <1>7

SaveFrame ==
  /\ UNCHANGED <<class, mode, locks, sem, leaked, visits>>
  /\ UNCHANGED <<saved, nameless, cut, cleans, loose>>

\* What a step of save has to leave
LEMMA SaveStep ==
  ASSUME IInv, NEW p \in Procs, NEW r \in Objs, Is(p, r), obj[p].at = "save",
         SaveFrame, r.at # "open",
         known \subseteq known', known' \subseteq Sids,
         dir' \in [Sids -> 0 .. MaxVisits], content' \in [Visits -> Contents],
         r.held = obj[p].held, r.file = obj[p].file, r.sid = obj[p].sid,
         Objects(obj', visits, known', Here),
         Files(obj', dir', visits),
         Closes(Here) => Wholes(obj', dir', content', cut, loose),
         mode = "all" => Exclusive(r),
         Elsewhere(r.sid, dir, dir', content, content', Owed, Owed),
         mode = "all" /\ Closes(Here) => Leaves(r, r.sid, dir', content', Owed, loose, Here)
  PROVE  IInv'
<1>1. obj' = [obj EXCEPT ![p] = r]
  BY DEF Is
<1>2. /\ Here' = Here /\ class' = class /\ mode' = mode
      /\ leaked' = leaked /\ visits' = visits /\ saved' = saved /\ nameless' = nameless
      /\ Owed' = Owed
      /\ cut' = cut /\ cleans' = cleans /\ loose' = loose /\ locks' = locks /\ sem' = sem
  BY DEF Here, SaveFrame, Owed
<1>3. obj' \in [Procs -> Objs]
  BY <1>1, Before
<1>4. Semaphores(obj', sem, leaked, loose, Here) /\ LockFiles(obj', locks, loose, Here)
  BY SameLocks
<1>5. mode = "all" => \A q \in Procs : Exclusive(obj'[q])
  BY <1>1, Before DEF IInv
<1>6. mode = "all" /\ Closes(Here) => Transactions(obj', dir', content', Owed, loose, Here)
  <2> SUFFICES ASSUME mode = "all", Closes(Here)
               PROVE  Transactions(obj', dir', content', Owed, loose, Here)
    OBVIOUS
  <2>1. Transactions(obj, dir, content, Owed, loose, Here)
    BY DEF IInv
  <2>2. r.sid \notin loose => OnlyWith(p, r.sid, obj)
    BY AtSave, OthersOut
  <2> QED
    BY <1>1, <2>1, <2>2, Before, TransactionsStep
<1>7. TypeOK'
  BY <1>2, <1>3 DEF IInv, TypeOK, Objs
<1>8. \A s \in Sids \ known' : saved[s] = {}
  BY DEF IInv
<1>9. Opened(obj', dir', loose)
  <2> SUFFICES ASSUME NEW q \in Procs, obj'[q].at = "open", obj'[q].sid \notin loose
               PROVE  dir'[obj'[q].sid] # 0
    BY DEF Opened
  <2>1. q # p /\ obj'[q] = obj[q]
    BY <1>1, Before
  <2>2. obj[q].sid \in Sids /\ obj[q].held # "none"
    BY <2>1, Before DEF Sound, Placed
  <2>3. obj[q].sid # obj[p].sid
    <3>1. /\ Objects(obj, visits, known, Here) /\ Semaphores(obj, sem, leaked, loose, Here)
          /\ LockFiles(obj, locks, loose, Here)
      BY DEF IInv
    <3>2. obj[p].held = "write"
      BY AtSave
    <3> QED
      BY <2>1, <2>2, <3>1, <3>2, Before, Excludes
  <2>4. dir'[obj[q].sid] = dir[obj[q].sid]
    BY <2>2, <2>3 DEF Elsewhere
  <2> QED
    BY <2>1, <2>4 DEF IInv, Opened
<1> QED
  BY <1>2, <1>4, <1>5, <1>6, <1>7, <1>8, <1>9 DEF IInv

\* ... when it stores nothing
LEMMA SaveOnly ==
  ASSUME IInv, NEW p \in Procs, NEW r \in Objs, Is(p, r), obj[p].at = "save", SaveFrame,
         UNCHANGED <<known, store>>, Sound(r, visits, known, Here),
         r.at \notin {"none", "open"}, "NEW" \notin obj[p].status, "NEW" \notin r.status,
         r.sid = obj[p].sid, r.visit = obj[p].visit, r.data = obj[p].data,
         r.held = obj[p].held, r.file = obj[p].file, r.fd = obj[p].fd,
         r.buffer = obj[p].buffer, ~r.buffer.full, r.fd = 0,
         r.status # {"SYNCED"} \/ (Here.store = "dbi" /\ ~r.named),
         mode = "all" => Exclusive(r)
  PROVE  IInv'
<1>1. OnlyObj
  BY DEF OnlyObj, SaveFrame, store, history
<1>2. GoesOn(r, obj[p])
  BY DEF GoesOn
<1>3. mode = "all" /\ Closes(Here) /\ r.sid \notin loose =>
        Follows(r, dir, content, Owed, Here)
  <2> SUFFICES ASSUME mode = "all", Closes(Here), r.sid \notin loose
               PROVE  Follows(r, dir, content, Owed, Here)
    OBVIOUS
  <2>1. Owed[r.sid] \subseteq r.data
    BY AtSave DEF IInv, Transactions, Follows
  <2>2. ~(r.status = {"SYNCED"} /\ (Here.store = "file" \/ r.named))
    OBVIOUS
  <2> QED
    BY <2>1, <2>2 DEF Follows, Latest
<1> QED
  BY <1>1, <1>2, <1>3, SameStep

\* What is removed leaves its file, and goes on without it.
LEMMA Unlinked ==
  ASSUME IInv, NEW p \in Procs, obj[p].at = "save"
  PROVE  LET o == obj[p]
             c == IF Here.store = "file" THEN Closed(o) ELSE o
         IN  /\ c \in Objs /\ c.fd = 0 /\ ~c.buffer.full
             /\ c.sid = o.sid /\ c.visit = o.visit /\ c.status = o.status /\ c.data = o.data
             /\ c.lock = o.lock /\ c.held = o.held /\ c.file = o.file /\ c.from = o.from
             /\ c.removed = o.removed /\ c.named = o.named
<1>0. PICK o : o = obj[p]
  OBVIOUS
<1>1. o \in Objs /\ Fit(o, Here) /\ Kind(Here)
  BY <1>0, AtSave, Before
<1>2. CASE Here.store = "file"
  <2>1. PICK a : a = [o EXCEPT !.fd = 0]
    OBVIOUS
  <2>2. PICK c : c = [a EXCEPT !.buffer = Empty]
    OBVIOUS
  <2>3. Empty \in Contents /\ ~Empty.full /\ 0 \in 0 .. MaxVisits
    BY BoundsAssumption DEF Empty, Contents
  <2>4. a \in Objs
    BY <1>1, <2>1, <2>3 DEF Objs
  <2>5. c \in Objs
    BY <2>2, <2>3, <2>4 DEF Objs
  <2>6. Closed(o) = c
    BY <1>1, <2>1, <2>2 DEF Closed, Objs
  <2>7. /\ c.fd = 0 /\ c.buffer = Empty
        /\ c.sid = o.sid /\ c.visit = o.visit /\ c.status = o.status /\ c.data = o.data
        /\ c.lock = o.lock /\ c.held = o.held /\ c.file = o.file /\ c.from = o.from
        /\ c.removed = o.removed /\ c.named = o.named
    BY <1>1, <2>1, <2>2 DEF Objs
  <2> QED
    BY <1>0, <1>2, <2>3, <2>5, <2>6, <2>7
<1>3. CASE Here.store # "file"
  <2>1. o.fd = 0 /\ ~o.buffer.full
    BY <1>1, <1>3 DEF Fit, Kind
  <2> QED
    BY <1>0, <1>1, <1>3, <2>1
<1> QED
  BY <1>2, <1>3

LEMMA RemoveKeeps ==
  ASSUME IInv, NEW p \in Procs, obj[p].at = "save", Remove(p), SaveFrame
  PROVE  IInv'
<1>0. PICK o : o = obj[p]
  OBVIOUS
<1>1. PICK c : c = IF Here.store = "file" THEN Closed(o) ELSE o
  OBVIOUS
<1>2. /\ o \in Objs /\ Fit(o, Here) /\ Flagged(o, Here) /\ Dated(o, visits, known)
      /\ o.sid \in Sids /\ o.visit \in 1..visits /\ o.at = "save"
      /\ "WRITE" \in o.lock /\ o.held = "write" /\ o.from \in Callers
      /\ "NEW" \notin o.status => o.sid \in known /\ InHand(o)
      /\ TypeOK /\ Kind(Here) /\ visits \in Nat
  BY <1>0, AtSave, Before
<1>3. /\ c \in Objs /\ c.fd = 0 /\ ~c.buffer.full
      /\ c.sid = o.sid /\ c.visit = o.visit /\ c.status = o.status /\ c.data = o.data
      /\ c.lock = o.lock /\ c.held = o.held /\ c.file = o.file /\ c.from = o.from
      /\ c.removed = o.removed /\ c.named = o.named
  BY <1>0, <1>1, Unlinked
<1>4. /\ "DELETED" \in o.status /\ content' = Flushed(o) /\ known' = known
  BY <1>0, <1>1, <1>3 DEF Remove
<1>5. "NEW" \notin o.status /\ o.sid \in known /\ InHand(o)
  BY <1>2, <1>4 DEF Fit
<1>6. /\ content' \in [Visits -> Contents]
      /\ \A v \in Visits : content[v].full => content'[v].full
      /\ o.buffer.full => content'[o.fd].full /\ content'[o.fd] = o.buffer
      /\ ~o.buffer.full => content' = content
      /\ \A s \in Sids : s # o.sid /\ dir[s] # 0 => content'[dir[s]] = content[dir[s]]
  <2>1. ~o.buffer.full => content' = content
    BY <1>4 DEF Flushed
  <2> QED
    BY <1>0, <1>4, <2>1, FlushedFacts
<1>7. \A s \in Sids : dir[s] # 0 => dir[s] \in Visits
  BY Before, BoundsAssumption DEF Visits
<1>8. mode = "all" /\ Closes(Here) /\ o.sid \notin loose =>
        /\ Owed[o.sid] \subseteq o.data /\ Kept(o.sid, dir, content, Owed)
        /\ o.fd # 0 => o.fd = dir[o.sid]
        /\ o.buffer.full => Owed[o.sid] \subseteq o.buffer.data
  BY <1>0, <1>2, <1>5 DEF IInv, Transactions, Follows, Latest
<1>9. Closes(Here) => Wholes(obj, dir, content, cut, loose)
  BY DEF IInv
<1>10. Files(obj, dir, visits)
  BY DEF IInv
<1>11. known \subseteq known' /\ known' \subseteq Sids
  BY <1>2, <1>4 DEF TypeOK
<1>12. PICK found \in BOOLEAN : found = (o.named /\ (dir[o.sid] # 0 \/ Here.store = "dbi"))
  BY <1>2 DEF Objs
<1>13. CASE ~found /\ Here.store = "file"
  <2>1. PICK r : r = Died(c)
    OBVIOUS
  <2>2. Is(p, r) /\ dir' = dir
    BY <1>0, <1>1, <1>3, <1>13, <1>12, <2>1 DEF Remove
  <2>3. LeadsOut(r, c, Here)
    BY <1>2, <1>3, <2>1, DiedLeads
  <2>4. Fit(c, Here) /\ Flagged(c, Here) /\ Dated(c, visits, known)
    BY <1>2, <1>3, <1>4, <1>5 DEF Fit, Flagged, Dated
  <2>5. Sound(r, visits, known, Here) /\ Kin(r, c) /\ r \in Objs
        /\ r.at \notin {"none", "open"}
    BY <1>2, <1>3, <2>3, <2>4, LeadsOutSound
  <2>6. /\ r.sid = o.sid /\ r.visit = o.visit /\ r.fd = 0 /\ r.held = o.held /\ r.file = o.file
        /\ r.data = o.data /\ r.status = o.status /\ ~r.buffer.full
    BY <1>3, <2>5 DEF Kin
  <2>7. obj' = [obj EXCEPT ![p] = r]
    BY <2>2 DEF Is
  <2>8. Objects(obj', visits, known, Here)
    <3>1. Stays(r, o)
      BY <1>5, <2>5, <2>6 DEF Stays
    <3> QED
      BY <1>0, <1>2, <2>2, <2>5, <3>1, ObjectPart
  <2>9. Files(obj', dir, visits)
    <3>1. Moves(r, o, dir, dir)
      BY <2>6 DEF Moves
    <3> QED
      BY <1>0, <1>2, <1>10, <2>5, <2>7, <3>1, Before, FilesStep
  <2>10. Closes(Here) => Wholes(obj', dir, content', cut, loose)
    BY <1>0, <1>6, <1>7, <1>9, <2>5, <2>7, Before, WholesStep
  <2>11. mode = "all" => Exclusive(r)
    BY <1>2, <1>3, <2>3, ExclusiveLeadsOut
  <2>12. Elsewhere(o.sid, dir, dir, content, content', Owed, Owed)
    BY <1>6 DEF Elsewhere
  <2>13. mode = "all" /\ Closes(Here) => Leaves(r, o.sid, dir, content', Owed, loose, Here)
    <3> SUFFICES ASSUME mode = "all", Closes(Here), o.sid \notin loose
                 PROVE  /\ Kept(o.sid, dir, content', Owed)
                        /\ Follows(r, dir, content', Owed, Here)
      BY <2>6 DEF Leaves
    <3>1. r.status # {"SYNCED"}
      BY <1>4, <2>6
    <3>2. Follows(r, dir, content', Owed, Here)
      BY <1>8, <2>6, <3>1 DEF Follows, Latest
    <3>3. CASE o.buffer.full
      <4>1. o.fd # 0
        BY <1>2, <3>3 DEF Fit
      <4>2. o.fd = dir[o.sid] /\ Owed[o.sid] \subseteq o.buffer.data
        BY <1>8, <3>3, <4>1
      <4> QED
        BY <1>6, <3>2, <3>3, <4>2 DEF Kept
    <3>4. CASE ~o.buffer.full
      BY <1>6, <1>8, <3>2, <3>4
    <3> QED
      BY <3>3, <3>4
  <2> QED
    BY <1>0, <1>2, <1>4, <1>6, <1>11, <2>2, <2>5, <2>6, <2>8, <2>9, <2>10, <2>11, <2>12, <2>13,
       Before, SaveStep DEF SaveFrame
<1>14. CASE ~found /\ Here.store = "dbi"
  <2>1. PICK r : r = Saved(c)
    OBVIOUS
  <2>2. Is(p, r) /\ dir' = dir /\ c = o /\ ~o.named
    BY <1>0, <1>1, <1>12, <1>14, <2>1 DEF Remove
  <2>3. /\ r \in Objs /\ Sound(r, visits, known, Here) /\ r.at \notin {"none", "open"}
        /\ r.sid = o.sid /\ r.visit = o.visit /\ r.held = o.held /\ r.file = o.file
        /\ r.fd = o.fd /\ r.buffer = o.buffer /\ r.data = o.data /\ r.named = o.named
        /\ r.status = {"SYNCED"} /\ Exclusive(r)
    BY <1>2, <1>3, <1>5, <1>14, <2>1, <2>2, SavedSound DEF Dated
  <2>4. content' = content
    BY <1>3, <1>6, <2>2
  <2>5. "NEW" \notin r.status /\ r.fd = 0 /\ ~r.buffer.full
    BY <1>3, <2>2, <2>3
  <2>6. UNCHANGED <<known, store>>
    BY <1>4, <2>2, <2>4 DEF store
  <2> QED
    BY <1>0, <1>2, <1>5, <1>14, <2>2, <2>3, <2>5, <2>6, SaveOnly
<1>15. CASE found
  <2>1. PICK d : d = [c EXCEPT !.removed = TRUE]
    OBVIOUS
  <2>2. PICK r : r = Saved(d)
    OBVIOUS
  <2>3. /\ d \in Objs /\ d.fd = 0 /\ ~d.buffer.full /\ d.removed
        /\ d.sid = o.sid /\ d.visit = o.visit /\ d.data = o.data
        /\ d.lock = o.lock /\ d.held = o.held /\ d.file = o.file /\ d.from = o.from
        /\ d.named = o.named
    BY <1>3, <2>1 DEF Objs
  <2>4. Is(p, r) /\ dir' = [dir EXCEPT ![o.sid] = 0]
    BY <1>0, <1>1, <1>3, <1>15, <1>12, <2>1, <2>2 DEF Remove
  <2>5. Flagged(d, Here)
    BY <1>2, <2>3 DEF Flagged
  <2>6. /\ r \in Objs /\ Sound(r, visits, known, Here) /\ r.at \notin {"none", "open"}
        /\ r.sid = o.sid /\ r.visit = o.visit /\ r.held = o.held /\ r.file = o.file
        /\ r.fd = 0 /\ r.data = o.data /\ r.status = {"SYNCED"} /\ Exclusive(r)
        /\ ~r.buffer.full
    BY <1>2, <1>5, <2>2, <2>3, <2>5, SavedSound
  <2>7. obj' = [obj EXCEPT ![p] = r]
    BY <2>4 DEF Is
  <2>8. /\ dir' \in [Sids -> 0 .. MaxVisits] /\ dir'[o.sid] = 0
        /\ \A s \in Sids : s # o.sid => dir'[s] = dir[s]
    BY <1>2, <2>4, Before, BoundsAssumption
  <2>9. Objects(obj', visits, known, Here)
    <3>1. Stays(r, o)
      BY <2>6 DEF Stays
    <3> QED
      BY <1>0, <1>2, <2>4, <2>6, <3>1, ObjectPart
  <2>10. Files(obj', dir', visits)
    <3>1. Moves(r, o, dir, dir')
      BY <2>6, <2>8 DEF Moves
    <3> QED
      BY <1>0, <1>2, <1>10, <2>6, <2>7, <3>1, Before, FilesStep
  <2>11. Closes(Here) => Wholes(obj', dir', content', cut, loose)
    <3>1. \A s \in Sids \ loose : dir'[s] \in {0, dir[s]}
      BY <2>8
    <3> QED
      BY <1>0, <1>6, <1>7, <1>9, <2>6, <2>7, <3>1, Before, WholesStep
  <2>12. Elsewhere(o.sid, dir, dir', content, content', Owed, Owed)
    BY <1>6, <2>8 DEF Elsewhere
  <2>13. mode = "all" /\ Closes(Here) => Leaves(r, o.sid, dir', content', Owed, loose, Here)
    BY <1>8, <2>6, <2>8 DEF Leaves, Kept, Follows, Latest
  <2> QED
    BY <1>0, <1>2, <1>4, <1>6, <1>11, <2>4, <2>6, <2>8, <2>9, <2>10, <2>11, <2>12, <2>13,
       SaveStep DEF SaveFrame
<1> QED
  BY <1>2, <1>13, <1>15, <1>14 DEF Kind

\* What the handle of Store::File has when it has printed
Prints(c, o, f) == c = [o EXCEPT !.fd = f, !.buffer = Frozen(o)]

LEMMA Printed ==
  ASSUME NEW o \in Objs, NEW f \in 0 .. MaxVisits, NEW c, Prints(c, o, f)
  PROVE  /\ c \in Objs /\ c.fd = f /\ c.buffer = Frozen(o)
         /\ c.buffer.full /\ c.buffer.data = o.data
         /\ c.sid = o.sid /\ c.visit = o.visit /\ c.status = o.status /\ c.data = o.data
         /\ c.lock = o.lock /\ c.held = o.held /\ c.file = o.file /\ c.from = o.from
         /\ c.removed = o.removed /\ c.named = o.named
<1>1. PICK B : B = Frozen(o)
  OBVIOUS
<1>2. B \in Contents /\ B.full /\ B.data = o.data
  BY <1>1 DEF Frozen, Contents, Objs
<1>3. PICK a : a = [o EXCEPT !.fd = f]
  OBVIOUS
<1>4. a \in Objs
  BY <1>3 DEF Objs
<1>5. c = [a EXCEPT !.buffer = B]
  BY <1>1, <1>3 DEF Objs, Prints
<1>6. c \in Objs
  BY <1>2, <1>4, <1>5 DEF Objs
<1>7. /\ c.fd = f /\ c.buffer = B
      /\ c.sid = o.sid /\ c.visit = o.visit /\ c.status = o.status /\ c.data = o.data
      /\ c.lock = o.lock /\ c.held = o.held /\ c.file = o.file /\ c.from = o.from
      /\ c.removed = o.removed /\ c.named = o.named
  BY <1>3, <1>5 DEF Objs
<1> QED
  BY <1>1, <1>2, <1>6, <1>7

LEMMA UpdateKeeps ==
  ASSUME IInv, NEW p \in Procs, obj[p].at = "save", Update(p), SaveFrame
  PROVE  IInv'
<1>0. PICK o : o = obj[p]
  OBVIOUS
<1>1. PICK fd : fd = IF o.fd # 0 THEN o.fd ELSE IF dir[o.sid] # 0 THEN dir[o.sid] ELSE o.visit
  OBVIOUS
<1>2. /\ o \in Objs /\ Sound(o, visits, known, Here)
      /\ Fit(o, Here) /\ Flagged(o, Here) /\ Dated(o, visits, known)
      /\ o.sid \in Sids /\ o.visit \in 1..visits /\ o.visit \in Visits /\ o.at = "save"
      /\ o.fd <= visits /\ o.fd \in 0 .. MaxVisits
      /\ "WRITE" \in o.lock /\ o.held = "write" /\ o.from \in Callers
      /\ "NEW" \notin o.status => o.sid \in known /\ InHand(o)
      /\ TypeOK /\ Kind(Here) /\ visits \in Nat
  BY <1>0, AtSave, Before DEF Objs
<1>3. /\ "DELETED" \notin o.status /\ "MODIFIED" \in o.status /\ known' = known
  BY <1>0 DEF Update
<1>4. "NEW" \notin o.status /\ o.sid \in known /\ InHand(o)
  BY <1>2, <1>3 DEF Fit
<1>5. /\ dir \in [Sids -> 0 .. MaxVisits] /\ content \in [Visits -> Contents]
      /\ \A s \in Sids : dir[s] \in 0..visits
      /\ \A s \in Sids : dir[s] # 0 => dir[s] \in Visits
      /\ obj \in [Procs -> Objs]
  BY Before, BoundsAssumption DEF Visits
<1>6. fd \in Visits /\ fd \in 0 .. MaxVisits /\ fd # 0 /\ fd <= visits
  <2>1. fd \in 0 .. MaxVisits /\ fd # 0 /\ fd <= visits
    BY <1>1, <1>2, <1>5, BoundsAssumption DEF Visits
  <2> QED
    BY <2>1, BoundsAssumption DEF Visits
<1>7. Files(obj, dir, visits) /\ (Closes(Here) => Wholes(obj, dir, content, cut, loose))
  BY DEF IInv
<1>8. \A s \in Sids : s # o.sid => dir[s] # fd
  <2>1. Uses(o, fd, dir)
    BY <1>1, <1>6 DEF Uses
  <2> QED
    BY <1>0, <1>2, <1>7, <2>1, Mine
<1>9. mode = "all" /\ Closes(Here) /\ o.sid \notin loose =>
        Owed[o.sid] \subseteq o.data /\ (o.fd # 0 => o.fd = dir[o.sid])
  BY <1>0, <1>2, <1>4 DEF IInv, Transactions, Follows, Latest
<1>10. known \subseteq known' /\ known' \subseteq Sids
  BY <1>2, <1>3 DEF TypeOK
<1>11. Frozen(o) \in Contents /\ Frozen(o).full /\ Frozen(o).data = o.data
  BY <1>2 DEF Frozen, Contents, Objs
<1>12. CASE Here.store = "file" /\ (o.fd # 0 \/ o.named)
  <2>1. PICK c : c = [o EXCEPT !.fd = fd, !.buffer = Frozen(o)]
    OBVIOUS
  <2>2. PICK r : r = Saved(c)
    OBVIOUS
  <2>3. /\ c \in Objs /\ c.fd = fd /\ c.buffer = Frozen(o) /\ c.buffer.full
        /\ c.sid = o.sid /\ c.visit = o.visit /\ c.data = o.data /\ c.named = o.named
        /\ c.lock = o.lock /\ c.held = o.held /\ c.file = o.file /\ c.from = o.from
    <3>1. Prints(c, o, fd)
      BY <2>1 DEF Prints
    <3> QED
      BY <1>2, <1>6, <3>1, Printed
  <2>4. /\ Is(p, r) /\ content' = [content EXCEPT ![fd] = Empty]
        /\ dir' = IF o.fd = 0 THEN [dir EXCEPT ![o.sid] = fd] ELSE dir
    BY <1>0, <1>1, <1>12, <2>1, <2>2 DEF Update, UpdateFile
  <2>5. Flagged(c, Here)
    BY <1>2, <2>3 DEF Flagged
  <2>6. /\ r \in Objs /\ Sound(r, visits, known, Here) /\ r.at \notin {"none", "open"}
        /\ r.sid = o.sid /\ r.visit = o.visit /\ r.held = o.held /\ r.file = o.file
        /\ r.fd = fd /\ r.data = o.data /\ r.named = o.named
        /\ r.status = {"SYNCED"} /\ Exclusive(r)
        /\ r.buffer = Frozen(o) /\ r.buffer.full
    BY <1>2, <1>4, <1>6, <1>12, <2>2, <2>3, <2>5, SavedSound
  <2>7. obj' = [obj EXCEPT ![p] = r]
    BY <2>4 DEF Is
  <2>8. /\ dir' \in [Sids -> 0 .. MaxVisits]
        /\ \A s \in Sids : s # o.sid => dir'[s] = dir[s]
        /\ o.fd = 0 => dir'[o.sid] = fd
        /\ o.fd # 0 => dir'[o.sid] = dir[o.sid] /\ fd = o.fd
    BY <1>1, <1>2, <1>5, <1>6, <2>4
  <2>9. Empty \in Contents /\ ~Empty.full
    BY DEF Empty, Contents
  <2>10. /\ content' \in [Visits -> Contents] /\ content'[fd] = Empty
         /\ \A v \in Visits : v # fd => content'[v] = content[v]
    BY <1>5, <1>6, <2>4, <2>9
  <2>11. Objects(obj', visits, known, Here)
    <3>1. Stays(r, o)
      BY <2>6 DEF Stays
    <3> QED
      BY <1>0, <1>2, <2>4, <2>6, <3>1, ObjectPart
  <2>12. Files(obj', dir', visits)
    <3>1. Moves(r, o, dir, dir')
      BY <1>1, <1>2, <2>6, <2>8 DEF Moves
    <3> QED
      BY <1>0, <1>2, <1>7, <2>6, <2>7, <3>1, Before, FilesStep
  <2>13. Closes(Here) => Wholes(obj', dir', content', cut, loose)
    <3>1. \A s \in Sids : dir[s] \in 0 .. MaxVisits
      BY <1>5
    <3>2. Truncates(r, o, fd, dir, dir', content, content')
      BY <1>1, <1>2, <1>8, <2>6, <2>8, <2>10, <3>1 DEF Truncates, Fit
    <3> QED
      BY <1>0, <1>5, <1>6, <1>7, <2>6, <2>7, <3>2, WholesWrite
  <2>14. Elsewhere(o.sid, dir, dir', content, content', Owed, Owed)
    BY <1>5, <1>8, <2>8, <2>10 DEF Elsewhere
  <2>15. mode = "all" /\ Closes(Here) => Leaves(r, o.sid, dir', content', Owed, loose, Here)
    <3> SUFFICES ASSUME mode = "all", Closes(Here), o.sid \notin loose
                 PROVE  /\ Kept(o.sid, dir', content', Owed)
                        /\ Follows(r, dir', content', Owed, Here)
      BY <2>6 DEF Leaves
    <3>1. dir'[o.sid] = fd /\ Owed[o.sid] \subseteq o.data
      BY <1>9, <2>8
    <3>2. Frozen(r) = Frozen(o)
      BY <2>6 DEF Frozen
    <3>3. Kept(o.sid, dir', content', Owed)
      BY <2>9, <2>10, <3>1 DEF Kept
    <3> QED
      BY <1>11, <2>6, <3>1, <3>2, <3>3 DEF Follows, Latest
  <2> QED
    BY <1>0, <1>2, <1>3, <1>10, <2>4, <2>6, <2>8, <2>10, <2>11, <2>12, <2>13, <2>14, <2>15,
       SaveStep DEF SaveFrame
<1>13. CASE Here.store = "file" /\ o.fd = 0 /\ ~o.named
  <2>1. PICK r : r = Died(o)
    OBVIOUS
  <2>2. Is(p, r) /\ UNCHANGED <<known, store>>
    BY <1>0, <1>3, <1>13, <2>1 DEF Update, UpdateFile
  <2>3. LeadsOut(r, o, Here)
    BY <1>2, <2>1, DiedLeads
  <2>4. ~o.buffer.full
    BY <1>2, <1>13 DEF Fit
  <2>5. /\ Sound(r, visits, known, Here) /\ Kin(r, o) /\ r \in Objs
        /\ r.at \notin {"none", "open"}
    BY <1>2, <2>3, <2>4, LeadsOutSound
  <2>6. mode = "all" => Exclusive(r)
    BY <1>2, <2>3, ExclusiveLeadsOut
  <2>7. /\ r.sid = o.sid /\ r.visit = o.visit /\ r.data = o.data
        /\ r.held = o.held /\ r.file = o.file /\ r.fd = o.fd /\ r.buffer = o.buffer
        /\ r.status = o.status
    BY <2>5 DEF Kin
  <2>8. r.status # {"SYNCED"}
    BY <1>3, <2>7
  <2> QED
    BY <1>0, <1>2, <1>4, <1>13, <2>2, <2>4, <2>5, <2>6, <2>7, <2>8, SaveOnly
<1>14. CASE Here.store = "dbi" /\ ~o.named
  <2>1. PICK r : r = Saved(o)
    OBVIOUS
  <2>2. Is(p, r) /\ UNCHANGED <<known, store>>
    BY <1>0, <1>3, <1>14, <2>1 DEF Update, UpdateRow, store
  <2>3. o.fd = 0 /\ ~o.buffer.full
    BY <1>2, <1>14 DEF Fit
  <2>4. /\ r \in Objs /\ Sound(r, visits, known, Here) /\ r.at \notin {"none", "open"}
        /\ r.sid = o.sid /\ r.visit = o.visit /\ r.held = o.held /\ r.file = o.file
        /\ r.fd = o.fd /\ r.buffer = o.buffer /\ r.data = o.data /\ r.named = o.named
        /\ r.status = {"SYNCED"} /\ Exclusive(r)
    BY <1>2, <1>4, <1>14, <2>1, <2>3, SavedSound
  <2>5. "NEW" \notin r.status
    BY <2>4
  <2> QED
    BY <1>0, <1>2, <1>4, <1>14, <2>2, <2>3, <2>4, <2>5, SaveOnly
<1>15. CASE Here.store = "dbi" /\ o.named
  <2>1. PICK r : r = Saved(o)
    OBVIOUS
  <2>2. /\ Is(p, r) /\ dir' = dir
        /\ content' = IF dir[o.sid] = 0 THEN content
                      ELSE [content EXCEPT ![dir[o.sid]] = Frozen(o)]
    BY <1>0, <1>15, <2>1 DEF Update, UpdateRow
  <2>3. o.fd = 0 /\ ~o.buffer.full
    BY <1>2, <1>15 DEF Fit
  <2>4. /\ r \in Objs /\ Sound(r, visits, known, Here) /\ r.at \notin {"none", "open"}
        /\ r.sid = o.sid /\ r.visit = o.visit /\ r.held = o.held /\ r.file = o.file
        /\ r.fd = 0 /\ r.data = o.data /\ r.named = o.named
        /\ r.status = {"SYNCED"} /\ Exclusive(r) /\ ~r.buffer.full
    BY <1>2, <1>4, <1>15, <2>1, <2>3, SavedSound
  <2>5. obj' = [obj EXCEPT ![p] = r]
    BY <2>2 DEF Is
  <2>6. /\ content' \in [Visits -> Contents]
        /\ \A v \in Visits : v # dir[o.sid] => content'[v] = content[v]
        /\ dir[o.sid] # 0 => content'[dir[o.sid]] = Frozen(o)
    <3>1. CASE dir[o.sid] = 0
      BY <1>5, <2>2, <3>1
    <3>2. CASE dir[o.sid] # 0
      <4>1. dir[o.sid] \in Visits
        BY <1>2, <1>5, <3>2
      <4> QED
        BY <1>5, <1>11, <2>2, <3>2, <4>1
    <3> QED
      BY <3>1, <3>2
  <2>7. Objects(obj', visits, known, Here)
    <3>1. Stays(r, o)
      BY <2>4 DEF Stays
    <3> QED
      BY <1>0, <1>2, <2>2, <2>4, <3>1, ObjectPart
  <2>8. Files(obj', dir, visits)
    <3>1. Moves(r, o, dir, dir)
      BY <2>4 DEF Moves
    <3> QED
      BY <1>0, <1>2, <1>7, <2>4, <2>5, <3>1, Before, FilesStep
  <2>9. Closes(Here) => Wholes(obj', dir, content', cut, loose)
    <3>1. \A s \in Sids : dir[s] # 0 /\ content[dir[s]].full => content'[dir[s]].full
      BY <1>2, <1>5, <1>11, <2>6
    <3>2. ~obj[p].buffer.full
      BY <1>0, <2>3
    <3> QED
      BY <1>5, <1>7, <2>4, <2>5, <3>1, <3>2, WholesStep
  <2>10. Elsewhere(o.sid, dir, dir, content, content', Owed, Owed)
    <3>1. \A s \in Sids : s # o.sid /\ dir[s] # 0 => dir[s] # dir[o.sid]
      <4>1. CASE dir[o.sid] # 0
        <5>1. Uses(o, dir[o.sid], dir)
          BY <4>1 DEF Uses
        <5> QED
          BY <1>0, <1>2, <1>7, <5>1, Mine
      <4> QED
        BY <4>1
    <3> QED
      BY <1>5, <2>6, <3>1 DEF Elsewhere
  <2>11. mode = "all" /\ Closes(Here) => Leaves(r, o.sid, dir, content', Owed, loose, Here)
    <3> SUFFICES ASSUME mode = "all", Closes(Here), o.sid \notin loose
                 PROVE  /\ Kept(o.sid, dir, content', Owed)
                        /\ Follows(r, dir, content', Owed, Here)
      BY <2>4 DEF Leaves
    <3>1. Owed[o.sid] \subseteq o.data
      BY <1>9
    <3>2. Frozen(r) = Frozen(o)
      BY <2>4 DEF Frozen
    <3> QED
      BY <1>11, <2>4, <2>6, <3>1, <3>2 DEF Kept, Follows, Latest
  <2> QED
    BY <1>0, <1>2, <1>3, <1>5, <1>10, <2>2, <2>4, <2>6, <2>7, <2>8, <2>9, <2>10, <2>11,
       SaveStep DEF SaveFrame
<1> QED
  BY <1>2, <1>12, <1>13, <1>14, <1>15 DEF Kind

LEMMA InsertKeeps ==
  ASSUME IInv, NEW p \in Procs, obj[p].at = "save", Insert(p), SaveFrame
  PROVE  IInv'
<1>0. PICK o : o = obj[p]
  OBVIOUS
<1>1. PICK K : K = known \cup {o.sid}
  OBVIOUS
<1>2. /\ o \in Objs /\ Sound(o, visits, known, Here)
      /\ Fit(o, Here) /\ Flagged(o, Here) /\ Dated(o, visits, known)
      /\ o.sid \in Sids /\ o.visit \in 1..visits /\ o.visit \in Visits /\ o.at = "save"
      /\ "WRITE" \in o.lock /\ o.held = "write" /\ o.from \in Callers
      /\ TypeOK /\ Kind(Here) /\ visits \in Nat
  BY <1>0, AtSave, Before
<1>3. /\ o.status = {"NEW"} /\ known' = K
      /\ dir' = [dir EXCEPT ![o.sid] = o.visit]
  BY <1>0, <1>1 DEF Insert
<1>4. o.data = {} /\ ~o.buffer.full /\ o.sid \notin known
  BY <1>2, <1>3 DEF Fit, Dated
<1>5. /\ dir \in [Sids -> 0 .. MaxVisits] /\ content \in [Visits -> Contents]
      /\ \A s \in Sids : dir[s] \in 0 .. MaxVisits
      /\ \A s \in Sids : dir[s] # 0 => dir[s] \in Visits
      /\ obj \in [Procs -> Objs]
  BY Before, BoundsAssumption DEF Visits
<1>6. o.visit \in 0 .. MaxVisits /\ o.visit # 0 /\ o.visit <= visits
  BY <1>2, BoundsAssumption DEF Visits
<1>7. Files(obj, dir, visits) /\ (Closes(Here) => Wholes(obj, dir, content, cut, loose))
  BY DEF IInv
<1>8. \A s \in Sids : s # o.sid => dir[s] # o.visit
  <2>1. Uses(o, o.visit, dir)
    BY <1>6 DEF Uses
  <2> QED
    BY <1>0, <1>2, <1>7, <2>1, Mine
<1>9. Owed[o.sid] = {}
  BY <1>2, <1>4 DEF IInv, Owed
<1>10. known \subseteq K /\ K \subseteq Sids /\ o.sid \in K
  BY <1>1, <1>2 DEF TypeOK
<1>11. Frozen(o) \in Contents /\ Frozen(o).full /\ Frozen(o).data = o.data
  BY <1>2 DEF Frozen, Contents, Objs
<1>12. /\ dir' \in [Sids -> 0 .. MaxVisits] /\ dir'[o.sid] = o.visit
       /\ \A s \in Sids : s # o.sid => dir'[s] = dir[s]
  BY <1>2, <1>3, <1>5, <1>6
<1>13. PICK c : c = IF Here.store = "file" THEN [o EXCEPT !.fd = o.visit, !.buffer = Frozen(o)]
                    ELSE o
  OBVIOUS
<1>14. PICK v : v = IF Here.store = "file" THEN Empty ELSE Frozen(o)
  OBVIOUS
<1>15. PICK r : r = Saved(c)
  OBVIOUS
<1>16. /\ c \in Objs /\ (Here.store = "file" => c.fd = o.visit /\ c.buffer.full)
       /\ Here.store = "dbi" => c.fd = 0 /\ ~c.buffer.full
       /\ c.buffer.full => c.fd # 0 /\ c.buffer = Frozen(o)
       /\ c.fd <= visits
       /\ c.sid = o.sid /\ c.visit = o.visit /\ c.data = o.data /\ c.named = o.named
       /\ c.lock = o.lock /\ c.held = o.held /\ c.file = o.file /\ c.from = o.from
  <2>1. CASE Here.store = "file"
    <3>1. Prints(c, o, o.visit)
      BY <1>13, <2>1 DEF Prints
    <3> QED
      BY <1>2, <1>6, <2>1, <3>1, Printed
  <2>2. CASE Here.store = "dbi"
    <3>1. c = o /\ o.fd = 0
      BY <1>2, <1>13, <2>2 DEF Fit
    <3> QED
      BY <1>2, <1>4, <2>2, <3>1
  <2> QED
    BY <1>2, <2>1, <2>2 DEF Kind
<1>17. Is(p, r) /\ content' = [content EXCEPT ![o.visit] = v]
  <2>1. CASE Here.store = "file"
    BY <1>0, <1>13, <1>14, <1>15, <2>1 DEF Insert
  <2>2. CASE Here.store # "file"
    BY <1>0, <1>13, <1>14, <1>15, <2>2 DEF Insert
  <2> QED
    BY <2>1, <2>2
<1>18. v \in Contents /\ (Here.store = "dbi" => v = Frozen(o))
       /\ (Here.store = "file" => ~v.full)
  BY <1>11, <1>14 DEF Empty, Contents
<1>19. /\ content' \in [Visits -> Contents] /\ content'[o.visit] = v
       /\ \A w \in Visits : w # o.visit => content'[w] = content[w]
  BY <1>2, <1>5, <1>17, <1>18
<1>20. Flagged(c, Here)
  BY <1>2, <1>16 DEF Flagged
<1>21. /\ r \in Objs /\ Sound(r, visits, K, Here) /\ r.at \notin {"none", "open"}
       /\ r.sid = o.sid /\ r.visit = o.visit /\ r.held = o.held /\ r.file = o.file
       /\ r.fd = c.fd /\ r.buffer = c.buffer /\ r.data = o.data /\ r.named = o.named
       /\ r.status = {"SYNCED"} /\ Exclusive(r)
  BY <1>2, <1>6, <1>10, <1>15, <1>16, <1>20, SavedSound
<1>22. obj' = [obj EXCEPT ![p] = r]
  BY <1>17 DEF Is
<1>23. Objects(obj', visits, known', Here)
  <2>1. "NEW" \in obj[p].status /\ "NEW" \notin r.status /\ r.sid = obj[p].sid
    BY <1>0, <1>3, <1>21
  <2>2. Objects(obj, visits, known, Here) /\ known' = known \cup {r.sid}
        /\ Sound(r, visits, known \cup {r.sid}, Here)
    BY <1>1, <1>3, <1>21 DEF IInv
  <2>3. Objects([obj EXCEPT ![p] = r], visits, known \cup {r.sid}, Here)
    BY <1>2, <1>5, <1>21, <2>1, <2>2, ObjectsKnown
  <2> QED
    BY <1>22, <2>2, <2>3
<1>24. Files(obj', dir', visits)
  <2>1. c.fd \in {0, o.visit}
    BY <1>2, <1>16 DEF Kind
  <2>2. Moves(r, o, dir, dir')
    BY <1>12, <1>21, <2>1 DEF Moves
  <2> QED
    BY <1>0, <1>2, <1>7, <1>21, <1>22, <2>2, Before, FilesStep
<1>25. Closes(Here) => Wholes(obj', dir', content', cut, loose)
  <2>1. content'[o.visit].full \/ (r.fd = o.visit /\ r.buffer.full)
    BY <1>2, <1>11, <1>16, <1>18, <1>19, <1>21 DEF Kind
  <2>2. Truncates(r, o, o.visit, dir, dir', content, content')
    BY <1>2, <1>4, <1>5, <1>8, <1>12, <1>19, <1>21, <2>1 DEF Truncates
  <2> QED
    BY <1>0, <1>2, <1>5, <1>7, <1>21, <1>22, <2>2, WholesWrite
<1>26. Elsewhere(o.sid, dir, dir', content, content', Owed, Owed)
  BY <1>5, <1>8, <1>12, <1>19 DEF Elsewhere
<1>27. Leaves(r, o.sid, dir', content', Owed, loose, Here)
  <2>1. Kept(o.sid, dir', content', Owed)
    BY <1>9 DEF Kept
  <2>2. r.fd # 0 => r.fd = dir'[o.sid]
    BY <1>2, <1>12, <1>16, <1>21 DEF Kind
  <2>3. IF r.buffer.full THEN r.buffer = Frozen(r)
        ELSE content'[dir'[o.sid]] = Frozen(r)
    <3>1. Frozen(r) = Frozen(o)
      BY <1>21 DEF Frozen
    <3>2. CASE Here.store = "file"
      BY <1>16, <1>21, <3>1, <3>2
    <3>3. CASE Here.store = "dbi"
      BY <1>12, <1>16, <1>18, <1>19, <1>21, <3>1, <3>3
    <3> QED
      BY <1>2, <3>2, <3>3 DEF Kind
  <2>4. Follows(r, dir', content', Owed, Here)
    BY <1>9, <1>21, <2>2, <2>3 DEF Follows, Latest
  <2> QED
    BY <2>1, <2>4 DEF Leaves
<1> QED
  BY <1>0, <1>2, <1>3, <1>10, <1>12, <1>17, <1>19, <1>21, <1>23, <1>24, <1>25, <1>26, <1>27,
     SaveStep DEF SaveFrame

\* The file of a session that is not in loose is there when it is opened.
LEMMA OpenKeeps == ASSUME IInv, NEW p \in Procs, Open(p) PROVE IInv'
<1>0. PICK o : o = obj[p]
  OBVIOUS
<1>1. PICK file : file = IF dir[o.sid] # 0 THEN dir[o.sid] ELSE o.visit
  OBVIOUS
<1>2. PICK found : found = IF dir[o.sid] # 0 THEN content[file] ELSE Empty
  OBVIOUS
<1>3. PICK c : c = [o EXCEPT !.fd = file]
  OBVIOUS
<1>4. PICK r : r = Read(c, found)
  OBVIOUS
<1>5. /\ o \in Objs /\ Sound(o, visits, known, Here) /\ Kind(Here) /\ TypeOK
      /\ o.at = "open" /\ Dated(o, visits, known) /\ o.sid \in Sids /\ o.visit \in 1..visits
      /\ visits \in Nat
  BY <1>0, Before DEF Open, Dated
<1>6. /\ o.status = {} /\ o.from = "TIEHASH" /\ o.held # "none" /\ ~o.buffer.full
      /\ Fit(o, Here) /\ Flagged(o, Here)
  BY <1>5, SoundFit DEF Sound, Placed, Handled
<1>7. /\ dir \in [Sids -> 0 .. MaxVisits] /\ content \in [Visits -> Contents]
      /\ \A s \in Sids : dir[s] \in 0..visits
      /\ \A s \in Sids : dir[s] # 0 => dir[s] \in Visits
      /\ o.visit \in Visits /\ obj \in [Procs -> Objs]
  BY <1>5, Before, BoundsAssumption DEF Visits, TypeOK
<1>8. file \in Visits /\ file \in 0 .. MaxVisits /\ file # 0 /\ file <= visits
  BY <1>1, <1>5, <1>7, BoundsAssumption DEF Visits
<1>9. found \in Contents
  BY <1>2, <1>7, <1>8 DEF Empty, Contents
<1>10. /\ c \in Objs /\ c.fd = file /\ c.sid = o.sid /\ c.visit = o.visit
       /\ c.status = o.status /\ c.lock = o.lock /\ c.held = o.held /\ c.file = o.file
       /\ c.data = o.data /\ c.from = o.from /\ c.buffer = o.buffer
  BY <1>3, <1>5, <1>8 DEF Objs
<1>11. Flagged(c, Here) /\ Dated(c, visits, known)
  BY <1>5, <1>6, <1>8, <1>10 DEF Flagged, Dated
<1>12. Here.store = "file"
  BY <1>5 DEF Sound, Placed
<1>13. Fit(c, Here)
  BY <1>6, <1>8, <1>10, <1>12 DEF Fit
<1>14. /\ Reads(r, c, found) /\ Sound(r, visits, known, Here)
       /\ "WRITE" \in c.lock => Exclusive(r)
  BY <1>4, <1>5, <1>6, <1>8, <1>9, <1>10, <1>11, <1>13, ReadSound
<1>15. /\ r \in Objs /\ r.at \notin {"none", "open"} /\ "NEW" \notin r.status
       /\ r.sid = o.sid /\ r.visit = o.visit /\ r.held = o.held /\ r.file = o.file
       /\ r.fd = file
  BY <1>10, <1>14 DEF Reads
<1>16. /\ Is(p, r) /\ dir' = [dir EXCEPT ![o.sid] = file]
       /\ content' = [content EXCEPT ![file] = found]
  BY <1>0, <1>1, <1>2, <1>3, <1>4 DEF Open
<1>17. obj' = [obj EXCEPT ![p] = r]
  BY <1>16 DEF Is
<1>18. /\ Here' = Here /\ class' = class /\ mode' = mode
       /\ leaked' = leaked /\ visits' = visits /\ known' = known /\ saved' = saved
       /\ nameless' = nameless /\ Owed' = Owed /\ cut' = cut /\ cleans' = cleans
       /\ loose' = loose /\ locks' = locks /\ sem' = sem
  BY DEF Open, Here, history, Owed
<1>19. Files(obj, dir, visits) /\ (Closes(Here) => Wholes(obj, dir, content, cut, loose))
  BY DEF IInv
<1>20. \A s \in Sids : s # o.sid => dir[s] # file
  <2>1. Uses(o, file, dir)
    BY <1>1, <1>8 DEF Uses
  <2> QED
    BY <1>0, <1>5, <1>19, <2>1, Mine
<1>21. /\ dir' \in [Sids -> 0 .. MaxVisits] /\ dir'[o.sid] = file
       /\ \A s \in Sids : s # o.sid => dir'[s] = dir[s]
       /\ \A s \in Sids : dir[s] # 0 => dir'[s] = dir[s]
  BY <1>1, <1>5, <1>7, <1>8, <1>16
<1>22. /\ content' \in [Visits -> Contents]
       /\ \A v \in Visits : v # file => content'[v] = content[v]
       /\ dir[o.sid] # 0 => content' = content
  <2>1. dir[o.sid] # 0 => found = content[file]
    BY <1>2
  <2> QED
    BY <1>7, <1>8, <1>9, <1>16, <2>1
<1>23. o.sid \notin loose => dir[o.sid] # 0
  BY <1>0, <1>5 DEF IInv, Opened
<1>24. Stays(r, o)
  BY <1>15 DEF Stays
<1>25. obj' \in [Procs -> Objs] /\ Objects(obj', visits, known, Here)
  BY <1>0, <1>5, <1>14, <1>15, <1>16, <1>24, ObjectPart
<1>26. Semaphores(obj', sem, leaked, loose, Here) /\ LockFiles(obj', locks, loose, Here)
  BY <1>0, <1>5, <1>15, <1>16, SameLocks
<1>27. Files(obj', dir', visits)
  <2>1. Moves(r, o, dir, dir')
    BY <1>1, <1>15, <1>21 DEF Moves
  <2> QED
    BY <1>0, <1>5, <1>15, <1>17, <1>19, <2>1, Before, FilesStep
<1>28. Closes(Here) => Wholes(obj', dir', content', cut, loose)
  <2> SUFFICES ASSUME Closes(Here) PROVE Wholes(obj', dir', content', cut, loose)
    OBVIOUS
  <2>1. ASSUME NEW s \in Sids \ loose
        PROVE  /\ dir'[s] \in {0, dir[s]}
               /\ dir[s] # 0 /\ content[dir[s]].full => content'[dir[s]].full
    <3>1. CASE s = o.sid
      BY <1>21, <1>22, <1>23, <3>1
    <3>2. CASE s # o.sid
      BY <1>7, <1>20, <1>21, <1>22, <3>2
    <3> QED
      BY <3>1, <3>2
  <2>2. ~obj[p].buffer.full
    BY <1>0, <1>6
  <2> QED
    BY <1>7, <1>15, <1>17, <1>19, <2>1, <2>2, WholesStep
<1>29. mode = "all" => "WRITE" \in o.lock /\ o.held = "write"
  BY <1>0, <1>5 DEF IInv, Exclusive, Sound, Flagged
<1>30. mode = "all" => \A q \in Procs : Exclusive(obj'[q])
  BY <1>10, <1>14, <1>17, <1>29, Before DEF IInv
<1>31. mode = "all" /\ Closes(Here) => Transactions(obj', dir', content', Owed, loose, Here)
  <2> SUFFICES ASSUME mode = "all", Closes(Here)
               PROVE  Transactions(obj', dir', content', Owed, loose, Here)
    OBVIOUS
  <2>1. Transactions(obj, dir, content, Owed, loose, Here)
    BY DEF IInv
  <2>2. o.sid \notin loose => OnlyWith(p, o.sid, obj)
    BY <1>0, <1>29, OthersOut
  <2>3. Elsewhere(o.sid, dir, dir', content, content', Owed, Owed)
    BY <1>7, <1>20, <1>21, <1>22 DEF Elsewhere
  <2>4. ASSUME o.sid \notin loose
        PROVE  Kept(o.sid, dir', content', Owed) /\ Follows(r, dir', content', Owed, Here)
    <3>1. Kept(o.sid, dir, content, Owed)
      BY <1>5, <2>1, <2>4 DEF Transactions
    <3>2. dir'[o.sid] = dir[o.sid] /\ content' = content /\ file = dir[o.sid]
      BY <1>1, <1>5, <1>21, <1>22, <1>23, <2>4
    <3>3. Kept(o.sid, dir', content', Owed)
      BY <3>1, <3>2 DEF Kept
    <3>4. found = content'[dir'[o.sid]] /\ dir'[o.sid] # 0
      BY <1>2, <1>23, <2>4, <3>2
    <3> QED
      BY <1>6, <1>10, <1>14, <3>2, <3>3, <3>4, ReadFollows
  <2>5. Leaves(r, o.sid, dir', content', Owed, loose, Here)
    BY <1>15, <2>4 DEF Leaves
  <2> QED
    BY <1>15, <1>17, <2>1, <2>2, <2>3, <2>5, Before, TransactionsStep
<1>32. Opened(obj', dir', loose)
  <2> SUFFICES ASSUME NEW q \in Procs, obj'[q].at = "open", obj'[q].sid \notin loose
               PROVE  dir'[obj'[q].sid] # 0
    BY DEF Opened
  <2>1. obj'[q] = obj[q]
    BY <1>7, <1>15, <1>17
  <2>2. obj[q].sid \in Sids /\ dir[obj[q].sid] # 0
    BY <2>1, Before DEF IInv, Opened
  <2> QED
    BY <1>21, <2>1, <2>2
<1>33. TypeOK'
  BY <1>18, <1>21, <1>22, <1>25 DEF IInv, TypeOK, Objs
<1>34. \A s \in Sids \ known : saved[s] = {}
  BY DEF IInv
<1> QED
  BY <1>18, <1>25, <1>26, <1>27, <1>28, <1>30, <1>31, <1>32, <1>33, <1>34 DEF IInv

LEMMA SaveKeeps == ASSUME IInv, NEW p \in Procs, Save(p) PROVE IInv'
<1>1. obj[p].at = "save" /\ SaveFrame
  BY DEF Save, SaveFrame
<1>2. CASE Remove(p)
  BY <1>1, <1>2, RemoveKeeps
<1>3. CASE Update(p)
  BY <1>1, <1>3, UpdateKeeps
<1>4. CASE Insert(p)
  BY <1>1, <1>4, InsertKeeps
<1> QED
  BY <1>2, <1>3, <1>4 DEF Save

-----------------------------------------------------------------------------
(* The invariant holds at the start and is kept by every step. *)

LEMMA StutterKeeps == ASSUME IInv, UNCHANGED vars PROVE IInv'
<1>1. /\ class' = class /\ mode' = mode /\ obj' = obj /\ dir' = dir /\ content' = content
      /\ locks' = locks /\ sem' = sem /\ leaked' = leaked /\ visits' = visits
      /\ known' = known /\ saved' = saved /\ nameless' = nameless /\ Owed' = Owed
      /\ cut' = cut /\ cleans' = cleans /\ loose' = loose
  BY DEF vars, store, history, Owed
<1>2. Here' = Here
  BY <1>1 DEF Here
<1>3. TypeOK'
  BY <1>1 DEF IInv, TypeOK
<1> QED
  BY <1>1, <1>2, <1>3 DEF IInv

LEMMA NextKeeps == ASSUME IInv, Next PROVE IInv'
<1>1. ASSUME NEW p \in Procs, Program(p) PROVE IInv'
  BY <1>1, TieNewKeeps, TieKeeps, ChangeKeeps, ClearKeeps, DeleteKeeps, UntieKeeps DEF Program
<1>2. ASSUME NEW p \in Procs, Goes(p) PROVE IInv'
  BY <1>2, AskKeeps, GetKeeps, RestoreKeeps, OpenKeeps, SaveKeeps, SqlFailsKeeps, CloseKeeps,
     UnlockKeeps, FreeKeeps DEF Goes
<1>3. ASSUME NEW p \in Procs, Die(p) PROVE IInv'
  BY <1>3, DieKeeps
<1>4. ASSUME NEW s \in Sids, Clean(s) PROVE IInv'
  BY <1>4, CleanKeeps
<1> QED
  BY <1>1, <1>2, <1>3, <1>4 DEF Next

LEMMA InitInvariant == ASSUME Init PROVE IInv
<1>1. /\ class \in Classes /\ mode \in Modes
      /\ \A p \in Procs : obj[p] = NoSession /\ leaked[p] = FALSE
      /\ \A s \in Sids : dir[s] = 0 /\ saved[s] = {}
      /\ visits = 0 /\ known = {} /\ loose = {} /\ nameless = {}
      /\ sem["read"] = 0 /\ sem["write"] = 0
  BY DEF Init
<1>2. TypeOK
  <2>1. NoSession \in Objs
    BY NoSessionFields
  <2>2. obj \in [Procs -> Objs]
    BY <2>1 DEF Init
  <2>3. Empty \in Contents /\ content \in [Visits -> Contents]
    BY DEF Init, Empty, Contents
  <2>4. Cardinality(Procs) \in Nat
    BY BoundsAssumption, FS_CardinalityType
  <2>5. sem \in [{"read", "write"} -> 0 .. Cardinality(Procs)]
    BY <2>4 DEF Init
  <2>6. /\ dir \in [Sids -> 0 .. MaxVisits] /\ locks \in [Sids -> 0 .. MaxVisits]
        /\ visits \in 0 .. MaxVisits /\ cleans \in 0 .. MaxCleans
    BY BoundsAssumption DEF Init
  <2> QED
    BY <1>1, <2>2, <2>3, <2>5, <2>6 DEF Init, TypeOK, Objs
<1>3. Kind(Here)
  BY <1>2, HereKind
<1>4. /\ NoSession.at = "none" /\ NoSession.held = "none" /\ NoSession.status = {}
      /\ NoSession.file = 0 /\ ~NoSession.buffer.full /\ NoSession.lock = {}
  BY DEF NoSession, Empty
<1>5. Objects(obj, visits, known, Here)
  <2>1. Sound(NoSession, visits, known, Here)
    BY <1>3, NoSessionSound
  <2>2. Apart(obj)
    BY <1>1, <1>4 DEF Apart
  <2> QED
    BY <1>1, <2>1, <2>2 DEF Objects
<1>6. Semaphores(obj, sem, leaked, loose, Here)
  <2>1. Readers(obj) = {}
    BY <1>1, <1>4 DEF Readers
  <2>2. Cardinality(Readers(obj)) = 0
    BY <2>1, FS_EmptySet
  <2>3. \A p \in Procs : ~Writes(p, obj, leaked)
    BY <1>1, <1>4 DEF Writes
  <2>4. Counted(obj, sem, leaked)
    BY <1>1, <2>2, <2>3 DEF Counted
  <2> QED
    BY <1>1, <2>4 DEF Semaphores
<1>7. LockFiles(obj, locks, loose, Here)
  BY <1>1, <1>4 DEF LockFiles, Alone, OneFile
<1>8. Files(obj, dir, visits)
  <2> DEFINE who == [v \in Visits |-> "none"]
  <2>1. who \in [Visits -> Sids \cup {"none"}]
    OBVIOUS
  <2>2. Owns(who, obj, dir)
    BY <1>1, <1>4 DEF Owns
  <2>3. \A s \in Sids : dir[s] \in 0..visits
    BY <1>1
  <2> QED
    BY <2>1, <2>2, <2>3 DEF Files
<1>9. Wholes(obj, dir, content, cut, loose) /\ Opened(obj, dir, loose)
  BY <1>1, <1>4 DEF Wholes, Whole, Opened
<1>10. \A p \in Procs : Exclusive(obj[p])
  BY <1>1, <1>4 DEF Exclusive
<1>11. Transactions(obj, dir, content, Owed, loose, Here)
  BY <1>1, <1>4 DEF Transactions, Kept
<1> QED
  BY <1>1, <1>2, <1>5, <1>6, <1>7, <1>8, <1>9, <1>10, <1>11 DEF IInv

-----------------------------------------------------------------------------
(***************************************************************************)
(* In every behaviour, whatever the classes of session and the faults: who *)
(* holds a lock is counted by the semaphores or alone on its lock file,    *)
(* every file and row is of one session, and a stored session is whole, or *)
(* cut, or in the buffer of the object that writes it.                     *)
(***************************************************************************)
THEOREM ApacheInvariant == Spec => []IInv
<1>1. Init => IInv
  BY InitInvariant
<1>2. IInv /\ [Next]_vars => IInv'
  BY NextKeeps, StutterKeeps
<1> QED
  BY <1>1, <1>2, PTL DEF Spec

\* The objects, the store, the locks and the semaphores keep to their types;
\* a semaphore is never below 0, nor above the number of processes.
THEOREM ApacheTypeOK == Spec => []TypeOK
<1>1. IInv => TypeOK
  BY DEF IInv
<1> QED
  BY <1>1, ApacheInvariant, PTL

-----------------------------------------------------------------------------
(* What follows from the invariant *)

LEMMA NotStuck == ASSUME IInv PROVE NobodyStuck
<1> SUFFICES ASSUME NEW p \in Procs, obj[p].at = "wait",
                    \A q \in Procs : ~CanGo(q) /\ ~leaked[q]
             PROVE  FALSE
  BY DEF NobodyStuck
<1>1. \A q \in Procs : obj[q].at \in {"none", "wait"}
  BY DEF CanGo
<1>2. \A q \in Procs : obj[q].held = "none"
  BY <1>1, Before DEF Sound, Placed
<1>3. CASE Here.lock = "flock"
  <2>1. FlockFree(p)
    BY <1>2 DEF FlockFree
  <2> QED
    BY <1>3, <2>1 DEF CanGo
<1>4. CASE Here.lock = "semaphore"
  <2>1. Counted(obj, sem, leaked)
    BY <1>4 DEF IInv, Semaphores
  <2>2. Readers(obj) = {}
    BY <1>2 DEF Readers
  <2>3. sem["read"] = 0
    BY <2>1, <2>2, FS_EmptySet DEF Counted
  <2>4. sem["write"] = 0
    BY <1>2, <2>1 DEF Counted, Writes
  <2>5. SemaphoreFree(p)
    BY <2>3, <2>4 DEF SemaphoreFree
  <2>6. Here.lock # "flock"
    BY <1>4
  <2> QED
    BY <2>5, <2>6 DEF CanGo
<1> QED
  BY <1>3, <1>4, Before DEF Kind

LEMMA FindsWhole == ASSUME IInv, Closes(Here) PROVE ReadsWhole
<1> SUFFICES ASSUME NEW p \in Procs, obj[p].at \in {"restore", "open"},
                    dir[obj[p].sid] # 0, obj[p].sid \notin loose,
                    ~content[dir[obj[p].sid]].full, dir[obj[p].sid] \notin cut
             PROVE  FALSE
  BY DEF ReadsWhole
<1>1. /\ obj[p].sid \in Sids /\ obj[p].held # "none" /\ ~obj[p].buffer.full
  BY Before DEF Sound, Placed, Handled
<1>2. Whole(obj[p].sid, obj, dir, content, cut)
  BY <1>1 DEF IInv, Wholes
<1>3. PICK q \in Procs : /\ obj[q].sid = obj[p].sid /\ obj[q].fd = dir[obj[p].sid]
                         /\ obj[q].buffer.full
  BY <1>2 DEF Whole
<1>4. obj[q].held = "write"
  <2>1. Flagged(obj[q], Here) /\ Handled(obj[q], Here) /\ Kind(Here)
    BY Before DEF Sound
  <2>2. Here.store = "file"
    BY <1>3, <2>1 DEF Handled, Kind
  <2>3. "WRITE" \in obj[q].lock
    BY <1>3, <2>1, <2>2 DEF Closes, Handled
  <2> QED
    BY <2>1, <2>3 DEF Flagged
<1>5. q # p
  BY <1>1, <1>3
<1>6. /\ Objects(obj, visits, known, Here) /\ Semaphores(obj, sem, leaked, loose, Here)
      /\ LockFiles(obj, locks, loose, Here) /\ Kind(Here) /\ obj \in [Procs -> Objs]
  BY Before DEF IInv
<1>7. obj[p].held = "none"
  BY <1>3, <1>4, <1>5, <1>6, Excludes
<1> QED
  BY <1>1, <1>7

LEMMA NoneLost == ASSUME IInv, Closes(Here) PROVE TransactionsKept
BY DEF IInv, Transactions, Kept, Owed, TransactionsKept

\* A step of the property DeletedStaysDeleted
BroughtBack(s) == \E p \in Procs : obj[p].sid = s /\ obj[p].removed

LEMMA SaveBringsBack ==
  ASSUME IInv, NEW p \in Procs, Save(p), NEW s \in known, dir[s] = 0, dir'[s] # 0
  PROVE  BroughtBack(s)
<1>1. PICK o : o = obj[p]
  OBVIOUS
<1>2. /\ o.at = "save" /\ Handled(o, Here) /\ Dated(o, visits, known) /\ Kind(Here)
      /\ dir \in [Sids -> 0 .. MaxVisits] /\ known \subseteq Sids
  BY <1>1, Before DEF Save, Sound, TypeOK
<1>3. s \in Sids
  BY <1>2
<1>4. CASE Remove(p)
  <2>1. dir' = dir \/ dir' = [dir EXCEPT ![o.sid] = 0]
    BY <1>1, <1>4, Before DEF Remove, Closed
  <2> QED
    BY <1>2, <1>3, <2>1
<1>5. CASE Update(p)
  <2>1. "DELETED" \notin o.status /\ "MODIFIED" \in o.status
    BY <1>1, <1>5 DEF Update
  <2>2. /\ Here.store = "file" /\ o.fd = 0
        /\ \E v : dir' = [dir EXCEPT ![o.sid] = v]
    <3>1. dir' # dir
      OBVIOUS
    <3>2. CASE Here.store = "file"
      BY <1>1, <1>5, <3>1, <3>2 DEF Update, UpdateFile, store
    <3>3. CASE Here.store # "file"
      BY <1>1, <1>5, <3>1, <3>3 DEF Update, UpdateRow
    <3> QED
      BY <3>2, <3>3
  <2>3. s = o.sid
    BY <1>2, <1>3, <2>2
  <2>4. "NEW" \notin o.status
    BY <1>2, <2>3 DEF Dated
  <2>5. o.removed
    BY <1>2, <2>1, <2>2, <2>4 DEF Handled
  <2> QED
    BY <1>1, <2>3, <2>5 DEF BroughtBack
<1>6. CASE Insert(p)
  <2>1. o.status = {"NEW"} /\ dir' = [dir EXCEPT ![o.sid] = o.visit]
    BY <1>1, <1>6 DEF Insert
  <2>2. o.sid # s
    BY <1>2, <2>1 DEF Dated
  <2> QED
    BY <1>2, <1>3, <2>1, <2>2
<1> QED
  BY <1>4, <1>5, <1>6 DEF Save

LEMMA OpenBringsNothing ==
  ASSUME IInv, NEW p \in Procs, Open(p), NEW s \in known \ loose, dir[s] = 0
  PROVE  dir'[s] = 0
<1>1. obj[p].at = "open" /\ \E f : dir' = [dir EXCEPT ![obj[p].sid] = f]
  BY DEF Open
<1>2. s \in Sids /\ dir \in [Sids -> 0 .. MaxVisits]
  BY Before DEF TypeOK
<1>3. s # obj[p].sid
  BY <1>1 DEF IInv, Opened
<1> QED
  BY <1>1, <1>2, <1>3

LEMMA OnlySaveStores ==
  ASSUME [Next]_vars, \A p \in Procs : ~Save(p) /\ ~Open(p)
  PROVE  dir' = dir
<1>1. ASSUME NEW p \in Procs, Program(p) PROVE dir' = dir
  BY <1>1 DEF Program, TieNew, Tie, Change, Clear, Delete, Untie, store
<1>2. ASSUME NEW p \in Procs, Goes(p) PROVE dir' = dir
  BY <1>2 DEF Goes, Ask, Get, Restore, SqlFails, Close, Unlock, Free, store
<1>3. ASSUME NEW p \in Procs, Die(p) PROVE dir' = dir
  BY <1>3 DEF Die, store
<1>4. ASSUME NEW s \in Sids, Clean(s) PROVE dir' = dir
  BY <1>4 DEF Clean, store
<1>5. ASSUME UNCHANGED vars PROVE dir' = dir
  BY <1>5 DEF vars, store
<1> QED
  BY <1>1, <1>2, <1>3, <1>4, <1>5 DEF Next

-----------------------------------------------------------------------------
(***************************************************************************)
(* No process waits for ever for a session: not for a lock it holds        *)
(* itself, since both lock managers give up the read lock before they wait *)
(* for the write lock (Lock/File.pm and Lock/Semaphore.pm,                 *)
(* acquire_write_lock), nor in a circle with others.  Only units that were *)
(* leaked, when an exception ended a DESTROY, keep others waiting.         *)
(***************************************************************************)
THEOREM ApacheNobodyStuck == Spec => []NobodyStuck
<1>1. IInv => NobodyStuck
  BY NotStuck
<1> QED
  BY <1>1, ApacheInvariant, PTL

(***************************************************************************)
(* With the classes that let go of their locks after their handles were    *)
(* closed, or whose store has none (Apache::Session::File, and Flex with a *)
(* database), who has the lock and restores a stored session finds all of  *)
(* it, unless its writer was killed or its lock file removed.              *)
(***************************************************************************)
THEOREM ApacheReadsWhole == "FlexFile" \notin Classes => (Spec => []ReadsWhole)
<1> SUFFICES ASSUME "FlexFile" \notin Classes PROVE Spec => []ReadsWhole
  OBVIOUS
<1>1. IInv => ReadsWhole
  BY HereCloses, FindsWhole DEF IInv
<1> QED
  BY <1>1, ApacheInvariant, PTL

(***************************************************************************)
(* With these classes, and Transaction in every tie, no change to a        *)
(* session that a process let go of is missing from what is stored, unless *)
(* clean removed a lock file of it that was open, or the hash of a session *)
(* that is a row had been cleared (CLEAR drops _session_id, without which  *)
(* the UPDATE of Store/DBI.pm finds no row).                               *)
(***************************************************************************)
THEOREM ApacheTransactionsKept == "FlexFile" \notin Classes => (Spec => []TransactionsKept)
<1> SUFFICES ASSUME "FlexFile" \notin Classes PROVE Spec => []TransactionsKept
  OBVIOUS
<1>1. IInv => TransactionsKept
  BY HereCloses, NoneLost DEF IInv
<1> QED
  BY <1>1, ApacheInvariant, PTL

(***************************************************************************)
(* A session that was deleted is stored again only by the object that      *)
(* removed it: every other object of that session has the file open that   *)
(* was unlinked, and prints to it, or updates a row that is not there.  A  *)
(* restore that has found the file still finds it when it opens it, since  *)
(* it has the lock, unless clean removed the lock file it has open.        *)
(***************************************************************************)
THEOREM ApacheDeletedStaysDeleted == Spec => DeletedStaysDeleted
<1> DEFINE Step == \A s \in known \ loose : (dir[s] = 0 /\ dir'[s] # 0) => BroughtBack(s)
<1>1. IInv /\ [Next]_vars => Step
  <2> SUFFICES ASSUME IInv, [Next]_vars, NEW s \in known \ loose, dir[s] = 0, dir'[s] # 0
               PROVE  BroughtBack(s)
    OBVIOUS
  <2>1. PICK p \in Procs : Save(p) \/ Open(p)
    BY OnlySaveStores
  <2>2. ~Open(p)
    BY OpenBringsNothing
  <2> QED
    BY <2>1, <2>2, SaveBringsBack
<1>2. Step => \A s \in known \ loose : (dir[s] = 0 /\ dir'[s] # 0) =>
                 \E p \in Procs : obj[p].sid = s /\ obj[p].removed
  BY DEF BroughtBack
<1> HIDE DEF Step
<1>3. IInv /\ [Next]_vars =>
        [\A s \in known \ loose : (dir[s] = 0 /\ dir'[s] # 0) =>
            \E p \in Procs : obj[p].sid = s /\ obj[p].removed]_vars
  BY <1>1, <1>2
<1> QED
  BY <1>3, ApacheInvariant, PTL DEF Spec, DeletedStaysDeleted
=============================================================================
