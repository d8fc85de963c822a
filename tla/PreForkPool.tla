---------------------------- MODULE PreForkPool ----------------------------
(***************************************************************************)
(* Net::Server::PreFork (with PreForkSimple, Server and SIG): a parent     *)
(* that keeps a pool of processes, its children, which accept connections  *)
(* and report what they do through a pipe.                                 *)
(*                                                                         *)
(* One pass of the parent's loop is two steps: Hear or TimeOut, up to      *)
(* coordinate_children, and Coordinate.  A child's step ends where it      *)
(* writes to the pipe or changes what SIGHUP does to it.  A clock is not   *)
(* modelled: whether an interval is over is open at each test.             *)
(***************************************************************************)
EXTENDS Integers, Sequences, FiniteSets, FiniteSetsExt

CONSTANTS
  Pids,
  MinServers, MaxServers,     \* min_servers, max_servers
  MinSpare, MaxSpare,         \* min_spare_servers, max_spare_servers
  LeaveChildren,              \* the values leave_children_open_on_hup may have
  Faults,                     \* "crash": children die; "accept": accept fails
  PipeSize,                   \* lines the pipe holds
  MaxRestarts                 \* bound on SIGHUPs to the parent

\* What post_configure checks.  It does not compare min_servers with
\* max_servers.
ASSUME LimitsAssumption ==
  /\ MinServers \in Nat /\ MaxServers \in Nat
  /\ MinSpare \in 0 .. MinServers
  /\ MaxSpare \in MinSpare .. MaxServers - 1
  /\ PipeSize \in Nat \ {0} /\ MaxRestarts \in Nat
  /\ LeaveChildren \subseteq BOOLEAN
  /\ IsFiniteSet(Pids)

VARIABLES
  proc,       \* the processes: [at, hup, old] for each pid
  children,   \* the parent's table: the status of each pid, "none" if unknown
  left,       \* the entries with hup => 1, taken over from HUP_CHILDREN
  tally,      \* how many children have each status
  due,        \* tally.time is 0: the next coordinate_children counts again
  reaped,     \* reaped_children
  pipe,       \* lines in the pipe
  buffer,     \* lines the parent's handle has read from it in advance
  chld,       \* a SIGCHLD was caught and its handler has not run yet
  parent,     \* where the parent is
  restarts    \* SIGHUPs so far

table == <<children, left, tally, due>>
lines == <<pipe, buffer>>
vars == <<proc, table, reaped, lines, chld, parent, restarts>>

Statuses == {"waiting", "processing"}
Words == {"waiting", "processing", "exiting"}

(***************************************************************************)
(* What a process can be doing.  "young" and "deaf" have just been forked  *)
(* and still have the parent's signal handlers: perl's own at start-up,    *)
(* later those of register_sig, which only set a flag nobody looks at in   *)
(* a child.  "taken" is between accept and $prop->{connected} = 1,         *)
(* "ending" between the test of done and connected = 0, "said" between     *)
(* "exiting" and exit.  "zombie" is dead and not waited for, and the       *)
(* parent caught the SIGCHLD; "unheard" died before register_sig or was    *)
(* dead at the exec, and the SIGCHLD is lost.                              *)
(***************************************************************************)
Unconnected == {"idle", "taken"}
Connected == {"serving", "ending"}
Serving == {"young", "deaf"} \cup Unconnected \cup Connected
Alive == Serving \cup {"said"}
Dead == {"zombie", "unheard"}
Places == Alive \cup Dead \cup {"none"}

NoProcess == [at |-> "none", hup |-> FALSE, old |-> FALSE]
Zombie == [NoProcess EXCEPT !.at = "zombie"]
Unheard == [NoProcess EXCEPT !.at = "unheard"]

TypeOK ==
  /\ proc \in [Pids -> [at : Places, hup : BOOLEAN, old : BOOLEAN]]
  /\ children \in [Pids -> Statuses \cup {"none"}]
  /\ left \subseteq {p \in Pids : children[p] # "none"}
  /\ tally \in [Statuses -> Nat]
  /\ due \in BOOLEAN /\ chld \in BOOLEAN
  /\ reaped \subseteq Pids
  /\ \A q \in {pipe, buffer} :
        q \in Seq([pid : Pids, status : Words]) /\ Len(q) <= PipeSize
  /\ parent \in {"start", "forked", "select", "coordinate"}
  /\ restarts \in 0 .. MaxRestarts

Init ==
  /\ proc = [p \in Pids |-> NoProcess]
  /\ children = [p \in Pids |-> "none"]
  /\ left = {}
  /\ tally = [w \in Statuses |-> 0]
  /\ due = FALSE
  /\ reaped = {}
  /\ pipe = <<>> /\ buffer = <<>>
  /\ chld = FALSE
  /\ parent = "start"
  /\ restarts = 0

-----------------------------------------------------------------------------
(***************************************************************************)
(* The parent's handlers work on a record [proc, children, left, tally,    *)
(* due, chld]; each is an operator to the record, or to the set of         *)
(* records, it may leave.                                                  *)
(***************************************************************************)
Here == [proc |-> proc, children |-> children, left |-> left,
         tally |-> tally, due |-> due, chld |-> chld]

Leaves(s) ==
  /\ proc' = s.proc
  /\ children' = s.children
  /\ left' = s.left
  /\ tally' = s.tally
  /\ due' = s.due
  /\ chld' = s.chld

Count(c) == [w \in Statuses |-> Cardinality({p \in Pids : c[p] = w})]

\* delete_child for each known pid of S
delete_children(s, S) ==
  LET K == {p \in S : s.children[p] # "none"}
  IN  [s EXCEPT
        !.children = [p \in Pids |-> IF p \in K THEN "none" ELSE @[p]],
        !.tally = [w \in Statuses |->
                     @[w] - Cardinality({p \in K : s.children[p] = w})],
        !.due = @ \/ K \cap s.left # {},
        !.left = @ \ K]

\* Pids the system may give to a new process.  It takes them in turn: none
\* comes back while a line, or the table, still has it.
Fresh(s) ==
  {p \in Pids : /\ s.proc[p].at = "none"
                /\ s.children[p] = "none"
                /\ \A q \in {pipe, buffer} : \A i \in DOMAIN q : q[i].pid # p}

Forked(s, S, place) ==
  [s EXCEPT
    !.proc = [p \in Pids |-> IF p \in S THEN [NoProcess EXCEPT !.at = place] ELSE @[p]],
    !.children = [p \in Pids |-> IF p \in S THEN "waiting" ELSE @[p]]]

\* A wrong variant: the new children are not counted.
run_n_children_uncounted(s, n, place) ==
  {Forked(s, S, place) : S \in kSubset(IF n > 0 THEN n ELSE 0, Fresh(s))}

\* run_n_children
run_n_children(s, n, place) ==
  {[Forked(s, S, place) EXCEPT !.tally["waiting"] = @ + Cardinality(S)] :
     S \in kSubset(IF n > 0 THEN n ELSE 0, Fresh(s))}

\* What SIGHUP does to a process
Hup(r) ==
  CASE r.at \in {"young"} \cup Unconnected -> Zombie
    [] r.at \in Connected -> [r EXCEPT !.hup = TRUE]
    [] OTHER -> r

\* What SIGTERM does to a process
Term(r) ==
  IF r.at \in (Serving \ {"deaf"}) \cup {"said"} THEN Zombie ELSE r

\* The processes are now as in new; the parent is told of deaths.
Now(s, new) ==
  [s EXCEPT !.proc = new,
            !.chld = @ \/ \E p \in Pids : new[p].at = "zombie" /\ s.proc[p].at # "zombie"]

\* A wrong variant: the child is taken out of the table when it is killed.
kill_n_children_forgets(s, n) ==
  LET waiting   == {p \in Pids : s.children[p] = "waiting"}
      hupped(S) == [p \in Pids |-> IF p \in S THEN Hup(s.proc[p]) ELSE s.proc[p]]
  IN  IF n <= 0 THEN {s}
      ELSE {delete_children(Now(s, hupped(S)), S) :
              S \in kSubset(Min({n, Cardinality(waiting)}), waiting)}

\* kill_n_children, when the last kill is long enough ago
kill_n_children(s, n) ==
  LET waiting   == {p \in Pids : s.children[p] = "waiting"}
      hupped(S) == [p \in Pids |-> IF p \in S THEN Hup(s.proc[p]) ELSE s.proc[p]]
  IN  IF n <= 0 THEN {s}
      ELSE {delete_children(Now(s, hupped(S)), {p \in S : s.proc[p].at = "none"}) :
              S \in kSubset(Min({n, Cardinality(waiting)}), waiting)}

-----------------------------------------------------------------------------
(***************************************************************************)
(* coordinate_children, in the order of the code.  total is computed once, *)
(* before children are started and killed.  check_for_dequeue is not set.  *)
(***************************************************************************)
total(s) == s.tally["waiting"] + s.tally["processing"]

Retallied(s) == [s EXCEPT !.tally = Count(s.children), !.due = FALSE]

\* A wrong variant: one more than max_servers
missing_beyond(s) ==
  IF total(s) < MinServers THEN MinServers - total(s)
  ELSE IF s.tally["waiting"] < MinSpare /\ total(s) <= MaxServers
       THEN Min({MinSpare - s.tally["waiting"], MaxServers + 1 - total(s)})
       ELSE 0

\* How many children to start
missing(s) ==
  IF total(s) < MinServers THEN MinServers - total(s)
  ELSE IF s.tally["waiting"] < MinSpare /\ total(s) < MaxServers
       THEN Min({MinSpare - s.tally["waiting"], MaxServers - total(s)})
       ELSE 0

\* How many waiting children to kill, at the periodic check ...
surplus(s, all) ==
  IF s.tally["waiting"] > MaxSpare /\ all > MinServers
  THEN Min({s.tally["waiting"] - MaxSpare, all - MinServers})
  ELSE IF all > MaxServers THEN all - MaxServers ELSE 0

\* ... and when there has been no request for a while
idle(s, all) ==
  IF s.tally["waiting"] > MinSpare
  THEN Min({s.tally["waiting"] - MinSpare, all - MinServers}) ELSE 0

\* check_for_dead: kill(0, $pid) fails for a pid that does not exist
Swept(s) == delete_children(s, {p \in Pids : s.proc[p].at = "none"})

\* Of the two kills the second finds the first too recent.
Trimmed(s, all, dead) ==
  LET Found(r) == IF dead THEN Swept(r) ELSE r
  IN  {Found(r) : r \in kill_n_children(s, surplus(s, all))}
      \cup kill_n_children(Found(s), idle(Found(s), all))
      \cup {Found(s)}

\* dead: check_for_dead seconds are over
Coordinate(dead) ==
  /\ parent = "coordinate"
  /\ LET s == delete_children(Here, reaped)
     IN  \E t \in {Retallied(s)} \cup (IF s.due THEN {} ELSE {s}) :
         \E r \in run_n_children(t, missing(t), "deaf") :
         \E k \in Trimmed(r, total(t), dead) : Leaves(k)
  /\ reaped' = {}
  /\ parent' = "select"
  /\ UNCHANGED <<lines, restarts>>

-----------------------------------------------------------------------------
(***************************************************************************)
(* run_parent: one pass up to coordinate_children                          *)
(***************************************************************************)
Zombies == {p \in Pids : proc[p].at \in Dead}

\* A wrong variant: the handler waits for one child only.
waited_for_one == IF chld /\ Zombies # {} THEN {CHOOSE p \in Zombies : TRUE} ELSE {}

\* check_sigs, and the CHLD handler's loop on waitpid
waited_for == IF chld THEN Zombies ELSE {}

check_sigs ==
  [Here EXCEPT !.proc = [p \in Pids |-> IF p \in waited_for THEN NoProcess ELSE @[p]],
               !.chld = FALSE]

\* A wrong variant: the tally of the status the child was in is kept.
heard_adds(s, line) ==
  IF s.children[line.pid] = "none" THEN s
  ELSE IF line.status = "exiting" THEN delete_children(s, {line.pid})
  ELSE [s EXCEPT !.tally[line.status] = @ + 1,
                 !.children[line.pid] = line.status]

\* A line of a child in the table
heard(s, line) ==
  IF s.children[line.pid] = "none" THEN s
  ELSE IF line.status = "exiting" THEN delete_children(s, {line.pid})
  ELSE [s EXCEPT
         !.tally = [w \in Statuses |->
                      @[w] - (IF w = s.children[line.pid] THEN 1 ELSE 0)
                           + (IF w = line.status THEN 1 ELSE 0)],
         !.children[line.pid] = line.status]

\* select finds the pipe readable.  <$fh> takes a line from the handle's
\* buffer, and fills that with all the pipe has when it is empty.
Hear ==
  /\ parent = "select"
  /\ pipe # <<>>
  /\ LET q == IF buffer = <<>> THEN pipe ELSE buffer
     IN  /\ Leaves(heard(check_sigs, Head(q)))
         /\ buffer' = Tail(q)
         /\ pipe' = IF buffer = <<>> THEN <<>> ELSE pipe
  /\ reaped' = reaped \cup waited_for
  /\ parent' = "coordinate"
  /\ UNCHANGED restarts

\* select returns without a handle: a signal, or check_for_waiting seconds
TimeOut ==
  /\ parent = "select"
  /\ Leaves(check_sigs)
  /\ reaped' = reaped \cup waited_for
  /\ parent' = "coordinate"
  /\ UNCHANGED <<lines, restarts>>

(***************************************************************************)
(* SIGHUP: sig_hup, server_close and exec.  The children write to a pipe   *)
(* nobody reads.  hup_children signals those that are left, close_children *)
(* ends them and waits for those that are dead by then (Gone).  A SIGCHLD   *)
(* that has not been handled is forgotten.                                 *)
(***************************************************************************)
Restart ==
  /\ parent = "select"
  /\ restarts < MaxRestarts
  /\ \E leave \in LeaveChildren :
     LET s      == check_sigs
         known  == {p \in Pids : children[p] # "none"}
         killed == [p \in Pids |-> IF p \notin known THEN s.proc[p]
                                   ELSE IF leave THEN Hup(s.proc[p])
                                   ELSE Term(s.proc[p])]
         dead(f) == {p \in Pids : f[p].at \in Dead}
     IN  \E Gone \in SUBSET dead(killed) :
           /\ leave => Gone = {}
           /\ ~ leave /\ known # {} => dead(s.proc) \subseteq Gone
           /\ proc' = [p \in Pids |->
                         IF p \in Gone THEN NoProcess
                         ELSE IF p \in dead(killed) THEN Unheard
                         ELSE [killed[p] EXCEPT !.old = killed[p].at \in Alive]]
           /\ children' = IF leave THEN children ELSE [p \in Pids |-> "none"]
           /\ left' = IF leave THEN known ELSE {}
  /\ due' = FALSE /\ chld' = FALSE /\ reaped' = {}
  /\ tally' = [w \in Statuses |-> 0]
  /\ pipe' = <<>> /\ buffer' = <<>>
  /\ parent' = "start"
  /\ restarts' = restarts + 1

\* loop: the first children
Start ==
  /\ parent = "start"
  /\ \E s \in run_n_children([Here EXCEPT !.tally = Count(children)], MinServers, "young") :
        Leaves(s)
  /\ parent' = "forked"
  /\ UNCHANGED <<reaped, lines, restarts>>

\* run_parent, up to register_sig
Register ==
  /\ parent = "forked"
  /\ parent' = "select"
  /\ UNCHANGED <<proc, table, reaped, lines, chld, restarts>>

-----------------------------------------------------------------------------
(***************************************************************************)
(* run_child                                                               *)
(***************************************************************************)
Goes(p, place) ==
  /\ proc' = [proc EXCEPT ![p].at = place]
  /\ UNCHANGED <<table, reaped, buffer, chld, parent, restarts>>

\* The parent catches SIGCHLD from register_sig on.
Dies(p) ==
  /\ LET told == parent \notin {"start", "forked"}
     IN  /\ proc' = [proc EXCEPT ![p] = IF told THEN Zombie ELSE Unheard]
         /\ chld' = (chld \/ told)
  /\ UNCHANGED <<table, reaped, lines, parent, restarts>>

Prints(p, status) ==
  IF proc[p].old THEN UNCHANGED pipe
  ELSE /\ Len(pipe) < PipeSize
       /\ pipe' = Append(pipe, [pid |-> p, status |-> status])

SetHandlers(p) ==
  /\ proc[p].at \in {"young", "deaf"}
  /\ Goes(p, "idle")
  /\ UNCHANGED pipe

Accept(p) ==
  /\ proc[p].at = "idle"
  /\ Goes(p, "taken")
  /\ UNCHANGED pipe

\* accept gave up
AcceptFails(p) ==
  /\ "accept" \in Faults
  /\ proc[p].at = "idle"
  /\ Prints(p, "exiting")
  /\ Goes(p, "said")

SayProcessing(p) ==
  /\ proc[p].at = "taken"
  /\ Prints(p, "processing")
  /\ Goes(p, "serving")

\* The request is over, and done says no.
Finish(p) ==
  /\ proc[p].at = "serving"
  /\ ~ proc[p].hup
  /\ Goes(p, "ending")
  /\ UNCHANGED pipe

\* The request died, or done says yes: a SIGHUP, or max_requests
Leave(p) ==
  /\ proc[p].at = "serving"
  /\ Prints(p, "exiting")
  /\ Goes(p, "said")

SayWaiting(p) ==
  /\ proc[p].at = "ending"
  /\ Prints(p, "waiting")
  /\ Goes(p, "idle")

\* exit
Exit(p) ==
  /\ proc[p].at = "said"
  /\ Dies(p)

Crash(p) ==
  /\ "crash" \in Faults
  /\ proc[p].at \in Serving
  /\ Dies(p)

Next ==
  \/ Start \/ Register \/ Hear \/ TimeOut \/ Restart
  \/ \E dead \in BOOLEAN : Coordinate(dead)
  \/ \E p \in Pids :
       \/ SetHandlers(p) \/ Accept(p) \/ AcceptFails(p)
       \/ SayProcessing(p) \/ Finish(p) \/ Leave(p)
       \/ SayWaiting(p) \/ Exit(p) \/ Crash(p)

Spec == Init /\ [][Next]_vars

-----------------------------------------------------------------------------
\* tally is kept beside children through forks, deaths, status lines and
\* restarts; the numbers of processes started and killed come from it.
TallyExact ==
  parent # "start" =>
    \A w \in Statuses : tally[w] = Count(children)[w]

\* The lines the parent has not read yet, in their order
Unread == buffer \o pipe

\* What the parent will believe of p when it has read all its lines: the last
\* one, or the table if there is none
Believed(p, status) ==
  LET own == {i \in DOMAIN Unread : Unread[i].pid = p}
  IN  \/ own = {} /\ children[p] = status
      \/ \E i \in own : Unread[i].status = status /\ \A j \in own : j <= i

Told(at) ==
  CASE at \in {"young", "deaf", "idle", "taken"} -> "waiting"
    [] at \in {"serving", "ending"} -> "processing"
    [] at = "said" -> "exiting"

\* However late its lines are read, every server the parent has started is
\* in its table and the lines not yet read end in what the server does; one
\* that has said "exiting" may be out of the table.
BeliefTrue ==
  \A p \in Pids :
    /\ ~ proc[p].old
    /\ proc[p].at \in Serving \/ (proc[p].at = "said" /\ children[p] # "none")
    => children[p] # "none" /\ Believed(p, Told(proc[p].at))

\* Forks decided from the table never take the servers that can accept a
\* connection above max_servers, or above min_servers if that is larger,
\* whatever is still in the pipe.
WithinMax ==
  Cardinality({p \in Pids : proc[p].at \in Serving /\ ~ proc[p].old})
    <= IF MinServers > MaxServers THEN MinServers ELSE MaxServers

\* No death the parent was told of is lost: an entry whose process is a zombie
\* has a SIGCHLD to come, and one whose process is gone is in reaped_children
\* or was taken over at a restart, which forgets reaped_children.  Who died
\* before register_sig is found at the next SIGCHLD.
DeathsKept ==
  \A p \in Pids : children[p] # "none" =>
    /\ proc[p].at = "zombie" => chld
    /\ proc[p].at = "none" => p \in reaped \cup left

=============================================================================
