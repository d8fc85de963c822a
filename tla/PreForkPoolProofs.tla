------------------------- MODULE PreForkPoolProofs -------------------------
(***************************************************************************)
(* The parent of Net::Server::PreFork keeps its tally and forgets no death *)
(* it was told of, for any finite set of pids, any limits that             *)
(* post_configure lets pass and any number of restarts.                    *)
(***************************************************************************)
EXTENDS PreForkPool, FiniteSetTheorems, TLAPS

-----------------------------------------------------------------------------
(* The inductive invariant *)

IInv == TypeOK /\ TallyExact /\ DeathsKept

(***************************************************************************)
(* The same of the record the parent's handlers work on, with the pids R   *)
(* in reaped_children.                                                     *)
(***************************************************************************)
Table == [Pids -> Statuses \cup {"none"}]
Processes == [Pids -> [at : Places, hup : BOOLEAN, old : BOOLEAN]]
States == [proc : Processes, children : Table, left : SUBSET Pids,
           tally : [Statuses -> Int], due : BOOLEAN, chld : BOOLEAN]

With(c, w) == {p \in Pids : c[p] = w}

When(v, w, n) == IF v = w THEN n ELSE 0

Sound(s) == s \in States /\ \A p \in s.left : s.children[p] # "none"

Exact(s) ==
  \A w \in {"waiting", "processing"} : s.tally[w] = Cardinality(With(s.children, w))

Kept(s, R) ==
  \A p \in Pids : s.children[p] # "none" =>
    /\ s.proc[p].at = "zombie" => s.chld
    /\ s.proc[p].at = "none" => p \in R \cup s.left

Good(s, R) == Sound(s) /\ Exact(s) /\ Kept(s, R)

-----------------------------------------------------------------------------
(* Counting the entries of the table *)

\* Subsets of Pids can be counted.
LEMMA Finite ==
  ASSUME NEW S \in SUBSET Pids
  PROVE  IsFiniteSet(S) /\ Cardinality(S) \in Nat
BY LimitsAssumption, FS_Subset, FS_CardinalityType

\* Entries that are taken out count no more.
LEMMA RemovedCount ==
  ASSUME NEW c \in Table, NEW K \in SUBSET Pids, NEW w \in Statuses
  PROVE  Cardinality(With([p \in Pids |-> IF p \in K THEN "none" ELSE c[p]], w))
           = Cardinality(With(c, w)) - Cardinality({p \in K : c[p] = w})
<1> DEFINE d == [p \in Pids |-> IF p \in K THEN "none" ELSE c[p]]
<1>1. w # "none"
  BY DEF Statuses
<1>2. With(d, w) = With(c, w) \ K
  BY <1>1 DEF With
<1>3. With(c, w) \cap K = {p \in K : c[p] = w}
  BY DEF With
<1>4. IsFiniteSet(With(c, w))
  BY Finite DEF With
<1> QED
  BY <1>2, <1>3, <1>4, FS_Difference

\* New entries count with the status they are given.
LEMMA ForkedCount ==
  ASSUME NEW c \in Table, NEW S \in SUBSET Pids, \A p \in S : c[p] = "none",
         NEW v \in Statuses, NEW w \in Statuses
  PROVE  Cardinality(With([p \in Pids |-> IF p \in S THEN v ELSE c[p]], w))
           = Cardinality(With(c, w)) + When(v, w, Cardinality(S))
<1> DEFINE d == [p \in Pids |-> IF p \in S THEN v ELSE c[p]]
<1>1. w # "none"
  BY DEF Statuses
<1>2. IsFiniteSet(With(c, w)) /\ Cardinality(With(c, w)) \in Nat
  BY Finite DEF With
<1>3. CASE v # w
  <2>1. With(d, w) = With(c, w)
    BY <1>1, <1>3 DEF With
  <2> QED
    BY <2>1, <1>2, <1>3 DEF When
<1>4. CASE v = w
  <2>1. With(d, w) = With(c, w) \cup S /\ With(c, w) \cap S = {}
    BY <1>1, <1>4 DEF With
  <2>2. IsFiniteSet(S) /\ Cardinality(S) \in Nat
    BY Finite
  <2>3. Cardinality(With(d, w)) = Cardinality(With(c, w)) + Cardinality(S) - 0
    BY <2>1, <2>2, <1>2, FS_Union, FS_EmptySet
  <2> QED
    BY <2>2, <2>3, <1>2, <1>4 DEF When
<1> QED
  BY <1>3, <1>4

\* An entry that changes its status counts with the new one instead of the old.
LEMMA HeardCount ==
  ASSUME NEW c \in Table, NEW p \in Pids, c[p] # "none",
         NEW v \in Statuses, NEW w \in Statuses
  PROVE  Cardinality(With([c EXCEPT ![p] = v], w))
           = Cardinality(With(c, w)) - When(w, c[p], 1) + When(w, v, 1)
<1> DEFINE d == [c EXCEPT ![p] = v]
<1>1. IsFiniteSet(With(c, w)) /\ Cardinality(With(c, w)) \in Nat
  BY Finite DEF With
<1>2. w # "none"
  BY DEF Statuses
<1>3. d \in Table /\ d[p] = v /\ \A q \in Pids : q # p => d[q] = c[q]
  BY DEF Table
<1>4. CASE w = v
  <2>1. With(d, w) = With(c, w) \cup {p} /\ (p \in With(c, w) <=> w = c[p])
    BY <1>3, <1>4 DEF With
  <2>2. Cardinality(With(c, w) \cup {p})
          = IF p \in With(c, w) THEN Cardinality(With(c, w)) ELSE Cardinality(With(c, w)) + 1
    BY <1>1, FS_AddElement
  <2>3. When(w, v, 1) = 1 /\ When(w, c[p], 1) = IF p \in With(c, w) THEN 1 ELSE 0
    BY <2>1, <1>4 DEF When
  <2>4. Cardinality(With(d, w)) = Cardinality(With(c, w)) - When(w, c[p], 1) + When(w, v, 1)
    <3> HIDE DEF d
    <3>1. CASE p \in With(c, w)
      BY <3>1, <2>1, <2>2, <2>3, <1>1
    <3>2. CASE p \notin With(c, w)
      BY <3>2, <2>1, <2>2, <2>3, <1>1
    <3> QED
      BY <3>1, <3>2
  <2> QED
    BY <2>4
<1>5. CASE w # v
  <2>1. With(d, w) = With(c, w) \ {p} /\ (p \in With(c, w) <=> w = c[p])
    BY <1>3, <1>5 DEF With
  <2>2. Cardinality(With(c, w) \ {p})
          = IF p \in With(c, w) THEN Cardinality(With(c, w)) - 1 ELSE Cardinality(With(c, w))
    BY <1>1, FS_RemoveElement
  <2>3. When(w, v, 1) = 0 /\ When(w, c[p], 1) = IF p \in With(c, w) THEN 1 ELSE 0
    BY <2>1, <1>5 DEF When
  <2>4. Cardinality(With(d, w)) = Cardinality(With(c, w)) - When(w, c[p], 1) + When(w, v, 1)
    <3> HIDE DEF d
    <3>1. CASE p \in With(c, w)
      BY <3>1, <2>1, <2>2, <2>3, <1>1
    <3>2. CASE p \notin With(c, w)
      BY <3>2, <2>1, <2>2, <2>3, <1>1
    <3> QED
      BY <3>1, <3>2
  <2> QED
    BY <2>4
<1> QED
  BY <1>4, <1>5

-----------------------------------------------------------------------------
(* The handlers *)

\* What is deleted was found dead or not: what was reaped and is deleted need
\* not be remembered.
LEMMA DeleteGood ==
  ASSUME NEW s, NEW R, NEW S \in SUBSET Pids, Good(s, R)
  PROVE  Good(delete_children(s, S), R \ S)
<1> DEFINE K == {p \in S : s.children[p] # "none"}
           c == s.children
           d == [p \in Pids |-> IF p \in K THEN "none" ELSE c[p]]
           n(w) == Cardinality({p \in K : c[p] = w})
           t == [w \in Statuses |-> s.tally[w] - n(w)]
           r == delete_children(s, S)
<1>1. s \in States /\ c \in Table
  BY DEF Good, Sound, States
<1>2. r = [s EXCEPT !.children = d, !.tally = t,
                    !.due = s.due \/ K \cap s.left # {}, !.left = s.left \ K]
  BY <1>1 DEF delete_children, States
<1>3. /\ r.proc = s.proc /\ r.chld = s.chld
      /\ r.children = d /\ r.tally = t /\ r.left = s.left \ K
  BY <1>1, <1>2 DEF States
<1>4. \A w \in Statuses : n(w) \in Nat
  BY Finite
<1>5. t \in [Statuses -> Int] /\ d \in Table
  BY <1>1, <1>4 DEF States, Table
<1>6. Sound(r)
  <2>1. PICK u : u = (s.due \/ K \cap s.left # {})
    OBVIOUS
  <2>2. PICK l : l = s.left \ K
    OBVIOUS
  <2>3. u \in BOOLEAN /\ l \in SUBSET Pids
    BY <1>1, <2>1, <2>2 DEF States
  <2>4. r = [s EXCEPT !.children = d, !.tally = t, !.due = u, !.left = l]
    BY <1>2, <2>1, <2>2
  <2>5. r \in States
    <3> HIDE DEF r, d, t
    <3> QED
      BY <1>1, <1>5, <2>3, <2>4 DEF States
  <2> QED
    BY <2>5, <1>1, <1>3 DEF Good, Sound, States
<1>7. Exact(r)
  <2> SUFFICES ASSUME NEW w \in {"waiting", "processing"}
               PROVE  r.tally[w] = Cardinality(With(d, w))
    BY <1>3 DEF Exact
  <2>1. w \in Statuses
    BY DEF Statuses
  <2>2. Cardinality(With(d, w)) = Cardinality(With(c, w)) - n(w)
    BY <1>1, <2>1, RemovedCount
  <2>3. s.tally[w] = Cardinality(With(c, w))
    BY DEF Good, Exact
  <2> QED
    BY <2>1, <2>2, <2>3, <1>3
<1>8. Kept(r, R \ S)
  BY <1>3 DEF Good, Kept
<1> QED
  BY <1>6, <1>7, <1>8 DEF Good

\* What holds of the record with the new processes S
ForkedFacts(s, R, S, place) ==
  LET r == Forked(s, S, place)
  IN  /\ Sound(r) /\ Kept(r, R) /\ S \in SUBSET Pids /\ r.tally = s.tally
      /\ \A w \in Statuses :
           Cardinality(With(r.children, w))
             = Cardinality(With(s.children, w)) + When("waiting", w, Cardinality(S))

\* New processes with pids nobody has: the entries are right, the count is the
\* caller's.
LEMMA ForkedGood ==
  ASSUME NEW s, NEW R, NEW S \in SUBSET Fresh(s), Good(s, R),
         NEW place \in Alive
  PROVE  ForkedFacts(s, R, S, place)
<1> DEFINE v == "waiting"
           c == s.children
           new == [NoProcess EXCEPT !.at = place]
           f == [p \in Pids |-> IF p \in S THEN new ELSE s.proc[p]]
           d == [p \in Pids |-> IF p \in S THEN v ELSE c[p]]
           r == Forked(s, S, place)
<1>0. v \in Statuses
  BY DEF Statuses
<1>1. s \in States /\ c \in Table /\ s.proc \in Processes
  BY DEF Good, Sound, States
<1>2. S \in SUBSET Pids /\ \A p \in S : c[p] = "none"
  BY DEF Fresh
<1>3. r = [s EXCEPT !.proc = f, !.children = d]
  BY <1>1 DEF Forked, States
<1>4. /\ r.proc = f /\ r.children = d
      /\ r.tally = s.tally /\ r.left = s.left /\ r.chld = s.chld
  BY <1>1, <1>3 DEF States
<1>5. new \in [at : Places, hup : BOOLEAN, old : BOOLEAN] /\ new.at = place
  BY DEF NoProcess, Places
<1>6. f \in Processes /\ d \in Table
  BY <1>0, <1>1, <1>5 DEF Processes, Table
<1>7. r \in States
  BY <1>1, <1>3, <1>6 DEF States
<1>8. v # "none" /\ place \notin Dead \cup {"none"}
  BY DEF Statuses, Alive, Dead, Serving, Unconnected, Connected
<1>9. Sound(r)
  BY <1>1, <1>2, <1>4, <1>7 DEF Good, Sound, States
<1>10. Kept(r, R)
  BY <1>4, <1>5, <1>8 DEF Good, Kept, Dead
<1>11. \A w \in Statuses :
         Cardinality(With(d, w)) = Cardinality(With(c, w)) + When(v, w, Cardinality(S))
  BY <1>0, <1>1, <1>2, ForkedCount
<1> QED
  BY <1>2, <1>4, <1>9, <1>10, <1>11 DEF ForkedFacts

\* run_n_children counts the servers it starts.
LEMMA RunGood ==
  ASSUME NEW s, NEW R, NEW n, NEW place \in Alive, Good(s, R),
         NEW r \in run_n_children(s, n, place)
  PROVE  Good(r, R)
<1>1. PICK S \in SUBSET Fresh(s) :
        r = [Forked(s, S, place) EXCEPT !.tally["waiting"] = @ + Cardinality(S)]
  BY DEF run_n_children, kSubset
<1> DEFINE f == Forked(s, S, place)
<1>2. "waiting" \in Statuses
  BY DEF Statuses
<1>3. /\ Sound(f) /\ Kept(f, R) /\ S \in SUBSET Pids /\ f.tally = s.tally
      /\ \A w \in Statuses :
           Cardinality(With(f.children, w))
             = Cardinality(With(s.children, w)) + When("waiting", w, Cardinality(S))
  BY <1>2, ForkedGood DEF ForkedFacts
<1>4. f \in States /\ f.tally \in [Statuses -> Int] /\ Cardinality(S) \in Nat
  BY <1>3, Finite DEF Sound, States
<1> HIDE DEF f
<1>5. r = [f EXCEPT !.tally = [f.tally EXCEPT !["waiting"] = f.tally["waiting"] + Cardinality(S)]]
  BY <1>1, <1>4 DEF f, States
<1>6. [f.tally EXCEPT !["waiting"] = f.tally["waiting"] + Cardinality(S)] \in [Statuses -> Int]
  BY <1>2, <1>4
<1>7. /\ r \in States /\ r.proc = f.proc /\ r.children = f.children
      /\ r.left = f.left /\ r.chld = f.chld
      /\ r.tally = [f.tally EXCEPT !["waiting"] = f.tally["waiting"] + Cardinality(S)]
  BY <1>4, <1>5, <1>6 DEF States
<1>8. Exact(r)
  <2> SUFFICES ASSUME NEW w \in {"waiting", "processing"}
               PROVE  r.tally[w] = Cardinality(With(r.children, w))
    BY DEF Exact
  <2>1. w \in Statuses
    BY DEF Statuses
  <2>2. s.tally[w] = Cardinality(With(s.children, w))
    BY DEF Good, Exact
  <2>3. r.tally[w] = s.tally[w] + When("waiting", w, Cardinality(S))
    BY <1>3, <1>4, <1>7, <2>1 DEF When
  <2> QED
    BY <1>3, <1>7, <2>1, <2>2, <2>3
<1>9. Sound(r) /\ Kept(r, R)
  BY <1>3, <1>7 DEF Sound, Kept
<1> QED
  BY <1>8, <1>9 DEF Good

\* A re-tally counts the table.
LEMMA RetalliedGood ==
  ASSUME NEW s, NEW R, Sound(s), Kept(s, R)
  PROVE  Good(Retallied(s), R)
<1> DEFINE c == s.children
           r == Retallied(s)
<1>1. s \in States
  BY DEF Sound
<1>2. Count(c) \in [Statuses -> Int] /\ \A w \in Statuses : Count(c)[w] = Cardinality(With(c, w))
  BY Finite DEF Count, With
<1>3. r = [s EXCEPT !.tally = Count(c), !.due = FALSE]
  BY DEF Retallied
<1>4. /\ r \in States /\ r.proc = s.proc /\ r.children = c /\ r.left = s.left
      /\ r.chld = s.chld /\ r.tally = Count(c)
  BY <1>1, <1>2, <1>3 DEF States
<1>5. Exact(r)
  BY <1>2, <1>4 DEF Exact, Statuses
<1>6. Sound(r) /\ Kept(r, R)
  BY <1>4 DEF Sound, Kept
<1> QED
  BY <1>5, <1>6 DEF Good

\* Signals: where a process dies of one, the parent is told.
LEMMA NowGood ==
  ASSUME NEW s, NEW R, Good(s, R), NEW f \in Processes,
         \A p \in Pids : f[p].at = "none" <=> s.proc[p].at = "none"
  PROVE  Good(Now(s, f), R)
<1> DEFINE told == s.chld \/ \E p \in Pids : f[p].at = "zombie" /\ s.proc[p].at # "zombie"
           r == Now(s, f)
<1>1. s \in States
  BY DEF Good, Sound
<1>2. r = [s EXCEPT !.proc = f, !.chld = told] /\ told \in BOOLEAN
  BY <1>1 DEF Now, States
<1>3. /\ r \in States /\ r.proc = f /\ r.children = s.children /\ r.left = s.left
      /\ r.tally = s.tally /\ r.chld = told
  BY <1>1, <1>2 DEF States
<1>4. Sound(r) /\ Exact(r)
  BY <1>3 DEF Good, Sound, Exact
<1>5. told \in BOOLEAN /\ (s.chld => told)
      /\ \A p \in Pids : f[p].at = "zombie" => s.proc[p].at = "zombie" \/ told
  BY <1>1 DEF States
<1> HIDE DEF told, r
<1>6. Kept(r, R)
  BY <1>3, <1>5 DEF Good, Kept
<1> QED
  BY <1>4, <1>6 DEF Good, r

\* SIGHUP kills or marks; a process that is gone stays so.
LEMMA HupType ==
  ASSUME NEW r \in [at : Places, hup : BOOLEAN, old : BOOLEAN]
  PROVE  /\ Hup(r) \in [at : Places, hup : BOOLEAN, old : BOOLEAN]
         /\ Hup(r).at = "none" <=> r.at = "none"
BY DEF Hup, Zombie, NoProcess, Places, Alive, Dead, Serving, Unconnected, Connected

\* kill_n_children keeps the entry and the count of whom it kills.
LEMMA KillGood ==
  ASSUME NEW s, NEW R, Good(s, R), NEW n,
         NEW k \in kill_n_children(s, n)
  PROVE  Good(k, R)
<1> DEFINE h(S) == [p \in Pids |-> IF p \in S THEN Hup(s.proc[p]) ELSE s.proc[p]]
           G(S) == {p \in S : s.proc[p].at = "none"}
           W == {p \in Pids : s.children[p] = "waiting"}
<1>1. CASE k = s
  BY <1>1
<1>2. CASE k # s
  <2>1. PICK S \in SUBSET W : k = delete_children(Now(s, h(S)), G(S))
    BY <1>2 DEF kill_n_children, kSubset
  <2>2. s.proc \in Processes /\ G(S) \in SUBSET Pids
    BY DEF Good, Sound, States
  <2>3. h(S) \in Processes /\ \A p \in Pids : h(S)[p].at = "none" <=> s.proc[p].at = "none"
    BY <2>2, HupType DEF Processes
  <2>4. Good(Now(s, h(S)), R)
    BY <2>3, NowGood
  <2>5. Good(k, R \ G(S))
    BY <2>1, <2>2, <2>4, DeleteGood
  <2> QED
    BY <2>5 DEF Good, Kept
<1> QED
  BY <1>1, <1>2

\* check_for_dead
LEMMA SweptGood ==
  ASSUME NEW s, NEW R, Good(s, R)
  PROVE  Good(Swept(s), R)
<1> DEFINE S == {p \in Pids : s.proc[p].at = "none"}
<1>1. Good(delete_children(s, S), R \ S)
  BY DeleteGood
<1> QED
  BY <1>1 DEF Swept, Good, Kept

\* The kills and the sweep
LEMMA TrimmedGood ==
  ASSUME NEW s, NEW R, Good(s, R), NEW all, NEW dead \in BOOLEAN,
         NEW k \in Trimmed(s, all, dead)
  PROVE  Good(k, R)
<1> DEFINE D(r) == IF dead THEN Swept(r) ELSE r
<1>1. ASSUME NEW r, Good(r, R) PROVE Good(D(r), R)
  BY <1>1, SweptGood
<1>2. CASE \E r \in kill_n_children(s, surplus(s, all)) : k = D(r)
  <2>1. PICK r \in kill_n_children(s, surplus(s, all)) : k = D(r)
    BY <1>2
  <2>2. Good(r, R)
    BY KillGood
  <2> QED
    BY <1>1, <2>1, <2>2
<1>3. CASE k \in kill_n_children(D(s), idle(D(s), all))
  <2>1. Good(D(s), R)
    BY <1>1
  <2> QED
    BY <1>3, <2>1, KillGood
<1>4. CASE k = D(s)
  BY <1>1, <1>4
<1> QED
  BY <1>2, <1>3, <1>4 DEF Trimmed

\* A line of a child
LEMMA HeardGood ==
  ASSUME NEW s, NEW R, Good(s, R), NEW line \in [pid : Pids, status : Words]
  PROVE  Good(heard(s, line), R)
<1> DEFINE c == s.children
           p == line.pid
           v == line.status
           t == [w \in Statuses |-> s.tally[w] - (IF w = c[p] THEN 1 ELSE 0)
                                               + (IF w = v THEN 1 ELSE 0)]
           d == [c EXCEPT ![p] = v]
           r == heard(s, line)
<1>1. s \in States /\ c \in Table /\ p \in Pids /\ v \in Words
  BY DEF Good, Sound, States
<1>2. CASE c[p] = "none"
  BY <1>2 DEF heard
<1>3. CASE c[p] # "none" /\ v = "exiting"
  <2>1. r = delete_children(s, {p})
    BY <1>3 DEF heard
  <2>2. Good(r, R \ {p})
    BY <1>1, <2>1, DeleteGood
  <2> QED
    BY <2>2 DEF Good, Kept
<1>4. CASE c[p] # "none" /\ v # "exiting"
  <2>1. v \in Statuses /\ v # "none"
    BY <1>1, <1>4 DEF Words, Statuses
  <2>2. r = [s EXCEPT !.tally = t, !.children = d]
    BY <1>1, <1>4 DEF heard, States
  <2>3. t \in [Statuses -> Int] /\ d \in Table
    BY <1>1, <2>1 DEF States, Table
  <2>4. /\ r \in States /\ r.proc = s.proc /\ r.children = d /\ r.left = s.left
        /\ r.chld = s.chld /\ r.tally = t
    BY <1>1, <2>2, <2>3 DEF States
  <2>5. \A q \in Pids : d[q] # "none" <=> c[q] # "none"
    BY <1>1, <1>4, <2>1 DEF Table
  <2>6. Sound(r) /\ Kept(r, R)
    BY <1>1, <2>4, <2>5 DEF Good, Sound, Kept, States
  <2>7. Exact(r)
    <3> SUFFICES ASSUME NEW w \in {"waiting", "processing"}
                 PROVE  r.tally[w] = Cardinality(With(d, w))
      BY <2>4 DEF Exact
    <3>1. w \in Statuses
      BY DEF Statuses
    <3>2. s.tally[w] = Cardinality(With(c, w))
      BY DEF Good, Exact
    <3>3. Cardinality(With(d, w))
            = Cardinality(With(c, w)) - When(w, c[p], 1) + When(w, v, 1)
      BY <1>1, <1>4, <2>1, <3>1, HeardCount
    <3>4. r.tally[w] = s.tally[w] - When(w, c[p], 1) + When(w, v, 1)
      BY <2>4, <3>1 DEF When
    <3> QED
      BY <3>2, <3>3, <3>4
  <2> QED
    BY <2>6, <2>7 DEF Good
<1> QED
  BY <1>2, <1>3, <1>4

-----------------------------------------------------------------------------
(* From the record to the state and back *)

\* The state the handlers start from
LEMMA HereGood ==
  ASSUME IInv
  PROVE  /\ Sound(Here) /\ Kept(Here, reaped)
         /\ parent # "start" => Good(Here, reaped)
<1>1. Here \in States
  BY DEF IInv, TypeOK, Here, States, Table, Processes
<1>2. /\ Here.proc = proc /\ Here.children = children /\ Here.left = left
      /\ Here.tally = tally /\ Here.chld = chld
  BY DEF Here
<1>3. Sound(Here)
  BY <1>1, <1>2 DEF Sound, IInv, TypeOK
<1>4. parent # "start" => Exact(Here)
  BY <1>2 DEF Exact, IInv, TallyExact, Count, With, Statuses
<1>5. Kept(Here, reaped)
  BY <1>2 DEF Kept, IInv, DeathsKept
<1> QED
  BY <1>3, <1>4, <1>5 DEF Good

\* The state they leave
LEMMA LeavesGood ==
  ASSUME NEW s, NEW R \in SUBSET Pids, Good(s, R), Leaves(s), reaped' = R,
         parent' \in {"forked", "select", "coordinate"}, restarts' \in 0 .. MaxRestarts,
         NEW P \in Seq([pid : Pids, status : Words]), Len(P) <= PipeSize, pipe' = P,
         NEW B \in Seq([pid : Pids, status : Words]), Len(B) <= PipeSize, buffer' = B
  PROVE  IInv'
<1>1. /\ s \in States /\ proc' = s.proc /\ children' = s.children /\ left' = s.left
      /\ tally' = s.tally /\ due' = s.due /\ chld' = s.chld
  BY DEF Good, Sound, Leaves
<1>2. \A w \in {"waiting", "processing"} : s.tally[w] = Cardinality(With(s.children, w))
  BY DEF Good, Exact
<1>3. \A w \in {"waiting", "processing"} : s.tally[w] >= 0
  <2>1. \A w : Cardinality(With(s.children, w)) \in Nat
    BY Finite DEF With
  <2> QED
    BY <1>2, <2>1
<1>4. TypeOK'
  <2>1. /\ proc' \in [Pids -> [at : Places, hup : BOOLEAN, old : BOOLEAN]]
        /\ children' \in [Pids -> Statuses \cup {"none"}]
        /\ left' \subseteq {p \in Pids : children'[p] # "none"}
        /\ tally' \in [Statuses -> Int]
        /\ due' \in BOOLEAN /\ chld' \in BOOLEAN
    BY <1>1 DEF Good, Sound, States, Table, Processes
  <2>2. tally' \in [Statuses -> Nat]
    BY <1>1, <1>3, <2>1 DEF Statuses
  <2> QED
    BY <2>1, <2>2 DEF TypeOK
<1>5. TallyExact'
  BY <1>1, <1>2 DEF TallyExact, Count, With, Statuses
<1>6. DeathsKept'
  BY <1>1 DEF DeathsKept, Good, Kept
<1> QED
  BY <1>4, <1>5, <1>6 DEF IInv

\* The pipe and the handle's buffer
LEMMA QueueType ==
  ASSUME IInv
  PROVE  /\ pipe \in Seq([pid : Pids, status : Words]) /\ Len(pipe) <= PipeSize
         /\ buffer \in Seq([pid : Pids, status : Words]) /\ Len(buffer) <= PipeSize
BY DEF IInv, TypeOK

\* The CHLD handler remembers every process it waits for.
LEMMA SigsGood ==
  ASSUME IInv, parent = "select"
  PROVE  /\ Good(check_sigs, reaped \cup waited_for)
         /\ reaped \cup waited_for \in SUBSET Pids
<1> DEFINE f == [p \in Pids |-> IF p \in waited_for THEN NoProcess ELSE proc[p]]
<1>1. Good(Here, reaped) /\ Here \in States /\ Here.proc = proc /\ Here.chld = chld
  BY HereGood DEF Sound, Here
<1>2. waited_for \in SUBSET Pids /\ reaped \in SUBSET Pids
  BY DEF waited_for, Zombies, IInv, TypeOK
<1>3. NoProcess \in [at : Places, hup : BOOLEAN, old : BOOLEAN] /\ NoProcess.at = "none"
  BY DEF NoProcess, Places
<1>4. f \in Processes
  BY <1>1, <1>3 DEF Processes, States
<1>5. check_sigs = [Here EXCEPT !.proc = f, !.chld = FALSE]
  BY DEF check_sigs, Here
<1>6. /\ check_sigs \in States /\ check_sigs.proc = f /\ check_sigs.chld = FALSE
      /\ check_sigs.children = Here.children /\ check_sigs.left = Here.left
      /\ check_sigs.tally = Here.tally
  BY <1>1, <1>4, <1>5 DEF States
<1>7. Sound(check_sigs) /\ Exact(check_sigs)
  BY <1>1, <1>6 DEF Good, Sound, Exact
<1>8. Kept(check_sigs, reaped \cup waited_for)
  <2> SUFFICES ASSUME NEW p \in Pids, Here.children[p] # "none"
               PROVE  /\ f[p].at # "zombie"
                      /\ f[p].at = "none" => p \in (reaped \cup waited_for) \cup Here.left
    BY <1>6 DEF Kept
  <2>1. /\ proc[p].at = "zombie" => chld
        /\ proc[p].at = "none" => p \in reaped \cup Here.left
    BY <1>1 DEF Good, Kept
  <2> QED
    BY <1>3, <2>1 DEF waited_for, Zombies, Dead
<1> QED
  BY <1>2, <1>7, <1>8 DEF Good

-----------------------------------------------------------------------------
(* The parent's steps *)

\* The initial state has no entries.
LEMMA InitIInv ==
  ASSUME Init
  PROVE  IInv
<1>1. TypeOK
  <2>1. NoProcess \in [at : Places, hup : BOOLEAN, old : BOOLEAN]
    BY DEF NoProcess, Places
  <2>2. pipe \in Seq([pid : Pids, status : Words]) /\ Len(pipe) <= PipeSize
    BY LimitsAssumption DEF Init
  <2>3. buffer \in Seq([pid : Pids, status : Words]) /\ Len(buffer) <= PipeSize
    BY LimitsAssumption DEF Init
  <2>4. restarts \in 0 .. MaxRestarts
    BY LimitsAssumption DEF Init
  <2>5. tally \in [Statuses -> Nat]
    BY DEF Init
  <2> QED
    BY <2>1, <2>2, <2>3, <2>4, <2>5 DEF Init, TypeOK
<1>2. TallyExact /\ DeathsKept
  BY DEF Init, TallyExact, DeathsKept
<1> QED
  BY <1>1, <1>2 DEF IInv

\* Start re-tallies what was taken over and counts the servers it starts.
LEMMA StartStep ==
  ASSUME IInv, Start
  PROVE  IInv'
<1> DEFINE h == [Here EXCEPT !.tally = Count(children)]
<1>1. /\ Sound(Here) /\ Kept(Here, reaped) /\ Here \in States
      /\ Here.children = children
  BY HereGood DEF Sound, Here
<1>2. Count(children) \in [Statuses -> Int]
      /\ \A w \in Statuses : Count(children)[w] = Cardinality(With(children, w))
  BY Finite DEF Count, With
<1>3. /\ h \in States /\ h.proc = Here.proc /\ h.children = children
      /\ h.left = Here.left /\ h.chld = Here.chld /\ h.tally = Count(children)
  BY <1>1, <1>2 DEF States
<1>4. Sound(h) /\ Kept(h, reaped)
  BY <1>1, <1>3 DEF Sound, Kept
<1>5. Exact(h)
  BY <1>2, <1>3 DEF Exact, Statuses
<1>6. Good(h, reaped)
  BY <1>4, <1>5 DEF Good
<1>7. PICK s \in run_n_children(h, MinServers, "young") : Leaves(s)
  BY DEF Start
<1>8. "young" \in Alive
  BY DEF Alive, Serving
<1>9. Good(s, reaped)
  BY <1>6, <1>7, <1>8, RunGood
<1>10. reaped \in SUBSET Pids /\ restarts \in 0 .. MaxRestarts
  BY DEF IInv, TypeOK
<1>11. reaped' = reaped /\ pipe' = pipe /\ buffer' = buffer /\ restarts' = restarts
       /\ parent' = "forked"
  BY DEF Start, lines
<1> HIDE DEF h
<1> QED
  BY <1>7, <1>9, <1>10, <1>11, QueueType, LeavesGood

\* From register_sig on deaths are told; the table stays.
LEMMA RegisterStep ==
  ASSUME IInv, Register
  PROVE  IInv'
BY DEF IInv, Register, TypeOK, TallyExact, DeathsKept, Count, table, lines

\* A line is taken from the buffer, or from the pipe.
LEMMA HearStep ==
  ASSUME IInv, Hear
  PROVE  IInv'
<1> DEFINE q == IF buffer = <<>> THEN pipe ELSE buffer
           P == IF buffer = <<>> THEN <<>> ELSE pipe
           R == reaped \cup waited_for
           L == [pid : Pids, status : Words]
<1>1. q \in Seq(L) /\ q # <<>> /\ Len(q) <= PipeSize
  BY QueueType DEF Hear
<1>2. Head(q) \in L /\ Tail(q) \in Seq(L) /\ Len(Tail(q)) <= PipeSize
  <2> HIDE DEF q, L
  <2>1. Head(q) \in L /\ Tail(q) \in Seq(L) /\ Len(Tail(q)) = Len(q) - 1 /\ Len(q) \in Nat
    BY <1>1
  <2> QED
    BY <1>1, <2>1, LimitsAssumption
<1>3. P \in Seq(L) /\ Len(P) <= PipeSize
  BY QueueType, LimitsAssumption
<1>4. Good(check_sigs, R) /\ R \in SUBSET Pids
  BY SigsGood DEF Hear
<1>5. Good(heard(check_sigs, Head(q)), R)
  BY <1>2, <1>4, HeardGood
<1>6. /\ Leaves(heard(check_sigs, Head(q))) /\ buffer' = Tail(q) /\ pipe' = P
      /\ reaped' = R /\ parent' = "coordinate" /\ restarts' = restarts
  BY DEF Hear
<1>7. restarts \in 0 .. MaxRestarts
  BY DEF IInv, TypeOK
<1> HIDE DEF q, P, R
<1> QED
  BY <1>2, <1>3, <1>4, <1>5, <1>6, <1>7, LeavesGood

\* A pass without a line
LEMMA TimeOutStep ==
  ASSUME IInv, TimeOut
  PROVE  IInv'
<1> DEFINE R == reaped \cup waited_for
<1>1. Good(check_sigs, R) /\ R \in SUBSET Pids
  BY SigsGood DEF TimeOut
<1>2. /\ Leaves(check_sigs) /\ reaped' = R /\ parent' = "coordinate"
      /\ pipe' = pipe /\ buffer' = buffer /\ restarts' = restarts
  BY DEF TimeOut, lines
<1>3. restarts \in 0 .. MaxRestarts
  BY DEF IInv, TypeOK
<1> HIDE DEF R
<1> QED
  BY <1>1, <1>2, <1>3, QueueType, LeavesGood

\* coordinate_children forgets reaped_children only when their entries are out.
LEMMA CoordinateStep ==
  ASSUME IInv, NEW dead \in BOOLEAN, Coordinate(dead)
  PROVE  IInv'
<1> DEFINE s == delete_children(Here, reaped)
<1>1. reaped \in SUBSET Pids /\ restarts \in 0 .. MaxRestarts
  BY DEF IInv, TypeOK
<1>2. parent = "coordinate"
  BY DEF Coordinate
<1>3. Good(Here, reaped)
  BY <1>2, HereGood
<1>4. Good(s, reaped \ reaped)
  BY <1>1, <1>3, DeleteGood
<1>5. Good(s, {})
  BY <1>4 DEF Good, Kept
<1> HIDE DEF s
<1>6. PICK t \in {Retallied(s)} \cup (IF s.due THEN {} ELSE {s}) :
        \E r \in run_n_children(t, missing(t), "deaf") :
        \E k \in Trimmed(r, total(t), dead) : Leaves(k)
  BY DEF Coordinate, s
<1>7. PICK r \in run_n_children(t, missing(t), "deaf") :
        \E k \in Trimmed(r, total(t), dead) : Leaves(k)
  BY <1>6
<1>8. PICK k \in Trimmed(r, total(t), dead) : Leaves(k)
  BY <1>7
<1>10. Good(t, {})
  <2>1. t = s \/ t = Retallied(s)
    BY <1>6
  <2> QED
    BY <2>1, <1>5, RetalliedGood DEF Good
<1>11. "deaf" \in Alive
  BY DEF Alive, Serving
<1>12. Good(r, {})
  BY <1>7, <1>10, <1>11, RunGood
<1>13. Good(k, {})
  BY <1>2, <1>8, <1>12, TrimmedGood
<1>14. /\ reaped' = {} /\ parent' = "select" /\ pipe' = pipe /\ buffer' = buffer
       /\ restarts' = restarts
  BY DEF Coordinate, lines
<1> QED
  BY <1>1, <1>8, <1>13, <1>14, QueueType, LeavesGood

\* After a restart all that is in the table was taken over.
LEMMA RestartStep ==
  ASSUME IInv, Restart
  PROVE  IInv'
<1> DEFINE Process == [at : Places, hup : BOOLEAN, old : BOOLEAN]
           known == {p \in Pids : children[p] # "none"}
           f == check_sigs.proc
           dead(g) == {p \in Pids : g[p].at \in Dead}
           killed(leave) == [p \in Pids |-> IF p \notin known THEN f[p]
                                            ELSE IF leave THEN Hup(f[p]) ELSE Term(f[p])]
<1>1. PICK leave \in LeaveChildren : \E Gone \in SUBSET dead(killed(leave)) :
        /\ proc' = [p \in Pids |->
                      IF p \in Gone THEN NoProcess
                      ELSE IF p \in dead(killed(leave)) THEN Unheard
                      ELSE [killed(leave)[p] EXCEPT !.old = killed(leave)[p].at \in Alive]]
        /\ children' = IF leave THEN children ELSE [p \in Pids |-> "none"]
        /\ left' = IF leave THEN known ELSE {}
  BY DEF Restart
<1> DEFINE K == killed(leave)
<1>2. PICK Gone \in SUBSET dead(K) :
        proc' = [p \in Pids |->
                   IF p \in Gone THEN NoProcess
                   ELSE IF p \in dead(K) THEN Unheard
                   ELSE [K[p] EXCEPT !.old = K[p].at \in Alive]]
  BY <1>1
<1>3. f \in Processes
  BY SigsGood DEF Restart, Good, Sound, States
<1>4. NoProcess \in Process /\ Zombie \in Process /\ Unheard \in Process
  BY DEF NoProcess, Zombie, Unheard, Places, Dead
<1>5. ASSUME NEW r \in Process PROVE Hup(r) \in Process /\ Term(r) \in Process
  BY <1>4, HupType DEF Term
<1>6. \A p \in Pids : K[p] \in Process
  BY <1>3, <1>5 DEF Processes
<1> HIDE DEF K
<1>7. \A p \in Pids : [K[p] EXCEPT !.old = K[p].at \in Alive] \in Process
  <2> TAKE p \in Pids
  <2>1. (K[p].at \in Alive) \in BOOLEAN
    OBVIOUS
  <2> QED
    BY <1>6, <2>1
<1>8. proc' \in Processes
  BY <1>2, <1>4, <1>7 DEF Processes
<1>9. children' \in Table /\ left' = {p \in Pids : children'[p] # "none"}
  <2>1. children \in Table /\ leave \in BOOLEAN
    BY LimitsAssumption DEF IInv, TypeOK, Table
  <2> QED
    BY <1>1, <2>1 DEF Table
<1>10. /\ due' = FALSE /\ chld' = FALSE /\ reaped' = {} /\ pipe' = <<>> /\ buffer' = <<>>
       /\ tally' = [w \in Statuses |-> 0] /\ parent' = "start"
       /\ restarts' = restarts + 1 /\ restarts < MaxRestarts
  BY DEF Restart
<1>11. TypeOK'
  <2>1. pipe' \in Seq([pid : Pids, status : Words]) /\ Len(pipe') <= PipeSize
    BY <1>10, LimitsAssumption
  <2>2. buffer' \in Seq([pid : Pids, status : Words]) /\ Len(buffer') <= PipeSize
    BY <1>10, LimitsAssumption
  <2>3. tally' \in [Statuses -> Nat]
    BY <1>10
  <2>4. restarts' \in 0 .. MaxRestarts
    BY <1>10, LimitsAssumption DEF IInv, TypeOK
  <2> QED
    BY <1>8, <1>9, <1>10, <2>1, <2>2, <2>3, <2>4 DEF TypeOK, Processes, Table
<1>12. \A p \in Pids : proc'[p].at # "zombie"
  BY <1>2, <1>6 DEF NoProcess, Unheard, Dead
<1>13. TallyExact' /\ DeathsKept'
  BY <1>9, <1>10, <1>12 DEF TallyExact, DeathsKept
<1> QED
  BY <1>11, <1>13 DEF IInv

-----------------------------------------------------------------------------
(* The children's steps *)

\* A child that goes on changes neither the table nor the deaths.
LEMMA GoesStep ==
  ASSUME IInv, NEW p \in Pids, NEW place \in Alive, proc[p].at \in Alive,
         Goes(p, place), pipe' = pipe \/ \E w \in Words : Prints(p, w)
  PROVE  IInv'
<1>1. proc' = [proc EXCEPT ![p].at = place] /\ UNCHANGED <<table, reaped, buffer, chld, parent, restarts>>
  BY DEF Goes
<1>2. /\ proc' \in [Pids -> [at : Places, hup : BOOLEAN, old : BOOLEAN]]
      /\ \A u \in Pids : proc'[u].at # proc[u].at => proc'[u].at \in Alive
  BY <1>1 DEF IInv, TypeOK, Places
<1>3. \A u \in Pids : /\ proc'[u].at = "zombie" => proc[u].at = "zombie"
                      /\ proc'[u].at = "none" => proc[u].at = "none"
  BY <1>2 DEF Alive, Serving, Unconnected, Connected
<1>4. pipe' \in Seq([pid : Pids, status : Words]) /\ Len(pipe') <= PipeSize
  <2>1. CASE pipe' = pipe
    BY <2>1, QueueType
  <2>2. CASE \E w \in Words : Prints(p, w)
    <3>1. PICK w \in Words : Prints(p, w)
      BY <2>2
    <3>2. CASE pipe' = pipe
      BY <3>2, QueueType
    <3>3. CASE Len(pipe) < PipeSize /\ pipe' = Append(pipe, [pid |-> p, status |-> w])
      BY <3>3, QueueType, LimitsAssumption
    <3> QED
      BY <3>1, <3>2, <3>3 DEF Prints
  <2> QED
    BY <2>1, <2>2
<1>5. TypeOK'
  <2>1. buffer' \in Seq([pid : Pids, status : Words]) /\ Len(buffer') <= PipeSize
    BY <1>1, QueueType
  <2>2. /\ children' = children /\ left' = left /\ tally' = tally /\ due' = due
        /\ reaped' = reaped /\ chld' = chld /\ parent' = parent /\ restarts' = restarts
    BY <1>1 DEF table
  <2>3. TypeOK
    BY DEF IInv
  <2>4. /\ children' \in [Pids -> Statuses \cup {"none"}]
        /\ left' \subseteq {u \in Pids : children'[u] # "none"}
        /\ tally' \in [Statuses -> Nat]
        /\ due' \in BOOLEAN /\ chld' \in BOOLEAN /\ reaped' \subseteq Pids
        /\ parent' \in {"start", "forked", "select", "coordinate"} /\ restarts' \in 0 .. MaxRestarts
    BY <2>2, <2>3 DEF TypeOK
  <2> QED
    BY <1>2, <1>4, <2>1, <2>4 DEF TypeOK
<1>6. TallyExact'
  BY <1>1 DEF IInv, TallyExact, Count, table
<1>7. DeathsKept'
  <2> SUFFICES ASSUME NEW u \in Pids, children[u] # "none"
               PROVE  /\ proc'[u].at = "zombie" => chld
                      /\ proc'[u].at = "none" => u \in reaped \cup left
    BY <1>1 DEF DeathsKept, table
  <2>1. /\ proc[u].at = "zombie" => chld
        /\ proc[u].at = "none" => u \in reaped \cup left
    BY DEF IInv, DeathsKept
  <2> QED
    BY <1>3, <2>1
<1> QED
  BY <1>5, <1>6, <1>7 DEF IInv

\* A child that dies becomes a zombie, and the parent is told if it listens.
LEMMA DiesStep ==
  ASSUME IInv, NEW p \in Pids, Dies(p)
  PROVE  IInv'
<1> DEFINE told == parent \notin {"start", "forked"}
<1>1. PICK z : z = IF told THEN Zombie ELSE Unheard
  OBVIOUS
<1>2. /\ proc' = [proc EXCEPT ![p] = z] /\ chld' = (chld \/ told)
      /\ children' = children /\ left' = left /\ tally' = tally /\ due' = due
      /\ reaped' = reaped /\ pipe' = pipe /\ buffer' = buffer
      /\ parent' = parent /\ restarts' = restarts
  BY <1>1 DEF Dies, table, lines
<1>3. /\ z \in [at : Places, hup : BOOLEAN, old : BOOLEAN]
      /\ z.at # "none" /\ (z.at = "zombie" => told)
  BY <1>1 DEF Zombie, Unheard, NoProcess, Places, Dead
<1>4. TypeOK'
  <2>1. proc' \in [Pids -> [at : Places, hup : BOOLEAN, old : BOOLEAN]] /\ chld' \in BOOLEAN
    BY <1>2, <1>3 DEF IInv, TypeOK
  <2> QED
    BY <1>2, <2>1 DEF IInv, TypeOK
<1>5. TallyExact'
  BY <1>2 DEF IInv, TallyExact, Count
<1>6. DeathsKept'
  <2> SUFFICES ASSUME NEW u \in Pids, children[u] # "none"
               PROVE  /\ proc'[u].at = "zombie" => chld'
                      /\ proc'[u].at = "none" => u \in reaped \cup left
    BY <1>2 DEF DeathsKept
  <2>1. /\ proc[u].at = "zombie" => chld
        /\ proc[u].at = "none" => u \in reaped \cup left
    BY DEF IInv, DeathsKept
  <2> QED
    BY <1>2, <1>3, <2>1 DEF IInv, TypeOK
<1> QED
  BY <1>4, <1>5, <1>6 DEF IInv

\* A step of a child
Child(p) ==
  \/ SetHandlers(p) \/ Accept(p) \/ AcceptFails(p)
  \/ SayProcessing(p) \/ Finish(p) \/ Leave(p)
  \/ SayWaiting(p) \/ Exit(p) \/ Crash(p)

LEMMA ChildStep ==
  ASSUME IInv, NEW p \in Pids, Child(p)
  PROVE  IInv'
<1> USE DEF Alive, Serving, Unconnected, Connected, Words
<1>1. CASE SetHandlers(p)
  <2>1. Goes(p, "idle") /\ proc[p].at \in Alive /\ "idle" \in Alive /\ pipe' = pipe
    BY <1>1 DEF SetHandlers
  <2> QED
    BY <2>1, GoesStep
<1>2. CASE Accept(p)
  <2>1. Goes(p, "taken") /\ proc[p].at \in Alive /\ "taken" \in Alive /\ pipe' = pipe
    BY <1>2 DEF Accept
  <2> QED
    BY <2>1, GoesStep
<1>3. CASE AcceptFails(p)
  <2>1. Goes(p, "said") /\ proc[p].at \in Alive /\ "said" \in Alive /\ Prints(p, "exiting")
    BY <1>3 DEF AcceptFails
  <2> QED
    BY <2>1, GoesStep
<1>4. CASE SayProcessing(p)
  <2>1. Goes(p, "serving") /\ proc[p].at \in Alive /\ "serving" \in Alive /\ Prints(p, "processing")
    BY <1>4 DEF SayProcessing
  <2> QED
    BY <2>1, GoesStep
<1>5. CASE Finish(p)
  <2>1. Goes(p, "ending") /\ proc[p].at \in Alive /\ "ending" \in Alive /\ pipe' = pipe
    BY <1>5 DEF Finish
  <2> QED
    BY <2>1, GoesStep
<1>6. CASE Leave(p)
  <2>1. Goes(p, "said") /\ proc[p].at \in Alive /\ "said" \in Alive /\ Prints(p, "exiting")
    BY <1>6 DEF Leave
  <2> QED
    BY <2>1, GoesStep
<1>7. CASE SayWaiting(p)
  <2>1. Goes(p, "idle") /\ proc[p].at \in Alive /\ "idle" \in Alive /\ Prints(p, "waiting")
    BY <1>7 DEF SayWaiting
  <2> QED
    BY <2>1, GoesStep
<1>8. CASE Exit(p)
  BY <1>8, DiesStep DEF Exit
<1>9. CASE Crash(p)
  BY <1>9, DiesStep DEF Crash
<1> QED
  BY <1>1, <1>2, <1>3, <1>4, <1>5, <1>6, <1>7, <1>8, <1>9 DEF Child

\* A step that changes nothing
LEMMA StutterStep ==
  ASSUME IInv, UNCHANGED vars
  PROVE  IInv'
BY DEF IInv, TypeOK, TallyExact, DeathsKept, Count, vars, table, lines

-----------------------------------------------------------------------------
(* The theorems *)

\* The invariant is inductive.
THEOREM PoolInvariant == Spec => []IInv
<1>1. Init => IInv
  BY InitIInv
<1>2. IInv /\ [Next]_vars => IInv'
  <2> SUFFICES ASSUME IInv, [Next]_vars PROVE IInv'
    OBVIOUS
  <2>0. CASE Register
    BY <2>0, RegisterStep
  <2>1. CASE Start
    BY <2>1, StartStep
  <2>2. CASE Hear
    BY <2>2, HearStep
  <2>3. CASE TimeOut
    BY <2>3, TimeOutStep
  <2>4. CASE Restart
    BY <2>4, RestartStep
  <2>5. CASE \E dead \in BOOLEAN : Coordinate(dead)
    BY <2>5, CoordinateStep
  <2>6. CASE \E p \in Pids : Child(p)
    BY <2>6, ChildStep
  <2>7. CASE UNCHANGED vars
    BY <2>7, StutterStep
  <2> QED
    BY <2>0, <2>1, <2>2, <2>3, <2>4, <2>5, <2>6, <2>7 DEF Next, Child
<1> QED
  BY <1>1, <1>2, PTL DEF Spec

\* Every variable has its type; the tally of a status is never negative.
THEOREM PoolTypeOK == Spec => []TypeOK
<1>1. IInv => TypeOK
  BY DEF IInv
<1> QED
  BY <1>1, PoolInvariant, PTL

\* The tally is the count of the table whenever the parent looks at it.
THEOREM PoolTallyExact == Spec => []TallyExact
<1>1. IInv => TallyExact
  BY DEF IInv
<1> QED
  BY <1>1, PoolInvariant, PTL

\* An entry whose process is a zombie the parent was told of has a SIGCHLD to
\* come; one whose process is gone was reaped, or taken over at a restart.
THEOREM PoolDeathsKept == Spec => []DeathsKept
<1>1. IInv => DeathsKept
  BY DEF IInv
<1> QED
  BY <1>1, PoolInvariant, PTL

-----------------------------------------------------------------------------
(***************************************************************************)
(* What the parent believes of its servers, and how many there are.  Q is  *)
(* what is not read yet.                                                   *)
(***************************************************************************)
Lines == [pid : Pids, status : Words]

Own(Q, p) == {i \in 1..Len(Q) : Q[i].pid = p}

\* The last line of p says w; if there is none, v is w.
LastSays(Q, v, p, w) ==
  \/ Own(Q, p) = {} /\ v = w
  \/ \E i \in Own(Q, p) : Q[i].status = w /\ \A j \in Own(Q, p) : j <= i

\* The processes BeliefTrue is about
Answers(s, p) ==
  /\ ~s.proc[p].old
  /\ s.proc[p].at \in Serving \/ (s.proc[p].at = "said" /\ s.children[p] # "none")

\* The lines and the table tell what servers do.  Who has said that it exits
\* serves no more.
Fits(s, Q) ==
  /\ \A p \in Pids :
       Answers(s, p) =>
         s.children[p] # "none" /\ LastSays(Q, s.children[p], p, Told(s.proc[p].at))
  /\ \A i \in 1..Len(Q) : Q[i].status = "exiting" => s.proc[Q[i].pid].at \notin Serving

Busy(s) == {p \in Pids : s.proc[p].at \in Serving /\ ~s.proc[p].old}

\* The larger of the two limits: post_configure does not compare them.
MostServers == IF MinServers > MaxServers THEN MinServers ELSE MaxServers

LEMMA Most == MostServers \in Nat /\ MinServers <= MostServers /\ MaxServers <= MostServers
BY LimitsAssumption DEF MostServers

Fine(s, Q) == Fits(s, Q) /\ Cardinality(Busy(s)) <= MostServers

\* reaped_children is filled on the way to coordinate_children, which empties
\* it; a parent that starts has no servers of its own.
BeliefInv ==
  /\ Fine(Here, Unread)
  /\ \A p \in reaped : proc[p].at = "none"
  /\ parent # "coordinate" => reaped = {}
  /\ parent = "start" => Busy(Here) = {}

-----------------------------------------------------------------------------
(* Steps that start no process *)

\* Nobody is busier in t than in s, and who serves stays in the table.
Quieter(s, t) ==
  /\ \A p \in Pids : t.children[p] \in {s.children[p], "none"}
  /\ \A p \in Pids : t.proc[p].at \in Serving =>
       s.proc[p].at \in Serving /\ t.children[p] = s.children[p]
  /\ \A p \in Pids : t.proc[p].at \in Serving \cup {"said"} /\ ~t.proc[p].old =>
       t.proc[p].at = s.proc[p].at /\ ~s.proc[p].old

LEMMA QuieterFine ==
  ASSUME NEW s, NEW t, NEW Q \in Seq(Lines), Fine(s, Q), Quieter(s, t)
  PROVE  Fine(t, Q)
<1>1. Fits(s, Q) /\ Cardinality(Busy(s)) <= MostServers
  BY DEF Fine
<1>2. ASSUME NEW p \in Pids, Answers(t, p)
      PROVE  t.children[p] # "none" /\ LastSays(Q, t.children[p], p, Told(t.proc[p].at))
  <2>1. /\ t.children[p] = s.children[p] /\ t.proc[p].at = s.proc[p].at
        /\ Answers(s, p)
    BY <1>2 DEF Quieter, Answers
  <2> QED
    BY <1>1, <2>1 DEF Fits
<1>3. \A i \in 1..Len(Q) : Q[i].status = "exiting" => t.proc[Q[i].pid].at \notin Serving
  <2>1. \A i \in 1..Len(Q) : Q[i] \in Lines
    OBVIOUS
  <2>2. \A i \in 1..Len(Q) : Q[i].pid \in Pids
    BY <2>1 DEF Lines
  <2> QED
    BY <1>1, <2>2 DEF Fits, Quieter
<1>5. Busy(t) \subseteq Busy(s) /\ Busy(s) \in SUBSET Pids
  BY DEF Busy, Quieter
<1>6. Cardinality(Busy(t)) <= Cardinality(Busy(s))
      /\ Cardinality(Busy(t)) \in Nat /\ Cardinality(Busy(s)) \in Nat
  BY <1>5, Finite, FS_Subset
<1> QED
  BY <1>1, <1>2, <1>3, <1>6, Most DEF Fine, Fits

\* Entries are only taken out of processes that are gone.
LEMMA DeleteQuieter ==
  ASSUME NEW s, s \in States, NEW S \in SUBSET Pids,
         \A p \in S : s.proc[p].at \notin Serving
  PROVE  Quieter(s, delete_children(s, S)) /\ delete_children(s, S).proc = s.proc
<1> DEFINE K == {p \in S : s.children[p] # "none"}
           d == [p \in Pids |-> IF p \in K THEN "none" ELSE s.children[p]]
<1>0. PICK r : r = delete_children(s, S)
  OBVIOUS
<1>1. r.proc = s.proc /\ r.children = d
  BY <1>0 DEF delete_children, States
<1>2. \A p \in Pids : d[p] \in {s.children[p], "none"}
  OBVIOUS
<1>3. \A p \in Pids : s.proc[p].at \in Serving => d[p] = s.children[p]
  OBVIOUS
<1> HIDE DEF d
<1>4. Quieter(s, r)
  BY <1>1, <1>2, <1>3 DEF Quieter
<1> QED
  BY <1>0, <1>1, <1>4

\* A signal changes nothing in what a server that survives it does.
LEMMA HupQuiet ==
  ASSUME NEW r
  PROVE  /\ Hup(r).at \in Serving => r.at \in Serving
         /\ Hup(r).at \in Serving \cup {"said"} => Hup(r).at = r.at
         /\ Hup(r).at \in Serving \cup {"said"} /\ ~Hup(r).old => ~r.old
BY DEF Hup, Zombie, NoProcess, Serving, Unconnected, Connected

LEMMA KillQuieter ==
  ASSUME NEW s, s \in States, NEW n, NEW k \in kill_n_children(s, n)
  PROVE  Quieter(s, k)
<1> DEFINE h(S) == [p \in Pids |-> IF p \in S THEN Hup(s.proc[p]) ELSE s.proc[p]]
           G(S) == {p \in S : s.proc[p].at = "none"}
           W == {p \in Pids : s.children[p] = "waiting"}
<1>1. CASE k = s
  BY <1>1 DEF Quieter
<1>2. CASE k # s
  <2>1. PICK S \in SUBSET W : k = delete_children(Now(s, h(S)), G(S))
    BY <1>2 DEF kill_n_children, kSubset
  <2>2. PICK m : m = Now(s, h(S))
    OBVIOUS
  <2>3. S \in SUBSET Pids /\ h(S) \in Processes
    BY <2>1, HupType DEF States, Processes
  <2>4. m \in States /\ m.proc = h(S) /\ m.children = s.children
    BY <2>2, <2>3 DEF Now, States
  <2>5. \A p \in Pids : h(S)[p] \in {s.proc[p], Hup(s.proc[p])}
    OBVIOUS
  <2>6. \A p \in Pids : s.proc[p] \in [at : Places, hup : BOOLEAN, old : BOOLEAN]
    BY DEF States, Processes
  <2>7. \A p \in G(S) : m.proc[p].at \notin Serving
    <3> SUFFICES ASSUME NEW p \in G(S) PROVE m.proc[p].at = "none"
      BY DEF Serving, Unconnected, Connected
    <3> QED
      BY <2>3, <2>4, <2>6, HupType
  <2>8. Quieter(m, k) /\ k.proc = m.proc
    <3>1. G(S) \in SUBSET Pids
      BY <2>3
    <3> QED
      BY <2>1, <2>2, <2>4, <2>7, <3>1, DeleteQuieter
  <2>9. Quieter(s, m)
    BY <2>4, <2>5, <2>6, HupQuiet DEF Quieter
  <2> QED
    BY <2>8, <2>9 DEF Quieter
<1> QED
  BY <1>1, <1>2

LEMMA SweptQuieter ==
  ASSUME NEW s, s \in States
  PROVE  Quieter(s, Swept(s))
<1>1. \A p \in {q \in Pids : s.proc[q].at = "none"} : s.proc[p].at \notin Serving
  BY DEF Serving, Unconnected, Connected
<1> QED
  BY <1>1, DeleteQuieter DEF Swept

LEMMA TrimmedFine ==
  ASSUME NEW s, NEW R, Good(s, R), NEW all, NEW dead \in BOOLEAN,
         NEW k \in Trimmed(s, all, dead), NEW Q \in Seq(Lines), Fine(s, Q)
  PROVE  Fine(k, Q)
<1> DEFINE D(r) == IF dead THEN Swept(r) ELSE r
<1>1. ASSUME NEW r, Good(r, R), Fine(r, Q) PROVE Good(D(r), R) /\ Fine(D(r), Q)
  <2>1. Good(Swept(r), R)
    BY <1>1, SweptGood
  <2>2. r \in States
    BY <1>1 DEF Good, Sound
  <2>3. Fine(Swept(r), Q)
    BY <1>1, <2>2, SweptQuieter, QuieterFine
  <2> QED
    BY <1>1, <2>1, <2>3
<1>2. ASSUME NEW r, Good(r, R), Fine(r, Q), NEW n, NEW l \in kill_n_children(r, n)
      PROVE  Good(l, R) /\ Fine(l, Q)
  <2>1. Good(l, R)
    BY <1>2, KillGood
  <2>2. r \in States
    BY <1>2 DEF Good, Sound
  <2> QED
    BY <1>2, <2>1, <2>2, KillQuieter, QuieterFine
<1>3. CASE \E r \in kill_n_children(s, surplus(s, all)) : k = D(r)
  <2>1. PICK r \in kill_n_children(s, surplus(s, all)) : k = D(r)
    BY <1>3
  <2>2. Good(r, R) /\ Fine(r, Q)
    BY <1>2
  <2> QED
    BY <1>1, <2>1, <2>2
<1>4. CASE k \in kill_n_children(D(s), idle(D(s), all))
  <2>1. Good(D(s), R) /\ Fine(D(s), Q)
    BY <1>1
  <2> QED
    BY <1>2, <1>4, <2>1
<1>5. CASE k = D(s)
  BY <1>1, <1>5
<1> QED
  BY <1>3, <1>4, <1>5 DEF Trimmed

LEMMA RetalliedFine ==
  ASSUME NEW s, s \in States, NEW Q, Fine(s, Q)
  PROVE  Fine(Retallied(s), Q)
<1>1. Retallied(s).proc = s.proc /\ Retallied(s).children = s.children
  BY DEF Retallied, States
<1> QED
  BY <1>1 DEF Fine, Fits, Answers, Busy

-----------------------------------------------------------------------------
(* New processes *)

\* No line of a process that is not there waits to be read.
Unspoken(s, Q) == \A p \in Fresh(s) : Own(Q, p) = {}

\* The new ones are servers that nobody has a line of.
LEMMA ForkedFits ==
  ASSUME NEW s, s \in States, NEW S \in SUBSET Fresh(s), NEW Q \in Seq(Lines),
         Unspoken(s, Q), NEW place \in {"young", "deaf"},
         Fits(s, Q), NEW r, r = Forked(s, S, place)
  PROVE  Fits(r, Q) /\ Busy(r) = Busy(s) \cup S
<1> DEFINE new == [NoProcess EXCEPT !.at = place]
<1>1. r = Forked(s, S, place)
  OBVIOUS
<1>2. S \in SUBSET Pids
  BY DEF Fresh
<1>3. new.at = place /\ new.old = FALSE
  BY DEF NoProcess
<1>4. /\ \A p \in S : r.proc[p].at = place /\ ~r.proc[p].old /\ r.children[p] = "waiting"
      /\ \A p \in Pids \ S : r.proc[p] = s.proc[p] /\ r.children[p] = s.children[p]
  <2>1. /\ r.proc = [p \in Pids |-> IF p \in S THEN new ELSE s.proc[p]]
        /\ r.children = [p \in Pids |-> IF p \in S THEN "waiting" ELSE s.children[p]]
    BY <1>1 DEF Forked, States
  <2> QED
    BY <1>2, <1>3, <2>1
<1>5. place \in Serving /\ Told(place) = "waiting"
  BY DEF Serving, Told
<1>6. ASSUME NEW p \in Pids, Answers(r, p)
      PROVE  r.children[p] # "none" /\ LastSays(Q, r.children[p], p, Told(r.proc[p].at))
  <2>1. CASE p \in S
    BY <1>4, <1>5, <2>1 DEF LastSays, Unspoken
  <2>2. CASE p \notin S
    BY <1>4, <1>6, <2>2 DEF Fits, Answers
  <2> QED
    BY <2>1, <2>2
<1>7. \A i \in 1..Len(Q) : Q[i].status = "exiting" => r.proc[Q[i].pid].at \notin Serving
  <2>1. \A i \in 1..Len(Q) : Q[i] \in Lines
    OBVIOUS
  <2>2. \A i \in 1..Len(Q) : Q[i].pid \in Pids
    BY <2>1 DEF Lines
  <2>3. \A i \in 1..Len(Q) : Q[i].pid \notin S
    BY DEF Own, Unspoken
  <2> QED
    BY <1>4, <2>2, <2>3 DEF Fits
<1>8. Busy(r) = Busy(s) \cup S
  BY <1>2, <1>4, <1>5 DEF Busy
<1> QED
  BY <1>6, <1>7, <1>8 DEF Fits

\* Servers are in the table, as waiting or processing.
LEMMA BusyCounted ==
  ASSUME NEW s, NEW R, Good(s, R), NEW Q, Fits(s, Q)
  PROVE  /\ Cardinality(Busy(s)) <= total(s) /\ Cardinality(Busy(s)) \in Nat
         /\ s.tally["waiting"] \in Nat /\ s.tally["processing"] \in Nat
<1> DEFINE w == With(s.children, "waiting")
           c == With(s.children, "processing")
<1>1. Busy(s) \subseteq w \cup c
  <2> SUFFICES ASSUME NEW p \in Busy(s) PROVE s.children[p] \in {"waiting", "processing"}
    BY DEF With, Busy
  <2>1. p \in Pids /\ s.children[p] # "none"
    BY DEF Busy, Fits, Answers
  <2>2. s.children[p] \in Statuses \cup {"none"}
    BY <2>1 DEF Good, Sound, States, Table
  <2> QED
    BY <2>1, <2>2 DEF Statuses
<1>2. w \in SUBSET Pids /\ c \in SUBSET Pids /\ w \cap c = {}
  BY DEF With
<1>3. /\ IsFiniteSet(w) /\ IsFiniteSet(c) /\ IsFiniteSet(w \cup c)
      /\ Cardinality(w) \in Nat /\ Cardinality(c) \in Nat
      /\ Cardinality(w \cup c) \in Nat
  <2>1. w \cup c \in SUBSET Pids
    BY <1>2
  <2> QED
    BY <1>2, <2>1, Finite
<1>4. Cardinality(w \cup c) = Cardinality(w) + Cardinality(c)
  <2>1. Cardinality(w \cup c) = Cardinality(w) + Cardinality(c) - Cardinality(w \cap c)
    BY <1>3, FS_Union
  <2>2. Cardinality(w \cap c) = 0
    BY <1>2, FS_EmptySet
  <2> QED
    BY <1>3, <2>1, <2>2
<1>5. s.tally["waiting"] = Cardinality(w) /\ s.tally["processing"] = Cardinality(c)
  BY DEF Good, Exact
<1>6. Cardinality(Busy(s)) <= Cardinality(w \cup c) /\ Cardinality(Busy(s)) \in Nat
  BY <1>1, <1>3, FS_Subset, FS_CardinalityType
<1> QED
  BY <1>3, <1>4, <1>5, <1>6 DEF total

\* Starting n servers with room for them
LEMMA RunFine ==
  ASSUME NEW s, s \in States, NEW Q \in Seq(Lines), Unspoken(s, Q),
         NEW n \in Int, NEW place \in {"young", "deaf"}, Fine(s, Q),
         n > 0 => Cardinality(Busy(s)) + n <= MostServers,
         NEW r \in run_n_children(s, n, place)
  PROVE  Fine(r, Q)
<1>1. PICK S \in SUBSET Fresh(s) :
        /\ Cardinality(S) = IF n > 0 THEN n ELSE 0
        /\ r = [Forked(s, S, place) EXCEPT !.tally["waiting"] = @ + Cardinality(S)]
  BY DEF run_n_children, kSubset
<1>2. PICK f : f = Forked(s, S, place)
  OBVIOUS
<1>4. Fits(f, Q) /\ Busy(f) = Busy(s) \cup S
  <2>1. Fits(s, Q)
    BY DEF Fine
  <2> QED
    BY <1>2, <2>1, ForkedFits
<1>5. r.proc = f.proc /\ r.children = f.children
  BY <1>1, <1>2 DEF Forked, States
<1>6. Fits(r, Q) /\ Busy(r) = Busy(s) \cup S
  BY <1>4, <1>5 DEF Fits, Answers, Busy
<1>7. /\ IsFiniteSet(S) /\ IsFiniteSet(Busy(s)) /\ Cardinality(S) \in Nat
      /\ Cardinality(Busy(s)) \in Nat
  <2>1. S \in SUBSET Pids /\ Busy(s) \in SUBSET Pids
    BY DEF Fresh, Busy
  <2> QED
    BY <2>1, Finite
<1>8. Cardinality(Busy(s) \cup S) <= Cardinality(Busy(s)) + Cardinality(S)
  <2>1. Cardinality(Busy(s) \cap S) \in Nat
    BY <1>7, FS_Intersection, FS_CardinalityType
  <2>2. Cardinality(Busy(s) \cup S)
          = Cardinality(Busy(s)) + Cardinality(S) - Cardinality(Busy(s) \cap S)
    BY <1>7, FS_Union
  <2> QED
    BY <1>7, <2>1, <2>2
<1>9. Cardinality(Busy(s) \cup S) \in Nat
  BY <1>7, FS_Union, FS_CardinalityType
<1>10. Cardinality(Busy(s)) <= MostServers
  BY DEF Fine
<1>11. Cardinality(Busy(s) \cup S) <= MostServers
  <2>1. CASE n > 0
    BY <1>1, <1>7, <1>8, <1>9, <2>1, Most
  <2>2. CASE ~(n > 0)
    BY <1>1, <1>7, <1>8, <1>9, <1>10, <2>2, Most
  <2> QED
    BY <2>1, <2>2
<1> QED
  BY <1>6, <1>11 DEF Fine

\* coordinate_children starts no more than there is room for.
LEMMA MissingRoom ==
  ASSUME NEW s, NEW R, Good(s, R), NEW Q, Fits(s, Q)
  PROVE  /\ missing(s) \in Int
         /\ missing(s) > 0 => Cardinality(Busy(s)) + missing(s) <= MostServers
<1>1. /\ Cardinality(Busy(s)) <= total(s) /\ Cardinality(Busy(s)) \in Nat
      /\ s.tally["waiting"] \in Nat /\ total(s) \in Nat
  BY BusyCounted DEF total
<1>2. CASE total(s) < MinServers
  BY <1>1, <1>2, LimitsAssumption, Most DEF missing
<1>3. CASE /\ ~(total(s) < MinServers)
           /\ s.tally["waiting"] < MinSpare /\ total(s) < MaxServers
  <2> DEFINE a == MinSpare - s.tally["waiting"]
             b == MaxServers - total(s)
  <2>1. a \in Int /\ b \in Int
    BY <1>1, LimitsAssumption
  <2>2. Min({a, b}) \in {a, b} /\ Min({a, b}) <= b
    <3> HIDE DEF a, b
    <3>1. \E x \in {a, b} : \A y \in {a, b} : x <= y
      BY <2>1
    <3> QED
      BY <2>1, <3>1 DEF Min
  <2>3. missing(s) = Min({a, b})
    BY <1>3 DEF missing
  <2>4. missing(s) \in Int /\ missing(s) <= b
    BY <2>1, <2>2, <2>3
  <2> QED
    BY <1>1, <2>4, LimitsAssumption, Most
<1>4. CASE /\ ~(total(s) < MinServers)
           /\ ~(s.tally["waiting"] < MinSpare /\ total(s) < MaxServers)
  BY <1>4 DEF missing
<1> QED
  BY <1>2, <1>3, <1>4

-----------------------------------------------------------------------------
(* Lines *)

\* The first line is read, and it is of another process ...
LEMMA TailOthers ==
  ASSUME NEW Q \in Seq(Lines), Q # <<>>, NEW p, p # Q[1].pid, NEW v, NEW w,
         LastSays(Q, v, p, w)
  PROVE  LastSays(Tail(Q), v, p, w)
<1>1. PICK T : T = Tail(Q)
  OBVIOUS
<1>2. Len(T) = Len(Q) - 1 /\ Len(Q) \in Nat /\ Len(Q) # 0
      /\ \A i \in 1..Len(T) : T[i] = Q[i + 1]
  BY <1>1
<1>3. \A i \in Own(Q, p) : i - 1 \in Own(T, p) /\ T[i - 1] = Q[i]
  BY <1>2 DEF Own
<1>4. \A j \in Own(T, p) : j + 1 \in Own(Q, p)
  BY <1>2 DEF Own
<1>5. CASE Own(Q, p) = {} /\ v = w
  BY <1>1, <1>4, <1>5 DEF LastSays
<1>6. CASE \E i \in Own(Q, p) : Q[i].status = w /\ \A j \in Own(Q, p) : j <= i
  <2>1. PICK i \in Own(Q, p) : Q[i].status = w /\ \A j \in Own(Q, p) : j <= i
    BY <1>6
  <2>2. i \in Int /\ \A j \in Own(T, p) : j \in Int
    BY DEF Own
  <2>3. \A j \in Own(T, p) : j <= i - 1
    BY <1>4, <2>1, <2>2
  <2> QED
    BY <1>1, <1>3, <2>1, <2>3 DEF LastSays
<1> QED
  BY <1>5, <1>6 DEF LastSays

\* ... or of this one: the table then says what it said.
LEMMA TailOwn ==
  ASSUME NEW Q \in Seq(Lines), Q # <<>>, NEW p, p = Q[1].pid, NEW v, NEW w,
         LastSays(Q, v, p, w)
  PROVE  LastSays(Tail(Q), Q[1].status, p, w)
<1>1. PICK T : T = Tail(Q)
  OBVIOUS
<1>2. Len(T) = Len(Q) - 1 /\ Len(Q) \in Nat /\ Len(Q) # 0
      /\ \A i \in 1..Len(T) : T[i] = Q[i + 1]
  BY <1>1
<1>3. \A j \in Own(T, p) : j \in Int /\ j >= 1 /\ j + 1 \in Own(Q, p)
  BY <1>2 DEF Own
<1>4. 1 \in Own(Q, p)
  BY <1>2 DEF Own
<1>5. PICK i \in Own(Q, p) : Q[i].status = w /\ \A j \in Own(Q, p) : j <= i
  BY <1>4 DEF LastSays
<1>6. i \in Int
  BY DEF Own
<1>7. CASE i = 1
  <2>1. Own(T, p) = {}
    <3> SUFFICES ASSUME NEW j \in Own(T, p) PROVE FALSE
      OBVIOUS
    <3>1. j \in Int /\ j >= 1 /\ j + 1 \in Own(Q, p)
      BY <1>3
    <3> QED
      BY <1>5, <1>7, <3>1
  <2> QED
    BY <1>1, <1>5, <1>7, <2>1 DEF LastSays
<1>8. CASE i # 1
  <2>1. i - 1 \in Own(T, p) /\ T[i - 1] = Q[i]
    BY <1>2, <1>8 DEF Own
  <2>2. \A j \in Own(T, p) : j <= i - 1
    BY <1>3, <1>5, <1>6
  <2> QED
    BY <1>1, <1>5, <2>1, <2>2 DEF LastSays
<1> QED
  BY <1>7, <1>8

\* A line is printed, by this process or another one.
LEMMA PrintedOwn ==
  ASSUME NEW Q \in Seq(Lines), NEW p \in Pids, NEW w \in Words, NEW v
  PROVE  LastSays(Append(Q, [pid |-> p, status |-> w]), v, p, w)
<1>1. PICK line : line = [pid |-> p, status |-> w]
  OBVIOUS
<1>2. line \in Lines /\ line.pid = p /\ line.status = w
  BY <1>1 DEF Lines
<1>3. PICK A : A = Append(Q, line)
  OBVIOUS
<1>4. Len(A) = Len(Q) + 1 /\ Len(Q) \in Nat /\ A[Len(Q) + 1] = line
  BY <1>2, <1>3
<1>5. Len(Q) + 1 \in Own(A, p) /\ \A j \in Own(A, p) : j <= Len(Q) + 1
  BY <1>2, <1>4 DEF Own
<1> QED
  BY <1>1, <1>2, <1>3, <1>4, <1>5 DEF LastSays

LEMMA PrintedOthers ==
  ASSUME NEW Q \in Seq(Lines), NEW line \in Lines, NEW p, p # line.pid, NEW v, NEW w,
         LastSays(Q, v, p, w)
  PROVE  LastSays(Append(Q, line), v, p, w)
<1>1. PICK A : A = Append(Q, line)
  OBVIOUS
<1>2. Len(A) = Len(Q) + 1 /\ Len(Q) \in Nat /\ A[Len(Q) + 1] = line
      /\ \A i \in 1..Len(Q) : A[i] = Q[i]
  BY <1>1
<1>3. Own(A, p) = Own(Q, p)
  BY <1>2 DEF Own
<1>4. \A i \in Own(Q, p) : A[i] = Q[i]
  BY <1>2 DEF Own
<1> QED
  BY <1>1, <1>3, <1>4 DEF LastSays

\* The parent takes note of the first line.
LEMMA HeardFine ==
  ASSUME NEW s, s \in States, NEW Q \in Seq(Lines), Q # <<>>, Fine(s, Q)
  PROVE  Fine(heard(s, Q[1]), Tail(Q))
<1>0. PICK line : line = Q[1]
  OBVIOUS
<1>1. PICK r : r = heard(s, line)
  OBVIOUS
<1>2. PICK T : T = Tail(Q)
  OBVIOUS
<1>3. line \in Lines /\ line.pid \in Pids /\ line.status \in Words
      /\ 1 \in 1..Len(Q)
  <2>1. Len(Q) \in Nat /\ Len(Q) # 0
    OBVIOUS
  <2>2. 1 \in 1..Len(Q)
    BY <2>1
  <2>3. line \in Lines
    BY <1>0, <2>2
  <2> QED
    BY <2>2, <2>3 DEF Lines
<1>4. \A i \in 1..Len(T) : i + 1 \in 1..Len(Q) /\ T[i] = Q[i + 1]
  BY <1>2
<1>5. /\ r.proc = s.proc
      /\ \A p \in Pids : p # line.pid => r.children[p] = s.children[p]
      /\ r.children[line.pid] =
           IF s.children[line.pid] = "none" \/ line.status = "exiting" THEN "none" ELSE line.status
  <2>1. s.children \in Table
    BY DEF States
  <2>2. CASE s.children[line.pid] = "none"
    BY <1>1, <2>2 DEF heard
  <2>3. CASE s.children[line.pid] # "none" /\ line.status = "exiting"
    <3>1. r = delete_children(s, {line.pid})
      BY <1>1, <2>3 DEF heard
    <3>2. /\ r.proc = s.proc
          /\ r.children = [p \in Pids |->
               IF p \in {q \in {line.pid} : s.children[q] # "none"} THEN "none" ELSE s.children[p]]
      BY <3>1 DEF delete_children, States
    <3> QED
      BY <1>3, <2>3, <3>2
  <2>4. CASE s.children[line.pid] # "none" /\ line.status # "exiting"
    <3>1. r.proc = s.proc /\ r.children = [s.children EXCEPT ![line.pid] = line.status]
      BY <1>1, <2>4 DEF heard, States
    <3> QED
      BY <1>3, <2>1, <2>4, <3>1 DEF Table
  <2> QED
    BY <2>2, <2>3, <2>4
<1>6. Fits(s, Q)
  BY DEF Fine
<1>7. ASSUME NEW p \in Pids, Answers(r, p)
      PROVE  r.children[p] # "none" /\ LastSays(T, r.children[p], p, Told(r.proc[p].at))
  <2>1. Answers(s, p)
    BY <1>5, <1>7 DEF Answers
  <2>2. s.children[p] # "none" /\ LastSays(Q, s.children[p], p, Told(s.proc[p].at))
    BY <1>6, <2>1 DEF Fits
  <2>3. CASE p # line.pid
    BY <1>0, <1>2, <1>5, <2>2, <2>3, TailOthers
  <2>4. CASE p = line.pid
    <3>1. line.status # "exiting"
      <4>1. line.status = "exiting" => s.proc[p].at \notin Serving
        BY <1>0, <1>3, <1>6, <2>4 DEF Fits
      <4> QED
        BY <1>5, <1>7, <2>4, <4>1 DEF Answers
    <3>2. r.children[p] = line.status
      BY <1>5, <2>2, <2>4, <3>1
    <3>3. line.status # "none"
      BY <1>3 DEF Words
    <3> QED
      BY <1>0, <1>2, <1>5, <2>2, <2>4, <3>2, <3>3, TailOwn
  <2> QED
    BY <2>3, <2>4
<1>8. \A i \in 1..Len(T) : T[i].status = "exiting" => r.proc[T[i].pid].at \notin Serving
  BY <1>4, <1>5, <1>6 DEF Fits
<1>10. Busy(r) = Busy(s)
  BY <1>5 DEF Busy
<1>11. Fine(r, T)
  BY <1>6, <1>7, <1>8, <1>10 DEF Fine, Fits
<1> QED
  BY <1>0, <1>1, <1>2, <1>11

\* A server goes on to another place, and prints its word if it is another one.
Tells(s, p, place, Q, N) ==
  \/ place \in Serving /\ Told(place) = Told(s.proc[p].at) /\ N = Q
  \/ s.proc[p].old /\ N = Q
  \/ N = Append(Q, [pid |-> p, status |-> Told(place)])

LEMMA GoesFine ==
  ASSUME NEW s, s \in States, NEW t, NEW Q \in Seq(Lines), NEW N, NEW p \in Pids, NEW place,
         s.proc[p].at \in Serving, place \in Serving \cup {"said"},
         t.proc = [s.proc EXCEPT ![p].at = place], t.children = s.children,
         Tells(s, p, place, Q, N), Fine(s, Q)
  PROVE  Fine(t, N)
<1>1. Fits(s, Q) /\ Cardinality(Busy(s)) <= MostServers
  BY DEF Fine
<1>2. /\ t.proc[p].at = place /\ t.proc[p].old = s.proc[p].old
      /\ \A u \in Pids : u # p => t.proc[u] = s.proc[u]
  BY DEF States, Processes
<1>3. PICK line : line = [pid |-> p, status |-> Told(place)]
  OBVIOUS
<1>4. Told(place) \in Words
  BY DEF Told, Words, Serving, Unconnected, Connected
<1>5. line \in Lines /\ line.pid = p /\ line.status = Told(place)
  BY <1>3, <1>4 DEF Lines
<1>6. \A i \in 1..Len(Q) : Q[i] \in Lines
  OBVIOUS
<1>7. ASSUME NEW u \in Pids, Answers(t, u)
      PROVE  t.children[u] # "none" /\ LastSays(N, t.children[u], u, Told(t.proc[u].at))
  <2>1. Answers(s, u)
    BY <1>2, <1>7 DEF Answers
  <2>2. s.children[u] # "none" /\ LastSays(Q, s.children[u], u, Told(s.proc[u].at))
    BY <1>1, <2>1 DEF Fits
  <2>3. CASE u # p
    <3>1. Told(t.proc[u].at) = Told(s.proc[u].at)
      BY <1>2, <2>3
    <3>2. CASE N = Q
      BY <2>2, <3>1, <3>2
    <3>3. CASE N = Append(Q, line)
      BY <1>5, <2>2, <2>3, <3>1, <3>3, PrintedOthers
    <3> QED
      BY <1>3, <3>2, <3>3 DEF Tells
  <2>4. CASE u = p
    <3>1. ~s.proc[p].old /\ t.proc[u].at = place
      BY <1>2, <1>7, <2>4 DEF Answers
    <3>2. CASE Told(place) = Told(s.proc[p].at) /\ N = Q
      BY <2>2, <2>4, <3>1, <3>2
    <3>3. CASE N = Append(Q, [pid |-> p, status |-> Told(place)])
      BY <1>4, <2>2, <2>4, <3>1, <3>3, PrintedOwn
    <3> QED
      BY <3>1, <3>2, <3>3 DEF Tells
  <2> QED
    BY <2>3, <2>4
<1>8. \A i \in 1..Len(N) : N[i].status = "exiting" => t.proc[N[i].pid].at \notin Serving
  <2>1. ASSUME NEW i \in 1..Len(Q), Q[i].status = "exiting"
        PROVE  t.proc[Q[i].pid].at \notin Serving
    <3>1. s.proc[Q[i].pid].at \notin Serving /\ Q[i].pid \in Pids
      BY <1>1, <1>6, <2>1 DEF Fits, Lines
    <3> QED
      BY <1>2, <3>1
  <2>2. CASE N = Q
    BY <2>1, <2>2
  <2>3. CASE N = Append(Q, line)
    <3>1. Len(N) = Len(Q) + 1 /\ Len(Q) \in Nat /\ N[Len(Q) + 1] = line
          /\ \A i \in 1..Len(Q) : N[i] = Q[i]
      BY <1>5, <2>3
    <3>2. Told(place) = "exiting" => place \notin Serving
      BY DEF Told, Serving, Unconnected, Connected
    <3>3. ASSUME NEW i \in 1..Len(N), N[i].status = "exiting"
          PROVE  t.proc[N[i].pid].at \notin Serving
      <4>1. CASE i \in 1..Len(Q)
        BY <2>1, <3>1, <3>3, <4>1
      <4>2. CASE i = Len(Q) + 1
        BY <1>2, <1>5, <3>1, <3>2, <3>3, <4>2
      <4> QED
        BY <3>1, <4>1, <4>2
    <3> QED
      BY <3>3
  <2> QED
    BY <1>3, <2>2, <2>3 DEF Tells
<1>10. Busy(t) \subseteq Busy(s) /\ Busy(s) \in SUBSET Pids
  BY <1>2 DEF Busy
<1>11. Cardinality(Busy(t)) <= Cardinality(Busy(s))
       /\ Cardinality(Busy(t)) \in Nat /\ Cardinality(Busy(s)) \in Nat
  BY <1>10, Finite, FS_Subset
<1> QED
  BY <1>1, <1>7, <1>8, <1>11, Most DEF Fine, Fits

-----------------------------------------------------------------------------
(* From the record to the state and back *)

LEMMA FineSame ==
  ASSUME NEW s, NEW t, t.proc = s.proc, t.children = s.children, NEW Q, Fine(s, Q)
  PROVE  Fine(t, Q) /\ Busy(t) = Busy(s)
BY DEF Fine, Fits, Answers, Busy

LEMMA HereFields ==
  ASSUME IInv
  PROVE  Here \in States /\ Here.proc = proc /\ Here.children = children
BY HereGood DEF Sound, Here

LEMMA UnreadType ==
  ASSUME IInv
  PROVE  /\ Unread \in Seq(Lines)
         /\ Len(Unread) = Len(buffer) + Len(pipe)
         /\ \A i \in 1..Len(Unread) :
              Unread[i] = IF i <= Len(buffer) THEN buffer[i] ELSE pipe[i - Len(buffer)]
<1>1. pipe \in Seq(Lines) /\ buffer \in Seq(Lines)
  BY QueueType DEF Lines
<1> QED
  BY <1>1 DEF Unread

\* A pid comes back when nothing waits to be read of it.
LEMMA FreshUnspoken ==
  ASSUME IInv, NEW s
  PROVE  Unspoken(s, Unread)
<1> SUFFICES ASSUME NEW p \in Fresh(s), NEW i \in 1..Len(Unread) PROVE Unread[i].pid # p
  BY DEF Unspoken, Own
<1>1. /\ \A k \in DOMAIN pipe : pipe[k].pid # p
      /\ \A k \in DOMAIN buffer : buffer[k].pid # p
  BY DEF Fresh
<1>2. /\ Len(pipe) \in Nat /\ DOMAIN pipe = 1..Len(pipe)
      /\ Len(buffer) \in Nat /\ DOMAIN buffer = 1..Len(buffer)
  <2>1. pipe \in Seq(Lines) /\ buffer \in Seq(Lines)
    BY QueueType DEF Lines
  <2> QED
    BY <2>1
<1>3. CASE i <= Len(buffer)
  BY <1>1, <1>2, <1>3, UnreadType
<1>4. CASE ~(i <= Len(buffer))
  <2>1. i - Len(buffer) \in 1..Len(pipe)
    BY <1>2, <1>4, UnreadType
  <2> QED
    BY <1>1, <1>2, <1>4, <2>1, UnreadType
<1> QED
  BY <1>3, <1>4

\* What a handler leaves is the state after it.
LEMMA LeavesFine ==
  ASSUME NEW s, Leaves(s), NEW Q, Fine(s, Q), Unread' = Q
  PROVE  /\ Here'.proc = s.proc /\ Here'.children = s.children
         /\ Fine(Here, Unread)'
<1>1. Here'.proc = s.proc /\ Here'.children = s.children
  BY DEF Leaves, Here
<1>2. PICK t : t = Here'
  OBVIOUS
<1>3. Fine(t, Q)
  BY <1>1, <1>2, FineSame
<1> QED
  BY <1>1, <1>2, <1>3

\* The CHLD handler takes nobody that serves.
LEMMA SigsQuieter ==
  ASSUME IInv
  PROVE  /\ Quieter(Here, check_sigs)
         /\ \A p \in waited_for : p \in Pids /\ check_sigs.proc[p].at = "none"
         /\ check_sigs.children = children
<1>1. Here \in States /\ Here.proc = proc /\ Here.children = children
  BY HereFields
<1>2. /\ check_sigs.proc = [p \in Pids |-> IF p \in waited_for THEN NoProcess ELSE proc[p]]
      /\ check_sigs.children = children
  BY <1>1 DEF check_sigs, States
<1>3. NoProcess.at = "none" /\ "none" \notin Serving \cup {"said"}
  BY DEF NoProcess, Serving, Unconnected, Connected
<1>4. waited_for \subseteq Pids
  BY DEF waited_for, Zombies
<1>5. \A p \in Pids : check_sigs.proc[p] = IF p \in waited_for THEN NoProcess ELSE proc[p]
  BY <1>2
<1>6. Quieter(Here, check_sigs)
  BY <1>1, <1>2, <1>3, <1>5 DEF Quieter
<1> QED
  BY <1>2, <1>3, <1>4, <1>5, <1>6

-----------------------------------------------------------------------------
(* The steps *)

LEMMA InitBelief ==
  ASSUME Init
  PROVE  BeliefInv
<1>1. Here.proc = proc /\ Here.children = children
  BY DEF Here
<1>2. \A p \in Pids : proc[p].at = "none" /\ children[p] = "none"
  BY DEF Init, NoProcess
<1>3. "none" \notin Serving \cup {"said"}
  BY DEF Serving, Unconnected, Connected
<1>4. Len(Unread) = 0
  BY DEF Unread, Init
<1>5. Busy(Here) = {}
  BY <1>1, <1>2, <1>3 DEF Busy
<1>6. Fits(Here, Unread)
  BY <1>1, <1>2, <1>3, <1>4 DEF Fits, Answers
<1>7. Cardinality({}) = 0
  BY FS_EmptySet
<1> QED
  BY <1>5, <1>6, <1>7, Most DEF BeliefInv, Fine, Init

LEMMA StartBelief ==
  ASSUME IInv, BeliefInv, Start
  PROVE  BeliefInv'
<1>1. PICK h : h = [Here EXCEPT !.tally = Count(children)]
  OBVIOUS
<1>2. h \in States /\ h.proc = Here.proc /\ h.children = Here.children
  <2>1. Count(children) \in [Statuses -> Int]
    BY Finite DEF Count
  <2> QED
    BY <1>1, <2>1, HereFields DEF States
<1>3. Fine(h, Unread) /\ Busy(h) = {}
  BY <1>2, FineSame DEF BeliefInv, Start
<1>4. PICK s \in run_n_children(h, MinServers, "young") : Leaves(s)
  BY <1>1 DEF Start
<1>5. Fine(s, Unread)
  <2>1. Cardinality(Busy(h)) = 0
    BY <1>3, FS_EmptySet
  <2>2. MinServers \in Int /\ (MinServers > 0 => Cardinality(Busy(h)) + MinServers <= MostServers)
    BY <2>1, LimitsAssumption, Most
  <2>3. Unread \in Seq(Lines) /\ Unspoken(h, Unread)
    BY UnreadType, FreshUnspoken
  <2> QED
    BY <1>2, <1>3, <1>4, <2>2, <2>3, RunFine
<1>6. Unread' = Unread /\ reaped' = reaped /\ reaped = {} /\ parent' = "forked"
  BY DEF Start, lines, Unread, BeliefInv
<1>7. Fine(Here, Unread)'
  BY <1>4, <1>5, <1>6, LeavesFine
<1> QED
  BY <1>6, <1>7 DEF BeliefInv

LEMMA RegisterBelief ==
  ASSUME BeliefInv, Register
  PROVE  BeliefInv'
<1>1. /\ Here' = Here /\ Unread' = Unread /\ reaped' = reaped /\ proc' = proc
      /\ parent = "forked" /\ parent' = "select"
  BY DEF Register, table, lines, Here, Unread
<1> QED
  BY <1>1 DEF BeliefInv

LEMMA TimeOutBelief ==
  ASSUME IInv, BeliefInv, TimeOut
  PROVE  BeliefInv'
<1>1. Fine(check_sigs, Unread)
  BY SigsQuieter, UnreadType, QuieterFine DEF BeliefInv
<1>2. /\ Leaves(check_sigs) /\ Unread' = Unread /\ reaped' = waited_for
      /\ parent' = "coordinate"
  BY DEF TimeOut, lines, Unread, BeliefInv
<1>3. Fine(Here, Unread)'
  BY <1>1, <1>2, LeavesFine
<1>4. \A p \in reaped' : proc'[p].at = "none"
  BY <1>2, SigsQuieter DEF Leaves
<1> QED
  BY <1>2, <1>3, <1>4 DEF BeliefInv

LEMMA HearBelief ==
  ASSUME IInv, BeliefInv, Hear
  PROVE  BeliefInv'
<1>1. PICK s : s = check_sigs
  OBVIOUS
<1>2. Fine(s, Unread) /\ s \in States
  BY <1>1, SigsQuieter, SigsGood, UnreadType, QuieterFine DEF BeliefInv, Hear, Good, Sound
<1>3. PICK q : q = IF buffer = <<>> THEN pipe ELSE buffer
  OBVIOUS
<1>4. PICK line : line = Head(q)
  OBVIOUS
<1>5. pipe \in Seq(Lines) /\ buffer \in Seq(Lines) /\ pipe # <<>>
  BY QueueType DEF Lines, Hear
<1>6. /\ Unread # <<>> /\ Unread[1] = line
      /\ Unread' = Tail(Unread)
  <2>1. CASE buffer = <<>>
    <3>1. buffer' = Tail(pipe) /\ pipe' = <<>>
      BY <2>1 DEF Hear
    <3>2. Unread = pipe /\ Unread' = Tail(pipe)
      BY <1>5, <2>1, <3>1 DEF Unread
    <3> QED
      BY <1>3, <1>4, <1>5, <2>1, <3>2
  <2>2. CASE buffer # <<>>
    <3>1. buffer' = Tail(buffer) /\ pipe' = pipe
      BY <2>2 DEF Hear
    <3>2. Unread = buffer \o pipe /\ Unread' = Tail(buffer) \o pipe
      BY <3>1 DEF Unread
    <3>3. Tail(buffer \o pipe) = Tail(buffer) \o pipe
      BY <1>5, <2>2
    <3>4. (buffer \o pipe)[1] = buffer[1] /\ buffer \o pipe # <<>>
      BY <1>5, <2>2
    <3> QED
      BY <1>3, <1>4, <1>5, <2>2, <3>2, <3>3, <3>4
  <2> QED
    BY <2>1, <2>2
<1>7. PICK r : r = heard(s, line)
  OBVIOUS
<1>8. PICK T : T = Tail(Unread)
  OBVIOUS
<1>9. Fine(r, T)
  BY <1>2, <1>6, <1>7, <1>8, UnreadType, HeardFine
<1>10. /\ Leaves(r) /\ reaped' = waited_for /\ parent' = "coordinate"
  BY <1>1, <1>3, <1>4, <1>7 DEF Hear, BeliefInv
<1>11. Fine(Here, Unread)'
  BY <1>6, <1>8, <1>9, <1>10, LeavesFine
<1>12. r.proc = s.proc
  BY <1>2, <1>7 DEF heard, delete_children, States
<1>13. \A p \in reaped' : proc'[p].at = "none"
  BY <1>1, <1>10, <1>12, SigsQuieter DEF Leaves
<1> QED
  BY <1>10, <1>11, <1>13 DEF BeliefInv

LEMMA CoordinateBelief ==
  ASSUME IInv, BeliefInv, NEW dead \in BOOLEAN, Coordinate(dead)
  PROVE  BeliefInv'
<1>0. PICK Q : Q = Unread
  OBVIOUS
<1>1. PICK s : s = delete_children(Here, reaped)
  OBVIOUS
<1>2. /\ reaped \in SUBSET Pids /\ parent # "start" /\ Q \in Seq(Lines)
      /\ \A x : Unspoken(x, Q)
  <2>1. reaped \in SUBSET Pids /\ parent # "start"
    BY DEF IInv, TypeOK, Coordinate
  <2> QED
    BY <1>0, <2>1, UnreadType, FreshUnspoken
<1>3. Good(s, {})
  <2>1. Good(Here, reaped)
    BY <1>2, HereGood
  <2>2. Good(s, reaped \ reaped)
    BY <1>1, <1>2, <2>1, DeleteGood
  <2> QED
    BY <2>2 DEF Good, Kept
<1>4. Fine(s, Q)
  <2>1. \A p \in reaped : Here.proc[p].at \notin Serving
    BY HereFields DEF BeliefInv, Serving, Unconnected, Connected
  <2>2. Quieter(Here, s)
    BY <1>1, <1>2, <2>1, HereFields, DeleteQuieter
  <2>3. Fine(Here, Q)
    BY <1>0 DEF BeliefInv
  <2> QED
    BY <1>2, <2>2, <2>3, QuieterFine
<1>5. PICK t \in {Retallied(s)} \cup (IF s.due THEN {} ELSE {s}) :
        \E r \in run_n_children(t, missing(t), "deaf") :
        \E k \in Trimmed(r, total(t), dead) : Leaves(k)
  BY <1>1 DEF Coordinate
<1>6. PICK r \in run_n_children(t, missing(t), "deaf") :
        \E k \in Trimmed(r, total(t), dead) : Leaves(k)
  BY <1>5
<1>7. PICK k \in Trimmed(r, total(t), dead) : Leaves(k)
  BY <1>6
<1>9. Good(t, {}) /\ Fine(t, Q)
  <2>1. t = s \/ t = Retallied(s)
    BY <1>5
  <2>2. s \in States /\ Sound(s) /\ Kept(s, {})
    BY <1>3 DEF Good, Sound
  <2> QED
    BY <1>3, <1>4, <2>1, <2>2, RetalliedGood, RetalliedFine
<1>10. Good(r, {}) /\ Fine(r, Q)
  <2>1. "deaf" \in Alive
    BY DEF Alive, Serving
  <2>2. Good(r, {})
    BY <1>6, <1>9, <2>1, RunGood
  <2>3. PICK n : n = missing(t)
    OBVIOUS
  <2>4. n \in Int /\ (n > 0 => Cardinality(Busy(t)) + n <= MostServers)
    <3>1. Fits(t, Q)
      BY <1>9 DEF Fine
    <3> QED
      BY <1>9, <2>3, <3>1, MissingRoom
  <2>5. t \in States
    BY <1>9 DEF Good, Sound
  <2>6. Fine(r, Q)
    BY <1>2, <1>6, <1>9, <2>3, <2>4, <2>5, RunFine
  <2> QED
    BY <2>2, <2>6
<1>11. Good(k, {}) /\ Fine(k, Q)
  BY <1>2, <1>7, <1>10, TrimmedGood, TrimmedFine
<1>13. Unread' = Q /\ reaped' = {} /\ parent' = "select"
  BY <1>0 DEF Coordinate, lines, Unread
<1>14. Fine(Here, Unread)'
  BY <1>7, <1>11, <1>13, LeavesFine
<1> QED
  BY <1>13, <1>14 DEF BeliefInv

\* What is alive after a restart is from before.
LEMMA RestartBelief ==
  ASSUME IInv, BeliefInv, Restart
  PROVE  BeliefInv'
<1> DEFINE known == {p \in Pids : children[p] # "none"}
           f == check_sigs.proc
           dead(g) == {p \in Pids : g[p].at \in Dead}
           killed(leave) == [p \in Pids |-> IF p \notin known THEN f[p]
                                            ELSE IF leave THEN Hup(f[p]) ELSE Term(f[p])]
<1>1. PICK leave \in LeaveChildren : \E Gone \in SUBSET dead(killed(leave)) :
        /\ proc' = [p \in Pids |-> IF p \in Gone THEN NoProcess
                     ELSE IF p \in dead(killed(leave)) THEN Unheard
                     ELSE [killed(leave)[p] EXCEPT !.old = killed(leave)[p].at \in Alive]]
        /\ children' = IF leave THEN children ELSE [p \in Pids |-> "none"]
  BY DEF Restart
<1> DEFINE K == killed(leave)
<1>2. PICK Gone \in SUBSET dead(K) :
        proc' = [p \in Pids |-> IF p \in Gone THEN NoProcess
                 ELSE IF p \in dead(K) THEN Unheard
                 ELSE [K[p] EXCEPT !.old = K[p].at \in Alive]]
  BY <1>1
<1>3. \A p \in Pids : K[p] = IF p \notin known THEN f[p]
                            ELSE IF leave THEN Hup(f[p]) ELSE Term(f[p])
  OBVIOUS
<1> HIDE DEF K
<1>4. /\ reaped' = {} /\ parent' = "start" /\ Len(Unread') = 0
  BY DEF Restart, Unread
<1>5. Serving \cup {"said"} \subseteq Alive /\ "none" \notin Serving \cup {"said"}
  BY DEF Alive, Serving, Unconnected, Connected
<1>6. f \in Processes /\ f = check_sigs.proc
  BY SigsGood DEF Restart, Good, Sound, States
<1>7. ASSUME NEW p \in Pids, proc'[p].at \in Serving \cup {"said"}
      PROVE  proc'[p].old /\ K[p].at = proc'[p].at
  <2>1. p \notin Gone /\ p \notin dead(K)
    <3>1. p \notin Gone
      BY <1>2, <1>5, <1>7 DEF NoProcess
    <3>2. Unheard.at \notin Serving \cup {"said"}
      BY DEF Unheard, NoProcess, Serving, Unconnected, Connected
    <3> QED
      BY <1>2, <1>7, <3>1, <3>2
  <2>2. proc'[p] = [K[p] EXCEPT !.old = K[p].at \in Alive]
    BY <1>2, <2>1
  <2>3. K[p] \in [at : Places, hup : BOOLEAN, old : BOOLEAN]
    <3>1. f[p] \in [at : Places, hup : BOOLEAN, old : BOOLEAN]
      BY <1>6 DEF Processes
    <3>2. \A x : Term(x) \in {x, Zombie}
      BY DEF Term
    <3>3. Zombie \in [at : Places, hup : BOOLEAN, old : BOOLEAN]
      BY DEF Zombie, NoProcess, Places, Dead
    <3> HIDE DEF f
    <3> QED
      BY <1>3, <3>1, <3>2, <3>3, HupType
  <2> QED
    BY <1>5, <1>7, <2>2, <2>3
<1>8. Here'.proc = proc' /\ Here'.children = children'
  BY DEF Here
<1>9. Busy(Here)' = {}
  BY <1>7, <1>8 DEF Busy
<1>11. Fits(Here, Unread)'
  BY <1>4, <1>7, <1>8 DEF Fits, Answers
<1>12. Cardinality({}) = 0
  BY FS_EmptySet
<1> QED
  BY <1>4, <1>9, <1>11, <1>12, Most DEF BeliefInv, Fine

\* A server goes on, and prints what it does.
LEMMA GoesBelief ==
  ASSUME IInv, BeliefInv, NEW p \in Pids, NEW place, Goes(p, place),
         proc[p].at \in Serving, place \in Serving \cup {"said"},
         \/ pipe' = pipe /\ place \in Serving /\ Told(place) = Told(proc[p].at)
         \/ Prints(p, Told(place))
  PROVE  BeliefInv'
<1>0. PICK Q : Q = Unread
  OBVIOUS
<1>1. /\ proc' = [proc EXCEPT ![p].at = place] /\ children' = children /\ reaped' = reaped
      /\ buffer' = buffer /\ parent' = parent
  BY DEF Goes, table
<1>2. Here \in States /\ Here.proc = proc /\ Here.children = children /\ Q \in Seq(Lines)
  BY <1>0, HereFields, UnreadType
<1>3. PICK t : t = Here'
  OBVIOUS
<1>4. t.proc = [Here.proc EXCEPT ![p].at = place] /\ t.children = Here.children
  BY <1>1, <1>2, <1>3 DEF Here
<1>5. PICK N : N = Unread'
  OBVIOUS
<1>6. Tells(Here, p, place, Q, N)
  <2>1. CASE pipe' = pipe
    <3>1. N = Q
      BY <1>0, <1>1, <1>5, <2>1 DEF Unread
    <3> QED
      BY <1>2, <2>1, <3>1 DEF Tells, Prints
  <2>2. CASE pipe' # pipe
    <3>1. PICK line : line = [pid |-> p, status |-> Told(place)]
      OBVIOUS
    <3>2. pipe' = Append(pipe, line)
      BY <2>2, <3>1 DEF Prints
    <3>3. line \in Lines
      <4>1. Told(place) \in Words
        BY DEF Told, Words, Serving, Unconnected, Connected
      <4> QED
        BY <3>1, <4>1 DEF Lines
    <3>4. pipe \in Seq(Lines) /\ buffer \in Seq(Lines)
      BY QueueType DEF Lines
    <3>5. buffer \o Append(pipe, line) = Append(buffer \o pipe, line)
      BY <3>3, <3>4
    <3>6. N = Append(Q, line)
      BY <1>0, <1>1, <1>5, <3>2, <3>5 DEF Unread
    <3> QED
      BY <3>1, <3>6 DEF Tells
  <2> QED
    BY <2>1, <2>2
<1>7. Here.proc[p].at \in Serving /\ Fine(Here, Q)
  BY <1>0, <1>2 DEF BeliefInv
<1>8. Fine(t, N)
  BY <1>2, <1>4, <1>6, <1>7, GoesFine
<1>9. Fine(Here, Unread)'
  BY <1>3, <1>5, <1>8
<1>10. \A u \in reaped' : proc'[u].at = "none"
  <2>1. "none" \notin Serving
    BY DEF Serving, Unconnected, Connected
  <2>2. \A u \in reaped : u \in Pids /\ u # p /\ proc[u].at = "none"
    BY <2>1 DEF BeliefInv, IInv, TypeOK
  <2> QED
    BY <1>1, <2>2
<1>11. parent' = "start" => Busy(Here)' = {}
  <2>1. \A u \in Pids : proc'[u].old = proc[u].old /\ (u # p => proc'[u] = proc[u])
    BY <1>1 DEF IInv, TypeOK
  <2> QED
    BY <1>1, <1>2, <1>3, <1>4, <2>1 DEF BeliefInv, Busy
<1> QED
  BY <1>1, <1>9, <1>10, <1>11 DEF BeliefInv

\* A process dies, and the lines it printed stay.
LEMMA DiesBelief ==
  ASSUME IInv, BeliefInv, NEW p \in Pids, Dies(p), proc[p].at # "none"
  PROVE  BeliefInv'
<1>0. PICK z \in {Zombie, Unheard} : proc' = [proc EXCEPT ![p] = z]
  BY DEF Dies
<1>1. /\ proc' = [proc EXCEPT ![p] = z] /\ children' = children /\ reaped' = reaped
      /\ Unread' = Unread /\ parent' = parent
  BY <1>0 DEF Dies, table, lines, Unread
<1>2. Here \in States /\ Here.proc = proc /\ Here.children = children /\ Unread \in Seq(Lines)
  BY HereFields, UnreadType
<1>3. PICK t : t = Here'
  OBVIOUS
<1>4. t.proc = proc' /\ t.children = children
  BY <1>1, <1>3 DEF Here
<1>5. z.at \notin Serving \cup {"said"}
  BY DEF Zombie, Unheard, NoProcess, Serving, Unconnected, Connected
<1>6. \A u \in Pids : proc'[u] = IF u = p THEN z ELSE proc[u]
  BY <1>1 DEF IInv, TypeOK
<1>7. Quieter(Here, t)
  BY <1>2, <1>4, <1>5, <1>6 DEF Quieter
<1>8. Fine(t, Unread)
  BY <1>2, <1>7, QuieterFine DEF BeliefInv
<1>9. Fine(Here, Unread)'
  BY <1>1, <1>3, <1>8
<1>10. \A u \in reaped' : proc'[u].at = "none"
  BY <1>1, <1>6 DEF BeliefInv, IInv, TypeOK
<1>11. parent' = "start" => Busy(Here)' = {}
  <2>1. parent = "start" => Busy(t) = {}
    BY <1>7 DEF BeliefInv, Busy, Quieter
  <2> QED
    BY <1>1, <1>3, <2>1
<1> QED
  BY <1>1, <1>9, <1>10, <1>11 DEF BeliefInv

LEMMA ChildBelief ==
  ASSUME IInv, BeliefInv, NEW p \in Pids, Child(p)
  PROVE  BeliefInv'
<1>1. /\ {"young", "deaf", "idle", "taken", "serving", "ending"} \subseteq Serving
      /\ "none" \notin Serving
  BY DEF Serving, Unconnected, Connected
<1>2. /\ \A at \in {"young", "deaf", "idle", "taken"} : Told(at) = "waiting"
      /\ Told("serving") = "processing" /\ Told("ending") = "processing"
      /\ Told("said") = "exiting"
  BY DEF Told
<1>3. CASE SetHandlers(p)
  BY <1>1, <1>2, <1>3, GoesBelief DEF SetHandlers
<1>4. CASE Accept(p)
  BY <1>1, <1>2, <1>4, GoesBelief DEF Accept
<1>5. CASE AcceptFails(p)
  BY <1>1, <1>2, <1>5, GoesBelief DEF AcceptFails
<1>6. CASE SayProcessing(p)
  BY <1>1, <1>2, <1>6, GoesBelief DEF SayProcessing
<1>7. CASE Finish(p)
  BY <1>1, <1>2, <1>7, GoesBelief DEF Finish
<1>8. CASE Leave(p)
  BY <1>1, <1>2, <1>8, GoesBelief DEF Leave
<1>9. CASE SayWaiting(p)
  BY <1>1, <1>2, <1>9, GoesBelief DEF SayWaiting
<1>10. CASE Exit(p)
  BY <1>10, DiesBelief DEF Exit
<1>11. CASE Crash(p)
  BY <1>1, <1>11, DiesBelief DEF Crash
<1> QED
  BY <1>3, <1>4, <1>5, <1>6, <1>7, <1>8, <1>9, <1>10, <1>11 DEF Child

LEMMA StutterBelief ==
  ASSUME BeliefInv, UNCHANGED vars
  PROVE  BeliefInv'
<1>1. Here' = Here /\ Unread' = Unread /\ reaped' = reaped /\ parent' = parent /\ proc' = proc
  BY DEF vars, table, lines, Here, Unread
<1> QED
  BY <1>1 DEF BeliefInv

\* The property's words and the invariant's
LEMMA BelievedLast ==
  ASSUME IInv, NEW p, NEW w, LastSays(Unread, children[p], p, w)
  PROVE  Believed(p, w)
<1>1. DOMAIN Unread = 1..Len(Unread)
  BY UnreadType
<1>2. Own(Unread, p) = {i \in DOMAIN Unread : Unread[i].pid = p}
  BY <1>1 DEF Own
<1> QED
  BY <1>2 DEF Believed, LastSays

-----------------------------------------------------------------------------
(***************************************************************************)
(* The table, read together with the lines still in the pipe and in the    *)
(* handle's buffer, says of every server what it does, and the servers are *)
(* never more than the larger of min_servers and max_servers.              *)
(***************************************************************************)
THEOREM PoolBelief == Spec => []BeliefInv
<1>1. Init => BeliefInv
  BY InitBelief
<1>2. IInv /\ BeliefInv /\ [Next]_vars => BeliefInv'
  <2> SUFFICES ASSUME IInv, BeliefInv, [Next]_vars PROVE BeliefInv'
    OBVIOUS
  <2>1. CASE Start
    BY <2>1, StartBelief
  <2>8. CASE Register
    BY <2>8, RegisterBelief
  <2>2. CASE Hear
    BY <2>2, HearBelief
  <2>3. CASE TimeOut
    BY <2>3, TimeOutBelief
  <2>4. CASE Restart
    BY <2>4, RestartBelief
  <2>5. CASE \E dead \in BOOLEAN : Coordinate(dead)
    BY <2>5, CoordinateBelief
  <2>6. CASE \E p \in Pids : Child(p)
    BY <2>6, ChildBelief
  <2>7. CASE UNCHANGED vars
    BY <2>7, StutterBelief
  <2> QED
    BY <2>1, <2>2, <2>3, <2>4, <2>5, <2>6, <2>7, <2>8 DEF Next, Child
<1> QED
  BY <1>1, <1>2, PoolInvariant, PTL DEF Spec

\* A server the parent started is in its table, and the last line of it that was
\* not read, or else its entry, is what it does, however late lines are read and
\* whatever signals, deaths and restarts come between.
THEOREM PoolBeliefTrue == Spec => []BeliefTrue
<1>1. IInv /\ BeliefInv => BeliefTrue
  <2> SUFFICES ASSUME IInv, BeliefInv, NEW p \in Pids, ~proc[p].old,
                      proc[p].at \in Serving \/ (proc[p].at = "said" /\ children[p] # "none")
               PROVE  children[p] # "none" /\ Believed(p, Told(proc[p].at))
    BY DEF BeliefTrue
  <2>1. Here.proc = proc /\ Here.children = children
    BY HereFields
  <2>2. Answers(Here, p)
    BY <2>1 DEF Answers
  <2>3. children[p] # "none" /\ LastSays(Unread, children[p], p, Told(proc[p].at))
    BY <2>1, <2>2 DEF BeliefInv, Fine, Fits
  <2> QED
    BY <2>3, BelievedLast
<1> QED
  BY <1>1, PoolInvariant, PoolBelief, PTL

\* The servers the parent started, and that can still accept a connection, are
\* never more than the larger of min_servers and max_servers, although it counts
\* by lines that come late.
THEOREM PoolWithinMax == Spec => []WithinMax
<1>1. BeliefInv => WithinMax
  BY DEF BeliefInv, Fine, Busy, Here, WithinMax, MostServers
<1> QED
  BY <1>1, PoolBelief, PTL

=============================================================================
