------------------------- MODULE DBICSavepointProofs -------------------------
(***************************************************************************)
(* Transactions with savepoints are atomic at every level: with            *)
(* auto_savepoint each nested txn_do and guard is a savepoint, and a block *)
(* that fails is undone alone, with all that was nested in it and nothing  *)
(* of what is around it. DBICStorage implements AtomicTxn with the writes  *)
(* of failed blocks of every level among the failed ones, for any nesting  *)
(* and any number of writes.                                               *)
(* Then the savepoints an application sets itself in a txn_do: whatever it *)
(* names, releases and goes back to, its transaction stays atomic.         *)
(***************************************************************************)
EXTENDS DBICStorageProofs

\* What the application does and what may go wrong. A lost connection is not
\* among it: the run DBICNestedRetry shows what it does to a nested txn_do.
NestedUse ==
  /\ AutoSavepoint = TRUE
  /\ Calls \subseteq {"txn_do", "guard", "eval", "dbh", "disconnect"}
  /\ Faults \subseteq {"outage", "sqlError", "commitError"}

------------------------------------------------------------------------------
(* Stacks of blocks *)

\* Every scope counts, eval blocks outside any scope have no writes, and no
\* write is in two blocks.
Nest(stk) ==
  /\ stk \in Seq(Frame)
  /\ \A i \in DOMAIN stk : stk[i].kind # "bypass"
  /\ \A i \in DOMAIN stk : (\A j \in 1..i : stk[j].kind = "eval") => stk[i].work = {}
  /\ \A i, j \in DOMAIN stk : i # j => stk[i].work \cap stk[j].work = {}

\* How many scopes there are up to the block at k, and what the blocks below
\* it wrote.
Rank(stk, k) == Cardinality({i \in Counted(stk) : i <= k})
Before(stk, k) == UNION {stk[i].work : i \in 1..(k - 1)}

\* There is a savepoint for each scope but the outermost, and it holds what
\* the blocks around that scope had written.
Levels(marks, stk) ==
  /\ Len(marks) = IF Depth(stk) = 0 THEN 0 ELSE Depth(stk) - 1
  /\ \A k \in Scopes(stk) :
       Rank(stk, k) >= 2 => marks[Rank(stk, k) - 1].work = Before(stk, k)

LEMMA NestScopes ==
  ASSUME NEW stk, Nest(stk)
  PROVE  /\ stk \in Seq(Frame) /\ Len(stk) \in Nat
         /\ Scopes(stk) = Counted(stk) /\ Depth(stk) \in Nat
         /\ Depth(stk) = 0 <=> Scopes(stk) = {}
         /\ Scopes(stk) = {} => WorkOf(stk) = {}
         /\ WorkOf(stk) \subseteq Writes
<1>1. stk \in Seq(Frame) /\ Len(stk) \in Nat /\ DOMAIN stk = 1..Len(stk)
  BY DEF Nest
<1>2. \A i \in DOMAIN stk : stk[i] \in Frame
  BY <1>1
<1>3. Scopes(stk) = Counted(stk)
  BY <1>2 DEF Nest, Scopes, Counted, Frame
<1>4. Depth(stk) \in Nat /\ (Depth(stk) = 0 <=> Counted(stk) = {})
  BY <1>1, CountedFinite, FS_EmptySet DEF Depth
<1>5. WorkOf(stk) \subseteq Writes
  BY <1>2 DEF WorkOf, Frame
<1>6. Scopes(stk) = {} => WorkOf(stk) = {}
  <2>1. ASSUME Scopes(stk) = {}, NEW i \in DOMAIN stk PROVE stk[i].work = {}
    <3>1. \A j \in 1..i : stk[j].kind = "eval"
      BY <1>1, <2>1 DEF Scopes
    <3> QED
      BY <3>1 DEF Nest
  <2> QED
    BY <2>1 DEF WorkOf
<1> QED
  BY <1>1, <1>3, <1>4, <1>5, <1>6

\* Two stacks that agree up to k have the same scopes up to k.
LEMMA RankAgree ==
  ASSUME NEW stk \in Seq(Frame), NEW new \in Seq(Frame), NEW k \in Nat,
         k <= Len(stk), k <= Len(new),
         \A i \in 1..k : new[i].kind = stk[i].kind
  PROVE  Rank(new, k) = Rank(stk, k)
<1>1. {i \in Counted(new) : i <= k} = {i \in Counted(stk) : i <= k}
  BY DEF Counted
<1> QED
  BY <1>1 DEF Rank

LEMMA BeforeAgree ==
  ASSUME NEW stk, NEW new, NEW k \in Nat, \A i \in 1..(k - 1) : new[i] = stk[i]
  PROVE  Before(new, k) = Before(stk, k)
BY DEF Before

\* The rank of a scope is between 1 and the depth.
LEMMA RankBounds ==
  ASSUME NEW stk \in Seq(Frame), NEW k \in Counted(stk)
  PROVE  /\ Rank(stk, k) \in Nat /\ Rank(stk, k) >= 1 /\ Rank(stk, k) <= Depth(stk)
         /\ k \in 1..Len(stk) /\ Len(stk) \in Nat
<1> DEFINE S == {i \in Counted(stk) : i <= k}
<1>1. IsFiniteSet(Counted(stk)) /\ S \subseteq Counted(stk)
  BY CountedFinite
<1>2. IsFiniteSet(S) /\ Cardinality(S) <= Cardinality(Counted(stk))
  BY <1>1, FS_Subset
<1>3. k \in S /\ k \in 1..Len(stk) /\ Len(stk) \in Nat
  BY DEF Counted
<1>4. Cardinality(S) \in Nat /\ Cardinality(S) # 0
  BY <1>2, <1>3, FS_CardinalityType, FS_EmptySet
<1> HIDE DEF S
<1>5. Cardinality(S) >= 1
  BY <1>4
<1> QED
  BY <1>2, <1>3, <1>4, <1>5 DEF Rank, Depth, S

LEMMA RankTop ==
  ASSUME NEW stk \in Seq(Frame)
  PROVE  Rank(stk, Len(stk)) = Depth(stk)
<1>1. {i \in Counted(stk) : i <= Len(stk)} = Counted(stk)
  BY DEF Counted
<1> QED
  BY <1>1 DEF Rank, Depth

\* A block is entered: an eval, or the outermost scope.
LEMMA LevelsPush ==
  ASSUME NEW stk, Nest(stk), NEW f \in Frame, f.kind # "bypass",
         NEW m, Levels(m, stk), f.kind = "eval" \/ Depth(stk) = 0
  PROVE  Levels(m, Append(stk, f))
<1> DEFINE new == Append(stk, f)
           n == Len(stk)
<1>1. stk \in Seq(Frame) /\ Depth(stk) \in Nat /\ Scopes(stk) = Counted(stk)
  BY NestScopes
<1>2. Depth(new) = IF f.kind = "eval" THEN Depth(stk) ELSE Depth(stk) + 1
  BY <1>1, PushCount DEF Frame
<1>3. /\ new \in Seq(Frame) /\ Len(new) = n + 1 /\ n \in Nat /\ new[n + 1] = f
      /\ \A i \in 1..n : new[i] = stk[i]
      /\ DOMAIN new = 1..(n + 1) /\ DOMAIN stk = 1..n
  BY <1>1
<1> HIDE DEF new
<1>4. Len(m) = IF Depth(new) = 0 THEN 0 ELSE Depth(new) - 1
  BY <1>1, <1>2 DEF Levels
<1>5. ASSUME NEW k \in Scopes(new), Rank(new, k) >= 2
      PROVE  m[Rank(new, k) - 1].work = Before(new, k)
  <2>1. CASE k = n + 1
    <3>1. f.kind # "eval"
      BY <1>3, <1>5, <2>1 DEF Scopes
    <3>2. Rank(new, k) = 1
      BY <1>2, <1>3, <2>1, <3>1, RankTop
    <3> QED
      BY <1>5, <3>2
  <2>2. CASE k # n + 1
    <3>1. k \in Scopes(stk) /\ k \in 1..n /\ k \in Nat /\ k <= n
      BY <1>3, <1>5, <2>2 DEF Scopes
    <3>2. Rank(new, k) = Rank(stk, k)
      BY <1>1, <1>3, <3>1, RankAgree
    <3>3. Before(new, k) = Before(stk, k)
      BY <1>3, <3>1, BeforeAgree
    <3> QED
      BY <1>5, <3>1, <3>2, <3>3 DEF Levels
  <2> QED
    BY <2>1, <2>2
<1> QED
  BY <1>4, <1>5 DEF Levels, new

\* An inner scope is entered: its savepoint holds what is written so far.
LEMMA LevelsSave ==
  ASSUME NEW stk, Nest(stk), Depth(stk) # 0, NEW f \in Frame, f.kind \in {"txn_do", "guard"},
         NEW S, NEW m \in Seq(S), Levels(m, stk), NEW x \in S, x.work = WorkOf(stk)
  PROVE  Levels(Append(m, x), Append(stk, f))
<1> DEFINE new == Append(stk, f)
           mx == Append(m, x)
           n == Len(stk)
           d == Depth(stk)
<1>1. stk \in Seq(Frame) /\ d \in Nat /\ Scopes(stk) = Counted(stk)
  BY NestScopes
<1>2. Depth(new) = d + 1 /\ Len(m) = d - 1
  BY <1>1, PushCount DEF Frame, Levels
<1>3. /\ new \in Seq(Frame) /\ Len(new) = n + 1 /\ n \in Nat /\ new[n + 1] = f
      /\ \A i \in 1..n : new[i] = stk[i]
      /\ DOMAIN new = 1..(n + 1) /\ DOMAIN stk = 1..n
  BY <1>1
<1>4. Len(mx) = d /\ mx[d] = x /\ \A i \in 1..(d - 1) : mx[i] = m[i]
  BY <1>1, <1>2
<1> HIDE DEF new, mx, d
<1>5. Len(mx) = IF Depth(new) = 0 THEN 0 ELSE Depth(new) - 1
  BY <1>1, <1>2, <1>4 DEF d
<1>6. ASSUME NEW k \in Scopes(new), Rank(new, k) >= 2
      PROVE  mx[Rank(new, k) - 1].work = Before(new, k)
  <2>1. CASE k = n + 1
    <3>1. Rank(new, k) = d + 1
      BY <1>2, <1>3, <2>1, RankTop
    <3>2. Before(new, k) = WorkOf(stk)
      BY <1>3, <2>1 DEF Before, WorkOf
    <3>3. Rank(new, k) - 1 = d
      BY <1>1, <3>1 DEF d
    <3> QED
      BY <1>4, <3>2, <3>3
  <2>2. CASE k # n + 1
    <3>1. k \in Scopes(stk) /\ k \in 1..n /\ k \in Nat /\ k <= n
      BY <1>3, <1>6, <2>2 DEF Scopes
    <3>2. Rank(new, k) = Rank(stk, k)
      <4>1. k <= Len(stk) /\ k <= Len(new)
        BY <1>3, <3>1
      <4>2. \A i \in 1..k : new[i].kind = stk[i].kind
        <5>1. \A i \in 1..k : i \in 1..n
          BY <1>3, <3>1
        <5> QED
          BY <1>3, <5>1
      <4> QED
        BY <1>1, <1>3, <3>1, <4>1, <4>2, RankAgree
    <3>3. Before(new, k) = Before(stk, k)
      BY <1>3, <3>1, BeforeAgree
    <3>4. Rank(stk, k) \in Nat /\ Rank(stk, k) <= d
      BY <1>1, <3>1, RankBounds DEF d
    <3>5. Rank(stk, k) - 1 \in 1..(d - 1)
      BY <1>1, <1>6, <3>2, <3>4 DEF d
    <3>6. m[Rank(stk, k) - 1].work = Before(stk, k)
      BY <1>6, <3>1, <3>2 DEF Levels
    <3> QED
      BY <1>4, <3>2, <3>3, <3>5, <3>6
  <2> QED
    BY <2>1, <2>2
<1> QED
  BY <1>5, <1>6 DEF Levels, new, mx

\* Only the top block changes, and not its kind.
LEMMA LevelsTop ==
  ASSUME NEW stk, Nest(stk), NEW new \in Seq(Frame), Len(new) = Len(stk),
         \A i \in 1..(Len(stk) - 1) : new[i] = stk[i],
         \A i \in 1..Len(stk) : new[i].kind = stk[i].kind
  PROVE  /\ Depth(new) = Depth(stk) /\ Scopes(new) = Scopes(stk)
         /\ \A m : Levels(m, stk) => Levels(m, new)
<1>1. stk \in Seq(Frame) /\ Len(stk) \in Nat /\ Scopes(stk) = Counted(stk)
  BY NestScopes
<1>2. Depth(new) = Depth(stk) /\ Scopes(new) = Scopes(stk)
  BY <1>1, SameKinds DEF Depth
<1>3. ASSUME NEW k \in Scopes(stk)
      PROVE  Rank(new, k) = Rank(stk, k) /\ Before(new, k) = Before(stk, k)
  <2>1. k \in 1..Len(stk) /\ k \in Nat /\ k <= Len(stk)
    BY <1>1, <1>3 DEF Scopes
  <2>2. \A i \in 1..k : new[i].kind = stk[i].kind
    BY <1>1, <2>1
  <2>3. \A i \in 1..(k - 1) : new[i] = stk[i]
    BY <1>1, <2>1
  <2> QED
    BY <1>1, <2>1, <2>2, <2>3, RankAgree, BeforeAgree
<1> QED
  BY <1>2, <1>3 DEF Levels

\* The top block is left: an eval, or a scope with its savepoint.
LEMMA LevelsPop ==
  ASSUME NEW stk, Nest(stk), stk # <<>>, NEW S, NEW m \in Seq(S), Levels(m, stk)
  PROVE  LET below == SubSeq(stk, 1, Len(stk) - 1)
         IN  /\ stk[Len(stk)].kind = "eval" => Levels(m, below)
             /\ Depth(stk) = 1 => Levels(m, below)
             /\ stk[Len(stk)].kind # "eval" /\ Depth(stk) >= 2 =>
                  /\ m[Len(m)].work = WorkOf(below)
                  /\ Levels(SubSeq(m, 1, Len(m) - 1), below)
<1> DEFINE n == Len(stk)
           below == SubSeq(stk, 1, n - 1)
           top == stk[n]
           d == Depth(stk)
<1>1. /\ stk \in Seq(Frame) /\ d \in Nat /\ Scopes(stk) = Counted(stk)
      /\ \A i \in DOMAIN stk : stk[i].kind # "bypass"
  BY NestScopes DEF Nest
<1>2. /\ below \in Seq(Frame) /\ top \in Frame /\ n \in 1..n
      /\ Len(below) = n - 1 /\ n \in Nat /\ n > 0 /\ n - 1 \in Nat
      /\ \A i \in 1..(n - 1) : below[i] = stk[i]
      /\ DOMAIN stk = 1..n /\ DOMAIN below = 1..(n - 1)
  BY <1>1, Split
<1>3. top.kind \in {"txn_do", "guard", "eval"}
  BY <1>1, <1>2 DEF Frame
<1>4. Depth(below) = IF top.kind = "eval" THEN d ELSE d - 1
  BY <1>1, <1>3, PopCount
<1>5. Depth(below) \in Nat
  BY <1>2, CountedFinite
<1> HIDE DEF below, top, d, n
<1>6. ASSUME NEW k \in Scopes(below)
      PROVE  /\ k \in Scopes(stk) /\ Before(below, k) = Before(stk, k)
             /\ Rank(below, k) = Rank(stk, k)
             /\ Rank(stk, k) \in Nat /\ Rank(stk, k) >= 1 /\ Rank(stk, k) <= Depth(below)
  <2>1. k \in 1..(n - 1) /\ k \in Nat /\ k <= n - 1 /\ k <= n
    BY <1>2, <1>6 DEF Scopes
  <2>2. k \in Scopes(stk)
    BY <1>2, <1>6, <2>1 DEF Scopes
  <2>3. k \in Counted(below)
    BY <1>1, <1>2, <2>1, <2>2 DEF Counted
  <2>4. Rank(below, k) = Rank(stk, k)
    <3>1. \A i \in 1..k : below[i].kind = stk[i].kind
      BY <1>2, <2>1
    <3> QED
      BY <1>1, <1>2, <2>1, <3>1, RankAgree DEF n
  <2>5. Before(below, k) = Before(stk, k)
    BY <1>2, <2>1, BeforeAgree
  <2> QED
    BY <1>2, <2>2, <2>3, <2>4, <2>5, RankBounds
<1>7. Len(m) = IF d = 0 THEN 0 ELSE d - 1
  BY DEF Levels, d
<1>8. CASE top.kind = "eval"
  BY <1>3, <1>4, <1>6, <1>7, <1>8 DEF Levels, top, n, below, d
<1>9. CASE d = 1
  <2>1. Depth(below) \in {0, 1} /\ Len(m) = 0
    BY <1>4, <1>7, <1>9
  <2>2. \A k \in Scopes(below) : ~(Rank(below, k) >= 2)
    BY <1>6, <2>1
  <2> QED
    BY <1>9, <2>1, <2>2 DEF Levels, d, below, n
<1>10. CASE top.kind # "eval" /\ d >= 2
  <2>1. n \in Scopes(stk) /\ Rank(stk, n) = d
    BY <1>1, <1>2, <1>10, RankTop DEF Scopes, top, n, d
  <2>2. m[d - 1].work = Before(stk, n) /\ Len(m) = d - 1
    BY <1>1, <1>7, <1>10, <2>1 DEF Levels
  <2>3. Before(stk, n) = WorkOf(below)
    BY <1>2 DEF Before, WorkOf
  <2> DEFINE cut == SubSeq(m, 1, Len(m) - 1)
  <2>4. Len(cut) = d - 2 /\ \A i \in 1..(d - 2) : cut[i] = m[i]
    BY <1>1, <1>10, <2>2
  <2> HIDE DEF cut
  <2>5. Len(cut) = IF Depth(below) = 0 THEN 0 ELSE Depth(below) - 1
    BY <1>1, <1>4, <1>10, <2>4
  <2>6. ASSUME NEW k \in Scopes(below), Rank(below, k) >= 2
        PROVE  cut[Rank(below, k) - 1].work = Before(below, k)
    <3>1. Rank(below, k) - 1 \in 1..(d - 2)
      BY <1>1, <1>4, <1>6, <1>10, <2>6
    <3>2. m[Rank(stk, k) - 1].work = Before(stk, k)
      BY <1>6, <2>6 DEF Levels
    <3> QED
      BY <1>6, <2>4, <3>1, <3>2
  <2>7. Levels(cut, below)
    BY <2>5, <2>6 DEF Levels
  <2>8. m[Len(m)].work = WorkOf(below)
    BY <2>2, <2>3
  <2>9. d # 1
    BY <1>1, <1>10
  <2> QED
    BY <1>10, <2>7, <2>8, <2>9 DEF cut, below, n, top, d
<1> QED
  BY <1>8, <1>9, <1>10 DEF top, below, n, d

LEMMA NestPush ==
  ASSUME NEW stk, Nest(stk), NEW kind \in {"txn_do", "guard", "eval"}
  PROVE  LET new == Append(stk, NewFrame(kind))
         IN  /\ Nest(new) /\ NewFrame(kind) \in Frame
             /\ Len(new) = Len(stk) + 1 /\ new # <<>> /\ new[Len(new)].kind = kind
             /\ SubSeq(new, 1, Len(new) - 1) = stk
             /\ Depth(new) = IF kind = "eval" THEN Depth(stk) ELSE Depth(stk) + 1
             /\ Scopes(new) = IF kind = "eval" THEN Scopes(stk) ELSE Scopes(stk) \cup {Len(new)}
             /\ WorkOf(new) = WorkOf(stk)
<1> DEFINE f == NewFrame(kind)
           new == Append(stk, f)
           n == Len(stk)
<1>1. f \in Frame /\ f.kind = kind /\ f.work = {} /\ stk \in Seq(Frame)
  BY DEF NewFrame, Frame, Nest
<1> HIDE DEF f
<1>2. /\ new \in Seq(Frame) /\ Len(new) = n + 1 /\ n \in Nat /\ new # <<>>
      /\ new[n + 1] = f
      /\ \A i \in 1..n : new[i] = stk[i]
      /\ DOMAIN new = 1..(n + 1) /\ DOMAIN stk = 1..n
  BY <1>1
<1>3. Depth(new) = IF kind = "eval" THEN Depth(stk) ELSE Depth(stk) + 1
  BY <1>1, PushCount
<1>4. WorkOf(new) = WorkOf(stk)
  BY <1>1, PushWork
<1> HIDE DEF new
<1>5. SubSeq(new, 1, n) = stk
  <2>1. n <= Len(new)
    BY <1>2
  <2>2. /\ SubSeq(new, 1, n) \in Seq(Frame) /\ Len(SubSeq(new, 1, n)) = n
        /\ \A i \in 1..n : SubSeq(new, 1, n)[i] = new[i]
    BY <1>2, <2>1, Prefix
  <2> QED
    BY <1>1, <1>2, <2>2, SeqEqual
<1>6. Scopes(new) = IF kind = "eval" THEN Scopes(stk) ELSE Scopes(stk) \cup {n + 1}
  BY <1>1, <1>2 DEF Scopes
<1>7. \A i \in 1..(n + 1) : i \in 1..n \/ i = n + 1
  BY <1>2
<1>8. ASSUME NEW i \in 1..(n + 1)
      PROVE  /\ new[i].kind # "bypass"
             /\ (\A j \in 1..i : new[j].kind = "eval") => new[i].work = {}
  <2>1. CASE i = n + 1
    BY <1>1, <1>2, <2>1
  <2>2. CASE i \in 1..n
    <3>1. \A j \in 1..i : j \in 1..n
      BY <1>2, <2>2
    <3> QED
      BY <1>2, <2>2, <3>1 DEF Nest
  <2> QED
    BY <1>7, <2>1, <2>2
<1>9. ASSUME NEW i \in 1..(n + 1), NEW j \in 1..(n + 1), i # j
      PROVE  new[i].work \cap new[j].work = {}
  BY <1>1, <1>2, <1>7, <1>9 DEF Nest
<1>10. Nest(new)
  BY <1>2, <1>8, <1>9 DEF Nest
<1>11. Len(new) - 1 = n
  BY <1>2
<1> QED
  BY <1>1, <1>2, <1>3, <1>4, <1>5, <1>6, <1>10, <1>11 DEF new, f

LEMMA NestPop ==
  ASSUME NEW stk, Nest(stk), stk # <<>>
  PROVE  LET below == SubSeq(stk, 1, Len(stk) - 1)
             top == stk[Len(stk)]
         IN  /\ Nest(below) /\ top \in Frame /\ top.kind # "bypass"
             /\ Len(below) = Len(stk) - 1 /\ Len(stk) > 0
             /\ \A i \in 1..(Len(stk) - 1) : below[i] = stk[i]
             /\ WorkOf(stk) = WorkOf(below) \cup top.work
             /\ WorkOf(below) \cap top.work = {}
             /\ Depth(below) = IF top.kind = "eval" THEN Depth(stk) ELSE Depth(stk) - 1
             /\ Scopes(stk) = IF top.kind = "eval" THEN Scopes(below)
                                                   ELSE Scopes(below) \cup {Len(stk)}
<1> DEFINE n == Len(stk)
           below == SubSeq(stk, 1, n - 1)
           top == stk[n]
<1>1. /\ below \in Seq(Frame) /\ top \in Frame
      /\ Len(below) = n - 1 /\ n \in Nat /\ n > 0 /\ n \in 1..n
      /\ \A i \in 1..(n - 1) : below[i] = stk[i]
      /\ stk = Append(below, top)
      /\ DOMAIN stk = 1..n /\ DOMAIN below = 1..(n - 1)
  BY Split DEF Nest
<1>2. top.kind \in {"txn_do", "guard", "eval"}
  BY <1>1 DEF Nest, Frame
<1>3. Depth(below) = IF top.kind = "eval" THEN Depth(stk) ELSE Depth(stk) - 1
  BY <1>2, PopCount DEF Nest
<1>4. WorkOf(stk) = WorkOf(below) \cup top.work
  BY <1>1, PushWork
<1> HIDE DEF below, n
<1>5. WorkOf(below) \cap top.work = {}
  <2>1. \A i \in 1..(n - 1) : i \in 1..n /\ i # n
    BY <1>1
  <2>2. \A i \in 1..(n - 1) : stk[i].work \cap stk[n].work = {}
    BY <1>1, <2>1 DEF Nest
  <2> QED
    BY <1>1, <2>2 DEF WorkOf
<1>6. Scopes(stk) = IF top.kind = "eval" THEN Scopes(below) ELSE Scopes(below) \cup {n}
  BY <1>1 DEF Scopes
<1>7. \A i \in 1..(n - 1) : i \in 1..n /\ \A j \in 1..i : j \in 1..(n - 1)
  BY <1>1
<1>8. Nest(below)
  BY <1>1, <1>7 DEF Nest
<1> QED
  BY <1>1, <1>2, <1>3, <1>4, <1>5, <1>6, <1>8 DEF below, n

\* The writes of the top block change, but not its kind.
LEMMA NestTop ==
  ASSUME NEW stk, Nest(stk), stk # <<>>, NEW new \in Seq(Frame), Len(new) = Len(stk),
         \A i \in 1..(Len(stk) - 1) : new[i] = stk[i],
         new[Len(stk)].kind = stk[Len(stk)].kind,
         \A i \in 1..(Len(stk) - 1) : stk[i].work \cap new[Len(stk)].work = {},
         Scopes(stk) # {} \/ new[Len(stk)].work = {}
  PROVE  /\ Nest(new) /\ Depth(new) = Depth(stk) /\ Scopes(new) = Scopes(stk)
         /\ \A m : Levels(m, stk) => Levels(m, new)
         /\ WorkOf(new) = WorkOf(SubSeq(stk, 1, Len(stk) - 1)) \cup new[Len(stk)].work
         /\ SubSeq(new, 1, Len(new) - 1) = SubSeq(stk, 1, Len(stk) - 1)
<1> DEFINE n == Len(stk)
           below == SubSeq(stk, 1, n - 1)
<1>1. /\ stk \in Seq(Frame) /\ n \in Nat /\ n > 0 /\ n \in 1..n /\ n - 1 \in Nat /\ n - 1 <= n
      /\ DOMAIN stk = 1..n /\ DOMAIN new = 1..n /\ n <= Len(new)
      /\ \A i \in 1..n : i \in 1..(n - 1) \/ i = n
      /\ new # <<>>
  BY DEF Nest
<1>9. /\ \A i \in 1..(n - 1) : new[i] = stk[i]
      /\ new[n].kind = stk[n].kind
      /\ \A i \in 1..(n - 1) : stk[i].work \cap new[n].work = {}
      /\ Scopes(stk) # {} \/ new[n].work = {}
      /\ Len(new) = n
  OBVIOUS
<1> HIDE DEF n
<1>2. \A i \in 1..n : new[i].kind = stk[i].kind
  BY <1>1, <1>9
<1>3. Depth(new) = Depth(stk) /\ Scopes(new) = Scopes(stk) /\ \A m : Levels(m, stk) => Levels(m, new)
  BY <1>2, LevelsTop DEF n
<1>4. SubSeq(new, 1, n - 1) = below
  <2>1. /\ SubSeq(new, 1, n - 1) \in Seq(Frame) /\ Len(SubSeq(new, 1, n - 1)) = n - 1
        /\ \A i \in 1..(n - 1) : SubSeq(new, 1, n - 1)[i] = new[i]
    BY <1>1, <1>9, Prefix
  <2>2. /\ below \in Seq(Frame) /\ Len(below) = n - 1
        /\ \A i \in 1..(n - 1) : below[i] = stk[i]
    BY <1>1, Prefix
  <2> QED
    BY <1>9, <2>1, <2>2, SeqEqual
<1>5. WorkOf(new) = WorkOf(below) \cup new[n].work
  <2>2. new = Append(SubSeq(new, 1, n - 1), new[n]) /\ SubSeq(new, 1, n - 1) \in Seq(Frame) /\ new[n] \in Frame
    BY <1>1, <1>9, Split
  <2>3. WorkOf(Append(below, new[n])) = WorkOf(below) \cup new[n].work
    BY <1>4, <2>2, PushWork
  <2> QED
    BY <1>4, <2>2, <2>3
<1>6. ASSUME NEW i \in 1..n
      PROVE  /\ new[i].kind # "bypass"
             /\ (\A j \in 1..i : new[j].kind = "eval") => new[i].work = {}
  <2>1. \A j \in 1..i : j \in 1..n
    BY <1>1
  <2>2. new[i].kind # "bypass"
    BY <1>1, <1>2 DEF Nest
  <2>3. CASE i = n
    <3>1. Scopes(stk) # {} => \E j \in 1..n : stk[j].kind # "eval"
      BY <1>1 DEF Scopes
    <3> QED
      BY <1>1, <1>2, <1>9, <2>2, <2>3, <3>1
  <2>4. CASE i # n
    BY <1>1, <1>2, <1>9, <2>1, <2>2, <2>4 DEF Nest
  <2> QED
    BY <2>3, <2>4
<1>7. ASSUME NEW i \in 1..n, NEW j \in 1..n, i # j
      PROVE  new[i].work \cap new[j].work = {}
  BY <1>1, <1>9, <1>7 DEF Nest
<1>8. Nest(new)
  BY <1>1, <1>6, <1>7 DEF Nest
<1> QED
  BY <1>3, <1>4, <1>5, <1>8 DEF n, below

\* A write, or the writes of a block just left, join the top block.
LEMMA NestAdd ==
  ASSUME NEW stk, Nest(stk), Scopes(stk) # {}, NEW ws \in SUBSET Writes,
         ws \cap WorkOf(stk) = {}
  PROVE  /\ Nest(AddWork(stk, ws)) /\ Len(AddWork(stk, ws)) = Len(stk)
         /\ Depth(AddWork(stk, ws)) = Depth(stk)
         /\ Scopes(AddWork(stk, ws)) = Scopes(stk)
         /\ WorkOf(AddWork(stk, ws)) = WorkOf(stk) \cup ws
         /\ \A m : Levels(m, stk) => Levels(m, AddWork(stk, ws))
<1> DEFINE new == AddWork(stk, ws)
           n == Len(stk)
<1>1. stk \in Seq(Frame) /\ n \in Nat /\ n > 0 /\ n \in 1..n /\ stk # <<>> /\ DOMAIN stk = 1..n
  BY DEF Nest, Scopes
<1>2. PICK f \in Frame : f = stk[n]
  BY <1>1
<1> DEFINE g == [f EXCEPT !.work = @ \cup ws]
<1>3. g \in Frame /\ g.kind = f.kind /\ g.work = f.work \cup ws
  <2>1. f.work \cup ws \in SUBSET Writes
    BY <1>2 DEF Frame
  <2> QED
    BY <1>2, <2>1 DEF Frame
<1>4. new = [stk EXCEPT ![n] = g]
  BY <1>1, <1>2 DEF AddWork
<1> HIDE DEF g, new, n
<1>5. /\ new \in Seq(Frame) /\ Len(new) = n
      /\ \A i \in 1..(n - 1) : new[i] = stk[i]
      /\ new[n] = g
  <2>1. [stk EXCEPT ![n] = g] \in [1..n -> Frame]
    BY <1>1, <1>3
  <2> QED
    BY <1>1, <1>3, <1>4, <2>1
<1>6. \A i \in 1..(n - 1) : stk[i].work \cap g.work = {}
  <2>1. \A i \in 1..(n - 1) : i \in 1..n /\ i # n
    BY <1>1
  <2>2. \A i \in 1..(n - 1) : stk[i].work \cap f.work = {} /\ stk[i].work \subseteq WorkOf(stk)
    BY <1>1, <1>2, <2>1 DEF Nest, WorkOf
  <2> QED
    BY <1>3, <2>2
<1>7. /\ Nest(new) /\ Depth(new) = Depth(stk) /\ Scopes(new) = Scopes(stk)
      /\ \A m : Levels(m, stk) => Levels(m, new)
      /\ WorkOf(new) = WorkOf(SubSeq(stk, 1, n - 1)) \cup g.work
  BY <1>1, <1>2, <1>3, <1>5, <1>6, NestTop DEF n
<1>8. WorkOf(stk) = WorkOf(SubSeq(stk, 1, n - 1)) \cup f.work
  BY <1>1, <1>2, NestPop DEF n
<1>9. WorkOf(new) = WorkOf(stk) \cup ws
  BY <1>3, <1>7, <1>8
<1> QED
  BY <1>5, <1>7, <1>9 DEF new, n

\* txn_do starts its block again: the same blocks, without its writes.
LEMMA NestRestart ==
  ASSUME NEW stk, Nest(stk), stk # <<>>
  PROVE  LET new == [stk EXCEPT ![Len(stk)] = [@ EXCEPT !.tried = TRUE, !.work = {}]]
         IN  /\ Nest(new) /\ Len(new) = Len(stk) /\ new # <<>>
             /\ new[Len(new)].kind = stk[Len(stk)].kind
             /\ SubSeq(new, 1, Len(new) - 1) = SubSeq(stk, 1, Len(stk) - 1)
             /\ Depth(new) = Depth(stk) /\ Scopes(new) = Scopes(stk)
             /\ WorkOf(new) = WorkOf(SubSeq(stk, 1, Len(stk) - 1))
             /\ \A m : Levels(m, stk) => Levels(m, new)
<1> DEFINE n == Len(stk)
           new == [stk EXCEPT ![n] = [@ EXCEPT !.tried = TRUE, !.work = {}]]
<1>1. stk \in Seq(Frame) /\ n \in Nat /\ n > 0 /\ n \in 1..n /\ DOMAIN stk = 1..n
  BY DEF Nest
<1>2. PICK f \in Frame : f = stk[n]
  BY <1>1
<1> DEFINE g == [f EXCEPT !.tried = TRUE, !.work = {}]
<1>3. g \in Frame /\ g.kind = f.kind /\ g.work = {}
  BY <1>2 DEF Frame
<1>4. new = [stk EXCEPT ![n] = g]
  BY <1>1, <1>2
<1> HIDE DEF g, new
<1>5. /\ new \in Seq(Frame) /\ Len(new) = n /\ new # <<>>
      /\ \A i \in 1..(n - 1) : new[i] = stk[i]
      /\ new[n] = g
  <2>1. [stk EXCEPT ![n] = g] \in [1..n -> Frame]
    BY <1>1, <1>3
  <2> QED
    BY <1>1, <1>3, <1>4, <2>1
<1>6. /\ Nest(new) /\ Depth(new) = Depth(stk) /\ Scopes(new) = Scopes(stk)
      /\ \A m : Levels(m, stk) => Levels(m, new)
      /\ WorkOf(new) = WorkOf(SubSeq(stk, 1, n - 1)) \cup g.work
      /\ SubSeq(new, 1, n - 1) = SubSeq(stk, 1, n - 1)
  <2>1. /\ \A i \in 1..(n - 1) : new[i] = stk[i]
        /\ \A i \in 1..(n - 1) : stk[i].work \cap new[n].work = {}
        /\ new[n].kind = stk[n].kind /\ new[n].work = {} /\ Len(new) = n
    BY <1>2, <1>3, <1>5
  <2>2. new \in Seq(Frame)
    BY <1>5
  <2> QED
    BY <1>5, <2>1, <2>2, NestTop
<1> QED
  BY <1>2, <1>3, <1>5, <1>6 DEF new

------------------------------------------------------------------------------
(* What the storage's handlers do to the session *)

\* The savepoints of the server and the names the storage keeps of them, in
\* the order in which the storage generates them: savepoint_0, savepoint_1...
Numbered(s) ==
  /\ Len(s.svps) = Len(s.marks)
  /\ \A i \in 1..Len(s.svps) : s.svps[i] = i - 1 /\ s.marks[i].name = i - 1

\* No transaction, with or without a connection.
Idle(s) ==
  /\ s \in Session /\ s.dbh \in {"none", "live"}
  /\ ~s.open /\ s.work = {} /\ s.depth = 0
  /\ s.svps = <<>> /\ s.marks = <<>>

\* A transaction, with a savepoint for each level but the first.
Busy(s) ==
  /\ s \in Session /\ s.dbh = "live"
  /\ s.open /\ s.depth > 0
  /\ Numbered(s) /\ Len(s.marks) = s.depth - 1

\* A transaction that has just begun.
Started(s) == Busy(s) /\ s.err = "none" /\ s.depth = 1 /\ s.work = {}

\* The mark a new level leaves, and the levels without the last.
Mark(s) == [name |-> Len(s.svps), work |-> s.work]
Cut(seq) == SubSeq(seq, 1, Len(seq) - 1)

\* The connection is not lost: a statement is done, or refused.
LEMMA NestedStatement ==
  ASSUME NestedUse, NEW s, NEW fault, NEW done, NEW t \in Statement(s, fault, done)
  PROVE  \/ s.dbh = "live" /\ t = done
         \/ t = Fail(s) /\ (s.dbh = "live" => fault \in Faults)
BY DEF Statement, NestedUse

LEMMA Failed ==
  ASSUME NEW s \in Session
  PROVE  /\ Fail(s) \in Session /\ Fail(s).err = "error"
         /\ Idle(s) => Idle(Fail(s))
         /\ Busy(s) => Busy(Fail(s))
         /\ Fail(s).dbh = s.dbh /\ Fail(s).depth = s.depth /\ Fail(s).open = s.open
         /\ Fail(s).work = s.work /\ Fail(s).marks = s.marks /\ Fail(s).svps = s.svps
         /\ Fail(s).committed = s.committed
BY DEF Fail, Session, Idle, Busy, Numbered

\* What the application catches leaves the storage as it is.
LEMMA NestedCaught ==
  ASSUME NEW s \in Session
  PROVE  /\ Caught(s) \in Session /\ Caught(s).err = "none"
         /\ Idle(s) => Idle(Caught(s))
         /\ Busy(s) => Busy(Caught(s))
         /\ Caught(s).dbh = s.dbh /\ Caught(s).depth = s.depth /\ Caught(s).open = s.open
         /\ Caught(s).work = s.work /\ Caught(s).marks = s.marks
         /\ Caught(s).committed = s.committed
         /\ s.err \in {"none", "error", "nested"}
BY DEF Caught, Session, Idle, Busy, Numbered

LEMMA NestedPopulate ==
  ASSUME NEW s, Idle(s), s.err = "none", s.dbh = "none", NEW t \in populate_dbh(s)
  PROVE  /\ Idle(t) /\ t.committed = s.committed
         /\ \/ t.err = "none" /\ t.dbh = "live"
            \/ t.err = "error" /\ t.dbh = "none"
<1> DEFINE up == [s EXCEPT !.dbh = "live", !.depth = 0]
           down == Fail([s EXCEPT !.dbh = "none"])
<1>1. t = up \/ t = down
  BY DEF populate_dbh
<1>2. Idle(up) /\ up.committed = s.committed /\ up.err = "none" /\ up.dbh = "live"
  BY DEF Idle, Session
<1>3. Idle(down) /\ down.committed = s.committed /\ down.err = "error" /\ down.dbh = "none"
  BY DEF Idle, Session, Fail
<1> QED
  BY <1>1, <1>2, <1>3

LEMMA NestedGetDbh ==
  ASSUME NEW s, s.err = "none", NEW t \in get_dbh(s)
  PROVE  /\ Idle(s) => /\ Idle(t) /\ t.committed = s.committed
                       /\ (t.err = "none" /\ t.dbh = "live") \/ t.err = "error"
         /\ Busy(s) => t = s
<1>1. CASE s.dbh = "none"
  <2>1. ~Busy(s)
    BY <1>1 DEF Busy
  <2> QED
    BY <1>1, <2>1, NestedPopulate DEF get_dbh
<1>2. CASE s.dbh # "none"
  BY <1>2 DEF get_dbh, Idle
<1> QED
  BY <1>1, <1>2

LEMMA NestedBegin ==
  ASSUME NestedUse, NEW s, Idle(s), s.err = "none", NEW t \in BEGIN(s)
  PROVE  /\ t.committed = s.committed /\ t.dbh = s.dbh
         /\ \/ t.err = "none" /\ t = [s EXCEPT !.open = TRUE] /\ s.dbh = "live"
            \/ t.err = "error" /\ Idle(t)
<1> DEFINE done == [s EXCEPT !.open = TRUE]
<1>1. (s.dbh = "live" /\ t = done) \/ t = Fail(s)
  BY NestedStatement DEF BEGIN, Idle
<1>2. done.err = "none" /\ done.committed = s.committed /\ done.dbh = s.dbh
  BY DEF Idle, Session
<1>3. Idle(Fail(s)) /\ Fail(s).err = "error" /\ Fail(s).committed = s.committed /\ Fail(s).dbh = s.dbh
  BY Failed DEF Idle
<1> QED
  BY <1>1, <1>2, <1>3

\* Whatever way BEGIN is sent: the session is still idle, or a transaction is
\* open and not yet counted.
LEMMA NestedBeginWork ==
  ASSUME NestedUse, NEW s, Idle(s), s.err = "none", NEW in_do \in BOOLEAN,
         NEW t \in dbh_begin_work(s, in_do)
  PROVE  \/ Idle(t) /\ t.err = "error" /\ t.committed = s.committed
         \/ \E c : /\ Idle(c) /\ c.dbh = "live" /\ c.err = "none"
                   /\ c.committed = s.committed /\ t = [c EXCEPT !.open = TRUE]
<1>1. CASE in_do
  BY <1>1, NestedBegin DEF dbh_begin_work
<1>2. CASE ~in_do
  <2>1. PICK c \in get_dbh(s) : t \in (IF c.err = "none"
            THEN UNION {IF u.err = "none" \/ connected(u) THEN {u}
                        ELSE Then(populate_dbh(Caught(u)), LAMBDA r : Code(r, BeginWork))
                          : u \in Code(c, BeginWork)}
            ELSE {c})
    <3>1. \A c \in get_dbh(s) : c.depth = 0
      BY NestedGetDbh DEF Idle
    <3> QED
      BY <1>2, <3>1 DEF dbh_begin_work, dbh_do, Then
  <2>2. /\ Idle(c) /\ c.committed = s.committed
        /\ (c.err = "none" /\ c.dbh = "live") \/ c.err = "error"
    BY <2>1, NestedGetDbh
  <2>3. CASE c.err # "none"
    BY <2>1, <2>2, <2>3
  <2>4. CASE c.err = "none"
    <3>1. PICK u \in BEGIN(c) : t \in (IF u.err = "none" \/ connected(u) THEN {u}
                  ELSE Then(populate_dbh(Caught(u)), LAMBDA r : Code(r, BeginWork)))
      BY <2>1, <2>4 DEF Code
    <3>2. /\ u.committed = s.committed /\ u.dbh = "live"
          /\ \/ u = [c EXCEPT !.open = TRUE]
             \/ u.err = "error" /\ Idle(u)
      BY <2>2, <2>4, <3>1, NestedBegin
    <3>3. t = u
      BY <3>1, <3>2 DEF connected
    <3> QED
      BY <2>2, <2>4, <3>2, <3>3
  <2> QED
    BY <2>3, <2>4
<1> QED
  BY <1>1, <1>2

LEMMA NestedTxnBegin ==
  ASSUME NestedUse, NEW s, s.err = "none", NEW in_do \in BOOLEAN,
         NEW t \in txn_begin(s, in_do), Idle(s)
  PROVE  /\ t.committed = s.committed
         /\ Started(t) \/ (Idle(t) /\ t.err = "error")
<1>1. PICK u \in dbh_begin_work(s, in_do) :
        t = IF u.err = "none" THEN [u EXCEPT !.depth = @ + 1] ELSE u
  BY DEF txn_begin, Then, Idle
<1>2. CASE Idle(u) /\ u.err = "error" /\ u.committed = s.committed
  BY <1>1, <1>2
<1>3. ASSUME NEW c, Idle(c), c.dbh = "live", c.err = "none",
             c.committed = s.committed, u = [c EXCEPT !.open = TRUE]
      PROVE  t.committed = s.committed /\ Started(t)
  <2>1. /\ u \in Session /\ u.dbh = "live" /\ u.open /\ u.depth = 0 /\ u.work = {}
        /\ u.svps = <<>> /\ u.marks = <<>> /\ u.err = "none" /\ u.committed = s.committed
    BY <1>3 DEF Idle, Session
  <2>4. t = [u EXCEPT !.depth = @ + 1]
    BY <1>1, <2>1
  <2>2. t \in Session /\ t.dbh = "live" /\ t.open /\ t.depth = 1 /\ t.work = {}
          /\ t.svps = <<>> /\ t.marks = <<>> /\ t.err = "none" /\ t.committed = s.committed
    BY <2>1, <2>4 DEF Session
  <2>3. Numbered(t) /\ Len(t.marks) = 0
    BY <2>2 DEF Numbered
  <2> QED
    BY <2>2, <2>3 DEF Started, Busy
<1> QED
  BY <1>2, <1>3, NestedBeginWork

\* An inner scope is a savepoint; nothing can refuse it.
LEMMA NestedSave ==
  ASSUME NestedUse, NEW s, s.err = "none", NEW in_do \in BOOLEAN,
         NEW t \in txn_begin(s, in_do), Busy(s)
  PROVE  /\ Busy(t) /\ t.err = "none" /\ t.depth = s.depth + 1
         /\ t.marks = Append(s.marks, Mark(s)) /\ Mark(s).work = s.work
         /\ Mark(s) \in [name : Nat, work : SUBSET Writes]
         /\ t.work = s.work /\ t.committed = s.committed
<1> DEFINE n == Len(s.svps)
           x == Mark(s)
           names == Append(s.svps, n)
           marks == Append(s.marks, x)
           b == [s EXCEPT !.svps = Append(@, n)]
           a == [b EXCEPT !.marks = Append(@, [name |-> n, work |-> b.work])]
<1>1. /\ s.depth \in Nat /\ s.depth # 0 /\ s.depth > 0 /\ n \in Nat
      /\ s.svps \in Seq(Nat) /\ s.marks \in Seq([name : Nat, work : SUBSET Writes])
      /\ s.work \in SUBSET Writes /\ Len(s.marks) = n /\ n = s.depth - 1
      /\ s \in Session /\ s.dbh = "live" /\ s.open
      /\ \A i \in 1..n : s.svps[i] = i - 1 /\ s.marks[i].name = i - 1
  BY DEF Busy, Session, Numbered
<1>2. x \in [name : Nat, work : SUBSET Writes] /\ x.name = n /\ x.work = s.work
  BY <1>1 DEF Mark
<1>3. /\ names \in Seq(Nat) /\ Len(names) = n + 1 /\ names[n + 1] = n
      /\ \A i \in 1..n : names[i] = s.svps[i]
  BY <1>1
<1>4. /\ marks \in Seq([name : Nat, work : SUBSET Writes]) /\ Len(marks) = n + 1
      /\ marks[n + 1] = x
      /\ \A i \in 1..n : marks[i] = s.marks[i]
  <2> HIDE DEF x
  <2> QED
    BY <1>1, <1>2
<1>5. b = [s EXCEPT !.svps = names] /\ a = [b EXCEPT !.marks = marks]
  BY <1>1 DEF Mark, Session
<1>6. svp_begin(s, Default) = Then(get_dbh(b), LAMBDA u : SAVEPOINT(u, n))
  BY <1>1 DEF svp_begin, svp_generate_name
<1>7. SAVEPOINT(b, n) = Statement(b, "savepointError",
        IF b.open THEN a ELSE b)
  BY DEF SAVEPOINT
<1> HIDE DEF names, marks, a, b, x
<1>8. /\ b \in Session /\ b.err = "none" /\ b.dbh = "live" /\ b.open /\ b.work = s.work
      /\ b.svps = names /\ b.depth = s.depth /\ b.committed = s.committed
  BY <1>1, <1>3, <1>5 DEF Session
<1>9. /\ a \in Session /\ a.err = "none" /\ a.dbh = "live" /\ a.open /\ a.work = s.work
      /\ a.svps = names /\ a.marks = marks /\ a.depth = s.depth /\ a.committed = s.committed
  BY <1>4, <1>5, <1>8 DEF Session
<1>10. svp_begin(s, Default) = {a}
  <2>1. get_dbh(b) = {b}
    BY <1>8 DEF get_dbh
  <2>2. SAVEPOINT(b, n) = {a}
    BY <1>7, <1>8 DEF Statement, NestedUse
  <2> QED
    BY <1>6, <1>8, <2>1, <2>2 DEF Then
<1>11. t = [a EXCEPT !.depth = @ + 1]
  BY <1>1, <1>9, <1>10 DEF txn_begin, Then, NestedUse
<1>12. /\ t \in Session /\ t.err = "none" /\ t.dbh = "live" /\ t.open /\ t.work = s.work
       /\ t.svps = names /\ t.marks = marks /\ t.depth = s.depth + 1
       /\ t.committed = s.committed
  <2>1. a.depth + 1 \in Nat /\ a.depth + 1 = s.depth + 1
    BY <1>1, <1>9
  <2>2. t = [a EXCEPT !.depth = a.depth + 1]
    BY <1>9, <1>11 DEF Session
  <2> QED
    BY <1>9, <2>1, <2>2 DEF Session
<1>13. \A i \in 1..(n + 1) : names[i] = i - 1 /\ marks[i].name = i - 1
  <2>1. names[n + 1] = (n + 1) - 1 /\ marks[n + 1].name = (n + 1) - 1
    BY <1>1, <1>2, <1>3, <1>4
  <2>2. ASSUME NEW i \in 1..n PROVE names[i] = i - 1 /\ marks[i].name = i - 1
    BY <1>1, <1>3, <1>4
  <2> TAKE i \in 1..(n + 1)
  <2>3. i \in 1..n \/ i = n + 1
    BY <1>1
  <2>4. CASE i \in 1..n
    BY <2>2, <2>4
  <2>5. CASE i = n + 1
    BY <2>1, <2>5, Zenon
  <2> QED
    BY <2>3, <2>4, <2>5
<1>14. Numbered(t) /\ Len(t.marks) = t.depth - 1
  <2>1. Len(t.svps) = n + 1 /\ Len(t.marks) = n + 1 /\ t.depth - 1 = n + 1
    BY <1>1, <1>3, <1>4, <1>12
  <2>2. \A i \in 1..Len(t.svps) : t.svps[i] = i - 1 /\ t.marks[i].name = i - 1
    BY <1>12, <1>13, <2>1
  <2> QED
    BY <2>1, <2>2 DEF Numbered
<1> QED
  BY <1>1, <1>2, <1>12, <1>14 DEF Busy, marks, x

LEMMA NestedAttempt ==
  ASSUME NestedUse, NEW s, s.err = "none", NEW t \in txn_do_attempt(s)
  PROVE  /\ Idle(s) => /\ t.committed = s.committed
                       /\ Started(t) \/ (Idle(t) /\ t.err = "error")
         /\ Busy(s) => /\ Busy(t) /\ t.err = "none" /\ t.depth = s.depth + 1
                       /\ t.marks = Append(s.marks, Mark(s)) /\ Mark(s).work = s.work
                       /\ Mark(s) \in [name : Nat, work : SUBSET Writes]
                       /\ t.work = s.work /\ t.committed = s.committed
<1>1. PICK c \in get_dbh(s) : t \in (IF c.err = "none" THEN txn_begin(c, TRUE) ELSE {c})
  BY DEF txn_do_attempt, Then
<1>2. CASE Idle(s)
  <2>1. Idle(c) /\ c.committed = s.committed /\ (c.err = "none" \/ c.err = "error") /\ ~Busy(s)
    BY <1>1, <1>2, NestedGetDbh DEF Idle, Busy
  <2>2. CASE c.err = "error"
    BY <1>1, <2>1, <2>2
  <2>3. CASE c.err = "none"
    BY <1>1, <2>1, <2>3, NestedTxnBegin
  <2> QED
    BY <2>1, <2>2, <2>3
<1>3. CASE Busy(s)
  <2>1. c = s /\ ~Idle(s)
    BY <1>1, <1>3, NestedGetDbh DEF Idle, Busy
  <2>2. t \in txn_begin(s, TRUE)
    BY <1>1, <2>1
  <2> QED
    BY <1>3, <2>1, <2>2, NestedSave
<1> QED
  BY <1>2, <1>3

\* A session in a level of its own, whatever the depth says.
Level(s) ==
  /\ s \in Session /\ s.err = "none" /\ s.dbh = "live" /\ s.open
  /\ s.depth > 0 /\ Numbered(s) /\ Len(s.svps) > 0

\* The storage's last name is the server's last savepoint.
LEMMA LastLevel ==
  ASSUME NEW s, Level(s)
  PROVE  LET n == Len(s.svps)
         IN  /\ n \in Nat /\ n > 0 /\ s.depth \in Nat
             /\ Len(s.marks) = n /\ n \in 1..n
             /\ s.svps \in Seq(Nat) /\ s.marks \in Seq([name : Nat, work : SUBSET Writes])
             /\ svp_position(s, Default) = n
             /\ s.svps[n] = n - 1
             /\ {i \in DOMAIN s.marks : s.marks[i].name = s.svps[n]} = {n}
             /\ Greatest({n}) = n
<1> DEFINE n == Len(s.svps)
<1>1. /\ s.svps \in Seq(Nat) /\ s.marks \in Seq([name : Nat, work : SUBSET Writes])
      /\ n \in Nat /\ n > 0 /\ s.depth \in Nat /\ Len(s.marks) = n /\ n \in 1..n
      /\ DOMAIN s.svps = 1..n /\ DOMAIN s.marks = 1..n
      /\ \A i \in 1..n : s.svps[i] = i - 1 /\ s.marks[i].name = i - 1
  BY DEF Level, Session, Numbered
<1> HIDE DEF n
<1>2. {i \in 1..n : s.marks[i].name = s.svps[n]} = {n}
  <2>1. \A i \in 1..n : i - 1 = n - 1 <=> i = n
    BY <1>1
  <2> QED
    BY <1>1, <2>1
<1>3. Greatest(1..n) = n
  <2>1. \A j \in 1..n : j <= n
    BY <1>1
  <2>2. \A i \in 1..n : n <= i => i = n
    BY <1>1
  <2>3. \A i \in 1..n : (\A j \in 1..n : j <= i) => i = n
    BY <1>1, <2>2
  <2> QED
    BY <1>1, <2>1, <2>3 DEF Greatest
<1>4. Greatest({n}) = n
  BY <1>1 DEF Greatest
<1>5. svp_position(s, Default) = n
  <2>1. 1..n # {}
    BY <1>1
  <2> QED
    BY <1>1, <1>3, <2>1 DEF svp_position
<1> QED
  BY <1>1, <1>2, <1>4, <1>5 DEF n

LEMMA ElementIn ==
  ASSUME NEW S, NEW seq \in Seq(S), NEW i \in 1..Len(seq)
  PROVE  seq[i] \in S
OBVIOUS

LEMMA CutOutcome ==
  ASSUME NEW S, NEW seq \in Seq(S), Len(seq) > 0
  PROVE  /\ Cut(seq) \in Seq(S) /\ Len(Cut(seq)) = Len(seq) - 1 /\ Len(seq) \in Nat
         /\ \A i \in 1..(Len(seq) - 1) : Cut(seq)[i] = seq[i]
         /\ SubSeq(seq, 1, Len(seq)) = seq
<1> DEFINE n == Len(seq)
<1>1. n \in Nat /\ n > 0 /\ n - 1 \in Nat /\ n - 1 <= n
  OBVIOUS
<1>2. /\ Cut(seq) \in Seq(S) /\ Len(Cut(seq)) = n - 1
      /\ \A i \in 1..(n - 1) : Cut(seq)[i] = seq[i]
  <2>1. Cut(seq) = SubSeq(seq, 1, n - 1)
    BY DEF Cut
  <2> HIDE DEF n
  <2>2. n = Len(seq)
    BY DEF n
  <2> QED
    BY <1>1, <2>1, <2>2
<1>3. SubSeq(seq, 1, n) = seq
  <2>1. /\ SubSeq(seq, 1, n) \in Seq(S) /\ Len(SubSeq(seq, 1, n)) = n
        /\ \A i \in 1..n : SubSeq(seq, 1, n)[i] = seq[i]
    BY <1>1
  <2> QED
    BY <2>1, SeqEqual
<1> QED
  BY <1>1, <1>2, <1>3

LEMMA ReleaseLast ==
  ASSUME NestedUse, NEW s, Level(s), NEW t \in svp_release(s, Default)
  PROVE  /\ t \in Session /\ t.err = "none" /\ t.dbh = "live" /\ t.open
         /\ t.depth = s.depth /\ t.work = s.work /\ t.committed = s.committed
         /\ Numbered(t) /\ t.marks = Cut(s.marks)
<1> DEFINE n == Len(s.svps)
           names == Cut(s.svps)
           marks == Cut(s.marks)
           b == [s EXCEPT !.svps = SubSeq(@, 1, n - 1)]
           a == [b EXCEPT !.marks = SubSeq(@, 1, n - 1)]
           at == {i \in DOMAIN b.marks : b.marks[i].name = s.svps[n]}
<1>1. /\ n \in Nat /\ n > 0 /\ Len(s.marks) = n /\ svp_position(s, Default) = n
      /\ {i \in DOMAIN s.marks : s.marks[i].name = s.svps[n]} = {n} /\ Greatest({n}) = n
      /\ s.svps \in Seq(Nat) /\ s.marks \in Seq([name : Nat, work : SUBSET Writes])
  BY LastLevel
<1>2. /\ s \in Session /\ s.err = "none" /\ s.dbh = "live" /\ s.open /\ s.depth # 0
      /\ \A i \in 1..n : s.svps[i] = i - 1 /\ s.marks[i].name = i - 1
  BY DEF Level, Numbered
<1>3. /\ names \in Seq(Nat) /\ Len(names) = n - 1 /\ \A i \in 1..(n - 1) : names[i] = s.svps[i]
      /\ marks \in Seq([name : Nat, work : SUBSET Writes]) /\ Len(marks) = n - 1
      /\ \A i \in 1..(n - 1) : marks[i] = s.marks[i]
  BY <1>1, CutOutcome
<1>4. b = [s EXCEPT !.svps = names]
  BY <1>2 DEF Cut, Session
<1>5. b.marks = s.marks
  BY <1>2 DEF Session
<1>6. a = [b EXCEPT !.marks = marks]
  BY <1>1, <1>2, <1>5 DEF Cut, Session
<1>7. svp_release(s, Default) = Then(get_dbh(b), LAMBDA u : RELEASE_SAVEPOINT(u, s.svps[n]))
  BY <1>1, <1>2 DEF svp_release
<1>8. RELEASE_SAVEPOINT(b, s.svps[n]) =
        IF at = {} THEN {Fail(b)}
        ELSE Statement(b, "savepointError", [b EXCEPT !.marks = SubSeq(@, 1, Greatest(at) - 1)])
  BY DEF RELEASE_SAVEPOINT, ToSavepoint, Positions
<1>9. at = {n}
  BY <1>1, <1>5
<1>10. RELEASE_SAVEPOINT(b, s.svps[n]) = Statement(b, "savepointError", a)
  BY <1>1, <1>8, <1>9
<1> HIDE DEF names, marks, a, b, at, n
<1>11. /\ b \in Session /\ b.err = "none" /\ b.dbh = "live" /\ b.open /\ b.work = s.work
       /\ b.svps = names /\ b.depth = s.depth /\ b.committed = s.committed
  BY <1>2, <1>3, <1>4 DEF Session
<1>12. /\ a \in Session /\ a.err = "none" /\ a.dbh = "live" /\ a.open /\ a.work = s.work
       /\ a.svps = names /\ a.marks = marks /\ a.depth = s.depth /\ a.committed = s.committed
  BY <1>3, <1>6, <1>11 DEF Session
<1>13. t = a
  <2>1. get_dbh(b) = {b}
    BY <1>11 DEF get_dbh
  <2>2. RELEASE_SAVEPOINT(b, s.svps[n]) = {a}
    BY <1>10, <1>11 DEF Statement, NestedUse
  <2> QED
    BY <1>7, <1>11, <2>1, <2>2 DEF Then
<1>14. Numbered(a)
  <2>1. \A i \in 1..(n - 1) : i \in 1..n
    BY <1>1
  <2> QED
    BY <1>2, <1>3, <1>12, <2>1 DEF Numbered
<1> QED
  BY <1>12, <1>13, <1>14 DEF marks

LEMMA RollbackLast ==
  ASSUME NestedUse, NEW s, Level(s), NEW t \in svp_rollback(s, Default)
  PROVE  /\ Level(t) /\ t.depth = s.depth /\ t.committed = s.committed
         /\ t.marks = s.marks /\ t.svps = s.svps
         /\ t.work = s.marks[Len(s.marks)].work
<1> DEFINE n == Len(s.svps)
           work == s.marks[n].work
           b == [s EXCEPT !.svps = SubSeq(@, 1, n)]
           a == [b EXCEPT !.marks = SubSeq(@, 1, n), !.work = b.marks[n].work]
           at == {i \in DOMAIN b.marks : b.marks[i].name = s.svps[n]}
<1>1. /\ n \in Nat /\ n > 0 /\ n \in 1..n /\ Len(s.marks) = n /\ svp_position(s, Default) = n
      /\ {i \in DOMAIN s.marks : s.marks[i].name = s.svps[n]} = {n} /\ Greatest({n}) = n
      /\ s.svps \in Seq(Nat) /\ s.marks \in Seq([name : Nat, work : SUBSET Writes])
  BY LastLevel
<1>2. /\ s \in Session /\ s.err = "none" /\ s.dbh = "live" /\ s.open /\ s.depth # 0
      /\ s.depth > 0 /\ Numbered(s)
  BY DEF Level
<1>3. work \in SUBSET Writes
  <2>1. s.marks[n] \in [name : Nat, work : SUBSET Writes]
    BY <1>1, ElementIn
  <2> QED
    BY <2>1
<1>4. SubSeq(s.svps, 1, n) = s.svps /\ SubSeq(s.marks, 1, n) = s.marks
  BY <1>1, CutOutcome
<1>5. b = s
  BY <1>2, <1>4 DEF Session
<1>6. svp_rollback(s, Default) = Then(get_dbh(b), LAMBDA u : ROLLBACK_TO_SAVEPOINT(u, s.svps[n]))
  BY <1>1, <1>2 DEF svp_rollback
<1>7. ROLLBACK_TO_SAVEPOINT(b, s.svps[n]) =
        IF at = {} THEN {Fail(b)}
        ELSE Statement(b, "savepointError",
               [b EXCEPT !.marks = SubSeq(@, 1, Greatest(at)), !.work = b.marks[Greatest(at)].work])
  BY DEF ROLLBACK_TO_SAVEPOINT, ToSavepoint, Positions
<1>8. at = {n}
  BY <1>1, <1>5
<1>9. ROLLBACK_TO_SAVEPOINT(b, s.svps[n]) = Statement(b, "savepointError", a)
  BY <1>1, <1>7, <1>8
<1>10. a = [s EXCEPT !.work = work]
  BY <1>2, <1>4, <1>5 DEF Session
<1> HIDE DEF a, b, at, n, work
<1>11. t = a
  <2>1. get_dbh(s) = {s}
    BY <1>2 DEF get_dbh
  <2>2. ROLLBACK_TO_SAVEPOINT(s, s.svps[n]) = {a}
    BY <1>2, <1>5, <1>9 DEF Statement, NestedUse
  <2> QED
    BY <1>2, <1>5, <1>6, <2>1, <2>2 DEF Then
<1>12. /\ a \in Session /\ a.err = "none" /\ a.dbh = "live" /\ a.open /\ a.depth = s.depth
       /\ a.committed = s.committed /\ a.marks = s.marks /\ a.svps = s.svps /\ a.work = work
  BY <1>2, <1>3, <1>10 DEF Session
<1>13. Level(a)
  BY <1>1, <1>2, <1>12 DEF Level, Numbered, n
<1> QED
  BY <1>1, <1>11, <1>12, <1>13 DEF work

\* The level below that of an inner scope.
LEMMA InnerLevel ==
  ASSUME NEW s, Busy(s), s.err = "none", s.depth > 1
  PROVE  /\ Level(Inner(s)) /\ Inner(s).depth = s.depth - 1
         /\ Inner(s).work = s.work /\ Inner(s).marks = s.marks /\ Inner(s).svps = s.svps
         /\ Inner(s).committed = s.committed
         /\ Len(s.marks) > 0 /\ s.depth \in Nat
         /\ s.marks \in Seq([name : Nat, work : SUBSET Writes])
<1>1. /\ s \in Session /\ s.depth \in Nat /\ s.depth - 1 \in Nat /\ s.depth - 1 > 0
      /\ s.dbh = "live" /\ s.open /\ Numbered(s) /\ Len(s.marks) = s.depth - 1
      /\ s.marks \in Seq([name : Nat, work : SUBSET Writes])
  BY DEF Busy, Session
<1>2. Inner(s) = [s EXCEPT !.depth = s.depth - 1]
  BY <1>1 DEF Inner, Session
<1>3. /\ Inner(s) \in Session /\ Inner(s).depth = s.depth - 1 /\ Inner(s).err = "none"
      /\ Inner(s).dbh = "live" /\ Inner(s).open
      /\ Inner(s).work = s.work /\ Inner(s).marks = s.marks /\ Inner(s).svps = s.svps
      /\ Inner(s).committed = s.committed
  BY <1>1, <1>2 DEF Session
<1>4. Numbered(Inner(s)) /\ Len(s.svps) = Len(s.marks)
  BY <1>1, <1>3 DEF Numbered
<1> QED
  BY <1>1, <1>3, <1>4 DEF Level

LEMMA NestedCommit ==
  ASSUME NestedUse, NEW s, Busy(s), s.err = "none", NEW t \in txn_commit(s)
  PROVE  /\ s.depth = 1 =>
              \/ Idle(t) /\ t.err = "none" /\ t.committed = s.committed \cup s.work
              \/ t = Fail(s)
         /\ s.depth > 1 =>
              /\ Busy(t) /\ t.err = "none" /\ t.depth = s.depth - 1
              /\ t.marks = Cut(s.marks) /\ t.work = s.work /\ t.committed = s.committed
<1>0. s \in Session /\ s.depth \in Nat /\ s.depth > 0 /\ s.dbh = "live" /\ s.open
  BY DEF Busy, Session
<1>1. CASE s.depth = 1
  <2> DEFINE done == [Closed(s) EXCEPT !.committed = @ \cup s.work]
             end == [done EXCEPT !.depth = 0]
  <2>1. PICK u \in dbh_commit(s) : t = IF u.err = "none" THEN [u EXCEPT !.depth = 0] ELSE u
    BY <1>1 DEF txn_commit, Then
  <2>2. u \in Statement(s, "commitError", done)
    BY <1>0, <2>1 DEF dbh_commit, connected, COMMIT, NestedUse
  <2>3. u = done \/ u = Fail(s)
    BY <2>2, NestedStatement
  <2>4. s.svps = <<>> /\ s.marks = <<>>
    <3>1. /\ s.svps \in Seq(Nat) /\ s.marks \in Seq([name : Nat, work : SUBSET Writes])
          /\ Len(s.marks) = 0 /\ Len(s.svps) = 0
      BY <1>0, <1>1 DEF Busy, Numbered, Session
    <3> QED
      BY <3>1, EmptySeq
  <2>5. done.err = "none" /\ end.err = "none" /\ end.committed = s.committed \cup s.work
    BY <1>0 DEF Closed, Session
  <2>6. Idle(end)
    BY <1>0, <2>4 DEF Closed, Session, Idle
  <2>7. Fail(s).err = "error"
    BY <1>0, Failed
  <2> HIDE DEF done, end
  <2>8. CASE u = done
    <3>1. t = end
      BY <2>1, <2>5, <2>8 DEF end
    <3> QED
      BY <1>1, <2>5, <2>6, <3>1
  <2>9. CASE u = Fail(s)
    BY <1>1, <2>1, <2>7, <2>9
  <2> QED
    BY <2>3, <2>8, <2>9
<1>2. CASE s.depth > 1
  <2>0. s.depth # 0 /\ s.depth # 1
    BY <1>0, <1>2
  <2>1. t \in svp_release(Inner(s), Default)
    BY <2>0 DEF txn_commit, NestedUse
  <2>2. /\ t \in Session /\ t.err = "none" /\ t.dbh = "live" /\ t.open
        /\ t.depth = s.depth - 1 /\ t.work = s.work /\ t.committed = s.committed
        /\ Numbered(t) /\ t.marks = Cut(s.marks)
    BY <1>2, <2>1, InnerLevel, ReleaseLast
  <2>3. Len(t.marks) = Len(s.marks) - 1 /\ Len(s.marks) = s.depth - 1
    BY <1>2, <2>2, InnerLevel, CutOutcome DEF Busy
  <2> QED
    BY <1>0, <1>2, <2>2, <2>3 DEF Busy
<1> QED
  BY <1>0, <1>1, <1>2

LEMMA NestedRollback ==
  ASSUME NestedUse, NEW s, s.err = "none", NEW t \in txn_rollback(s)
  PROVE  /\ Idle(s) => Idle(t) /\ t.committed = s.committed
         /\ Busy(s) /\ s.depth = 1 => Idle(t) /\ t.err = "none" /\ t.committed = s.committed
         /\ Busy(s) /\ s.depth > 1 =>
              /\ Busy(t) /\ t.err = "none" /\ t.depth = s.depth - 1
              /\ t.marks = Cut(s.marks) /\ t.work = s.marks[Len(s.marks)].work
              /\ t.committed = s.committed
<1>1. CASE Idle(s)
  <2>1. txn_rollback(s) = RolledBack({[s EXCEPT !.err = "nested"]})
    BY <1>1 DEF txn_rollback, Idle
  <2>2. [s EXCEPT !.err = "nested"].err = "nested" /\ Idle([s EXCEPT !.err = "nested"])
    BY <1>1 DEF Idle, Session
  <2>3. t = [s EXCEPT !.err = "nested"]
    BY <2>1, <2>2 DEF RolledBack
  <2>4. t.committed = s.committed /\ ~Busy(s)
    BY <1>1, <2>3 DEF Idle, Session, Busy
  <2> QED
    BY <2>2, <2>3, <2>4
<1>2. CASE Busy(s) /\ s.depth = 1
  <2> DEFINE z == [s EXCEPT !.depth = 0]
             end == Closed(z)
  <2>0. s \in Session /\ s.dbh = "live" /\ s.open
    BY <1>2 DEF Busy
  <2>1. txn_rollback(s) = RolledBack(dbh_rollback(z))
    BY <1>2 DEF txn_rollback, rollback_outermost
  <2>2. dbh_rollback(z) = Statement(z, "rollbackError", end)
    BY <2>0 DEF dbh_rollback, ROLLBACK, connected, Session
  <2>3. Statement(z, "rollbackError", end) = {end}
    BY <2>0 DEF Statement, NestedUse, Session
  <2>4. s.svps = <<>> /\ s.marks = <<>>
    <3>1. /\ s.svps \in Seq(Nat) /\ s.marks \in Seq([name : Nat, work : SUBSET Writes])
          /\ Len(s.marks) = 0 /\ Len(s.svps) = 0
      BY <1>2 DEF Busy, Numbered, Session
    <3> QED
      BY <3>1, EmptySeq
  <2>5. end.err = "none" /\ end.committed = s.committed
    BY <1>2, <2>0 DEF Closed, Session
  <2>6. Idle(end)
    BY <1>2, <2>0, <2>4 DEF Closed, Session, Idle
  <2> HIDE DEF end, z
  <2>7. t = end
    BY <2>1, <2>2, <2>3, <2>5 DEF RolledBack
  <2>8. ~Idle(s)
    BY <1>2 DEF Idle, Busy
  <2> QED
    BY <1>2, <2>5, <2>6, <2>7, <2>8
<1>3. CASE Busy(s) /\ s.depth > 1
  <2>1. /\ Level(Inner(s)) /\ Inner(s).depth = s.depth - 1 /\ Inner(s).marks = s.marks
        /\ Inner(s).committed = s.committed /\ Len(s.marks) > 0 /\ s.depth \in Nat
        /\ s.marks \in Seq([name : Nat, work : SUBSET Writes])
    BY <1>3, InnerLevel
  <2>2. txn_rollback(s) = RolledBack(rollback_inner(Inner(s)))
    BY <1>3, <2>1 DEF txn_rollback
  <2>3. rollback_inner(Inner(s)) =
          Then(svp_rollback(Inner(s), Default), LAMBDA u : svp_release(u, Default))
    BY DEF rollback_inner, NestedUse
  <2>4. PICK v \in rollback_inner(Inner(s)) : t = IF v.err = "error" THEN [v EXCEPT !.depth = 0] ELSE v
    BY <2>2 DEF RolledBack
  <2>5. PICK u \in svp_rollback(Inner(s), Default) :
          v \in IF u.err = "none" THEN svp_release(u, Default) ELSE {u}
    BY <2>3, <2>4 DEF Then
  <2>6. /\ Level(u) /\ u.depth = s.depth - 1 /\ u.committed = s.committed
        /\ u.marks = s.marks /\ u.work = s.marks[Len(s.marks)].work
    BY <2>1, <2>5, RollbackLast
  <2>7. v \in svp_release(u, Default)
    BY <2>5, <2>6 DEF Level
  <2>8. /\ v \in Session /\ v.err = "none" /\ v.dbh = "live" /\ v.open
        /\ v.depth = s.depth - 1 /\ v.work = s.marks[Len(s.marks)].work
        /\ v.committed = s.committed /\ Numbered(v) /\ v.marks = Cut(s.marks)
    BY <2>6, <2>7, ReleaseLast
  <2>9. t = v
    BY <2>4, <2>8
  <2>10. Len(v.marks) = Len(s.marks) - 1 /\ Len(s.marks) = s.depth - 1
    BY <1>3, <2>1, <2>8, CutOutcome DEF Busy
  <2>11. Busy(v)
    BY <1>3, <2>1, <2>8, <2>10 DEF Busy
  <2>12. ~Idle(s)
    BY <1>3 DEF Idle, Busy
  <2> QED
    BY <1>3, <2>8, <2>9, <2>11, <2>12
<1>4. Busy(s) => s.depth = 1 \/ s.depth > 1
  BY DEF Busy, Session
<1> QED
  BY <1>1, <1>2, <1>3, <1>4

\* One write, in the transaction there is or on its own.
LEMMA NestedWrite ==
  ASSUME NestedUse, NEW s, Idle(s) \/ Busy(s), s.err = "none", NEW w \in Writes,
         NEW t \in WRITE(s, w)
  PROVE  \/ /\ t.err = "none" /\ s.dbh = "live" /\ t.dbh = "live"
            /\ Idle(s) => Idle(t) /\ t.committed = s.committed \cup {w}
            /\ Busy(s) => /\ Busy(t) /\ t.depth = s.depth /\ t.marks = s.marks
                          /\ t.work = s.work \cup {w} /\ t.committed = s.committed
         \/ t = Fail(s)
<1> DEFINE in == [s EXCEPT !.work = @ \cup {w}]
           alone == [s EXCEPT !.committed = @ \cup {w}]
<1>1. (s.dbh = "live" /\ t = IF s.open THEN in ELSE alone) \/ t = Fail(s)
  BY NestedStatement DEF WRITE
<1>2. /\ s \in Session /\ s.work \cup {w} \in SUBSET Writes
      /\ s.committed \cup {w} \in SUBSET Writes
  BY DEF Idle, Busy, Session
<1>3. Idle(s) => /\ ~s.open /\ ~Busy(s) /\ Idle(alone) /\ alone.err = "none"
                 /\ alone.committed = s.committed \cup {w} /\ alone.dbh = s.dbh
  BY <1>2 DEF Idle, Busy, Session
<1>4. Busy(s) => /\ s.open /\ ~Idle(s)
                 /\ Busy(in) /\ in.err = "none" /\ in.depth = s.depth /\ in.marks = s.marks
                 /\ in.work = s.work \cup {w} /\ in.committed = s.committed /\ in.dbh = s.dbh
  BY <1>2 DEF Idle, Busy, Session, Numbered
<1> HIDE DEF in, alone
<1> QED
  BY <1>1, <1>3, <1>4

\* dbh_do around a write: the connection is there, or made, or refused.
LEMMA NestedDbhDo ==
  ASSUME NestedUse, NEW s, Idle(s) \/ Busy(s), s.err = "none", NEW in_do \in BOOLEAN,
         NEW w \in Writes, NEW t \in dbh_do(s, in_do, w)
  PROVE  /\ Idle(s) => /\ Idle(t)
                       /\ \/ t.err = "none" /\ t.committed = s.committed \cup {w}
                          \/ t.err = "error" /\ t.committed = s.committed
         /\ Busy(s) => /\ Busy(t) /\ t.depth = s.depth /\ t.marks = s.marks
                       /\ t.committed = s.committed
                       /\ \/ t.err = "none" /\ t.work = s.work \cup {w}
                          \/ t.err = "error" /\ t.work = s.work
<1>0. \A d : Code(d, w) = WRITE(d, w)
  BY StorageAssumption DEF Code, BeginWork, Writes, StorageAssumption
<1>1. PICK c \in get_dbh(s) : t \in (IF c.err = "none"
         THEN IF in_do \/ c.depth > 0 THEN Code(c, w)
              ELSE UNION {IF u.err = "none" \/ connected(u) THEN {u}
                          ELSE Then(populate_dbh(Caught(u)), LAMBDA r : Code(r, w)) : u \in Code(c, w)}
         ELSE {c})
  BY DEF dbh_do, Then
<1>2. /\ Idle(s) => /\ Idle(c) /\ c.committed = s.committed
                    /\ (c.err = "none" /\ c.dbh = "live") \/ c.err = "error"
      /\ Busy(s) => c = s
  BY <1>1, NestedGetDbh
<1>3. Idle(s) => ~Busy(s)
  BY DEF Idle, Busy
<1>4. CASE c.err # "none"
  <2>1. t = c /\ Idle(s)
    BY <1>1, <1>2, <1>4
  <2> QED
    BY <1>2, <1>3, <1>4, <2>1
<1>5. CASE c.err = "none"
  <2>1. (Idle(c) \/ Busy(c)) /\ c.dbh = "live" /\ c \in Session
    BY <1>2, <1>5 DEF Idle, Busy
  <2>2. \A u \in WRITE(c, w) : u.dbh = "live"
    BY <1>5, <2>1, NestedWrite, Failed
  <2>3. t \in WRITE(c, w)
    <3>1. CASE in_do \/ c.depth > 0
      BY <1>0, <1>1, <1>5, <3>1
    <3>2. CASE ~(in_do \/ c.depth > 0)
      <4>1. PICK u \in WRITE(c, w) : t \in (IF u.err = "none" \/ connected(u) THEN {u}
               ELSE Then(populate_dbh(Caught(u)), LAMBDA r : Code(r, w)))
        BY <1>0, <1>1, <1>5, <3>2
      <4> QED
        BY <2>2, <4>1 DEF connected
    <3> QED
      BY <3>1, <3>2
  <2>4. \/ /\ t.err = "none"
           /\ Idle(c) => Idle(t) /\ t.committed = c.committed \cup {w}
           /\ Busy(c) => /\ Busy(t) /\ t.depth = c.depth /\ t.marks = c.marks
                         /\ t.work = c.work \cup {w} /\ t.committed = c.committed
        \/ t = Fail(c)
    BY <1>5, <2>1, <2>3, NestedWrite
  <2>5. /\ Fail(c).err = "error" /\ (Idle(c) => Idle(Fail(c))) /\ (Busy(c) => Busy(Fail(c)))
        /\ Fail(c).depth = c.depth /\ Fail(c).work = c.work /\ Fail(c).marks = c.marks
        /\ Fail(c).committed = c.committed
    BY <2>1, Failed
  <2> QED
    BY <1>2, <1>3, <2>4, <2>5
<1> QED
  BY <1>4, <1>5

------------------------------------------------------------------------------
(* The inductive invariant *)

\* Every write has one fate, and the next one is new.
Fates(durable, open, gone, next) ==
  /\ durable \cap open = {} /\ durable \cap gone = {} /\ open \cap gone = {}
  /\ \A w \in durable \cup open \cup gone : w < next

\* The depth counts the scopes and the savepoints their levels, the session's
\* transaction holds exactly the writes of the application's blocks, and what
\* it would go back to at each level are the writes around it.
NestedInv ==
  /\ Idle(st) \/ Busy(st)
  /\ st.err = "none"
  /\ Nest(stack) /\ Len(stack) <= MaxFrames
  /\ exc \in {"none", "error", "rollbackFailed"}
  /\ nextw \in 1..(MaxWrites + 1)
  /\ aborted \subseteq undone /\ undone \subseteq Writes
  /\ st.depth = Depth(stack) \/ BeginFailed
  /\ Levels(st.marks, stack)
  /\ st.open => st.work = WorkOf(stack)
  /\ claims = st.committed
  /\ Fates(st.committed, WorkOf(stack), undone, nextw)

\* In a running application there is a transaction exactly in a scope.
LEMMA NestedRunning ==
  ASSUME NestedInv, st.depth = Depth(stack)
  PROVE  /\ st \in Session /\ st.depth \in Nat
         /\ Idle(st) <=> Scopes(stack) = {}
         /\ Busy(st) <=> Scopes(stack) # {}
         /\ Idle(st) => st.depth = 0 /\ st.marks = <<>> /\ WorkOf(stack) = {}
         /\ Busy(st) => st.depth > 0 /\ st.work = WorkOf(stack)
<1>1. Nest(stack) /\ (Idle(st) \/ Busy(st)) /\ (st.open => st.work = WorkOf(stack))
  BY DEF NestedInv
<1>2. st.depth = 0 <=> Scopes(stack) = {}
  BY <1>1, NestScopes
<1>3. Scopes(stack) = {} => WorkOf(stack) = {}
  BY <1>1, NestScopes
<1>4. st \in Session /\ st.depth \in Nat
  BY <1>1 DEF Idle, Busy, Session
<1>5. (Idle(st) => st.depth = 0 /\ st.marks = <<>>) /\ (Busy(st) => st.depth > 0 /\ st.open)
  BY <1>1 DEF Idle, Busy
<1> QED
  BY <1>1, <1>2, <1>3, <1>4, <1>5

LEMMA RunningCounted ==
  ASSUME NestedInv, Running
  PROVE  st.depth = Depth(stack)
BY DEF NestedInv, BeginFailed

\* The blocks below the top one, with its writes and without.
LEMMA Remains ==
  ASSUME Nest(stack), stack # <<>>
  PROVE  /\ Nest(Below) /\ Top \in Frame /\ Top.kind # "bypass" /\ Len(stack) \in Nat
         /\ Len(Below) = Len(stack) - 1
         /\ WorkOf(stack) = WorkOf(Below) \cup Top.work
         /\ WorkOf(Below) \cap Top.work = {}
         /\ Depth(Below) = IF Top.kind = "eval" THEN Depth(stack) ELSE Depth(stack) - 1
         /\ Depth(Below) \in Nat
         /\ Depth(Below) = 0 <=> Scopes(Below) = {}
         /\ Scopes(Below) = {} => WorkOf(Below) = {} /\ WorkOf(stack) = Top.work
         /\ Top.kind = "eval" => Scopes(stack) = Scopes(Below)
         /\ Top.kind # "eval" => Scopes(stack) # {}
         /\ Nest(Merged) /\ Len(Merged) = Len(stack) - 1
         /\ Depth(Merged) = Depth(Below) /\ Scopes(Merged) = Scopes(Below)
         /\ WorkOf(Merged) = IF Scopes(Below) = {} THEN {} ELSE WorkOf(stack)
         /\ \A m : Levels(m, Below) => Levels(m, Merged)
<1>1. /\ Nest(Below) /\ Top \in Frame /\ Top.kind # "bypass" /\ Len(Below) = Len(stack) - 1
      /\ WorkOf(stack) = WorkOf(Below) \cup Top.work /\ WorkOf(Below) \cap Top.work = {}
      /\ Depth(Below) = IF Top.kind = "eval" THEN Depth(stack) ELSE Depth(stack) - 1
      /\ Top.kind = "eval" => Scopes(stack) = Scopes(Below)
      /\ Top.kind # "eval" => Scopes(stack) # {}
  BY NestPop DEF Below, Top
<1>2. /\ Depth(Below) \in Nat /\ (Depth(Below) = 0 <=> Scopes(Below) = {})
      /\ Scopes(Below) = {} => WorkOf(Below) = {}
      /\ Len(stack) \in Nat
  BY <1>1, NestScopes
<1>3. Top.work \in SUBSET Writes /\ Top.work \cap WorkOf(Below) = {}
  BY <1>1 DEF Frame
<1>4. CASE Scopes(Below) = {}
  BY <1>1, <1>2, <1>4 DEF Merged
<1>5. CASE Scopes(Below) # {}
  <2>1. Merged = AddWork(Below, Top.work)
    BY <1>5 DEF Merged
  <2>2. /\ Nest(Merged) /\ Len(Merged) = Len(Below) /\ Depth(Merged) = Depth(Below)
        /\ Scopes(Merged) = Scopes(Below) /\ WorkOf(Merged) = WorkOf(Below) \cup Top.work
        /\ \A m : Levels(m, Below) => Levels(m, Merged)
    BY <1>1, <1>3, <1>5, <2>1, NestAdd
  <2> QED
    BY <1>1, <1>2, <1>5, <2>2
<1> QED
  BY <1>4, <1>5

\* The savepoints once the top block is left.
LEMMA LevelsBelow ==
  ASSUME Nest(stack), stack # <<>>, NEW S, NEW m \in Seq(S), Levels(m, stack)
  PROVE  /\ Top.kind = "eval" => Levels(m, Below)
         /\ Depth(stack) = 1 => Levels(m, Below)
         /\ Top.kind # "eval" /\ Depth(stack) > 1 =>
              m[Len(m)].work = WorkOf(Below) /\ Levels(Cut(m), Below)
<1>1. Depth(stack) \in Nat
  BY NestScopes
<1> QED
  BY <1>1, LevelsPop DEF Top, Below, Cut

------------------------------------------------------------------------------
(* One lemma per action: it keeps NestedInv, and it is a step of AtomicTxn *)

\* A scope is entered: a transaction begins, or a savepoint is set.
LEMMA EnterStep ==
  ASSUME NestedUse, NestedInv, Running, Len(stack) < MaxFrames,
         NEW kind \in {"txn_do", "guard"}, stack' = Append(stack, NewFrame(kind)),
         UNCHANGED <<nextw, claims, aborted, undone>>,
         NEW s, st' = Caught(s), exc' = s.err, s.committed = st.committed, s.err = "none",
         Idle(st) => Started(s),
         Busy(st) => /\ Busy(s) /\ s.depth = st.depth + 1 /\ s.work = st.work
                     /\ s.marks = Append(st.marks, Mark(st)) /\ Mark(st).work = st.work
                     /\ Mark(st) \in [name : Nat, work : SUBSET Writes]
  PROVE  NestedInv' /\ PromiseStep
<1>1. /\ st.depth = Depth(stack) /\ Nest(stack) /\ Levels(st.marks, stack)
      /\ st \in Session /\ st.depth \in Nat /\ (Idle(st) \/ Busy(st))
      /\ Idle(st) <=> Scopes(stack) = {}
      /\ Busy(st) <=> Scopes(stack) # {}
      /\ Idle(st) => st.depth = 0 /\ st.marks = <<>> /\ WorkOf(stack) = {}
      /\ Busy(st) => st.depth > 0 /\ st.work = WorkOf(stack)
  BY RunningCounted, NestedRunning DEF NestedInv
<1>2. Busy(s) /\ s \in Session
  BY <1>1 DEF Started, Busy
<1>3. st' = s
  BY <1>2 DEF Caught, Session
<1>4. /\ Nest(stack') /\ NewFrame(kind) \in Frame
      /\ Len(stack') = Len(stack) + 1 /\ Depth(stack') = Depth(stack) + 1
      /\ Scopes(stack') # {} /\ WorkOf(stack') = WorkOf(stack) /\ Len(stack) \in Nat
  <2>1. kind \in {"txn_do", "guard", "eval"} /\ kind # "eval"
    OBVIOUS
  <2>2. LET new == Append(stack, NewFrame(kind))
        IN  /\ Nest(new) /\ NewFrame(kind) \in Frame
            /\ Len(new) = Len(stack) + 1
            /\ Depth(new) = Depth(stack) + 1
            /\ Scopes(new) = Scopes(stack) \cup {Len(new)}
            /\ WorkOf(new) = WorkOf(stack)
    BY ONLY <1>1, <2>1, NestPush
  <2> QED
    BY <1>1, <2>2, NestScopes
<1>5. /\ s.depth = st.depth + 1 /\ s.open /\ s.work = WorkOf(stack)
  BY <1>1, <1>2 DEF Started, Busy
<1>6. NewFrame(kind).kind = kind
  BY DEF NewFrame
<1>7. Levels(s.marks, stack')
  <2>1. CASE Idle(st)
    <3>1. s.marks = <<>>
      <4>1. s.marks \in Seq([name : Nat, work : SUBSET Writes]) /\ Len(s.marks) = 0
        BY <2>1 DEF Started, Busy, Session
      <4> QED
        BY <4>1, EmptySeq
    <3>2. Levels(s.marks, stack) /\ Depth(stack) = 0
      BY <1>1, <2>1, <3>1
    <3> QED
      BY <1>1, <1>4, <1>6, <3>2, LevelsPush
  <2>2. CASE Busy(st)
    <3>1. Depth(stack) # 0 /\ st.marks \in Seq([name : Nat, work : SUBSET Writes])
      BY <1>1, <2>2 DEF Session
    <3>2. Mark(st).work = WorkOf(stack)
      BY <1>1, <2>2
    <3>3. NewFrame(kind).kind \in {"txn_do", "guard"} /\ NewFrame(kind) \in Frame
      BY <1>4, <1>6
    <3>4. Levels(Append(st.marks, Mark(st)), Append(stack, NewFrame(kind)))
      BY <1>1, <2>2, <3>1, <3>2, <3>3, LevelsSave
    <3> QED
      BY <2>2, <3>4
  <2> QED
    BY <1>1, <2>1, <2>2
<1>8. Len(stack') <= MaxFrames
  BY <1>4, StorageAssumption DEF StorageAssumption
<1>9. NestedInv'
  BY <1>1, <1>2, <1>3, <1>4, <1>5, <1>7, <1>8 DEF NestedInv
<1>10. CASE Idle(st)
  <2>1. Promise!Begin
    BY <1>1, <1>3, <1>4, <1>10 DEF Promise!Begin, InScope, OpenWork
  <2> QED
    BY <1>9, <2>1 DEF PromiseStep, Promise!Next
<1>11. CASE Busy(st)
  BY <1>1, <1>3, <1>4, <1>9, <1>11 DEF PromiseStep, Promise!vars, InScope, OpenWork
<1> QED
  BY <1>1, <1>10, <1>11

LEMMA NestedTxnDoStep ==
  ASSUME NestedUse, NestedInv, TxnDo
  PROVE  NestedInv' /\ PromiseStep
<1>1. /\ Running /\ Len(stack) < MaxFrames /\ Nest(stack) /\ st.err = "none"
      /\ stack' = Append(stack, NewFrame("txn_do"))
      /\ UNCHANGED <<nextw, claims, aborted, undone>>
  BY DEF TxnDo, MayNest, Push, Bookless, NestedUse, NestedInv
<1>2. PICK s \in txn_do_attempt(st) : st' = Caught(s) /\ exc' = s.err
  BY DEF TxnDo, Settle, NestedUse
<1>3. /\ st.depth = Depth(stack) /\ (Idle(st) \/ Busy(st))
      /\ Idle(st) <=> Scopes(stack) = {}
      /\ Busy(st) <=> Scopes(stack) # {}
      /\ Idle(st) => st.depth = 0 /\ st.marks = <<>> /\ WorkOf(stack) = {}
  BY <1>1, RunningCounted, NestedRunning DEF NestedInv
<1>4. /\ Idle(st) => /\ s.committed = st.committed
                     /\ Started(s) \/ (Idle(s) /\ s.err = "error")
      /\ Busy(st) => /\ Busy(s) /\ s.err = "none" /\ s.depth = st.depth + 1
                     /\ s.marks = Append(st.marks, Mark(st)) /\ Mark(st).work = st.work
                     /\ Mark(st) \in [name : Nat, work : SUBSET Writes]
                     /\ s.work = st.work /\ s.committed = st.committed
  BY <1>1, <1>2, NestedAttempt
<1>5. CASE s.err = "none"
  <2>1. Idle(st) => Started(s)
    BY <1>4, <1>5
  <2>2. Started(s) => s.err = "none"
    BY DEF Started
  <2>3. "txn_do" \in {"txn_do", "guard"}
    OBVIOUS
  <2> QED
    BY <1>1, <1>2, <1>3, <1>4, <1>5, <2>1, <2>3, EnterStep
<1>6. CASE s.err # "none"
  <2>1. Idle(st) /\ Idle(s) /\ s.err = "error" /\ s.committed = st.committed
    BY <1>3, <1>4, <1>6 DEF Started
  <2>2. /\ Idle(st') /\ st'.err = "none" /\ st'.committed = st.committed /\ exc' = "error"
        /\ st'.depth = 0 /\ st'.marks = <<>> /\ ~st'.open
    BY <1>2, <2>1, NestedCaught DEF Idle
  <2>3. LET new == Append(stack, NewFrame("txn_do"))
        IN  /\ Nest(new) /\ NewFrame("txn_do") \in Frame
            /\ Len(new) = Len(stack) + 1 /\ new # <<>> /\ new[Len(new)].kind = "txn_do"
            /\ SubSeq(new, 1, Len(new) - 1) = stack
            /\ Scopes(new) = Scopes(stack) \cup {Len(new)}
            /\ WorkOf(new) = WorkOf(stack)
    BY ONLY <1>1, "txn_do" \in {"txn_do", "guard", "eval"}, "txn_do" # "eval", NestPush
  <2>4. /\ Nest(stack') /\ NewFrame("txn_do") \in Frame
        /\ Len(stack') = Len(stack) + 1 /\ Scopes(stack') # {} /\ WorkOf(stack') = {}
        /\ stack' # <<>> /\ stack'[Len(stack')].kind = "txn_do"
        /\ Scopes(SubSeq(stack', 1, Len(stack') - 1)) = {}
    BY <1>1, <1>3, <2>1, <2>3
  <2>5. BeginFailed'
    BY <2>2, <2>4 DEF BeginFailed, Running, Top, Below
  <2>6. Levels(st'.marks, stack')
    <3>1. Levels(st'.marks, stack) /\ Depth(stack) = 0
      BY <1>3, <2>1, <2>2 DEF NestedInv
    <3>2. NewFrame("txn_do").kind # "bypass"
      BY DEF NewFrame
    <3> QED
      BY <1>1, <2>4, <3>1, <3>2, LevelsPush
  <2>7. Len(stack') <= MaxFrames
    BY <1>1, <2>4, NestScopes, StorageAssumption DEF StorageAssumption
  <2>8. NestedInv'
    BY <1>1, <1>3, <2>1, <2>2, <2>4, <2>5, <2>6, <2>7 DEF NestedInv
  <2>9. Promise!Begin
    BY <1>1, <1>3, <2>1, <2>2, <2>4 DEF Promise!Begin, InScope, OpenWork
  <2> QED
    BY <2>8, <2>9 DEF PromiseStep, Promise!Next
<1> QED
  BY <1>5, <1>6

LEMMA NestedGuardNewStep ==
  ASSUME NestedUse, NestedInv, GuardNew
  PROVE  NestedInv' /\ PromiseStep
<1>1. /\ Running /\ Len(stack) < MaxFrames /\ Nest(stack) /\ st.err = "none"
      /\ UNCHANGED <<nextw, claims, aborted, undone>>
  BY DEF GuardNew, MayNest, Bookless, NestedInv
<1>2. PICK s \in txn_begin(st, in_dbh_do) :
        /\ st' = Caught(s) /\ exc' = s.err
        /\ IF s.err = "none" THEN stack' = Append(stack, NewFrame("guard")) ELSE UNCHANGED stack
  BY DEF GuardNew, Settle, Push
<1>3. /\ st.depth = Depth(stack) /\ (Idle(st) \/ Busy(st)) /\ in_dbh_do \in BOOLEAN
      /\ Idle(st) => st.depth = 0 /\ st.marks = <<>>
  BY <1>1, RunningCounted, NestedRunning DEF NestedInv, in_dbh_do
<1>4. Idle(st) => /\ s.committed = st.committed
                  /\ Started(s) \/ (Idle(s) /\ s.err = "error")
  BY <1>1, <1>2, <1>3, NestedTxnBegin
<1>5. Busy(st) => /\ Busy(s) /\ s.err = "none" /\ s.depth = st.depth + 1
                  /\ s.marks = Append(st.marks, Mark(st)) /\ Mark(st).work = st.work
                  /\ Mark(st) \in [name : Nat, work : SUBSET Writes]
                  /\ s.work = st.work /\ s.committed = st.committed
  BY <1>1, <1>2, <1>3, NestedSave
<1>6. CASE s.err = "none"
  <2>1. Idle(st) => Started(s)
    BY <1>4, <1>6
  <2>2. "guard" \in {"txn_do", "guard"}
    OBVIOUS
  <2> QED
    BY <1>1, <1>2, <1>3, <1>4, <1>5, <1>6, <2>1, <2>2, EnterStep
<1>7. CASE s.err # "none"
  <2>1. Idle(st) /\ Idle(s) /\ s.err = "error" /\ s.committed = st.committed /\ stack' = stack
    BY <1>2, <1>3, <1>4, <1>5, <1>7 DEF Started
  <2>2. /\ Idle(st') /\ st'.err = "none" /\ st'.committed = st.committed /\ exc' = "error"
        /\ st'.depth = 0 /\ st'.marks = <<>> /\ ~st'.open
    BY <1>2, <2>1, NestedCaught DEF Idle
  <2>3. NestedInv'
    BY <1>1, <1>3, <2>1, <2>2 DEF NestedInv
  <2> QED
    BY <1>1, <2>1, <2>2, <2>3 DEF PromiseStep, Promise!vars, InScope, OpenWork
<1> QED
  BY <1>6, <1>7

LEMMA NestedEvalBeginStep ==
  ASSUME NestedUse, NestedInv, EvalBegin
  PROVE  NestedInv' /\ PromiseStep
<1>1. /\ Running /\ Len(stack) < MaxFrames /\ Nest(stack)
      /\ stack' = Append(stack, NewFrame("eval"))
      /\ UNCHANGED <<st, exc, nextw, claims, aborted, undone>>
  BY DEF EvalBegin, MayNest, Push, Bookless, NestedInv
<1>2. st.depth = Depth(stack) /\ Levels(st.marks, stack)
  BY <1>1, RunningCounted DEF NestedInv
<1>3. /\ Nest(stack') /\ NewFrame("eval") \in Frame
      /\ Len(stack') = Len(stack) + 1 /\ Depth(stack') = Depth(stack)
      /\ Scopes(stack') = Scopes(stack) /\ WorkOf(stack') = WorkOf(stack)
  BY <1>1, NestPush
<1>4. NewFrame("eval").kind = "eval"
  BY DEF NewFrame
<1>5. Levels(st.marks, stack')
  BY <1>1, <1>2, <1>3, <1>4, LevelsPush
<1>6. Len(stack') <= MaxFrames
  BY <1>1, <1>3, NestScopes, StorageAssumption DEF StorageAssumption
<1>7. NestedInv'
  BY <1>1, <1>2, <1>3, <1>5, <1>6 DEF NestedInv
<1> QED
  BY <1>1, <1>3, <1>7 DEF PromiseStep, Promise!vars, InScope, OpenWork

\* A scope fails: its writes are undone, and only they. The blocks below are
\* what is left, and the session is where it was when the scope was entered.
LEMMA UndoneStep ==
  ASSUME NestedUse, NestedInv, stack # <<>>, Top.kind # "eval", GiveUp,
         Idle(st') \/ Busy(st'), st'.err = "none", st'.committed = st.committed,
         exc' \in {"none", "error", "rollbackFailed"}, UNCHANGED nextw,
         st'.depth = Depth(Below), Levels(st'.marks, Below),
         st'.open => st'.work = WorkOf(Below)
  PROVE  NestedInv' /\ PromiseStep
<1>1. /\ stack' = Below /\ claims' = claims /\ undone' = undone \cup Top.work
      /\ aborted' = IF Scopes(Below) = {} THEN aborted \cup Top.work ELSE aborted
  BY DEF GiveUp, Disown, NestedUse
<1>2. /\ Nest(stack) /\ Nest(Below) /\ Len(Below) = Len(stack) - 1 /\ Len(stack) \in Nat
      /\ WorkOf(stack) = WorkOf(Below) \cup Top.work /\ WorkOf(Below) \cap Top.work = {}
      /\ Scopes(stack) # {}
      /\ Scopes(Below) = {} => WorkOf(Below) = {} /\ WorkOf(stack) = Top.work
      /\ Top \in Frame
  BY Remains DEF NestedInv
<1>3. Top.work \subseteq Writes
  BY <1>2 DEF Frame
<1>4. Fates(st.committed, WorkOf(Below), undone \cup Top.work, nextw)
  BY <1>2 DEF NestedInv, Fates
<1>5. Len(Below) <= MaxFrames
  BY <1>2, StorageAssumption DEF NestedInv, StorageAssumption
<1>6. NestedInv'
  BY <1>1, <1>2, <1>3, <1>4, <1>5 DEF NestedInv
<1>7. CASE Scopes(Below) = {}
  <2>1. Promise!Abort
    BY <1>1, <1>2, <1>7 DEF Promise!Abort, InScope, OpenWork, NestedUse
  <2> QED
    BY <1>6, <2>1 DEF PromiseStep, Promise!Next
<1>8. CASE Scopes(Below) # {}
  <2>1. Promise!Undo(Top.work)
    BY <1>1, <1>2, <1>8 DEF Promise!Undo, InScope, OpenWork, NestedUse
  <2>2. Top.work \in SUBSET (IF InScope THEN OpenWork ELSE {})
    BY <1>2 DEF InScope, OpenWork
  <2> QED
    BY <1>6, <2>1, <2>2 DEF PromiseStep, Promise!Next
<1> QED
  BY <1>7, <1>8

LEMMA NestedRolledBackStep ==
  ASSUME NestedUse, NestedInv, stack # <<>>, Top.kind \in {"txn_do", "guard"}, GiveUp,
         NEW s \in txn_rollback(st), st' = Caught(s),
         exc' \in {"none", "error", "rollbackFailed"}, UNCHANGED nextw
  PROVE  NestedInv' /\ PromiseStep
<1>1. /\ Nest(stack) /\ st.err = "none" /\ (Idle(st) \/ Busy(st)) /\ Levels(st.marks, stack)
      /\ Top.kind # "eval"
  BY DEF NestedInv
<1>2. /\ Depth(Below) = Depth(stack) - 1 /\ Depth(Below) \in Nat /\ Depth(stack) \in Nat
      /\ Scopes(stack) # {}
      /\ Depth(Below) = 0 <=> Scopes(Below) = {}
      /\ Scopes(Below) = {} => WorkOf(Below) = {}
  BY <1>1, Remains, NestScopes
<1>3. Depth(stack) # 0
  BY <1>1, <1>2, NestScopes
<1>4. /\ Idle(st) => Idle(s) /\ s.committed = st.committed
      /\ Busy(st) /\ st.depth = 1 => Idle(s) /\ s.err = "none" /\ s.committed = st.committed
      /\ Busy(st) /\ st.depth > 1 =>
           /\ Busy(s) /\ s.err = "none" /\ s.depth = st.depth - 1
           /\ s.marks = Cut(st.marks) /\ s.work = st.marks[Len(st.marks)].work
           /\ s.committed = st.committed
  BY <1>1, NestedRollback
<1>5. ASSUME Idle(s), s.committed = st.committed, Depth(stack) = 1, st.marks = <<>>
      PROVE  NestedInv' /\ PromiseStep
  <2>1. /\ Idle(st') /\ st'.err = "none" /\ st'.committed = st.committed
        /\ st'.depth = 0 /\ st'.marks = <<>> /\ ~st'.open
    BY <1>5, NestedCaught DEF Idle
  <2>2. st.marks \in Seq([name : Nat, work : SUBSET Writes])
    BY <1>1 DEF Idle, Busy, Session
  <2>3. Levels(st'.marks, Below)
    BY <1>1, <1>5, <2>1, <2>2, LevelsBelow
  <2> QED
    BY <1>1, <1>2, <1>5, <2>1, <2>3, UndoneStep
<1>6. CASE Idle(st)
  <2>1. st.depth = 0 /\ st.marks = <<>> /\ Idle(s) /\ s.committed = st.committed
    BY <1>4, <1>6 DEF Idle
  <2>2. BeginFailed
    BY <1>3, <2>1 DEF NestedInv
  <2>3. Depth(stack) = 1
    BY <1>2, <2>2 DEF BeginFailed
  <2> QED
    BY <1>5, <2>1, <2>3
<1>7. CASE Busy(st)
  <2>1. /\ st.depth \in Nat /\ st.depth > 0 /\ st.marks \in Seq([name : Nat, work : SUBSET Writes])
        /\ Len(st.marks) = st.depth - 1
    BY <1>7 DEF Busy, Session
  <2>2. st.depth = Depth(stack)
    BY <2>1 DEF NestedInv, BeginFailed
  <2>3. CASE st.depth = 1
    <3>1. st.marks = <<>>
      BY <2>1, <2>3, EmptySeq
    <3> QED
      BY <1>4, <1>5, <1>7, <2>2, <2>3, <3>1
  <2>4. CASE st.depth > 1
    <3>1. /\ Busy(s) /\ s.err = "none" /\ s.depth = st.depth - 1
          /\ s.marks = Cut(st.marks) /\ s.work = st.marks[Len(st.marks)].work
          /\ s.committed = st.committed /\ s \in Session
      BY <1>4, <1>7, <2>4 DEF Busy
    <3>2. st' = s
      BY <3>1 DEF Caught, Session
    <3>3. st.marks[Len(st.marks)].work = WorkOf(Below) /\ Levels(Cut(st.marks), Below)
      BY <1>1, <2>1, <2>2, <2>4, LevelsBelow
    <3> QED
      BY <1>1, <1>2, <2>2, <3>1, <3>2, <3>3, UndoneStep
  <2> QED
    BY <2>1, <2>3, <2>4
<1> QED
  BY <1>1, <1>6, <1>7

LEMMA NestedGuardAbandonStep ==
  ASSUME NestedUse, NestedInv, GuardAbandon
  PROVE  NestedInv' /\ PromiseStep
BY NestedRolledBackStep DEF GuardAbandon, NestedInv

\* An eval block is left, normally or by the exception it catches.
LEMMA NestedLeaveStep ==
  ASSUME NestedUse, NestedInv, stack # <<>>, Top.kind = "eval", Succeed,
         UNCHANGED <<st, nextw>>, exc' \in {"none", "error", "rollbackFailed"}
  PROVE  NestedInv' /\ PromiseStep
<1>1. /\ stack' = Merged /\ UNCHANGED <<aborted, undone>>
      /\ claims' = IF Scopes(Below) = {} THEN claims \cup Top.work ELSE claims
  BY DEF Succeed
<1>2. /\ Nest(stack) /\ Levels(st.marks, stack) /\ (Idle(st) \/ Busy(st))
      /\ st.depth = Depth(stack)
  BY DEF NestedInv, BeginFailed
<1>3. /\ Nest(Merged) /\ Len(Merged) = Len(stack) - 1 /\ Len(stack) \in Nat
      /\ Depth(Merged) = Depth(stack) /\ Scopes(Merged) = Scopes(stack)
      /\ Scopes(stack) = Scopes(Below)
      /\ Scopes(Below) = {} => WorkOf(stack) = Top.work
      /\ WorkOf(Merged) = IF Scopes(Below) = {} THEN {} ELSE WorkOf(stack)
      /\ \A m : Levels(m, Below) => Levels(m, Merged)
  BY <1>2, Remains
<1>4. Scopes(stack) = {} => WorkOf(stack) = {}
  BY <1>2, NestScopes
<1>5. WorkOf(Merged) = WorkOf(stack) /\ claims' = claims
  BY <1>1, <1>3, <1>4
<1>6. Levels(st.marks, Merged)
  <2>1. st.marks \in Seq([name : Nat, work : SUBSET Writes])
    BY <1>2 DEF Idle, Busy, Session
  <2> QED
    BY <1>2, <1>3, <2>1, LevelsBelow
<1>7. Len(stack') <= MaxFrames
  BY <1>1, <1>3, StorageAssumption DEF NestedInv, StorageAssumption
<1>8. NestedInv'
  BY <1>1, <1>2, <1>3, <1>5, <1>6, <1>7 DEF NestedInv
<1> QED
  BY <1>1, <1>3, <1>5, <1>8 DEF PromiseStep, Promise!vars, InScope, OpenWork

LEMMA NestedReturnStep ==
  ASSUME NestedUse, NestedInv, Return
  PROVE  NestedInv' /\ PromiseStep
<1>1. /\ Running /\ stack # <<>> /\ Nest(stack) /\ st.err = "none" /\ UNCHANGED nextw
      /\ st.depth = Depth(stack) /\ Levels(st.marks, stack)
  BY RunningCounted DEF Return, NestedInv
<1>2. /\ Top \in Frame /\ Top.kind # "bypass" /\ Len(stack) \in Nat
      /\ Depth(Below) = IF Top.kind = "eval" THEN Depth(stack) ELSE Depth(stack) - 1
      /\ Depth(Below) = 0 <=> Scopes(Below) = {}
      /\ Scopes(Below) = {} => WorkOf(Below) = {} /\ WorkOf(stack) = Top.work
      /\ Top.kind # "eval" => Scopes(stack) # {}
      /\ Nest(Merged) /\ Len(Merged) = Len(stack) - 1
      /\ Depth(Merged) = Depth(Below) /\ Scopes(Merged) = Scopes(Below)
      /\ WorkOf(Merged) = IF Scopes(Below) = {} THEN {} ELSE WorkOf(stack)
      /\ \A m : Levels(m, Below) => Levels(m, Merged)
  BY <1>1, Remains
<1>3. PICK s \in IF Top.kind \in {"txn_do", "guard"} THEN txn_commit(st) ELSE {st} :
        /\ st' = Caught(s) /\ exc' = s.err
        /\ IF s.err = "none" THEN Succeed ELSE Bookless /\ UNCHANGED stack
  BY DEF Return, Settle
<1>4. CASE Top.kind = "eval"
  <2>1. s = st /\ Succeed /\ exc' = "none"
    BY <1>1, <1>3, <1>4
  <2>2. st' = st
    BY <1>1, <1>3, <2>1 DEF Caught, Session, NestedInv, Idle, Busy
  <2> QED
    BY <1>1, <1>4, <2>1, <2>2, NestedLeaveStep
<1>5. CASE Top.kind # "eval"
  <2>1. s \in txn_commit(st)
    BY <1>2, <1>3, <1>5 DEF Frame
  <2>2. Busy(st) /\ st.work = WorkOf(stack) /\ st.depth \in Nat /\ st \in Session /\ st.open
    BY <1>1, <1>2, <1>5, NestedRunning DEF Busy
  <2>3. /\ st.depth = 1 =>
             \/ Idle(s) /\ s.err = "none" /\ s.committed = st.committed \cup st.work
             \/ s = Fail(st)
        /\ st.depth > 1 =>
             /\ Busy(s) /\ s.err = "none" /\ s.depth = st.depth - 1
             /\ s.marks = Cut(st.marks) /\ s.work = st.work /\ s.committed = st.committed
    BY <1>1, <2>1, <2>2, NestedCommit
  <2>4. st.marks \in Seq([name : Nat, work : SUBSET Writes]) /\ Len(st.marks) = st.depth - 1 /\ st.depth > 0
    BY <2>2 DEF Busy, Session
  <2>5. Len(Merged) <= MaxFrames
    BY <1>2, StorageAssumption DEF NestedInv, StorageAssumption
  <2>6. CASE st.depth > 1
    <3>1. st' = s /\ exc' = "none" /\ Succeed /\ Busy(s) /\ s.depth = st.depth - 1
            /\ s.marks = Cut(st.marks) /\ s.work = st.work /\ s.committed = st.committed
            /\ s.err = "none"
      BY <1>3, <2>3, <2>6 DEF Caught, Session, Busy
    <3>2. Scopes(Below) # {} /\ Scopes(stack) # {}
      BY <1>1, <1>2, <1>5, <2>2, <2>6
    <3>3. stack' = Merged /\ UNCHANGED <<claims, aborted, undone>>
      BY <3>1, <3>2 DEF Succeed
    <3>4. Levels(Cut(st.marks), Merged)
      BY <1>1, <1>2, <1>5, <2>4, <2>6, LevelsBelow
    <3>5. NestedInv'
      BY <1>1, <1>2, <1>5, <2>2, <2>5, <3>1, <3>2, <3>3, <3>4 DEF NestedInv
    <3> QED
      BY <1>2, <3>1, <3>2, <3>3, <3>5 DEF PromiseStep, Promise!vars, InScope, OpenWork
  <2>7. CASE st.depth = 1 /\ s.err = "none"
    <3>0. Fail(st).err = "error"
      BY <2>2, Failed
    <3>1. /\ Idle(s) /\ s.committed = st.committed \cup st.work /\ exc' = "none" /\ Succeed
      BY <1>3, <2>3, <2>7, <3>0
    <3>2. st' = s /\ st'.depth = 0 /\ st'.marks = <<>> /\ ~st'.open
      BY <1>3, <2>7, <3>1 DEF Caught, Session, Idle
    <3>3. Scopes(Below) = {} /\ WorkOf(stack) = Top.work /\ Depth(Merged) = 0
            /\ WorkOf(Merged) = {} /\ Scopes(stack) # {}
      BY <1>1, <1>2, <1>5, <2>7
    <3>4. stack' = Merged /\ claims' = claims \cup Top.work /\ UNCHANGED <<aborted, undone>>
      BY <3>1, <3>3 DEF Succeed
    <3>5. Levels(st'.marks, Merged)
      <4>1. st.marks = <<>>
        BY <2>4, <2>7, EmptySeq
      <4> QED
        BY <1>1, <1>2, <2>4, <2>7, <3>2, <4>1, LevelsBelow
    <3>6. Fates(st.committed \cup WorkOf(stack), {}, undone, nextw)
      BY DEF NestedInv, Fates
    <3>7. NestedInv'
      BY <1>1, <1>2, <2>2, <2>5, <2>7, <3>1, <3>2, <3>3, <3>4, <3>5, <3>6 DEF NestedInv
    <3>8. Promise!Commit
      BY <1>2, <2>2, <3>1, <3>2, <3>3, <3>4 DEF Promise!Commit, InScope, OpenWork, NestedUse
    <3> QED
      BY <3>7, <3>8 DEF PromiseStep, Promise!Next
  <2>8. CASE st.depth = 1 /\ s.err # "none"
    <3>1. s = Fail(st) /\ Bookless /\ stack' = stack
      BY <1>3, <2>3, <2>8
    <3>2. st' = st /\ exc' = "error"
      BY <1>1, <1>3, <2>2, <3>1 DEF Caught, Fail, Session
    <3>3. UNCHANGED <<claims, aborted, undone>>
      BY <3>1 DEF Bookless
    <3>4. NestedInv'
      BY <1>1, <3>1, <3>2, <3>3 DEF NestedInv
    <3> QED
      BY <3>1, <3>2, <3>3, <3>4 DEF PromiseStep, Promise!vars, InScope, OpenWork
  <2> QED
    BY <2>2, <2>4, <2>6, <2>7, <2>8
<1> QED
  BY <1>4, <1>5

LEMMA NestedWriteStep ==
  ASSUME NestedUse, NestedInv, Write
  PROVE  NestedInv' /\ PromiseStep
<1>1. /\ Running /\ nextw \in Writes /\ Nest(stack) /\ st.err = "none" /\ (Idle(st) \/ Busy(st))
      /\ st.depth = Depth(stack) /\ UNCHANGED <<aborted, undone>> /\ in_dbh_do \in BOOLEAN
  BY RunningCounted DEF Write, NestedInv, in_dbh_do
<1>2. /\ Idle(st) <=> Scopes(stack) = {}
      /\ Busy(st) <=> Scopes(stack) # {}
      /\ Idle(st) => st.depth = 0 /\ st.marks = <<>> /\ WorkOf(stack) = {}
      /\ Busy(st) => st.work = WorkOf(stack)
  BY <1>1, NestedRunning
<1>3. PICK s \in dbh_do(st, in_dbh_do, nextw) :
        /\ st' = Caught(s) /\ exc' = s.err
        /\ IF s.err # "none" THEN UNCHANGED <<stack, nextw, claims>>
           ELSE /\ nextw' = nextw + 1
                /\ IF InScope
                   THEN stack' = AddWork(stack, {nextw}) /\ UNCHANGED claims
                   ELSE claims' = claims \cup {nextw} /\ UNCHANGED stack
  BY DEF Write, Settle
<1>4. /\ Idle(st) => /\ Idle(s)
                     /\ \/ s.err = "none" /\ s.committed = st.committed \cup {nextw}
                        \/ s.err = "error" /\ s.committed = st.committed
      /\ Busy(st) => /\ Busy(s) /\ s.depth = st.depth /\ s.marks = st.marks
                     /\ s.committed = st.committed
                     /\ \/ s.err = "none" /\ s.work = st.work \cup {nextw}
                        \/ s.err = "error" /\ s.work = st.work
  BY <1>1, <1>3, NestedDbhDo
<1>5. /\ Idle(s) => Idle(st')
      /\ Busy(s) => Busy(st')
      /\ st'.err = "none" /\ st'.committed = s.committed /\ st'.depth = s.depth
      /\ st'.marks = s.marks /\ st'.work = s.work /\ st'.open = s.open
  <2>1. s \in Session
    BY <1>1, <1>4 DEF Idle, Busy
  <2> QED
    BY <1>3, <2>1, NestedCaught
<1>6. nextw + 1 \in 1..(MaxWrites + 1)
  BY <1>1, StorageAssumption DEF Writes, StorageAssumption
<1>7. /\ nextw \notin st.committed \cup WorkOf(stack) \cup undone
      /\ \A v \in st.committed \cup WorkOf(stack) \cup undone : v < nextw + 1
      /\ nextw < nextw + 1
  <2>1. st.committed \subseteq Writes
    BY <1>1 DEF Idle, Busy, Session
  <2>2. WorkOf(stack) \subseteq Writes /\ undone \subseteq Writes
    BY <1>1, NestScopes DEF NestedInv
  <2>3. \A v \in Writes : v \in Int
    BY StorageAssumption DEF Writes, StorageAssumption
  <2>4. nextw \in Int
    BY <1>1, <2>3
  <2>5. \A v \in st.committed \cup WorkOf(stack) \cup undone : v < nextw
    BY DEF NestedInv, Fates
  <2> HIDE DEF Writes
  <2> QED
    BY <2>1, <2>2, <2>3, <2>4, <2>5
<1>8. CASE s.err # "none"
  <2>1. /\ UNCHANGED <<stack, nextw, claims>> /\ exc' = "error" /\ st'.committed = st.committed
        /\ st'.marks = st.marks /\ st'.depth = st.depth /\ (Idle(st') \/ Busy(st'))
        /\ st'.open => st'.work = WorkOf(stack)
    BY <1>1, <1>2, <1>3, <1>4, <1>5, <1>8 DEF Idle
  <2>2. NestedInv'
    BY <1>1, <1>5, <2>1 DEF NestedInv
  <2> QED
    BY <1>1, <2>1, <2>2 DEF PromiseStep, Promise!vars, InScope, OpenWork
<1>9. CASE s.err = "none" /\ Idle(st)
  <2>1. /\ nextw' = nextw + 1 /\ claims' = claims \cup {nextw} /\ stack' = stack
        /\ st'.committed = st.committed \cup {nextw} /\ exc' = "none"
        /\ Idle(st') /\ ~st'.open /\ st'.depth = 0 /\ st'.marks = st.marks
    BY <1>2, <1>3, <1>4, <1>5, <1>9 DEF InScope, Idle
  <2>2. Fates(st.committed \cup {nextw}, WorkOf(stack), undone, nextw + 1)
    BY <1>7 DEF NestedInv, Fates
  <2>3. NestedInv'
    BY <1>1, <1>2, <1>5, <1>6, <1>9, <2>1, <2>2 DEF NestedInv
  <2>4. Promise!AutoCommit(nextw)
    BY <1>1, <1>2, <1>7, <1>9, <2>1
    DEF Promise!AutoCommit, Promise!Fresh, InScope, OpenWork, NestedUse
  <2> QED
    BY <1>1, <2>3, <2>4 DEF PromiseStep, Promise!Next
<1>10. CASE s.err = "none" /\ Busy(st)
  <2>1. /\ nextw' = nextw + 1 /\ UNCHANGED claims /\ stack' = AddWork(stack, {nextw})
        /\ st'.committed = st.committed /\ exc' = "none"
        /\ Busy(st') /\ st'.work = WorkOf(stack) \cup {nextw}
        /\ st'.depth = st.depth /\ st'.marks = st.marks
    BY <1>2, <1>3, <1>4, <1>5, <1>10 DEF InScope
  <2>2. Scopes(stack) # {} /\ {nextw} \in SUBSET Writes /\ {nextw} \cap WorkOf(stack) = {}
    BY <1>1, <1>2, <1>7, <1>10
  <2>3. /\ Nest(stack') /\ Len(stack') = Len(stack) /\ Depth(stack') = Depth(stack)
        /\ Scopes(stack') = Scopes(stack) /\ WorkOf(stack') = WorkOf(stack) \cup {nextw}
        /\ \A m : Levels(m, stack) => Levels(m, stack')
    BY <1>1, <2>1, <2>2, NestAdd
  <2>4. Fates(st.committed, WorkOf(stack) \cup {nextw}, undone, nextw + 1)
    BY <1>7 DEF NestedInv, Fates
  <2>5. NestedInv'
    BY <1>1, <1>5, <1>6, <2>1, <2>3, <2>4 DEF NestedInv
  <2>6. Promise!Write(nextw)
    BY <1>1, <1>7, <2>1, <2>2, <2>3
    DEF Promise!Write, Promise!Fresh, InScope, OpenWork, NestedUse
  <2> QED
    BY <1>1, <2>5, <2>6 DEF PromiseStep, Promise!Next
<1> QED
  BY <1>1, <1>8, <1>9, <1>10

LEMMA NestedThrowStep ==
  ASSUME NestedInv, Throw
  PROVE  NestedInv' /\ PromiseStep
<1>1. UNCHANGED <<st, stack, nextw, claims, aborted, undone>> /\ exc' = "error" /\ Running
  BY DEF Throw
<1>2. st.depth = Depth(stack)
  BY <1>1, RunningCounted
<1>3. NestedInv'
  BY <1>1, <1>2 DEF NestedInv
<1> QED
  BY <1>1, <1>3 DEF PromiseStep, Promise!vars, InScope, OpenWork

\* txn_do rolls back and rethrows, or it connects and starts again: then its
\* attempt had not got a connection.
LEMMA NestedUnwindTxnDoStep ==
  ASSUME NestedUse, NestedInv, stack # <<>>, UnwindTxnDo, UNCHANGED nextw
  PROVE  NestedInv' /\ PromiseStep
<1>1. /\ Top.kind = "txn_do" /\ Nest(stack) /\ st.err = "none" /\ (Idle(st) \/ Busy(st))
      /\ Levels(st.marks, stack)
  BY DEF UnwindTxnDo, NestedInv
<1>2. CASE no_retry(Top, st)
  <2>1. GiveUp /\ \E s \in txn_rollback(st) : st' = Caught(s) /\ exc' = Rethrown(s)
    BY <1>2 DEF UnwindTxnDo
  <2>2. PICK s \in txn_rollback(st) : st' = Caught(s) /\ exc' = Rethrown(s)
    BY <2>1
  <2>3. exc' \in {"none", "error", "rollbackFailed"}
    BY <2>2 DEF Rethrown, NestedInv
  <2> QED
    BY <1>1, <2>1, <2>2, <2>3, NestedRolledBackStep
<1>3. CASE ~no_retry(Top, st)
  <2>1. Idle(st) /\ st.dbh = "none" /\ st.depth = 0 /\ st.marks = <<>>
    BY <1>1, <1>3 DEF no_retry, connected, Idle, Busy
  <2>2. /\ Scopes(stack) # {} /\ Depth(stack) \in Nat /\ Depth(stack) # 0
        /\ Depth(Below) = Depth(stack) - 1 /\ Top \in Frame /\ Len(stack) \in Nat
        /\ Depth(Below) = 0 <=> Scopes(Below) = {}
        /\ Scopes(Below) = {} => WorkOf(Below) = {} /\ WorkOf(stack) = Top.work
    BY <1>1, Remains, NestScopes
  <2>3. Scopes(Below) = {}
    BY <2>1, <2>2 DEF NestedInv, BeginFailed
  <2>4. /\ Depth(stack) = 1 /\ Depth(Below) = 0 /\ WorkOf(Below) = {} /\ WorkOf(stack) = Top.work
        /\ Top.work \subseteq Writes
    BY <2>2, <2>3 DEF Frame
  <2>5. Levels(<<>>, Below)
    <3>1. st.marks \in Seq([name : Nat, work : SUBSET Writes])
      BY <2>1 DEF Idle, Session
    <3> QED
      BY <1>1, <2>1, <2>4, <3>1, LevelsBelow
  <2>6. PICK s \in populate_dbh(st) :
          IF s.err # "none" THEN Settle(s) /\ GiveUp
          ELSE /\ \E t \in txn_do_attempt(s) : Settle(t)
               /\ stack' = [stack EXCEPT ![Len(stack)] =
                              [@ EXCEPT !.tried = TRUE, !.work = {}]]
               /\ Disown(Top.work, Scopes(Below) = {})
    BY <1>3 DEF UnwindTxnDo
  <2>7. Idle(s) /\ s.committed = st.committed /\ (s.err = "none" \/ s.err = "error")
    BY <1>1, <2>1, <2>6, NestedPopulate
  <2>8. CASE s.err = "error"
    <3>1. Settle(s) /\ GiveUp
      BY <2>6, <2>8
    <3>2. /\ Idle(st') /\ st'.err = "none" /\ st'.committed = st.committed
          /\ exc' = "error" /\ st'.depth = 0 /\ st'.marks = <<>> /\ ~st'.open
      BY <2>7, <2>8, <3>1, NestedCaught DEF Settle, Idle
    <3> QED
      BY <1>1, <2>4, <2>5, <3>1, <3>2, UndoneStep
  <2>9. CASE s.err = "none"
    <3>1. PICK t \in txn_do_attempt(s) : st' = Caught(t) /\ exc' = t.err
      BY <2>6, <2>9 DEF Settle
    <3>2. /\ t.committed = st.committed
          /\ Started(t) \/ (Idle(t) /\ t.err = "error")
      BY <2>7, <2>9, <3>1, NestedAttempt
    <3>3. /\ claims' = claims /\ aborted' = aborted \cup Top.work /\ undone' = undone \cup Top.work
          /\ stack' = [stack EXCEPT ![Len(stack)] = [@ EXCEPT !.tried = TRUE, !.work = {}]]
      BY <2>3, <2>6, <2>9 DEF Disown
    <3>4. /\ Nest(stack') /\ Len(stack') = Len(stack) /\ stack' # <<>>
          /\ stack'[Len(stack')].kind = "txn_do"
          /\ SubSeq(stack', 1, Len(stack') - 1) = Below
          /\ Depth(stack') = 1 /\ Scopes(stack') # {} /\ WorkOf(stack') = {}
          /\ \A m : Levels(m, stack) => Levels(m, stack')
      BY <1>1, <2>2, <2>4, <3>3, NestRestart DEF Top, Below
    <3>5. Levels(<<>>, stack')
      BY <1>1, <2>1, <3>4
    <3>6. /\ Idle(st') \/ Busy(st')
          /\ st'.err = "none" /\ st'.committed = st.committed /\ st'.marks = <<>>
          /\ st'.open => st'.work = {}
          /\ exc' \in {"none", "error"}
          /\ exc' = "none" => st'.depth = 1
          /\ exc' = "error" => st'.depth = 0
      <4>1. t \in Session /\ (Started(t) => Busy(t) /\ t.err = "none" /\ t.depth = 1 /\ t.work = {})
        BY <3>2 DEF Started, Busy, Idle
      <4>2. t.marks = <<>>
        <5>1. t.marks \in Seq([name : Nat, work : SUBSET Writes]) /\ Len(t.marks) = 0
          BY <3>2 DEF Started, Busy, Idle, Session
        <5> QED
          BY <5>1, EmptySeq
      <4>3. /\ st'.err = "none" /\ st'.committed = st.committed /\ st'.marks = <<>>
            /\ st'.depth = t.depth /\ st'.work = t.work /\ st'.open = t.open
            /\ Idle(t) => Idle(st')
            /\ Busy(t) => Busy(st')
        BY <3>1, <3>2, <4>1, <4>2, NestedCaught
      <4>4. CASE Started(t)
        BY <3>1, <4>1, <4>3, <4>4
      <4>5. CASE Idle(t) /\ t.err = "error"
        BY <3>1, <4>3, <4>5 DEF Idle
      <4> QED
        BY <3>2, <4>4, <4>5
    <3>7. st'.depth = Depth(stack') \/ BeginFailed'
      BY <2>3, <3>4, <3>6 DEF BeginFailed, Running, Top, Below
    <3>8. Fates(st.committed, {}, undone \cup Top.work, nextw)
      BY <2>4 DEF NestedInv, Fates
    <3>9. NestedInv'
      BY <2>4, <3>3, <3>4, <3>5, <3>6, <3>7, <3>8 DEF NestedInv
    <3>10. Promise!Undo(WorkOf(stack))
      BY <2>2, <2>4, <3>3, <3>4, <3>6 DEF Promise!Undo, InScope, OpenWork, NestedUse
    <3>11. Promise!Next
      BY <2>2, <3>10 DEF Promise!Next, InScope, OpenWork
    <3> QED
      BY <3>9, <3>11 DEF PromiseStep
  <2> QED
    BY <2>7, <2>8, <2>9
<1> QED
  BY <1>2, <1>3

LEMMA NestedUnwindGuardStep ==
  ASSUME NestedUse, NestedInv, stack # <<>>, UnwindGuard, UNCHANGED nextw
  PROVE  NestedInv' /\ PromiseStep
<1>1. PICK s \in txn_rollback(st) :
        /\ st' = Caught(s)
        /\ exc' = IF s.err = "error" THEN "rollbackFailed" ELSE exc
  BY DEF UnwindGuard
<1>2. Top.kind = "guard" /\ GiveUp /\ exc' \in {"none", "error", "rollbackFailed"}
  BY <1>1 DEF UnwindGuard, NestedInv
<1> QED
  BY <1>1, <1>2, NestedRolledBackStep

LEMMA NestedUnwindStep ==
  ASSUME NestedUse, NestedInv, Unwind
  PROVE  NestedInv' /\ PromiseStep
<1>1. CASE stack = <<>>
  <2>1. exc' = "none" /\ UNCHANGED <<st, stack, nextw, claims, aborted, undone>>
    BY <1>1 DEF Unwind, Bookless
  <2>2. NestedInv'
    BY <1>1, <2>1 DEF NestedInv, BeginFailed
  <2> QED
    BY <2>1, <2>2 DEF PromiseStep, Promise!vars, InScope, OpenWork
<1>2. CASE stack # <<>>
  <2>1. UNCHANGED nextw /\ (UnwindTxnDo \/ UnwindGuard \/ UnwindBypass \/ UnwindEval)
    BY <1>2 DEF Unwind
  <2>2. CASE UnwindEval
    BY <1>2, <2>1, <2>2, NestedLeaveStep DEF UnwindEval
  <2>3. ~UnwindBypass
    BY <1>2, Remains DEF UnwindBypass, NestedInv
  <2> QED
    BY <1>2, <2>1, <2>2, <2>3, NestedUnwindTxnDoStep, NestedUnwindGuardStep
<1> QED
  BY <1>1, <1>2

\* The handle is asked for when there is none: it is made, or refused.
LEMMA NestedCallDbhStep ==
  ASSUME NestedUse, NestedInv, CallDbh
  PROVE  NestedInv' /\ PromiseStep
<1>1. /\ Running /\ st.dbh # "live" /\ st.err = "none" /\ st.depth = Depth(stack)
      /\ UNCHANGED <<stack, nextw, claims, aborted, undone>>
      /\ \E s \in populate_dbh(st) : st' = Caught(s) /\ exc' = s.err
  BY RunningCounted DEF CallDbh, connected, Bookless, Settle, NestedInv
<1>2. Idle(st) /\ st.dbh = "none"
  BY <1>1 DEF NestedInv, Idle, Busy
<1>3. PICK s \in populate_dbh(st) : st' = Caught(s) /\ exc' = s.err
  BY <1>1
<1>4. Idle(s) /\ s.committed = st.committed /\ (s.err = "none" \/ s.err = "error")
  BY <1>1, <1>2, <1>3, NestedPopulate
<1>5. /\ Idle(st') /\ st'.err = "none" /\ st'.committed = st.committed
      /\ st'.depth = st.depth /\ st'.marks = st.marks /\ ~st'.open
  BY <1>2, <1>3, <1>4, NestedCaught DEF Idle
<1>6. NestedInv'
  BY <1>1, <1>3, <1>4, <1>5 DEF NestedInv
<1> QED
  BY <1>1, <1>5, <1>6 DEF PromiseStep, Promise!vars, InScope, OpenWork

LEMMA NestedDisconnectStep ==
  ASSUME NestedUse, NestedInv, Disconnect
  PROVE  NestedInv' /\ PromiseStep
<1>1. /\ Running /\ Scopes(stack) = {} /\ st' = [Lost(st) EXCEPT !.dbh = "none"]
      /\ UNCHANGED <<stack, exc, nextw, claims, aborted, undone>>
      /\ st.depth = Depth(stack) /\ st.err = "none"
  BY RunningCounted DEF Disconnect, InScope, Bookless, NestedInv, NestedUse
<1>2. Idle(st)
  BY <1>1, NestedRunning
<1>3. /\ Idle(st') /\ st'.err = "none" /\ st'.committed = st.committed
      /\ st'.depth = st.depth /\ st'.marks = st.marks /\ ~st'.open
  BY <1>1, <1>2 DEF Lost, Idle, Session
<1>4. NestedInv'
  BY <1>1, <1>3 DEF NestedInv
<1> QED
  BY <1>1, <1>3, <1>4 DEF PromiseStep, Promise!vars, InScope, OpenWork

LEMMA NestedInitHolds ==
  ASSUME Init
  PROVE  NestedInv /\ Promise!Init
<1>1. Idle(st) /\ st.err = "none" /\ st.depth = 0 /\ ~st.open /\ st.committed = {} /\ st.marks = <<>>
  BY DEF Init, Idle, Session
<1>2. Scopes(stack) = {} /\ WorkOf(stack) = {} /\ Counted(stack) = {} /\ Nest(stack) /\ Len(stack) = 0
  BY DEF Init, Scopes, WorkOf, Counted, Nest
<1>3. Depth(stack) = 0
  BY <1>2, FS_EmptySet DEF Depth
<1>4. 1 \in 1..(MaxWrites + 1) /\ 0 <= MaxFrames
  BY StorageAssumption DEF StorageAssumption
<1>5. Levels(st.marks, stack)
  BY <1>1, <1>2, <1>3 DEF Levels
<1>6. Fates(st.committed, WorkOf(stack), undone, nextw)
  BY <1>1, <1>2 DEF Init, Fates
<1>7. NestedInv
  BY <1>1, <1>2, <1>3, <1>4, <1>5, <1>6 DEF Init, NestedInv
<1>8. Promise!Init
  BY <1>1, <1>2 DEF Init, Promise!Init, InScope, OpenWork
<1> QED
  BY <1>7, <1>8

LEMMA NestedNextStep ==
  ASSUME NestedUse, NestedInv, [Next]_vars
  PROVE  NestedInv' /\ PromiseStep
<1>1. CASE UNCHANGED vars
  <2>1. NestedInv'
    BY <1>1 DEF vars, NestedInv, BeginFailed, Running, Top, Below
  <2>2. UNCHANGED Promise!vars
    BY <1>1 DEF vars, Promise!vars, InScope, OpenWork
  <2> QED
    BY <2>1, <2>2 DEF PromiseStep
<1>2. CASE Next
  <2>1. ~SvpCall /\ ~Drop
    BY DEF NestedUse, SvpCall, Drop
  <2> QED
    BY <1>2, <2>1, NestedTxnDoStep, NestedGuardNewStep, NestedEvalBeginStep,
       NestedReturnStep, NestedGuardAbandonStep, NestedWriteStep, NestedThrowStep,
       NestedUnwindStep, NestedCallDbhStep, NestedDisconnectStep
    DEF Next
<1> QED
  BY <1>1, <1>2

------------------------------------------------------------------------------
(* Theorems *)

\* In every reachable state there is one savepoint for each level but the
\* first, it holds the writes around that level, and no write is at once
\* durable, pending or undone.
THEOREM NestedInvariant ==
  ASSUME NestedUse
  PROVE  Spec => []NestedInv
<1>1. Init => NestedInv
  BY NestedInitHolds
<1>2. NestedInv /\ [Next]_vars => NestedInv'
  BY NestedNextStep
<1> QED
  BY <1>1, <1>2, PTL DEF Spec

\* Nothing a scope wrote before it failed, at whatever level, is ever durable,
\* even when the scopes around it commit.
THEOREM NestedUndoneInvisible ==
  ASSUME NestedUse
  PROVE  Spec => []UndoneInvisible
<1>1. NestedInv => UndoneInvisible
  BY DEF NestedInv, Fates, UndoneInvisible
<1> QED
  BY <1>1, NestedInvariant, PTL

\* A scope that returns has not lost a write: when the outermost one reports
\* success, what every block in it wrote and did not undo is durable.
THEOREM NestedClaimsDurable ==
  ASSUME NestedUse
  PROVE  Spec => []ClaimsDurable
<1>1. NestedInv => ClaimsDurable
  BY DEF NestedInv, ClaimsDurable
<1> QED
  BY <1>1, NestedInvariant, PTL

\* An inner scope that has been left is not durable before the outermost one.
THEOREM NestedInFlightInvisible ==
  ASSUME NestedUse
  PROVE  Spec => []InFlightInvisible
<1>1. NestedInv => InFlightInvisible
  BY DEF NestedInv, Fates, InFlightInvisible, OpenWork
<1> QED
  BY <1>1, NestedInvariant, PTL

\* transaction_depth counts the scopes also when each is a savepoint.
THEOREM NestedDepthMatches ==
  ASSUME NestedUse
  PROVE  Spec => []DepthMatches
<1>1. NestedInv => DepthMatches
  BY DEF NestedInv, DepthMatches, BeginFailed, Depth, connected, Idle, Busy
<1> QED
  BY <1>1, NestedInvariant, PTL

\* Seen from outside, a failed block of any level is an Undo of its writes and
\* nothing else, and the outermost one is an atomic transaction.
THEOREM NestedImplementsAtomicTxn ==
  ASSUME NestedUse
  PROVE  Spec => ImplementsAtomicTxn
<1>1. Init => Promise!Init
  BY NestedInitHolds
<1>2. NestedInv /\ [Next]_vars => [Promise!Next]_(Promise!vars)
  BY NestedNextStep DEF PromiseStep
<1> QED
  BY <1>1, <1>2, NestedInvariant, PTL DEF Spec, ImplementsAtomicTxn, Promise!Spec
------------------------------------------------------------------------------
(* Savepoints the application sets itself *)

\* Without auto_savepoint, txn_do blocks in which the application sets,
\* releases and rolls back to savepoints of its own, with and without a name.
OwnUse ==
  /\ AutoSavepoint = FALSE
  /\ Calls \subseteq {"txn_do", "svp", "dbh", "disconnect"}
  /\ Faults \subseteq {"outage", "sqlError", "commitError", "savepointError"}

\* A later savepoint holds what an earlier one does, and the transaction what
\* the latest does.
Chain(marks, work) ==
  /\ \A i \in 1..Len(marks) : marks[i].work \subseteq work
  /\ \A i, j \in 1..Len(marks) : i <= j => marks[i].work \subseteq marks[j].work

Resting(s) == s.depth = 0 /\ s.dbh \in {"none", "live"} /\ ~s.open /\ s.work = {} /\ s.marks = <<>>
Begun(s) == s.depth = 1 /\ s.dbh = "live" /\ s.open /\ Chain(s.marks, s.work)

\* One txn_do, and in it blocks that only call their coderef.
OwnStack(stk) ==
  \A i \in 1..Len(stk) : stk[i].kind = IF i = 1 THEN "txn_do" ELSE "bypass"

\* The server's savepoints are the ones the application has set in this
\* transaction, with what it had written; the storage knows them by the last of
\* its names, which may lie on names earlier transactions left.
Matched(s, pts) ==
  LET older == Len(s.svps) - Len(s.marks)
  IN  /\ Len(pts) = Len(s.marks) /\ Len(s.marks) <= Len(s.svps)
      /\ \A i \in 1..Len(s.marks) :
           /\ s.marks[i].name = s.svps[older + i]
           /\ s.marks[i].work = pts[i].work
           /\ s.marks[i].name = Named <=> pts[i].name = Named

\* While an exception is on its way up a block that was left counts as undone,
\* though its writes are in the transaction until txn_do's handler has run, and
\* the savepoints need not match: a refused one has changed the names only.
OwnInv ==
  /\ OwnStack(stack)
  /\ \/ /\ Resting(st) /\ WorkOf(stack) = {} /\ Len(stack) <= 1 /\ points = <<>>
        /\ Running => stack = <<>>
     \/ /\ Begun(st) /\ stack # <<>> /\ st.work = WorkOf(stack)
        /\ Running => Matched(st, points)
  /\ claims = st.committed
  /\ st.committed \cap (WorkOf(stack) \cup undone) = {}
  /\ Running => undone \cap WorkOf(stack) = {}
  /\ \A w \in st.committed \cup undone \cup WorkOf(stack) : w < nextw

LEMMA OwnStatement ==
  ASSUME OwnUse, NEW s, s.dbh = "live", NEW fault, NEW done, NEW t \in Statement(s, fault, done)
  PROVE  t = done \/ (t = Fail(s) /\ fault \in Faults)
BY DEF Statement, OwnUse

LEMMA RestingSame ==
  ASSUME NEW s, Ready(s), Resting(s) \/ Begun(s)
  PROVE  /\ Alive(Fail(s)) /\ Fail(s).err = "error" /\ Fail(s).committed = s.committed
         /\ Fail(s).work = s.work
         /\ Resting(s) => Resting(Fail(s))
         /\ Begun(s) => Begun(Fail(s))
BY DEF Ready, Alive, Resting, Begun, Fail, Session

LEMMA OwnCaught ==
  ASSUME NEW t, Answer(t)
  PROVE  /\ Caught(t).committed = t.committed /\ Caught(t).work = t.work
         /\ Caught(t).svps = t.svps /\ Caught(t).marks = t.marks
         /\ Resting(t) => Resting(Caught(t))
         /\ Begun(t) => Begun(Caught(t))
BY DEF Answer, Alive, Resting, Begun, Caught, Session

LEMMA OwnPopulate ==
  ASSUME NEW s, Ready(s), Resting(s), NEW t \in populate_dbh(s)
  PROVE  /\ Answer(t) /\ Resting(t) /\ t.committed = s.committed
         /\ t.err = "none" => t.dbh = "live"
<1>1. t = [s EXCEPT !.dbh = "live", !.depth = 0] \/ t = Fail([s EXCEPT !.dbh = "none"])
  BY DEF populate_dbh
<1>2. s \in Session /\ ~s.open /\ s.err = "none"
  BY DEF Ready, Alive, Resting
<1>3. CASE t = [s EXCEPT !.dbh = "live", !.depth = 0]
  BY <1>2, <1>3 DEF Answer, Alive, Resting, Session
<1>4. CASE t = Fail([s EXCEPT !.dbh = "none"])
  BY <1>2, <1>4 DEF Answer, Alive, Resting, Session, Fail
<1> QED
  BY <1>1, <1>3, <1>4

LEMMA OwnGetDbh ==
  ASSUME NEW s, Ready(s), NEW t \in get_dbh(s)
  PROVE  /\ Resting(s) => /\ Answer(t) /\ Resting(t) /\ t.committed = s.committed
                          /\ t.err = "none" => t.dbh = "live"
         /\ s.dbh = "live" => t = s
<1>1. CASE s.dbh = "none"
  BY <1>1, OwnPopulate DEF get_dbh
<1>2. CASE s.dbh # "none"
  BY <1>2 DEF get_dbh, Ready, Answer, Resting
<1> QED
  BY <1>1, <1>2

\* txn_do's transaction begins, or the session is left as it was.
LEMMA OwnAttempt ==
  ASSUME OwnUse, NEW s, Ready(s), Resting(s), NEW t \in txn_do_attempt(s)
  PROVE  /\ Answer(t) /\ t.committed = s.committed
         /\ \/ t.err = "none" /\ Begun(t) /\ t.work = {} /\ t.marks = <<>>
            \/ t.err = "error" /\ Resting(t)
<1>1. PICK u \in get_dbh(s) : t \in (IF u.err = "none" THEN txn_begin(u, TRUE) ELSE {u})
  BY DEF txn_do_attempt, Then
<1>2. /\ Answer(u) /\ Resting(u) /\ u.committed = s.committed
      /\ u.err = "none" => u.dbh = "live"
  BY OwnGetDbh
<1>3. CASE u.err # "none"
  BY <1>1, <1>2, <1>3 DEF Answer
<1>4. CASE u.err = "none"
  <2>1. Ready(u) /\ u.depth = 0 /\ u.dbh = "live" /\ ~u.open
    BY <1>2, <1>4, AnswerReady DEF Resting
  <2>2. PICK v \in BEGIN(u) : t = IF v.err = "none" THEN [v EXCEPT !.depth = @ + 1] ELSE v
    BY <1>1, <1>4, <2>1 DEF txn_begin, Then, dbh_begin_work
  <2>3. v = [u EXCEPT !.open = TRUE] \/ v = Fail(u)
    BY <2>1, <2>2, OwnStatement DEF BEGIN
  <2>4. CASE v = Fail(u)
    BY <1>2, <2>1, <2>2, <2>4, RestingSame DEF Answer
  <2>5. CASE v = [u EXCEPT !.open = TRUE]
    <3>1. /\ v \in Session /\ v.err = "none" /\ v.depth = 0 /\ v.dbh = "live" /\ v.open
          /\ v.work = {} /\ v.marks = <<>> /\ v.committed = s.committed
      BY <1>2, <2>1, <2>5 DEF Ready, Alive, Resting, Session
    <3>2. v.depth + 1 = 1
      BY <3>1
    <3>3. t = [v EXCEPT !.depth = 1]
      BY <2>2, <3>1, <3>2 DEF Session
    <3>4. Len(<<>>) = 0 /\ 1..0 = {}
      OBVIOUS
    <3>5. /\ t \in Session /\ t.err = "none" /\ t.depth = 1 /\ t.dbh = "live" /\ t.open
          /\ t.work = {} /\ t.marks = <<>> /\ t.committed = s.committed
      BY <3>1, <3>3 DEF Session
    <3> QED
      BY <3>4, <3>5 DEF Answer, Alive, Begun, Chain
  <2> QED
    BY <2>3, <2>4, <2>5
<1> QED
  BY <1>3, <1>4

\* The transaction ends with COMMIT, or COMMIT is refused and it goes on.
LEMMA OwnTxnCommit ==
  ASSUME OwnUse, NEW s, Ready(s), Begun(s), NEW t \in txn_commit(s)
  PROVE  \/ /\ Answer(t) /\ t.err = "none" /\ Resting(t)
            /\ t.committed = s.committed \cup s.work
         \/ /\ Answer(t) /\ t.err = "error" /\ Begun(t)
            /\ t.committed = s.committed /\ t.work = s.work
<1> DEFINE done == [Closed(s) EXCEPT !.committed = @ \cup s.work]
<1>1. PICK u \in COMMIT(s) : t = IF u.err = "none" THEN [u EXCEPT !.depth = 0] ELSE u
  BY DEF txn_commit, Then, dbh_commit, Begun
<1>2. /\ done \in Session /\ done.err = "none" /\ done.dbh = "live" /\ ~done.open
      /\ done.work = {} /\ done.marks = <<>> /\ done.committed = s.committed \cup s.work
  <2>1. <<>> \in Seq([name : Nat, work : SUBSET Writes])
    OBVIOUS
  <2> QED
    BY <2>1 DEF Ready, Alive, Begun, Closed, Session
<1>3. u = done \/ u = Fail(s)
  <2>1. u \in Statement(s, "commitError", done)
    BY <1>1 DEF COMMIT, OwnUse
  <2> HIDE DEF done
  <2> QED
    BY <2>1, OwnStatement DEF Begun
<1> HIDE DEF done
<1>4. CASE u = done
  <2>1. t = [done EXCEPT !.depth = 0]
    BY <1>1, <1>2, <1>4
  <2>2. /\ t \in Session /\ t.err = "none" /\ t.dbh = "live" /\ ~t.open /\ t.depth = 0
        /\ t.work = {} /\ t.marks = <<>> /\ t.committed = s.committed \cup s.work
    BY <1>2, <2>1 DEF Session
  <2> QED
    BY <2>2 DEF Answer, Alive, Resting
<1>5. CASE u = Fail(s)
  BY <1>1, <1>5, RestingSame DEF Answer
<1> QED
  BY <1>3, <1>4, <1>5

LEMMA OwnTxnRollback ==
  ASSUME OwnUse, NEW s, Ready(s), Resting(s) \/ Begun(s), NEW t \in txn_rollback(s)
  PROVE  /\ Ready(Caught(t)) /\ Resting(Caught(t)) /\ Caught(t).committed = s.committed
         /\ t.err # "error"
<1>1. CASE Resting(s)
  <2>1. t = [s EXCEPT !.err = "nested"]
    BY <1>1 DEF txn_rollback, RolledBack, Resting, Ready, Alive, Session
  <2> QED
    BY <1>1, <2>1 DEF Ready, Alive, Resting, Caught, Session
<1>2. CASE Begun(s)
  <2> DEFINE b == [s EXCEPT !.depth = 0]
  <2>1. PICK u \in dbh_rollback(b) :
          t = IF u.err = "error" THEN [u EXCEPT !.depth = 0] ELSE u
    BY <1>2 DEF txn_rollback, RolledBack, rollback_outermost, Begun
  <2>2. /\ b \in Session /\ b.err = "none" /\ b.dbh = "live" /\ b.open /\ b.depth = 0
        /\ b.committed = s.committed
    BY <1>2 DEF Ready, Alive, Begun, Session
  <2> HIDE DEF b
  <2>3. u = Closed(b)
    <3>1. u \in Statement(b, "rollbackError", Closed(b)) /\ "rollbackError" \notin Faults
      BY <2>1, <2>2 DEF dbh_rollback, ROLLBACK, OwnUse
    <3> QED
      BY <2>2, <3>1, OwnStatement
  <2>4. <<>> \in Seq([name : Nat, work : SUBSET Writes])
    OBVIOUS
  <2>5. /\ u \in Session /\ u.err = "none" /\ u.dbh = "live" /\ ~u.open /\ u.depth = 0
        /\ u.work = {} /\ u.marks = <<>> /\ u.committed = s.committed
    BY <2>2, <2>3, <2>4 DEF Closed, Session
  <2>6. t = u
    BY <2>1, <2>5
  <2>7. Answer(t) /\ Resting(t) /\ t.committed = s.committed /\ t.err = "none"
    BY <2>2, <2>5, <2>6 DEF Answer, Alive, Resting
  <2> QED
    BY <2>7, AnswerReady, OwnCaught
<1> QED
  BY <1>1, <1>2

\* Nothing can lose the connection during a write.
LEMMA OwnWriteOutcome ==
  ASSUME OwnUse, NEW s, Ready(s), Resting(s) \/ Begun(s),
         NEW in_do, in_do <=> Begun(s), NEW w \in Writes, NEW t \in dbh_do(s, in_do, w)
  PROVE  /\ Answer(t)
         /\ Resting(s) => /\ Resting(t)
                          /\ t.committed = IF t.err = "none" THEN s.committed \cup {w}
                                                             ELSE s.committed
         /\ Begun(s) => /\ Begun(t) /\ t.committed = s.committed
                        /\ t.work = IF t.err = "none" THEN s.work \cup {w} ELSE s.work
                        /\ t.err = "none" => t.marks = s.marks /\ t.svps = s.svps
<1>1. w # BeginWork
  BY DEF Writes, BeginWork
<1>2. CASE Resting(s)
  <2>1. ~Begun(s)
    BY <1>2 DEF Resting, Begun
  <2>2. PICK c \in get_dbh(s) : t \in (IF c.err = "none"
          THEN IF in_do \/ c.depth > 0 THEN Code(c, w)
               ELSE UNION {IF u.err = "none" \/ connected(u) THEN {u}
                           ELSE Then(populate_dbh(Caught(u)), LAMBDA r : Code(r, w))
                             : u \in Code(c, w)}
          ELSE {c})
    BY DEF dbh_do, Then
  <2>3. /\ Answer(c) /\ Resting(c) /\ c.committed = s.committed
        /\ c.err = "none" => c.dbh = "live"
    BY <1>2, OwnGetDbh
  <2>4. CASE c.err # "none"
    <3>1. t = c
      BY <2>2, <2>4
    <3> QED
      BY <2>1, <2>3, <2>4, <3>1
  <2>5. CASE c.err = "none"
    <3> DEFINE done == [c EXCEPT !.committed = @ \cup {w}]
    <3>1. Ready(c) /\ c.dbh = "live" /\ ~c.open /\ c.depth = 0
      BY <2>3, <2>5, AnswerReady DEF Resting
    <3>2. /\ Answer(done) /\ done.err = "none" /\ Resting(done) /\ done.dbh = "live"
          /\ done.committed = s.committed \cup {w}
      BY <2>3, <3>1 DEF Ready, Answer, Alive, Resting, Session
    <3>3. /\ Answer(Fail(c)) /\ Fail(c).err = "error" /\ Resting(Fail(c))
          /\ Fail(c).dbh = "live" /\ Fail(c).committed = s.committed
      BY <2>3, <3>1, RestingSame DEF Answer, Ready, Alive, Fail, Session
    <3>4. \A u \in Code(c, w) : u = done \/ u = Fail(c)
      BY <1>1, <3>1, OwnStatement DEF Code, WRITE
    <3> HIDE DEF done
    <3>5. ~in_do /\ ~(c.depth > 0)
      BY <2>1, <3>1
    <3>6. PICK u \in Code(c, w) : t \in (IF u.err = "none" \/ connected(u) THEN {u}
                           ELSE Then(populate_dbh(Caught(u)), LAMBDA r : Code(r, w)))
      BY <2>2, <2>5, <3>5
    <3>7. u = done \/ u = Fail(c)
      BY <3>4
    <3>8. t = u
      BY <3>2, <3>3, <3>6, <3>7 DEF connected
    <3> QED
      BY <2>1, <3>2, <3>3, <3>7, <3>8
  <2> QED
    BY <2>4, <2>5
<1>3. CASE Begun(s)
  <2> DEFINE done == [s EXCEPT !.work = @ \cup {w}]
  <2>1. ~Resting(s) /\ s.dbh = "live" /\ s.open /\ s.err = "none" /\ s \in Session
    BY <1>3 DEF Resting, Begun, Ready, Alive
  <2>2. get_dbh(s) = {s}
    BY <2>1 DEF get_dbh
  <2>3. t \in Code(s, w)
    BY <1>3, <2>1, <2>2 DEF dbh_do, Then
  <2>4. t = done \/ t = Fail(s)
    BY <1>1, <2>1, <2>3, OwnStatement DEF Code, WRITE
  <2>5. /\ done \in Session /\ done.err = "none" /\ done.open /\ done.dbh = "live" /\ done.depth = 1
        /\ done.committed = s.committed /\ done.work = s.work \cup {w} /\ done.marks = s.marks
        /\ done.svps = s.svps
    BY <1>3, <2>1 DEF Session, Begun
  <2>6. Chain(s.marks, s.work \cup {w})
    BY <1>3 DEF Begun, Chain
  <2> HIDE DEF done
  <2>7. Answer(done) /\ Begun(done)
    BY <2>5, <2>6 DEF Answer, Alive, Begun
  <2>8. Answer(Fail(s)) /\ Fail(s).err = "error" /\ Begun(Fail(s))
        /\ Fail(s).committed = s.committed /\ Fail(s).work = s.work
    BY <1>3, RestingSame DEF Answer
  <2> QED
    BY <2>1, <2>4, <2>5, <2>7, <2>8
<1> QED
  BY <1>2, <1>3

\* Whatever savepoint is found, the transaction keeps a part of its writes and
\* the savepoints that are left hold no more than that.
OwnKept(s, t) == Answer(t) /\ Begun(t) /\ t.committed = s.committed /\ t.work \subseteq s.work

LEMMA KeptSame ==
  ASSUME NEW s, Ready(s), Begun(s)
  PROVE  OwnKept(s, s) /\ OwnKept(s, Fail(s))
BY RestingSame DEF OwnKept, Ready, Answer

LEMMA OwnNames ==
  ASSUME NEW s, Ready(s), Begun(s), NEW names \in Seq(Nat)
  PROVE  LET b == [s EXCEPT !.svps = names]
         IN  /\ Ready(b) /\ Begun(b) /\ b.work = s.work /\ b.committed = s.committed
             /\ b.marks = s.marks /\ get_dbh(b) = {b}
BY DEF Ready, Alive, Begun, Session, get_dbh

LEMMA KeptThrough ==
  ASSUME NEW s, NEW b, NEW t, b.work = s.work, b.committed = s.committed, OwnKept(b, t)
  PROVE  OwnKept(s, t)
BY DEF OwnKept

LEMMA ChainAppend ==
  ASSUME NEW E, NEW marks \in Seq(E), NEW x \in E, NEW work, x.work = work, Chain(marks, work)
  PROVE  Chain(Append(marks, x), work)
<1> DEFINE new == Append(marks, x)
<1>1. /\ Len(marks) \in Nat /\ Len(new) = Len(marks) + 1 /\ new[Len(marks) + 1] = x
      /\ \A i \in 1..Len(marks) : new[i] = marks[i]
      /\ \A i \in 1..(Len(marks) + 1) : i \in 1..Len(marks) \/ i = Len(marks) + 1
  OBVIOUS
<1> HIDE DEF new
<1>2. \A i \in 1..Len(new) : new[i].work \subseteq work
  BY <1>1 DEF Chain
<1>3. ASSUME NEW i \in 1..Len(new), NEW j \in 1..Len(new), i <= j
      PROVE  new[i].work \subseteq new[j].work
  <2>1. CASE j = Len(marks) + 1
    BY <1>1, <1>2, <2>1
  <2>2. CASE j # Len(marks) + 1
    <3>1. j \in 1..Len(marks) /\ i \in 1..Len(marks)
      BY <1>1, <1>3, <2>2
    <3> QED
      BY <1>1, <1>3, <3>1 DEF Chain
  <2> QED
    BY <2>1, <2>2
<1>4. \A i, j \in 1..Len(new) : i <= j => new[i].work \subseteq new[j].work
  BY <1>3
<1> QED
  BY <1>2, <1>4 DEF Chain, new

LEMMA ChainCut ==
  ASSUME NEW E, NEW marks \in Seq(E), NEW work, Chain(marks, work), NEW g \in 1..Len(marks)
  PROVE  /\ Chain(SubSeq(marks, 1, g - 1), work)
         /\ Chain(SubSeq(marks, 1, g), marks[g].work)
         /\ marks[g].work \subseteq work
<1>1. /\ Len(marks) \in Nat /\ g \in Nat /\ g - 1 \in Nat /\ g - 1 <= Len(marks) /\ g <= Len(marks)
      /\ \A i \in 1..g : i \in 1..Len(marks) /\ i <= g
      /\ \A i \in 1..(g - 1) : i \in 1..Len(marks)
  OBVIOUS
<1>2. ASSUME NEW n \in Nat, n <= Len(marks)
      PROVE  Len(SubSeq(marks, 1, n)) = n /\ \A i \in 1..n : SubSeq(marks, 1, n)[i] = marks[i]
  BY <1>2
<1>3. Chain(SubSeq(marks, 1, g - 1), work)
  <2>1. Len(SubSeq(marks, 1, g - 1)) = g - 1 /\ \A i \in 1..(g - 1) : SubSeq(marks, 1, g - 1)[i] = marks[i]
    BY <1>1, <1>2
  <2> QED
    BY <1>1, <2>1 DEF Chain
<1>4. Chain(SubSeq(marks, 1, g), marks[g].work)
  <2>1. Len(SubSeq(marks, 1, g)) = g /\ \A i \in 1..g : SubSeq(marks, 1, g)[i] = marks[i]
    BY <1>1, <1>2
  <2> QED
    BY <1>1, <2>1 DEF Chain
<1> QED
  BY <1>3, <1>4 DEF Chain


LEMMA OwnSavepoint ==
  ASSUME OwnUse, NEW s, Ready(s), Begun(s), NEW n \in Nat, NEW t \in SAVEPOINT(s, n)
  PROVE  OwnKept(s, t)
<1> DEFINE E == [name : Nat, work : SUBSET Writes]
           x == [name |-> n, work |-> s.work]
           marks == Append(s.marks, x)
           done == [s EXCEPT !.marks = marks]
<1>1. s \in Session /\ s.marks \in Seq(E) /\ s.open /\ s.dbh = "live" /\ Chain(s.marks, s.work)
  BY DEF Ready, Alive, Session, Begun
<1>2. x \in E /\ x.work = s.work
  BY <1>1 DEF Session
<1> HIDE DEF x, E
<1>3. Chain(marks, s.work) /\ marks \in Seq(E)
  <2>1. marks \in Seq(E)
    BY <1>1, <1>2
  <2> QED
    BY <1>1, <1>2, <2>1, ChainAppend
<1>4. done = [s EXCEPT !.marks = Append(@, x)]
  BY <1>1 DEF Session
<1> HIDE DEF marks
<1>5. OwnKept(s, done)
  <2>1. /\ done \in Session /\ done.err = "none" /\ done.open /\ done.dbh = "live" /\ done.depth = 1
        /\ done.committed = s.committed /\ done.work = s.work /\ done.marks = marks
    BY <1>1, <1>3 DEF Ready, Session, Begun, E
  <2> QED
    BY <1>3, <2>1 DEF OwnKept, Answer, Alive, Begun
<1>6. t \in Statement(s, "savepointError", done)
  BY <1>1, <1>4 DEF SAVEPOINT, x
<1> HIDE DEF done
<1> QED
  BY <1>1, <1>5, <1>6, OwnStatement, KeptSame

\* What releasing and rolling back to a savepoint leave.
LEMMA OwnCut ==
  ASSUME NEW s, Ready(s), Begun(s), NEW S \in SUBSET DOMAIN s.marks, S # {}
  PROVE  /\ OwnKept(s, [s EXCEPT !.marks = SubSeq(@, 1, Greatest(S) - 1)])
         /\ OwnKept(s, [s EXCEPT !.marks = SubSeq(@, 1, Greatest(S)),
                                 !.work = s.marks[Greatest(S)].work])
<1> DEFINE E == [name : Nat, work : SUBSET Writes]
           g == Greatest(S)
<1>1. /\ s \in Session /\ s.marks \in Seq(E) /\ s.open /\ s.dbh = "live" /\ s.depth = 1
      /\ s.err = "none" /\ Chain(s.marks, s.work)
  BY DEF Ready, Alive, Session, Begun
<1>2. g \in 1..Len(s.marks)
  BY <1>1, LastPosition
<1> HIDE DEF g
<1>3. /\ Chain(SubSeq(s.marks, 1, g - 1), s.work)
      /\ Chain(SubSeq(s.marks, 1, g), s.marks[g].work)
      /\ s.marks[g].work \subseteq s.work
  BY <1>1, <1>2, ChainCut
<1>4. /\ Answer([s EXCEPT !.marks = SubSeq(@, 1, g - 1)])
      /\ Answer([s EXCEPT !.marks = SubSeq(@, 1, g), !.work = s.marks[g].work])
  BY AnyCutMarks DEF g
<1>5. OwnKept(s, [s EXCEPT !.marks = SubSeq(@, 1, g - 1)])
  <2> DEFINE t == [s EXCEPT !.marks = SubSeq(@, 1, g - 1)]
  <2>1. /\ t.open /\ t.dbh = "live" /\ t.depth = 1 /\ t.committed = s.committed
        /\ t.work = s.work /\ t.marks = SubSeq(s.marks, 1, g - 1)
    BY <1>1 DEF Session
  <2>2. Answer(t)
    BY <1>4
  <2> HIDE DEF t
  <2>3. OwnKept(s, t)
    BY <1>3, <2>1, <2>2 DEF OwnKept, Begun
  <2> QED
    BY <2>3 DEF t
<1>6. OwnKept(s, [s EXCEPT !.marks = SubSeq(@, 1, g), !.work = s.marks[g].work])
  <2> DEFINE t == [s EXCEPT !.marks = SubSeq(@, 1, g), !.work = s.marks[g].work]
  <2>1. /\ t.open /\ t.dbh = "live" /\ t.depth = 1 /\ t.committed = s.committed
        /\ t.work = s.marks[g].work /\ t.marks = SubSeq(s.marks, 1, g)
    BY <1>1 DEF Session
  <2>2. Answer(t)
    BY <1>4
  <2> HIDE DEF t
  <2>3. OwnKept(s, t)
    BY <1>3, <2>1, <2>2 DEF OwnKept, Begun
  <2> QED
    BY <2>3 DEF t
<1> QED
  BY <1>5, <1>6 DEF g

LEMMA OwnRelease ==
  ASSUME OwnUse, NEW s, Ready(s), Begun(s), NEW n, NEW t \in RELEASE_SAVEPOINT(s, n)
  PROVE  OwnKept(s, t)
<1> DEFINE at == {i \in DOMAIN s.marks : s.marks[i].name = n}
           done == [s EXCEPT !.marks = SubSeq(@, 1, Greatest(at) - 1)]
<1>1. t \in (IF at = {} THEN {Fail(s)} ELSE Statement(s, "savepointError", done))
  BY DEF RELEASE_SAVEPOINT, ToSavepoint, Positions
<1>2. at \in SUBSET DOMAIN s.marks
  OBVIOUS
<1> HIDE DEF at
<1>3. CASE at = {}
  BY <1>1, <1>3, KeptSame
<1>4. CASE at # {}
  <2>1. OwnKept(s, done)
    BY <1>2, <1>4, OwnCut
  <2>2. t \in Statement(s, "savepointError", done)
    BY <1>1, <1>4
  <2> HIDE DEF done
  <2>3. s.dbh = "live"
    BY DEF Begun
  <2> QED
    BY <2>1, <2>2, <2>3, OwnStatement, KeptSame
<1> QED
  BY <1>3, <1>4

LEMMA OwnRollbackTo ==
  ASSUME OwnUse, NEW s, Ready(s), Begun(s), NEW n, NEW t \in ROLLBACK_TO_SAVEPOINT(s, n)
  PROVE  OwnKept(s, t)
<1> DEFINE at == {i \in DOMAIN s.marks : s.marks[i].name = n}
           done == [s EXCEPT !.marks = SubSeq(@, 1, Greatest(at)),
                             !.work = s.marks[Greatest(at)].work]
<1>1. t \in (IF at = {} THEN {Fail(s)} ELSE Statement(s, "savepointError", done))
  BY DEF ROLLBACK_TO_SAVEPOINT, ToSavepoint, Positions
<1>2. at \in SUBSET DOMAIN s.marks
  OBVIOUS
<1> HIDE DEF at
<1>3. CASE at = {}
  BY <1>1, <1>3, KeptSame
<1>4. CASE at # {}
  <2>1. OwnKept(s, done)
    BY <1>2, <1>4, OwnCut
  <2>2. t \in Statement(s, "savepointError", done)
    BY <1>1, <1>4
  <2> HIDE DEF done
  <2>3. s.dbh = "live"
    BY DEF Begun
  <2> QED
    BY <2>1, <2>2, <2>3, OwnStatement, KeptSame
<1> QED
  BY <1>3, <1>4

\* The storage's own names change before the statement is sent, and stay so
\* when it is refused: the two stacks may disagree, the server's is in order.
LEMMA OwnSvp ==
  ASSUME OwnUse, NEW s, Ready(s), Begun(s), NEW name \in Name,
         NEW t \in svp_begin(s, name) \cup svp_release(s, name) \cup svp_rollback(s, name)
  PROVE  OwnKept(s, t)
<1>1. s.depth # 0 /\ s \in Session /\ s.svps \in Seq(Nat)
  BY DEF Ready, Alive, Session, Begun
<1>2. CASE t \in svp_begin(s, name)
  <2> DEFINE n == IF name = Default THEN Len(s.svps) ELSE name
             names == Append(s.svps, n)
             b == [s EXCEPT !.svps = names]
  <2>1. n \in Nat
    BY <1>1, StorageAssumption DEF Name, Default, Named
  <2>2. [s EXCEPT !.svps = Append(@, n)] = b
    BY <1>1 DEF Session
  <2>3. t \in Then(get_dbh(b), LAMBDA u : SAVEPOINT(u, n))
    BY <1>1, <1>2, <2>2 DEF svp_begin, svp_generate_name
  <2> HIDE DEF n
  <2>4. names \in Seq(Nat)
    BY <1>1, <2>1
  <2> HIDE DEF names
  <2>5. /\ Ready(b) /\ Begun(b) /\ b.work = s.work /\ b.committed = s.committed
        /\ get_dbh(b) = {b}
    BY <2>4, OwnNames
  <2> HIDE DEF b
  <2>6. t \in SAVEPOINT(b, n)
    BY <2>3, <2>5 DEF Then, Ready
  <2> QED
    BY <2>1, <2>5, <2>6, OwnSavepoint, KeptThrough
<1>3. CASE t \in svp_release(s, name)
  <2> DEFINE i == svp_position(s, name)
             names == SubSeq(s.svps, 1, i - 1)
             b == [s EXCEPT !.svps = names]
  <2>1. CASE i = 0
    BY <1>1, <1>3, <2>1, KeptSame DEF svp_release
  <2>2. CASE i # 0
    <3>1. [s EXCEPT !.svps = SubSeq(@, 1, i - 1)] = b
      BY <1>1 DEF Session
    <3>2. t \in Then(get_dbh(b), LAMBDA u : RELEASE_SAVEPOINT(u, s.svps[i]))
      BY <1>1, <1>3, <2>2, <3>1 DEF svp_release
    <3>3. names \in Seq(Nat)
      BY <2>2, PositionFound
    <3> HIDE DEF i, names
    <3>4. /\ Ready(b) /\ Begun(b) /\ b.work = s.work /\ b.committed = s.committed
          /\ get_dbh(b) = {b}
      BY <3>3, OwnNames
    <3> HIDE DEF b
    <3>5. t \in RELEASE_SAVEPOINT(b, s.svps[i])
      BY <3>2, <3>4 DEF Then, Ready
    <3> QED
      BY <3>4, <3>5, OwnRelease, KeptThrough
  <2> QED
    BY <2>1, <2>2
<1>4. CASE t \in svp_rollback(s, name)
  <2> DEFINE i == svp_position(s, name)
             names == SubSeq(s.svps, 1, i)
             b == [s EXCEPT !.svps = names]
  <2>1. CASE i = 0
    BY <1>1, <1>4, <2>1, KeptSame DEF svp_rollback
  <2>2. CASE i # 0
    <3>1. [s EXCEPT !.svps = SubSeq(@, 1, i)] = b
      BY <1>1 DEF Session
    <3>2. t \in Then(get_dbh(b), LAMBDA u : ROLLBACK_TO_SAVEPOINT(u, s.svps[i]))
      BY <1>1, <1>4, <2>2, <3>1 DEF svp_rollback
    <3>3. names \in Seq(Nat)
      BY <2>2, PositionFound
    <3> HIDE DEF i, names
    <3>4. /\ Ready(b) /\ Begun(b) /\ b.work = s.work /\ b.committed = s.committed
          /\ get_dbh(b) = {b}
      BY <3>3, OwnNames
    <3> HIDE DEF b
    <3>5. t \in ROLLBACK_TO_SAVEPOINT(b, s.svps[i])
      BY <3>2, <3>4 DEF Then, Ready
    <3> QED
      BY <3>4, <3>5, OwnRollbackTo, KeptThrough
  <2> QED
    BY <2>1, <2>2
<1> QED
  BY <1>2, <1>3, <1>4

\* What each call leaves, refused or not.
LEMMA SvpBeginOutcome ==
  ASSUME OwnUse, NEW s, Ready(s), Begun(s), NEW name \in Name, NEW t \in svp_begin(s, name),
         NEW n, n = IF name = Default THEN Len(s.svps) ELSE name
  PROVE  /\ t.work = s.work
         /\ \/ t.err = "error"
            \/ /\ t.err = "none" /\ t.svps = Append(s.svps, n)
               /\ t.marks = Append(s.marks, [name |-> n, work |-> s.work])
<1> DEFINE names == Append(s.svps, n)
           b == [s EXCEPT !.svps = names]
           x == [name |-> n, work |-> s.work]
           done == [b EXCEPT !.marks = Append(@, x)]
<1>1. s.depth # 0 /\ s \in Session /\ s.svps \in Seq(Nat) /\ n \in Nat
  BY StorageAssumption DEF Ready, Alive, Session, Begun, Name, Default, Named
<1>2. [s EXCEPT !.svps = Append(@, n)] = b
  BY <1>1 DEF Session
<1>3. t \in Then(get_dbh(b), LAMBDA u : SAVEPOINT(u, n))
  BY <1>1, <1>2 DEF svp_begin, svp_generate_name
<1>4. names \in Seq(Nat)
  BY <1>1
<1> HIDE DEF names
<1>5. /\ Ready(b) /\ Begun(b) /\ b.work = s.work /\ b.marks = s.marks /\ get_dbh(b) = {b}
  BY <1>4, OwnNames
<1>6. b.svps = names
  BY <1>1 DEF Session
<1> HIDE DEF b
<1>7. t \in SAVEPOINT(b, n)
  BY <1>3, <1>5 DEF Then, Ready
<1>8. b.open /\ b.dbh = "live" /\ b.err = "none" /\ b \in Session
  BY <1>5 DEF Begun, Ready, Alive
<1>9. t = done \/ t = Fail(b)
  BY <1>5, <1>7, <1>8, OwnStatement DEF SAVEPOINT
<1>10. /\ done.err = "none" /\ done.work = s.work /\ done.svps = Append(s.svps, n)
       /\ done.marks = Append(s.marks, x)
  BY <1>5, <1>6, <1>8 DEF Session, names
<1>11. Fail(b).err = "error" /\ Fail(b).work = s.work
  BY <1>5, <1>8 DEF Fail, Session
<1> HIDE DEF done
<1> QED
  BY <1>9, <1>10, <1>11 DEF x

\* The server's savepoints of the name a call finds on the storage's stack.
Same(s, name) ==
  {i \in DOMAIN s.marks : s.marks[i].name = s.svps[svp_position(s, name)]}

LEMMA SvpReleaseOutcome ==
  ASSUME OwnUse, NEW s, Ready(s), Begun(s), NEW name \in Name, NEW t \in svp_release(s, name)
  PROVE  /\ t.work = s.work
         /\ \/ t.err = "error"
            \/ /\ t.err = "none" /\ svp_position(s, name) # 0 /\ Same(s, name) # {}
               /\ t.svps = SubSeq(s.svps, 1, svp_position(s, name) - 1)
               /\ t.marks = SubSeq(s.marks, 1, Greatest(Same(s, name)) - 1)
<1> DEFINE p == svp_position(s, name)
           at == Same(s, name)
           names == SubSeq(s.svps, 1, p - 1)
           b == [s EXCEPT !.svps = names]
           done == [b EXCEPT !.marks = SubSeq(@, 1, Greatest(at) - 1)]
<1>a. p = svp_position(s, name) /\ at = {i \in DOMAIN s.marks : s.marks[i].name = s.svps[p]}
  BY DEF Same
<1> HIDE DEF p, at
<1>1. s.depth # 0 /\ s \in Session /\ s.err = "none"
  BY DEF Ready, Alive, Begun
<1>2. CASE p = 0
  BY <1>1, <1>2, <1>a DEF svp_release, Fail, Session
<1>3. CASE p # 0
  <2>1. [s EXCEPT !.svps = SubSeq(@, 1, p - 1)] = b
    BY <1>1 DEF Session
  <2>2. t \in Then(get_dbh(b), LAMBDA u : RELEASE_SAVEPOINT(u, s.svps[p]))
    BY <1>1, <1>3, <1>a, <2>1 DEF svp_release
  <2>3. names \in Seq(Nat)
    BY <1>3, <1>a, PositionFound
  <2> HIDE DEF names
  <2>4. Ready(b) /\ Begun(b) /\ b.work = s.work /\ b.marks = s.marks /\ get_dbh(b) = {b}
    BY <2>3, OwnNames
  <2>5. b.svps = names
    BY <1>1 DEF Session
  <2> HIDE DEF b
  <2>6. t \in RELEASE_SAVEPOINT(b, s.svps[p])
    BY <2>2, <2>4 DEF Then, Ready
  <2>7. b.dbh = "live" /\ b.err = "none" /\ b \in Session
    BY <2>4 DEF Begun, Ready, Alive
  <2>8. t \in (IF at = {} THEN {Fail(b)} ELSE Statement(b, "savepointError", done))
    BY <1>a, <2>4, <2>6 DEF RELEASE_SAVEPOINT, ToSavepoint, Positions
  <2>9. /\ done.err = "none" /\ done.work = s.work /\ done.svps = names
        /\ done.marks = SubSeq(s.marks, 1, Greatest(at) - 1)
    BY <2>4, <2>5, <2>7 DEF Session
  <2> HIDE DEF done
  <2>10. Fail(b).err = "error" /\ Fail(b).work = s.work
    BY <2>4, <2>7 DEF Fail, Session
  <2>11. t = Fail(b) \/ (at # {} /\ t = done)
    BY <2>7, <2>8, OwnStatement
  <2> QED
    BY <1>3, <2>9, <2>10, <2>11 DEF names, p, at
<1> QED
  BY <1>2, <1>3 DEF p, at

LEMMA SvpRollbackOutcome ==
  ASSUME OwnUse, NEW s, Ready(s), Begun(s), NEW name \in Name, NEW t \in svp_rollback(s, name)
  PROVE  \/ t.err = "error" /\ t.work = s.work
         \/ /\ t.err = "none" /\ svp_position(s, name) # 0 /\ Same(s, name) # {}
            /\ t.work = s.marks[Greatest(Same(s, name))].work
            /\ t.svps = SubSeq(s.svps, 1, svp_position(s, name))
            /\ t.marks = SubSeq(s.marks, 1, Greatest(Same(s, name)))
<1> DEFINE p == svp_position(s, name)
           at == Same(s, name)
           names == SubSeq(s.svps, 1, p)
           b == [s EXCEPT !.svps = names]
           done == [b EXCEPT !.marks = SubSeq(@, 1, Greatest(at)),
                             !.work = b.marks[Greatest(at)].work]
<1>a. p = svp_position(s, name) /\ at = {i \in DOMAIN s.marks : s.marks[i].name = s.svps[p]}
  BY DEF Same
<1> HIDE DEF p, at
<1>1. s.depth # 0 /\ s \in Session /\ s.err = "none"
  BY DEF Ready, Alive, Begun
<1>2. CASE p = 0
  BY <1>1, <1>2, <1>a DEF svp_rollback, Fail, Session
<1>3. CASE p # 0
  <2>1. [s EXCEPT !.svps = SubSeq(@, 1, p)] = b
    BY <1>1 DEF Session
  <2>2. t \in Then(get_dbh(b), LAMBDA u : ROLLBACK_TO_SAVEPOINT(u, s.svps[p]))
    BY <1>1, <1>3, <1>a, <2>1 DEF svp_rollback
  <2>3. names \in Seq(Nat)
    BY <1>3, <1>a, PositionFound
  <2> HIDE DEF names
  <2>4. Ready(b) /\ Begun(b) /\ b.work = s.work /\ b.marks = s.marks /\ get_dbh(b) = {b}
    BY <2>3, OwnNames
  <2>5. b.svps = names
    BY <1>1 DEF Session
  <2> HIDE DEF b
  <2>6. t \in ROLLBACK_TO_SAVEPOINT(b, s.svps[p])
    BY <2>2, <2>4 DEF Then, Ready
  <2>7. b.dbh = "live" /\ b.err = "none" /\ b \in Session
    BY <2>4 DEF Begun, Ready, Alive
  <2>8. t \in (IF at = {} THEN {Fail(b)} ELSE Statement(b, "savepointError", done))
    BY <1>a, <2>4, <2>6 DEF ROLLBACK_TO_SAVEPOINT, ToSavepoint, Positions
  <2>9. /\ done.err = "none" /\ done.work = s.marks[Greatest(at)].work /\ done.svps = names
        /\ done.marks = SubSeq(s.marks, 1, Greatest(at))
    BY <2>4, <2>5, <2>7 DEF Session
  <2> HIDE DEF done
  <2>10. Fail(b).err = "error" /\ Fail(b).work = s.work
    BY <2>4, <2>7 DEF Fail, Session
  <2>11. t = Fail(b) \/ (at # {} /\ t = done)
    BY <2>7, <2>8, OwnStatement
  <2> QED
    BY <1>3, <2>9, <2>10, <2>11 DEF names, p, at
<1> QED
  BY <1>2, <1>3 DEF p, at

LEMMA LastIsGreatest ==
  ASSUME NEW n \in Nat, NEW S \in SUBSET (1..n), n \in S
  PROVE  Greatest(S) = n
<1>1. Greatest(S) \in 1..n /\ n <= Greatest(S)
  BY GreatestIn
<1> QED
  BY <1>1

\* Positions counted from the top of two stacks.
LEMMA FromTheTop ==
  ASSUME NEW k \in Nat, NEW m \in Nat, k <= m, NEW g \in 1..k, NEW p \in 1..m
  PROVE  /\ p > (m - k) + g => /\ p - (m - k) \in 1..k /\ (m - k) + (p - (m - k)) = p
                               /\ p - (m - k) > g
         /\ (m - k) + g \in 1..m
         /\ (m - k) + g <= p /\ p <= (m - k) + g => p = (m - k) + g
OBVIOUS

LEMMA OneLess ==
  ASSUME NEW k \in Nat, NEW m \in Nat, NEW g \in 1..k, NEW p, p = m - k + g
  PROVE  g - 1 \in Nat /\ g - 1 <= k /\ p - 1 = m - k + (g - 1)
OBVIOUS

\* When the stacks match, the storage's name, the server's savepoint and the
\* application's are the same one.
LEMMA MeantFound ==
  ASSUME NEW s, Ready(s), points \in Seq(Point), Matched(s, points), NEW name \in Name,
         svp_position(s, name) # 0, Same(s, name) # {}
  PROVE  /\ Meant(name) = Greatest(Same(s, name)) /\ Greatest(Same(s, name)) \in 1..Len(s.marks)
         /\ svp_position(s, name) = Len(s.svps) - Len(s.marks) + Greatest(Same(s, name))
<1> DEFINE p == svp_position(s, name)
           at == Same(s, name)
           k == Len(s.marks)
           m == Len(s.svps)
           g == Greatest(at)
           named == {j \in DOMAIN s.svps : s.svps[j] = name}
           mine == {i \in DOMAIN points : points[i].name = name}
<1>a. /\ p = svp_position(s, name) /\ p # 0 /\ at # {}
      /\ at = {i \in DOMAIN s.marks : s.marks[i].name = s.svps[p]}
  BY DEF Same
<1> HIDE DEF p, at
<1>1. /\ s.marks \in Seq([name : Nat, work : SUBSET Writes]) /\ s.svps \in Seq(Nat)
      /\ k \in Nat /\ m \in Nat /\ k <= m /\ m - k \in Nat /\ Len(points) = k
      /\ DOMAIN s.marks = 1..k /\ DOMAIN s.svps = 1..m /\ DOMAIN points = 1..k
      /\ at \in SUBSET (1..k)
  <2>1. s.marks \in Seq([name : Nat, work : SUBSET Writes]) /\ s.svps \in Seq(Nat)
    BY <1>a DEF Ready, Alive, Session
  <2>2. Len(points) = k /\ k <= m
    BY <1>a DEF Matched
  <2> QED
    BY <1>a, <2>1, <2>2
<1>2. \A i \in 1..k : /\ s.marks[i].name = s.svps[(m - k) + i]
                      /\ s.marks[i].name = Named <=> points[i].name = Named
  BY <1>a DEF Matched
<1>3. g \in at /\ g \in 1..k /\ \A j \in at : j <= g
  BY <1>a, <1>1, GreatestIn
<1> HIDE DEF g, k, m, p, at
<1>4. CASE name = Default
  <2>1. p = m
    <3>1. DOMAIN s.svps # {} /\ p = Greatest(DOMAIN s.svps)
      BY <1>a, <1>4 DEF svp_position
    <3>2. m \in 1..m
      BY <1>a, <1>1, <3>1
    <3> QED
      BY <1>a, <1>1, <3>1, <3>2, LastIsGreatest
  <2>2. k \in 1..k
    BY <1>a, <1>1, <1>3
  <2>3. k \in at
    <3>1. (m - k) + k = m
      BY <1>a, <1>1
    <3> QED
      BY <1>a, <1>1, <1>2, <2>1, <2>2, <3>1
  <2>4. g = k
    BY <1>a, <1>1, <1>3, <2>3
  <2>5. Meant(name) = k
    <3>1. Meant(name) = Greatest(1..k)
      BY <1>a, <1>1, <1>4, <2>2 DEF Meant
    <3> QED
      BY <1>a, <1>1, <2>2, <3>1, LastIsGreatest
  <2>6. Meant(name) = g /\ g \in 1..k /\ p = (m - k) + g
    BY <1>a, <1>1, <1>3, <2>1, <2>4, <2>5
  <2> QED
    BY <1>a, <2>6 DEF g, k, m, p, at
<1>5. CASE name # Default
  <2>1. name = Named
    BY <1>a, <1>5 DEF Name
  <2>2. named # {} /\ p = Greatest(named) /\ named \in SUBSET (1..m)
    <3>1. svp_position(s, name) = IF named = {} THEN 0 ELSE Greatest(named)
      BY <1>a, <1>5 DEF svp_position, Positions
    <3> QED
      BY <1>a, <1>1, <3>1
  <2>3. p \in named /\ \A j \in named : j <= p
    BY <1>a, <1>1, <2>2, GreatestIn
  <2>4. at = mine
    <3>1. s.svps[p] = Named
      BY <1>a, <2>1, <2>3
    <3> QED
      BY <1>a, <1>1, <1>2, <2>1, <3>1
  <2>5. Meant(name) = g
    <3>1. Meant(name) = IF mine = {} THEN 0 ELSE Greatest(mine)
      BY <1>a, <1>5 DEF Meant, Positions
    <3> QED
      BY <1>a, <2>4, <3>1 DEF g
  <2>6. (m - k) + g \in named
    <3>1. (m - k) + g \in 1..m
      BY <1>a, <1>1, <1>3
    <3>2. s.svps[(m - k) + g] = s.svps[p]
      BY <1>a, <1>2, <1>3
    <3> QED
      BY <1>a, <1>1, <2>3, <3>1, <3>2
  <2>7. p <= (m - k) + g
    <3>0. p \in 1..m
      BY <1>a, <2>2, <2>3
    <3>1. SUFFICES ASSUME p > (m - k) + g PROVE FALSE
      BY <1>a, <1>1, <1>3, <3>0
    <3> DEFINE q == p - (m - k)
    <3>2. q \in 1..k /\ (m - k) + q = p /\ q > g
      <4>1. k \in Nat /\ m \in Nat /\ k <= m /\ g \in 1..k
        BY <1>a, <1>1, <1>3
      <4> QED
        BY <1>a, <3>0, <3>1, <4>1, FromTheTop
    <3> HIDE DEF q
    <3>3. s.marks[q].name = s.svps[p]
      BY <1>a, <1>2, <3>2
    <3>4. q \in at
      BY <1>a, <1>1, <3>2, <3>3
    <3>5. q <= g
      BY <1>a, <1>3, <3>4
    <3> QED
      BY <1>a, <1>1, <1>3, <3>2, <3>5
  <2>8. p = (m - k) + g
    <3>1. p \in 1..m
      BY <1>a, <2>2, <2>3
    <3>2. (m - k) + g <= p
      BY <1>a, <2>3, <2>6
    <3> QED
      BY <1>a, <1>1, <1>3, <2>7, <3>1, <3>2, FromTheTop
  <2> QED
    BY <1>a, <1>3, <2>5, <2>8 DEF g, k, m, p, at
<1> QED
  BY <1>a, <1>4, <1>5

\* Setting a savepoint keeps the stacks matched.
LEMMA MatchedPush ==
  ASSUME NEW s, Ready(s), points \in Seq(Point), Matched(s, points), NEW name \in Name,
         Len(s.svps) < MaxFrames,
         NEW n, n = IF name = Default THEN Len(s.svps) ELSE name,
         NEW w, NEW t, t.svps = Append(s.svps, n),
         t.marks = Append(s.marks, [name |-> n, work |-> w])
  PROVE  Matched(t, Append(points, [name |-> name, work |-> w]))
<1> DEFINE k == Len(s.marks)
           m == Len(s.svps)
           x == [name |-> n, work |-> w]
           y == [name |-> name, work |-> w]
           pts == Append(points, y)
<1>1. /\ s.marks \in Seq([name : Nat, work : SUBSET Writes]) /\ s.svps \in Seq(Nat)
      /\ k \in Nat /\ m \in Nat /\ k <= m /\ Len(points) = k
  <2>1. s.marks \in Seq([name : Nat, work : SUBSET Writes]) /\ s.svps \in Seq(Nat)
    BY DEF Ready, Alive, Session
  <2>2. Len(points) = k /\ k <= m
    BY DEF Matched
  <2> QED
    BY <2>1, <2>2
<1>2. \A i \in 1..k : /\ s.marks[i].name = s.svps[(m - k) + i]
                      /\ s.marks[i].work = points[i].work
                      /\ s.marks[i].name = Named <=> points[i].name = Named
  BY DEF Matched
<1>3. x.name = Named <=> y.name = Named
  BY <1>1, StorageAssumption DEF Name, Named, Default
<1>4. x.name = n /\ x.work = y.work
  OBVIOUS
<1> HIDE DEF k, m, x, y
<1>5. /\ Len(t.marks) = k + 1 /\ t.marks[k + 1] = x /\ \A i \in 1..k : t.marks[i] = s.marks[i]
      /\ Len(t.svps) = m + 1 /\ t.svps[m + 1] = n /\ \A i \in 1..m : t.svps[i] = s.svps[i]
      /\ Len(pts) = k + 1 /\ pts[k + 1] = y /\ \A i \in 1..k : pts[i] = points[i]
  BY <1>1 DEF k, m, x
<1> HIDE DEF pts
<1>6. ASSUME NEW i \in 1..(k + 1)
      PROVE  /\ t.marks[i].name = t.svps[((m + 1) - (k + 1)) + i]
             /\ t.marks[i].work = pts[i].work
             /\ t.marks[i].name = Named <=> pts[i].name = Named
  <2>1. ((m + 1) - (k + 1)) + i = (m - k) + i
    BY <1>1
  <2>2. CASE i = k + 1
    <3>1. (m - k) + i = m + 1
      BY <1>1, <2>2
    <3> QED
      BY <1>3, <1>4, <1>5, <2>1, <2>2, <3>1
  <2>3. CASE i # k + 1
    <3>1. i \in 1..k /\ (m - k) + i \in 1..m
      BY <1>1, <2>3
    <3>2. /\ t.svps[((m + 1) - (k + 1)) + i] = s.svps[(m - k) + i]
          /\ t.marks[i] = s.marks[i] /\ pts[i] = points[i]
      BY <1>5, <2>1, <3>1, Zenon
    <3> QED
      BY <1>2, <3>1, <3>2, Zenon
  <2> QED
    BY <2>2, <2>3
<1>7. k + 1 <= m + 1
  BY <1>1
<1> QED
  BY <1>5, <1>6, <1>7 DEF Matched, pts, y

LEMMA SameMatched ==
  ASSUME NEW s, NEW t, NEW pts, Matched(s, pts), t.marks = s.marks, t.svps = s.svps
  PROVE  Matched(t, pts)
BY DEF Matched

LEMMA PrefixIs ==
  ASSUME NEW E, NEW seq \in Seq(E), NEW n \in Nat, n <= Len(seq)
  PROVE  Len(SubSeq(seq, 1, n)) = n /\ \A i \in 1..n : SubSeq(seq, 1, n)[i] = seq[i]
OBVIOUS

\* Cutting the stacks at the same savepoint keeps them matched.
LEMMA MatchedCut ==
  ASSUME NEW s, Ready(s), points \in Seq(Point), Matched(s, points),
         NEW n \in Nat, n <= Len(s.marks),
         NEW t, t.svps = SubSeq(s.svps, 1, Len(s.svps) - Len(s.marks) + n),
         t.marks = SubSeq(s.marks, 1, n)
  PROVE  Matched(t, SubSeq(points, 1, n))
<1> DEFINE k == Len(s.marks)
           m == Len(s.svps)
           pts == SubSeq(points, 1, n)
<1>1. /\ s.marks \in Seq([name : Nat, work : SUBSET Writes]) /\ s.svps \in Seq(Nat)
      /\ k \in Nat /\ m \in Nat /\ k <= m /\ Len(points) = k
  <2>1. s.marks \in Seq([name : Nat, work : SUBSET Writes]) /\ s.svps \in Seq(Nat)
    BY DEF Ready, Alive, Session
  <2>2. Len(points) = k /\ k <= m
    BY DEF Matched
  <2> QED
    BY <2>1, <2>2
<1>2. \A i \in 1..k : /\ s.marks[i].name = s.svps[(m - k) + i]
                      /\ s.marks[i].work = points[i].work
                      /\ s.marks[i].name = Named <=> points[i].name = Named
  BY DEF Matched
<1>3. n <= k /\ t.svps = SubSeq(s.svps, 1, (m - k) + n)
  OBVIOUS
<1> HIDE DEF m
<1>4. (m - k) + n \in Nat /\ (m - k) + n <= m
  BY <1>1, <1>3
<1>5. /\ Len(t.marks) = n /\ \A i \in 1..n : t.marks[i] = s.marks[i]
      /\ Len(pts) = n /\ \A i \in 1..n : pts[i] = points[i]
  <2>1. n <= Len(s.marks) /\ n <= Len(points)
    BY <1>1
  <2>2. Len(SubSeq(s.marks, 1, n)) = n /\ \A i \in 1..n : SubSeq(s.marks, 1, n)[i] = s.marks[i]
    BY <1>1, <2>1, PrefixIs
  <2>3. Len(pts) = n /\ \A i \in 1..n : pts[i] = points[i]
    BY <2>1, PrefixIs
  <2> QED
    BY <2>2, <2>3
<1>6. Len(t.svps) = (m - k) + n /\ \A i \in 1..((m - k) + n) : t.svps[i] = s.svps[i]
  <2> DEFINE h == (m - k) + n
  <2>1. s.svps \in Seq(Nat) /\ h \in Nat /\ h <= Len(s.svps)
    BY <1>1, <1>4 DEF m
  <2>2. t.svps = SubSeq(s.svps, 1, h)
    BY <1>3
  <2> HIDE DEF h
  <2>3. Len(SubSeq(s.svps, 1, h)) = h /\ \A i \in 1..h : SubSeq(s.svps, 1, h)[i] = s.svps[i]
    BY <2>1, PrefixIs
  <2> QED
    BY <2>2, <2>3 DEF h
<1> HIDE DEF pts
<1>7. ASSUME NEW i \in 1..n
      PROVE  /\ t.marks[i].name = t.svps[(((m - k) + n) - n) + i]
             /\ t.marks[i].work = pts[i].work
             /\ t.marks[i].name = Named <=> pts[i].name = Named
  <2>1. /\ (((m - k) + n) - n) + i = (m - k) + i /\ i \in 1..k
        /\ (m - k) + i \in 1..((m - k) + n)
    BY <1>1, <1>3
  <2>2. t.marks[i] = s.marks[i] /\ pts[i] = points[i] /\ t.svps[(m - k) + i] = s.svps[(m - k) + i]
    BY <1>5, <1>6, <2>1
  <2> QED
    BY <1>2, <2>1, <2>2, Zenon
<1>8. n <= (m - k) + n
  BY <1>1
<1> QED
  BY <1>5, <1>6, <1>7, <1>8 DEF Matched, pts

\* A transaction that begins has no savepoints, whatever names are left.
LEMMA MatchedEmpty ==
  ASSUME NEW s, s \in Session, s.marks = <<>>
  PROVE  Matched(s, <<>>)
<1>1. s.svps \in Seq(Nat) /\ Len(s.svps) \in Nat
  BY DEF Session
<1>2. Len(<<>>) = 0 /\ 1..0 = {}
  OBVIOUS
<1> QED
  BY <1>1, <1>2 DEF Matched

LEMMA RestingSvp ==
  ASSUME NEW s, Ready(s), Resting(s), NEW name \in Name,
         NEW t \in svp_begin(s, name) \cup svp_release(s, name) \cup svp_rollback(s, name)
  PROVE  /\ Answer(t) /\ Resting(t) /\ t.err = "error" /\ ~t.open
         /\ t.committed = s.committed
<1>1. t = Fail(s)
  BY DEF Resting, svp_begin, svp_release, svp_rollback
<1> QED
  BY <1>1, RestingSame DEF Answer, Resting

LEMMA NoWork == WorkOf(<<>>) = {} /\ Scopes(<<>>) = {} /\ OwnStack(<<>>) /\ Len(<<>>) = 0
BY DEF WorkOf, Scopes, OwnStack

LEMMA OwnShape ==
  ASSUME NEW stk \in Seq(Frame), OwnStack(stk)
  PROVE  Shape(stk) /\ (stk # <<>> <=> Scopes(stk) # {})
<1>1. Len(stk) \in Nat /\ DOMAIN stk = 1..Len(stk)
  OBVIOUS
<1>2. ASSUME NEW i \in 1..Len(stk)
      PROVE  /\ stk[i].kind = "txn_do" => i = 1
             /\ stk[i].kind = "bypass" => 1 \in 1..(i - 1) /\ stk[1].kind = "txn_do"
             /\ stk[i].kind # "eval" /\ 1 \in 1..i /\ stk[1].kind # "eval"
  <2>1. 1 \in 1..Len(stk) /\ i \in Nat /\ i >= 1 /\ 1 \in 1..i
    BY <1>1
  <2>2. i # 1 => 1 \in 1..(i - 1)
    BY <2>1
  <2> QED
    BY <2>1, <2>2 DEF OwnStack
<1>3. Shape(stk)
  <2>1. \A j \in 1..(1 - 1) : FALSE
    OBVIOUS
  <2> QED
    BY <1>1, <1>2, <2>1 DEF Shape
<1>4. stk # <<>> => 1 \in 1..Len(stk)
  BY <1>1
<1> QED
  BY <1>1, <1>2, <1>3, <1>4 DEF Scopes

\* Entering a block.
LEMMA OwnPush ==
  ASSUME NEW stk \in Seq(Frame), OwnStack(stk),
         NEW kind, kind = IF stk = <<>> THEN "txn_do" ELSE "bypass"
  PROVE  LET new == Append(stk, NewFrame(kind))
         IN  /\ OwnStack(new) /\ WorkOf(new) = WorkOf(stk) /\ new # <<>>
             /\ stk = <<>> => Len(new) <= 1
<1> DEFINE f == NewFrame(kind)
           new == Append(stk, f)
<1>1. f \in Frame /\ f.kind = kind /\ f.work = {}
  BY DEF NewFrame, Frame
<1> HIDE DEF f
<1>2. /\ Len(stk) \in Nat /\ Len(new) = Len(stk) + 1 /\ new[Len(stk) + 1] = f
      /\ \A i \in 1..Len(stk) : new[i] = stk[i]
  BY <1>1
<1>3. WorkOf(new) = WorkOf(stk)
  BY <1>1, PushWork
<1>5. /\ \A i \in 1..(Len(stk) + 1) : i \in 1..Len(stk) \/ i = Len(stk) + 1
      /\ stk = <<>> <=> Len(stk) + 1 = 1
  OBVIOUS
<1> HIDE DEF new
<1>4. OwnStack(new)
  BY <1>1, <1>2, <1>5 DEF OwnStack
<1>6. new # <<>>
  BY <1>2
<1> QED
  BY <1>2, <1>3, <1>4, <1>5, <1>6 DEF new, f

\* The top block is the one txn_do, or a block inside it.
LEMMA OwnTop ==
  ASSUME StorageInv, OwnStack(stack), stack # <<>>
  PROVE  /\ Top.work \subseteq WorkOf(stack)
         /\ \/ /\ Top.kind = "txn_do" /\ Len(stack) = 1 /\ Scopes(Below) = {}
               /\ Merged = <<>> /\ WorkOf(stack) = Top.work
            \/ /\ Top.kind = "bypass" /\ Len(stack) > 1 /\ Scopes(Below) # {}
               /\ Merged # <<>> /\ OwnStack(Merged) /\ WorkOf(Merged) = WorkOf(stack)
<1>1. stack \in Seq(Frame) /\ Shape(stack)
  BY OwnShape, InvReady DEF Stk
<1>2. /\ Below \in Seq(Frame) /\ Top \in Frame /\ Len(Below) = Len(stack) - 1
      /\ Len(stack) \in Nat /\ Len(stack) > 0
      /\ \A i \in 1..(Len(stack) - 1) : Below[i] = stack[i]
  BY <1>1, Split DEF Below, Top
<1>3. /\ WorkOf(stack) = WorkOf(Below) \cup Top.work
      /\ Len(Merged) = Len(stack) - 1
      /\ Scopes(Below) = {} => WorkOf(stack) = Top.work
      /\ Scopes(Below) # {} => WorkOf(Merged) = WorkOf(stack)
  BY <1>1, ShapePop, MergedOutcome DEF Below, Top
<1>4. OwnStack(Below)
  BY <1>2 DEF OwnStack
<1>5. Scopes(Below) # {} <=> Below # <<>>
  BY <1>2, <1>4, OwnShape
<1>6. Top.kind = IF Len(stack) = 1 THEN "txn_do" ELSE "bypass"
  BY <1>2 DEF OwnStack, Top
<1>7. CASE Len(stack) = 1
  <2>1. Below = <<>>
    BY <1>2, <1>7
  <2> QED
    BY <1>3, <1>5, <1>6, <1>7, <2>1 DEF Merged
<1>8. CASE Len(stack) # 1
  <2>1. Below # <<>> /\ Len(stack) > 1
    BY <1>2, <1>8
  <2>2. Merged = AddWork(Below, Top.work) /\ Scopes(Below) # {}
    BY <1>5, <2>1 DEF Merged
  <2>3. \A i \in 1..Len(Below) : Merged[i].kind = Below[i].kind
    <3> DEFINE n == Len(Below)
    <3>1. n \in 1..n /\ DOMAIN Below = 1..n /\ \A i \in 1..n : Below[i] \in Frame
      BY <1>2, <2>1
    <3>2. [Below[n] EXCEPT !.work = @ \cup Top.work].kind = Below[n].kind
      BY <3>1 DEF Frame
    <3>3. \A i \in 1..n : Merged[i] = IF i = n THEN [Below[n] EXCEPT !.work = @ \cup Top.work]
                                               ELSE Below[i]
      BY <2>2, <3>1 DEF AddWork
    <3> QED
      BY <3>2, <3>3
  <2>4. OwnStack(Merged)
    BY <1>2, <1>3, <1>4, <2>3 DEF OwnStack
  <2>5. Merged # <<>>
    BY <1>2, <1>3, <2>1
  <2> QED
    BY <1>3, <1>6, <1>8, <2>1, <2>2, <2>4, <2>5
<1> QED
  BY <1>7, <1>8

LEMMA OwnAdd ==
  ASSUME NEW stk \in Seq(Frame), OwnStack(stk), stk # <<>>, NEW ws \in SUBSET Writes
  PROVE  /\ OwnStack(AddWork(stk, ws)) /\ AddWork(stk, ws) # <<>>
         /\ WorkOf(AddWork(stk, ws)) = WorkOf(stk) \cup ws
<1> DEFINE n == Len(stk)
           new == AddWork(stk, ws)
<1>1. n \in 1..n /\ DOMAIN stk = 1..n /\ n \in Nat /\ \A i \in 1..n : stk[i] \in Frame
  OBVIOUS
<1>2. Len(new) = n /\ WorkOf(new) = WorkOf(stk) \cup ws
  BY OwnShape, ShapeAdd
<1>3. [stk[n] EXCEPT !.work = @ \cup ws].kind = stk[n].kind
  BY <1>1 DEF Frame
<1>4. \A i \in 1..n : new[i] = IF i = n THEN [stk[n] EXCEPT !.work = @ \cup ws] ELSE stk[i]
  BY <1>1 DEF AddWork
<1>5. \A i \in 1..n : new[i].kind = stk[i].kind
  BY <1>3, <1>4
<1> HIDE DEF new
<1>6. OwnStack(new)
  BY <1>2, <1>5 DEF OwnStack
<1>7. new # <<>>
  BY <1>1, <1>2
<1> QED
  BY <1>2, <1>6, <1>7 DEF new

\* Taking what a savepoint undid out of every block.
LEMMA OwnStrip ==
  ASSUME NEW stk \in Seq(Frame), OwnStack(stk), NEW gone
  PROVE  LET new == [i \in DOMAIN stk |-> [stk[i] EXCEPT !.work = @ \ gone]]
         IN  /\ OwnStack(new) /\ Len(new) = Len(stk) /\ (new = <<>> <=> stk = <<>>)
             /\ WorkOf(new) = WorkOf(stk) \ gone
<1> DEFINE new == [i \in DOMAIN stk |-> [stk[i] EXCEPT !.work = @ \ gone]]
<1>1. new \in Seq(Frame) /\ Len(new) = Len(stk)
  BY StripTyped
<1>2. DOMAIN stk = 1..Len(stk) /\ \A i \in DOMAIN stk : stk[i] \in Frame
  OBVIOUS
<1>3. \A i \in DOMAIN stk : new[i].kind = stk[i].kind /\ new[i].work = stk[i].work \ gone
  BY <1>2 DEF Frame
<1> HIDE DEF new
<1>4. DOMAIN new = DOMAIN stk
  BY <1>1, <1>2
<1>5. OwnStack(new)
  BY <1>1, <1>2, <1>3 DEF OwnStack
<1>6. WorkOf(new) = WorkOf(stk) \ gone
  BY <1>3, <1>4 DEF WorkOf
<1>7. new = <<>> <=> stk = <<>>
  BY <1>1
<1> QED
  BY <1>1, <1>5, <1>6, <1>7 DEF new

\* txn_do's handler begins its block again.
LEMMA OwnRestart ==
  ASSUME NEW stk \in Seq(Frame), OwnStack(stk), Len(stk) = 1,
         NEW new, new = [stk EXCEPT ![Len(stk)] = [@ EXCEPT !.tried = TRUE, !.work = {}]]
  PROVE  OwnStack(new) /\ WorkOf(new) = {} /\ new # <<>> /\ Len(new) = 1
<1>1. DOMAIN stk = {1} /\ stk[1] \in Frame
  <2>1. 1..1 = {1}
    OBVIOUS
  <2> QED
    BY <2>1
<1>2. new \in Seq(Frame) /\ Len(new) = 1
  <2>1. stk # <<>>
    OBVIOUS
  <2> QED
    BY <2>1, RestartTyped
<1>3. new[1] = [stk[1] EXCEPT !.tried = TRUE, !.work = {}]
  BY <1>1
<1>4. new[1].kind = stk[1].kind /\ new[1].work = {}
  BY <1>1, <1>3 DEF Frame
<1>5. 1..1 = {1} /\ DOMAIN new = 1..1
  BY <1>2
<1>6. OwnStack(new)
  BY <1>2, <1>4, <1>5 DEF OwnStack
<1> QED
  BY <1>2, <1>4, <1>5, <1>6 DEF WorkOf

\* What the invariant says between two steps.
LEMMA OwnFacts ==
  ASSUME StorageInv, OwnInv
  PROVE  /\ Ready(st) /\ stack \in Seq(Frame) /\ nextw \in Nat /\ WorkOf(stack) \subseteq Writes
         /\ (Resting(st) /\ ~Begun(st)) \/ (Begun(st) /\ ~Resting(st))
         /\ Resting(st) => /\ WorkOf(stack) = {} /\ Len(stack) <= 1 /\ points = <<>>
                           /\ Running => stack = <<>>
         /\ Begun(st) => /\ stack # <<>> /\ st.work = WorkOf(stack)
                         /\ Running => Matched(st, points)
         /\ points \in Seq(Point) /\ st \in Session
         /\ InScope <=> stack # <<>>
         /\ in_dbh_do <=> stack # <<>>
<1>1. /\ Ready(st) /\ stack \in Seq(Frame) /\ nextw \in Nat
      /\ points \in Seq(Point) /\ st \in Session
  BY InvReady DEF Stk, Ready, Alive
<1>2. OwnStack(stack)
  BY DEF OwnInv
<1>3. Shape(stack) /\ (stack # <<>> <=> Scopes(stack) # {})
  BY <1>1, <1>2, OwnShape
<1>4. WorkOf(stack) \subseteq Writes
  BY <1>3, WorkWrites
<1>5. in_dbh_do <=> stack # <<>>
  <2>1. DOMAIN stack = 1..Len(stack) /\ (stack # <<>> => 1 \in 1..Len(stack))
    BY <1>1
  <2> QED
    BY <1>2, <2>1 DEF in_dbh_do, OwnStack
<1> QED
  BY <1>1, <1>3, <1>4, <1>5 DEF OwnInv, Resting, Begun, InScope

LEMMA MergedTyped ==
  ASSUME StorageInv, stack # <<>>, OwnStack(Merged), Merged # <<>>
  PROVE  Scopes(Merged) # {}
BY LeftTyped, OwnShape DEF Stk

\* The attempt's state is kept, and if it has begun no savepoint is set.
LEMMA OwnBegun ==
  ASSUME NEW s, Answer(s), Settle(s), points' = <<>>,
         Begun(s) /\ s.err = "none" => s.marks = <<>>
  PROVE  /\ exc' = s.err /\ st'.committed = s.committed
         /\ Resting(s) => Resting(st')
         /\ Begun(s) => /\ Begun(st') /\ st'.work = s.work
                        /\ s.err = "none" => Matched(st', points')
<1>1. /\ st' = Caught(s) /\ exc' = s.err /\ Caught(s).marks = s.marks
      /\ Caught(s).committed = s.committed /\ Caught(s).work = s.work
      /\ Resting(s) => Resting(Caught(s))
      /\ Begun(s) => Begun(Caught(s))
  BY OwnCaught DEF Settle
<1>2. Caught(s) \in Session
  BY AnswerReady DEF Ready, Alive
<1>3. Begun(s) /\ s.err = "none" => Matched(Caught(s), <<>>)
  BY <1>1, <1>2, MatchedEmpty
<1> QED
  BY <1>1, <1>3

LEMMA OwnTxnDo ==
  ASSUME OwnUse, StorageInv, OwnInv, TxnDo
  PROVE  OwnInv'
<1>1. /\ Ready(st) /\ stack \in Seq(Frame) /\ OwnStack(stack) /\ Running
      /\ UNCHANGED <<claims, undone, nextw, points>> /\ AutoSavepoint = FALSE
  BY OwnFacts DEF TxnDo, MayNest, Bookless, OwnInv, OwnUse
<1>2. CASE Resting(st)
  <2>1. stack = <<>> /\ ~(st.depth > 0) /\ WorkOf(stack) = {} /\ points = <<>>
    <3>1. stack = <<>> /\ WorkOf(stack) = {} /\ points = <<>>
      BY <1>1, <1>2, OwnFacts
    <3> QED
      BY <1>2, <3>1 DEF Resting
  <2>2. stack' = Append(stack, NewFrame("txn_do"))
    BY <2>1 DEF TxnDo, Push
  <2>3. PICK s \in txn_do_attempt(st) : Settle(s)
    BY <2>1 DEF TxnDo
  <2>4. OwnStack(stack') /\ WorkOf(stack') = {} /\ stack' # <<>> /\ Len(stack') <= 1
    BY <1>1, <2>1, <2>2, OwnPush
  <2>5. /\ Answer(s) /\ s.committed = st.committed
        /\ \/ s.err = "none" /\ Begun(s) /\ s.work = {} /\ s.marks = <<>>
           \/ s.err = "error" /\ Resting(s)
    BY <1>1, <1>2, <2>3, OwnAttempt
  <2>6. /\ exc' = s.err /\ st'.committed = st.committed
        /\ Resting(s) => Resting(st')
        /\ Begun(s) => /\ Begun(st') /\ st'.work = s.work
                       /\ s.err = "none" => Matched(st', points')
    BY <1>1, <2>1, <2>3, <2>5, OwnBegun
  <2> QED
    BY <1>1, <2>1, <2>4, <2>5, <2>6 DEF OwnInv, Running
<1>3. CASE Begun(st)
  <2>1. stack # <<>> /\ st.depth > 0 /\ st.work = WorkOf(stack)
    <3>1. stack # <<>> /\ st.work = WorkOf(stack)
      BY <1>1, <1>3, OwnFacts
    <3> QED
      BY <1>3, <3>1 DEF Begun
  <2>2. stack' = Append(stack, NewFrame("bypass")) /\ st' = st /\ exc' = exc
    BY <1>1, <2>1 DEF TxnDo, Push
  <2>3. OwnStack(stack') /\ WorkOf(stack') = WorkOf(stack) /\ stack' # <<>>
    BY <1>1, <2>1, <2>2, OwnPush
  <2> QED
    BY <1>1, <1>3, <2>1, <2>2, <2>3 DEF OwnInv, Running
<1> QED
  BY <1>2, <1>3, OwnFacts

LEMMA OwnReturn ==
  ASSUME OwnUse, StorageInv, OwnInv, Return
  PROVE  OwnInv'
<1>1. /\ Ready(st) /\ Begun(st) /\ st.work = WorkOf(stack) /\ stack # <<>> /\ Running
      /\ OwnStack(stack) /\ nextw' = nextw /\ undone \cap WorkOf(stack) = {}
      /\ Matched(st, points)
  BY OwnFacts DEF Return, OwnInv
<1>2. PICK s \in IF Top.kind \in {"txn_do", "guard"} THEN txn_commit(st) ELSE {st} :
        Settle(s) /\ IF s.err = "none" THEN Succeed ELSE Bookless /\ UNCHANGED stack
  BY DEF Return
<1>3. CASE Top.kind = "txn_do"
  <2>1. Scopes(Below) = {} /\ Merged = <<>> /\ WorkOf(stack) = Top.work
    BY <1>1, <1>3, OwnTop
  <2>2. s \in txn_commit(st)
    BY <1>2, <1>3
  <2>3. CASE s.err = "none"
    <3>1. Answer(s) /\ Resting(s) /\ s.committed = st.committed \cup WorkOf(stack)
      BY <1>1, <2>2, <2>3, OwnTxnCommit
    <3>2. /\ stack' = <<>> /\ claims' = claims \cup WorkOf(stack) /\ undone' = undone
          /\ st' = Caught(s) /\ points' = <<>>
      BY <1>2, <2>1, <2>3, NoWork DEF Succeed, Standing, Settle
    <3>3. Resting(st') /\ st'.committed = st.committed \cup WorkOf(stack)
      BY <3>1, <3>2, OwnCaught
    <3>4. OwnStack(stack') /\ WorkOf(stack') = {} /\ Len(stack') <= 1
      BY <3>2, NoWork
    <3> QED
      BY <1>1, <3>2, <3>3, <3>4 DEF OwnInv
  <2>4. CASE s.err # "none"
    <3>1. /\ Answer(s) /\ s.err = "error" /\ Begun(s) /\ s.committed = st.committed
          /\ s.work = st.work
      BY <1>1, <2>2, <2>4, OwnTxnCommit
    <3>2. st' = Caught(s) /\ exc' = "error" /\ UNCHANGED <<claims, undone, stack>>
      BY <1>2, <2>4, <3>1 DEF Settle, Bookless
    <3>3. Begun(st') /\ st'.committed = st.committed /\ st'.work = st.work
      BY <3>1, <3>2, OwnCaught
    <3> QED
      BY <1>1, <3>2, <3>3 DEF OwnInv, Running
  <2> QED
    BY <2>3, <2>4
<1>4. CASE Top.kind = "bypass"
  <2>1. /\ Scopes(Below) # {} /\ Merged # <<>> /\ OwnStack(Merged)
        /\ WorkOf(Merged) = WorkOf(stack)
    BY <1>1, <1>4, OwnTop
  <2>2. s = st /\ s.err = "none"
    BY <1>1, <1>2, <1>4 DEF Ready
  <2>3. /\ stack' = Merged /\ claims' = claims /\ undone' = undone /\ st' = Caught(st)
        /\ exc' = "none" /\ points' = points
    <3>1. Scopes(Merged) # {}
      BY <1>1, <2>1, MergedTyped
    <3> QED
      BY <1>2, <2>1, <2>2, <3>1 DEF Succeed, Standing, Settle
  <2>4. /\ Begun(st') /\ st'.committed = st.committed /\ st'.work = st.work
        /\ st'.marks = st.marks /\ st'.svps = st.svps
    <3>1. Answer(st)
      BY <1>1 DEF Ready, Answer
    <3> QED
      BY <1>1, <2>3, <3>1, OwnCaught
  <2>5. Matched(st', points')
    BY <1>1, <2>3, <2>4, SameMatched
  <2> QED
    BY <1>1, <2>1, <2>3, <2>4, <2>5 DEF OwnInv, Running
<1> QED
  BY <1>1, <1>3, <1>4, OwnTop

LEMMA OwnWrite ==
  ASSUME OwnUse, StorageInv, OwnInv, Write
  PROVE  OwnInv'
<1>1. /\ Ready(st) /\ stack \in Seq(Frame) /\ OwnStack(stack) /\ Running /\ nextw \in Writes
      /\ nextw \in Nat /\ undone' = undone /\ undone \cap WorkOf(stack) = {}
      /\ points' = points /\ (Begun(st) => Matched(st, points))
      /\ WorkOf(stack) \subseteq Writes
      /\ InScope <=> stack # <<>>
      /\ in_dbh_do <=> stack # <<>>
  BY OwnFacts DEF Write, OwnInv
<1>2. PICK s \in dbh_do(st, in_dbh_do, nextw) :
       /\ Settle(s)
       /\ IF s.err # "none" THEN UNCHANGED <<stack, nextw, claims>>
          ELSE /\ nextw' = nextw + 1
               /\ IF InScope
                  THEN stack' = AddWork(stack, {nextw}) /\ UNCHANGED claims
                  ELSE claims' = claims \cup {nextw} /\ UNCHANGED stack
  BY DEF Write
<1>3. (in_dbh_do <=> Begun(st)) /\ (Resting(st) \/ Begun(st))
  BY <1>1, OwnFacts
<1>4. /\ Answer(s)
      /\ Resting(st) => /\ Resting(s)
                        /\ s.committed = IF s.err = "none" THEN st.committed \cup {nextw}
                                                           ELSE st.committed
      /\ Begun(st) => /\ Begun(s) /\ s.committed = st.committed
                      /\ s.work = IF s.err = "none" THEN st.work \cup {nextw} ELSE st.work
                      /\ s.err = "none" => s.marks = st.marks /\ s.svps = st.svps
  BY <1>1, <1>2, <1>3, OwnWriteOutcome
<1>5. /\ st' = Caught(s) /\ exc' = s.err /\ st'.committed = s.committed /\ st'.work = s.work
      /\ st'.marks = s.marks /\ st'.svps = s.svps
      /\ Resting(s) => Resting(st')
      /\ Begun(s) => Begun(st')
  BY <1>2, <1>4, OwnCaught DEF Settle
<1>6. \A w \in st.committed \cup undone \cup WorkOf(stack) : w < nextw + 1 /\ w # nextw
  <2>1. \A w \in Writes : w < nextw => w < nextw + 1 /\ w # nextw
    BY <1>1 DEF Writes
  <2>2. st.committed \subseteq Writes /\ undone \subseteq Writes
    BY InvReady DEF Ready, Alive, Session
  <2> QED
    BY <1>1, <2>1, <2>2 DEF OwnInv
<1>7. nextw < nextw + 1
  BY <1>1
<1>8. CASE s.err # "none"
  <2>1. UNCHANGED <<stack, nextw, claims>> /\ ~Running'
    BY <1>2, <1>5, <1>8 DEF Running
  <2>2. CASE Resting(st)
    BY <1>1, <1>4, <1>5, <1>8, <2>1, <2>2 DEF OwnInv, Resting, Begun
  <2>3. CASE Begun(st)
    BY <1>1, <1>4, <1>5, <1>8, <2>1, <2>3 DEF OwnInv, Resting, Begun
  <2> QED
    BY <2>2, <2>3, OwnFacts
<1>9. CASE s.err = "none"
  <2>1. CASE Resting(st)
    <3>1. stack = <<>> /\ WorkOf(stack) = {} /\ points = <<>>
      BY <1>1, <2>1, OwnFacts
    <3>2. /\ claims' = claims \cup {nextw} /\ stack' = stack /\ nextw' = nextw + 1
          /\ Resting(st') /\ st'.committed = st.committed \cup {nextw}
      BY <1>1, <1>2, <1>4, <1>5, <1>9, <2>1, <3>1
    <3>3. Len(stack') <= 1
      BY <3>1, <3>2, NoWork
    <3> QED
      BY <1>1, <1>6, <1>7, <3>1, <3>2, <3>3 DEF OwnInv
  <2>2. CASE Begun(st)
    <3>1. stack # <<>> /\ st.work = WorkOf(stack)
      BY <2>2, OwnFacts
    <3>2. /\ stack' = AddWork(stack, {nextw}) /\ claims' = claims /\ nextw' = nextw + 1
          /\ Begun(st') /\ st'.committed = st.committed /\ st'.work = WorkOf(stack) \cup {nextw}
      BY <1>1, <1>2, <1>4, <1>5, <1>9, <2>2, <3>1
    <3>3. /\ OwnStack(stack') /\ stack' # <<>> /\ WorkOf(stack') = WorkOf(stack) \cup {nextw}
      BY <1>1, <3>1, <3>2, OwnAdd
    <3>4. Matched(st', points')
      BY <1>1, <1>4, <1>5, <1>9, <2>2, SameMatched
    <3> QED
      BY <1>1, <1>6, <1>7, <3>2, <3>3, <3>4 DEF OwnInv
  <2> QED
    BY <2>1, <2>2, OwnFacts
<1> QED
  BY <1>8, <1>9

LEMMA OwnThrow ==
  ASSUME OwnInv, Throw, StorageInv
  PROVE  OwnInv'
<1>1. /\ Begun(st) /\ UNCHANGED <<st, stack, nextw, claims, undone>> /\ exc' = "error"
  BY OwnFacts DEF Throw
<1> QED
  BY <1>1 DEF OwnInv, Running, Throw

LEMMA OwnUnwindTxnDo ==
  ASSUME OwnUse, StorageInv, OwnInv, ~Running, stack # <<>>, UnwindTxnDo, nextw' = nextw
  PROVE  OwnInv'
<1>1. /\ Ready(st) /\ stack \in Seq(Frame) /\ OwnStack(stack) /\ Top.kind = "txn_do"
      /\ AutoSavepoint = FALSE
  BY OwnFacts DEF OwnInv, UnwindTxnDo, OwnUse
<1>2. Len(stack) = 1 /\ Merged = <<>> /\ WorkOf(stack) = Top.work
  BY <1>1, OwnTop
<1>3. ASSUME GiveUp, Resting(st'), st'.committed = st.committed
      PROVE  OwnInv'
  <2>1. /\ stack' = <<>> /\ undone' = undone \cup WorkOf(stack) /\ claims' = claims
        /\ points' = <<>>
    BY <1>1, <1>2, <1>3, NoWork DEF GiveUp, Disown, Standing
  <2>2. OwnStack(stack') /\ WorkOf(stack') = {} /\ Len(stack') <= 1
    BY <2>1, NoWork
  <2> QED
    BY <1>3, <2>1, <2>2 DEF OwnInv
<1>4. CASE no_retry(Top, st)
  <2>1. PICK s \in txn_rollback(st) : st' = Caught(s)
    BY <1>4 DEF UnwindTxnDo
  <2>2. Resting(st') /\ st'.committed = st.committed
    BY <1>1, <2>1, OwnFacts, OwnTxnRollback
  <2>3. GiveUp
    BY <1>4 DEF UnwindTxnDo
  <2> QED
    BY <1>3, <2>2, <2>3
<1>5. CASE ~no_retry(Top, st)
  <2>1. PICK s \in populate_dbh(st) :
            IF s.err # "none" THEN Settle(s) /\ GiveUp
            ELSE /\ \E t \in txn_do_attempt(s) : Settle(t)
                 /\ stack' = [stack EXCEPT ![Len(stack)] =
                                [@ EXCEPT !.tried = TRUE, !.work = {}]]
                 /\ points' = <<>>
                 /\ Disown(Top.work, Scopes(Below) = {})
    BY <1>5 DEF UnwindTxnDo
  <2>2. Resting(st)
    BY <1>5, OwnFacts DEF no_retry, connected, Begun
  <2>3. WorkOf(stack) = {}
    BY <2>2, OwnFacts
  <2>4. Answer(s) /\ Resting(s) /\ s.committed = st.committed
    BY <1>1, <2>1, <2>2, OwnPopulate
  <2>5. CASE s.err # "none"
    <3>1. GiveUp /\ st' = Caught(s)
      BY <2>1, <2>5 DEF Settle
    <3>2. Resting(st') /\ st'.committed = st.committed
      BY <2>4, <3>1, OwnCaught
    <3> QED
      BY <1>3, <3>1, <3>2
  <2>6. CASE s.err = "none"
    <3>1. PICK t \in txn_do_attempt(s) : Settle(t)
      BY <2>1, <2>6
    <3>2. Ready(s)
      BY <2>4, <2>6, AnswerReady
    <3>3. /\ Answer(t) /\ t.committed = st.committed
          /\ \/ t.err = "none" /\ Begun(t) /\ t.work = {} /\ t.marks = <<>>
             \/ t.err = "error" /\ Resting(t)
      BY <2>4, <3>1, <3>2, OwnAttempt
    <3>4. /\ exc' = t.err /\ st'.committed = st.committed /\ points' = <<>>
          /\ Resting(t) => Resting(st')
          /\ Begun(t) => /\ Begun(st') /\ st'.work = t.work
                         /\ t.err = "none" => Matched(st', points')
      BY <2>1, <2>6, <3>1, <3>3, OwnBegun
    <3>5. OwnStack(stack') /\ WorkOf(stack') = {} /\ stack' # <<>> /\ Len(stack') = 1
      BY <1>1, <1>2, <2>1, <2>6, OwnRestart
    <3>6. undone' = undone /\ claims' = claims
      BY <1>2, <2>1, <2>3, <2>6 DEF Disown
    <3> QED
      BY <2>3, <3>3, <3>4, <3>5, <3>6 DEF OwnInv, Running
  <2> QED
    BY <2>5, <2>6
<1> QED
  BY <1>4, <1>5

LEMMA OwnUnwind ==
  ASSUME OwnUse, StorageInv, OwnInv, Unwind
  PROVE  OwnInv'
<1>1. ~Running /\ nextw' = nextw
  BY DEF Unwind
<1>2. CASE stack = <<>>
  <2>1. UNCHANGED <<st, stack, claims, undone, points>>
    BY <1>2 DEF Unwind, Bookless
  <2>2. Resting(st) /\ WorkOf(stack) = {} /\ Len(stack) <= 1 /\ points = <<>>
    BY <1>2, OwnFacts
  <2> QED
    BY <1>1, <1>2, <2>1, <2>2 DEF OwnInv
<1>3. CASE stack # <<>>
  <2>1. \/ Top.kind = "txn_do"
        \/ /\ Top.kind = "bypass" /\ Len(stack) > 1 /\ Merged # <<>> /\ OwnStack(Merged)
           /\ WorkOf(Merged) = WorkOf(stack)
    BY <1>3, OwnTop DEF OwnInv
  <2>2. CASE Top.kind = "txn_do"
    <3>1. UnwindTxnDo
      BY <1>3, <2>2 DEF Unwind, UnwindGuard, UnwindBypass, UnwindEval
    <3> QED
      BY <1>1, <1>3, <3>1, OwnUnwindTxnDo
  <2>3. CASE Top.kind = "bypass"
    <3>1. GiveUp /\ UNCHANGED <<st, exc>>
      BY <1>3, <2>3 DEF Unwind, UnwindTxnDo, UnwindGuard, UnwindBypass, UnwindEval
    <3>2. /\ stack' = Merged /\ undone' = undone \cup Top.work /\ claims' = claims
          /\ Top.work \subseteq WorkOf(stack)
      BY <1>3, <3>1, OwnTop DEF GiveUp, Disown, OwnUse, OwnInv
    <3>3. Begun(st) /\ st.work = WorkOf(stack)
      <4>1. ~(Len(stack) <= 1)
        BY <2>1, <2>3, OwnFacts, LenProperties
      <4> QED
        BY <4>1, OwnFacts
    <3> QED
      BY <1>1, <2>1, <2>3, <3>1, <3>2, <3>3 DEF OwnInv, Running
  <2> QED
    BY <2>1, <2>2, <2>3
<1> QED
  BY <1>2, <1>3

\* A call that succeeds keeps the stacks matched, and what it undid is what was
\* written since the savepoint the application meant.
LEMMA OwnSvpBegin ==
  ASSUME OwnUse, StorageInv, OwnInv, Begun(st), Running, NEW name \in Name, SvpBegin(name)
  PROVE  /\ Begun(st') /\ st'.committed = st.committed /\ st'.work = st.work
         /\ stack' = stack /\ undone' = undone
         /\ Running' => Matched(st', points')
<1>1. PICK s \in svp_begin(st, name) :
        /\ Settle(s) /\ stack' = stack /\ undone' = undone
        /\ points' = IF s.err # "none" THEN points
                     ELSE Append(points, [name |-> name, work |-> OpenWork])
  BY DEF SvpBegin
<1>2. /\ Ready(st) /\ points \in Seq(Point) /\ Matched(st, points) /\ st.work = OpenWork
      /\ Len(st.svps) < MaxFrames
  BY OwnFacts DEF SvpBegin, OpenWork
<1>3. OwnKept(st, s)
  BY <1>1, <1>2, OwnSvp
<1> DEFINE n == IF name = Default THEN Len(st.svps) ELSE name
<1>4. /\ s.work = st.work
      /\ \/ s.err = "error"
         \/ /\ s.err = "none" /\ s.svps = Append(st.svps, n)
            /\ s.marks = Append(st.marks, [name |-> n, work |-> st.work])
  BY <1>1, <1>2, SvpBeginOutcome
<1>5. s.err = "none" => Matched(s, Append(points, [name |-> name, work |-> st.work]))
  BY <1>2, <1>4, MatchedPush
<1>6. /\ st' = Caught(s) /\ exc' = s.err /\ st'.committed = st.committed /\ st'.work = st.work
      /\ Begun(st') /\ st'.svps = s.svps /\ st'.marks = s.marks
  BY <1>1, <1>3, <1>4, OwnCaught DEF Settle, OwnKept
<1>7. Running' => Matched(st', points')
  BY <1>1, <1>2, <1>5, <1>6 DEF Running, Matched
<1> QED
  BY <1>1, <1>6, <1>7

LEMMA OwnSvpRelease ==
  ASSUME OwnUse, StorageInv, OwnInv, Begun(st), Running, NEW name \in Name, SvpRelease(name)
  PROVE  /\ Begun(st') /\ st'.committed = st.committed /\ st'.work = st.work
         /\ stack' = stack /\ undone' = undone
         /\ Running' => Matched(st', points')
<1>1. PICK s \in svp_release(st, name) :
        /\ Settle(s) /\ stack' = stack /\ undone' = undone
        /\ points' = IF s.err # "none" THEN points
                     ELSE SubSeq(points, 1, Meant(name) - 1)
  BY DEF SvpRelease
<1>2. Ready(st) /\ points \in Seq(Point) /\ Matched(st, points)
  BY OwnFacts
<1>3. OwnKept(st, s)
  BY <1>1, <1>2, OwnSvp
<1> DEFINE p == svp_position(st, name)
           at == Same(st, name)
           g == Greatest(at)
<1>4. /\ s.work = st.work
      /\ \/ s.err = "error"
         \/ /\ s.err = "none" /\ p # 0 /\ at # {}
            /\ s.svps = SubSeq(st.svps, 1, p - 1)
            /\ s.marks = SubSeq(st.marks, 1, g - 1)
  BY <1>1, <1>2, SvpReleaseOutcome
<1>5. s.err = "none" =>
        /\ Meant(name) = g /\ g \in 1..Len(st.marks)
        /\ p = Len(st.svps) - Len(st.marks) + g
  BY <1>2, <1>4, MeantFound
<1> HIDE DEF p, at, g
<1>6. s.err = "none" => Matched(s, SubSeq(points, 1, Meant(name) - 1))
  <2>1. SUFFICES ASSUME s.err = "none" PROVE Matched(s, SubSeq(points, 1, g - 1))
    BY <1>5
  <2>2. Len(st.svps) \in Nat /\ Len(st.marks) \in Nat
    BY <1>2 DEF Ready, Alive, Session
  <2>3. /\ g - 1 \in Nat /\ g - 1 <= Len(st.marks)
        /\ p - 1 = Len(st.svps) - Len(st.marks) + (g - 1)
    <3>1. g \in 1..Len(st.marks) /\ p = Len(st.svps) - Len(st.marks) + g
      BY <1>5, <2>1
    <3> QED
      BY <2>2, <3>1, OneLess
  <2>4. s.svps = SubSeq(st.svps, 1, Len(st.svps) - Len(st.marks) + (g - 1))
    BY <1>4, <2>1, <2>3
  <2>5. s.marks = SubSeq(st.marks, 1, g - 1)
    BY <1>4, <2>1
  <2> QED
    BY <1>2, <2>3, <2>4, <2>5, MatchedCut
<1>7. /\ st' = Caught(s) /\ exc' = s.err /\ st'.committed = st.committed /\ st'.work = st.work
      /\ Begun(st') /\ st'.svps = s.svps /\ st'.marks = s.marks
  BY <1>1, <1>3, <1>4, OwnCaught DEF Settle, OwnKept
<1>8. Running' => Matched(st', points')
  BY <1>1, <1>6, <1>7 DEF Running, Matched
<1> QED
  BY <1>1, <1>7, <1>8

LEMMA OwnSvpRollback ==
  ASSUME OwnUse, StorageInv, OwnInv, Begun(st), Running, NEW name \in Name, SvpRollback(name)
  PROVE  /\ Begun(st') /\ st'.committed = st.committed
         /\ \E gone : /\ gone \subseteq st.work /\ st'.work = st.work \ gone
                      /\ stack' = [j \in DOMAIN stack |-> [stack[j] EXCEPT !.work = @ \ gone]]
                      /\ undone' = undone \cup gone
         /\ Running' => Matched(st', points')
<1>1. PICK s \in svp_rollback(st, name) :
        LET i    == Meant(name)
            gone == IF s.err # "none" \/ i = 0 THEN {} ELSE OpenWork \ points[i].work
        IN  /\ Settle(s)
            /\ points' = IF s.err # "none" THEN points ELSE SubSeq(points, 1, i)
            /\ stack' = [j \in DOMAIN stack |-> [stack[j] EXCEPT !.work = @ \ gone]]
            /\ undone' = undone \cup gone
  BY DEF SvpRollback
<1>2. /\ Ready(st) /\ points \in Seq(Point) /\ Matched(st, points) /\ st.work = OpenWork
  BY OwnFacts DEF OpenWork
<1>3. OwnKept(st, s)
  BY <1>1, <1>2, OwnSvp
<1> DEFINE p == svp_position(st, name)
           at == Same(st, name)
           g == Greatest(at)
<1>4. \/ s.err = "error" /\ s.work = st.work
      \/ /\ s.err = "none" /\ p # 0 /\ at # {}
         /\ s.work = st.marks[g].work
         /\ s.svps = SubSeq(st.svps, 1, p)
         /\ s.marks = SubSeq(st.marks, 1, g)
  BY <1>1, <1>2, SvpRollbackOutcome
<1>5. s.err = "none" =>
        /\ Meant(name) = g /\ g \in 1..Len(st.marks)
        /\ p = Len(st.svps) - Len(st.marks) + g
  BY <1>2, <1>4, MeantFound
<1> HIDE DEF p, at, g
<1>6. s.err = "none" =>
        /\ Matched(s, SubSeq(points, 1, Meant(name)))
        /\ Meant(name) # 0 /\ s.work = points[Meant(name)].work
  <2>1. SUFFICES ASSUME s.err = "none"
                 PROVE  /\ Matched(s, SubSeq(points, 1, g))
                        /\ g # 0 /\ s.work = points[g].work
    BY <1>5
  <2>2. Len(st.svps) \in Nat /\ Len(st.marks) \in Nat
    BY <1>2 DEF Ready, Alive, Session
  <2>3. g \in Nat /\ g <= Len(st.marks) /\ g # 0
    BY <1>5, <2>1, <2>2
  <2>4. /\ s.svps = SubSeq(st.svps, 1, Len(st.svps) - Len(st.marks) + g)
        /\ s.marks = SubSeq(st.marks, 1, g)
    BY <1>4, <1>5, <2>1
  <2>5. Matched(s, SubSeq(points, 1, g))
    BY <1>2, <2>3, <2>4, MatchedCut
  <2>6. s.work = points[g].work
    BY <1>2, <1>4, <1>5, <2>1 DEF Matched
  <2> QED
    BY <2>3, <2>5, <2>6
<1>7. /\ st' = Caught(s) /\ exc' = s.err /\ st'.committed = st.committed /\ st'.work = s.work
      /\ Begun(st') /\ st'.svps = s.svps /\ st'.marks = s.marks /\ s.work \subseteq st.work
  BY <1>1, <1>3, OwnCaught DEF Settle, OwnKept
<1>8. Running' => Matched(st', points')
  BY <1>1, <1>6, <1>7 DEF Running, Matched
<1> DEFINE lost == IF s.err # "none" \/ Meant(name) = 0 THEN {}
                   ELSE OpenWork \ points[Meant(name)].work
<1>9. /\ stack' = [j \in DOMAIN stack |-> [stack[j] EXCEPT !.work = @ \ lost]]
      /\ undone' = undone \cup lost
  BY <1>1
<1>10. lost \subseteq st.work /\ s.work = st.work \ lost
  <2>1. CASE s.err = "error"
    BY <1>4, <2>1
  <2>2. CASE s.err = "none"
    BY <1>2, <1>6, <1>7, <2>2
  <2> QED
    BY <1>4, <2>1, <2>2
<1> HIDE DEF lost
<1> QED
  BY <1>7, <1>8, <1>9, <1>10

LEMMA OwnSvpCall ==
  ASSUME OwnUse, StorageInv, OwnInv, SvpCall
  PROVE  OwnInv'
<1>1. /\ Ready(st) /\ stack \in Seq(Frame) /\ OwnStack(stack) /\ Running
      /\ UNCHANGED <<nextw, claims>> /\ undone \cap WorkOf(stack) = {}
  BY OwnFacts DEF SvpCall, OwnInv
<1>2. PICK name \in Name : SvpBegin(name) \/ SvpRelease(name) \/ SvpRollback(name)
  BY DEF SvpCall, Name
<1>3. CASE Resting(st)
  <2>1. stack = <<>> /\ WorkOf(stack) = {} /\ points = <<>>
    BY <1>1, <1>3, OwnFacts
  <2>2. \A s \in svp_begin(st, name) \cup svp_release(st, name) \cup svp_rollback(st, name) :
          /\ Answer(s) /\ Resting(s) /\ s.err = "error" /\ s.committed = st.committed
    BY <1>1, <1>3, RestingSvp
  <2>3. PICK s \in svp_begin(st, name) \cup svp_release(st, name) \cup svp_rollback(st, name) :
          /\ Settle(s) /\ (s.err # "none" => points' = points /\ undone' = undone)
          /\ stack' = stack \/ \E gone : stack' = [j \in DOMAIN stack |->
                                                   [stack[j] EXCEPT !.work = @ \ gone]]
    <3>1. CASE SvpBegin(name)
      BY <3>1 DEF SvpBegin
    <3>2. CASE SvpRelease(name)
      BY <3>2 DEF SvpRelease
    <3>3. CASE SvpRollback(name)
      BY <3>3 DEF SvpRollback
    <3> QED
      BY <1>2, <3>1, <3>2, <3>3
  <2>4. /\ Resting(st') /\ st'.committed = st.committed /\ exc' = "error"
        /\ points' = <<>> /\ undone' = undone
    BY <2>1, <2>2, <2>3, OwnCaught DEF Settle
  <2>5. stack' = <<>>
    BY <2>1, <2>3
  <2>6. WorkOf(stack') = {} /\ Len(stack') <= 1 /\ OwnStack(stack')
    BY <2>5, NoWork
  <2> QED
    BY <1>1, <2>1, <2>4, <2>5, <2>6 DEF OwnInv
<1>4. CASE Begun(st)
  <2>1. stack # <<>> /\ st.work = WorkOf(stack)
    BY <1>4, OwnFacts
  <2>2. CASE SvpBegin(name) \/ SvpRelease(name)
    <3>1. /\ Begun(st') /\ st'.committed = st.committed /\ st'.work = st.work
          /\ stack' = stack /\ undone' = undone
          /\ Running' => Matched(st', points')
      BY <1>1, <1>4, <2>2, OwnSvpBegin, OwnSvpRelease
    <3> QED
      BY <1>1, <2>1, <3>1 DEF OwnInv
  <2>3. CASE SvpRollback(name)
    <3>1. /\ Begun(st') /\ st'.committed = st.committed
          /\ Running' => Matched(st', points')
      BY <1>1, <1>4, <2>3, OwnSvpRollback
    <3>2. PICK gone : /\ gone \subseteq st.work /\ st'.work = st.work \ gone
                      /\ stack' = [j \in DOMAIN stack |-> [stack[j] EXCEPT !.work = @ \ gone]]
                      /\ undone' = undone \cup gone
      BY <1>1, <1>4, <2>3, OwnSvpRollback
    <3>3. /\ OwnStack(stack') /\ stack' # <<>> /\ WorkOf(stack') = WorkOf(stack) \ gone
      <4> DEFINE new == [j \in DOMAIN stack |-> [stack[j] EXCEPT !.work = @ \ gone]]
      <4>1. OwnStack(new) /\ (new = <<>> <=> stack = <<>>) /\ WorkOf(new) = WorkOf(stack) \ gone
        BY <1>1, OwnStrip
      <4>2. stack' = new
        BY <3>2
      <4> HIDE DEF new
      <4> QED
        BY <2>1, <4>1, <4>2
    <3> QED
      BY <1>1, <2>1, <3>1, <3>2, <3>3 DEF OwnInv
  <2> QED
    BY <1>2, <2>2, <2>3
<1> QED
  BY <1>3, <1>4, OwnFacts

LEMMA OwnConnection ==
  ASSUME OwnUse, StorageInv, OwnInv, CallDbh \/ Disconnect
  PROVE  OwnInv'
<1>1. /\ Ready(st) /\ Running /\ UNCHANGED <<stack, nextw, claims, undone, points>>
  BY OwnFacts DEF CallDbh, Disconnect, Bookless
<1>2. /\ Resting(st) /\ stack = <<>> /\ WorkOf(stack) = {} /\ Len(stack) <= 1
      /\ points = <<>>
  BY <1>1, OwnFacts DEF CallDbh, Disconnect, connected, Begun, OwnUse
<1>3. Resting(st') /\ st'.committed = st.committed
  <2>1. CASE CallDbh
    <3>1. PICK s \in populate_dbh(st) : Settle(s)
      BY <2>1 DEF CallDbh
    <3> QED
      BY <1>1, <1>2, <3>1, OwnPopulate, OwnCaught DEF Settle
  <2>2. CASE Disconnect
    <3>1. st' = [Lost(st) EXCEPT !.dbh = "none"]
      BY <2>2 DEF Disconnect
    <3> QED
      BY <1>1, <1>2, <3>1 DEF Lost, Resting, Ready, Alive, Session
  <2> QED
    BY <2>1, <2>2
<1> QED
  BY <1>1, <1>2, <1>3 DEF OwnInv

LEMMA OwnInit ==
  ASSUME Init
  PROVE  OwnInv
BY NoWork DEF Init, OwnInv, Resting

LEMMA OwnNext ==
  ASSUME OwnUse, StorageInv, OwnInv, [Next]_vars
  PROVE  OwnInv'
<1>1. CASE UNCHANGED vars
  BY <1>1 DEF vars, OwnInv, Running
<1>2. ~GuardNew /\ ~EvalBegin /\ ~Drop
  BY DEF OwnUse, GuardNew, EvalBegin, Drop
<1>3. ~GuardAbandon
  BY OwnTop DEF GuardAbandon, OwnInv
<1>4. CASE Next
  BY <1>2, <1>3, <1>4, OwnTxnDo, OwnReturn, OwnWrite, OwnThrow, OwnUnwind, OwnSvpCall,
     OwnConnection DEF Next
<1> QED
  BY <1>1, <1>4

------------------------------------------------------------------------------
(* Theorems with the application's own savepoints *)

\* Whatever savepoints the application sets, loses and goes back to, the
\* transaction holds what its blocks still claim to have written, and nothing
\* that was undone or is pending is durable.
THEOREM OwnInvariant ==
  ASSUME OwnUse
  PROVE  Spec => []OwnInv
<1>1. Init => OwnInv
  BY OwnInit
<1>2. StorageInv /\ OwnInv /\ [Next]_vars => OwnInv'
  BY OwnNext
<1> QED
  BY <1>1, <1>2, StorageInvariant, PTL DEF Spec

\* What txn_do reported as committed is durable, also when the application
\* went back to a savepoint inside it and when a savepoint was refused.
THEOREM OwnClaimsDurable ==
  ASSUME OwnUse
  PROVE  Spec => []ClaimsDurable
<1>1. OwnInv => ClaimsDurable
  BY DEF OwnInv, ClaimsDurable
<1> QED
  BY <1>1, OwnInvariant, PTL

\* What was written after a savepoint the application went back to, or by a
\* txn_do that failed, is never durable.
THEOREM OwnUndoneInvisible ==
  ASSUME OwnUse
  PROVE  Spec => []UndoneInvisible
<1>1. OwnInv => UndoneInvisible
  BY DEF OwnInv, UndoneInvisible
<1> QED
  BY <1>1, OwnInvariant, PTL

\* While a txn_do is open none of its writes is durable, however often the
\* application released its savepoints.
THEOREM OwnInFlightInvisible ==
  ASSUME OwnUse
  PROVE  Spec => []InFlightInvisible
<1>1. OwnInv => InFlightInvisible
  BY DEF OwnInv, InFlightInvisible, OpenWork
<1> QED
  BY <1>1, OwnInvariant, PTL
==============================================================================
