--------------------------- MODULE ThreadSyncProofs ---------------------------
(***************************************************************************)
(* Proofs about ThreadSync, for any threads, counts, amounts and bounds.   *)
(* First what the operations on the queue's array do to a sequence of      *)
(* distinct items: Cut splits it, inserted and enqueue merge it with the   *)
(* new items, and what stays keeps its order.                              *)
(***************************************************************************)
EXTENDS ThreadSync, TLAPS

------------------------------------------------------------------------------
(* Sequences *)

\* A part of a sequence: its length and its items.
LEMMA SubSeqFacts ==
  ASSUME NEW q \in Seq(Nat), NEW m \in Nat \ {0}, NEW n \in Nat, n <= Len(q)
  PROVE  /\ SubSeq(q, m, n) \in Seq(Nat)
         /\ Len(SubSeq(q, m, n)) = IF m <= n THEN n - m + 1 ELSE 0
         /\ \A j \in 1..Len(SubSeq(q, m, n)) : SubSeq(q, m, n)[j] = q[m + j - 1]
  OBVIOUS

\* Two sequences one after the other: length and items.
LEMMA ConcatFacts ==
  ASSUME NEW q \in Seq(Nat), NEW r \in Seq(Nat)
  PROVE  /\ q \o r \in Seq(Nat)
         /\ Len(q \o r) = Len(q) + Len(r)
         /\ \A j \in 1..Len(q \o r) :
               (q \o r)[j] = IF j <= Len(q) THEN q[j] ELSE r[j - Len(q)]
  OBVIOUS

\* What Cut takes and leaves, position by position.
LEMMA CutFacts ==
  ASSUME NEW q \in Seq(Nat), NEW i \in Nat, NEW n \in Nat
  PROVE  LET items == Cut(q, i, n).items
             rest  == Cut(q, i, n).rest
         IN /\ items \in Seq(Nat)
            /\ Len(items) = Within(i + n, q) - Within(i, q)
            /\ \A j \in 1..Len(items) : items[j] = q[i + j]
            /\ rest \in Seq(Nat)
            /\ Len(rest) = Len(q) - Len(items)
            /\ \A j \in 1..Len(rest) : rest[j] = IF j <= i THEN q[j] ELSE q[j + n]
<1> DEFINE a == SubSeq(q, 1, Within(i, q))
           b == SubSeq(q, i + n + 1, Len(q))
           c == SubSeq(q, i + 1, Within(i + n, q))
<1>0. /\ Len(q) \in Nat /\ Within(i, q) \in Nat /\ Within(i + n, q) \in Nat
      /\ Within(i, q) <= Len(q) /\ Within(i + n, q) <= Len(q)
      /\ Within(i, q) <= Within(i + n, q) /\ Within(i, q) <= i
      /\ i < Len(q) => Within(i, q) = i
      /\ i >= Len(q) => Within(i, q) = Len(q) /\ Within(i + n, q) = Len(q)
      /\ i + n < Len(q) => Within(i + n, q) = i + n
      /\ i + n >= Len(q) => Within(i + n, q) = Len(q)
  BY DEF Within
<1>1. /\ a \in Seq(Nat) /\ Len(a) = Within(i, q)
      /\ \A j \in 1..Len(a) : a[j] = q[j]
  BY <1>0, SubSeqFacts
<1>2. /\ b \in Seq(Nat) /\ Len(b) = IF i + n < Len(q) THEN Len(q) - i - n ELSE 0
      /\ \A j \in 1..Len(b) : b[j] = q[i + n + j]
  <2>1. PICK m \in Nat \ {0} : m = i + n + 1
    OBVIOUS
  <2>2. b = SubSeq(q, m, Len(q)) /\ Len(q) \in Nat
    BY <2>1
  <2> HIDE DEF b
  <2>5. /\ b \in Seq(Nat) /\ Len(b) = IF m <= Len(q) THEN Len(q) - m + 1 ELSE 0
        /\ \A j \in 1..Len(b) : b[j] = q[m + j - 1]
    BY <2>2, SubSeqFacts
  <2>3. Len(b) = IF i + n < Len(q) THEN Len(q) - i - n ELSE 0
    BY <2>1, <2>2, <2>5
  <2>4. \A j \in 1..Len(b) : m + j - 1 = i + n + j
    BY <2>1, <2>2, <2>3
  <2> QED
    BY <2>3, <2>4, <2>5
<1>3. /\ c \in Seq(Nat) /\ Len(c) = IF i + 1 <= Within(i + n, q) THEN Within(i + n, q) - i ELSE 0
      /\ \A j \in 1..Len(c) : c[j] = q[i + j]
  <2>1. PICK m \in Nat \ {0}, l \in Nat : m = i + 1 /\ l = Within(i + n, q)
    BY <1>0
  <2>2. c = SubSeq(q, m, l) /\ l <= Len(q)
    BY <1>0, <2>1
  <2> HIDE DEF c
  <2>3. /\ c \in Seq(Nat) /\ Len(c) = IF m <= l THEN l - m + 1 ELSE 0
        /\ \A j \in 1..Len(c) : c[j] = q[m + j - 1]
    BY <2>2, SubSeqFacts
  <2>4. Len(c) = IF i + 1 <= l THEN l - i ELSE 0
    BY <2>1, <2>3
  <2>5. \A j \in 1..Len(c) : m + j - 1 = i + j
    BY <2>1, <2>4
  <2> QED
    BY <2>1, <2>3, <2>4, <2>5
<1>7. Cut(q, i, n).items = c /\ Cut(q, i, n).rest = a \o b
  BY DEF Cut
<1> HIDE DEF a, b, c
<1>4. Len(c) = Within(i + n, q) - Within(i, q)
  <2>1. PICK L \in Nat, v \in Nat, w \in Nat : L = Len(q) /\ v = Within(i, q) /\ w = Within(i + n, q)
    BY <1>0
  <2>2. /\ w <= L /\ (i < L => v = i) /\ (i >= L => v = L /\ w = L)
        /\ (i + n < L => w = i + n) /\ (i + n >= L => w = L)
    BY <1>0, <2>1
  <2>3. Len(c) = IF i + 1 <= w THEN w - i ELSE 0
    BY <1>3, <2>1
  <2>4. Len(c) = w - v
    BY <2>2, <2>3
  <2> QED
    BY <2>1, <2>4
<1>5. /\ a \o b \in Seq(Nat) /\ Len(a \o b) = Len(q) - Len(c)
  <2>1. a \o b \in Seq(Nat) /\ Len(a \o b) = Len(a) + Len(b)
    BY <1>1, <1>2, ConcatFacts
  <2>2. Len(a) = Within(i, q) /\ Len(b) = IF i + n < Len(q) THEN Len(q) - i - n ELSE 0
    BY <1>1, <1>2
  <2>3. Len(a) + Len(b) = Len(q) - Len(c)
    <3>1. CASE i + n < Len(q)
      BY <3>1, <2>2, <1>4, <1>0
    <3>2. CASE i + n >= Len(q)
      BY <3>2, <2>2, <1>4, <1>0
    <3> QED
      BY <3>1, <3>2
  <2> QED
    BY <2>1, <2>3
<1>6. ASSUME NEW j \in 1..Len(a \o b) PROVE (a \o b)[j] = IF j <= i THEN q[j] ELSE q[j + n]
  <2>1. (a \o b)[j] = IF j <= Len(a) THEN a[j] ELSE b[j - Len(a)]
    BY <1>1, <1>2, ConcatFacts
  <2>2. Len(a \o b) = Len(a) + Len(b)
    BY <1>1, <1>2, ConcatFacts
  <2>3. CASE j <= Len(a)
    BY <2>1, <2>3, <1>0, <1>1
  <2>4. CASE j > Len(a)
    <3>0. Len(a) = Within(i, q) /\ Len(b) = (IF i + n < Len(q) THEN Len(q) - i - n ELSE 0)
      BY <1>1, <1>2
    <3>1. i < Len(q) /\ Len(a) = i
      BY <2>4, <2>2, <3>0, <1>0
    <3>2. j - Len(a) \in 1..Len(b)
      <4>1. Len(a) \in Nat /\ Len(b) \in Nat
        BY <1>1, <1>2
      <4> QED
        BY <4>1, <2>4, <2>2
    <3> QED
      BY <3>1, <3>2, <2>1, <2>4, <1>2
  <2> QED
    BY <2>3, <2>4, <1>1
<1> QED
  BY <1>3, <1>4, <1>5, <1>6, <1>7

\* How insert and enqueue place the items: q around new, split at i.
Splits(r, q, new, i) ==
  /\ Len(r) = Len(q) + Len(new)
  /\ \A j \in 1..Len(r) : r[j] = IF j <= i THEN q[j]
                                 ELSE IF j <= i + Len(new) THEN new[j - i]
                                 ELSE q[j - Len(new)]

\* inserted puts the new items after the first i.
LEMMA InsertedFacts ==
  ASSUME NEW q \in Seq(Nat), NEW i \in 0..Len(q), NEW new \in Seq(Nat)
  PROVE  inserted(q, i, new) \in Seq(Nat) /\ Splits(inserted(q, i, new), q, new, i)
<1> DEFINE a == SubSeq(q, 1, i)
           b == SubSeq(q, i + 1, Len(q))
<1>0. Len(q) \in Nat /\ i \in Nat /\ i <= Len(q) /\ Len(new) \in Nat
  OBVIOUS
<1>1. /\ a \in Seq(Nat) /\ Len(a) = i
      /\ \A j \in 1..Len(a) : a[j] = q[j]
  BY <1>0, SubSeqFacts
<1>2. /\ b \in Seq(Nat) /\ Len(b) = Len(q) - i
      /\ \A j \in 1..Len(b) : b[j] = q[i + j]
  BY <1>0, SubSeqFacts
<1> HIDE DEF a, b
<1> DEFINE an == a \o new
           m  == i + Len(new)
<1>3. /\ an \in Seq(Nat) /\ Len(an) = m
      /\ \A j \in 1..Len(an) : an[j] = IF j <= i THEN a[j] ELSE new[j - i]
  BY <1>1, ConcatFacts
<1> HIDE DEF an
<1>4. /\ an \o b \in Seq(Nat) /\ Len(an \o b) = Len(q) + Len(new)
      /\ \A j \in 1..Len(an \o b) : (an \o b)[j] = IF j <= m THEN an[j] ELSE b[j - m]
  <2>1. /\ an \o b \in Seq(Nat) /\ Len(an \o b) = Len(an) + Len(b)
        /\ \A j \in 1..Len(an \o b) : (an \o b)[j] = IF j <= Len(an) THEN an[j] ELSE b[j - Len(an)]
    BY <1>2, <1>3, ConcatFacts
  <2>2. Len(an) + Len(b) = Len(q) + Len(new)
    BY <1>0, <1>2, <1>3
  <2> QED
    BY <2>1, <2>2, <1>3
<1>5. ASSUME NEW j \in 1..Len(an \o b)
      PROVE  (an \o b)[j] = IF j <= i THEN q[j] ELSE IF j <= m THEN new[j - i] ELSE q[j - Len(new)]
  <2>1. CASE j <= i
    <3>1. j \in 1..i /\ j <= m /\ j \in 1..m
      BY <2>1, <1>0, <1>4
    <3> QED
      BY <3>1, <2>1, <1>1, <1>3, <1>4
  <2>2. CASE i < j /\ j <= m
    BY <2>2, <1>0, <1>3, <1>4
  <2>3. CASE m < j
    <3>1. j - m \in 1..Len(b) /\ j \in 1..(Len(q) + Len(new))
      BY <2>3, <1>0, <1>4, <1>2
    <3>2. (an \o b)[j] = b[j - m]
      BY <2>3, <1>4, <1>0
    <3>3. b[j - m] = q[i + (j - m)]
      BY <3>1, <1>2
    <3>4. i + (j - m) = j - Len(new)
      BY <3>1, <1>0
    <3>5. ~ (j <= i) /\ ~ (j <= m)
      BY <3>1, <2>3, <1>0
    <3> QED
      BY <3>2, <3>3, <3>4, <3>5
  <2>4. j \in Int /\ m \in Int
    BY <1>0, <1>4
  <2> QED
    BY <2>1, <2>2, <2>3, <2>4, <1>0
<1>6. inserted(q, i, new) = an \o b
  BY DEF inserted, a, b, an
<1> QED
  BY <1>4, <1>5, <1>6 DEF Splits

------------------------------------------------------------------------------
(* Distinct items *)

\* The arithmetic of Cut: d positions after the first i are taken out of 1..L.
LEMMA Gap ==
  ASSUME NEW L \in Nat, NEW i \in Nat, NEW n \in Nat, NEW d \in Nat,
         d = IF i >= L THEN 0 ELSE IF i + n <= L THEN n ELSE L - i
  PROVE  /\ d <= L
         /\ \A j \in 1..d : i + j \in 1..L
         /\ \A j \in 1..(L - d) : j <= i => j \in 1..L /\ j \notin (i + 1)..(i + d)
         /\ \A j \in 1..(L - d) : j > i => j + n \in 1..L /\ j + n \notin (i + 1)..(i + d)
         /\ \A p \in 1..L : \/ p <= i /\ p \in 1..(L - d)
                            \/ p > i /\ p - i \in 1..d
                            \/ p > i /\ p - n > i /\ p - n \in 1..(L - d)
  OBVIOUS

\* Elements as a quantifier.
LEMMA ElementsMember ==
  ASSUME NEW q \in Seq(Nat), NEW v
  PROVE  v \in Elements(q) <=> \E j \in 1..Len(q) : q[j] = v
  BY DEF Elements

Distinct(q) == \A x, y \in 1..Len(q) : q[x] = q[y] => x = y

\* No two items of q change their order in r.
Ordered(r, q) == \A x, y \in 1..Len(q) : x < y => ~ Before(r, q[y], q[x])

\* f maps the positions of r to positions of q.
Embeds(f, r, q) ==
  /\ \A j \in 1..Len(r) : f[j] \in 1..Len(q) /\ r[j] = q[f[j]]
  /\ \A x, y \in 1..Len(r) : x < y => f[x] < f[y]

\* A queue whose positions map upwards to those of a queue of distinct items.
LEMMA Embedding ==
  ASSUME NEW q \in Seq(Nat), NEW r \in Seq(Nat), NEW f, Embeds(f, r, q), Distinct(q)
  PROVE  Distinct(r) /\ Ordered(r, q)
<1>0. Len(r) \in Nat /\ Len(q) \in Nat /\ DOMAIN r = 1..Len(r)
  OBVIOUS
<1>1. \A j \in 1..Len(r) : f[j] \in 1..Len(q) /\ f[j] \in Int /\ j \in Int
  BY <1>0 DEF Embeds
<1>2. ASSUME NEW x \in 1..Len(r), NEW y \in 1..Len(r), x < y PROVE f[x] < f[y]
  BY <1>2 DEF Embeds
<1>3. ASSUME NEW x \in 1..Len(r), NEW p \in 1..Len(q), r[x] = q[p] PROVE f[x] = p
  <2>1. r[x] = q[f[x]] /\ f[x] \in 1..Len(q)
    BY DEF Embeds
  <2> QED
    BY <2>1, <1>3 DEF Distinct
<1>4. ASSUME NEW x \in 1..Len(r), NEW y \in 1..Len(r), r[x] = r[y] PROVE x = y
  <2>1. f[y] \in 1..Len(q) /\ r[y] = q[f[y]]
    BY DEF Embeds
  <2>2. f[x] = f[y]
    BY <2>1, <1>3, <1>4
  <2>3. x < y => f[x] < f[y]
    BY <1>2
  <2>4. y < x => f[y] < f[x]
    BY <1>2
  <2>5. f[x] \in Int /\ f[y] \in Int /\ x \in Int /\ y \in Int
    BY <1>1
  <2> QED
    BY <2>2, <2>3, <2>4, <2>5
<1>5. ASSUME NEW x \in 1..Len(q), NEW y \in 1..Len(q), x < y, Before(r, q[y], q[x]) PROVE FALSE
  <2>1. PICK j, k \in 1..Len(r) : j < k /\ r[j] = q[y] /\ r[k] = q[x]
    BY <1>5, <1>0 DEF Before
  <2>2. f[j] = y /\ f[k] = x
    BY <2>1, <1>3
  <2>3. f[j] < f[k]
    BY <2>1, <1>2
  <2>4. x \in Int /\ y \in Int
    BY <1>0
  <2> QED
    BY <2>2, <2>3, <2>4, <1>5
<1> QED
  BY <1>4, <1>5 DEF Distinct, Ordered

\* Every position of r is the image of one of q or of one of new.
Fill(f, q, g, new, r) ==
  \A j \in 1..Len(r) : \/ \E p \in 1..Len(q) : f[p] = j
                       \/ \E p \in 1..Len(new) : g[p] = j

\* Two queues of distinct items that fill r between them.
LEMMA Merging ==
  ASSUME NEW q \in Seq(Nat), NEW new \in Seq(Nat), NEW r \in Seq(Nat), NEW f, NEW g,
         Embeds(f, q, r), Embeds(g, new, r), Distinct(q), Distinct(new),
         Elements(q) \cap Elements(new) = {}, Fill(f, q, g, new, r)
  PROVE  Distinct(r) /\ Ordered(r, q) /\ Elements(r) = Elements(q) \cup Elements(new)
<1>0. /\ Len(r) \in Nat /\ Len(q) \in Nat /\ Len(new) \in Nat
      /\ DOMAIN r = 1..Len(r) /\ DOMAIN q = 1..Len(q) /\ DOMAIN new = 1..Len(new)
  OBVIOUS
<1>1. \A p \in 1..Len(q) : f[p] \in 1..Len(r) /\ r[f[p]] = q[p] /\ q[p] \in Elements(q)
  BY <1>0 DEF Embeds, Elements
<1>2. \A p \in 1..Len(new) : g[p] \in 1..Len(r) /\ r[g[p]] = new[p] /\ new[p] \in Elements(new)
  BY <1>0 DEF Embeds, Elements
<1>3. ASSUME NEW x \in 1..Len(r), NEW y \in 1..Len(r), r[x] = r[y] PROVE x = y
  <2>1. CASE \E p, s \in 1..Len(q) : f[p] = x /\ f[s] = y
    <3>1. PICK p, s \in 1..Len(q) : f[p] = x /\ f[s] = y
      BY <2>1
    <3>2. q[p] = q[s]
      BY <3>1, <1>1, <1>3
    <3> QED
      BY <3>1, <3>2 DEF Distinct
  <2>2. CASE \E p, s \in 1..Len(new) : g[p] = x /\ g[s] = y
    <3>1. PICK p, s \in 1..Len(new) : g[p] = x /\ g[s] = y
      BY <2>2
    <3>2. new[p] = new[s]
      BY <3>1, <1>2, <1>3
    <3> QED
      BY <3>1, <3>2 DEF Distinct
  <2>3. ASSUME NEW p \in 1..Len(q), NEW s \in 1..Len(new), r[f[p]] = r[g[s]] PROVE FALSE
    <3>1. r[f[p]] \in Elements(q) /\ r[g[s]] \in Elements(new)
      BY <1>1, <1>2
    <3> QED
      BY <3>1, <2>3
  <2>4. CASE \E p \in 1..Len(q), s \in 1..Len(new) : f[p] = x /\ g[s] = y
    BY <2>3, <2>4, <1>3
  <2>5. CASE \E p \in 1..Len(q), s \in 1..Len(new) : f[p] = y /\ g[s] = x
    BY <2>3, <2>5, <1>3
  <2>6. /\ (\E p \in 1..Len(q) : f[p] = x) \/ \E p \in 1..Len(new) : g[p] = x
        /\ (\E p \in 1..Len(q) : f[p] = y) \/ \E p \in 1..Len(new) : g[p] = y
    BY DEF Fill
  <2> QED
    BY <2>1, <2>2, <2>4, <2>5, <2>6, Zenon
<1>4. ASSUME NEW x \in 1..Len(q), NEW y \in 1..Len(q), x < y, Before(r, q[y], q[x]) PROVE FALSE
  <2>1. PICK j, k \in 1..Len(r) : j < k /\ r[j] = q[y] /\ r[k] = q[x]
    BY <1>4, <1>0 DEF Before
  <2>2. j = f[y] /\ k = f[x]
    <3>1. f[y] \in 1..Len(r) /\ r[f[y]] = q[y] /\ f[x] \in 1..Len(r) /\ r[f[x]] = q[x]
      BY <1>1
    <3> QED
      BY <3>1, <2>1, <1>3
  <2>3. f[x] < f[y]
    BY <1>4 DEF Embeds
  <2>4. j \in Int /\ k \in Int
    BY <1>0
  <2> QED
    BY <2>1, <2>2, <2>3, <2>4
<1>5. \A v : v \in Elements(r) <=> v \in Elements(q) \/ v \in Elements(new)
  <2> TAKE v
  <2>1. ASSUME v \in Elements(r) PROVE v \in Elements(q) \/ v \in Elements(new)
    <3>1. PICK j \in 1..Len(r) : r[j] = v
      BY <2>1, ElementsMember
    <3>2. (\E p \in 1..Len(q) : f[p] = j) \/ \E p \in 1..Len(new) : g[p] = j
      BY DEF Fill
    <3>3. CASE \E p \in 1..Len(q) : f[p] = j
      BY <3>3, <3>1, <1>1
    <3>4. CASE \E p \in 1..Len(new) : g[p] = j
      BY <3>4, <3>1, <1>2
    <3> QED
      BY <3>2, <3>3, <3>4
  <2>2. ASSUME v \in Elements(q) PROVE v \in Elements(r)
    <3>1. PICK p \in 1..Len(q) : q[p] = v
      BY <2>2, ElementsMember
    <3> QED
      BY <3>1, <1>1, ElementsMember
  <2>3. ASSUME v \in Elements(new) PROVE v \in Elements(r)
    <3>1. PICK p \in 1..Len(new) : new[p] = v
      BY <2>3, ElementsMember
    <3> QED
      BY <3>1, <1>2, ElementsMember
  <2> QED
    BY <2>1, <2>2, <2>3
<1> QED
  BY <1>3, <1>4, <1>5 DEF Distinct, Ordered

\* The arithmetic of Splits: m positions come in between after the first i.
LEMMA SpliceArithmetic ==
  ASSUME NEW L \in Nat, NEW m \in Nat, NEW i \in 0..L
  PROVE  /\ \A p \in 1..L : p <= i => p \in 1..(L + m)
         /\ \A p \in 1..L : p > i => /\ p + m \in 1..(L + m) /\ ~ (p + m <= i)
                                     /\ ~ (p + m <= i + m) /\ (p + m) - m = p
         /\ \A p \in 1..m : /\ i + p \in 1..(L + m) /\ ~ (i + p <= i)
                            /\ i + p <= i + m /\ (i + p) - i = p
         /\ \A j \in 1..(L + m) : \/ j <= i /\ j \in 1..L
                                  \/ j > i /\ j - i \in 1..m /\ i + (j - i) = j
                                  \/ j - m > i /\ j - m \in 1..L /\ (j - m) + m = j
  OBVIOUS

\* Adding new items at one place: all are there, each once, the old in order.
LEMMA Splicing ==
  ASSUME NEW q \in Seq(Nat), NEW i \in 0..Len(q), NEW new \in Seq(Nat), NEW r \in Seq(Nat),
         Splits(r, q, new, i), Distinct(q), Distinct(new),
         Elements(q) \cap Elements(new) = {}
  PROVE  Distinct(r) /\ Ordered(r, q) /\ Elements(r) = Elements(q) \cup Elements(new)
<1> DEFINE L == Len(q)
           m == Len(new)
           f == [p \in 1..L |-> IF p <= i THEN p ELSE p + m]
           g == [p \in 1..m |-> i + p]
<1>0. L \in Nat /\ m \in Nat /\ i \in 0..L /\ Len(r) = L + m
  BY DEF Splits
<1>1. \A j \in 1..(L + m) : r[j] = IF j <= i THEN q[j] ELSE IF j <= i + m THEN new[j - i] ELSE q[j - m]
  BY <1>0 DEF Splits
<1> HIDE DEF L, m
<1>2. Embeds(f, q, r)
  <2>1. ASSUME NEW p \in 1..L PROVE f[p] \in 1..(L + m) /\ q[p] = r[f[p]]
    <3>1. CASE p <= i
      BY <3>1, <1>0, <1>1, SpliceArithmetic
    <3>2. CASE p > i
      <4>1. f[p] = p + m
        BY <3>2, <1>0
      <4>2. /\ p + m \in 1..(L + m) /\ ~ (p + m <= i)
            /\ ~ (p + m <= i + m) /\ (p + m) - m = p
        BY <3>2, <1>0, SpliceArithmetic
      <4> QED
        BY <4>1, <4>2, <1>1
    <3> QED
      BY <3>1, <3>2, <1>0
  <2>2. \A x, y \in 1..L : x < y => f[x] < f[y]
    BY <1>0
  <2> HIDE DEF f
  <2> QED
    BY <2>1, <2>2, <1>0 DEF Embeds, L
<1>3. Embeds(g, new, r)
  <2>1. ASSUME NEW p \in 1..m PROVE g[p] \in 1..(L + m) /\ new[p] = r[g[p]]
    <3>1. /\ i + p \in 1..(L + m) /\ ~ (i + p <= i) /\ i + p <= i + m /\ (i + p) - i = p
      BY <1>0, SpliceArithmetic
    <3> QED
      BY <3>1, <1>1
  <2>2. \A x, y \in 1..m : x < y => g[x] < g[y]
    BY <1>0
  <2> HIDE DEF g
  <2> QED
    BY <2>1, <2>2, <1>0 DEF Embeds, m
<1>4. \A j \in 1..(L + m) : (\E p \in 1..L : f[p] = j) \/ \E p \in 1..m : g[p] = j
  <2> TAKE j \in 1..(L + m)
  <2>1. CASE j <= i /\ j \in 1..L
    BY <2>1
  <2>2. CASE j - i \in 1..m /\ i + (j - i) = j
    BY <2>2
  <2>3. CASE j - m > i /\ j - m \in 1..L /\ (j - m) + m = j
    <3>1. f[j - m] = j
      BY <2>3, <1>0
    <3> QED
      BY <2>3, <3>1
  <2> QED
    BY <2>1, <2>2, <2>3, <1>0, SpliceArithmetic
<1> HIDE DEF f, g
<1> QED
  BY <1>0, <1>2, <1>3, <1>4, Merging DEF L, m, Fill

\* c are d items of q after the first i, and r is the rest.
Parts(c, r, q, i, n, d) ==
  /\ d = IF i >= Len(q) THEN 0 ELSE IF i + n <= Len(q) THEN n ELSE Len(q) - i
  /\ Len(c) = d /\ \A j \in 1..d : c[j] = q[i + j]
  /\ Len(r) = Len(q) - d /\ \A j \in 1..Len(r) : r[j] = IF j <= i THEN q[j] ELSE q[j + n]

\* The same for taking d items out after the first i.
LEMMA Cutting ==
  ASSUME NEW q \in Seq(Nat), NEW i \in Nat, NEW n \in Nat, NEW d \in Nat,
         NEW c \in Seq(Nat), NEW r \in Seq(Nat),
         Parts(c, r, q, i, n, d), Distinct(q)
  PROVE  /\ Distinct(r) /\ Ordered(r, q)
         /\ Elements(c) \cup Elements(r) = Elements(q)
         /\ Elements(c) \cap Elements(r) = {}
<1> DEFINE L == Len(q)
           f == [j \in 1..Len(r) |-> IF j <= i THEN j ELSE j + n]
<1> USE DEF Parts
<1>0. L \in Nat /\ Len(r) = L - d /\ d <= L /\ Len(r) \in Nat
  <2>1. L \in Nat
    OBVIOUS
  <2> QED
    BY <2>1, Gap
<1>1. /\ \A j \in 1..d : i + j \in 1..L
      /\ \A j \in 1..(L - d) : j <= i => j \in 1..L /\ j \notin (i + 1)..(i + d)
      /\ \A j \in 1..(L - d) : j > i => j + n \in 1..L /\ j + n \notin (i + 1)..(i + d)
      /\ \A p \in 1..L : \/ p <= i /\ p \in 1..(L - d)
                         \/ p > i /\ p - i \in 1..d
                         \/ p > i /\ p - n > i /\ p - n \in 1..(L - d)
  BY <1>0, Gap
<1> HIDE DEF L
<1>2. Embeds(f, r, q)
  <2>1. ASSUME NEW j \in 1..Len(r) PROVE f[j] \in 1..L /\ r[j] = q[f[j]]
    <3>1. CASE j <= i
      BY <3>1, <1>0, <1>1
    <3>2. CASE j > i
      BY <3>2, <1>0, <1>1
    <3> QED
      BY <3>1, <3>2, <1>0
  <2>2. \A x, y \in 1..Len(r) : x < y => f[x] < f[y]
    BY <1>0
  <2> HIDE DEF f
  <2> QED
    BY <2>1, <2>2 DEF Embeds, L
<1>3. \A j \in 1..Len(r) : f[j] \in 1..L /\ r[j] = q[f[j]] /\ f[j] \notin (i + 1)..(i + d)
  <2> TAKE j \in 1..Len(r)
  <2>1. f[j] \notin (i + 1)..(i + d)
    BY <1>0, <1>1
  <2> QED
    BY <2>1, <1>2 DEF Embeds, L
<1>4. \A p \in 1..L : (p > i /\ p - i \in 1..d) \/ \E j \in 1..Len(r) : f[j] = p
  <2> TAKE p \in 1..L
  <2>1. CASE p <= i /\ p \in 1..Len(r)
    BY <2>1
  <2>2. CASE p > i /\ p - n > i /\ p - n \in 1..Len(r)
    <3>1. f[p - n] = p
      BY <2>2, <1>0
    <3> QED
      BY <2>2, <3>1
  <2> QED
    BY <2>1, <2>2, <1>1, <1>0
<1>5. Distinct(r) /\ Ordered(r, q)
  BY <1>2, Embedding
<1>8. Len(c) = d /\ \A j \in 1..d : c[j] = q[i + j]
  OBVIOUS
<1> HIDE DEF Parts, f
<1>6. \A v : v \in Elements(c) \/ v \in Elements(r) <=> v \in Elements(q)
  <2> TAKE v
  <2>1. ASSUME v \in Elements(c) PROVE v \in Elements(q)
    <3>1. PICK j \in 1..d : c[j] = v
      BY <2>1, <1>8, ElementsMember
    <3>2. i + j \in 1..Len(q) /\ q[i + j] = v
      BY <3>1, <1>1, <1>8 DEF L
    <3> QED
      BY <3>2, ElementsMember
  <2>2. ASSUME v \in Elements(r) PROVE v \in Elements(q)
    <3>1. PICK j \in 1..Len(r) : r[j] = v
      BY <2>2, ElementsMember
    <3>2. f[j] \in 1..Len(q) /\ q[f[j]] = v
      BY <3>1, <1>3 DEF L
    <3> QED
      BY <3>2, ElementsMember
  <2>3. ASSUME v \in Elements(q) PROVE v \in Elements(c) \/ v \in Elements(r)
    <3>1. PICK p \in 1..L : q[p] = v
      BY <2>3, ElementsMember DEF L
    <3>2. CASE p > i /\ p - i \in 1..d
      <4>1. i + (p - i) = p
        BY <1>0
      <4>2. c[p - i] = v
        BY <4>1, <3>1, <3>2, <1>8
      <4> QED
        BY <4>2, <3>2, <1>8, ElementsMember
    <3>3. CASE \E j \in 1..Len(r) : f[j] = p
      <4>1. PICK j \in 1..Len(r) : f[j] = p
        BY <3>3
      <4>2. r[j] = v
        BY <4>1, <3>1, <1>3
      <4> QED
        BY <4>2, ElementsMember
    <3> QED
      BY <3>2, <3>3, <1>4
  <2> QED
    BY <2>1, <2>2, <2>3
<1>7. ASSUME NEW v \in Elements(c), v \in Elements(r) PROVE FALSE
  <2>1. PICK j \in 1..d : c[j] = v
    BY <1>8, ElementsMember
  <2>2. PICK k \in 1..Len(r) : r[k] = v
    BY <1>7, ElementsMember
  <2>3. i + j \in 1..L /\ q[i + j] = v
    BY <2>1, <1>1, <1>8
  <2>4. f[k] \in 1..L /\ q[f[k]] = v /\ f[k] \notin (i + 1)..(i + d)
    BY <2>2, <1>3
  <2>5. f[k] = i + j
    BY <2>3, <2>4 DEF Distinct, L
  <2>6. i + j \in (i + 1)..(i + d)
    OBVIOUS
  <2> QED
    BY <2>4, <2>5, <2>6
<1> QED
  BY <1>5, <1>6, <1>7

\* enqueue puts them at the tail.
LEMMA EnqueuedFacts ==
  ASSUME NEW q \in Seq(Nat), NEW new \in Seq(Nat)
  PROVE  q \o new \in Seq(Nat) /\ Splits(q \o new, q, new, Len(q))
<1>1. /\ q \o new \in Seq(Nat) /\ Len(q \o new) = Len(q) + Len(new)
      /\ \A j \in 1..Len(q \o new) :
            (q \o new)[j] = IF j <= Len(q) THEN q[j] ELSE new[j - Len(q)]
  BY ConcatFacts
<1>2. Len(q) \in Nat /\ Len(new) \in Nat
  OBVIOUS
<1>3. ASSUME NEW j \in 1..Len(q \o new), ~ (j <= Len(q)) PROVE j <= Len(q) + Len(new)
  BY <1>1, <1>2
<1> QED
  BY <1>1, <1>3 DEF Splits

\* Cut splits a queue of distinct items in two and keeps the order of the rest.
LEMMA CutSplits ==
  ASSUME NEW q \in Seq(Nat), NEW i \in Nat, NEW n \in Nat, Distinct(q)
  PROVE  /\ Cut(q, i, n).items \in Seq(Nat) /\ Cut(q, i, n).rest \in Seq(Nat)
         /\ Distinct(Cut(q, i, n).rest) /\ Ordered(Cut(q, i, n).rest, q)
         /\ Elements(Cut(q, i, n).items) \cup Elements(Cut(q, i, n).rest) = Elements(q)
         /\ Elements(Cut(q, i, n).items) \cap Elements(Cut(q, i, n).rest) = {}
         /\ Len(Cut(q, i, n).rest) <= Len(q)
         /\ i = 0 /\ n <= Len(q) => Len(Cut(q, i, n).rest) = Len(q) - n
<1> DEFINE c == Cut(q, i, n).items
           r == Cut(q, i, n).rest
<1>1. /\ c \in Seq(Nat)
      /\ Len(c) = Within(i + n, q) - Within(i, q)
      /\ \A j \in 1..Len(c) : c[j] = q[i + j]
      /\ r \in Seq(Nat)
      /\ Len(r) = Len(q) - Len(c)
      /\ \A j \in 1..Len(r) : r[j] = IF j <= i THEN q[j] ELSE q[j + n]
  BY CutFacts
<1> HIDE DEF c, r
<1>2. Len(q) \in Nat /\ Len(c) \in Nat
  BY <1>1
<1>3. Len(c) = IF i >= Len(q) THEN 0 ELSE IF i + n <= Len(q) THEN n ELSE Len(q) - i
  <2>1. Within(i, q) = IF i < Len(q) THEN i ELSE Len(q)
    BY DEF Within
  <2>2. Within(i + n, q) = IF i + n < Len(q) THEN i + n ELSE Len(q)
    BY DEF Within
  <2>3. Len(c) = Within(i + n, q) - Within(i, q)
    BY <1>1
  <2> QED
    BY <2>1, <2>2, <2>3, <1>2
<1>4. /\ Distinct(r) /\ Ordered(r, q)
      /\ Elements(c) \cup Elements(r) = Elements(q)
      /\ Elements(c) \cap Elements(r) = {}
  <2>1. PICK d \in Nat : d = Len(c)
    BY <1>2
  <2>2. d = IF i >= Len(q) THEN 0 ELSE IF i + n <= Len(q) THEN n ELSE Len(q) - i
    BY <2>1, <1>3
  <2>3. \A j \in 1..d : c[j] = q[i + j]
    BY <2>1, <1>1
  <2>4. c \in Seq(Nat) /\ r \in Seq(Nat) /\ Len(c) = d /\ Len(r) = Len(q) - d
    BY <2>1, <1>1
  <2>5. \A j \in 1..Len(r) : r[j] = IF j <= i THEN q[j] ELSE q[j + n]
    BY <1>1
  <2>6. Parts(c, r, q, i, n, d)
    BY <2>2, <2>3, <2>4, <2>5 DEF Parts
  <2> QED
    BY <2>4, <2>6, Cutting
<1>5. Len(r) <= Len(q) /\ (i = 0 /\ n <= Len(q) => Len(r) = Len(q) - n)
  <2>1. i = 0 /\ n <= Len(q) => Len(c) = n
    BY <1>2, <1>3
  <2>2. Len(r) = Len(q) - Len(c)
    BY <1>1
  <2> QED
    BY <2>1, <2>2, <1>2
<1> QED
  BY <1>1, <1>4, <1>5 DEF c, r

------------------------------------------------------------------------------
(* What is picked *)

\* A sequence whose positions map upwards onto the positions P of q.
LEMMA PicksBy ==
  ASSUME NEW q \in Seq(Nat), NEW s \in Seq(Nat), NEW f, Embeds(f, s, q),
         NEW P \in SUBSET (1..Len(q)),
         \A j \in 1..Len(s) : f[j] \in P,
         \A p \in P : \E j \in 1..Len(s) : f[j] = p
  PROVE  Picks(s, q, P)
<1>0. DOMAIN s = 1..Len(s) /\ DOMAIN q = 1..Len(q)
  OBVIOUS
<1>1. \A j \in 1..Len(s) : f[j] \in 1..Len(q) /\ s[j] = q[f[j]]
  BY DEF Embeds
<1>2. Elements(s) = {q[p] : p \in P}
  <2>1. ASSUME NEW v \in Elements(s) PROVE v \in {q[p] : p \in P}
    <3>1. PICK j \in 1..Len(s) : s[j] = v
      BY ElementsMember
    <3>2. f[j] \in P /\ v = q[f[j]]
      BY <3>1, <1>1
    <3> QED
      BY <3>2
  <2>2. ASSUME NEW p \in P PROVE q[p] \in Elements(s)
    <3>1. PICK j \in 1..Len(s) : f[j] = p
      OBVIOUS
    <3> QED
      BY <3>1, <1>1, ElementsMember
  <2> QED
    BY <2>1, <2>2
<1>3. ASSUME NEW i \in 1..Len(s), NEW j \in 1..Len(s), i < j
      PROVE  Before(q, s[i], s[j])
  <2>1. f[i] < f[j]
    BY <1>3 DEF Embeds
  <2> QED
    BY <2>1, <1>0, <1>1 DEF Before
<1> QED
  BY <1>0, <1>2, <1>3 DEF Picks

\* Cut takes the n positions after the first i, as far as q has them.
LEMMA CutPicks ==
  ASSUME NEW q \in Seq(Nat), NEW i \in Nat, NEW n \in Nat, NEW window,
         window = {p \in 1..Len(q) : i < p /\ p <= i + n}
  PROVE  /\ Picks(Cut(q, i, n).items, q, window)
         /\ Picks(Cut(q, i, n).rest, q, (1..Len(q)) \ window)
<1> DEFINE c == Cut(q, i, n).items
           r == Cut(q, i, n).rest
           f == [j \in 1..Len(c) |-> i + j]
           g == [j \in 1..Len(r) |-> IF j <= i THEN j ELSE j + n]
<1>1. /\ c \in Seq(Nat) /\ r \in Seq(Nat)
      /\ Len(c) = Within(i + n, q) - Within(i, q)
      /\ \A j \in 1..Len(c) : c[j] = q[i + j]
      /\ Len(r) = Len(q) - Len(c)
      /\ \A j \in 1..Len(r) : r[j] = IF j <= i THEN q[j] ELSE q[j + n]
  BY CutFacts
<1> HIDE DEF c, r
<1>2. Len(q) \in Nat /\ Len(c) \in Nat /\ Len(r) \in Nat
  BY <1>1
<1>3. Len(c) = IF i >= Len(q) THEN 0 ELSE IF i + n <= Len(q) THEN n ELSE Len(q) - i
  <2>1. Within(i, q) = IF i < Len(q) THEN i ELSE Len(q)
    BY DEF Within
  <2>2. Within(i + n, q) = IF i + n < Len(q) THEN i + n ELSE Len(q)
    BY DEF Within
  <2>3. Len(c) = Within(i + n, q) - Within(i, q)
    BY <1>1
  <2> QED
    BY <2>1, <2>2, <2>3, <1>2
<1>4. /\ \A j \in 1..Len(c) : i + j \in window
      /\ \A p \in window : p - i \in 1..Len(c) /\ i + (p - i) = p
  BY <1>2, <1>3
<1>5. /\ \A j \in 1..Len(r) : j <= i => j \in (1..Len(q)) \ window
      /\ \A j \in 1..Len(r) : j > i => j + n \in (1..Len(q)) \ window
      /\ \A p \in (1..Len(q)) \ window : p <= i => p \in 1..Len(r)
      /\ \A p \in (1..Len(q)) \ window :
            p > i => p - n \in 1..Len(r) /\ p - n > i /\ (p - n) + n = p
  <2>1. ASSUME NEW j \in 1..Len(r), j <= i PROVE j \in (1..Len(q)) \ window
    BY <2>1, <1>1, <1>2, <1>3
  <2>2. ASSUME NEW j \in 1..Len(r), j > i PROVE j + n \in (1..Len(q)) \ window
    <3>1. Len(r) = Len(q) - Len(c) /\ j \in Nat /\ 1 <= j /\ j <= Len(r)
      BY <1>1, <1>2
    <3>2. i + n <= Len(q) /\ Len(c) = n
      BY <3>1, <2>2, <1>2, <1>3
    <3>3. j + n \in 1..Len(q) /\ j + n > i + n
      BY <3>1, <3>2, <2>2, <1>2
    <3> QED
      BY <3>3, <1>2
  <2>3. ASSUME NEW p \in (1..Len(q)) \ window, p <= i PROVE p \in 1..Len(r)
    <3>1. Len(r) = Len(q) - Len(c) /\ p \in Nat /\ 1 <= p /\ p <= Len(q)
      BY <1>1, <1>2
    <3> QED
      BY <3>1, <2>3, <1>2, <1>3
  <2>4. ASSUME NEW p \in (1..Len(q)) \ window, p > i
        PROVE  p - n \in 1..Len(r) /\ p - n > i /\ (p - n) + n = p
    <3>1. p \in Nat /\ p <= Len(q) /\ p > i + n /\ Len(r) = Len(q) - Len(c)
      BY <2>4, <1>1, <1>2
    <3>2. Len(c) = n
      BY <3>1, <1>2, <1>3
    <3> QED
      BY <3>1, <3>2, <1>2
  <2> QED
    BY <2>1, <2>2, <2>3, <2>4
<1>6. Picks(c, q, window)
  <2>1. window \in SUBSET (1..Len(q))
    OBVIOUS
  <2>2. \A j \in 1..Len(c) : f[j] \in window /\ c[j] = q[f[j]]
    BY <1>1, <1>4
  <2>3. \A x, y \in 1..Len(c) : x < y => f[x] < f[y]
    BY <1>2
  <2>4. \A p \in window : \E j \in 1..Len(c) : f[j] = p
    BY <1>4
  <2> HIDE DEF f
  <2>5. Embeds(f, c, q)
    BY <2>1, <2>2, <2>3 DEF Embeds
  <2> QED
    BY <1>1, <2>1, <2>2, <2>4, <2>5, PicksBy
<1>7. Picks(r, q, (1..Len(q)) \ window)
  <2>1. (1..Len(q)) \ window \in SUBSET (1..Len(q))
    OBVIOUS
  <2>2. \A j \in 1..Len(r) : g[j] \in (1..Len(q)) \ window /\ r[j] = q[g[j]]
    <3> TAKE j \in 1..Len(r)
    <3>1. CASE j <= i
      BY <3>1, <1>1, <1>5
    <3>2. CASE j > i
      <4>1. ~(j <= i)
        BY <3>2, <1>2
      <4> QED
        BY <4>1, <3>2, <1>1, <1>5
    <3> QED
      BY <3>1, <3>2, <1>2
  <2>3. \A x, y \in 1..Len(r) : x < y => g[x] < g[y]
    BY <1>2
  <2>4. \A p \in (1..Len(q)) \ window : \E j \in 1..Len(r) : g[j] = p
    <3> TAKE p \in (1..Len(q)) \ window
    <3>1. CASE p <= i
      BY <3>1, <1>5
    <3>2. CASE p > i
      <4>1. p - n \in 1..Len(r) /\ p - n > i /\ (p - n) + n = p
        BY <3>2, <1>5
      <4>2. g[p - n] = p
        BY <4>1, <1>2
      <4> QED
        BY <4>1, <4>2
    <3> QED
      BY <3>1, <3>2, <1>2
  <2> HIDE DEF g
  <2>5. Embeds(g, r, q)
    BY <2>1, <2>2, <2>3 DEF Embeds
  <2> QED
    BY <1>1, <2>1, <2>2, <2>4, <2>5, PicksBy
<1> QED
  BY <1>6, <1>7 DEF c, r

------------------------------------------------------------------------------
(* The invariants *)

ThreadStates == Running \cup Waiting

\* All that call dequeue ask for the same number of items.
UniformCounts == \A m, n \in Counts : m = n

QueueInv ==
  /\ queue \in Seq(Nat) /\ taken \subseteq Nat
  /\ nextItem \in 1..(MaxItems + 1)
  /\ ItemsOnce

ThreadInv ==
  /\ sema \in -MaxValue..MaxValue
  /\ thread \in [Threads -> ThreadStates]
  /\ DownAwake
  /\ UniformCounts => DequeueAwake

------------------------------------------------------------------------------
(* The queue *)

\* A step that takes items, and one that adds k.
Takes == \E i, n \in Nat : /\ queue' = Cut(queue, i, n).rest
                           /\ taken' = taken \cup Elements(Cut(queue, i, n).items)
                           /\ UNCHANGED nextItem
Adds(k) == /\ nextItem + k <= MaxItems + 1
           /\ queue' \in Seq(Nat)
           /\ \E i \in 0..Len(queue) : Splits(queue', queue, New(k), i)
           /\ nextItem' = nextItem + k
           /\ UNCHANGED taken

\* ItemsOnce in the words of the lemmas.
LEMMA ItemsOnceMeans ==
  ASSUME queue \in Seq(Nat)
  PROVE  ItemsOnce <=> /\ Distinct(queue)
                       /\ Elements(queue) \cap taken = {}
                       /\ Elements(queue) \cup taken = 1..(nextItem - 1)
  BY DEF ItemsOnce, Distinct

\* The new items are distinct, and different from those already there.
LEMMA NewFacts ==
  ASSUME QueueInv, NEW k \in Nat
  PROVE  /\ New(k) \in Seq(Nat) /\ Len(New(k)) = k /\ Distinct(New(k))
         /\ Elements(New(k)) = nextItem..(nextItem + k - 1)
<1>1. nextItem \in Nat \ {0}
  BY SyncAssumption DEF QueueInv
<1>2. New(k) \in Seq(Nat) /\ Len(New(k)) = k /\ DOMAIN New(k) = 1..k
  BY <1>1 DEF New
<1>3. \A j \in 1..k : New(k)[j] = nextItem + j - 1
  BY DEF New
<1>4. Distinct(New(k))
  BY <1>1, <1>2, <1>3 DEF Distinct
<1>5. \A v : v \in Elements(New(k)) <=> v \in nextItem..(nextItem + k - 1)
  <2> TAKE v
  <2>1. ASSUME v \in Elements(New(k)) PROVE v \in nextItem..(nextItem + k - 1)
    <3>1. PICK j \in 1..k : New(k)[j] = v
      BY <2>1, <1>2, ElementsMember
    <3> QED
      BY <3>1, <1>1, <1>3
  <2>2. ASSUME v \in nextItem..(nextItem + k - 1) PROVE v \in Elements(New(k))
    <3>1. v - nextItem + 1 \in 1..k /\ New(k)[v - nextItem + 1] = v
      BY <2>2, <1>1, <1>3
    <3> QED
      BY <3>1, <1>2, ElementsMember
  <2> QED
    BY <2>1, <2>2
<1> QED
  BY <1>2, <1>4, <1>5

\* Taking keeps QueueInv and the order.
LEMMA TakesStep ==
  ASSUME QueueInv, Takes
  PROVE  QueueInv' /\ Ordered(queue', queue) /\ Len(queue') <= Len(queue)
<1>1. PICK i, n \in Nat : /\ queue' = Cut(queue, i, n).rest
                          /\ taken' = taken \cup Elements(Cut(queue, i, n).items)
                          /\ UNCHANGED nextItem
  BY DEF Takes
<1> DEFINE c == Cut(queue, i, n).items
<1>2. /\ queue \in Seq(Nat) /\ Distinct(queue) /\ Elements(queue) \cap taken = {}
      /\ Elements(queue) \cup taken = 1..(nextItem - 1)
  BY ItemsOnceMeans DEF QueueInv
<1>3. /\ c \in Seq(Nat) /\ queue' \in Seq(Nat)
      /\ Distinct(queue') /\ Ordered(queue', queue)
      /\ Elements(c) \cup Elements(queue') = Elements(queue)
      /\ Elements(c) \cap Elements(queue') = {}
      /\ Len(queue') <= Len(queue)
  BY <1>1, <1>2, CutSplits
<1> HIDE DEF c
<1>4. taken' = taken \cup Elements(c)
  BY <1>1 DEF c
<1>5. Elements(c) \subseteq Nat
  BY <1>3, ElementsMember
<1>6. /\ Elements(queue') \cap taken' = {}
      /\ Elements(queue') \cup taken' = 1..(nextItem' - 1)
  BY <1>1, <1>2, <1>3, <1>4
<1>7. ItemsOnce'
  <2>1. DOMAIN queue' = 1..Len(queue')
    BY <1>3
  <2>2. \A i1, j1 \in DOMAIN queue' : queue'[i1] = queue'[j1] => i1 = j1
    BY <2>1, <1>3 DEF Distinct
  <2> QED
    BY <2>2, <1>6 DEF ItemsOnce
<1> QED
  BY <1>1, <1>3, <1>4, <1>5, <1>7 DEF QueueInv

\* So does adding.
LEMMA AddsStep ==
  ASSUME QueueInv, NEW k \in Nat, Adds(k)
  PROVE  QueueInv' /\ Ordered(queue', queue)
<1>1. PICK i \in 0..Len(queue) : Splits(queue', queue, New(k), i)
  BY DEF Adds
<1>2. /\ queue \in Seq(Nat) /\ Distinct(queue) /\ Elements(queue) \cap taken = {}
      /\ Elements(queue) \cup taken = 1..(nextItem - 1)
      /\ nextItem \in Nat \ {0}
  BY ItemsOnceMeans, SyncAssumption DEF QueueInv
<1>3. /\ New(k) \in Seq(Nat) /\ Distinct(New(k))
      /\ Elements(New(k)) = nextItem..(nextItem + k - 1)
  BY NewFacts
<1>4. Elements(queue) \cap Elements(New(k)) = {}
  BY <1>2, <1>3
<1>5. /\ Distinct(queue') /\ Ordered(queue', queue)
      /\ Elements(queue') = Elements(queue) \cup Elements(New(k))
  BY <1>1, <1>2, <1>3, <1>4, Splicing DEF Adds
<1>6. nextItem' = nextItem + k /\ taken' = taken /\ queue' \in Seq(Nat)
  BY DEF Adds
<1>7. Elements(queue') \cap taken' = {}
  <2>1. Elements(New(k)) \cap taken = {}
    BY <1>2, <1>3
  <2> QED
    BY <2>1, <1>2, <1>5, <1>6
<1>8. Elements(queue') \cup taken' = 1..(nextItem' - 1)
  <2>1. Elements(queue') \cup taken' = (1..(nextItem - 1)) \cup Elements(New(k))
    BY <1>2, <1>5, <1>6
  <2> QED
    BY <2>1, <1>2, <1>3, <1>6
<1>9. ItemsOnce'
  BY <1>5, <1>6, <1>7, <1>8 DEF ItemsOnce, Distinct
<1>10. nextItem' \in 1..(MaxItems + 1)
  BY <1>2, <1>6, SyncAssumption DEF Adds
<1> QED
  BY <1>5, <1>6, <1>9, <1>10 DEF QueueInv

\* A step that leaves the queue alone.
LEMMA SameQueue ==
  ASSUME QueueInv, UNCHANGED <<queue, taken, nextItem>>
  PROVE  QueueInv' /\ Ordered(queue', queue)
<1>1. Distinct(queue) /\ queue \in Seq(Nat)
  BY ItemsOnceMeans DEF QueueInv
<1>2. Embeds([j \in 1..Len(queue) |-> j], queue, queue)
  BY <1>1 DEF Embeds
<1>3. Ordered(queue, queue)
  BY <1>1, <1>2, Embedding
<1> QED
  BY <1>3 DEF QueueInv, ItemsOnce

\* extract takes; what it takes is a part of the queue.
LEMMA ExtractTakes ==
  ASSUME QueueInv, NEW index \in Indices, NEW n \in 1..MaxItems
  PROVE  \E i, m \in Nat : extracted(queue, index, n) = Cut(queue, i, m)
<1> DEFINE i == IF index < 0 THEN index + Len(queue) ELSE index
<1>1. i \in Int /\ n \in Nat
  BY SyncAssumption DEF QueueInv, Indices
<1>2. extracted(queue, index, n) = IF i >= 0 THEN Cut(queue, i, n)
                                   ELSE IF n + i <= 0 THEN Cut(queue, 0, 0)
                                   ELSE Cut(queue, 0, n + i)
  BY DEF extracted
<1> HIDE DEF i
<1>3. CASE i >= 0
  BY <1>1, <1>2, <1>3
<1>4. CASE ~ (i >= 0) /\ n + i <= 0
  BY <1>1, <1>2, <1>4
<1>5. CASE ~ (i >= 0) /\ ~ (n + i <= 0)
  <2>1. n + i \in Nat
    BY <1>1, <1>5
  <2> QED
    BY <2>1, <1>2, <1>5
<1> QED
  BY <1>3, <1>4, <1>5

\* Every step takes items, adds items, or leaves the queue alone.
LEMMA QueueStep ==
  ASSUME QueueInv, ThreadInv, [Next]_vars
  PROVE  QueueInv' /\ Ordered(queue', queue)
<1>0. queue \in Seq(Nat) /\ Len(queue) \in Nat
  BY DEF QueueInv
<1>1. CASE Enqueue
  <2>1. PICK k \in 0..MaxItems : /\ nextItem + k <= MaxItems + 1
                                 /\ queue' = queue \o New(k)
                                 /\ nextItem' = nextItem + k /\ UNCHANGED taken
    BY <1>1 DEF Enqueue
  <2>2. k \in Nat
    BY SyncAssumption
  <2>3. queue' \in Seq(Nat) /\ Splits(queue', queue, New(k), Len(queue))
    BY <2>1, <2>2, <1>0, NewFacts, EnqueuedFacts
  <2>4. Adds(k)
    BY <2>1, <2>3, <1>0 DEF Adds
  <2> QED
    BY <2>2, <2>4, AddsStep
<1>2. CASE Insert
  <2>1. PICK index \in Indices, k \in 1..MaxItems :
           /\ nextItem + k <= MaxItems + 1
           /\ queue' = inserted(queue, insert_position(queue, index), New(k))
           /\ nextItem' = nextItem + k /\ UNCHANGED taken
    BY <1>2 DEF Insert
  <2>2. k \in Nat /\ index \in Int
    BY SyncAssumption DEF Indices
  <2>3. insert_position(queue, index) \in 0..Len(queue)
    BY <2>2, <1>0 DEF insert_position, Within
  <2>4. queue' \in Seq(Nat) /\ Splits(queue', queue, New(k), insert_position(queue, index))
    BY <2>1, <2>2, <2>3, <1>0, NewFacts, InsertedFacts
  <2>5. Adds(k)
    BY <2>1, <2>3, <2>4 DEF Adds
  <2> QED
    BY <2>2, <2>5, AddsStep
<1>3. CASE DequeueNb
  <2>1. Takes
    BY <1>3, SyncAssumption DEF DequeueNb, Takes
  <2> QED
    BY <2>1, TakesStep
<1>4. CASE Extract
  <2>1. PICK index \in Indices, n \in 1..MaxItems :
           /\ queue' = extracted(queue, index, n).rest
           /\ taken' = taken \cup Elements(extracted(queue, index, n).items)
           /\ UNCHANGED nextItem
    BY <1>4 DEF Extract
  <2>2. Takes
    BY <2>1, ExtractTakes DEF Takes
  <2> QED
    BY <2>2, TakesStep
<1>5. ASSUME NEW t, NEW n \in Nat, Dequeue(t, n) PROVE QueueInv' /\ Ordered(queue', queue)
  <2>1. CASE Len(queue) >= n
    <3>1. Takes
      BY <1>5, <2>1 DEF Dequeue, Takes
    <3> QED
      BY <3>1, TakesStep
  <2>2. CASE ~ (Len(queue) >= n)
    BY <1>5, <2>2, SameQueue DEF Dequeue
  <2> QED
    BY <2>1, <2>2
<1>6. CASE CallDequeue
  BY <1>5, <1>6, SyncAssumption DEF CallDequeue
<1>7. ASSUME NEW t \in Threads, Resume(t) PROVE QueueInv' /\ Ordered(queue', queue)
  <2>1. thread[t].n \in Nat
    BY <1>7, SyncAssumption DEF ThreadInv, ThreadStates, Running, Waiting, Resume
  <2>2. CASE Dequeue(t, thread[t].n)
    BY <2>1, <2>2, <1>5
  <2>3. CASE Down(t, thread[t].n)
    BY <2>3, SameQueue DEF Down
  <2> QED
    BY <2>2, <2>3, <1>7 DEF Resume
<1>8. CASE CallDown \/ DownNb \/ DownForce \/ Up \/ Notified \/ UNCHANGED vars
  BY <1>8, SameQueue DEF CallDown, Down, DownNb, DownForce, Up, Notified, vars
<1> QED
  BY <1>1, <1>2, <1>3, <1>4, <1>6, <1>7, <1>8 DEF Next

------------------------------------------------------------------------------
(* The threads *)

\* The semaphore and what sleepers wait for are whole numbers.
LEMMA ThreadTypes ==
  ASSUME ThreadInv
  PROVE  /\ MaxValue \in Nat /\ sema \in Int /\ -MaxValue <= sema /\ sema <= MaxValue
         /\ thread \in [Threads -> ThreadStates]
         /\ \A u \in Asleep(thread, "semaphore") : thread[u].n \in Nat \ {0}
         /\ \A u \in Asleep(thread, "queue") : thread[u].n \in Nat \ {0}
<1>1. MaxValue \in Nat /\ sema \in Int /\ -MaxValue <= sema /\ sema <= MaxValue
  BY SyncAssumption DEF ThreadInv
<1>2. thread \in [Threads -> ThreadStates]
  BY DEF ThreadInv
<1>3. \A u \in Asleep(thread, "semaphore") : thread[u].n \in Nat \ {0}
  BY <1>2, SyncAssumption DEF Asleep, ThreadStates, Running, Waiting
<1>4. \A u \in Asleep(thread, "queue") : thread[u].n \in Nat \ {0}
  BY <1>2, SyncAssumption DEF Asleep, ThreadStates, Running, Waiting
<1> QED
  BY <1>1, <1>2, <1>3, <1>4

\* What waking some sleepers changes.
LEMMA WakeFacts ==
  ASSUME NEW th \in [Threads -> ThreadStates], NEW ts \in SUBSET Threads,
         \A t \in ts : th[t].pc = "asleep"
  PROVE  /\ Wake(th, ts) \in [Threads -> ThreadStates]
         /\ \A t \in Threads : /\ Wake(th, ts)[t].pc = IF t \in ts THEN "woken" ELSE th[t].pc
                               /\ Wake(th, ts)[t].on = th[t].on
                               /\ Wake(th, ts)[t].n = th[t].n
<1>1. ASSUME NEW t \in Threads
      PROVE  /\ Wake(th, ts)[t] \in ThreadStates
             /\ Wake(th, ts)[t].pc = IF t \in ts THEN "woken" ELSE th[t].pc
             /\ Wake(th, ts)[t].on = th[t].on
             /\ Wake(th, ts)[t].n = th[t].n
  <2>1. th[t] \in ThreadStates
    OBVIOUS
  <2>2. CASE t \in ts
    <3>1. Wake(th, ts)[t] = [th[t] EXCEPT !.pc = "woken"] /\ th[t].pc = "asleep"
      BY <2>2 DEF Wake
    <3> QED
      BY <3>1, <2>1, <2>2 DEF ThreadStates, Running, Waiting
  <2>3. CASE t \notin ts
    BY <2>1, <2>3 DEF Wake
  <2> QED
    BY <2>2, <2>3
<1>2. Wake(th, ts) = [t \in Threads |-> Wake(th, ts)[t]]
  BY DEF Wake
<1> QED
  BY <1>1, <1>2

\* cond_signal leaves threads as they are, but some sleepers woken; and one of
\* them if there are any.
LEMMA SignalFacts ==
  ASSUME NEW th \in [Threads -> ThreadStates], NEW o, NEW th1 \in cond_signal(th, o)
  PROVE  /\ th1 \in [Threads -> ThreadStates]
         /\ \A t \in Threads : /\ th1[t].on = th[t].on /\ th1[t].n = th[t].n
                               /\ th1[t].pc = "asleep" => th[t].pc = "asleep"
                               /\ th[t].pc = "woken" => th1[t].pc = "woken"
         /\ (\E t \in Threads : th[t].pc = "asleep" /\ th[t].on = o)
              => \E t \in Threads : th1[t].pc = "woken" /\ th1[t].on = o
<1>1. CASE Asleep(th, o) = {}
  BY <1>1 DEF cond_signal, Asleep
<1>2. CASE Asleep(th, o) # {}
  <2>1. PICK t \in Asleep(th, o) : th1 = Wake(th, {t})
    BY <1>2 DEF cond_signal
  <2>2. t \in Threads /\ th[t].pc = "asleep" /\ th[t].on = o
    BY DEF Asleep
  <2> QED
    BY <2>1, <2>2, WakeFacts
<1> QED
  BY <1>1, <1>2

\* Whatever happens to the queue, a signal with it leaves nobody overlooked.
LEMMA QueueSignals ==
  ASSUME ThreadInv, thread' \in cond_signal(thread, "queue"), UNCHANGED sema
  PROVE  ThreadInv'
<1>1. /\ thread' \in [Threads -> ThreadStates]
      /\ \A t \in Threads : /\ thread'[t].on = thread[t].on /\ thread'[t].n = thread[t].n
                            /\ thread'[t].pc = "asleep" => thread[t].pc = "asleep"
      /\ (\E t \in Threads : thread[t].pc = "asleep" /\ thread[t].on = "queue")
           => \E t \in Threads : thread'[t].pc = "woken" /\ thread'[t].on = "queue"
  BY SignalFacts DEF ThreadInv
<1>2. DownAwake'
  BY <1>1 DEF ThreadInv, DownAwake, Asleep
<1>3. DequeueAwake'
  BY <1>1 DEF DequeueAwake, Asleep, Woken
<1> QED
  BY <1>1, <1>2, <1>3 DEF ThreadInv

\* Taking items, or lowering the semaphore, makes no sleeper able to go on.
LEMMA LessIsFine ==
  ASSUME ThreadInv, QueueInv, sema' \in -MaxValue..MaxValue, sema' <= sema,
         Len(queue') \in Nat, Len(queue') <= Len(queue), UNCHANGED thread
  PROVE  ThreadInv'
<1>1. \A t \in Asleep(thread, "queue") : thread[t].n \in Nat
  BY ThreadTypes
<1>2. \A t \in Asleep(thread, "semaphore") : thread[t].n \in Nat
  BY ThreadTypes
<1>3. sema \in Int /\ sema' \in Int /\ Len(queue) \in Nat
  BY SyncAssumption DEF ThreadInv, QueueInv
<1>4. DownAwake'
  BY <1>2, <1>3 DEF ThreadInv, DownAwake, Asleep
<1>5. UniformCounts => DequeueAwake'
  BY <1>1, <1>3 DEF ThreadInv, DequeueAwake, Asleep, Woken
<1> QED
  BY <1>4, <1>5 DEF ThreadInv

\* dequeue: it sleeps only if the queue is too short, and one that goes on
\* passes the signal on, or leaves less than anybody waits for.
LEMMA DequeueStep ==
  ASSUME ThreadInv, QueueInv, QueueInv', NEW t \in Threads, NEW n \in Counts, Dequeue(t, n)
  PROVE  ThreadInv'
<1>0. /\ n \in Nat \ {0} /\ Len(queue) \in Nat /\ queue \in Seq(Nat) /\ Len(queue') \in Nat
      /\ thread \in [Threads -> ThreadStates] /\ Distinct(queue)
  BY SyncAssumption, ItemsOnceMeans DEF QueueInv, ThreadInv
<1>1. CASE Len(queue) >= n
  <2> DEFINE th == [thread EXCEPT ![t] = Run]
  <2>1. /\ thread' \in signal_more(th, n)
        /\ queue' = Cut(queue, 0, n).rest /\ UNCHANGED sema
    BY <1>1 DEF Dequeue
  <2>2. Len(queue') = Len(queue) - n
    BY <2>1, <1>0, <1>1, CutSplits
  <2>3. /\ th \in [Threads -> ThreadStates]
        /\ th[t].pc = "running"
        /\ \A u \in Threads : u # t => th[u] = thread[u]
    BY <1>0 DEF ThreadStates, Running, Run
  <2> HIDE DEF th
  <2>4. /\ thread' \in [Threads -> ThreadStates]
        /\ \A u \in Threads : /\ thread'[u].on = th[u].on /\ thread'[u].n = th[u].n
                              /\ thread'[u].pc = "asleep" => th[u].pc = "asleep"
    <3>1. CASE thread' = th
      BY <3>1, <2>3
    <3>2. CASE thread' \in cond_signal(th, "queue")
      BY <3>2, <2>3, SignalFacts
    <3> QED
      BY <3>1, <3>2, <2>1 DEF signal_more
  <2>5. \A u \in Threads : thread'[u].pc = "asleep" =>
           thread[u].pc = "asleep" /\ thread'[u].on = thread[u].on /\ thread'[u].n = thread[u].n
    BY <2>3, <2>4
  <2>6. DownAwake'
    BY <2>1, <2>5 DEF ThreadInv, DownAwake, Asleep
  <2>7. ASSUME UniformCounts PROVE DequeueAwake'
    <3>1. CASE Len(queue) > n
      <4>1. thread' \in cond_signal(th, "queue")
        BY <2>1, <3>1 DEF signal_more
      <4>2. (\E u \in Threads : th[u].pc = "asleep" /\ th[u].on = "queue")
              => \E u \in Threads : thread'[u].pc = "woken" /\ thread'[u].on = "queue"
        BY <4>1, <2>3, SignalFacts
      <4> QED
        BY <4>2, <2>4 DEF DequeueAwake, Asleep, Woken
    <3>2. CASE Len(queue) = n
      <4>1. Len(queue') = 0
        BY <3>2, <2>2, <1>0
      <4>2. \A u \in Asleep(thread', "queue") : thread'[u].n \in Nat \ {0}
        BY <2>4, SyncAssumption DEF Asleep, ThreadStates, Running, Waiting
      <4> QED
        BY <4>1, <4>2 DEF DequeueAwake
    <3> QED
      BY <3>1, <3>2, <1>0, <1>1
  <2> QED
    BY <2>1, <2>4, <2>6, <2>7 DEF ThreadInv
<1>2. CASE ~ (Len(queue) >= n)
  <2>1. /\ thread' = [thread EXCEPT ![t] = [pc |-> "asleep", on |-> "queue", n |-> n]]
        /\ UNCHANGED <<queue, sema>>
    BY <1>2 DEF Dequeue
  <2>2. /\ thread' \in [Threads -> ThreadStates]
        /\ thread'[t] = [pc |-> "asleep", on |-> "queue", n |-> n]
        /\ \A u \in Threads : u # t => thread'[u] = thread[u]
    BY <2>1, <1>0 DEF ThreadStates, Waiting
  <2>3. DownAwake'
    BY <2>1, <2>2 DEF ThreadInv, DownAwake, Asleep
  <2>4. ASSUME UniformCounts PROVE DequeueAwake'
    <3>1. \A u \in Asleep(thread', "queue") : thread'[u].n = n
      BY <2>2, <2>4 DEF Asleep, ThreadStates, Running, Waiting, UniformCounts
    <3> QED
      BY <3>1, <2>1, <1>2 DEF DequeueAwake
  <2> QED
    BY <2>1, <2>2, <2>3, <2>4 DEF ThreadInv
<1> QED
  BY <1>1, <1>2

\* down: it sleeps only if the semaphore is too low.
LEMMA DownStep ==
  ASSUME ThreadInv, NEW t \in Threads, NEW n \in Amounts, Down(t, n),
         thread[t].pc = "running" \/ thread[t].on = "semaphore"
  PROVE  ThreadInv'
<1>0. /\ n \in Nat \ {0} /\ sema \in Int /\ MaxValue \in Nat /\ sema <= MaxValue
      /\ thread \in [Threads -> ThreadStates]
      /\ \A u \in Asleep(thread, "semaphore") : thread[u].n \in Nat
      /\ UNCHANGED queue
  <2>1. n \in Nat \ {0} /\ UNCHANGED queue
    BY SyncAssumption DEF Down
  <2> QED
    BY <2>1, ThreadTypes
<1> DEFINE Others == \A u \in Threads : u # t => thread'[u] = thread[u]
<1>1. ASSUME thread' \in [Threads -> ThreadStates], Others,
             ~ (thread'[t].pc = "asleep" /\ thread'[t].on = "queue")
      PROVE  DequeueAwake => DequeueAwake'
  BY <1>0, <1>1 DEF DequeueAwake, Asleep, Woken
<1>2. CASE sema >= n
  <2>1. sema' = sema - n /\ thread' = [thread EXCEPT ![t] = Run]
    BY <1>2 DEF Down
  <2>2. /\ thread' \in [Threads -> ThreadStates] /\ Others
        /\ thread'[t].pc = "running"
    BY <2>1, <1>0 DEF ThreadStates, Running, Run
  <2>3. sema' \in -MaxValue..MaxValue
    BY <2>1, <1>0, <1>2
  <2>4. DownAwake'
    BY <2>1, <2>2, <1>0 DEF ThreadInv, DownAwake, Asleep
  <2> HIDE DEF Others
  <2> QED
    BY <2>2, <2>3, <2>4, <1>1 DEF ThreadInv
<1>3. CASE ~ (sema >= n)
  <2>1. /\ thread' = [thread EXCEPT ![t] = [pc |-> "asleep", on |-> "semaphore", n |-> n]]
        /\ UNCHANGED sema
    BY <1>3 DEF Down
  <2>2. /\ thread' \in [Threads -> ThreadStates] /\ Others
        /\ thread'[t].on = "semaphore" /\ thread'[t].n = n
    BY <2>1, <1>0 DEF ThreadStates, Waiting
  <2>3. DownAwake'
    BY <2>1, <2>2, <1>0, <1>3 DEF ThreadInv, DownAwake, Asleep
  <2> HIDE DEF Others
  <2> QED
    BY <2>1, <2>2, <2>3, <1>1 DEF ThreadInv
<1> QED
  BY <1>2, <1>3

\* up wakes everybody unless the semaphore is too low for anybody.
LEMMA UpStep ==
  ASSUME ThreadInv, QueueInv, Up
  PROVE  ThreadInv'
<1>1. PICK n \in Amounts : /\ sema + n <= MaxValue /\ sema' = sema + n
                           /\ thread' \in notified_by_up(thread, sema + n)
                           /\ UNCHANGED queue
  BY DEF Up
<1>2. /\ n \in Nat \ {0} /\ sema \in Int /\ MaxValue \in Nat /\ -MaxValue <= sema
      /\ thread \in [Threads -> ThreadStates]
      /\ \A u \in Asleep(thread, "semaphore") : thread[u].n \in Nat \ {0}
  BY SyncAssumption, ThreadTypes
<1>3. sema' \in -MaxValue..MaxValue
  BY <1>1, <1>2
<1>4. CASE sema' > 0
  <2> DEFINE s == Asleep(thread, "semaphore")
  <2>1. thread' = Wake(thread, s)
    BY <1>1, <1>4 DEF notified_by_up, cond_broadcast
  <2>2. s \in SUBSET Threads /\ \A t \in s : thread[t].pc = "asleep"
    BY DEF Asleep
  <2>3. /\ thread' \in [Threads -> ThreadStates]
        /\ \A t \in Threads : /\ thread'[t].pc = IF t \in s THEN "woken" ELSE thread[t].pc
                              /\ thread'[t].on = thread[t].on
                              /\ thread'[t].n = thread[t].n
    BY <2>1, <2>2, <1>2, WakeFacts
  <2>4. DownAwake'
    BY <2>3 DEF DownAwake, Asleep
  <2>5. DequeueAwake => DequeueAwake'
    BY <2>3, <1>1 DEF DequeueAwake, Asleep, Woken
  <2> QED
    BY <2>3, <2>4, <2>5, <1>3 DEF ThreadInv
<1>5. CASE ~ (sema' > 0)
  <2>1. UNCHANGED thread
    BY <1>1, <1>5 DEF notified_by_up
  <2>2. DownAwake'
    BY <2>1, <1>2, <1>3, <1>5 DEF DownAwake, Asleep
  <2>3. DequeueAwake => DequeueAwake'
    BY <2>1, <1>1 DEF DequeueAwake, Asleep, Woken
  <2> QED
    BY <2>1, <2>2, <2>3, <1>3 DEF ThreadInv
<1> QED
  BY <1>4, <1>5

\* A sleeper notified by nobody only adds to those awake.
LEMMA NotifiedStep ==
  ASSUME ThreadInv, Notified
  PROVE  ThreadInv'
<1>1. PICK t \in Threads : thread[t].pc = "asleep" /\ thread' = Wake(thread, {t})
  BY DEF Notified
<1>2. /\ thread' \in [Threads -> ThreadStates]
      /\ \A u \in Threads : /\ thread'[u].pc = IF u = t THEN "woken" ELSE thread[u].pc
                            /\ thread'[u].on = thread[u].on
                            /\ thread'[u].n = thread[u].n
  BY <1>1, WakeFacts DEF ThreadInv
<1>3. UNCHANGED <<queue, sema>>
  BY DEF Notified
<1>4. DownAwake'
  BY <1>2, <1>3 DEF ThreadInv, DownAwake, Asleep
<1>5. DequeueAwake => DequeueAwake'
  <2> SUFFICES ASSUME DequeueAwake, NEW u \in Asleep(thread', "queue"), Len(queue') >= thread'[u].n
               PROVE  Woken("queue")' # {}
    BY DEF DequeueAwake
  <2>1. u \in Asleep(thread, "queue") /\ Len(queue) >= thread[u].n
    BY <1>1, <1>2, <1>3 DEF Asleep
  <2>2. PICK w \in Threads : thread[w].pc = "woken" /\ thread[w].on = "queue"
    BY <2>1 DEF DequeueAwake, Woken
  <2>3. thread'[w].pc = "woken" /\ thread'[w].on = "queue"
    BY <1>1, <1>2, <2>2
  <2> QED
    BY <2>3 DEF Woken
<1> QED
  BY <1>2, <1>3, <1>4, <1>5 DEF ThreadInv

\* Every step of a thread keeps ThreadInv.
LEMMA ThreadStep ==
  ASSUME QueueInv, QueueInv', ThreadInv, [Next]_vars
  PROVE  ThreadInv'
<1>0. /\ queue \in Seq(Nat) /\ Len(queue) \in Nat /\ Len(queue') \in Nat
      /\ Distinct(queue) /\ MaxItems \in Nat
      /\ sema \in -MaxValue..MaxValue /\ MaxValue \in Nat
  BY SyncAssumption, ItemsOnceMeans DEF QueueInv, ThreadInv
<1>1. CASE Enqueue
  <2>1. PICK k \in 0..MaxItems : /\ queue' = queue \o New(k)
                                 /\ thread' \in signal_added(thread, queue, k)
                                 /\ UNCHANGED sema
    BY <1>1 DEF Enqueue
  <2>2. CASE thread' \in cond_signal(thread, "queue")
    BY <2>1, <2>2, QueueSignals
  <2>3. CASE queue = <<>> /\ k = 0 /\ UNCHANGED thread
    <3>1. New(k) = <<>>
      BY <2>3 DEF New
    <3>2. queue' = queue
      BY <3>1, <2>1, <2>3
    <3> QED
      BY <3>2, <2>1, <2>3, <1>0, LessIsFine
  <2> QED
    BY <2>1, <2>2, <2>3 DEF signal_added
<1>2. CASE Insert
  <2>1. thread' \in cond_signal(thread, "queue") /\ UNCHANGED sema
    BY <1>2 DEF Insert
  <2> QED
    BY <2>1, QueueSignals
<1>3. CASE DequeueNb \/ Extract
  <2>1. UNCHANGED <<sema, thread>>
    BY <1>3 DEF DequeueNb, Extract
  <2>2. Takes
    <3>1. CASE DequeueNb
      BY <3>1, SyncAssumption DEF DequeueNb, Takes
    <3>2. CASE Extract
      BY <3>2, ExtractTakes DEF Extract, Takes
    <3> QED
      BY <3>1, <3>2, <1>3
  <2>3. Len(queue') <= Len(queue)
    BY <2>2, TakesStep
  <2> QED
    BY <2>1, <2>3, <1>0, LessIsFine
<1>4. CASE CallDequeue
  BY <1>4, DequeueStep DEF CallDequeue
<1>5. CASE CallDown
  BY <1>5, DownStep DEF CallDown, Calling
<1>6. CASE DownNb \/ DownForce
  <2>1. /\ UNCHANGED <<queue, thread>>
        /\ sema' \in -MaxValue..MaxValue /\ sema' <= sema
    BY <1>6, <1>0, SyncAssumption DEF DownNb, DownForce
  <2> QED
    BY <2>1, <1>0, LessIsFine
<1>7. CASE Up
  BY <1>7, UpStep
<1>8. CASE Notified
  BY <1>8, NotifiedStep
<1>9. ASSUME NEW t \in Threads, Resume(t) PROVE ThreadInv'
  <2>1. thread[t] \in ThreadStates /\ thread[t].pc = "woken"
    BY <1>9 DEF ThreadInv, Resume
  <2>2. CASE thread[t].on = "queue" /\ Dequeue(t, thread[t].n)
    <3>1. thread[t].n \in Counts
      BY <2>1, <2>2 DEF ThreadStates, Running, Waiting
    <3> QED
      BY <2>2, <3>1, DequeueStep
  <2>3. CASE thread[t].on = "semaphore" /\ Down(t, thread[t].n)
    <3>1. thread[t].n \in Amounts
      BY <2>1, <2>3 DEF ThreadStates, Running, Waiting
    <3> QED
      BY <2>3, <3>1, DownStep
  <2> QED
    BY <2>2, <2>3, <1>9 DEF Resume
<1>10. CASE UNCHANGED vars
  <2>1. UNCHANGED <<queue, sema, thread>>
    BY <1>10 DEF vars
  <2> QED
    BY <2>1, <1>0, LessIsFine
<1> QED
  BY <1>1, <1>2, <1>3, <1>4, <1>5, <1>6, <1>7, <1>8, <1>9, <1>10 DEF Next

------------------------------------------------------------------------------
(* Theorems *)

\* QueueInv and ThreadInv hold in every state.
THEOREM SyncInvariant == Spec => [](QueueInv /\ ThreadInv)
<1>1. Init => QueueInv /\ ThreadInv
  <2> SUFFICES ASSUME Init PROVE QueueInv /\ ThreadInv
    OBVIOUS
  <2>1. queue = <<>> /\ taken = {} /\ nextItem = 1 /\ sema = Initial
        /\ thread = [t \in Threads |-> Run]
    BY DEF Init
  <2>2. QueueInv
    BY <2>1, SyncAssumption DEF QueueInv, ItemsOnce, Elements
  <2>3. thread \in [Threads -> ThreadStates]
    BY <2>1 DEF ThreadStates, Running, Run
  <2>4. \A o : Asleep(thread, o) = {}
    BY <2>1 DEF Asleep, Run
  <2>5. DownAwake /\ DequeueAwake
    BY <2>4 DEF DownAwake, DequeueAwake
  <2> QED
    BY <2>1, <2>2, <2>3, <2>5, SyncAssumption DEF ThreadInv
<1>2. QueueInv /\ ThreadInv /\ [Next]_vars => (QueueInv /\ ThreadInv)'
  BY QueueStep, ThreadStep
<1> QED
  BY <1>1, <1>2, PTL DEF Spec

\* The type invariant, for any constants.
THEOREM SyncTypeOK == Spec => []TypeOK
<1>1. QueueInv /\ ThreadInv => TypeOK
  BY DEF QueueInv, ThreadInv, TypeOK, ThreadStates
<1> QED
  BY <1>1, SyncInvariant, PTL

\* When all consumers ask for the same number of items, a signal is never lost
\* on one of them while the queue holds enough for another.
THEOREM SyncDequeueAwake == UniformCounts => (Spec => []DequeueAwake)
<1>1. UniformCounts /\ ThreadInv => DequeueAwake
  BY DEF ThreadInv
<1>2. UniformCounts => [](ThreadInv => DequeueAwake)
  <2> SUFFICES ASSUME UniformCounts PROVE [](ThreadInv => DequeueAwake)
    OBVIOUS
  <2>1. ThreadInv => DequeueAwake
    BY <1>1
  <2> QED
    BY <2>1, PTL
<1> QED
  BY <1>2, SyncInvariant, PTL

\* Nobody sleeps in down while the semaphore is high enough, whatever the
\* amounts, and however far down_force lowered it.
THEOREM SyncDownAwake == Spec => []DownAwake
<1>1. ThreadInv => DownAwake
  BY DEF ThreadInv
<1> QED
  BY <1>1, SyncInvariant, PTL

\* No item is lost or returned twice.
THEOREM SyncItemsOnce == Spec => []ItemsOnce
<1>1. QueueInv => ItemsOnce
  BY DEF QueueInv
<1> QED
  BY <1>1, SyncInvariant, PTL

\* What stays in the queue keeps its order.
THEOREM SyncOrderKept == Spec => OrderKept
<1>1. QueueInv /\ ThreadInv /\ [Next]_vars =>
        [\A i, j \in DOMAIN queue : i < j => ~ Before(queue', queue[j], queue[i])]_queue
  BY QueueStep DEF QueueInv, Ordered
<1> QED
  BY <1>1, SyncInvariant, PTL DEF Spec, OrderKept

\* extract takes what lies between index and index + count and leaves the
\* others in their order, for every index, also one before the head.
THEOREM SyncExtractsWindow == Spec => []ExtractsWindow
<1>1. QueueInv => ExtractsWindow
  <2> SUFFICES ASSUME QueueInv, NEW index \in Indices, NEW count \in 1..MaxItems
               PROVE  LET e      == extracted(queue, index, count)
                          from   == IF index < 0 THEN index + Len(queue) ELSE index
                          window == {p \in DOMAIN queue : from < p /\ p <= from + count}
                      IN  /\ Picks(e.items, queue, window)
                          /\ Picks(e.rest, queue, DOMAIN queue \ window)
    BY DEF ExtractsWindow
  <2> DEFINE e      == extracted(queue, index, count)
             from   == IF index < 0 THEN index + Len(queue) ELSE index
             window == {p \in 1..Len(queue) : from < p /\ p <= from + count}
  <2>1. queue \in Seq(Nat) /\ DOMAIN queue = 1..Len(queue)
    BY DEF QueueInv
  <2>2. from \in Int /\ count \in Nat
    BY <2>1, SyncAssumption DEF Indices
  <2>3. e = IF from >= 0 THEN Cut(queue, from, count)
            ELSE IF count + from <= 0 THEN Cut(queue, 0, 0)
            ELSE Cut(queue, 0, count + from)
    BY DEF extracted
  <2> HIDE DEF from, e
  <2>4. Picks(e.items, queue, window) /\ Picks(e.rest, queue, (1..Len(queue)) \ window)
    <3>0. ASSUME NEW i \in Nat, NEW n \in Nat, e = Cut(queue, i, n),
                 window = {p \in 1..Len(queue) : i < p /\ p <= i + n}
          PROVE  /\ Picks(e.items, queue, window)
                 /\ Picks(e.rest, queue, (1..Len(queue)) \ window)
      <4> HIDE DEF window
      <4> QED
        BY <3>0, <2>1, CutPicks
    <3>1. CASE from >= 0
      <4>1. from \in Nat /\ e = Cut(queue, from, count)
        BY <3>1, <2>2, <2>3
      <4> QED
        BY <4>1, <2>2, <3>0
    <3>2. CASE from < 0 /\ count + from <= 0
      <4>1. window = {p \in 1..Len(queue) : 0 < p /\ p <= 0 + 0}
        BY <3>2, <2>2
      <4>2. e = Cut(queue, 0, 0)
        BY <3>2, <2>2, <2>3
      <4> HIDE DEF window
      <4> QED
        BY <4>1, <4>2, <3>0
    <3>3. CASE from < 0 /\ count + from > 0
      <4>1. count + from \in Nat
        BY <3>3, <2>2
      <4>2. window = {p \in 1..Len(queue) : 0 < p /\ p <= 0 + (count + from)}
        BY <3>3, <2>2
      <4>3. e = Cut(queue, 0, count + from)
        BY <3>3, <2>2, <2>3
      <4> HIDE DEF window
      <4> QED
        BY <4>1, <4>2, <4>3, <3>0
    <3> QED
      BY <3>1, <3>2, <3>3, <2>2
  <2> QED
    BY <2>1, <2>4 DEF e, from
<1> QED
  BY <1>1, SyncInvariant, PTL
==============================================================================
