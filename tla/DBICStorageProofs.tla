--------------------------- MODULE DBICStorageProofs ---------------------------
(***************************************************************************)
(* Proofs about DBICStorage. First what holds of every use, for every      *)
(* value of the constants: the storage and the application's blocks keep   *)
(* their types, a transaction lives in a live connection only, and a       *)
(* txn_do that leaves its transaction open throws "Rollback failed".       *)
(* Then that transactions without savepoints are atomic, for any nesting   *)
(* and any number of writes: DBICStorage implements AtomicTxn when         *)
(* auto_savepoint is off, the connection may be lost at any point,         *)
(* statements and commits may be refused, and the application uses         *)
(* txn_do, guards, eval and disconnect.                                    *)
(***************************************************************************)
EXTENDS DBICStorage, FiniteSetTheorems, SequenceTheorems, WellFoundedInduction, TLAPS

------------------------------------------------------------------------------
(* Stacks of blocks *)

Depth(stk) == Cardinality(Counted(stk))

LEMMA CountedFinite ==
  ASSUME NEW stk \in Seq(Frame)
  PROVE  IsFiniteSet(Counted(stk)) /\ Depth(stk) \in Nat
<1>1. Counted(stk) \subseteq 1..Len(stk)
  BY DEF Counted
<1>2. IsFiniteSet(1..Len(stk))
  BY FS_Interval
<1> QED
  BY <1>1, <1>2, FS_Subset, FS_CardinalityType DEF Depth

\* A stack whose kinds are the same has the same scopes.
LEMMA SameKinds ==
  ASSUME NEW stk \in Seq(Frame), NEW new \in Seq(Frame), Len(new) = Len(stk),
         \A i \in 1..Len(stk) : new[i].kind = stk[i].kind
  PROVE  Counted(new) = Counted(stk) /\ Scopes(new) = Scopes(stk)
BY DEF Counted, Scopes

LEMMA PushCount ==
  ASSUME NEW stk \in Seq(Frame), NEW f \in Frame
  PROVE  Depth(Append(stk, f)) =
           IF f.kind \in {"txn_do", "guard"} THEN Depth(stk) + 1 ELSE Depth(stk)
<1> DEFINE new == Append(stk, f)
<1>1. /\ DOMAIN new = 1..(Len(stk) + 1) /\ DOMAIN stk = 1..Len(stk)
      /\ Len(stk) \in Nat
      /\ new[Len(stk) + 1] = f
      /\ \A i \in 1..Len(stk) : new[i] = stk[i]
  OBVIOUS
<1>2. CASE f.kind \in {"txn_do", "guard"}
  <2>1. Counted(new) = Counted(stk) \cup {Len(stk) + 1} /\ Len(stk) + 1 \notin Counted(stk)
    BY <1>1, <1>2 DEF Counted
  <2> QED
    BY <2>1, <1>2, CountedFinite, FS_AddElement DEF Depth
<1>3. CASE f.kind \notin {"txn_do", "guard"}
  <2>1. Counted(new) = Counted(stk)
    BY <1>1, <1>3 DEF Counted
  <2> QED
    BY <2>1, <1>3 DEF Depth
<1> QED
  BY <1>2, <1>3

LEMMA Prefix ==
  ASSUME NEW stk \in Seq(Frame), NEW n \in Nat, n <= Len(stk)
  PROVE  /\ SubSeq(stk, 1, n) \in Seq(Frame) /\ Len(SubSeq(stk, 1, n)) = n
         /\ \A i \in 1..n : SubSeq(stk, 1, n)[i] = stk[i]
OBVIOUS

\* A stack is its top block pushed on the blocks below.
LEMMA Split ==
  ASSUME NEW stk \in Seq(Frame), stk # <<>>
  PROVE  LET below == SubSeq(stk, 1, Len(stk) - 1)
             top == stk[Len(stk)]
         IN  /\ below \in Seq(Frame) /\ top \in Frame
             /\ Len(below) = Len(stk) - 1 /\ Len(stk) \in Nat /\ Len(stk) > 0
             /\ \A i \in 1..(Len(stk) - 1) : below[i] = stk[i]
             /\ stk = Append(below, top)
<1> DEFINE below == SubSeq(stk, 1, Len(stk) - 1)
           top == stk[Len(stk)]
<1>1. Len(stk) \in Nat /\ Len(stk) > 0 /\ top \in Frame
  OBVIOUS
<1>2. /\ below \in Seq(Frame) /\ Len(below) = Len(stk) - 1
      /\ \A i \in 1..(Len(stk) - 1) : below[i] = stk[i]
  <2>1. Len(stk) - 1 \in Nat /\ Len(stk) - 1 <= Len(stk)
    BY <1>1
  <2> QED
    BY <2>1, Prefix
<1>3. stk = Append(below, top)
  <2>1. Append(below, top) \in Seq(Frame) /\ Len(Append(below, top)) = Len(stk)
    BY <1>1, <1>2
  <2>2. \A i \in 1..Len(stk) : Append(below, top)[i] = stk[i]
    BY <1>1, <1>2
  <2> QED
    BY <2>1, <2>2
<1> QED
  BY <1>1, <1>2, <1>3

LEMMA PopCount ==
  ASSUME NEW stk \in Seq(Frame), stk # <<>>
  PROVE  Depth(SubSeq(stk, 1, Len(stk) - 1)) =
           IF stk[Len(stk)].kind \in {"txn_do", "guard"}
           THEN Depth(stk) - 1 ELSE Depth(stk)
<1> DEFINE below == SubSeq(stk, 1, Len(stk) - 1)
           top == stk[Len(stk)]
<1>1. below \in Seq(Frame) /\ top \in Frame /\ stk = Append(below, top)
  BY Split
<1> HIDE DEF below, top
<1>2. Depth(below) \in Nat
  BY <1>1, CountedFinite
<1>3. Depth(stk) = IF top.kind \in {"txn_do", "guard"} THEN Depth(below) + 1 ELSE Depth(below)
  BY <1>1, PushCount
<1>4. Depth(below) = IF top.kind \in {"txn_do", "guard"} THEN Depth(stk) - 1 ELSE Depth(stk)
  BY <1>2, <1>3
<1> QED
  BY <1>4 DEF below, top

LEMMA PushWork ==
  ASSUME NEW stk \in Seq(Frame), NEW f \in Frame
  PROVE  WorkOf(Append(stk, f)) = WorkOf(stk) \cup f.work
<1> DEFINE new == Append(stk, f)
<1>1. /\ DOMAIN new = 1..(Len(stk) + 1) /\ DOMAIN stk = 1..Len(stk)
      /\ Len(stk) \in Nat
      /\ new[Len(stk) + 1] = f
      /\ \A i \in 1..Len(stk) : new[i] = stk[i]
  OBVIOUS
<1> HIDE DEF new
<1>2. ASSUME NEW w \in WorkOf(new) PROVE w \in WorkOf(stk) \cup f.work
  BY <1>1 DEF WorkOf
<1>3. ASSUME NEW w \in WorkOf(stk) \cup f.work PROVE w \in WorkOf(new)
  BY <1>1 DEF WorkOf
<1> QED
  BY <1>2, <1>3 DEF new

------------------------------------------------------------------------------
(* The greatest of a set of positions *)

\* The natural numbers are well-ordered.
LEMMA LeastExists ==
  ASSUME NEW T \in SUBSET Nat, T # {}
  PROVE  \E x \in T : \A y \in T : x <= y
<1> DEFINE R == OpToRel(<, Nat)
<1>1. IsWellFoundedOn(R, Nat)
  BY NatLessThanWellFounded
<1>2. \A x, y \in Nat : y < x => <<y, x>> \in R
  BY DEF OpToRel
<1> HIDE DEF R
<1>3. PICK x \in T : \A y \in T : ~ (<<y, x>> \in R)
  BY <1>1, WFMin
<1>4. ASSUME NEW y \in T PROVE x <= y
  <2>1. x \in Nat /\ y \in Nat
    OBVIOUS
  <2>2. ~ (y < x)
    BY <1>2, <1>3, <2>1, Zenon
  <2> QED
    BY <2>1, <2>2
<1> QED
  BY <1>4

LEMMA GreatestIn ==
  ASSUME NEW n \in Nat, NEW S \in SUBSET (1..n), S # {}
  PROVE  Greatest(S) \in S /\ \A j \in S : j <= Greatest(S)
<1> DEFINE T == {n - i : i \in S}
<1>1. T \in SUBSET Nat /\ T # {}
  <2>1. ASSUME NEW i \in S PROVE n - i \in Nat
    <3>1. i \in 1..n
      OBVIOUS
    <3> QED
      BY <3>1
  <2> QED
    BY <2>1
<1> HIDE DEF T
<1>2. PICK x \in T : \A y \in T : x <= y
  BY <1>1, LeastExists
<1>3. PICK i \in S : x = n - i
  BY DEF T
<1>4. ASSUME NEW j \in S PROVE j <= i
  <2>1. n - j \in T
    BY DEF T
  <2> QED
    BY <1>2, <1>3, <2>1
<1> QED
  BY <1>4 DEF Greatest

\* Of positions in a sequence.
LEMMA LastPosition ==
  ASSUME NEW E, NEW seq \in Seq(E), NEW S \in SUBSET DOMAIN seq, S # {}
  PROVE  /\ Greatest(S) \in 1..Len(seq) /\ Greatest(S) \in S
         /\ seq[Greatest(S)] \in E
<1>1. Len(seq) \in Nat /\ DOMAIN seq = 1..Len(seq)
  OBVIOUS
<1>2. Greatest(S) \in S
  BY <1>1, GreatestIn
<1>3. Greatest(S) \in 1..Len(seq)
  BY <1>1, <1>2
<1> QED
  BY <1>2, <1>3

LEMMA PrefixOf ==
  ASSUME NEW E, NEW seq \in Seq(E), NEW n \in Nat, n <= Len(seq)
  PROVE  SubSeq(seq, 1, n) \in Seq(E)
OBVIOUS

------------------------------------------------------------------------------
(* What a handler answers *)

\* A record of a session, with a transaction only on a live connection and
\* savepoints only in a transaction; the same before a handler runs, and after
\* it, when it may have thrown.
Alive(s) == /\ s \in Session
            /\ s.open => s.dbh = "live"
            /\ ~s.open => s.marks = <<>>
Ready(s) == Alive(s) /\ s.err = "none"
Answer(t) == Alive(t) /\ t.err \in {"none", "error"}

LEMMA AnswerFail ==
  ASSUME NEW s, Alive(s)
  PROVE  Answer(Fail(s)) /\ Fail(s).err = "error"
BY DEF Alive, Answer, Fail, Session

LEMMA AnswerLost ==
  ASSUME NEW s, Alive(s)
  PROVE  Alive(Lost(s)) /\ ~Lost(s).open
<1>1. <<>> \in Seq([name : Nat, work : SUBSET Writes])
  OBVIOUS
<1> QED
  BY <1>1 DEF Alive, Lost, Session

LEMMA AnyStatement ==
  ASSUME NEW s, Ready(s), NEW fault, NEW done, s.dbh = "live" => Answer(done),
         NEW t \in Statement(s, fault, done)
  PROVE  Answer(t) /\ (t.err = "none" => t = done /\ s.dbh = "live")
<1>1. Answer(Fail(s)) /\ Fail(s).err = "error"
  BY AnswerFail DEF Ready
<1>2. Answer(Fail(Lost(s))) /\ Fail(Lost(s)).err = "error"
  BY AnswerFail, AnswerLost DEF Ready
<1>3. (t = done /\ s.dbh = "live") \/ t = Fail(s) \/ t = Fail(Lost(s))
  BY DEF Statement
<1> QED
  BY <1>1, <1>2, <1>3

LEMMA AnyPopulate ==
  ASSUME NEW s, Ready(s), s.dbh # "live", NEW t \in populate_dbh(s)
  PROVE  Answer(t) /\ ~t.open
<1>1. t = [s EXCEPT !.dbh = "live", !.depth = 0] \/ t = Fail([s EXCEPT !.dbh = "none"])
  BY DEF populate_dbh
<1>2. s \in Session /\ ~s.open /\ s.err = "none" /\ s.marks = <<>>
  BY DEF Ready, Alive
<1>3. CASE t = [s EXCEPT !.dbh = "live", !.depth = 0]
  BY <1>2, <1>3 DEF Answer, Alive, Session
<1>4. CASE t = Fail([s EXCEPT !.dbh = "none"])
  BY <1>2, <1>4 DEF Answer, Alive, Session, Fail
<1> QED
  BY <1>1, <1>3, <1>4

LEMMA AnyGetDbh ==
  ASSUME NEW s, Ready(s), NEW t \in get_dbh(s)
  PROVE  Answer(t)
<1>1. CASE s.dbh = "none"
  BY <1>1, AnyPopulate DEF get_dbh
<1>2. CASE s.dbh # "none"
  BY <1>2 DEF get_dbh, Ready, Answer
<1> QED
  BY <1>1, <1>2

LEMMA AnswerReady ==
  ASSUME NEW t, Answer(t)
  PROVE  /\ t.err = "none" => Ready(t)
         /\ Ready(Caught(t)) /\ Caught(t).dbh = t.dbh /\ Caught(t).open = t.open
BY DEF Answer, Ready, Alive, Caught, Session

LEMMA AnyCode ==
  ASSUME NEW s, Ready(s), NEW w \in Writes \cup {BeginWork}, NEW t \in Code(s, w)
  PROVE  Answer(t)
<1>1. ASSUME s.dbh = "live"
      PROVE  /\ Answer([s EXCEPT !.open = TRUE])
             /\ w \in Writes => /\ Answer([s EXCEPT !.work = @ \cup {w}])
                                /\ Answer([s EXCEPT !.committed = @ \cup {w}])
  BY <1>1 DEF Ready, Answer, Alive, Session
<1>2. CASE w = BeginWork
  <2>1. CASE s.open
    BY <1>2, <2>1, AnswerFail DEF Code, BEGIN, Ready
  <2>2. CASE ~s.open
    <3>1. t \in Statement(s, "sqlError", [s EXCEPT !.open = TRUE])
      BY <1>2, <2>2 DEF Code, BEGIN
    <3> QED
      BY <1>1, <3>1, AnyStatement
  <2> QED
    BY <2>1, <2>2
<1>3. CASE w # BeginWork
  <2> DEFINE done == IF s.open THEN [s EXCEPT !.work = @ \cup {w}]
                               ELSE [s EXCEPT !.committed = @ \cup {w}]
  <2>1. s.dbh = "live" => Answer(done)
    BY <1>1, <1>3
  <2>2. t \in Statement(s, "sqlError", done)
    BY <1>3 DEF Code, WRITE
  <2> HIDE DEF done
  <2> QED
    BY <2>1, <2>2, AnyStatement
<1> QED
  BY <1>2, <1>3

LEMMA AnyDbhDo ==
  ASSUME NEW s, Ready(s), NEW in_do \in BOOLEAN,
         NEW w \in Writes \cup {BeginWork}, NEW t \in dbh_do(s, in_do, w)
  PROVE  Answer(t)
<1>1. PICK c \in get_dbh(s) : t \in (IF c.err = "none"
          THEN IF in_do \/ c.depth > 0 THEN Code(c, w)
               ELSE UNION {IF u.err = "none" \/ connected(u) THEN {u}
                           ELSE Then(populate_dbh(Caught(u)), LAMBDA r : Code(r, w))
                             : u \in Code(c, w)}
          ELSE {c})
  BY DEF dbh_do, Then
<1>2. Answer(c)
  BY AnyGetDbh
<1>3. CASE c.err # "none"
  BY <1>1, <1>2, <1>3
<1>4. CASE c.err = "none"
  <2>1. Ready(c)
    BY <1>2, <1>4, AnswerReady
  <2>2. CASE t \in Code(c, w)
    BY <2>1, <2>2, AnyCode
  <2>3. CASE t \notin Code(c, w)
    <3>1. PICK u \in Code(c, w) : t \in (IF u.err = "none" \/ connected(u) THEN {u}
                           ELSE Then(populate_dbh(Caught(u)), LAMBDA r : Code(r, w)))
      BY <1>1, <1>4, <2>3
    <3>2. t \in Then(populate_dbh(Caught(u)), LAMBDA r : Code(r, w)) /\ ~connected(u)
      BY <2>3, <3>1
    <3>3. Ready(Caught(u)) /\ Caught(u).dbh # "live"
      BY <2>1, <3>2, AnyCode, AnswerReady DEF connected
    <3>4. PICK v \in populate_dbh(Caught(u)) : t \in (IF v.err = "none" THEN Code(v, w) ELSE {v})
      BY <3>2 DEF Then
    <3>5. Answer(v)
      BY <3>3, AnyPopulate
    <3>6. v.err = "none" => Ready(v)
      BY <3>5, AnswerReady
    <3> QED
      BY <3>4, <3>5, <3>6, AnyCode
  <2> QED
    BY <2>2, <2>3
<1> QED
  BY <1>3, <1>4

------------------------------------------------------------------------------
(* Savepoints *)

Name == {Default, Named}

LEMMA AnySavepoint ==
  ASSUME NEW s, Ready(s), NEW n \in Nat, NEW t \in SAVEPOINT(s, n)
  PROVE  Answer(t)
<1> DEFINE x == [name |-> n, work |-> s.work]
           marks == Append(s.marks, x)
<1>1. s \in Session /\ s.marks \in Seq([name : Nat, work : SUBSET Writes])
  BY DEF Ready, Alive, Session
<1>2. x \in [name : Nat, work : SUBSET Writes]
  BY <1>1 DEF Session
<1> HIDE DEF x
<1>3. marks \in Seq([name : Nat, work : SUBSET Writes])
  BY <1>1, <1>2
<1>4. [s EXCEPT !.marks = Append(@, x)] = [s EXCEPT !.marks = marks]
  BY <1>1 DEF Session
<1> HIDE DEF marks
<1>5. (s.open => Answer([s EXCEPT !.marks = marks])) /\ Answer(s)
  BY <1>1, <1>3 DEF Ready, Answer, Alive, Session
<1>6. t \in Statement(s, "savepointError", IF s.open THEN [s EXCEPT !.marks = marks] ELSE s)
  BY <1>4 DEF SAVEPOINT, x
<1>7. Answer(IF s.open THEN [s EXCEPT !.marks = marks] ELSE s)
  BY <1>5
<1> QED
  BY <1>6, <1>7, AnyStatement

\* What releasing and rolling back to a savepoint leave of the server's.
LEMMA AnyCutMarks ==
  ASSUME NEW s, Ready(s), NEW S \in SUBSET DOMAIN s.marks, S # {}
  PROVE  /\ Answer([s EXCEPT !.marks = SubSeq(@, 1, Greatest(S) - 1)])
         /\ Answer([s EXCEPT !.marks = SubSeq(@, 1, Greatest(S)),
                             !.work = s.marks[Greatest(S)].work])
<1> DEFINE E == [name : Nat, work : SUBSET Writes]
           g == Greatest(S)
<1>1. s \in Session /\ s.marks \in Seq(E)
  BY DEF Ready, Alive, Session
<1>2. g \in 1..Len(s.marks) /\ s.marks[g] \in E
  BY <1>1, LastPosition
<1>3. SubSeq(s.marks, 1, g) \in Seq(E) /\ SubSeq(s.marks, 1, g - 1) \in Seq(E)
  <2>1. Len(s.marks) \in Nat /\ g \in Nat /\ g - 1 \in Nat /\ g <= Len(s.marks) /\ g - 1 <= Len(s.marks)
    BY <1>1, <1>2
  <2> QED
    BY <1>1, <2>1, PrefixOf
<1>4. s.marks[g].work \in SUBSET Writes
  BY <1>2
<1> HIDE DEF g
<1>0. s.open
  BY <1>1 DEF Ready, Alive
<1>5. ASSUME NEW m \in Seq(E), NEW w \in SUBSET Writes
      PROVE  /\ Answer([s EXCEPT !.marks = m])
             /\ Answer([s EXCEPT !.marks = m, !.work = w])
  BY <1>0, <1>1 DEF Ready, Answer, Alive, Session
<1>6. Answer([s EXCEPT !.marks = SubSeq(s.marks, 1, g - 1)])
  BY <1>3, <1>5
<1>7. Answer([s EXCEPT !.marks = SubSeq(s.marks, 1, g), !.work = s.marks[g].work])
  BY <1>3, <1>4, <1>5
<1> QED
  BY <1>6, <1>7 DEF g

LEMMA AnyRelease ==
  ASSUME NEW s, Ready(s), NEW n, NEW t \in RELEASE_SAVEPOINT(s, n)
  PROVE  Answer(t) /\ (t.err = "none" => s.open /\ t.depth = s.depth)
<1> DEFINE at == {i \in DOMAIN s.marks : s.marks[i].name = n}
           done == [s EXCEPT !.marks = SubSeq(@, 1, Greatest(at) - 1)]
<1>1. t \in (IF at = {} THEN {Fail(s)} ELSE Statement(s, "savepointError", done))
  BY DEF RELEASE_SAVEPOINT, ToSavepoint, Positions
<1>2. at \in SUBSET DOMAIN s.marks
  OBVIOUS
<1> HIDE DEF at
<1>3. CASE at = {}
  BY <1>1, <1>3, AnswerFail DEF Ready
<1>4. CASE at # {}
  <2>1. Answer(done) /\ done.depth = s.depth /\ s.open
    <3>1. s.open
      BY <1>2, <1>4 DEF Ready, Alive
    <3> QED
      BY <1>2, <1>4, <3>1, AnyCutMarks DEF Ready, Alive, Session
  <2>2. t \in Statement(s, "savepointError", done)
    BY <1>1, <1>4
  <2> HIDE DEF done
  <2> QED
    BY <2>1, <2>2, AnyStatement
<1> QED
  BY <1>3, <1>4

LEMMA AnyRollbackTo ==
  ASSUME NEW s, Ready(s), NEW n, NEW t \in ROLLBACK_TO_SAVEPOINT(s, n)
  PROVE  Answer(t) /\ (t.err = "none" => s.open /\ t.depth = s.depth)
<1> DEFINE at == {i \in DOMAIN s.marks : s.marks[i].name = n}
           done == [s EXCEPT !.marks = SubSeq(@, 1, Greatest(at)),
                             !.work = s.marks[Greatest(at)].work]
<1>1. t \in (IF at = {} THEN {Fail(s)} ELSE Statement(s, "savepointError", done))
  BY DEF ROLLBACK_TO_SAVEPOINT, ToSavepoint, Positions
<1>2. at \in SUBSET DOMAIN s.marks
  OBVIOUS
<1> HIDE DEF at
<1>3. CASE at = {}
  BY <1>1, <1>3, AnswerFail DEF Ready
<1>4. CASE at # {}
  <2>1. Answer(done) /\ done.depth = s.depth /\ s.open
    <3>1. s.open
      BY <1>2, <1>4 DEF Ready, Alive
    <3> QED
      BY <1>2, <1>4, <3>1, AnyCutMarks DEF Ready, Alive, Session
  <2>2. t \in Statement(s, "savepointError", done)
    BY <1>1, <1>4
  <2> HIDE DEF done
  <2> QED
    BY <2>1, <2>2, AnyStatement
<1> QED
  BY <1>3, <1>4

\* The storage's own stack of names, changed before the statement is sent.
LEMMA ReadyNames ==
  ASSUME NEW s, Ready(s), NEW names \in Seq(Nat)
  PROVE  Ready([s EXCEPT !.svps = names])
BY DEF Ready, Alive, Session

LEMMA AnySvpBegin ==
  ASSUME NEW s, Ready(s), NEW name \in Name, NEW t \in svp_begin(s, name)
  PROVE  Answer(t)
<1> DEFINE n == IF name = Default THEN Len(s.svps) ELSE name
           names == Append(s.svps, n)
           b == [s EXCEPT !.svps = Append(@, n)]
<1>1. s \in Session /\ s.svps \in Seq(Nat)
  BY DEF Ready, Alive, Session
<1>2. n \in Nat
  BY <1>1, StorageAssumption DEF Name, Default, Named
<1>3. t \in (IF s.depth = 0 THEN {Fail(s)}
             ELSE Then(get_dbh(b), LAMBDA u : SAVEPOINT(u, n)))
  BY DEF svp_begin, svp_generate_name
<1> HIDE DEF n
<1>4. names \in Seq(Nat) /\ b = [s EXCEPT !.svps = names]
  BY <1>1, <1>2 DEF Session
<1>5. Ready(b)
  BY <1>4, ReadyNames
<1> HIDE DEF b
<1>6. CASE s.depth = 0
  BY <1>3, <1>6, AnswerFail DEF Ready
<1>7. CASE s.depth # 0
  <2>1. PICK u \in get_dbh(b) : t \in (IF u.err = "none" THEN SAVEPOINT(u, n) ELSE {u})
    BY <1>3, <1>7 DEF Then
  <2>2. Answer(u)
    BY <1>5, AnyGetDbh
  <2>3. u.err = "none" => Ready(u)
    BY <2>2, AnswerReady
  <2> QED
    BY <1>2, <2>1, <2>2, <2>3, AnySavepoint
<1> QED
  BY <1>6, <1>7

\* A savepoint that is found is one of the storage's names.
LEMMA PositionFound ==
  ASSUME NEW s, Ready(s), NEW name, svp_position(s, name) # 0
  PROVE  /\ svp_position(s, name) \in 1..Len(s.svps)
         /\ s.svps[svp_position(s, name)] \in Nat
         /\ SubSeq(s.svps, 1, svp_position(s, name)) \in Seq(Nat)
         /\ SubSeq(s.svps, 1, svp_position(s, name) - 1) \in Seq(Nat)
<1> DEFINE at == IF name = Default THEN DOMAIN s.svps ELSE {i \in DOMAIN s.svps : s.svps[i] = name}
           g == Greatest(at)
<1>1. s.svps \in Seq(Nat)
  BY DEF Ready, Alive, Session
<1>2. at \in SUBSET DOMAIN s.svps
  OBVIOUS
<1>3. svp_position(s, name) = IF at = {} THEN 0 ELSE g
  BY DEF svp_position, Positions
<1> HIDE DEF at
<1>4. at # {} /\ svp_position(s, name) = g
  BY <1>3
<1>5. g \in 1..Len(s.svps) /\ s.svps[g] \in Nat
  BY <1>1, <1>2, <1>4, LastPosition
<1> HIDE DEF g
<1>6. Len(s.svps) \in Nat /\ g \in Nat /\ g - 1 \in Nat /\ g <= Len(s.svps) /\ g - 1 <= Len(s.svps)
  BY <1>1, <1>5
<1> QED
  BY <1>1, <1>4, <1>5, <1>6, PrefixOf

LEMMA AnySvpRelease ==
  ASSUME NEW s, Ready(s), NEW name, NEW t \in svp_release(s, name)
  PROVE  Answer(t) /\ (t.err = "none" => t.depth = s.depth)
<1> DEFINE i == svp_position(s, name)
           names == SubSeq(s.svps, 1, i - 1)
           b == [s EXCEPT !.svps = SubSeq(@, 1, i - 1)]
<1>1. t \in (IF s.depth = 0 \/ i = 0 THEN {Fail(s)}
             ELSE Then(get_dbh(b), LAMBDA u : RELEASE_SAVEPOINT(u, s.svps[i])))
  BY DEF svp_release
<1>2. i # 0 => names \in Seq(Nat) /\ b = [s EXCEPT !.svps = names] /\ b.depth = s.depth
  BY PositionFound DEF Ready, Alive, Session
<1> HIDE DEF i, names, b
<1>3. CASE s.depth = 0 \/ i = 0
  BY <1>1, <1>3, AnswerFail DEF Ready
<1>4. CASE ~(s.depth = 0 \/ i = 0)
  <2>1. Ready(b)
    BY <1>2, <1>4, ReadyNames
  <2>2. PICK u \in get_dbh(b) : t \in (IF u.err = "none" THEN RELEASE_SAVEPOINT(u, s.svps[i]) ELSE {u})
    BY <1>1, <1>4 DEF Then
  <2>3. Answer(u) /\ (u.open => u.depth = s.depth)
    <3>1. CASE b.dbh = "none"
      BY <2>1, <2>2, <3>1, AnyPopulate DEF get_dbh
    <3>2. CASE b.dbh # "none"
      BY <1>2, <1>4, <2>1, <2>2, <3>2 DEF get_dbh, Ready, Answer
    <3> QED
      BY <3>1, <3>2
  <2>4. u.err = "none" => Ready(u)
    BY <2>3, AnswerReady
  <2> QED
    BY <2>2, <2>3, <2>4, AnyRelease
<1> QED
  BY <1>3, <1>4

LEMMA AnySvpRollback ==
  ASSUME NEW s, Ready(s), NEW name, NEW t \in svp_rollback(s, name)
  PROVE  Answer(t) /\ (t.err = "none" => t.depth = s.depth)
<1> DEFINE i == svp_position(s, name)
           names == SubSeq(s.svps, 1, i)
           b == [s EXCEPT !.svps = SubSeq(@, 1, i)]
<1>1. t \in (IF s.depth = 0 \/ i = 0 THEN {Fail(s)}
             ELSE Then(get_dbh(b), LAMBDA u : ROLLBACK_TO_SAVEPOINT(u, s.svps[i])))
  BY DEF svp_rollback
<1>2. i # 0 => names \in Seq(Nat) /\ b = [s EXCEPT !.svps = names] /\ b.depth = s.depth
  BY PositionFound DEF Ready, Alive, Session
<1> HIDE DEF i, names, b
<1>3. CASE s.depth = 0 \/ i = 0
  BY <1>1, <1>3, AnswerFail DEF Ready
<1>4. CASE ~(s.depth = 0 \/ i = 0)
  <2>1. Ready(b)
    BY <1>2, <1>4, ReadyNames
  <2>2. PICK u \in get_dbh(b) : t \in (IF u.err = "none" THEN ROLLBACK_TO_SAVEPOINT(u, s.svps[i]) ELSE {u})
    BY <1>1, <1>4 DEF Then
  <2>3. Answer(u) /\ (u.open => u.depth = s.depth)
    <3>1. CASE b.dbh = "none"
      BY <2>1, <2>2, <3>1, AnyPopulate DEF get_dbh
    <3>2. CASE b.dbh # "none"
      BY <1>2, <1>4, <2>1, <2>2, <3>2 DEF get_dbh, Ready, Answer
    <3> QED
      BY <3>1, <3>2
  <2>4. u.err = "none" => Ready(u)
    BY <2>3, AnswerReady
  <2> QED
    BY <2>2, <2>3, <2>4, AnyRollbackTo
<1> QED
  BY <1>3, <1>4

------------------------------------------------------------------------------
(* Transactions *)

LEMMA AnyTxnBegin ==
  ASSUME NEW s, Ready(s), NEW in_do \in BOOLEAN, NEW t \in txn_begin(s, in_do)
  PROVE  Answer(t)
<1> DEFINE S == CASE s.depth = 0                  -> dbh_begin_work(s, in_do)
                  [] s.depth > 0 /\ AutoSavepoint -> svp_begin(s, Default)
                  [] OTHER                        -> {s}
<1>1. PICK u \in S : t = IF u.err = "none" THEN [u EXCEPT !.depth = @ + 1] ELSE u
  BY DEF txn_begin, Then
<1>2. Answer(u)
  <2>1. s.depth \in Nat /\ AutoSavepoint \in BOOLEAN
    BY StorageAssumption DEF Ready, Alive, Session
  <2>2. CASE s.depth = 0
    <3>1. u \in dbh_begin_work(s, in_do)
      BY <2>2
    <3>2. CASE in_do
      <4>1. u \in Code(s, BeginWork)
        BY <3>1, <3>2 DEF dbh_begin_work, Code
      <4> QED
        BY <4>1, AnyCode
    <3>3. CASE ~in_do
      <4>1. u \in dbh_do(s, in_do, BeginWork)
        BY <3>1, <3>3 DEF dbh_begin_work
      <4> QED
        BY <4>1, AnyDbhDo
    <3> QED
      BY <3>2, <3>3
  <2>3. CASE s.depth > 0 /\ AutoSavepoint
    <3>1. u \in svp_begin(s, Default)
      BY <2>1, <2>3
    <3> QED
      BY <3>1, AnySvpBegin DEF Name
  <2>4. CASE s.depth > 0 /\ ~AutoSavepoint
    <3>1. u = s
      BY <2>1, <2>4
    <3> QED
      BY <3>1 DEF Ready, Answer
  <2> QED
    BY <2>1, <2>2, <2>3, <2>4
<1>3. CASE u.err = "none"
  <2>1. u.depth + 1 \in Nat /\ t = [u EXCEPT !.depth = u.depth + 1]
    BY <1>1, <1>2, <1>3 DEF Answer, Alive, Session
  <2> QED
    BY <1>2, <2>1 DEF Answer, Alive, Session
<1> QED
  BY <1>1, <1>2, <1>3

LEMMA AnyAttempt ==
  ASSUME NEW s, Ready(s), NEW t \in txn_do_attempt(s)
  PROVE  Answer(t)
<1>1. PICK u \in get_dbh(s) : t \in (IF u.err = "none" THEN txn_begin(u, TRUE) ELSE {u})
  BY DEF txn_do_attempt, Then
<1>2. Answer(u)
  BY AnyGetDbh
<1>3. u.err = "none" => Ready(u)
  BY <1>2, AnswerReady
<1> QED
  BY <1>1, <1>2, <1>3, AnyTxnBegin

LEMMA ClosedAlive ==
  ASSUME NEW s, Alive(s)
  PROVE  /\ Closed(s) \in Session /\ ~Closed(s).open /\ Closed(s).err = s.err
         /\ Alive(Closed(s))
         /\ Alive([Closed(s) EXCEPT !.committed = @ \cup s.work])
         /\ ~[Closed(s) EXCEPT !.committed = @ \cup s.work].open
         /\ [Closed(s) EXCEPT !.committed = @ \cup s.work].err = s.err
<1>1. <<>> \in Seq([name : Nat, work : SUBSET Writes])
  OBVIOUS
<1> QED
  BY <1>1 DEF Alive, Closed, Session

\* COMMIT and ROLLBACK: unless they threw, no transaction is open.
LEMMA AnyCommit ==
  ASSUME NEW s, Ready(s), NEW t \in dbh_commit(s)
  PROVE  Answer(t) /\ (t.err = "none" => ~t.open)
<1> DEFINE done == [Closed(s) EXCEPT !.committed = @ \cup s.work]
<1>1. Answer(done) /\ ~done.open
  BY ClosedAlive DEF Ready, Answer
<1>2. CASE t = s /\ ~s.open
  BY <1>2 DEF Ready, Answer
<1>3. CASE t \in Statement(s, "commitError", done)
  <2> HIDE DEF done
  <2> QED
    BY <1>1, <1>3, AnyStatement
<1>4. CASE t = Fail(Lost(done))
  <2> HIDE DEF done
  <2> QED
    BY <1>1, <1>4, AnswerLost, AnswerFail DEF Answer
<1> QED
  BY <1>2, <1>3, <1>4 DEF dbh_commit, COMMIT

LEMMA AnyRollback ==
  ASSUME NEW s, Ready(s), NEW t \in dbh_rollback(s)
  PROVE  Answer(t) /\ (t.err = "none" => ~t.open)
<1>1. Answer(Closed(s)) /\ ~Closed(s).open
  BY ClosedAlive DEF Ready, Answer
<1>2. CASE t = s /\ ~s.open
  BY <1>2 DEF Ready, Answer
<1>3. CASE t \in Statement(s, "rollbackError", Closed(s))
  BY <1>1, <1>3, AnyStatement
<1> QED
  BY <1>2, <1>3 DEF dbh_rollback, ROLLBACK

\* Changing the depth changes nothing else.
LEMMA AnyDepth ==
  ASSUME NEW s, Alive(s), NEW d \in Nat
  PROVE  /\ Alive([s EXCEPT !.depth = d]) /\ [s EXCEPT !.depth = d].err = s.err
         /\ [s EXCEPT !.depth = d].open = s.open
BY DEF Alive, Session

LEMMA InnerReady ==
  ASSUME NEW s, Ready(s), s.depth # 0
  PROVE  Ready(Inner(s)) /\ (s.depth # 1 => Inner(s).depth # 0)
<1>1. /\ s.depth \in Nat /\ s.depth - 1 \in Nat /\ Inner(s) = [s EXCEPT !.depth = s.depth - 1]
      /\ Inner(s).depth = s.depth - 1
  BY DEF Inner, Ready, Alive, Session
<1> QED
  BY <1>1, AnyDepth DEF Ready

LEMMA AnyTxnCommit ==
  ASSUME NEW s, Ready(s), NEW t \in txn_commit(s)
  PROVE  /\ Answer(t)
         /\ s.depth = 1 /\ t.err = "none" => ~t.open
         /\ s.depth > 1 /\ t.err = "none" => t.depth # 0
<1>0. s.depth \in Nat /\ AutoSavepoint \in BOOLEAN
  BY StorageAssumption DEF Ready, Alive, Session
<1>1. CASE s.depth = 0
  <2>1. t = s
    BY <1>1 DEF txn_commit, Then
  <2>2. Answer(t)
    BY <2>1 DEF Ready, Answer
  <2> QED
    BY <1>1, <2>2
<1>2. CASE s.depth = 1
  <2>1. PICK u \in dbh_commit(s) : t = IF u.err = "none" THEN [u EXCEPT !.depth = 0] ELSE u
    BY <1>2 DEF txn_commit, Then
  <2>2. Answer(u) /\ (u.err = "none" => ~u.open)
    BY AnyCommit
  <2>3. CASE u.err = "none"
    BY <1>2, <2>1, <2>2, <2>3, AnyDepth DEF Answer
  <2>4. CASE u.err # "none"
    BY <1>2, <2>1, <2>2, <2>4
  <2> QED
    BY <2>3, <2>4
<1>3. CASE s.depth # 0 /\ s.depth # 1
  <2>1. Ready(Inner(s)) /\ Inner(s).depth # 0
    BY <1>0, <1>3, InnerReady
  <2>2. t \in IF AutoSavepoint THEN svp_release(Inner(s), Default) ELSE {Inner(s)}
    BY <1>0, <1>3 DEF txn_commit
  <2>3. Answer(t) /\ (t.err = "none" => t.depth # 0)
    BY <2>1, <2>2, AnySvpRelease DEF Ready, Answer
  <2> QED
    BY <1>3, <2>3
<1> QED
  BY <1>1, <1>2, <1>3

LEMMA AnyTxnRollback ==
  ASSUME NEW s, Ready(s), NEW t \in txn_rollback(s)
  PROVE  /\ Alive(t) /\ Ready(Caught(t)) /\ Caught(t).open = t.open
         /\ t.err \in {"none", "error", "nested"}
         /\ s.depth = 1 /\ t.open => t.err = "error"
         /\ s.depth > 1 /\ t.depth = 0 => t.err = "error"
<1>0. s.depth \in Nat /\ AutoSavepoint \in BOOLEAN
  BY StorageAssumption DEF Ready, Alive, Session
<1>1. PICK u \in CASE s.depth = 0 -> {[s EXCEPT !.err = "nested"]}
                   [] s.depth = 1 -> rollback_outermost(s)
                   [] OTHER -> rollback_inner(Inner(s)) :
        t = IF u.err = "error" THEN [u EXCEPT !.depth = 0] ELSE u
  BY DEF txn_rollback, RolledBack
<1>2. /\ Alive(u) /\ u.err \in {"none", "error", "nested"}
      /\ s.depth = 1 /\ u.open => u.err = "error"
      /\ s.depth > 1 /\ u.depth = 0 => u.err = "error"
  <2>1. CASE s.depth = 0
    <3>1. u = [s EXCEPT !.err = "nested"]
      BY <1>1, <2>1
    <3>2. Alive(u) /\ u.err = "nested"
      BY <3>1 DEF Ready, Alive, Session
    <3> QED
      BY <2>1, <3>2
  <2>2. CASE s.depth = 1
    <3>1. u \in dbh_rollback([s EXCEPT !.depth = 0])
      BY <1>1, <2>2 DEF rollback_outermost
    <3>2. Ready([s EXCEPT !.depth = 0])
      BY AnyDepth DEF Ready
    <3>3. Answer(u) /\ (u.err = "none" => ~u.open)
      BY <3>1, <3>2, AnyRollback
    <3> QED
      BY <2>2, <3>3 DEF Answer
  <2>3. CASE s.depth # 0 /\ s.depth # 1
    <3>1. Ready(Inner(s)) /\ Inner(s).depth # 0
      BY <2>3, InnerReady
    <3>2. u \in rollback_inner(Inner(s))
      BY <1>0, <1>1, <2>3
    <3>3. Answer(u) /\ (u.err = "none" => u.depth # 0)
      <4>1. CASE ~AutoSavepoint
        BY <3>1, <3>2, <4>1 DEF rollback_inner, Ready, Answer
      <4>2. CASE AutoSavepoint
        <5>1. PICK v \in svp_rollback(Inner(s), Default) :
                u \in IF v.err = "none" THEN svp_release(v, Default) ELSE {v}
          BY <3>2, <4>2 DEF rollback_inner, Then
        <5>2. Answer(v) /\ (v.err = "none" => v.depth # 0)
          BY <3>1, AnySvpRollback
        <5>3. v.err = "none" => Ready(v)
          BY <5>2, AnswerReady
        <5> QED
          BY <5>1, <5>2, <5>3, AnySvpRelease
      <4> QED
        BY <1>0, <4>1, <4>2
    <3> QED
      BY <2>3, <3>3 DEF Answer
  <2> QED
    BY <2>1, <2>2, <2>3
<1>3. /\ Alive(t) /\ t.err = u.err /\ t.open = u.open
      /\ u.err # "error" => t.depth = u.depth
  BY <1>1, <1>2, AnyDepth
<1>4. Ready(Caught(t)) /\ Caught(t).open = t.open
  BY <1>3 DEF Ready, Alive, Caught, Session
<1> QED
  BY <1>2, <1>3, <1>4

------------------------------------------------------------------------------
(* The steps *)

\* Between two handlers: types, and a transaction on a live connection only.
StorageInv == TypeOK /\ Alive(st)

\* What RollbackFailureTold says of one step.
Told == (/\ stack # <<>> /\ Top.kind = "txn_do" /\ Len(stack') < Len(stack)
         /\ \/ st.depth = 1 /\ st'.open
            \/ st.depth > 1 /\ st'.depth = 0) => exc' = "rollbackFailed"

Stk(stk) == stk \in Seq(Frame) /\ Len(stk) <= MaxFrames

LEMMA InvReady ==
  ASSUME StorageInv
  PROVE  /\ Ready(st) /\ Stk(stack) /\ Len(stack) \in Nat /\ in_dbh_do \in BOOLEAN
         /\ nextw \in Nat /\ MaxWrites \in Nat /\ MaxFrames \in Nat
         /\ claims \subseteq Writes /\ aborted \subseteq Writes /\ undone \subseteq Writes
         /\ points \in Seq(Point)
BY StorageAssumption DEF StorageInv, TypeOK, Ready, Stk, in_dbh_do

LEMMA AnyPushed ==
  ASSUME StorageInv, MayNest, NEW kind \in {"txn_do", "bypass", "guard", "eval"}, Push(kind)
  PROVE  Stk(stack') /\ ~(Len(stack') < Len(stack))
<1> DEFINE f == NewFrame(kind)
<1>1. f \in Frame
  BY DEF NewFrame, Frame
<1>2. stack' = Append(stack, f)
  BY DEF Push
<1>3. stack \in Seq(Frame) /\ Len(stack) \in Nat /\ Len(stack) < MaxFrames /\ MaxFrames \in Nat
  BY InvReady DEF Stk, MayNest
<1> HIDE DEF f
<1>4. Append(stack, f) \in Seq(Frame) /\ Len(Append(stack, f)) = Len(stack) + 1
  BY <1>1, <1>3
<1> QED
  BY <1>2, <1>3, <1>4 DEF Stk

LEMMA AddWorkTyped ==
  ASSUME NEW stk \in Seq(Frame), stk # <<>>, NEW ws \in SUBSET Writes
  PROVE  AddWork(stk, ws) \in Seq(Frame) /\ Len(AddWork(stk, ws)) = Len(stk)
<1> DEFINE n == Len(stk)
           f == [stk[n] EXCEPT !.work = @ \cup ws]
           new == AddWork(stk, ws)
<1>1. n \in Nat /\ n \in 1..n /\ DOMAIN stk = 1..n /\ \A i \in 1..n : stk[i] \in Frame
  OBVIOUS
<1>2. f \in Frame
  BY <1>1 DEF Frame
<1>3. new = [i \in 1..n |-> IF i = n THEN f ELSE stk[i]]
  BY <1>1 DEF AddWork
<1> HIDE DEF n, f, new
<1>4. new \in [1..n -> Frame]
  BY <1>1, <1>2, <1>3
<1> QED
  BY <1>1, <1>4 DEF n, new

\* Leaving the top block, with or without its writes.
LEMMA LeftTyped ==
  ASSUME StorageInv, stack # <<>>
  PROVE  /\ Top \in Frame /\ Top.work \subseteq Writes
         /\ Stk(Below) /\ Stk(Merged)
<1>1. stack \in Seq(Frame) /\ Len(stack) \in Nat /\ Len(stack) <= MaxFrames /\ MaxFrames \in Nat
  BY InvReady DEF Stk
<1>2. Below \in Seq(Frame) /\ Top \in Frame /\ Len(Below) = Len(stack) - 1
  BY <1>1, Split DEF Below, Top
<1>3. Stk(Below)
  BY <1>1, <1>2 DEF Stk
<1>4. Top.work \subseteq Writes
  BY <1>2 DEF Frame
<1>5. Stk(Merged)
  <2>1. CASE Scopes(Below) = {}
    BY <1>3, <2>1 DEF Merged
  <2>2. CASE Scopes(Below) # {}
    <3>1. Below # <<>>
      BY <2>2 DEF Scopes
    <3>2. AddWork(Below, Top.work) \in Seq(Frame) /\ Len(AddWork(Below, Top.work)) = Len(Below)
      BY <1>2, <1>4, <3>1, AddWorkTyped
    <3> QED
      BY <1>3, <2>2, <3>2 DEF Merged, Stk
  <2> QED
    BY <2>1, <2>2
<1> QED
  BY <1>2, <1>3, <1>4, <1>5

LEMMA StandingTyped ==
  ASSUME StorageInv, Standing
  PROVE  points' \in Seq(Point)
BY InvReady DEF Standing

LEMMA GiveUpTyped ==
  ASSUME StorageInv, stack # <<>>, GiveUp
  PROVE  /\ Stk(stack') /\ claims' = claims /\ points' \in Seq(Point)
         /\ aborted' \subseteq Writes /\ undone' \subseteq Writes
BY LeftTyped, StandingTyped, InvReady DEF GiveUp, Disown

LEMMA SucceedTyped ==
  ASSUME StorageInv, stack # <<>>, Succeed
  PROVE  /\ Stk(stack') /\ claims' \subseteq Writes /\ points' \in Seq(Point)
         /\ aborted' = aborted /\ undone' = undone
BY LeftTyped, StandingTyped, InvReady DEF Succeed

\* Putting a step together.
Books == /\ nextw' \in 1..(MaxWrites + 1) /\ points' \in Seq(Point)
         /\ claims' \subseteq Writes /\ aborted' \subseteq Writes /\ undone' \subseteq Writes

LEMMA KeepInv ==
  ASSUME Ready(st'), Stk(stack'), exc' \in {"none", "error", "rollbackFailed"}, Books
  PROVE  StorageInv'
BY DEF StorageInv, TypeOK, Ready, Alive, Stk, Books

LEMMA SameBooks ==
  ASSUME StorageInv, Bookless, UNCHANGED nextw
  PROVE  Books
BY DEF StorageInv, TypeOK, Bookless, Books

LEMMA SettleReady ==
  ASSUME NEW t, Answer(t), Settle(t)
  PROVE  /\ Ready(st') /\ exc' \in {"none", "error"}
         /\ st'.open = t.open /\ st'.depth = t.depth
<1>1. st' = Caught(t) /\ exc' = t.err
  BY DEF Settle
<1>2. Ready(Caught(t)) /\ Caught(t).open = t.open /\ Caught(t).depth = t.depth
  BY AnswerReady DEF Caught, Answer, Alive, Session
<1> QED
  BY <1>1, <1>2 DEF Answer

LEMMA AnyTxnDo ==
  ASSUME StorageInv, TxnDo
  PROVE  StorageInv' /\ Told
<1>1. Ready(st) /\ MayNest /\ exc = "none" /\ Books
  BY InvReady, SameBooks DEF TxnDo, MayNest, Running
<1>2. CASE st.depth > 0 /\ ~AutoSavepoint
  <2>1. Push("bypass") /\ UNCHANGED <<st, exc>>
    BY <1>2 DEF TxnDo
  <2>2. Stk(stack') /\ ~(Len(stack') < Len(stack))
    BY <1>1, <2>1, AnyPushed
  <2>3. Ready(st')
    BY <1>1, <2>1
  <2> QED
    BY <1>1, <2>1, <2>2, <2>3, KeepInv DEF Told
<1>3. CASE ~(st.depth > 0 /\ ~AutoSavepoint)
  <2>1. Push("txn_do") /\ \E s \in txn_do_attempt(st) : Settle(s)
    BY <1>3 DEF TxnDo
  <2>2. PICK s \in txn_do_attempt(st) : Settle(s)
    BY <2>1
  <2>3. Ready(st') /\ exc' \in {"none", "error"}
    BY <1>1, <2>2, AnyAttempt, SettleReady
  <2>4. Stk(stack') /\ ~(Len(stack') < Len(stack))
    BY <1>1, <2>1, AnyPushed
  <2> QED
    BY <1>1, <2>3, <2>4, KeepInv DEF Told
<1> QED
  BY <1>2, <1>3

LEMMA AnyGuardNew ==
  ASSUME StorageInv, GuardNew
  PROVE  StorageInv' /\ Told
<1>1. Ready(st) /\ MayNest /\ in_dbh_do \in BOOLEAN /\ Books /\ Stk(stack) /\ Len(stack) \in Nat
  BY InvReady, SameBooks DEF GuardNew
<1>2. PICK s \in txn_begin(st, in_dbh_do) :
        Settle(s) /\ IF s.err = "none" THEN Push("guard") ELSE UNCHANGED stack
  BY DEF GuardNew
<1>3. Ready(st') /\ exc' \in {"none", "error"}
  BY <1>1, <1>2, AnyTxnBegin, SettleReady
<1>4. Stk(stack') /\ ~(Len(stack') < Len(stack))
  <2>1. CASE s.err = "none"
    BY <1>1, <1>2, <2>1, AnyPushed
  <2>2. CASE s.err # "none"
    BY <1>1, <1>2, <2>2
  <2> QED
    BY <2>1, <2>2
<1> QED
  BY <1>1, <1>3, <1>4, KeepInv DEF Told

LEMMA AnyEvalBegin ==
  ASSUME StorageInv, EvalBegin
  PROVE  StorageInv' /\ Told
<1>1. Ready(st) /\ MayNest /\ exc = "none" /\ Books /\ Push("eval") /\ st' = st /\ exc' = exc
  BY InvReady, SameBooks DEF EvalBegin, MayNest, Running
<1>2. Stk(stack') /\ ~(Len(stack') < Len(stack))
  BY <1>1, AnyPushed
<1>3. Ready(st')
  BY <1>1
<1> QED
  BY <1>1, <1>2, <1>3, KeepInv DEF Told

LEMMA AnyReturn ==
  ASSUME StorageInv, Return
  PROVE  StorageInv' /\ Told
<1>1. Ready(st) /\ stack # <<>> /\ Stk(stack) /\ Len(stack) \in Nat
  BY InvReady DEF Return
<1>2. PICK s \in IF Top.kind \in {"txn_do", "guard"} THEN txn_commit(st) ELSE {st} :
        Settle(s) /\ IF s.err = "none" THEN Succeed ELSE Bookless /\ UNCHANGED stack
  BY DEF Return
<1>3. /\ Answer(s)
      /\ Top.kind = "txn_do" /\ st.depth = 1 /\ s.err = "none" => ~s.open
      /\ Top.kind = "txn_do" /\ st.depth > 1 /\ s.err = "none" => s.depth # 0
  <2>1. CASE Top.kind \in {"txn_do", "guard"}
    BY <1>1, <1>2, <2>1, AnyTxnCommit
  <2>2. CASE Top.kind \notin {"txn_do", "guard"}
    BY <1>1, <1>2, <2>2 DEF Ready, Answer
  <2> QED
    BY <2>1, <2>2
<1>4. Ready(st') /\ exc' \in {"none", "error"} /\ st'.open = s.open /\ st'.depth = s.depth
  BY <1>2, <1>3, SettleReady
<1>5. CASE s.err = "none"
  <2>1. Stk(stack') /\ Books
    BY <1>1, <1>2, <1>5, SucceedTyped, InvReady DEF Books, StorageInv, TypeOK, Return
  <2>2. Told
    BY <1>3, <1>4, <1>5 DEF Told
  <2> QED
    BY <1>4, <2>1, <2>2, KeepInv
<1>6. CASE s.err # "none"
  <2>1. Bookless /\ stack' = stack
    BY <1>2, <1>6
  <2>2. Stk(stack') /\ Books
    BY <1>1, <2>1, SameBooks DEF Return
  <2>3. Told
    BY <1>1, <2>1 DEF Told
  <2> QED
    BY <1>4, <2>2, <2>3, KeepInv
<1> QED
  BY <1>5, <1>6

LEMMA AnyWrite ==
  ASSUME StorageInv, Write
  PROVE  StorageInv' /\ Told
<1>1. /\ Ready(st) /\ in_dbh_do \in BOOLEAN /\ nextw \in Writes /\ Stk(stack) /\ Len(stack) \in Nat
      /\ claims \subseteq Writes /\ aborted \subseteq Writes /\ undone \subseteq Writes
      /\ nextw \in Nat /\ MaxWrites \in Nat
      /\ aborted' = aborted /\ undone' = undone /\ points' \in Seq(Point)
  BY InvReady DEF Write
<1>2. PICK s \in dbh_do(st, in_dbh_do, nextw) :
       /\ Settle(s)
       /\ IF s.err # "none" THEN UNCHANGED <<stack, nextw, claims>>
          ELSE /\ nextw' = nextw + 1
               /\ IF InScope
                  THEN stack' = AddWork(stack, {nextw}) /\ UNCHANGED claims
                  ELSE claims' = claims \cup {nextw} /\ UNCHANGED stack
  BY DEF Write
<1>3. Answer(s)
  BY <1>1, <1>2, AnyDbhDo
<1>4. Ready(st') /\ exc' \in {"none", "error"}
  BY <1>2, <1>3, SettleReady
<1>5. nextw + 1 \in 1..(MaxWrites + 1) /\ nextw \in 1..(MaxWrites + 1)
  BY <1>1 DEF Writes
<1>6. Stk(stack') /\ Len(stack') = Len(stack) /\ Books
  <2>1. CASE s.err # "none"
    BY <1>1, <1>2, <1>5, <2>1 DEF Books
  <2>2. CASE s.err = "none" /\ InScope
    <3>1. stack # <<>>
      BY <2>2 DEF InScope, Scopes
    <3>2. AddWork(stack, {nextw}) \in Seq(Frame) /\ Len(AddWork(stack, {nextw})) = Len(stack)
      BY <1>1, <3>1, AddWorkTyped DEF Stk
    <3> QED
      BY <1>1, <1>2, <1>5, <2>2, <3>2 DEF Books, Stk
  <2>3. CASE s.err = "none" /\ ~InScope
    BY <1>1, <1>2, <1>5, <2>3 DEF Books
  <2> QED
    BY <2>1, <2>2, <2>3
<1> QED
  BY <1>1, <1>4, <1>6, KeepInv DEF Told

LEMMA AnyThrow ==
  ASSUME StorageInv, Throw
  PROVE  StorageInv' /\ Told
<1>1. Ready(st) /\ Stk(stack) /\ Len(stack) \in Nat /\ st' = st /\ stack' = stack /\ exc' = "error"
  BY InvReady DEF Throw
<1>2. Books
  BY SameBooks DEF Throw, Bookless
<1>3. Ready(st') /\ Stk(stack')
  BY <1>1
<1> QED
  BY <1>1, <1>2, <1>3, KeepInv DEF Told

\* A block is given up after its rollback.
LEMMA GivenUp ==
  ASSUME StorageInv, stack # <<>>, GiveUp, nextw' = nextw
  PROVE  Stk(stack') /\ Books
BY GiveUpTyped, InvReady DEF Books, StorageInv, TypeOK

LEMMA AnyGuardAbandon ==
  ASSUME StorageInv, GuardAbandon
  PROVE  StorageInv' /\ Told
<1>1. Ready(st) /\ stack # <<>> /\ exc' = exc /\ exc = "none" /\ Top.kind = "guard"
  BY InvReady DEF GuardAbandon, Running
<1>2. PICK s \in txn_rollback(st) : st' = Caught(s)
  BY DEF GuardAbandon
<1>3. Ready(st')
  BY <1>1, <1>2, AnyTxnRollback
<1>4. Stk(stack') /\ Books
  BY <1>1, GivenUp DEF GuardAbandon
<1> QED
  BY <1>1, <1>3, <1>4, KeepInv DEF Told

\* txn_do's handler begins its block again: the same blocks, with none of its
\* writes.
LEMMA RestartTyped ==
  ASSUME NEW stk \in Seq(Frame), stk # <<>>,
         NEW new, new = [stk EXCEPT ![Len(stk)] = [@ EXCEPT !.tried = TRUE, !.work = {}]]
  PROVE  new \in Seq(Frame) /\ Len(new) = Len(stk)
<1> DEFINE n == Len(stk)
           f == [stk[n] EXCEPT !.tried = TRUE, !.work = {}]
<1>1. n \in Nat /\ n \in 1..n /\ DOMAIN stk = 1..n /\ \A i \in 1..n : stk[i] \in Frame
  OBVIOUS
<1>2. f \in Frame
  BY <1>1 DEF Frame
<1>3. new = [i \in 1..n |-> IF i = n THEN f ELSE stk[i]]
  BY <1>1
<1> HIDE DEF n, f
<1>4. new \in [1..n -> Frame]
  BY <1>1, <1>2, <1>3
<1> QED
  BY <1>1, <1>4 DEF n

LEMMA AnyUnwindTxnDo ==
  ASSUME StorageInv, ~Running, stack # <<>>, UnwindTxnDo, nextw' = nextw
  PROVE  StorageInv' /\ Told
<1>1. Ready(st) /\ Stk(stack) /\ Len(stack) \in Nat /\ exc \in {"error", "rollbackFailed"}
  BY InvReady DEF StorageInv, TypeOK, Running
<1>2. CASE no_retry(Top, st)
  <2>1. PICK s \in txn_rollback(st) : st' = Caught(s) /\ exc' = Rethrown(s)
    BY <1>2 DEF UnwindTxnDo
  <2>2. /\ Ready(st') /\ st'.open = s.open /\ st'.depth = s.depth
        /\ st.depth = 1 /\ s.open => s.err = "error"
        /\ st.depth > 1 /\ s.depth = 0 => s.err = "error"
    BY <1>1, <2>1, AnyTxnRollback DEF Alive, Session, Caught
  <2>3. exc' \in {"error", "rollbackFailed"} /\ (s.err = "error" => exc' = "rollbackFailed")
    BY <1>1, <2>1 DEF Rethrown
  <2>4. Stk(stack') /\ Books
    BY <1>2, GivenUp DEF UnwindTxnDo
  <2>5. Told
    BY <2>2, <2>3 DEF Told
  <2> QED
    BY <2>2, <2>3, <2>4, <2>5, KeepInv
<1>3. CASE ~no_retry(Top, st)
  <2>1. PICK s \in populate_dbh(st) :
            IF s.err # "none" THEN Settle(s) /\ GiveUp
            ELSE /\ \E t \in txn_do_attempt(s) : Settle(t)
                 /\ stack' = [stack EXCEPT ![Len(stack)] =
                                [@ EXCEPT !.tried = TRUE, !.work = {}]]
                 /\ points' = <<>>
                 /\ Disown(Top.work, Scopes(Below) = {})
    BY <1>3 DEF UnwindTxnDo
  <2>2. st.dbh # "live"
    BY <1>3 DEF no_retry, connected
  <2>3. Answer(s) /\ ~s.open /\ (s.err # "none" => s.depth = st.depth)
    <3>1. s.err # "none" => s = Fail([st EXCEPT !.dbh = "none"])
      BY <1>1, <2>1 DEF populate_dbh, Ready, Alive, Session
    <3> QED
      BY <1>1, <2>1, <2>2, <3>1, AnyPopulate DEF Fail, Ready, Alive, Session
  <2>4. CASE s.err # "none"
    <3>1. Settle(s) /\ GiveUp
      BY <2>1, <2>4
    <3>2. Ready(st') /\ exc' \in {"none", "error"} /\ ~st'.open /\ st'.depth = st.depth
      BY <2>3, <2>4, <3>1, SettleReady
    <3>3. Stk(stack') /\ Books
      BY <3>1, GivenUp
    <3>4. Told
      BY <3>2 DEF Told
    <3> QED
      BY <3>2, <3>3, <3>4, KeepInv
  <2>5. CASE s.err = "none"
    <3>1. PICK t \in txn_do_attempt(s) : Settle(t)
      BY <2>1, <2>5
    <3>2. Ready(s)
      BY <2>3, <2>5, AnswerReady
    <3>3. Ready(st') /\ exc' \in {"none", "error"}
      BY <3>1, <3>2, AnyAttempt, SettleReady
    <3>4. Stk(stack') /\ Len(stack') = Len(stack)
      <4>1. stack' = [stack EXCEPT ![Len(stack)] = [@ EXCEPT !.tried = TRUE, !.work = {}]]
        BY <2>1, <2>5
      <4>2. stack' \in Seq(Frame) /\ Len(stack') = Len(stack)
        BY <1>1, <4>1, RestartTyped DEF Stk
      <4> QED
        BY <1>1, <4>2 DEF Stk
    <3>5. Books
      <4>1. Disown(Top.work, Scopes(Below) = {}) /\ points' \in Seq(Point)
        BY <2>1, <2>5
      <4> QED
        BY <4>1, LeftTyped, InvReady DEF Disown, Books, StorageInv, TypeOK
    <3> QED
      BY <1>1, <3>3, <3>4, <3>5, KeepInv DEF Told
  <2> QED
    BY <2>4, <2>5
<1> QED
  BY <1>2, <1>3

LEMMA AnyUnwind ==
  ASSUME StorageInv, Unwind
  PROVE  StorageInv' /\ Told
<1>1. /\ Ready(st) /\ Stk(stack) /\ nextw' = nextw /\ ~Running
      /\ exc \in {"none", "error", "rollbackFailed"}
  BY InvReady DEF Unwind, StorageInv, TypeOK
<1>2. CASE stack = <<>>
  <2>1. exc' = "none" /\ Bookless /\ st' = st /\ stack' = stack
    BY <1>2 DEF Unwind
  <2>2. Ready(st') /\ Stk(stack') /\ Books
    BY <1>1, <2>1, SameBooks
  <2> QED
    BY <1>2, <2>1, <2>2, KeepInv DEF Told
<1>3. CASE stack # <<>> /\ UnwindTxnDo
  BY <1>1, <1>3, AnyUnwindTxnDo
<1>4. CASE stack # <<>> /\ UnwindGuard
  <2>1. PICK s \in txn_rollback(st) :
          st' = Caught(s) /\ exc' = IF s.err = "error" THEN "rollbackFailed" ELSE exc
    BY <1>4 DEF UnwindGuard
  <2>2. Ready(st')
    BY <1>1, <2>1, AnyTxnRollback
  <2>3. Stk(stack') /\ Books /\ Top.kind = "guard"
    BY <1>1, <1>4, GivenUp DEF UnwindGuard
  <2> QED
    BY <1>1, <2>1, <2>2, <2>3, KeepInv DEF Told
<1>5. CASE stack # <<>> /\ UnwindBypass
  <2>1. Stk(stack') /\ Books /\ Top.kind = "bypass" /\ st' = st /\ exc' = exc
    BY <1>1, <1>5, GivenUp DEF UnwindBypass
  <2>2. Ready(st')
    BY <1>1, <2>1
  <2> QED
    BY <1>1, <2>1, <2>2, KeepInv DEF Told
<1>6. CASE stack # <<>> /\ UnwindEval
  <2>1. Succeed /\ Top.kind = "eval" /\ st' = st /\ exc' = "none"
    BY <1>6 DEF UnwindEval
  <2>2. Ready(st')
    BY <1>1, <2>1
  <2>3. Stk(stack') /\ Books
    BY <1>1, <1>6, <2>1, SucceedTyped, InvReady DEF Books, StorageInv, TypeOK
  <2> QED
    BY <2>1, <2>2, <2>3, KeepInv DEF Told
<1> QED
  BY <1>2, <1>3, <1>4, <1>5, <1>6 DEF Unwind

\* Taking what a rollback to a savepoint undid out of the blocks.
LEMMA StripTyped ==
  ASSUME NEW stk \in Seq(Frame), NEW gone
  PROVE  LET new == [i \in DOMAIN stk |-> [stk[i] EXCEPT !.work = @ \ gone]]
         IN  new \in Seq(Frame) /\ Len(new) = Len(stk)
<1> DEFINE new == [i \in DOMAIN stk |-> [stk[i] EXCEPT !.work = @ \ gone]]
<1>1. Len(stk) \in Nat /\ DOMAIN stk = 1..Len(stk) /\ \A i \in 1..Len(stk) : stk[i] \in Frame
  OBVIOUS
<1>2. \A i \in 1..Len(stk) : [stk[i] EXCEPT !.work = @ \ gone] \in Frame
  BY <1>1 DEF Frame
<1>3. new \in [1..Len(stk) -> Frame]
  BY <1>1, <1>2
<1> HIDE DEF new
<1>4. new \in Seq(Frame) /\ Len(new) = Len(stk)
  BY <1>1, <1>3
<1> QED
  BY <1>4 DEF new

\* The savepoint a call means is one of the application's, or none.
LEMMA MeantPoint ==
  ASSUME StorageInv, NEW name
  PROVE  \/ Meant(name) = 0
         \/ Meant(name) \in 1..Len(points) /\ points[Meant(name)] \in Point
<1> DEFINE at == IF name = Default THEN DOMAIN points
                 ELSE {i \in DOMAIN points : points[i].name = name}
<1>0. points \in Seq(Point)
  BY InvReady
<1>1. at \in SUBSET DOMAIN points
  OBVIOUS
<1>2. Meant(name) = IF at = {} THEN 0 ELSE Greatest(at)
  BY DEF Meant, Positions
<1> HIDE DEF at
<1>3. CASE at = {}
  BY <1>2, <1>3
<1>4. CASE at # {}
  <2>1. Greatest(at) \in 1..Len(points) /\ points[Greatest(at)] \in Point
    BY <1>0, <1>1, <1>4, LastPosition
  <2> QED
    BY <1>2, <1>4, <2>1
<1> QED
  BY <1>3, <1>4

LEMMA PointsCut ==
  ASSUME StorageInv, NEW n \in Int, n <= Len(points)
  PROVE  SubSeq(points, 1, n) \in Seq(Point)
<1>1. points \in Seq(Point)
  BY InvReady
<1>2. CASE n \in Nat
  BY <1>1, <1>2, PrefixOf
<1>3. CASE n < 0
  BY <1>1, <1>3
<1> QED
  BY <1>2, <1>3

LEMMA AnySvpCall ==
  ASSUME StorageInv, SvpCall
  PROVE  StorageInv' /\ Told
<1>1. /\ Ready(st) /\ Stk(stack) /\ Len(stack) \in Nat /\ points \in Seq(Point)
      /\ claims \subseteq Writes /\ aborted \subseteq Writes /\ undone \subseteq Writes
      /\ nextw' = nextw /\ claims' = claims /\ aborted' = aborted
      /\ nextw \in 1..(MaxWrites + 1)
  BY InvReady DEF SvpCall, StorageInv, TypeOK
<1>2. OpenWork \subseteq Writes
  <2>1. ASSUME NEW i \in DOMAIN stack PROVE stack[i].work \subseteq Writes
    <3>1. stack[i] \in Frame
      BY <1>1 DEF Stk
    <3> QED
      BY <3>1 DEF Frame
  <2> QED
    BY <2>1 DEF OpenWork, WorkOf
<1>3. PICK name \in {Default, Named} :
        SvpBegin(name) \/ SvpRelease(name) \/ SvpRollback(name)
  BY DEF SvpCall
<1>4. \/ Meant(name) = 0
      \/ Meant(name) \in 1..Len(points) /\ points[Meant(name)] \in Point
  BY MeantPoint
<1>5. SubSeq(points, 1, Meant(name)) \in Seq(Point) /\ SubSeq(points, 1, Meant(name) - 1) \in Seq(Point)
  <2>1. /\ Meant(name) \in Int /\ Meant(name) - 1 \in Int /\ Len(points) \in Nat
        /\ Meant(name) <= Len(points) /\ Meant(name) - 1 <= Len(points)
    BY <1>1, <1>4
  <2> QED
    BY <2>1, PointsCut
<1>6. \E s : /\ Answer(s) /\ Settle(s)
             /\ Stk(stack') /\ Len(stack') = Len(stack)
             /\ points' \in Seq(Point) /\ undone' \subseteq Writes
  <2>1. CASE SvpBegin(name)
    <3>1. PICK s \in svp_begin(st, name) :
            /\ Settle(s) /\ stack' = stack /\ undone' = undone
            /\ points' = IF s.err # "none" THEN points
                         ELSE Append(points, [name |-> name, work |-> OpenWork])
      BY <2>1 DEF SvpBegin
    <3>2. Answer(s)
      BY <1>1, AnySvpBegin DEF Name
    <3>3. points' \in Seq(Point)
      <4> DEFINE p == [name |-> name, work |-> OpenWork]
      <4>1. p \in Point
        BY <1>2 DEF Point
      <4> HIDE DEF p
      <4>2. Append(points, p) \in Seq(Point)
        BY <1>1, <4>1
      <4> QED
        BY <1>1, <3>1, <4>2 DEF p
    <3> QED
      BY <1>1, <3>1, <3>2, <3>3
  <2>2. CASE SvpRelease(name)
    <3>1. PICK s \in svp_release(st, name) :
            /\ Settle(s) /\ stack' = stack /\ undone' = undone
            /\ points' = IF s.err # "none" THEN points
                         ELSE SubSeq(points, 1, Meant(name) - 1)
      BY <2>2 DEF SvpRelease
    <3>2. Answer(s)
      BY <1>1, AnySvpRelease
    <3> QED
      BY <1>1, <1>5, <3>1, <3>2
  <2>3. CASE SvpRollback(name)
    <3>1. PICK s \in svp_rollback(st, name) :
            LET i    == Meant(name)
                gone == IF s.err # "none" \/ i = 0 THEN {} ELSE OpenWork \ points[i].work
            IN  /\ Settle(s)
                /\ points' = IF s.err # "none" THEN points ELSE SubSeq(points, 1, i)
                /\ stack' = [j \in DOMAIN stack |-> [stack[j] EXCEPT !.work = @ \ gone]]
                /\ undone' = undone \cup gone
      BY <2>3 DEF SvpRollback
    <3>2. Answer(s)
      BY <1>1, AnySvpRollback
    <3> DEFINE gone == IF s.err # "none" \/ Meant(name) = 0 THEN {}
                       ELSE OpenWork \ points[Meant(name)].work
               new == [j \in DOMAIN stack |-> [stack[j] EXCEPT !.work = @ \ gone]]
    <3>3. gone \subseteq Writes
      BY <1>2
    <3>4. stack' = new /\ undone' = undone \cup gone
      BY <3>1
    <3> HIDE DEF gone
    <3>5. new \in Seq(Frame) /\ Len(new) = Len(stack)
      BY <1>1, StripTyped DEF Stk
    <3> HIDE DEF new
    <3> QED
      BY <1>1, <1>5, <3>1, <3>2, <3>3, <3>4, <3>5 DEF Stk
  <2> QED
    BY <1>3, <2>1, <2>2, <2>3
<1>7. Ready(st') /\ exc' \in {"none", "error"}
  BY <1>6, SettleReady
<1>8. Books
  BY <1>1, <1>6 DEF Books
<1> QED
  BY <1>1, <1>6, <1>7, <1>8, KeepInv DEF Told

LEMMA AnyCallDbh ==
  ASSUME StorageInv, CallDbh
  PROVE  StorageInv' /\ Told
<1>1. Ready(st) /\ Stk(stack) /\ Len(stack) \in Nat /\ stack' = stack /\ st.dbh # "live" /\ Books
  BY InvReady, SameBooks DEF CallDbh, connected
<1>2. PICK s \in populate_dbh(st) : Settle(s)
  BY DEF CallDbh
<1>3. Ready(st') /\ exc' \in {"none", "error"}
  BY <1>1, <1>2, AnyPopulate, SettleReady
<1>4. Stk(stack')
  BY <1>1
<1> QED
  BY <1>1, <1>3, <1>4, KeepInv DEF Told

LEMMA LostReady ==
  ASSUME NEW s, Ready(s)
  PROVE  Ready(Lost(s)) /\ Ready([Lost(s) EXCEPT !.dbh = "none"])
<1>1. Alive(Lost(s)) /\ ~Lost(s).open /\ Lost(s).err = "none"
  BY AnswerLost DEF Ready, Lost, Alive, Session
<1> HIDE DEF Lost
<1> QED
  BY <1>1 DEF Ready, Alive, Session

LEMMA AnyLoss ==
  ASSUME StorageInv, Disconnect \/ Drop
  PROVE  StorageInv' /\ Told
<1>1. /\ Ready(st) /\ Stk(stack) /\ Len(stack) \in Nat /\ stack' = stack /\ exc' = exc
      /\ exc \in {"none", "error", "rollbackFailed"}
      /\ st' = Lost(st) \/ st' = [Lost(st) EXCEPT !.dbh = "none"]
  BY InvReady DEF Disconnect, Drop, StorageInv, TypeOK
<1>2. Books
  BY SameBooks DEF Disconnect, Drop
<1>3. Ready(st') /\ Stk(stack')
  BY <1>1, LostReady
<1> QED
  BY <1>1, <1>2, <1>3, KeepInv DEF Told

LEMMA AnyInit ==
  ASSUME Init
  PROVE  StorageInv
<1>1. <<>> \in Seq(Nat) /\ <<>> \in Seq([name : Nat, work : SUBSET Writes])
      /\ <<>> \in Seq(Frame) /\ <<>> \in Seq(Point) /\ Len(<<>>) = 0
  OBVIOUS
<1>2. Stk(<<>>) /\ 1 \in 1..(MaxWrites + 1)
  BY <1>1, StorageAssumption DEF Stk
<1>3. Alive(st)
  BY <1>1 DEF Init, Alive, Session
<1> QED
  BY <1>2, <1>3 DEF Init, StorageInv, TypeOK, Alive, Stk

LEMMA AnyNext ==
  ASSUME StorageInv, [Next]_vars
  PROVE  StorageInv' /\ (Told \/ UNCHANGED vars)
<1>1. CASE UNCHANGED vars
  BY <1>1 DEF vars, StorageInv, TypeOK, Alive
<1>2. CASE Next
  BY <1>2, AnyTxnDo, AnyGuardNew, AnyEvalBegin, AnyReturn, AnyGuardAbandon, AnyWrite,
     AnyThrow, AnyUnwind, AnySvpCall, AnyCallDbh, AnyLoss DEF Next
<1> QED
  BY <1>1, <1>2

------------------------------------------------------------------------------
(* Theorems about every use *)

\* Whatever the application does and whatever goes wrong, the storage's fields
\* and the blocks keep their types, and a transaction is open on a connection
\* that answers only: what a lost one had is gone with it.
THEOREM StorageInvariant == Spec => []StorageInv
<1>1. Init => StorageInv
  BY AnyInit
<1>2. StorageInv /\ [Next]_vars => StorageInv'
  BY AnyNext
<1> QED
  BY <1>1, <1>2, PTL DEF Spec

\* The type invariant, for every use: no handler is left half done and no
\* savepoint outside the two stacks is ever used.
THEOREM StorageTypeOK == Spec => []TypeOK
<1>1. StorageInv => TypeOK
  BY DEF StorageInv
<1> QED
  BY <1>1, StorageInvariant, PTL

\* A txn_do that ends with the transaction it began still open, or an inner one
\* that ends with the depth reset to 0 by a refused rollback to its savepoint,
\* throws "Rollback failed", whatever was nested in it and whatever went wrong.
\* What the outer txn_do does after it caught that is not covered.
THEOREM StorageRollbackFailureTold == Spec => RollbackFailureTold
<1>1. StorageInv /\ [Next]_vars => [Told]_vars
  BY AnyNext
<1> QED
  BY <1>1, StorageInvariant, PTL DEF Spec, RollbackFailureTold, Told

------------------------------------------------------------------------------
(* Without savepoints *)

\* Each part is needed: the run DBICNestedRetry shows it of the first.
FlatUse ==
  /\ AutoSavepoint = FALSE
  /\ Calls \subseteq {"txn_do", "guard", "eval", "disconnect"}   \* between scopes
  /\ Faults \subseteq {"drop", "sqlError", "commitError"}

------------------------------------------------------------------------------
(* Stacks of blocks without savepoints *)

\* What holds of the application's blocks: a txn_do that begins a transaction
\* is the outermost scope, a txn_do that is only passed through is inside one
\* that counts, and eval blocks outside any scope have no writes.
Shape(stk) ==
  /\ stk \in Seq(Frame)
  /\ \A i \in DOMAIN stk : stk[i].kind = "txn_do" =>
       \A j \in 1..(i - 1) : stk[j].kind = "eval"
  /\ \A i \in DOMAIN stk : stk[i].kind = "bypass" =>
       \E j \in 1..(i - 1) : stk[j].kind \in {"txn_do", "guard"}
  /\ \A i \in DOMAIN stk : (\A j \in 1..i : stk[j].kind = "eval") => stk[i].work = {}

\* No scope on the stack: nothing is counted and nothing is pending.
LEMMA NoScopes ==
  ASSUME NEW stk, Shape(stk), Scopes(stk) = {}
  PROVE  Depth(stk) = 0 /\ WorkOf(stk) = {}
<1>1. Counted(stk) = {}
  BY DEF Counted, Scopes
<1>2. \A i \in DOMAIN stk : stk[i].work = {}
  BY DEF Shape, Scopes
<1> QED
  BY <1>1, <1>2, FS_EmptySet DEF Depth, WorkOf

\* A scope on the stack: one of them, the outermost, is counted.
LEMMA SomeScope ==
  ASSUME NEW stk, Shape(stk), Scopes(stk) # {}
  PROVE  Depth(stk) >= 1 /\ Depth(stk) \in Nat
<1>1. PICK i \in Scopes(stk) : TRUE
  OBVIOUS
<1>2. stk[i].kind \in {"txn_do", "bypass", "guard"} /\ i \in 1..Len(stk) /\ Len(stk) \in Nat
  <2>1. i \in DOMAIN stk /\ stk[i].kind # "eval" /\ stk \in Seq(Frame)
    BY <1>1 DEF Scopes, Shape
  <2>2. stk[i] \in Frame /\ i \in 1..Len(stk) /\ Len(stk) \in Nat
    BY <2>1
  <2> QED
    BY <2>1, <2>2 DEF Frame
<1>3. \E k \in 1..Len(stk) : stk[k].kind \in {"txn_do", "guard"}
  <2>1. CASE stk[i].kind = "bypass"
    <3>1. PICK j \in 1..(i - 1) : stk[j].kind \in {"txn_do", "guard"}
      BY <1>2, <2>1 DEF Shape, Scopes
    <3>2. j \in 1..Len(stk)
      BY <1>2
    <3> QED
      BY <3>1, <3>2
  <2> QED
    BY <1>2, <2>1
<1>4. Counted(stk) # {}
  BY <1>3 DEF Counted, Shape
<1>5. Depth(stk) # 0
  BY <1>4, CountedFinite, FS_EmptySet DEF Shape, Depth
<1> QED
  BY <1>5, CountedFinite DEF Shape

LEMMA ShapePush ==
  ASSUME NEW stk, Shape(stk), NEW kind \in {"txn_do", "bypass", "guard", "eval"},
         kind = "txn_do" => Scopes(stk) = {},
         kind = "bypass" => Scopes(stk) # {}
  PROVE  /\ Shape(Append(stk, NewFrame(kind)))
         /\ Depth(Append(stk, NewFrame(kind))) =
              IF kind \in {"txn_do", "guard"} THEN Depth(stk) + 1 ELSE Depth(stk)
         /\ WorkOf(Append(stk, NewFrame(kind))) = WorkOf(stk)
<1> DEFINE f == NewFrame(kind)
           new == Append(stk, f)
<1>1. f \in Frame /\ f.kind = kind /\ f.work = {} /\ stk \in Seq(Frame)
  BY DEF NewFrame, Frame, Shape
<1> HIDE DEF f
<1>2. /\ new \in Seq(Frame) /\ Len(new) = Len(stk) + 1 /\ Len(stk) \in Nat
      /\ new[Len(stk) + 1] = f
      /\ \A i \in 1..Len(stk) : new[i] = stk[i]
  BY <1>1
<1> HIDE DEF new
<1>3. ASSUME NEW i \in DOMAIN new, new[i].kind = "txn_do", NEW j \in 1..(i - 1)
      PROVE  new[j].kind = "eval"
  <2>1. i \in 1..(Len(stk) + 1) /\ j \in 1..Len(stk)
    BY <1>2, <1>3
  <2>2. CASE i = Len(stk) + 1
    BY <1>1, <1>2, <1>3, <2>1, <2>2 DEF Scopes
  <2>3. CASE i \in 1..Len(stk)
    <3>1. stk[i].kind = "txn_do" /\ i \in DOMAIN stk
      BY <1>1, <1>2, <1>3, <2>3
    <3>2. stk[j].kind = "eval"
      BY <1>3, <3>1 DEF Shape
    <3> QED
      BY <1>2, <2>1, <3>2
  <2>4. i = Len(stk) + 1 \/ i \in 1..Len(stk)
    BY <1>2, <2>1
  <2> QED
    BY <2>2, <2>3, <2>4
<1>4. ASSUME NEW i \in DOMAIN new, new[i].kind = "bypass"
      PROVE  \E j \in 1..(i - 1) : new[j].kind \in {"txn_do", "guard"}
  <2>1. i \in 1..(Len(stk) + 1)
    BY <1>2
  <2>2. CASE i = Len(stk) + 1
    <3>1. Depth(stk) # 0
      BY <1>1, <1>2, <1>4, <2>2, SomeScope
    <3>2. Counted(stk) # {}
      BY <3>1, FS_EmptySet DEF Depth
    <3>3. PICK k \in 1..Len(stk) : stk[k].kind \in {"txn_do", "guard"}
      BY <1>1, <3>2 DEF Counted
    <3> QED
      BY <1>2, <2>2, <3>3
  <2>3. CASE i \in 1..Len(stk)
    <3>1. PICK j \in 1..(i - 1) : stk[j].kind \in {"txn_do", "guard"}
      BY <1>1, <1>2, <1>4, <2>3 DEF Shape
    <3>2. j \in 1..Len(stk)
      BY <2>3, <3>1, <1>2
    <3> QED
      BY <1>2, <3>1, <3>2
  <2> QED
    BY <1>2, <2>1, <2>2, <2>3
<1>5. ASSUME NEW i \in DOMAIN new, \A j \in 1..i : new[j].kind = "eval"
      PROVE  new[i].work = {}
  <2>1. i \in 1..(Len(stk) + 1)
    BY <1>2
  <2>2. CASE i = Len(stk) + 1
    BY <1>1, <1>2, <2>2
  <2>3. CASE i \in 1..Len(stk)
    <3>1. \A j \in 1..i : j \in 1..Len(stk)
      BY <2>3, <1>2
    <3> QED
      BY <1>1, <1>2, <1>5, <2>3, <3>1 DEF Shape
  <2> QED
    BY <1>2, <2>1, <2>2, <2>3
<1>6. Shape(new)
  BY <1>2, <1>3, <1>4, <1>5 DEF Shape
<1>7. WorkOf(new) = WorkOf(stk)
  BY <1>1, PushWork DEF new
<1>8. Depth(new) = IF kind \in {"txn_do", "guard"} THEN Depth(stk) + 1 ELSE Depth(stk)
  BY <1>1, PushCount DEF new
<1> QED
  BY <1>6, <1>7, <1>8 DEF new, f

LEMMA ShapePop ==
  ASSUME NEW stk, Shape(stk), stk # <<>>
  PROVE  LET below == SubSeq(stk, 1, Len(stk) - 1)
             top == stk[Len(stk)]
         IN  /\ Shape(below)
             /\ WorkOf(stk) = WorkOf(below) \cup top.work
<1> DEFINE below == SubSeq(stk, 1, Len(stk) - 1)
           top == stk[Len(stk)]
<1>1. /\ below \in Seq(Frame) /\ top \in Frame
      /\ Len(below) = Len(stk) - 1 /\ Len(stk) \in Nat /\ Len(stk) > 0
      /\ \A i \in 1..(Len(stk) - 1) : below[i] = stk[i]
      /\ stk = Append(below, top)
  BY Split DEF Shape
<1> HIDE DEF below, top
<1>2. \A i \in DOMAIN below : i \in DOMAIN stk /\ \A j \in 1..i : below[j] = stk[j]
  BY <1>1 DEF Shape
<1>3. ASSUME NEW i \in DOMAIN below
      PROVE  /\ i \in Nat
             /\ below[i].kind = "txn_do" => \A j \in 1..(i - 1) : below[j].kind = "eval"
             /\ below[i].kind = "bypass" =>
                  \E j \in 1..(i - 1) : below[j].kind \in {"txn_do", "guard"}
             /\ (\A j \in 1..i : below[j].kind = "eval") => below[i].work = {}
  <2>1. i \in Nat /\ i > 0
    BY <1>1
  <2>2. i \in 1..i /\ \A j \in 1..(i - 1) : j \in 1..i
    BY <2>1
  <2> QED
    BY <1>2, <2>1, <2>2 DEF Shape
<1>4. Shape(below)
  BY <1>1, <1>3 DEF Shape
<1>5. WorkOf(stk) = WorkOf(below) \cup top.work
  BY <1>1, PushWork
<1> QED
  BY <1>4, <1>5 DEF below, top

\* A write joins the top block.
LEMMA ShapeAdd ==
  ASSUME NEW stk, Shape(stk), Scopes(stk) # {}, NEW ws \in SUBSET Writes
  PROVE  /\ Shape(AddWork(stk, ws))
         /\ Len(AddWork(stk, ws)) = Len(stk)
         /\ Depth(AddWork(stk, ws)) = Depth(stk)
         /\ Scopes(AddWork(stk, ws)) = Scopes(stk)
         /\ WorkOf(AddWork(stk, ws)) = WorkOf(stk) \cup ws
<1> DEFINE new == AddWork(stk, ws)
           n == Len(stk)
<1>1. stk \in Seq(Frame) /\ n \in Nat /\ n > 0 /\ n \in 1..n
  BY DEF Shape, Scopes
<1>2. PICK f \in Frame : f = stk[n]
  BY <1>1
<1> DEFINE g == [f EXCEPT !.work = @ \cup ws]
<1>11. g \in Frame /\ g.kind = f.kind /\ g.work = f.work \cup ws
  <2>1. f.work \cup ws \in SUBSET Writes
    BY <1>2 DEF Frame
  <2> QED
    BY <1>2, <2>1 DEF Frame
<1>12. new = [stk EXCEPT ![n] = g]
  BY <1>1, <1>2 DEF AddWork
<1> HIDE DEF g
<1>3. /\ new \in Seq(Frame) /\ Len(new) = n
      /\ \A i \in 1..n : i # n => new[i] = stk[i]
      /\ new[n] = g
  <2>1. [stk EXCEPT ![n] = g] \in [1..n -> Frame]
    BY <1>1, <1>11
  <2> QED
    BY <1>1, <1>11, <1>12, <2>1
<1>4. /\ \A i \in 1..n : new[i].kind = stk[i].kind
      /\ new[n].work = stk[n].work \cup ws
  BY <1>2, <1>3, <1>11
<1> HIDE DEF new, n
<1>5. DOMAIN new = 1..n /\ DOMAIN stk = 1..n
  BY <1>1, <1>3 DEF n
<1>6. Counted(new) = Counted(stk) /\ Scopes(new) = Scopes(stk)
  BY <1>4, <1>5 DEF Counted, Scopes
<1>7. \A i \in 1..n : i \in Nat /\ i \in 1..i /\ \A j \in 1..i : j \in 1..n
  BY <1>1
<1>8. ASSUME NEW i \in 1..n
      PROVE  /\ new[i].kind = "txn_do" => \A j \in 1..(i - 1) : new[j].kind = "eval"
             /\ new[i].kind = "bypass" =>
                  \E j \in 1..(i - 1) : new[j].kind \in {"txn_do", "guard"}
             /\ (\A j \in 1..i : new[j].kind = "eval") => new[i].work = {}
  <2>1. \A j \in 1..(i - 1) : new[j].kind = stk[j].kind
    BY <1>1, <1>4
  <2>2. (\A j \in 1..i : new[j].kind = "eval") => (i # n /\ \A j \in 1..i : stk[j].kind = "eval")
    BY <1>4, <1>5, <1>7 DEF Scopes
  <2>3. (\A j \in 1..i : new[j].kind = "eval") => new[i].work = {}
    BY <1>3, <1>5, <2>2 DEF Shape
  <2> QED
    BY <1>4, <1>5, <2>1, <2>3 DEF Shape
<1>9. Shape(new)
  BY <1>3, <1>5, <1>8 DEF Shape
<1>10. WorkOf(new) = WorkOf(stk) \cup ws
  <2>1. \A i \in 1..n : new[i].work = IF i = n THEN stk[n].work \cup ws ELSE stk[i].work
    BY <1>3, <1>4
  <2> QED
    BY <1>1, <1>5, <2>1 DEF WorkOf
<1> QED
  BY <1>3, <1>6, <1>9, <1>10 DEF new, n, Depth

------------------------------------------------------------------------------
(* What the storage's handlers may do to the session *)

\* A session without savepoints; a transaction lives in a live connection.
Sound(s) ==
  /\ s \in Session
  /\ s.svps = <<>> /\ s.marks = <<>>
  /\ s.dbh # "live" => ~s.open
  /\ ~s.open => s.work = {}

\* A statement that threw changed nothing, or lost the transaction.
Refused(s, t) ==
  /\ Sound(t)
  /\ t.err = "error"
  /\ t.depth = s.depth /\ t.committed = s.committed
  /\ t.dbh # s.dbh => t.dbh = "dead"
  /\ t.dbh = "live" => t.open = s.open /\ t.work = s.work

LEMMA StatementOutcome ==
  ASSUME NEW s, Sound(s), NEW fault, NEW done, NEW t \in Statement(s, fault, done)
  PROVE  (s.dbh = "live" /\ t = done) \/ Refused(s, t)
<1>1. Refused(s, Fail(s))
  BY DEF Refused, Sound, Session, Fail
<1>2. ASSUME s.dbh = "live" PROVE Refused(s, Fail(Lost(s)))
  BY <1>2 DEF Refused, Sound, Session, Fail, Lost
<1> QED
  BY <1>1, <1>2 DEF Statement

LEMMA PopulateOutcome ==
  ASSUME FlatUse, NEW s, Sound(s), s.dbh # "live", NEW t \in populate_dbh(s)
  PROVE  /\ Sound(t) /\ t.err = s.err
         /\ t.dbh = "live" /\ t.depth = 0 /\ ~t.open /\ t.committed = s.committed
<1>1. t = [s EXCEPT !.dbh = "live", !.depth = 0]
  BY DEF populate_dbh, FlatUse
<1> QED
  BY <1>1 DEF Sound, Session

LEMMA GetDbhOutcome ==
  ASSUME FlatUse, NEW s, Sound(s), NEW t \in get_dbh(s)
  PROVE  /\ Sound(t) /\ t.err = s.err /\ t.dbh # "none" /\ t.committed = s.committed
         /\ s.dbh # "none" => t = s
         /\ s.dbh = "none" => t.dbh = "live" /\ t.depth = 0 /\ ~t.open
BY PopulateOutcome DEF get_dbh

\* BEGIN on a session with no open transaction.
LEMMA BeginOutcome ==
  ASSUME NEW s, Sound(s), s.err = "none", ~s.open, NEW t \in BEGIN(s)
  PROVE  \/ /\ Sound(t) /\ t.err = "none"
            /\ t.dbh = "live" /\ t.open /\ t.work = {}
            /\ t.depth = s.depth /\ t.committed = s.committed
         \/ Refused(s, t)
<1> DEFINE done == [s EXCEPT !.open = TRUE]
<1>1. (s.dbh = "live" /\ t = done) \/ Refused(s, t)
  BY StatementOutcome DEF BEGIN
<1>2. ASSUME s.dbh = "live"
      PROVE  /\ Sound(done) /\ done.err = "none"
             /\ done.dbh = "live" /\ done.open /\ done.work = {}
             /\ done.depth = s.depth /\ done.committed = s.committed
  BY <1>2 DEF Sound, Session
<1> QED
  BY <1>1, <1>2

\* An outermost transaction begins, on the session there is or on a new one.
LEMMA BeginWorkOutcome ==
  ASSUME FlatUse, NEW s, Sound(s), s.err = "none", s.depth = 0, ~s.open,
         NEW in_do \in BOOLEAN, NEW t \in dbh_begin_work(s, in_do)
  PROVE  /\ Sound(t) /\ t.depth = 0 /\ t.committed = s.committed
         /\ \/ t.err = "none" /\ t.dbh = "live" /\ t.open /\ t.work = {}
            \/ t.err = "error" /\ ~t.open
<1>1. CASE in_do
  BY <1>1, BeginOutcome DEF dbh_begin_work, Refused, Sound
<1>2. CASE ~in_do
  <2>1. PICK c \in get_dbh(s) : t \in (IF c.err = "none"
            THEN UNION {IF u.err = "none" \/ connected(u) THEN {u}
                        ELSE Then(populate_dbh(Caught(u)), LAMBDA r : Code(r, BeginWork))
                          : u \in Code(c, BeginWork)}
            ELSE {c})
    <3>1. \A c \in get_dbh(s) : c.depth = 0
      BY GetDbhOutcome
    <3> QED
      BY <1>2, <3>1 DEF dbh_begin_work, dbh_do, Then
  <2>2. Sound(c) /\ c.err = "none" /\ c.depth = 0 /\ ~c.open /\ c.committed = s.committed
    BY <2>1, GetDbhOutcome
  <2>3. PICK u \in BEGIN(c) : t \in (IF u.err = "none" \/ connected(u) THEN {u}
                ELSE Then(populate_dbh(Caught(u)), LAMBDA r : Code(r, BeginWork)))
    BY <2>1, <2>2 DEF Code
  <2>4. CASE u.err = "none" \/ connected(u)
    BY <2>2, <2>3, <2>4, BeginOutcome DEF Refused, Sound, connected
  <2>5. CASE ~(u.err = "none" \/ connected(u))
    <3>1. Sound(u) /\ u.err = "error" /\ u.committed = s.committed /\ u.dbh # "live"
      BY <2>2, <2>5, BeginOutcome DEF Refused, connected
    <3>2. Sound(Caught(u)) /\ Caught(u).err = "none" /\ Caught(u).dbh # "live"
            /\ Caught(u).committed = s.committed
      BY <3>1 DEF Sound, Session, Caught
    <3>3. PICK v \in populate_dbh(Caught(u)) : t \in (IF v.err = "none" THEN BEGIN(v) ELSE {v})
      BY <2>3, <2>5 DEF Then, Code
    <3>4. Sound(v) /\ v.err = "none" /\ v.depth = 0 /\ ~v.open /\ v.committed = s.committed
      BY <3>2, PopulateOutcome
    <3>5. t \in BEGIN(v)
      BY <3>3, <3>4
    <3> QED
      BY <3>4, <3>5, BeginOutcome DEF Refused, Sound
  <2> QED
    BY <2>4, <2>5
<1> QED
  BY <1>1, <1>2

LEMMA TxnBeginOutcome ==
  ASSUME FlatUse, NEW s, Sound(s), s.err = "none", s.depth = 0 => ~s.open,
         NEW in_do \in BOOLEAN, NEW t \in txn_begin(s, in_do)
  PROVE  /\ Sound(t) /\ t.committed = s.committed
         /\ s.depth # 0 => t = [s EXCEPT !.depth = @ + 1]
         /\ s.depth = 0 =>
              \/ t.err = "none" /\ t.depth = 1 /\ t.dbh = "live" /\ t.open /\ t.work = {}
              \/ t.err = "error" /\ t.depth = 0 /\ ~t.open
<1>0. s.depth \in Nat
  BY DEF Sound, Session
<1>1. CASE s.depth # 0
  <2>1. t = [s EXCEPT !.depth = @ + 1]
    BY <1>0, <1>1 DEF txn_begin, Then, FlatUse
  <2> QED
    BY <1>1, <2>1 DEF Sound, Session
<1>2. CASE s.depth = 0
  <2>1. PICK u \in dbh_begin_work(s, in_do) :
          t = IF u.err = "none" THEN [u EXCEPT !.depth = @ + 1] ELSE u
    BY <1>2 DEF txn_begin, Then
  <2>2. /\ Sound(u) /\ u.depth = 0 /\ u.committed = s.committed
        /\ \/ u.err = "none" /\ u.dbh = "live" /\ u.open /\ u.work = {}
           \/ u.err = "error" /\ ~u.open
    BY <1>2, BeginWorkOutcome
  <2> QED
    BY <1>2, <2>1, <2>2 DEF Sound, Session
<1> QED
  BY <1>1, <1>2

\* An attempt of an outermost txn_do.
LEMMA AttemptOutcome ==
  ASSUME FlatUse, NEW s, Sound(s), s.err = "none", s.depth = 0, ~s.open,
         NEW t \in txn_do_attempt(s)
  PROVE  /\ Sound(t) /\ t.committed = s.committed
         /\ \/ t.err = "none" /\ t.depth = 1 /\ t.dbh = "live" /\ t.open /\ t.work = {}
            \/ t.err = "error" /\ t.depth = 0 /\ ~t.open
<1>1. PICK c \in get_dbh(s) : t \in (IF c.err = "none" THEN txn_begin(c, TRUE) ELSE {c})
  BY DEF txn_do_attempt, Then
<1>2. Sound(c) /\ c.err = "none" /\ c.depth = 0 /\ ~c.open /\ c.committed = s.committed
  BY GetDbhOutcome
<1>3. t \in txn_begin(c, TRUE)
  BY <1>1, <1>2
<1> QED
  BY <1>2, <1>3, TxnBeginOutcome

LEMMA TxnCommitOutcome ==
  ASSUME FlatUse, NEW s, Sound(s), s.err = "none", s.depth # 0,
         s.dbh = "live" => s.open, NEW t \in txn_commit(s)
  PROVE  /\ s.depth > 1 => t = [s EXCEPT !.depth = @ - 1]
         /\ s.depth = 1 =>
              \/ /\ Sound(t) /\ t.err = "none" /\ t.depth = 0 /\ ~t.open /\ s.open
                 /\ t.committed = s.committed \cup s.work
              \/ Refused(s, t)
<1>0. s.depth \in Nat
  BY DEF Sound, Session
<1>1. CASE s.depth > 1
  <2>1. s.depth # 0 /\ s.depth # 1
    BY <1>0, <1>1
  <2>2. txn_commit(s) = {Inner(s)}
    BY <2>1 DEF txn_commit, FlatUse
  <2> QED
    BY <2>1, <2>2 DEF Inner
<1>2. CASE s.depth = 1
  <2>1. PICK u \in dbh_commit(s) : t = IF u.err = "none" THEN [u EXCEPT !.depth = 0] ELSE u
    BY <1>2 DEF txn_commit, Then
  <2> DEFINE done == [Closed(s) EXCEPT !.committed = @ \cup s.work]
  <2>2. u \in Statement(s, "commitError", done)
    BY <2>1 DEF dbh_commit, connected, COMMIT, FlatUse
  <2>3. (s.dbh = "live" /\ u = done) \/ Refused(s, u)
    BY <2>2, StatementOutcome
  <2>4. /\ Sound([done EXCEPT !.depth = 0]) /\ done.err = "none"
        /\ [done EXCEPT !.depth = 0].depth = 0 /\ ~[done EXCEPT !.depth = 0].open
        /\ [done EXCEPT !.depth = 0].err = "none"
        /\ [done EXCEPT !.depth = 0].committed = s.committed \cup s.work
    BY DEF Sound, Session, Closed
  <2> HIDE DEF done
  <2>5. CASE s.dbh = "live" /\ u = done
    BY <1>2, <2>1, <2>4, <2>5
  <2>6. CASE Refused(s, u)
    BY <1>2, <2>1, <2>6 DEF Refused
  <2> QED
    BY <2>3, <2>5, <2>6
<1> QED
  BY <1>0, <1>1, <1>2

LEMMA Reset ==
  ASSUME NEW s, Sound(s)
  PROVE  /\ Sound([s EXCEPT !.depth = 0])
         /\ [s EXCEPT !.depth = 0].depth = 0
         /\ [s EXCEPT !.depth = 0].open = s.open
         /\ [s EXCEPT !.depth = 0].committed = s.committed
BY DEF Sound, Session

LEMMA TxnRollbackOutcome ==
  ASSUME FlatUse, NEW s, Sound(s), s.err = "none",
         s.depth = 0 => ~s.open, NEW t \in txn_rollback(s)
  PROVE  /\ s.depth > 1 => t = [s EXCEPT !.depth = @ - 1]
         /\ s.depth \in {0, 1} =>
              Sound(t) /\ t.depth = 0 /\ ~t.open /\ t.committed = s.committed
<1>0. s.depth \in Nat
  BY DEF Sound, Session
<1>1. CASE s.depth > 1
  <2>1. s.depth # 0 /\ s.depth # 1
    BY <1>0, <1>1
  <2>2. txn_rollback(s) = RolledBack({Inner(s)})
    BY <2>1 DEF txn_rollback, rollback_inner, FlatUse
  <2>3. Inner(s).err = "none"
    BY DEF Inner, Sound, Session
  <2>4. t = Inner(s)
    BY <2>2, <2>3 DEF RolledBack
  <2> QED
    BY <2>1, <2>4 DEF Inner
<1>2. CASE s.depth = 0
  <2>1. t = [s EXCEPT !.err = "nested"]
    <3>1. [s EXCEPT !.err = "nested"].err = "nested"
      BY DEF Sound, Session
    <3> QED
      <4>1. txn_rollback(s) = RolledBack({[s EXCEPT !.err = "nested"]})
        BY <1>2 DEF txn_rollback
      <4> QED
        BY <3>1, <4>1 DEF RolledBack
  <2> QED
    BY <1>2, <2>1 DEF Sound, Session
<1>3. CASE s.depth = 1
  <2> DEFINE z == [s EXCEPT !.depth = 0]
  <2>1. PICK u \in dbh_rollback(z) : t = IF u.err = "error" THEN [u EXCEPT !.depth = 0] ELSE u
    BY <1>3 DEF txn_rollback, RolledBack, rollback_outermost
  <2>2. Sound(z) /\ z.err = "none" /\ z.depth = 0 /\ z.committed = s.committed /\ z.dbh = s.dbh
    BY DEF Sound, Session
  <2> HIDE DEF z
  <2>3. CASE connected(z) /\ ~z.open
    BY <1>3, <2>1, <2>2, <2>3 DEF dbh_rollback
  <2>4. CASE ~(connected(z) /\ ~z.open)
    <3>1. u \in Statement(z, "rollbackError", Closed(z))
      BY <2>1, <2>4 DEF dbh_rollback, ROLLBACK
    <3>2. CASE z.dbh # "live"
      <4>1. u = Fail(z)
        BY <3>1, <3>2 DEF Statement
      <4>2. Sound(u) /\ u.committed = z.committed /\ u.err = "error" /\ ~u.open
        BY <2>2, <3>2, <4>1 DEF Fail, Sound, Session
      <4> QED
        BY <1>3, <2>1, <2>2, <4>2, Reset
    <3>3. CASE z.dbh = "live"
      <4>1. u = Closed(z) \/ u = Fail(Lost(z))
        BY <3>1, <3>3 DEF Statement, FlatUse
      <4>2. Sound(Closed(z)) /\ Closed(z).committed = z.committed
              /\ Closed(z).err = "none" /\ ~Closed(z).open /\ Closed(z).depth = 0
        BY <2>2 DEF Closed, Sound, Session
      <4>3. Sound(Fail(Lost(z))) /\ Fail(Lost(z)).committed = z.committed
              /\ Fail(Lost(z)).err = "error" /\ ~Fail(Lost(z)).open
        BY <2>2 DEF Fail, Lost, Sound, Session
      <4> QED
        BY <1>3, <2>1, <2>2, <4>1, <4>2, <4>3, Reset
    <3> QED
      BY <3>2, <3>3
  <2> QED
    BY <2>3, <2>4
<1> QED
  BY <1>0, <1>1, <1>2, <1>3

\* A write in a transaction, and one outside any.
LEMMA WriteOutcome ==
  ASSUME NEW s, Sound(s), s.err = "none", NEW w \in Writes, NEW t \in WRITE(s, w)
  PROVE  \/ /\ Sound(t) /\ t.err = "none" /\ t.dbh = "live"
            /\ t.depth = s.depth /\ t.open = s.open
            /\ IF s.open THEN t.work = s.work \cup {w} /\ t.committed = s.committed
                         ELSE t.committed = s.committed \cup {w}
         \/ Refused(s, t)
<1> DEFINE done == IF s.open THEN [s EXCEPT !.work = @ \cup {w}]
                              ELSE [s EXCEPT !.committed = @ \cup {w}]
<1>1. (s.dbh = "live" /\ t = done) \/ Refused(s, t)
  BY StatementOutcome DEF WRITE
<1>2. s.work \cup {w} \in SUBSET Writes /\ s.committed \cup {w} \in SUBSET Writes
  BY DEF Sound, Session
<1>3. CASE s.open
  BY <1>1, <1>2, <1>3 DEF Sound, Session
<1>4. CASE ~s.open
  BY <1>1, <1>2, <1>4 DEF Sound, Session
<1> QED
  BY <1>3, <1>4

------------------------------------------------------------------------------
(* The inductive invariant *)

\* A txn_do whose BEGIN threw is on the stack, but not in transaction_depth.
BeginFailed ==
  /\ ~Running /\ stack # <<>>
  /\ Top.kind = "txn_do" /\ Scopes(Below) = {} /\ st.depth = 0

\* The depth counts the scopes, the session's transaction holds exactly the
\* writes of the application's blocks, and every write has one fate.
IInv ==
  /\ Sound(st) /\ st.err = "none"
  /\ Shape(stack) /\ Len(stack) <= MaxFrames
  /\ exc \in {"none", "error", "rollbackFailed"}
  /\ nextw \in 1..(MaxWrites + 1)
  /\ aborted \subseteq Writes /\ undone \subseteq Writes
  /\ st.depth = Depth(stack) \/ BeginFailed
  /\ st.dbh = "live" => (st.open <=> st.depth > 0)
  /\ st.depth > 0 => st.dbh # "none"
  /\ st.open => st.work = WorkOf(stack)
  /\ claims = st.committed
  /\ st.committed \cap WorkOf(stack) = {} /\ st.committed \cap aborted = {}
  /\ WorkOf(stack) \cap aborted = {}
  /\ \A w \in st.committed \cup WorkOf(stack) \cup aborted : w < nextw

LEMMA CaughtSame ==
  ASSUME NEW s, Sound(s)
  PROVE  /\ Sound(Caught(s)) /\ Caught(s).err = "none"
         /\ Caught(s).dbh = s.dbh /\ Caught(s).depth = s.depth
         /\ Caught(s).open = s.open /\ Caught(s).work = s.work
         /\ Caught(s).committed = s.committed
         /\ s.err = "none" => Caught(s) = s
         /\ s.depth \in Nat /\ s.open \in BOOLEAN
         /\ s.committed \subseteq Writes /\ s.work \subseteq Writes
         /\ s.err \in {"none", "error", "nested"}
BY DEF Sound, Session, Caught

\* The stack once the top block is left and its writes are passed on.
LEMMA MergedOutcome ==
  ASSUME Shape(stack), stack # <<>>
  PROVE  /\ Shape(Merged) /\ Shape(Below) /\ Len(Merged) = Len(stack) - 1
         /\ Top \in Frame /\ Depth(stack) \in Nat /\ Depth(Merged) \in Nat
         /\ Depth(Merged) = IF Top.kind \in {"txn_do", "guard"}
                            THEN Depth(stack) - 1 ELSE Depth(stack)
         /\ Scopes(Below) = {} =>
              /\ Depth(Merged) = 0 /\ WorkOf(Merged) = {} /\ Scopes(Merged) = {}
              /\ WorkOf(stack) = Top.work
              /\ Top.kind = "eval" => Top.work = {} /\ Scopes(stack) = {}
         /\ Scopes(Below) # {} =>
              /\ Depth(Merged) >= 1 /\ WorkOf(Merged) = WorkOf(stack)
              /\ Scopes(Merged) # {} /\ Scopes(stack) # {}
         /\ Top.kind # "eval" => Scopes(stack) # {}
         /\ Top.kind = "bypass" => Scopes(Below) # {}
         /\ Top.kind = "txn_do" => Scopes(Below) = {}
<1> DEFINE n == Len(stack)
<1>1. /\ Below \in Seq(Frame) /\ Top \in Frame
      /\ Len(Below) = n - 1 /\ n \in Nat /\ n > 0 /\ n \in 1..n
      /\ \A i \in 1..(n - 1) : Below[i] = stack[i]
      /\ DOMAIN stack = 1..n /\ DOMAIN Below = 1..(n - 1)
  BY Split DEF Shape, Below, Top
<1>2. Shape(Below) /\ WorkOf(stack) = WorkOf(Below) \cup Top.work
  BY ShapePop DEF Below, Top
<1>3. Depth(Below) = IF Top.kind \in {"txn_do", "guard"} THEN Depth(stack) - 1 ELSE Depth(stack)
  BY PopCount DEF Shape, Below, Top
<1>4. Depth(stack) \in Nat /\ Depth(Below) \in Nat
  BY <1>2, CountedFinite DEF Shape
<1>5. Top.work \in SUBSET Writes /\ Top.kind \in {"txn_do", "bypass", "guard", "eval"}
  BY <1>1 DEF Frame
<1>6. Top.kind # "eval" => Scopes(stack) # {}
  BY <1>1 DEF Scopes, Top
<1>7. Top.kind = "bypass" => Scopes(Below) # {}
  BY <1>1 DEF Scopes, Shape, Top
<1>8. Top.kind = "txn_do" => Scopes(Below) = {}
  BY <1>1 DEF Scopes, Shape, Top
<1>9. Scopes(Below) # {} => Scopes(stack) # {}
  BY <1>1 DEF Scopes
<1>10. Scopes(Below) = {} /\ Top.kind = "eval" => Scopes(stack) = {}
  BY <1>1 DEF Scopes, Top
<1>11. Scopes(Below) = {} /\ Top.kind = "eval" => Top.work = {}
  BY <1>2, <1>10, NoScopes
<1>12. CASE Scopes(Below) = {}
  <2>1. Merged = Below
    BY <1>12 DEF Merged
  <2>2. Depth(Below) = 0 /\ WorkOf(Below) = {}
    BY <1>2, <1>12, NoScopes
  <2> QED
    BY <1>1, <1>2, <1>3, <1>4, <1>6, <1>7, <1>8, <1>10, <1>11, <1>12, <2>1, <2>2
<1>13. CASE Scopes(Below) # {}
  <2>1. Merged = AddWork(Below, Top.work)
    BY <1>13 DEF Merged
  <2>2. /\ Shape(Merged) /\ Len(Merged) = Len(Below) /\ Depth(Merged) = Depth(Below)
        /\ Scopes(Merged) = Scopes(Below) /\ WorkOf(Merged) = WorkOf(Below) \cup Top.work
    BY <1>2, <1>5, <1>13, <2>1, ShapeAdd
  <2>3. Depth(Below) >= 1
    BY <1>2, <1>13, SomeScope
  <2> QED
    BY <1>1, <1>2, <1>3, <1>4, <1>6, <1>7, <1>8, <1>9, <1>13, <2>2, <2>3
<1> QED
  BY <1>12, <1>13

\* The stack once a block is entered.
LEMMA PushOutcome ==
  ASSUME NEW stk, Shape(stk), NEW kind \in {"txn_do", "bypass", "guard", "eval"}
  PROVE  LET new == Append(stk, NewFrame(kind))
         IN  /\ Len(new) = Len(stk) + 1 /\ Len(stk) \in Nat /\ new # <<>>
             /\ new[Len(new)] = NewFrame(kind)
             /\ SubSeq(new, 1, Len(new) - 1) = stk
             /\ Scopes(new) = IF kind = "eval" THEN Scopes(stk) ELSE Scopes(stk) \cup {Len(new)}
<1> DEFINE f == NewFrame(kind)
           new == Append(stk, f)
           n == Len(stk)
<1>1. f \in Frame /\ f.kind = kind /\ stk \in Seq(Frame)
  BY DEF NewFrame, Frame, Shape
<1> HIDE DEF f
<1>2. /\ new \in Seq(Frame) /\ Len(new) = n + 1 /\ n \in Nat /\ new # <<>>
      /\ new[n + 1] = f
      /\ \A i \in 1..n : new[i] = stk[i]
      /\ DOMAIN new = 1..(n + 1) /\ DOMAIN stk = 1..n
  BY <1>1
<1> HIDE DEF new
<1>3. SubSeq(new, 1, n) = stk
  <2>1. n <= Len(new)
    BY <1>2
  <2>2. /\ SubSeq(new, 1, n) \in Seq(Frame) /\ Len(SubSeq(new, 1, n)) = n
        /\ \A i \in 1..n : SubSeq(new, 1, n)[i] = new[i]
    BY <1>2, <2>1, Prefix
  <2> QED
    BY <1>1, <1>2, <2>2, SeqEqual
<1>4. Scopes(new) = IF kind = "eval" THEN Scopes(stk) ELSE Scopes(stk) \cup {n + 1}
  BY <1>1, <1>2 DEF Scopes
<1>5. Len(new) - 1 = n
  BY <1>2
<1> QED
  BY <1>2, <1>3, <1>4, <1>5 DEF new, f

------------------------------------------------------------------------------
(* One lemma per action: it keeps IInv, and it is a step of AtomicTxn *)

PromiseStep == [Promise!Next]_(Promise!vars)

LEMMA WorkWrites ==
  ASSUME NEW stk, Shape(stk)
  PROVE  WorkOf(stk) \subseteq Writes
<1>1. \A i \in DOMAIN stk : stk[i] \in Frame
  BY DEF Shape
<1> QED
  BY <1>1 DEF WorkOf, Frame

LEMMA Pending ==
  ASSUME NEW stk, Shape(stk)
  PROVE  WorkOf(stk) = IF Scopes(stk) # {} THEN WorkOf(stk) ELSE {}
BY NoScopes

\* In a running application the depth tells whether there is a scope.
LEMMA RunningDepth ==
  ASSUME IInv, Running
  PROVE  /\ st.depth = Depth(stack) /\ st.depth \in Nat
         /\ st.depth = 0 <=> Scopes(stack) = {}
         /\ st.depth = 0 => ~st.open
         /\ st.depth # 0 => st.depth > 0 /\ st.dbh # "none" /\ (st.dbh = "live" => st.open)
<1>1. st.depth = Depth(stack) /\ Shape(stack) /\ Sound(st)
  BY DEF IInv, BeginFailed
<1>2. st.depth \in Nat
  BY <1>1, CaughtSame
<1>3. st.depth = 0 <=> Scopes(stack) = {}
  BY <1>1, NoScopes, SomeScope
<1> QED
  BY <1>1, <1>2, <1>3 DEF IInv, Sound

LEMMA TxnDoStep ==
  ASSUME FlatUse, StorageAssumption, IInv, TxnDo
  PROVE  IInv' /\ PromiseStep
<1>1. /\ Shape(stack) /\ Sound(st) /\ st.err = "none" /\ Len(stack) \in Nat
      /\ WorkOf(stack) = IF Scopes(stack) # {} THEN WorkOf(stack) ELSE {}
  BY Pending DEF IInv, Shape
<1>2. CASE st.depth > 0
  <2>1. stack' = Append(stack, NewFrame("bypass")) /\ UNCHANGED <<st, exc, nextw, claims, aborted, undone>>
    BY <1>2 DEF TxnDo, FlatUse, Push, Bookless
  <2>2. Scopes(stack) # {} /\ Running /\ st.depth = Depth(stack)
    BY <1>2, RunningDepth DEF TxnDo, MayNest
  <2>3. Shape(stack') /\ Depth(stack') = Depth(stack) /\ WorkOf(stack') = WorkOf(stack)
    BY <1>1, <2>1, <2>2, ShapePush
  <2>4. Len(stack') = Len(stack) + 1 /\ Scopes(stack') # {}
    BY <1>1, <2>1, <2>2, PushOutcome
  <2>5. IInv'
    BY <1>1, <2>1, <2>2, <2>3, <2>4 DEF IInv, TxnDo, MayNest, StorageAssumption
  <2>6. UNCHANGED Promise!vars
    BY <2>1, <2>2, <2>3, <2>4 DEF Promise!vars, InScope, OpenWork
  <2> QED
    BY <2>5, <2>6 DEF PromiseStep
<1>3. CASE ~(st.depth > 0)
  <2>1. PICK s \in txn_do_attempt(st) :
          /\ st' = Caught(s) /\ exc' = s.err /\ stack' = Append(stack, NewFrame("txn_do"))
          /\ UNCHANGED <<nextw, claims, aborted, undone>>
    BY <1>3 DEF TxnDo, FlatUse, Push, Bookless, Settle
  <2>2. Scopes(stack) = {} /\ st.depth = 0 /\ Depth(stack) = 0 /\ ~st.open /\ WorkOf(stack) = {}
    BY <1>1, <1>3, RunningDepth DEF TxnDo, MayNest
  <2>3. /\ Sound(s) /\ s.committed = st.committed
        /\ \/ s.err = "none" /\ s.depth = 1 /\ s.dbh = "live" /\ s.open /\ s.work = {}
           \/ s.err = "error" /\ s.depth = 0 /\ ~s.open
    BY <1>1, <2>2, AttemptOutcome
  <2>4. Shape(stack') /\ Depth(stack') = 1 /\ WorkOf(stack') = {}
    BY <1>1, <2>1, <2>2, ShapePush
  <2>5. /\ Len(stack') = Len(stack) + 1 /\ Scopes(stack') # {} /\ stack' # <<>>
        /\ stack'[Len(stack')].kind = "txn_do"
        /\ Scopes(SubSeq(stack', 1, Len(stack') - 1)) = {}
    <3>1. /\ Len(stack') = Len(stack) + 1 /\ Scopes(stack') # {} /\ stack' # <<>>
          /\ stack'[Len(stack')] = NewFrame("txn_do")
          /\ SubSeq(stack', 1, Len(stack') - 1) = stack
      <4>1. LET new == Append(stack, NewFrame("txn_do"))
            IN  /\ Len(new) = Len(stack) + 1 /\ new # <<>>
                /\ new[Len(new)] = NewFrame("txn_do")
                /\ SubSeq(new, 1, Len(new) - 1) = stack
                /\ Scopes(new) = Scopes(stack) \cup {Len(new)}
        BY ONLY <1>1, "txn_do" \in {"txn_do", "bypass", "guard", "eval"}, "txn_do" # "eval", PushOutcome
      <4> QED
        BY <2>1, <4>1
    <3>2. NewFrame("txn_do").kind = "txn_do"
      BY DEF NewFrame
    <3> QED
      BY <2>2, <3>1, <3>2
  <2>6. /\ Sound(st') /\ st'.err = "none" /\ st'.committed = st.committed
        /\ st'.depth = s.depth /\ st'.open = s.open /\ st'.work = s.work /\ st'.dbh = s.dbh
    BY <2>1, <2>3, CaughtSame
  <2>7. st'.depth = Depth(stack') \/ BeginFailed'
    BY <2>1, <2>3, <2>4, <2>5, <2>6 DEF BeginFailed, Running, Top, Below
  <2>8. IInv'
    <3>1. Len(stack') <= MaxFrames
      BY <1>1, <2>5 DEF TxnDo, MayNest, StorageAssumption
    <3>2. exc' \in {"none", "error", "rollbackFailed"}
      BY <2>1, <2>3
    <3>3. /\ st'.dbh = "live" => (st'.open <=> st'.depth > 0)
          /\ st'.depth > 0 => st'.dbh # "none"
          /\ st'.open => st'.work = WorkOf(stack')
      BY <2>3, <2>4, <2>6
    <3> QED
      BY <2>1, <2>2, <2>4, <2>6, <2>7, <3>1, <3>2, <3>3 DEF IInv
  <2>9. Promise!Begin
    BY <2>1, <2>2, <2>4, <2>5, <2>6 DEF Promise!Begin, InScope, OpenWork
  <2> QED
    BY <2>8, <2>9 DEF PromiseStep, Promise!Next
<1> QED
  BY <1>2, <1>3

LEMMA GuardNewStep ==
  ASSUME FlatUse, StorageAssumption, IInv, GuardNew
  PROVE  IInv' /\ PromiseStep
<1>1. /\ Shape(stack) /\ Sound(st) /\ st.err = "none" /\ Len(stack) \in Nat
      /\ WorkOf(stack) = IF Scopes(stack) # {} THEN WorkOf(stack) ELSE {}
  BY Pending DEF IInv, Shape
<1>2. Running /\ UNCHANGED <<nextw, claims, aborted, undone>>
  BY DEF GuardNew, MayNest, Bookless
<1>3. /\ st.depth = Depth(stack) /\ st.depth \in Nat /\ (st.depth = 0 <=> Scopes(stack) = {})
      /\ st.depth = 0 => ~st.open
      /\ st.depth # 0 => st.dbh # "none" /\ (st.dbh = "live" => st.open)
  BY <1>2, RunningDepth
<1>4. PICK s \in txn_begin(st, in_dbh_do) :
        /\ st' = Caught(s) /\ exc' = s.err
        /\ IF s.err = "none" THEN stack' = Append(stack, NewFrame("guard")) ELSE UNCHANGED stack
  BY DEF GuardNew, Settle, Push
<1>5. in_dbh_do \in BOOLEAN
  BY DEF in_dbh_do
<1>6. /\ Sound(s) /\ s.committed = st.committed
      /\ st.depth # 0 => s = [st EXCEPT !.depth = @ + 1]
      /\ st.depth = 0 =>
           \/ s.err = "none" /\ s.depth = 1 /\ s.dbh = "live" /\ s.open /\ s.work = {}
           \/ s.err = "error" /\ s.depth = 0 /\ ~s.open
  BY <1>1, <1>3, <1>5, TxnBeginOutcome
<1>7. /\ Sound(st') /\ st'.err = "none" /\ st'.committed = st.committed
      /\ st'.depth = s.depth /\ st'.open = s.open /\ st'.work = s.work /\ st'.dbh = s.dbh
  BY <1>4, <1>6, CaughtSame
<1>8. st.depth # 0 =>
        /\ s.err = "none" /\ s.depth = st.depth + 1 /\ s.open = st.open
        /\ s.work = st.work /\ s.dbh = st.dbh
  BY <1>1, <1>6 DEF Sound, Session
<1>9. CASE s.err = "none"
  <2>1. /\ Shape(stack') /\ Depth(stack') = Depth(stack) + 1 /\ WorkOf(stack') = WorkOf(stack)
        /\ Len(stack') = Len(stack) + 1 /\ Scopes(stack') # {}
    BY <1>1, <1>4, <1>9, ShapePush, PushOutcome
  <2>2. st'.depth = Depth(stack')
    BY <1>3, <1>6, <1>7, <1>8, <1>9, <2>1
  <2>3. st.depth = 0 => WorkOf(stack) = {}
    BY <1>1, <1>3
  <2>4. st'.dbh = "live" => (st'.open <=> st'.depth > 0)
    BY <1>3, <1>6, <1>7, <1>8, <1>9
  <2>5. (st'.depth > 0 => st'.dbh # "none") /\ (st'.open => st'.work = WorkOf(stack'))
    BY <1>3, <1>6, <1>7, <1>8, <1>9, <2>1, <2>3 DEF IInv
  <2>6. IInv'
    BY <1>1, <1>2, <1>4, <1>7, <1>9, <2>1, <2>2, <2>4, <2>5
    DEF IInv, GuardNew, MayNest, StorageAssumption
  <2>7. CASE Scopes(stack) = {}
    BY <1>1, <1>2, <1>7, <2>1, <2>6, <2>7 DEF PromiseStep, Promise!Next, Promise!Begin, InScope, OpenWork
  <2>8. CASE Scopes(stack) # {}
    BY <1>1, <1>2, <1>7, <2>1, <2>6, <2>8 DEF PromiseStep, Promise!vars, InScope, OpenWork
  <2> QED
    BY <2>6, <2>7, <2>8
<1>10. CASE s.err # "none"
  <2>1. st.depth = 0 /\ s.err = "error" /\ s.depth = 0 /\ ~s.open /\ stack' = stack
    BY <1>4, <1>6, <1>8, <1>10
  <2>2. IInv'
    <3>1. /\ exc' = "error" /\ st'.depth = 0 /\ Depth(stack') = 0 /\ ~st'.open
          /\ st'.depth = Depth(stack')
      BY <1>3, <1>4, <1>7, <2>1
    <3> QED
      BY <1>2, <1>7, <2>1, <3>1 DEF IInv
  <2> QED
    BY <1>2, <1>7, <2>1, <2>2 DEF PromiseStep, Promise!vars, InScope, OpenWork
<1> QED
  BY <1>9, <1>10

LEMMA EvalBeginStep ==
  ASSUME FlatUse, StorageAssumption, IInv, EvalBegin
  PROVE  IInv' /\ PromiseStep
<1>1. /\ Shape(stack) /\ Len(stack) \in Nat /\ Running /\ Len(stack) < MaxFrames
      /\ stack' = Append(stack, NewFrame("eval"))
      /\ UNCHANGED <<st, exc, nextw, claims, aborted, undone>>
  BY DEF IInv, Shape, EvalBegin, MayNest, Push, Bookless
<1>2. Shape(stack') /\ Depth(stack') = Depth(stack) /\ WorkOf(stack') = WorkOf(stack)
  BY <1>1, ShapePush
<1>3. Len(stack') = Len(stack) + 1 /\ Scopes(stack') = Scopes(stack)
  BY <1>1, PushOutcome
<1>4. st.depth = Depth(stack) /\ Len(stack') <= MaxFrames
  BY <1>1, <1>3, RunningDepth DEF StorageAssumption
<1>5. IInv'
  BY <1>1, <1>2, <1>4 DEF IInv
<1> QED
  BY <1>1, <1>2, <1>3, <1>5 DEF PromiseStep, Promise!vars, InScope, OpenWork

\* A scope fails: the outermost one takes its writes with it, an inner one
\* leaves them to the scope around it.
LEMMA GiveUpStep ==
  ASSUME FlatUse, IInv, stack # <<>>, Top.kind # "eval", GiveUp,
         Sound(st'), st'.err = "none", st'.committed = st.committed,
         exc' \in {"none", "error", "rollbackFailed"}, UNCHANGED nextw,
         st'.depth = Depth(Merged),
         Scopes(Below) = {} => ~st'.open,
         Scopes(Below) # {} => st'.open = st.open /\ st'.work = st.work,
         st'.dbh = "live" => (st'.open <=> st'.depth > 0),
         st'.depth > 0 => st'.dbh # "none"
  PROVE  IInv' /\ PromiseStep
<1>1. /\ stack' = Merged /\ claims' = claims
      /\ undone' = undone \cup Top.work
      /\ aborted' = IF Scopes(Below) = {} THEN aborted \cup Top.work ELSE aborted
  BY DEF GiveUp, Disown, FlatUse
<1>2. /\ Shape(stack') /\ Len(stack') = Len(stack) - 1 /\ Len(stack) \in Nat
      /\ Top.work \subseteq Writes /\ Scopes(stack) # {}
      /\ Scopes(Below) = {} => WorkOf(stack') = {} /\ WorkOf(stack) = Top.work /\ Scopes(stack') = {}
      /\ Scopes(Below) # {} => WorkOf(stack') = WorkOf(stack) /\ Scopes(stack') # {}
  <2>1. Shape(stack) /\ Len(stack) \in Nat
    BY DEF IInv, Shape
  <2>2. Top \in Frame
    BY <2>1, MergedOutcome
  <2>3. Top.work \subseteq Writes
    BY <2>2 DEF Frame
  <2> QED
    BY <1>1, <2>1, <2>3, MergedOutcome
<1>3. Len(stack') <= MaxFrames
  BY <1>2, StorageAssumption DEF IInv, StorageAssumption
<1>4. CASE Scopes(Below) = {}
  <2>1. IInv'
    BY <1>1, <1>2, <1>3, <1>4 DEF IInv
  <2>2. Promise!Abort
    BY <1>1, <1>2, <1>4 DEF Promise!Abort, InScope, OpenWork, FlatUse
  <2> QED
    BY <2>1, <2>2 DEF PromiseStep, Promise!Next
<1>5. CASE Scopes(Below) # {}
  <2>1. IInv'
    BY <1>1, <1>2, <1>3, <1>5 DEF IInv
  <2>2. UNCHANGED Promise!vars
    BY <1>1, <1>2, <1>5 DEF Promise!vars, InScope, OpenWork, FlatUse
  <2> QED
    BY <2>1, <2>2 DEF PromiseStep
<1> QED
  BY <1>4, <1>5

\* A rollback keeps the depth in step with the blocks.
LEMMA RolledBackStep ==
  ASSUME FlatUse, IInv, stack # <<>>, Top.kind \in {"txn_do", "guard"}, GiveUp,
         NEW s \in txn_rollback(st), st' = Caught(s),
         exc' \in {"none", "error", "rollbackFailed"}, UNCHANGED nextw
  PROVE  IInv' /\ PromiseStep
<1>1. Sound(st) /\ st.err = "none" /\ Shape(stack) /\ st.depth \in Nat
  BY CaughtSame DEF IInv
<1>2. st.depth = 0 => ~st.open
  BY <1>1 DEF IInv, Sound
<1>3. /\ st.depth > 1 => s = [st EXCEPT !.depth = @ - 1]
      /\ st.depth \in {0, 1} =>
           Sound(s) /\ s.depth = 0 /\ ~s.open /\ s.committed = st.committed
  BY <1>1, <1>2, TxnRollbackOutcome
<1>4. /\ Depth(stack) \in Nat /\ Depth(Merged) \in Nat /\ Depth(Merged) = Depth(stack) - 1
      /\ Scopes(Below) = {} => Depth(Merged) = 0
      /\ Scopes(Below) # {} => Depth(Merged) >= 1
  BY <1>1, MergedOutcome
<1>5. CASE st.depth > 1
  <2>1. /\ Sound(s) /\ s.err = "none" /\ s.depth = st.depth - 1 /\ s.open = st.open
        /\ s.work = st.work /\ s.dbh = st.dbh /\ s.committed = st.committed
    BY <1>1, <1>3, <1>5 DEF Sound, Session
  <2>2. st' = s
    BY <2>1, CaughtSame
  <2>3. st.depth = Depth(stack) /\ Scopes(Below) # {}
    BY <1>4, <1>5 DEF IInv, BeginFailed
  <2>4. /\ st'.dbh = "live" => (st'.open <=> st'.depth > 0)
        /\ st'.depth > 0 => st'.dbh # "none"
    BY <1>1, <1>5, <2>1, <2>2 DEF IInv
  <2> QED
    BY <1>4, <2>1, <2>2, <2>3, <2>4, GiveUpStep
<1>6. CASE ~(st.depth > 1)
  <2>1. Sound(s) /\ s.depth = 0 /\ ~s.open /\ s.committed = st.committed
    BY <1>1, <1>3, <1>6
  <2>2. Scopes(Below) = {} /\ Depth(Merged) = 0
    BY <1>1, <1>4, <1>6 DEF IInv, BeginFailed
  <2>3. /\ Sound(st') /\ st'.err = "none" /\ st'.committed = st.committed
        /\ st'.depth = 0 /\ ~st'.open
    BY <2>1, CaughtSame
  <2> QED
    BY <2>2, <2>3, GiveUpStep
<1> QED
  BY <1>5, <1>6

LEMMA GuardAbandonStep ==
  ASSUME FlatUse, IInv, GuardAbandon
  PROVE  IInv' /\ PromiseStep
BY RolledBackStep DEF GuardAbandon, IInv

\* An eval block, or a nested txn_do without savepoints, is left normally or
\* by the exception the eval catches: nothing happens to the transaction.
LEMMA LeaveStep ==
  ASSUME FlatUse, IInv, stack # <<>>, Top.kind \in {"eval", "bypass"}, Succeed,
         UNCHANGED <<st, nextw>>, exc' \in {"none", "error", "rollbackFailed"}
  PROVE  IInv' /\ PromiseStep
<1>1. /\ stack' = Merged /\ UNCHANGED <<aborted, undone>>
      /\ claims' = IF Scopes(Below) = {} THEN claims \cup Top.work ELSE claims
  BY DEF Succeed
<1>2. /\ Shape(stack) /\ Len(stack) \in Nat /\ st.depth = Depth(stack)
  BY DEF IInv, Shape, BeginFailed
<1>3. /\ Shape(stack') /\ Len(stack') = Len(stack) - 1 /\ Depth(stack') = Depth(stack)
      /\ Scopes(Below) = {} => /\ WorkOf(stack') = {} /\ WorkOf(stack) = {} /\ Top.work = {}
                              /\ Scopes(stack') = {} /\ Scopes(stack) = {}
      /\ Scopes(Below) # {} => /\ WorkOf(stack') = WorkOf(stack)
                              /\ Scopes(stack') # {} /\ Scopes(stack) # {}
  BY <1>1, <1>2, MergedOutcome
<1>4. Len(stack') <= MaxFrames
  BY <1>2, <1>3, StorageAssumption DEF IInv, StorageAssumption
<1>5. /\ claims' = claims /\ WorkOf(stack') = WorkOf(stack)
      /\ (Scopes(stack') # {} <=> Scopes(stack) # {})
  BY <1>1, <1>3
<1>6. IInv'
  BY <1>1, <1>2, <1>3, <1>4, <1>5 DEF IInv
<1> QED
  BY <1>1, <1>5, <1>6 DEF PromiseStep, Promise!vars, InScope, OpenWork

LEMMA ReturnStep ==
  ASSUME FlatUse, IInv, Return
  PROVE  IInv' /\ PromiseStep
<1>1. Running /\ stack # <<>> /\ Shape(stack) /\ Sound(st) /\ st.err = "none" /\ UNCHANGED nextw
  BY DEF Return, IInv
<1>2. /\ st.depth = Depth(stack) /\ st.depth \in Nat
      /\ st.depth # 0 => st.dbh # "none" /\ (st.dbh = "live" => st.open)
  BY <1>1, RunningDepth
<1>3. Top \in Frame
  BY <1>1, MergedOutcome
<1>4. CASE Top.kind \in {"eval", "bypass"}
  <2>1. Settle(st) /\ Succeed
    BY <1>1, <1>4 DEF Return
  <2>2. st' = st /\ exc' = "none"
    BY <1>1, <2>1, CaughtSame DEF Settle
  <2> QED
    BY <1>1, <1>4, <2>1, <2>2, LeaveStep
<1>5. CASE Top.kind \in {"txn_do", "guard"}
  <2>1. PICK s \in txn_commit(st) :
          /\ st' = Caught(s) /\ exc' = s.err
          /\ IF s.err = "none" THEN Succeed ELSE Bookless /\ UNCHANGED stack
    BY <1>5 DEF Return, Settle
  <2>2. /\ Depth(Merged) = Depth(stack) - 1 /\ Shape(Merged) /\ Len(Merged) = Len(stack) - 1
        /\ Depth(Merged) \in Nat /\ Scopes(stack) # {}
        /\ Scopes(Below) = {} => /\ Depth(Merged) = 0 /\ WorkOf(Merged) = {}
                                /\ WorkOf(stack) = Top.work /\ Scopes(Merged) = {}
        /\ Scopes(Below) # {} => /\ Depth(Merged) >= 1 /\ WorkOf(Merged) = WorkOf(stack)
                                /\ Scopes(Merged) # {}
    BY <1>1, <1>5, MergedOutcome
  <2>3. st.depth # 0
    BY <1>2, <2>2
  <2>4. /\ st.depth > 1 => s = [st EXCEPT !.depth = @ - 1]
        /\ st.depth = 1 =>
             \/ /\ Sound(s) /\ s.err = "none" /\ s.depth = 0 /\ ~s.open /\ st.open
                /\ s.committed = st.committed \cup st.work
             \/ Refused(st, s)
    BY <1>1, <1>2, <2>3, TxnCommitOutcome
  <2>5. Len(Merged) <= MaxFrames
    BY <2>2, StorageAssumption DEF IInv, StorageAssumption, Shape
  <2>6. CASE st.depth > 1
    <3>1. s.err = "none" /\ s = [st EXCEPT !.depth = @ - 1] /\ Sound(s)
      BY <1>1, <2>4, <2>6 DEF Sound, Session
    <3>11. Scopes(Below) # {}
      BY <1>2, <2>2, <2>6
    <3>12. st' = s /\ exc' = "none" /\ Succeed
      BY <2>1, <3>1, CaughtSame
    <3>2. /\ st' = s /\ exc' = "none" /\ stack' = Merged /\ UNCHANGED <<aborted, undone, claims>>
      BY <3>11, <3>12 DEF Succeed
    <3>3. /\ st'.depth = Depth(stack') /\ WorkOf(stack') = WorkOf(stack)
          /\ Scopes(stack') # {} /\ Scopes(stack) # {}
      BY <1>1, <1>2, <2>2, <2>6, <3>1, <3>2 DEF Sound, Session
    <3>4. /\ st'.dbh = st.dbh /\ st'.open = st.open /\ st'.work = st.work
          /\ st'.committed = st.committed /\ st'.depth > 0 /\ st.depth > 0
      BY <1>1, <2>6, <3>1, <3>2 DEF Sound, Session
    <3>5. IInv'
      BY <1>1, <2>2, <2>5, <3>1, <3>2, <3>3, <3>4 DEF IInv
    <3> QED
      BY <3>2, <3>3, <3>4, <3>5 DEF PromiseStep, Promise!vars, InScope, OpenWork
  <2>7. CASE st.depth = 1 /\ s.err = "none"
    <3>1. /\ Sound(s) /\ s.depth = 0 /\ ~s.open /\ st.open
          /\ s.committed = st.committed \cup st.work
      BY <2>4, <2>7 DEF Refused
    <3>2. Scopes(Below) = {} /\ st.work = WorkOf(stack) /\ WorkOf(stack) = Top.work
      BY <1>2, <2>2, <2>7, <3>1 DEF IInv
    <3>3. /\ st' = s /\ exc' = "none" /\ stack' = Merged /\ UNCHANGED <<aborted, undone>>
          /\ claims' = claims \cup Top.work
      BY <2>1, <2>7, <3>1, <3>2, CaughtSame DEF Succeed
    <3>4. WorkOf(stack') = {} /\ Scopes(stack') = {} /\ Depth(stack') = 0
      BY <2>2, <3>2, <3>3
    <3>5. aborted \cap WorkOf(stack) = {}
      BY DEF IInv
    <3>6. IInv'
      BY <1>1, <2>2, <2>5, <2>7, <3>1, <3>2, <3>3, <3>4, <3>5 DEF IInv
    <3>7. Promise!Commit
      BY <2>2, <3>1, <3>2, <3>3, <3>4 DEF Promise!Commit, InScope, OpenWork, FlatUse
    <3> QED
      BY <3>6, <3>7 DEF PromiseStep, Promise!Next
  <2>8. CASE st.depth = 1 /\ s.err # "none"
    <3>1. Refused(st, s)
      BY <2>4, <2>8
    <3>2. /\ Sound(st') /\ st'.err = "none" /\ st'.depth = 1 /\ st'.committed = st.committed
          /\ st'.dbh # st.dbh => st'.dbh = "dead"
          /\ st'.dbh = "live" => st'.open = st.open /\ st'.work = st.work
      BY <2>1, <2>8, <3>1, CaughtSame DEF Refused
    <3>3. stack' = stack /\ UNCHANGED <<claims, aborted, undone>> /\ exc' = "error"
      BY <2>1, <2>8, <3>1 DEF Bookless, Refused
    <3>4. /\ st'.dbh = "live" => st'.open
          /\ st'.open => st'.work = WorkOf(stack) /\ st'.dbh = "live"
          /\ st'.dbh # "none"
      BY <1>2, <2>8, <3>2 DEF IInv, Sound
    <3>5. IInv'
      BY <1>1, <1>2, <2>8, <3>2, <3>3, <3>4 DEF IInv
    <3> QED
      BY <3>2, <3>3, <3>5 DEF PromiseStep, Promise!vars, InScope, OpenWork
  <2> QED
    BY <1>2, <2>3, <2>6, <2>7, <2>8
<1> QED
  BY <1>3, <1>4, <1>5 DEF Frame

\* dbh_do around a write. Inside a transaction the statement is not retried;
\* outside one it is, on the session there is or on a new one.
LEMMA DbhDoWriteOutcome ==
  ASSUME FlatUse, NEW s, Sound(s), s.err = "none", NEW in_do \in BOOLEAN, NEW w \in Writes,
         s.depth # 0 => s.dbh # "none" /\ (s.dbh = "live" => s.open),
         s.depth = 0 => ~s.open,
         NEW t \in dbh_do(s, in_do, w)
  PROVE  /\ Sound(t) /\ t.depth = s.depth
         /\ s.depth = 0 => ~t.open
         /\ s.depth # 0 => t.dbh # "none" /\ (t.dbh = "live" => t.open)
         /\ \/ /\ t.err = "none"
               /\ IF s.depth # 0 THEN t.open /\ s.open /\ t.work = s.work \cup {w}
                                      /\ t.committed = s.committed
                               ELSE t.committed = s.committed \cup {w}
            \/ /\ t.err = "error" /\ t.committed = s.committed
               /\ t.open => s.open /\ t.work = s.work
<1>0. \A d : Code(d, w) = WRITE(d, w)
  BY StorageAssumption DEF Code, BeginWork, Writes, StorageAssumption
<1>1. PICK c \in get_dbh(s) : t \in (IF c.err = "none"
         THEN IF in_do \/ c.depth > 0 THEN Code(c, w)
              ELSE UNION {IF u.err = "none" \/ connected(u) THEN {u}
                          ELSE Then(populate_dbh(Caught(u)), LAMBDA r : Code(r, w)) : u \in Code(c, w)}
         ELSE {c})
  BY DEF dbh_do, Then
<1>2. /\ Sound(c) /\ c.err = "none" /\ c.dbh # "none" /\ c.committed = s.committed
      /\ s.dbh # "none" => c = s
      /\ s.dbh = "none" => c.depth = 0 /\ ~c.open
  BY GetDbhOutcome
<1>3. /\ c.depth = s.depth /\ c.open = s.open /\ c.work = s.work
      /\ c.depth # 0 => (c.dbh = "live" => c.open)
      /\ c.depth \in Nat
  <2>1. CASE s.dbh = "none"
    <3>1. s.depth = 0 /\ ~s.open /\ s.work = {}
      BY <2>1 DEF Sound
    <3>2. c.depth = 0 /\ ~c.open /\ c.work = {} /\ c.open \in BOOLEAN /\ s.open \in BOOLEAN
      BY <1>2, <2>1, CaughtSame DEF Sound
    <3> QED
      BY <3>1, <3>2
  <2>2. CASE s.dbh # "none"
    BY <1>2, <2>2, CaughtSame
  <2> QED
    BY <2>1, <2>2
<1>4. ASSUME NEW d, Sound(d), d.err = "none", d.depth = s.depth, d.open = s.open,
             d.work = s.work, d.committed = s.committed, d.dbh # "none",
             d.depth # 0 => (d.dbh = "live" => d.open), NEW u \in WRITE(d, w)
      PROVE  /\ Sound(u) /\ u.depth = s.depth /\ u.dbh # "none"
             /\ s.depth = 0 => ~u.open
             /\ s.depth # 0 => (u.dbh = "live" => u.open)
             /\ \/ /\ u.err = "none"
                   /\ IF s.depth # 0 THEN u.open /\ s.open /\ u.work = s.work \cup {w}
                                          /\ u.committed = s.committed
                                   ELSE u.committed = s.committed \cup {w}
                \/ /\ u.err = "error" /\ u.committed = s.committed
                   /\ u.open => s.open /\ u.work = s.work
  <2>1. \/ /\ Sound(u) /\ u.err = "none" /\ u.dbh = "live"
           /\ u.depth = d.depth /\ u.open = d.open
           /\ IF d.open THEN u.work = d.work \cup {w} /\ u.committed = d.committed
                        ELSE u.committed = d.committed \cup {w}
        \/ Refused(d, u)
    BY <1>4, WriteOutcome
  <2>2. CASE Refused(d, u)
    BY <1>4, <2>2 DEF Refused, Sound
  <2>3. CASE ~Refused(d, u)
    <3>1. d.dbh = "live"
      BY <1>4, <2>3, StatementOutcome DEF WRITE
    <3> QED
      BY <1>4, <2>1, <2>3, <3>1
  <2> QED
    BY <2>2, <2>3
<1>5. CASE in_do \/ c.depth > 0
  <2>1. t \in WRITE(c, w)
    BY <1>0, <1>1, <1>2, <1>5
  <2> QED
    BY <1>2, <1>3, <1>4, <2>1
<1>6. CASE ~(in_do \/ c.depth > 0)
  <2>1. PICK u \in WRITE(c, w) : t \in (IF u.err = "none" \/ connected(u) THEN {u}
                          ELSE Then(populate_dbh(Caught(u)), LAMBDA r : Code(r, w)))
    BY <1>0, <1>1, <1>2, <1>6
  <2>2. CASE u.err = "none" \/ connected(u)
    BY <1>2, <1>3, <1>4, <2>1, <2>2
  <2>3. CASE ~(u.err = "none" \/ connected(u))
    <3>1. /\ Sound(u) /\ u.depth = 0 /\ s.depth = 0 /\ u.committed = s.committed
          /\ u.dbh # "live" /\ ~s.open
      BY <1>2, <1>3, <1>4, <1>6, <2>3 DEF connected
    <3>2. /\ Sound(Caught(u)) /\ Caught(u).err = "none" /\ Caught(u).dbh # "live"
          /\ Caught(u).committed = s.committed
      BY <3>1, CaughtSame
    <3>3. PICK v \in populate_dbh(Caught(u)) : t \in (IF v.err = "none" THEN WRITE(v, w) ELSE {v})
      BY <1>0, <2>1, <2>3 DEF Then
    <3>4. /\ Sound(v) /\ v.err = "none" /\ v.depth = 0 /\ ~v.open /\ v.dbh = "live"
          /\ v.committed = s.committed
      BY <3>2, PopulateOutcome
    <3>5. t \in WRITE(v, w) /\ v.work = s.work /\ v.open = s.open
      BY <3>1, <3>3, <3>4 DEF Sound, Session
    <3> QED
      BY <1>4, <3>1, <3>4, <3>5
  <2> QED
    BY <2>2, <2>3
<1> QED
  BY <1>5, <1>6

LEMMA WriteStep ==
  ASSUME FlatUse, IInv, Write
  PROVE  IInv' /\ PromiseStep
<1>1. Running /\ nextw \in Writes /\ Shape(stack) /\ Sound(st) /\ st.err = "none"
  BY DEF Write, IInv
<1>2. /\ st.depth = Depth(stack) /\ st.depth \in Nat /\ (st.depth = 0 <=> Scopes(stack) = {})
      /\ st.depth = 0 => ~st.open
      /\ st.depth # 0 => st.dbh # "none" /\ (st.dbh = "live" => st.open)
  BY <1>1, RunningDepth
<1>3. PICK s \in dbh_do(st, in_dbh_do, nextw) :
        /\ st' = Caught(s) /\ exc' = s.err
        /\ IF s.err # "none" THEN UNCHANGED <<stack, nextw, claims>>
           ELSE /\ nextw' = nextw + 1
                /\ IF InScope
                   THEN stack' = AddWork(stack, {nextw}) /\ UNCHANGED claims
                   ELSE claims' = claims \cup {nextw} /\ UNCHANGED stack
  BY DEF Write, Settle
<1>4. UNCHANGED <<aborted, undone>>
  BY DEF Write
<1>5. in_dbh_do \in BOOLEAN
  BY DEF in_dbh_do
<1>6. /\ Sound(s) /\ s.depth = st.depth
      /\ st.depth = 0 => ~s.open
      /\ st.depth # 0 => s.dbh # "none" /\ (s.dbh = "live" => s.open)
      /\ \/ /\ s.err = "none"
            /\ IF st.depth # 0 THEN s.open /\ st.open /\ s.work = st.work \cup {nextw}
                                    /\ s.committed = st.committed
                            ELSE s.committed = st.committed \cup {nextw}
         \/ /\ s.err = "error" /\ s.committed = st.committed
            /\ s.open => st.open /\ s.work = st.work
  BY <1>1, <1>2, <1>3, <1>5, DbhDoWriteOutcome
<1>7. /\ Sound(st') /\ st'.err = "none" /\ st'.committed = s.committed
      /\ st'.depth = s.depth /\ st'.open = s.open /\ st'.work = s.work /\ st'.dbh = s.dbh
  BY <1>3, <1>6, CaughtSame
<1>8. /\ st'.dbh = "live" => (st'.open <=> st'.depth > 0)
      /\ st'.depth > 0 => st'.dbh # "none"
  BY <1>2, <1>6, <1>7
<1>9. nextw + 1 \in 1..(MaxWrites + 1)
  BY <1>1, StorageAssumption DEF Writes, StorageAssumption
<1>10. /\ nextw \notin st.committed \cup WorkOf(stack) \cup aborted
       /\ \A v \in st.committed \cup WorkOf(stack) \cup aborted : v < nextw + 1
       /\ nextw < nextw + 1
  <2>1. st.committed \cup WorkOf(stack) \cup aborted \subseteq Writes
    BY <1>1, WorkWrites, CaughtSame DEF IInv
  <2>2. \A v \in Writes : v \in Int
    BY StorageAssumption DEF Writes, StorageAssumption
  <2>3. nextw \in Int
    BY <1>1, <2>2
  <2>4. \A v \in st.committed \cup WorkOf(stack) \cup aborted : v < nextw
    BY DEF IInv
  <2> HIDE DEF Writes
  <2> QED
    BY <2>1, <2>2, <2>3, <2>4
<1>11. CASE s.err # "none"
  <2>1. /\ UNCHANGED <<stack, nextw, claims>> /\ s.committed = st.committed
        /\ exc' = "error" /\ (st'.open => st'.work = WorkOf(stack))
    BY <1>3, <1>6, <1>7, <1>11 DEF IInv
  <2>2. IInv'
    BY <1>2, <1>4, <1>6, <1>7, <1>8, <2>1 DEF IInv
  <2> QED
    BY <1>4, <1>7, <2>1, <2>2 DEF PromiseStep, Promise!vars, InScope, OpenWork
<1>12. CASE s.err = "none" /\ st.depth = 0
  <2>1. /\ nextw' = nextw + 1 /\ claims' = claims \cup {nextw} /\ stack' = stack
        /\ st'.committed = st.committed \cup {nextw} /\ ~st'.open /\ exc' = "none"
    BY <1>2, <1>3, <1>6, <1>7, <1>12 DEF InScope
  <2>2. IInv'
    BY <1>2, <1>4, <1>6, <1>7, <1>8, <1>9, <1>10, <2>1 DEF IInv
  <2>3. Promise!AutoCommit(nextw)
    BY <1>2, <1>4, <1>10, <1>12, <2>1
    DEF Promise!AutoCommit, Promise!Fresh, InScope, OpenWork, FlatUse
  <2> QED
    BY <1>1, <2>2, <2>3 DEF PromiseStep, Promise!Next
<1>13. CASE s.err = "none" /\ st.depth # 0
  <2>1. /\ nextw' = nextw + 1 /\ UNCHANGED claims /\ stack' = AddWork(stack, {nextw})
        /\ st'.committed = st.committed /\ exc' = "none"
        /\ st'.open => st'.work = WorkOf(stack) \cup {nextw}
    BY <1>2, <1>3, <1>6, <1>7, <1>13 DEF InScope, IInv
  <2>2. Scopes(stack) # {} /\ {nextw} \in SUBSET Writes
    BY <1>1, <1>2, <1>13
  <2>3. /\ Shape(stack') /\ Len(stack') = Len(stack) /\ Depth(stack') = Depth(stack)
        /\ Scopes(stack') = Scopes(stack) /\ WorkOf(stack') = WorkOf(stack) \cup {nextw}
    BY <1>1, <2>1, <2>2, ShapeAdd
  <2>4. IInv'
    BY <1>2, <1>4, <1>6, <1>7, <1>8, <1>9, <1>10, <2>1, <2>3 DEF IInv
  <2>5. Promise!Write(nextw)
    BY <1>4, <1>10, <2>1, <2>2, <2>3
    DEF Promise!Write, Promise!Fresh, InScope, OpenWork, FlatUse
  <2> QED
    BY <1>1, <2>4, <2>5 DEF PromiseStep, Promise!Next
<1> QED
  BY <1>6, <1>11, <1>12, <1>13

LEMMA ThrowStep ==
  ASSUME IInv, Throw
  PROVE  IInv' /\ PromiseStep
<1>1. UNCHANGED <<st, stack, nextw, claims, aborted, undone>> /\ exc' = "error" /\ Running
  BY DEF Throw
<1>2. st.depth = Depth(stack)
  BY <1>1, RunningDepth
<1>3. IInv'
  BY <1>1, <1>2 DEF IInv
<1> QED
  BY <1>1, <1>3 DEF PromiseStep, Promise!vars, InScope, OpenWork

\* txn_do starts its block again: the same blocks, without the writes.
LEMMA Restarted ==
  ASSUME NEW stk, Shape(stk), stk # <<>>, stk[Len(stk)].kind = "txn_do",
         Scopes(SubSeq(stk, 1, Len(stk) - 1)) = {}
  PROVE  LET new == [stk EXCEPT ![Len(stk)] = [@ EXCEPT !.tried = TRUE, !.work = {}]]
         IN  /\ Shape(new) /\ Len(new) = Len(stk) /\ new # <<>>
             /\ new[Len(new)].kind = "txn_do"
             /\ SubSeq(new, 1, Len(new) - 1) = SubSeq(stk, 1, Len(stk) - 1)
             /\ Depth(new) = 1 /\ Scopes(new) # {} /\ WorkOf(new) = {}
<1> DEFINE n == Len(stk)
           below == SubSeq(stk, 1, n - 1)
           new == [stk EXCEPT ![n] = [@ EXCEPT !.tried = TRUE, !.work = {}]]
<1>1. stk \in Seq(Frame) /\ n \in Nat /\ n > 0 /\ n \in 1..n /\ n - 1 \in Nat /\ n - 1 <= n
  BY DEF Shape
<1>2. PICK f \in Frame : f = stk[n]
  BY <1>1
<1> DEFINE g == [f EXCEPT !.tried = TRUE, !.work = {}]
<1>3. g \in Frame /\ g.kind = "txn_do" /\ g.work = {}
  BY <1>2 DEF Frame
<1>4. new = [stk EXCEPT ![n] = g]
  BY <1>1, <1>2
<1> HIDE DEF g
<1>5. /\ new \in Seq(Frame) /\ Len(new) = n /\ new # <<>>
      /\ \A i \in 1..n : i # n => new[i] = stk[i]
      /\ new[n] = g
  <2>1. [stk EXCEPT ![n] = g] \in [1..n -> Frame]
    BY <1>1, <1>3
  <2> QED
    BY <1>1, <1>3, <1>4, <2>1
<1> HIDE DEF new, n
<1>6. /\ DOMAIN new = 1..n /\ DOMAIN stk = 1..n
      /\ \A i \in 1..n : new[i].kind = stk[i].kind
  BY <1>1, <1>2, <1>3, <1>5 DEF n
<1>7. SubSeq(new, 1, n - 1) = below
  <2>1. /\ SubSeq(new, 1, n - 1) \in Seq(Frame) /\ Len(SubSeq(new, 1, n - 1)) = n - 1
        /\ \A i \in 1..(n - 1) : SubSeq(new, 1, n - 1)[i] = new[i]
    BY <1>1, <1>5, Prefix
  <2>2. /\ below \in Seq(Frame) /\ Len(below) = n - 1
        /\ \A i \in 1..(n - 1) : below[i] = stk[i]
    BY <1>1, Prefix DEF n
  <2>3. \A i \in 1..(n - 1) : new[i] = stk[i]
    BY <1>1, <1>5
  <2> QED
    BY <2>1, <2>2, <2>3, SeqEqual
<1>8. Shape(new)
  <2>1. \A i \in 1..n : i \in Nat /\ i \in 1..i /\ \A j \in 1..i : j \in 1..n
    BY <1>1
  <2>2. ASSUME NEW i \in 1..n
        PROVE  /\ new[i].kind = "txn_do" => \A j \in 1..(i - 1) : new[j].kind = "eval"
               /\ new[i].kind = "bypass" =>
                    \E j \in 1..(i - 1) : new[j].kind \in {"txn_do", "guard"}
               /\ (\A j \in 1..i : new[j].kind = "eval") => new[i].work = {}
    <3>1. \A j \in 1..(i - 1) : new[j].kind = stk[j].kind
      BY <1>1, <1>6
    <3>2. (\A j \in 1..i : new[j].kind = "eval") => \A j \in 1..i : stk[j].kind = "eval"
      BY <1>6, <2>1
    <3> QED
      BY <1>3, <1>5, <1>6, <3>1, <3>2 DEF Shape
  <2> QED
    BY <1>5, <1>6, <2>2 DEF Shape
<1>9. WorkOf(new) = {}
  <2>1. Shape(below) /\ WorkOf(new) = WorkOf(below) \cup new[n].work
    BY <1>5, <1>7, <1>8, ShapePop DEF n
  <2>2. WorkOf(below) = {}
    BY <2>1, NoScopes DEF n
  <2> QED
    BY <1>3, <1>5, <2>1, <2>2
<1>10. Depth(new) = 1
  <2>1. Shape(below) /\ Depth(below) = 0
    BY <1>5, <1>7, <1>8, ShapePop, NoScopes DEF n
  <2>2. Depth(below) = Depth(new) - 1 /\ Depth(new) \in Nat
    BY <1>3, <1>5, <1>7, PopCount, CountedFinite
  <2> QED
    BY <2>1, <2>2
<1>11. Scopes(new) # {}
  BY <1>1, <1>3, <1>5, <1>6 DEF Scopes
<1> QED
  BY <1>3, <1>5, <1>7, <1>8, <1>9, <1>10, <1>11 DEF new, n

\* txn_do rolls back and rethrows, or it reconnects and starts again; what the
\* attempt before wrote is then part of no block any more.
LEMMA UnwindTxnDoStep ==
  ASSUME FlatUse, IInv, stack # <<>>, UnwindTxnDo, UNCHANGED nextw
  PROVE  IInv' /\ PromiseStep
<1>1. Top.kind = "txn_do" /\ Shape(stack) /\ Sound(st) /\ st.err = "none" /\ Len(stack) \in Nat
  BY DEF UnwindTxnDo, IInv, Shape
<1>2. CASE no_retry(Top, st)
  <2>1. GiveUp /\ \E s \in txn_rollback(st) : st' = Caught(s) /\ exc' = Rethrown(s)
    BY <1>2 DEF UnwindTxnDo
  <2>2. PICK s \in txn_rollback(st) : st' = Caught(s) /\ exc' = Rethrown(s)
    BY <2>1
  <2>3. exc' \in {"none", "error", "rollbackFailed"}
    BY <2>2 DEF Rethrown, IInv
  <2> QED
    BY <1>1, <2>1, <2>2, <2>3, RolledBackStep
<1>3. CASE ~no_retry(Top, st)
  <2>1. st.dbh # "live"
    BY <1>3 DEF no_retry, connected
  <2>2. PICK s \in populate_dbh(st) :
          IF s.err # "none" THEN Settle(s) /\ GiveUp
          ELSE /\ \E t \in txn_do_attempt(s) : Settle(t)
               /\ stack' = [stack EXCEPT ![Len(stack)] =
                              [@ EXCEPT !.tried = TRUE, !.work = {}]]
               /\ Disown(Top.work, Scopes(Below) = {})
    BY <1>3 DEF UnwindTxnDo
  <2>3. /\ Sound(s) /\ s.err = "none" /\ s.depth = 0 /\ ~s.open
        /\ s.committed = st.committed
    BY <1>1, <2>1, PopulateOutcome
  <2>4. PICK t \in txn_do_attempt(s) : st' = Caught(t) /\ exc' = t.err
    BY <2>2, <2>3 DEF Settle
  <2>5. /\ Sound(t) /\ t.committed = st.committed
        /\ \/ t.err = "none" /\ t.depth = 1 /\ t.dbh = "live" /\ t.open /\ t.work = {}
           \/ t.err = "error" /\ t.depth = 0 /\ ~t.open
    BY <2>3, AttemptOutcome
  <2>6. /\ Sound(st') /\ st'.err = "none" /\ st'.committed = st.committed
        /\ st'.depth = t.depth /\ st'.open = t.open /\ st'.work = t.work /\ st'.dbh = t.dbh
    BY <2>4, <2>5, CaughtSame
  <2>7. /\ Scopes(Below) = {} /\ WorkOf(stack) = Top.work /\ Scopes(stack) # {}
        /\ Top \in Frame /\ Top.work \subseteq Writes
    <3>1. Top \in Frame /\ Scopes(Below) = {} /\ WorkOf(stack) = Top.work /\ Scopes(stack) # {}
      BY <1>1, MergedOutcome
    <3> QED
      BY <3>1 DEF Frame
  <2>8. /\ claims' = claims /\ aborted' = aborted \cup Top.work /\ undone' = undone \cup Top.work
        /\ stack' = [stack EXCEPT ![Len(stack)] = [@ EXCEPT !.tried = TRUE, !.work = {}]]
    BY <2>2, <2>3, <2>7 DEF Disown
  <2>9. /\ Shape(stack') /\ Len(stack') = Len(stack) /\ stack' # <<>>
        /\ stack'[Len(stack')].kind = "txn_do"
        /\ Scopes(SubSeq(stack', 1, Len(stack') - 1)) = {}
        /\ Depth(stack') = 1 /\ Scopes(stack') # {} /\ WorkOf(stack') = {}
    BY <1>1, <2>7, <2>8, Restarted DEF Top, Below
  <2>10. st'.depth = Depth(stack') \/ BeginFailed'
    BY <2>4, <2>5, <2>6, <2>9 DEF BeginFailed, Running, Top, Below
  <2>11. /\ st'.dbh = "live" => (st'.open <=> st'.depth > 0)
         /\ st'.depth > 0 => st'.dbh # "none"
         /\ st'.open => st'.work = WorkOf(stack')
         /\ exc' \in {"none", "error", "rollbackFailed"}
    BY <2>4, <2>5, <2>6, <2>9
  <2>12. IInv'
    <3>1. /\ claims' = st'.committed /\ st'.committed \cap WorkOf(stack') = {}
          /\ st'.committed \cap aborted' = {} /\ WorkOf(stack') \cap aborted' = {}
          /\ \A w \in st'.committed \cup WorkOf(stack') \cup aborted' : w < nextw'
      BY <2>6, <2>7, <2>8, <2>9 DEF IInv
    <3>2. /\ Len(stack') <= MaxFrames /\ nextw' \in 1..(MaxWrites + 1)
          /\ aborted' \subseteq Writes /\ undone' \subseteq Writes
      BY <2>7, <2>8, <2>9 DEF IInv
    <3> QED
      BY <2>6, <2>9, <2>10, <2>11, <3>1, <3>2 DEF IInv
  <2>13. Promise!Undo(WorkOf(stack))
    BY <2>6, <2>7, <2>8, <2>9 DEF Promise!Undo, InScope, OpenWork, FlatUse
  <2>14. Promise!Next
    BY <2>7, <2>13 DEF Promise!Next, InScope, OpenWork
  <2> QED
    BY <2>12, <2>14 DEF PromiseStep
<1> QED
  BY <1>2, <1>3

LEMMA UnwindGuardStep ==
  ASSUME FlatUse, IInv, stack # <<>>, UnwindGuard, UNCHANGED nextw
  PROVE  IInv' /\ PromiseStep
<1>1. PICK s \in txn_rollback(st) :
        /\ st' = Caught(s)
        /\ exc' = IF s.err = "error" THEN "rollbackFailed" ELSE exc
  BY DEF UnwindGuard
<1>2. Top.kind = "guard" /\ GiveUp /\ exc' \in {"none", "error", "rollbackFailed"}
  BY <1>1 DEF UnwindGuard, IInv
<1> QED
  BY <1>1, <1>2, RolledBackStep

LEMMA UnwindBypassStep ==
  ASSUME FlatUse, IInv, stack # <<>>, UnwindBypass, UNCHANGED nextw
  PROVE  IInv' /\ PromiseStep
<1>1. Top.kind = "bypass" /\ GiveUp /\ UNCHANGED <<st, exc>>
  BY DEF UnwindBypass
<1>2. Shape(stack) /\ Sound(st) /\ st.depth = Depth(stack)
  BY <1>1 DEF IInv, BeginFailed
<1>3. Scopes(Below) # {} /\ Depth(Merged) = Depth(stack)
  BY <1>1, <1>2, MergedOutcome
<1> QED
  BY <1>1, <1>2, <1>3, GiveUpStep DEF IInv

LEMMA UnwindStep ==
  ASSUME FlatUse, IInv, Unwind
  PROVE  IInv' /\ PromiseStep
<1>1. CASE stack = <<>>
  <2>1. exc' = "none" /\ UNCHANGED <<st, stack, nextw, claims, aborted, undone>>
    BY <1>1 DEF Unwind, Bookless
  <2>2. IInv'
    BY <1>1, <2>1 DEF IInv, BeginFailed
  <2> QED
    BY <2>1, <2>2 DEF PromiseStep, Promise!vars, InScope, OpenWork
<1>2. CASE stack # <<>>
  <2>1. UNCHANGED nextw /\ (UnwindTxnDo \/ UnwindGuard \/ UnwindBypass \/ UnwindEval)
    BY <1>2 DEF Unwind
  <2>2. CASE UnwindEval
    BY <1>2, <2>1, <2>2, LeaveStep DEF UnwindEval
  <2> QED
    BY <1>2, <2>1, <2>2, UnwindTxnDoStep, UnwindGuardStep, UnwindBypassStep
<1> QED
  BY <1>1, <1>2

\* The session ends, on purpose or not: what it had not committed is gone.
LEMMA LostOutcome ==
  ASSUME NEW s, Sound(s), NEW dbh \in {"none", "dead"}
  PROVE  LET t == [Lost(s) EXCEPT !.dbh = dbh]
         IN  /\ Sound(t) /\ Sound(Lost(s)) /\ Lost(s).dbh = "dead" /\ t.dbh = dbh
             /\ t.err = s.err /\ t.depth = s.depth /\ ~t.open /\ t.committed = s.committed
             /\ Lost(s) = [Lost(s) EXCEPT !.dbh = "dead"]
BY DEF Sound, Session, Lost

LEMMA DisconnectStep ==
  ASSUME FlatUse, IInv, Disconnect
  PROVE  IInv' /\ PromiseStep
<1>1. /\ Running /\ Scopes(stack) = {} /\ Sound(st) /\ st.err = "none"
      /\ st' = [Lost(st) EXCEPT !.dbh = "none"]
      /\ UNCHANGED <<stack, exc, nextw, claims, aborted, undone>>
  BY DEF Disconnect, Bookless, InScope, IInv, FlatUse
<1>2. st.depth = Depth(stack) /\ st.depth = 0
  BY <1>1, RunningDepth
<1>3. /\ Sound(st') /\ st'.err = "none" /\ st'.depth = 0 /\ ~st'.open
      /\ st'.committed = st.committed /\ st'.dbh = "none"
  BY <1>1, <1>2, LostOutcome
<1>4. IInv'
  BY <1>1, <1>2, <1>3 DEF IInv
<1> QED
  BY <1>1, <1>3, <1>4 DEF PromiseStep, Promise!vars, InScope, OpenWork

LEMMA DropStep ==
  ASSUME IInv, Drop
  PROVE  IInv' /\ PromiseStep
<1>1. /\ Sound(st) /\ st.err = "none" /\ st' = Lost(st)
      /\ UNCHANGED <<stack, exc, nextw, claims, aborted, undone>>
  BY DEF Drop, Bookless, IInv
<1>2. /\ Sound(st') /\ st'.err = "none" /\ st'.depth = st.depth /\ ~st'.open
      /\ st'.committed = st.committed /\ st'.dbh = "dead"
  <2> DEFINE t == [Lost(st) EXCEPT !.dbh = "dead"]
  <2>1. /\ Sound(t) /\ t.err = st.err /\ t.depth = st.depth /\ ~t.open
        /\ t.committed = st.committed /\ t.dbh = "dead" /\ Lost(st) = t
    BY <1>1, LostOutcome
  <2> HIDE DEF t
  <2> QED
    BY <1>1, <2>1
<1>3. BeginFailed => BeginFailed'
  BY <1>1, <1>2 DEF BeginFailed, Running, Top, Below
<1>4. st'.depth = Depth(stack') \/ BeginFailed'
  <2>1. stack' = stack /\ Depth(stack') = Depth(stack) /\ st'.depth = st.depth
    BY <1>1, <1>2
  <2>2. st.depth = Depth(stack) \/ BeginFailed
    BY DEF IInv
  <2> QED
    BY <1>3, <2>1, <2>2
<1>5. /\ claims' = st'.committed /\ st'.committed \cap WorkOf(stack') = {}
      /\ st'.committed \cap aborted' = {} /\ WorkOf(stack') \cap aborted' = {}
      /\ \A w \in st'.committed \cup WorkOf(stack') \cup aborted' : w < nextw'
  BY <1>1, <1>2 DEF IInv
<1>6. IInv'
  BY <1>1, <1>2, <1>4, <1>5 DEF IInv
<1> QED
  BY <1>1, <1>2, <1>6 DEF PromiseStep, Promise!vars, InScope, OpenWork

LEMMA InitHolds ==
  ASSUME Init
  PROVE  IInv /\ Promise!Init
<1>1. Sound(st) /\ st.err = "none" /\ st.depth = 0 /\ ~st.open /\ st.committed = {} /\ st.dbh = "none"
  BY DEF Init, Sound, Session
<1>2. Scopes(stack) = {} /\ WorkOf(stack) = {} /\ Counted(stack) = {} /\ Shape(stack) /\ Len(stack) = 0
  BY DEF Init, Scopes, WorkOf, Counted, Shape
<1>3. Depth(stack) = 0
  BY <1>2, FS_EmptySet DEF Depth
<1>4. 1 \in 1..(MaxWrites + 1) /\ 0 <= MaxFrames
  BY StorageAssumption DEF StorageAssumption
<1>5. IInv
  BY <1>1, <1>2, <1>3, <1>4 DEF Init, IInv
<1>6. Promise!Init
  BY <1>1, <1>2 DEF Init, Promise!Init, InScope, OpenWork
<1> QED
  BY <1>5, <1>6

LEMMA NextStep ==
  ASSUME FlatUse, IInv, [Next]_vars
  PROVE  IInv' /\ PromiseStep
<1>1. CASE UNCHANGED vars
  <2>1. IInv'
    BY <1>1 DEF vars, IInv, BeginFailed, Running, Top, Below
  <2>2. UNCHANGED Promise!vars
    BY <1>1 DEF vars, Promise!vars, InScope, OpenWork
  <2> QED
    BY <2>1, <2>2 DEF PromiseStep
<1>2. CASE Next
  <2>1. ~SvpCall /\ ~CallDbh
    BY DEF FlatUse, SvpCall, CallDbh
  <2> QED
    BY <1>2, <2>1, StorageAssumption, TxnDoStep, GuardNewStep, EvalBeginStep, ReturnStep,
       GuardAbandonStep, WriteStep, ThrowStep, UnwindStep, DisconnectStep, DropStep
    DEF Next
<1> QED
  BY <1>1, <1>2

------------------------------------------------------------------------------
(* Theorems about transactions without savepoints *)

\* In every reachable state the depth counts the scopes, the session's
\* transaction holds exactly the writes of the blocks the application is in,
\* and no write is at once durable, pending or aborted.
THEOREM FlatInvariant ==
  ASSUME FlatUse
  PROVE  Spec => []IInv
<1>1. Init => IInv
  BY InitHolds
<1>2. IInv /\ [Next]_vars => IInv'
  BY NextStep
<1> QED
  BY <1>1, <1>2, PTL DEF Spec

\* txn_do and the guard report success only for writes that are durable.
THEOREM FlatClaimsDurable ==
  ASSUME FlatUse
  PROVE  Spec => []ClaimsDurable
<1>1. IInv => ClaimsDurable
  BY DEF IInv, ClaimsDurable
<1> QED
  BY <1>1, FlatInvariant, PTL

\* Nothing an outermost scope wrote before it failed, and nothing of the
\* attempt txn_do threw away to start again, is ever durable.
THEOREM FlatAbortedInvisible ==
  ASSUME FlatUse
  PROVE  Spec => []AbortedInvisible
<1>1. IInv => AbortedInvisible
  BY DEF IInv, AbortedInvisible
<1> QED
  BY <1>1, FlatInvariant, PTL

\* While a scope is open, nothing written in it is durable.
THEOREM FlatInFlightInvisible ==
  ASSUME FlatUse
  PROVE  Spec => []InFlightInvisible
<1>1. IInv => InFlightInvisible
  BY DEF IInv, InFlightInvisible, OpenWork
<1> QED
  BY <1>1, FlatInvariant, PTL

\* transaction_depth counts the scopes, and a connection that answers has a
\* transaction open exactly when the storage believes so.
THEOREM FlatDepthMatches ==
  ASSUME FlatUse
  PROVE  Spec => []DepthMatches
<1>1. IInv => DepthMatches
  BY DEF IInv, DepthMatches, BeginFailed, Depth, connected
<1> QED
  BY <1>1, FlatInvariant, PTL

\* Seen from outside, nested blocks are one atomic transaction: begun with the
\* outermost scope, and either committed as a whole or gone.
THEOREM FlatImplementsAtomicTxn ==
  ASSUME FlatUse
  PROVE  Spec => ImplementsAtomicTxn
<1>1. Init => Promise!Init
  BY InitHolds
<1>2. IInv /\ [Next]_vars => [Promise!Next]_(Promise!vars)
  BY NextStep DEF PromiseStep
<1> QED
  BY <1>1, <1>2, FlatInvariant, PTL DEF Spec, ImplementsAtomicTxn, Promise!Spec

==============================================================================
