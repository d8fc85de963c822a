----------------------- MODULE CatalystSessionProofs -----------------------
(***************************************************************************)
(* Sessions for any sets of clients, slots and addresses, any calls and    *)
(* faults: a client never sees what another put in its session, a deleted  *)
(* session stays deleted, a session stays with its address.  In the last   *)
(* part: a client that makes one request at a time finds what it left.     *)
(***************************************************************************)
EXTENDS CatalystSession, TLAPS

-----------------------------------------------------------------------------
(* The inductive invariant.  Its parts are about a request x, with n for   *)
(* nextSid and D for dead, and a function own from ids to the clients they *)
(* were made for.                                                          *)

\* The calls that need the session, and go on with Resume
Loading == {"session", "put", "flash", "putFlash", "valid", "delete", "expires", "change"}
           \cup (Calls \cap {"unbind"})

Fetching == {"loadExpires", "loadData", "deleteSession", "deleteExpires"}
Changing == {"changeSession", "changeExpires", "changeStore"}

\* A request in the middle of a handler: its ids need not be below the bounds.
Loose ==
  [pc : Steps, client : Clients \cup {None}, n : 0..MaxRequests,
   address : Addresses \cup {None}, sent : Sids, calls : 0..MaxCalls,
   then : AllCalls, sid : Nat, data : Data \cup {None}, sig : Data \cup {None},
   tried : BOOLEAN, expires : Times, extended : Times,
   flash : (SUBSET Items) \cup {None}, alias : BOOLEAN, hashes : SUBSET Items,
   kept : BOOLEAN, gone : BOOLEAN, old : Nat, out : Nat \cup {Unset}, expect : View]

\* Id i was made for client c, or is one this step has made.
Issued(i, c, sid, own, n) ==
  i > 0 => (i < n /\ own[i] = c) \/ (n <= i /\ i <= sid)

IdsIssued(x, own, n) ==
  \A i \in {x.sid, x.sent, x.old, x.out} : Issued(i, x.client, x.sid, own, n)

AllOf(S, c) == \A i \in S : i[1] = c

DataOf(d, c) == AllOf(d.items, c) /\ AllOf(d.flash, c)

\* What the request has in its hands is its client's.
Mine(x) ==
  /\ x.data # None => DataOf(x.data, x.client)
  /\ x.flash # None => AllOf(x.flash, x.client)
  /\ x.alias => x.flash \in SUBSET Items /\ AllOf(x.flash, x.client)

Sound(x, own, n) ==
  /\ x \in Loose
  /\ x.client \in Clients /\ x.address \in Addresses /\ x.n > 0
  /\ IdsIssued(x, own, n)
  /\ Mine(x)

\* The data has the address, or the application lets addresses change.
OfAddress(d, a) == VerifyAddress => d.address = a \/ (d.address = NoAddress /\ "unbind" \in Calls)

Addressed(x) == x.data # None => OfAddress(x.data, x.address)

\* A request that comes with the id of a deleted session has got no further
\* than to find it expired.
Late(x) ==
  \/ x.pc = "deliver"
  \/ /\ x.pc \in {"run", "saveSession", "saveFlash"} \cup (Fetching \ {"loadData"})
     /\ x.data = None /\ x.expires = 0
     /\ x.pc = "run" => ~x.tried

InPlace(x, D) ==
  /\ x.pc \in Fetching => x.sid > 0 /\ x.then \in Loading
  /\ x.pc \in Changing => /\ x.data \in Data /\ DataOf(x.data, x.client)
                          /\ x.old > 0 /\ x.sid > x.old
  /\ x.pc \notin Changing => x.old = NoSid
  /\ x.data # None /\ x.pc # "deliver" => sessionid(x) > 0
  /\ x.pc \notin {"deleteSession", "deleteExpires", "deliver"} => Addressed(x)
  /\ sessionid(x) \in D => Late(x)
  /\ x.old \in D => x.pc = "changeStore"

RequestInv(x, own, n, D) ==
  /\ x.pc # "idle" => Sound(x, own, n) /\ x.sid < n /\ InPlace(x, D)
  /\ x.pc = "idle" => x.data = None /\ x.flash = None

StoreInv(st, own, n) ==
  \A s \in 1..MaxSids : st[s] # None => s < n /\ DataOf(st[s], own[s])

CookieInv(ck, own, n) ==
  \A c \in Clients : ck[c] > 0 => ck[c] < n /\ own[ck[c]] = c

Owned(own) ==
  /\ StoreInv(session, own, nextSid)
  /\ CookieInv(cookie, own, nextSid)
  /\ \A r \in Slots : RequestInv(q[r], own, nextSid, dead)

Owners == [Sids -> Clients \cup {None}]

IInv ==
  /\ TypeOK
  /\ \A s \in dead : expires[s] = 0
  /\ \E own \in Owners : Owned(own)

-----------------------------------------------------------------------------
(* The request's own part of the plugin *)

\* A request that may go on with the call that needed the session
Ready(x, own) ==
  /\ Sound(x, own, nextSid) /\ x.sid < nextSid
  /\ Addressed(x)
  /\ x.old = NoSid
  /\ x.data # None => sessionid(x) > 0

\* What the client has not asked for stays as it is.
SameCall(x, y) ==
  /\ y.client = x.client /\ y.n = x.n /\ y.address = x.address /\ y.sent = x.sent
  /\ y.calls = x.calls /\ y.then = x.then /\ y.gone = x.gone /\ y.pc = x.pc

\* It has its session.
Holding(x) ==
  /\ x.data \in Data /\ DataOf(x.data, x.client)
  /\ OfAddress(x.data, x.address)

\* Numbers that are in use are in range.
LEMMA Bounds ==
  ASSUME TypeOK
  PROVE  /\ nextSid \in Nat /\ nextSid > 0 /\ nextSid <= MaxSids + 1
         /\ MaxSids \in Nat /\ MaxRequests \in Nat /\ MaxCalls \in Nat
         /\ clock \in Times /\ clock > 0 /\ initial_expires \in Times /\ 0 \in Times
         /\ initial_expires > 0
BY SessionAssumption DEF TypeOK, Times, initial_expires

\* A new id is nobody else's.
LEMMA CreateSound ==
  ASSUME TypeOK, NEW own, NEW x, Sound(x, own, nextSid), NEW k \in {0, 1},
         x.sid < nextSid + k
  PROVE  LET y == create_session_id(x, k)
         IN  /\ Sound(y, own, nextSid) /\ SameCall(x, y)
             /\ y.sid = nextSid + k /\ sessionid(y) = y.sid
             /\ y.data = x.data /\ y.old = x.old
             /\ y.flash = x.flash /\ y.alias = x.alias
<1> DEFINE y == create_session_id(x, k)
           id == nextSid + k
<1>1. x \in Loose
  BY DEF Sound
<1>2. nextSid \in Nat /\ nextSid > 0 /\ initial_expires \in Times /\ id \in Nat /\ id > 0
  BY Bounds
<1>3. y = [x EXCEPT !.sid = id, !.out = id, !.expires = initial_expires,
                    !.extended = initial_expires]
  BY DEF create_session_id, generate_session_id
<1>4. y \in Loose
  <2>1. initial_expires \in Times /\ id \in Nat
    BY <1>2
  <2> HIDE DEF id, y
  <2> QED
    BY <1>1, <1>3, <2>1 DEF Loose
<1>5. /\ y.sid = id /\ y.out = id /\ y.sent = x.sent /\ y.old = x.old
      /\ y.client = x.client /\ y.n = x.n /\ y.address = x.address
      /\ y.calls = x.calls /\ y.then = x.then /\ y.gone = x.gone /\ y.pc = x.pc
      /\ y.data = x.data /\ y.flash = x.flash /\ y.alias = x.alias
  BY <1>1, <1>3 DEF Loose
<1>6. x.sent \in Nat /\ x.old \in Nat /\ x.sid \in Nat
  BY <1>1 DEF Loose, Sids
<1>7. IdsIssued(y, own, nextSid)
  BY <1>2, <1>5, <1>6 DEF IdsIssued, Issued, Sound
<1>8. Sound(y, own, nextSid)
  BY <1>4, <1>5, <1>7 DEF Sound, Mine
<1> QED
  BY <1>2, <1>5, <1>8 DEF SameCall, sessionid, NoSid

\* session makes a session if there is none.
LEMMA LoadedSound ==
  ASSUME TypeOK, NEW own, NEW x, Ready(x, own)
  PROVE  LET y == Loaded(x)
         IN  /\ Sound(y, own, nextSid) /\ SameCall(x, y) /\ y.old = NoSid
             /\ Holding(y) /\ sessionid(y) > 0
             /\ \/ y.sid = x.sid /\ sessionid(y) = sessionid(x)
                \/ y.sid = nextSid /\ sessionid(y) = nextSid
             /\ y.flash = x.flash /\ y.alias = x.alias
<1> DEFINE y == Loaded(x)
           z == create_session_id_if_needed(x)
           d == [items |-> {}, flash |-> {}, updated |-> clock,
                 address |-> IF VerifyAddress THEN z.address ELSE NoAddress]
<1>1. Sound(x, own, nextSid) /\ x \in Loose /\ x.sid < nextSid
  BY DEF Ready, Sound
<1>2. nextSid \in Nat /\ nextSid > 0 /\ clock \in Times
  BY Bounds
<1>3. CASE x.data # None
  <2>1. y = x
    BY <1>3 DEF Loaded
  <2>2. x.data \in Data
    BY <1>1, <1>3 DEF Loose
  <2> QED
    BY <1>1, <1>3, <2>1, <2>2 DEF Ready, Sound, Mine, SameCall, Holding, Addressed
<1>4. CASE x.data = None
  <2>1. /\ Sound(z, own, nextSid) /\ SameCall(x, z) /\ z.old = NoSid
        /\ sessionid(z) > 0
        /\ \/ z.sid = x.sid /\ sessionid(z) = sessionid(x)
           \/ z.sid = nextSid /\ sessionid(z) = nextSid
        /\ z.flash = x.flash /\ z.alias = x.alias
    <3>1. CASE sessionid(x) = NoSid
      <4>1. z = create_session_id(x, 0) /\ x.sid < nextSid + 0
        BY <1>1, <1>2, <3>1 DEF create_session_id_if_needed
      <4> QED
        BY <1>1, <1>2, <4>1, CreateSound DEF Ready
    <3>2. CASE sessionid(x) # NoSid
      <4>1. z = x /\ sessionid(x) \in Nat
        BY <1>1, <3>2 DEF create_session_id_if_needed, Loose, sessionid, get_session_id, NoSid, Sids
      <4> QED
        BY <1>1, <3>2, <4>1 DEF Ready, SameCall, NoSid
    <3> QED
      BY <3>1, <3>2
  <2>2. z \in Loose /\ z.address \in Addresses
    BY <2>1 DEF Sound
  <2>3. y = [z EXCEPT !.data = d]
    BY <1>4 DEF Loaded, initialize_session_data
  <2>4. d \in Data
    BY <1>2, <2>2 DEF Data
  <2>5. y \in Loose
    <3> HIDE DEF d, z, y
    <3> QED
      BY <2>2, <2>3, <2>4 DEF Loose
  <2>6. /\ y.data = d /\ y.sid = z.sid /\ y.out = z.out /\ y.sent = z.sent /\ y.old = z.old
        /\ y.client = z.client /\ y.n = z.n /\ y.address = z.address
        /\ y.calls = z.calls /\ y.then = z.then /\ y.gone = z.gone /\ y.pc = z.pc
        /\ y.flash = z.flash /\ y.alias = z.alias
    BY <2>2, <2>3 DEF Loose
  <2>7. DataOf(d, y.client) /\ OfAddress(d, y.address)
    BY <2>6 DEF DataOf, AllOf, OfAddress
  <2>8. Sound(y, own, nextSid)
    BY <2>1, <2>5, <2>6, <2>7 DEF Sound, Mine, IdsIssued
  <2>9. sessionid(y) = sessionid(z)
    BY <2>6 DEF sessionid, get_session_id
  <2> QED
    BY <2>1, <2>4, <2>6, <2>7, <2>8, <2>9 DEF SameCall, Holding
<1> QED
  BY <1>3, <1>4

\* Reading the flash takes only what is in the session.
LEMMA FlashLoadedSound ==
  ASSUME NEW own, NEW n, NEW x, Sound(x, own, n), Holding(x)
  PROVE  LET y == load_flash(x)
         IN  /\ Sound(y, own, n) /\ SameCall(x, y) /\ y.flash \in SUBSET Items
             /\ AllOf(y.flash, y.client)
             /\ y.sid = x.sid /\ y.old = x.old /\ y.data = x.data
<1> DEFINE y == load_flash(x)
           f == x.data.flash
<1>1. x \in Loose /\ f \in SUBSET Items /\ (f # {}) \in BOOLEAN
  BY DEF Sound, Data, Holding
<1>2. PICK b \in BOOLEAN : b = (f # {})
  BY <1>1
<1>3. y = [x EXCEPT !.flash = f, !.hashes = f, !.alias = b]
  BY <1>2 DEF load_flash
<1>4. y \in Loose
  <2>1. x \in Loose /\ f \in SUBSET Items
    BY <1>1
  <2> HIDE DEF f, y
  <2> QED
    BY <1>3, <2>1 DEF Loose
<1>5. /\ y.data = x.data /\ y.sid = x.sid /\ y.out = x.out /\ y.sent = x.sent /\ y.old = x.old
      /\ y.client = x.client /\ y.n = x.n /\ y.address = x.address
      /\ y.calls = x.calls /\ y.then = x.then /\ y.gone = x.gone /\ y.pc = x.pc
      /\ y.flash = f
  BY <1>1, <1>3 DEF Loose
<1>6. AllOf(f, x.client)
  BY DEF DataOf, Holding
<1>7. Sound(y, own, n)
  BY <1>1, <1>4, <1>5, <1>6 DEF Sound, Mine, IdsIssued
<1> QED
  BY <1>1, <1>5, <1>6, <1>7 DEF SameCall

\* An application stores values of its own request.
LEMMA OwnItem ==
  ASSUME NEW own, NEW n, NEW x, Sound(x, own, n)
  PROVE  Own(x) \in Items /\ Own(x)[1] = x.client
BY DEF Sound, Loose, Own, Items

LEMMA PutFlashSound ==
  ASSUME NEW own, NEW n, NEW x, Sound(x, own, n), x.flash \in SUBSET Items,
         AllOf(x.flash, x.client)
  PROVE  LET y == put_flash(x)
         IN  /\ Sound(y, own, n) /\ SameCall(x, y) /\ y.sid = x.sid /\ y.old = x.old /\ y.data = x.data
<1> DEFINE y == put_flash(x)
           f == x.flash \cup {Own(x)}
<1>1. x \in Loose /\ f \in SUBSET Items /\ AllOf(f, x.client)
  BY OwnItem DEF Sound, AllOf
<1>2. y = [x EXCEPT !.flash = f]
  BY DEF put_flash
<1>3. y \in Loose
  BY <1>1, <1>2 DEF Loose
<1>4. /\ y.data = x.data /\ y.sid = x.sid /\ y.out = x.out /\ y.sent = x.sent /\ y.old = x.old
      /\ y.client = x.client /\ y.n = x.n /\ y.address = x.address
      /\ y.calls = x.calls /\ y.then = x.then /\ y.gone = x.gone /\ y.pc = x.pc
      /\ y.flash = f /\ y.alias = x.alias
  BY <1>1, <1>2 DEF Loose
<1>5. Sound(y, own, n)
  BY <1>1, <1>3, <1>4 DEF Sound, Mine, IdsIssued
<1> QED
  BY <1>4, <1>5 DEF SameCall

LEMMA PutSound ==
  ASSUME NEW own, NEW n, NEW x, Sound(x, own, n), Holding(x)
  PROVE  LET y == put(x)
         IN  /\ Sound(y, own, n) /\ SameCall(x, y) /\ y.sid = x.sid /\ y.old = x.old /\ Holding(y)
<1> DEFINE y == put(x)
           d == [x.data EXCEPT !.items = @ \cup {Own(x)}]
<1>1. x \in Loose
  BY DEF Sound
<1>2. /\ d \in Data /\ d.flash = x.data.flash /\ d.address = x.data.address
      /\ d.items = x.data.items \cup {Own(x)}
  BY OwnItem DEF Data, Holding
<1>3. DataOf(d, x.client)
  BY <1>2, OwnItem DEF DataOf, AllOf, Holding
<1>4. y = [x EXCEPT !.data = d]
  BY <1>1 DEF put
<1>5. y \in Loose
  <2>1. d \in Data
    BY <1>2
  <2> HIDE DEF d, y
  <2> QED
    BY <1>1, <1>4, <2>1 DEF Loose
<1>6. /\ y.data = d /\ y.sid = x.sid /\ y.out = x.out /\ y.sent = x.sent /\ y.old = x.old
      /\ y.client = x.client /\ y.n = x.n /\ y.address = x.address
      /\ y.calls = x.calls /\ y.then = x.then /\ y.gone = x.gone /\ y.pc = x.pc
      /\ y.flash = x.flash /\ y.alias = x.alias
  BY <1>1, <1>4 DEF Loose
<1>7. Sound(y, own, n)
  BY <1>3, <1>5, <1>6 DEF Sound, Mine, IdsIssued
<1>8. Holding(y)
  BY <1>2, <1>3, <1>6 DEF Holding, OfAddress
<1> QED
  BY <1>6, <1>7, <1>8 DEF SameCall

LEMMA UnbindSound ==
  ASSUME NEW own, NEW n, NEW x, Sound(x, own, n), Holding(x), "unbind" \in Calls
  PROVE  LET y == unbind(x)
         IN  /\ Sound(y, own, n) /\ SameCall(x, y) /\ y.sid = x.sid /\ y.old = x.old /\ Holding(y)
<1> DEFINE y == unbind(x)
           d == [x.data EXCEPT !.address = NoAddress]
<1>1. x \in Loose
  BY DEF Sound
<1>2. /\ d \in Data /\ d.flash = x.data.flash /\ d.address = NoAddress
      /\ d.items = x.data.items
  BY DEF Data, Holding
<1>3. DataOf(d, x.client)
  BY <1>2 DEF DataOf, Holding
<1>4. y = [x EXCEPT !.data = d]
  BY <1>1 DEF unbind
<1>5. y \in Loose
  <2>1. d \in Data
    BY <1>2
  <2> HIDE DEF d, y
  <2> QED
    BY <1>1, <1>4, <2>1 DEF Loose
<1>6. /\ y.data = d /\ y.sid = x.sid /\ y.out = x.out /\ y.sent = x.sent /\ y.old = x.old
      /\ y.client = x.client /\ y.n = x.n /\ y.address = x.address
      /\ y.calls = x.calls /\ y.then = x.then /\ y.gone = x.gone /\ y.pc = x.pc
      /\ y.flash = x.flash /\ y.alias = x.alias
  BY <1>1, <1>4 DEF Loose
<1>7. Sound(y, own, n)
  BY <1>3, <1>5, <1>6 DEF Sound, Mine, IdsIssued
<1>8. Holding(y)
  BY <1>2, <1>3, <1>6 DEF Holding, OfAddress
<1> QED
  BY <1>6, <1>7, <1>8 DEF SameCall

\* The session is given time; the browser is told its id only if it sent one.
LEMMA ExtendSound ==
  ASSUME TypeOK, NEW own, NEW x, Sound(x, own, nextSid)
  PROVE  LET y == extend_session_expires(x)
         IN  /\ Sound(y, own, nextSid) /\ SameCall(x, y) /\ y.sid = x.sid /\ y.old = x.old
             /\ y.data = x.data /\ y.expires = x.expires /\ y.tried = x.tried
             /\ y.flash = x.flash /\ sessionid(y) = sessionid(x)
<1> DEFINE y == extend_session_expires(x)
           id == IF x.sent # NoSid THEN sessionid(x) ELSE x.out
<1>1. x \in Loose /\ initial_expires \in Times
  BY Bounds DEF Sound
<1>2. id \in Nat \cup {Unset} /\ id \in {x.sid, x.sent, NoSid, x.out}
  BY <1>1 DEF Loose, sessionid, get_session_id, NoSid, Sids
<1>3. y = [x EXCEPT !.extended = initial_expires, !.out = id]
  BY <1>1 DEF extend_session_expires
<1>4. y \in Loose
  <2>1. id \in Nat \cup {Unset}
    BY <1>2
  <2> HIDE DEF id, y
  <2> QED
    BY <1>1, <1>3, <2>1 DEF Loose
<1>5. /\ y.data = x.data /\ y.sid = x.sid /\ y.out = id /\ y.sent = x.sent /\ y.old = x.old
      /\ y.client = x.client /\ y.n = x.n /\ y.address = x.address
      /\ y.calls = x.calls /\ y.then = x.then /\ y.gone = x.gone /\ y.pc = x.pc
      /\ y.flash = x.flash /\ y.alias = x.alias /\ y.expires = x.expires /\ y.tried = x.tried
  BY <1>1, <1>3 DEF Loose
<1>6. IdsIssued(y, own, nextSid)
  BY <1>2, <1>5 DEF IdsIssued, Issued, Sound, NoSid
<1>7. Sound(y, own, nextSid)
  BY <1>4, <1>5, <1>6 DEF Sound, Mine
<1> QED
  BY <1>5, <1>7 DEF SameCall, sessionid, get_session_id

\* Where a call of the plugin leads to from x, when it need not look further
Goes(x, y, own) ==
  /\ Sound(y, own, nextSid)
  /\ y.calls = x.calls
  /\ Addressed(y)
  /\ y.data # None => sessionid(y) > 0
  /\ sessionid(y) = sessionid(x) \/ sessionid(y) >= nextSid
  /\ \/ y.pc = "run" /\ y.old = NoSid
     \/ /\ y.pc = "changeSession" /\ Holding(y)
        /\ y.old > 0 /\ y.sid > y.old
        /\ y.old = sessionid(x) \/ y.old >= nextSid

\* The pc of a request is set.
LEMMA PcSound ==
  ASSUME NEW own, NEW n, NEW x, Sound(x, own, n), NEW pc \in Steps
  PROVE  LET y == [x EXCEPT !.pc = pc]
         IN  /\ Sound(y, own, n) /\ y.pc = pc
             /\ y.client = x.client /\ y.n = x.n /\ y.address = x.address /\ y.sent = x.sent
             /\ y.calls = x.calls /\ y.then = x.then /\ y.gone = x.gone
             /\ y.sid = x.sid /\ y.old = x.old /\ y.data = x.data
             /\ y.expires = x.expires /\ y.tried = x.tried /\ y.flash = x.flash
             /\ sessionid(y) = sessionid(x)
<1> DEFINE y == [x EXCEPT !.pc = pc]
<1>1. x \in Loose
  BY DEF Sound
<1>2. y \in Loose
  BY <1>1 DEF Loose
<1>3. /\ y.data = x.data /\ y.sid = x.sid /\ y.out = x.out /\ y.sent = x.sent /\ y.old = x.old
      /\ y.client = x.client /\ y.n = x.n /\ y.address = x.address
      /\ y.calls = x.calls /\ y.then = x.then /\ y.gone = x.gone /\ y.pc = pc
      /\ y.flash = x.flash /\ y.alias = x.alias /\ y.expires = x.expires /\ y.tried = x.tried
  BY <1>1 DEF Loose
<1>4. Sound(y, own, n)
  BY <1>2, <1>3 DEF Sound, Mine, IdsIssued
<1> QED
  BY <1>3, <1>4 DEF sessionid, get_session_id

\* What a request holds it may be given
LEMMA HoldingAddressed ==
  ASSUME NEW x, Holding(x)
  PROVE  Addressed(x)
BY DEF Holding, Addressed

\* A request that has its session, or a new one, goes on.
LEMMA GoesOn ==
  ASSUME NEW own, NEW x, NEW z, Sound(z, own, nextSid), z.calls = x.calls,
         z.old = NoSid, Addressed(z), z.data # None => sessionid(z) > 0,
         sessionid(z) = sessionid(x) \/ sessionid(z) >= nextSid
  PROVE  Goes(x, [z EXCEPT !.pc = "run"], own)
<1> DEFINE y == [z EXCEPT !.pc = "run"]
<1>1. "run" \in Steps
  BY DEF Steps
<1>2. /\ Sound(y, own, nextSid) /\ y.pc = "run" /\ y.calls = z.calls /\ y.old = z.old
      /\ y.data = z.data /\ y.address = z.address /\ sessionid(y) = sessionid(z)
  BY <1>1, PcSound
<1> QED
  BY <1>2 DEF Goes, Addressed

\* The call that needed the session goes on.
LEMMA ResumeGoes ==
  ASSUME TypeOK, NEW own, NEW x, Ready(x, own), x.then \in Loading
  PROVE  Goes(x, Resume(x), own)
<1> DEFINE l == Loaded(x)
<1>1. /\ Sound(l, own, nextSid) /\ SameCall(x, l) /\ l.old = NoSid
      /\ Holding(l) /\ sessionid(l) > 0
      /\ \/ l.sid = x.sid /\ sessionid(l) = sessionid(x)
         \/ l.sid = nextSid /\ sessionid(l) = nextSid
  BY LoadedSound
<1>2. Sound(x, own, nextSid) /\ Addressed(x) /\ x.old = NoSid /\ x.sid < nextSid
      /\ (x.data # None => sessionid(x) > 0)
  BY DEF Ready
<1>3. sessionid(l) = sessionid(x) \/ sessionid(l) >= nextSid
  BY <1>1, Bounds
<1> HIDE DEF l
<1>4. CASE x.then = "session"
  <2>1. Resume(x) = [l EXCEPT !.pc = "run"]
    BY <1>4 DEF Resume, l
  <2> QED
    BY <1>1, <1>3, <2>1, HoldingAddressed, GoesOn DEF SameCall
<1>5. CASE x.then = "put"
  <2> DEFINE z == put(l)
  <2>1. Resume(x) = [z EXCEPT !.pc = "run"]
    BY <1>5 DEF Resume, l
  <2>2. Sound(z, own, nextSid) /\ SameCall(l, z) /\ z.sid = l.sid /\ z.old = l.old /\ Holding(z)
    BY <1>1, PutSound
  <2> HIDE DEF z
  <2>3. sessionid(z) = sessionid(l)
    BY <2>2 DEF SameCall, sessionid, get_session_id
  <2> QED
    BY <1>1, <1>3, <2>1, <2>2, <2>3, HoldingAddressed, GoesOn DEF SameCall
<1>10. CASE x.then = "unbind" /\ "unbind" \in Calls
  <2> DEFINE z == unbind(l)
  <2>1. Resume(x) = [z EXCEPT !.pc = "run"]
    BY <1>10 DEF Resume, l
  <2>2. Sound(z, own, nextSid) /\ SameCall(l, z) /\ z.sid = l.sid /\ z.old = l.old /\ Holding(z)
    BY <1>1, <1>10, UnbindSound
  <2> HIDE DEF z
  <2>3. sessionid(z) = sessionid(l)
    BY <2>2 DEF SameCall, sessionid, get_session_id
  <2> QED
    BY <1>1, <1>3, <2>1, <2>2, <2>3, HoldingAddressed, GoesOn DEF SameCall
<1>6. CASE x.then \in {"flash", "putFlash"}
  <2> DEFINE f == load_flash(l)
             z == IF x.then = "flash" THEN f ELSE put_flash(f)
  <2>1. Resume(x) = [z EXCEPT !.pc = "run"]
    BY <1>6 DEF Resume, l
  <2>2. /\ Sound(f, own, nextSid) /\ SameCall(l, f) /\ f.flash \in SUBSET Items
        /\ AllOf(f.flash, f.client) /\ f.sid = l.sid /\ f.old = l.old /\ f.data = l.data
    BY <1>1, FlashLoadedSound
  <2> HIDE DEF f
  <2>3. Sound(z, own, nextSid) /\ SameCall(f, z) /\ z.sid = f.sid /\ z.old = f.old /\ z.data = f.data
    BY <2>2, PutFlashSound DEF SameCall
  <2> HIDE DEF z
  <2>4. sessionid(z) = sessionid(l) /\ Holding(z) /\ z.calls = x.calls
    BY <1>1, <2>2, <2>3 DEF SameCall, sessionid, get_session_id, Holding
  <2> QED
    BY <1>1, <1>3, <2>1, <2>2, <2>3, <2>4, HoldingAddressed, GoesOn
<1>7. CASE x.then \in {"valid", "delete"}
  <2>1. Resume(x) = [x EXCEPT !.pc = "run"]
    BY <1>7 DEF Resume
  <2> QED
    BY <1>2, <2>1, GoesOn
<1>8. CASE x.then = "expires"
  <2> DEFINE z == extend_session_expires(x)
  <2>1. Resume(x) = [z EXCEPT !.pc = "run"]
    BY <1>8 DEF Resume
  <2>2. /\ Sound(z, own, nextSid) /\ SameCall(x, z) /\ z.old = x.old
        /\ z.data = x.data /\ sessionid(z) = sessionid(x)
    BY <1>2, ExtendSound
  <2> HIDE DEF z
  <2> QED
    BY <1>2, <2>1, <2>2, GoesOn DEF SameCall, Addressed
<1>9. CASE x.then = "change"
  <2> DEFINE k == IF l.sid = nextSid THEN 1 ELSE 0
             z == create_session_id(l, k)
             y == [z EXCEPT !.pc = "changeSession", !.old = sessionid(l)]
  <2>1. Resume(x) = y
    BY <1>9 DEF Resume, l
  <2>2. l.sid < nextSid + k /\ k \in {0, 1}
    BY <1>1, <1>2, Bounds
  <2>3. /\ Sound(z, own, nextSid) /\ SameCall(l, z) /\ z.sid = nextSid + k
        /\ z.data = l.data /\ z.flash = l.flash /\ z.alias = l.alias
    BY <1>1, <2>2, CreateSound
  <2> HIDE DEF z
  <2>4. z \in Loose /\ l \in Loose
    BY <1>1, <2>3 DEF Sound
  <2>5. sessionid(l) \in {l.sid, l.sent} /\ sessionid(l) \in Nat
    BY <1>1, <2>4 DEF sessionid, get_session_id, NoSid, Loose, Sids
  <2>6. Issued(sessionid(l), l.client, l.sid, own, nextSid)
    BY <1>1, <2>5 DEF Sound, IdsIssued
  <2>7. /\ y.data = z.data /\ y.sid = z.sid /\ y.out = z.out /\ y.sent = z.sent
        /\ y.old = sessionid(l) /\ y.pc = "changeSession"
        /\ y.client = z.client /\ y.n = z.n /\ y.address = z.address
        /\ y.calls = z.calls /\ y.flash = z.flash /\ y.alias = z.alias
    BY <2>4 DEF Loose
  <2>8. y \in Loose
    BY <2>4, <2>5 DEF Loose, Steps
  <2>9. y.sid > y.old /\ y.sid >= nextSid /\ sessionid(y) = y.sid
    <3>1. sessionid(l) < nextSid + k /\ l.sid \in Nat
      BY <1>1, <2>2, <2>4, <2>5, <2>6, Bounds DEF Issued, Loose
    <3> QED
      BY <2>3, <2>5, <2>7, <3>1, Bounds DEF sessionid, NoSid
  <2>10. IdsIssued(y, own, nextSid)
    <3>1. \A i \in {z.sid, z.sent, z.old, z.out} : Issued(i, y.client, y.sid, own, nextSid)
      BY <2>3, <2>7 DEF Sound, IdsIssued
    <3>2. Issued(y.old, y.client, y.sid, own, nextSid)
      <4>1. y.client = l.client /\ l.sid \in Nat /\ l.sid <= y.sid /\ y.sid \in Nat
        BY <2>2, <2>3, <2>4, <2>7, Bounds DEF SameCall, Loose
      <4> QED
        BY <2>5, <2>7, <2>6, <4>1, Bounds DEF Issued
    <3> QED
      BY <2>7, <3>1, <3>2 DEF IdsIssued
  <2>11. Sound(y, own, nextSid)
    BY <2>3, <2>7, <2>8, <2>10 DEF Sound, Mine
  <2>12. Holding(y) /\ y.calls = x.calls
    BY <1>1, <2>3, <2>7 DEF Holding, SameCall
  <2> HIDE DEF y, k
  <2>13. Addressed(y)
    BY <2>12, HoldingAddressed
  <2>14. sessionid(y) > 0
    BY <2>5, <2>8, <2>9, Bounds DEF Loose
  <2>15. y.old > 0 /\ (y.old = sessionid(x) \/ y.old >= nextSid)
    BY <1>1, <1>3, <2>7
  <2> QED
    BY <2>1, <2>7, <2>9, <2>11, <2>12, <2>13, <2>14, <2>15 DEF Goes
<1> QED
  BY <1>4, <1>5, <1>6, <1>7, <1>8, <1>9, <1>10 DEF Loading

-----------------------------------------------------------------------------
(* Where a step may leave a request *)

\* Request y is where the invariant wants it, once the ids it made are given out.
Lands(y, own, D) == Sound(y, own, nextSid) /\ y.pc # "idle" /\ InPlace(y, D)

\* A call that found what it needed leaves the request in its place.
LEMMA GoesLands ==
  ASSUME TypeOK, NEW own, NEW x, NEW y, Goes(x, y, own),
         NEW D \in SUBSET (1..(nextSid - 1)), sessionid(x) \notin D
  PROVE  Lands(y, own, D)
<1>1. y \in Loose /\ nextSid \in Nat
  BY Bounds DEF Goes, Sound
<1>2. y.old \in Nat /\ y.sid \in Nat /\ sessionid(y) \in Nat
  BY <1>1 DEF Loose, sessionid, get_session_id, NoSid, Sids
<1>3. sessionid(y) \notin D
  BY <1>1, <1>2 DEF Goes
<1>4. CASE y.pc = "run" /\ y.old = NoSid
  <2>1. y.old \notin D
    BY <1>4 DEF NoSid
  <2> QED
    BY <1>3, <1>4, <2>1 DEF Goes, Lands, InPlace, Fetching, Changing
<1>5. CASE y.pc = "changeSession" /\ y.old > 0 /\ y.sid > y.old /\ Holding(y)
            /\ (y.old = sessionid(x) \/ y.old >= nextSid)
  <2>1. y.old \notin D
    BY <1>1, <1>2, <1>5
  <2> QED
    BY <1>3, <1>5, <2>1 DEF Goes, Lands, InPlace, Fetching, Changing, Holding
<1> QED
  BY <1>4, <1>5 DEF Goes

\* An id that a request has used is not past those given out.
LEMMA OwnIds ==
  ASSUME TypeOK, NEW own, NEW x, Sound(x, own, nextSid), x.sid < nextSid
  PROVE  /\ x.sid \in Nat /\ x.sent \in Nat /\ x.old \in Nat
         /\ sessionid(x) \in {x.sid, x.sent, NoSid} /\ sessionid(x) \in Nat
         /\ \A i \in {x.sid, x.sent, x.old, x.out} : i < nextSid
         /\ \A i \in {x.sid, x.sent, x.old, x.out} : i > 0 => own[i] = x.client
         /\ sessionid(x) < nextSid
<1>1. /\ x.sid \in Nat /\ x.sent \in Nat /\ x.old \in Nat /\ x.out \in Nat \cup {-1}
      /\ nextSid \in Nat /\ nextSid > 0
  BY Bounds DEF Sound, Loose, Sids, Unset
<1>2. sessionid(x) \in {x.sid, x.sent, NoSid}
  BY DEF sessionid, get_session_id
<1>3. \A i \in {x.sid, x.sent, x.old, x.out} : i > 0 => i < nextSid /\ own[i] = x.client
  BY <1>1 DEF Sound, IdsIssued, Issued
<1>4. \A i \in {x.sid, x.sent, x.old, x.out} : i < nextSid
  BY <1>1, <1>3
<1> QED
  BY <1>1, <1>2, <1>3, <1>4 DEF NoSid

\* A request that turns to the store for the session its id names
Fetches(x, pc) == [x EXCEPT !.sid = sessionid(x), !.pc = pc]

MayFetch(x, pc, own, D) ==
  /\ Sound(x, own, nextSid) /\ x.sid < nextSid /\ x.old = NoSid
  /\ pc \in Fetching /\ x.then \in Loading /\ sessionid(x) # NoSid
  /\ Addressed(x)
  /\ sessionid(x) \in D => pc # "loadData" /\ x.data = None /\ x.expires = 0

LEMMA FetchLands ==
  ASSUME TypeOK, NEW own, NEW x, NEW pc, MayFetch(x, pc, own, dead)
  PROVE  Lands(Fetches(x, pc), own, dead) /\ Fetches(x, pc).calls = x.calls
<1> DEFINE y == Fetches(x, pc)
<1>1. /\ Sound(x, own, nextSid) /\ x.sid < nextSid /\ x.old = NoSid
      /\ pc \in Fetching /\ x.then \in Loading /\ sessionid(x) # NoSid
      /\ Addressed(x)
      /\ sessionid(x) \in dead => pc # "loadData" /\ x.data = None /\ x.expires = 0
  BY DEF MayFetch
<1>2. x \in Loose /\ pc \in Steps /\ pc # "idle" /\ pc # "run" /\ pc \notin Changing
  BY <1>1 DEF Sound, Fetching, Changing, Steps
<1>3. sessionid(x) \in {x.sid, x.sent} /\ sessionid(x) \in Nat /\ sessionid(x) > 0
  BY <1>1, OwnIds DEF NoSid
<1>4. y \in Loose
  BY <1>2, <1>3 DEF Loose, Fetches
<1>5. /\ y.data = x.data /\ y.sid = sessionid(x) /\ y.out = x.out /\ y.sent = x.sent /\ y.old = x.old
      /\ y.client = x.client /\ y.n = x.n /\ y.address = x.address
      /\ y.calls = x.calls /\ y.then = x.then /\ y.pc = pc
      /\ y.flash = x.flash /\ y.alias = x.alias /\ y.expires = x.expires
  BY <1>2 DEF Loose, Fetches
<1> HIDE DEF y
<1>6. sessionid(y) = sessionid(x)
  BY <1>3, <1>5 DEF sessionid, NoSid
<1>7. IdsIssued(y, own, nextSid)
  <2>1. \A i \in {x.sid, x.sent, x.old, x.out} : i > 0 => i < nextSid /\ own[i] = x.client
    BY <1>1, OwnIds
  <2> QED
    BY <1>3, <1>5, <2>1 DEF IdsIssued, Issued
<1>8. Sound(y, own, nextSid)
  BY <1>1, <1>4, <1>5, <1>7 DEF Sound, Mine
<1>9. 0 \notin dead
  BY DEF TypeOK
<1>10. InPlace(y, dead)
  <2>1. sessionid(y) \in dead => Late(y)
    BY <1>1, <1>2, <1>5, <1>6 DEF Late
  <2>2. y.pc \notin {"deleteSession", "deleteExpires", "deliver"} => Addressed(y)
    BY <1>1, <1>5 DEF Addressed
  <2> QED
    BY <1>1, <1>2, <1>3, <1>5, <1>6, <1>9, <2>1, <2>2 DEF InPlace, NoSid
<1> QED
  BY <1>2, <1>5, <1>8, <1>10 DEF Lands, y

\* _load_session leaves the request in its place.
LEMMA LoadSessionLands ==
  ASSUME TypeOK, NEW own, NEW x, Ready(x, own), x.then \in Loading,
         sessionid(x) \in dead => x.data = None /\ x.expires = 0 /\ ~x.tried
  PROVE  Lands(load_session(x), own, dead) /\ load_session(x).calls = x.calls
<1>1. x \in Loose /\ Sound(x, own, nextSid) /\ x.sid < nextSid /\ x.old = NoSid
  BY DEF Ready, Sound
<1>2. dead \in SUBSET (1..(nextSid - 1))
  BY DEF TypeOK
<1> DEFINE z == [x EXCEPT !.tried = TRUE]
<1>3. z \in Loose
  BY <1>1 DEF Loose
<1>4. /\ z.data = x.data /\ z.sid = x.sid /\ z.out = x.out /\ z.sent = x.sent /\ z.old = x.old
      /\ z.client = x.client /\ z.n = x.n /\ z.address = x.address
      /\ z.calls = x.calls /\ z.then = x.then /\ z.gone = x.gone
      /\ z.flash = x.flash /\ z.alias = x.alias /\ z.expires = x.expires
  BY <1>1 DEF Loose
<1>5. CASE x.data # None \/ x.tried \/ sessionid(x) = NoSid
  <2>1. load_session(x) = Resume(z)
    BY <1>5 DEF load_session
  <2> HIDE DEF z
  <2>2. Sound(z, own, nextSid) /\ sessionid(z) = sessionid(x)
    BY <1>1, <1>3, <1>4 DEF Sound, Mine, IdsIssued, sessionid, get_session_id
  <2>3. Ready(z, own)
    BY <1>4, <2>2 DEF Ready, Addressed
  <2>4. Goes(z, Resume(z), own)
    BY <1>4, <2>3, ResumeGoes
  <2>5. sessionid(z) \notin dead
    BY <1>2, <1>5, <2>2 DEF NoSid
  <2> QED
    BY <1>2, <1>4, <2>1, <2>4, <2>5, GoesLands DEF Goes
<1>6. CASE ~(x.data # None \/ x.tried \/ sessionid(x) = NoSid)
  <2>1. PICK pc : pc = IF x.expires > 0 THEN "loadData" ELSE "loadExpires"
    OBVIOUS
  <2>2. load_session(x) = Fetches(z, pc)
    BY <1>1, <1>6, <2>1 DEF load_session, Loose, sessionid, get_session_id, Fetches
  <2> HIDE DEF z
  <2>3. Sound(z, own, nextSid) /\ sessionid(z) = sessionid(x)
    BY <1>1, <1>3, <1>4 DEF Sound, Mine, IdsIssued, sessionid, get_session_id
  <2>4. pc \in Fetching /\ sessionid(z) # NoSid
    BY <1>6, <2>1, <2>3 DEF Fetching
  <2>5. sessionid(z) \in dead => pc # "loadData" /\ z.data = None /\ z.expires = 0
    BY <1>4, <2>1, <2>3
  <2>6. Addressed(z)
    BY <1>4 DEF Ready, Addressed
  <2>7. MayFetch(z, pc, own, dead)
    BY <1>1, <1>4, <2>3, <2>4, <2>5, <2>6 DEF MayFetch
  <2> QED
    BY <1>4, <2>2, <2>7, FetchLands
<1> QED
  BY <1>5, <1>6

\* A call is counted, and the request remembers which it was.
LEMMA CalledLands ==
  ASSUME NEW own, NEW D, NEW y, Lands(y, own, D), y.calls > 0, MaxCalls \in Nat,
         NEW m \in AllCalls, y.pc \in Fetching => m \in Loading
  PROVE  Lands([y EXCEPT !.calls = @ - 1, !.then = m], own, D)
<1> DEFINE z == [y EXCEPT !.calls = @ - 1, !.then = m]
<1>1. y \in Loose
  BY DEF Lands, Sound
<1>2. y.calls \in 0..MaxCalls /\ y.calls - 1 \in 0..MaxCalls
  BY <1>1 DEF Loose
<1>3. z \in Loose
  <2>1. z = [y EXCEPT !.calls = y.calls - 1, !.then = m]
    BY <1>1 DEF Loose
  <2> QED
    BY <1>1, <1>2, <2>1 DEF Loose
<1>4. /\ z.data = y.data /\ z.sid = y.sid /\ z.out = y.out /\ z.sent = y.sent /\ z.old = y.old
      /\ z.client = y.client /\ z.n = y.n /\ z.address = y.address
      /\ z.then = m /\ z.gone = y.gone /\ z.pc = y.pc /\ z.expires = y.expires
      /\ z.flash = y.flash /\ z.alias = y.alias /\ z.tried = y.tried
  BY <1>1 DEF Loose
<1> HIDE DEF z
<1>5. Sound(z, own, nextSid)
  BY <1>3, <1>4 DEF Lands, Sound, Mine, IdsIssued
<1>6. sessionid(z) = sessionid(y)
  BY <1>4 DEF sessionid, get_session_id
<1>7. InPlace(z, D)
  BY <1>4, <1>6 DEF Lands, InPlace, Late, Addressed
<1> QED
  BY <1>4, <1>5, <1>7 DEF Lands, z

-----------------------------------------------------------------------------
(* What a step of one request leaves to the others *)

\* The owners, once request y has made its ids
Owning(own, n, y) == [s \in Sids |-> IF s < n THEN own[s] ELSE y.client]

\* Requests that did nothing keep what they had, whoever gets new ids.
LEMMA KeptOwned ==
  ASSUME NEW own, NEW own2, NEW n \in Nat, NEW m \in Nat, n <= m, MaxSids \in Nat,
         \A s \in Sids : s < n => own2[s] = own[s], n <= MaxSids + 1,
         NEW x, NEW D, RequestInv(x, own, n, D)
  PROVE  RequestInv(x, own2, m, D)
<1>1. CASE x.pc = "idle"
  BY <1>1 DEF RequestInv
<1>2. CASE x.pc # "idle"
  <2>1. Sound(x, own, n) /\ x.sid < n /\ InPlace(x, D) /\ x \in Loose
    BY <1>2 DEF RequestInv, Sound
  <2>2. x.sid \in Nat /\ x.sent \in Nat /\ x.old \in Nat /\ x.out \in Nat \cup {-1}
    BY <2>1 DEF Loose, Sids, Unset
  <2>3. IdsIssued(x, own2, m)
    BY <2>1, <2>2 DEF Sound, IdsIssued, Issued, Sids
  <2> QED
    BY <2>1, <2>2, <2>3 DEF RequestInv, Sound
<1> QED
  BY <1>1, <1>2

\* An id that other requests do not use may be retired.
LEMMA Retired ==
  ASSUME NEW own, NEW n, NEW x, NEW D, NEW s, RequestInv(x, own, n, D),
         x.pc # "idle" => s \notin {sessionid(x), x.old}
  PROVE  RequestInv(x, own, n, D \cup {s})
BY DEF RequestInv, InPlace

\* What a step of request y may write to the store
StoredBy(st, new, y) ==
  /\ new \in [Sids -> Data \cup {None}]
  /\ \A s \in Sids : \/ new[s] \in {st[s], None}
                     \/ s \in {NoSid, y.sid, y.sent} /\ DataOf(new[s], y.client)

\* A step of one request keeps the invariant if the request lands in its place.
LEMMA Continue ==
  ASSUME TypeOK, NEW own \in Owners, Owned(own), NEW r \in Slots, NEW y,
         Lands(y, own, dead'), Becomes(r, y),
         \A p \in Slots \ {r} : RequestInv(q[p], own, nextSid, dead'),
         StoredBy(session, session', y), expires' \in [Sids -> Times],
         dead' \in SUBSET (1..(nextSid - 1)), \A s \in dead' : expires'[s] = 0,
         nextReq' \in 1..(MaxRequests + 1), UNCHANGED <<cookie, clock, left>>
  PROVE  IInv'
<1> DEFINE n == nextSid
           m == nextSid'
<1>1. PICK own2 : own2 = Owning(own, n, y)
  OBVIOUS
<1>2. /\ n \in Nat /\ n > 0 /\ n <= MaxSids + 1 /\ MaxSids \in Nat
      /\ m = (IF y.sid >= n THEN y.sid + 1 ELSE n) /\ m <= MaxSids + 1
  BY Bounds DEF Becomes
<1>3. y \in Loose /\ Sound(y, own, n) /\ InPlace(y, dead') /\ y.pc # "idle"
  BY DEF Lands, Sound
<1>4. /\ y.sid \in Nat /\ y.sent \in Nat /\ y.old \in Nat /\ y.out \in Nat \cup {-1}
      /\ y.sent \in Sids
  BY <1>3 DEF Loose, Sids, Unset
<1>5. m \in Nat /\ n <= m /\ y.sid < m /\ m \in 1..(MaxSids + 1)
  BY <1>2, <1>4
<1>6. own2 \in Owners
  BY <1>1, <1>3 DEF Owners, Owning, Sound
<1>7. \A s \in Sids : s < n => own2[s] = own[s]
  BY <1>1 DEF Owning
<1>8. \A s \in Sids : ~(s < n) => own2[s] = y.client
  BY <1>1 DEF Owning
<1> HIDE DEF n, m
<1>9. IdsIssued(y, own2, m)
  <2> SUFFICES ASSUME NEW i \in {y.sid, y.sent, y.old, y.out}, i > 0
               PROVE  i < m /\ own2[i] = y.client
    BY DEF IdsIssued, Issued
  <2>1. i \in Nat
    BY <1>4
  <2>2. (i < n /\ own[i] = y.client) \/ (n <= i /\ i <= y.sid)
    BY <1>3 DEF Sound, IdsIssued, Issued
  <2>3. i \in Sids /\ i < m
    BY <1>2, <1>4, <1>5, <2>1, <2>2 DEF Sids
  <2> QED
    BY <1>2, <1>7, <1>8, <2>1, <2>2, <2>3
<1>10. y.sid \in Sids /\ y.old \in Sids /\ y.out \in Sids \cup {Unset}
  <2>1. \A i \in {y.sid, y.old, y.out} : i > 0 => i < m
    BY <1>9, <1>4, <1>5 DEF IdsIssued, Issued
  <2>2. \A i \in Nat : i < m => i \in Sids
    BY <1>2, <1>5 DEF Sids
  <2>3. y.sid \in Sids /\ y.old \in Sids
    BY <1>4, <1>5, <2>1, <2>2, <1>2
  <2>4. y.out \in Nat => y.out \in Sids
    BY <1>2, <1>5, <2>1, <2>2
  <2> QED
    BY <1>4, <2>3, <2>4 DEF Unset
<1>11. y \in Request
  <2>1. y = [y EXCEPT !.sid = y.sid, !.old = y.old, !.out = y.out]
    BY <1>3 DEF Loose
  <2> QED
    BY <1>3, <1>10 DEF Request, Loose
<1>12. RequestInv(y, own2, m, dead')
  BY <1>3, <1>5, <1>9 DEF RequestInv, Sound
<1>13. q \in [Slots -> Request] /\ q' = [q EXCEPT ![r] = y]
  BY DEF TypeOK, Becomes
<1>14. q' \in [Slots -> Request] /\ \A p \in Slots : q'[p] = IF p = r THEN y ELSE q[p]
  BY <1>11, <1>13
<1>15. \A p \in Slots : RequestInv(q'[p], own2, m, dead')
  <2> TAKE p \in Slots
  <2>1. CASE p = r
    BY <1>12, <1>14, <2>1
  <2>2. CASE p # r
    <3>1. RequestInv(q[p], own, n, dead')
      BY <2>2 DEF n
    <3>2. n \in Nat /\ m \in Nat /\ n <= m /\ MaxSids \in Nat /\ n <= MaxSids + 1
      BY <1>2, <1>5
    <3>3. RequestInv(q[p], own2, m, dead')
      BY <1>7, <3>1, <3>2, KeptOwned
    <3> QED
      BY <1>14, <2>2, <3>3
  <2> QED
    BY <2>1, <2>2
<1>16. StoreInv(session', own2, m)
  <2> SUFFICES ASSUME NEW s \in 1..MaxSids, session'[s] # None
               PROVE  s < m /\ DataOf(session'[s], own2[s])
    BY DEF StoreInv
  <2>1. s \in Sids /\ s > 0 /\ s \in Nat
    BY <1>2 DEF Sids
  <2>2. CASE session'[s] \in {session[s], None}
    <3>1. s < n /\ DataOf(session[s], own[s])
      BY <2>2 DEF Owned, StoreInv, n
    <3> QED
      BY <1>2, <1>5, <1>7, <2>1, <2>2, <3>1
  <2>3. CASE s \in {NoSid, y.sid, y.sent} /\ DataOf(session'[s], y.client)
    <3>1. Issued(s, y.client, y.sid, own2, m)
      BY <1>9, <2>1, <2>3 DEF IdsIssued, NoSid
    <3>2. s < m /\ own2[s] = y.client
      BY <1>2, <1>4, <1>5, <2>1, <3>1 DEF Issued
    <3> QED
      BY <2>3, <3>2
  <2> QED
    BY <2>1, <2>2, <2>3 DEF StoredBy
<1>17. CookieInv(cookie', own2, m)
  <2> SUFFICES ASSUME NEW c \in Clients, cookie[c] > 0
               PROVE  cookie[c] < m /\ own2[cookie[c]] = c
    BY DEF CookieInv
  <2>1. cookie[c] \in Sids /\ cookie[c] \in Nat
    BY DEF TypeOK, Sids
  <2>2. cookie[c] < n /\ own[cookie[c]] = c
    BY DEF Owned, CookieInv, n
  <2> QED
    BY <1>2, <1>5, <1>7, <2>1, <2>2
<1>18. Owned(own2)'
  BY <1>15, <1>16, <1>17 DEF Owned, m
<1>19. TypeOK'
  <2>1. dead' \in SUBSET (1..(m - 1))
    BY <1>2, <1>5 DEF n
  <2>2. session' \in [Sids -> Data \cup {None}]
    BY DEF StoredBy
  <2> QED
    BY <1>5, <1>14, <2>1, <2>2 DEF TypeOK, m
<1> QED
  BY <1>6, <1>18, <1>19 DEF IInv

\* A step of a request that deletes nothing
LEMMA ContinueAlone ==
  ASSUME TypeOK, NEW own \in Owners, Owned(own), \A s \in dead : expires'[s] = 0,
         NEW r \in Slots, NEW y, Lands(y, own, dead), Becomes(r, y),
         StoredBy(session, session', y), expires' \in [Sids -> Times],
         UNCHANGED <<cookie, clock, nextReq, left, dead>>
  PROVE  IInv'
<1>1. \A p \in Slots \ {r} : RequestInv(q[p], own, nextSid, dead')
  BY DEF Owned
<1>2. dead' \in SUBSET (1..(nextSid - 1))
  BY DEF TypeOK
<1>3. nextReq' \in 1..(MaxRequests + 1)
  BY DEF TypeOK
<1> QED
  BY <1>1, <1>2, <1>3, Continue

-----------------------------------------------------------------------------
(* The calls of the plugin *)

\* A request in the application's action may call the plugin.
LEMMA RunReady ==
  ASSUME TypeOK, NEW own, Owned(own), NEW r \in Slots, q[r].pc = "run",
         NEW m \in AllCalls
  PROVE  LET x == [q[r] EXCEPT !.then = m]
         IN  /\ Ready(x, own) /\ Lands(x, own, dead)
             /\ x.then = m /\ x.calls = q[r].calls /\ x.pc = "run"
             /\ sessionid(x) \in dead => x.data = None /\ x.expires = 0 /\ ~x.tried
<1> DEFINE x0 == q[r]
           x == [x0 EXCEPT !.then = m]
<1>1. /\ Sound(x0, own, nextSid) /\ x0.sid < nextSid /\ InPlace(x0, dead) /\ x0 \in Loose
      /\ x0.pc = "run"
  BY DEF Owned, RequestInv, Sound
<1>2. x \in Loose
  BY <1>1 DEF Loose
<1>3. /\ x.data = x0.data /\ x.sid = x0.sid /\ x.out = x0.out /\ x.sent = x0.sent /\ x.old = x0.old
      /\ x.client = x0.client /\ x.n = x0.n /\ x.address = x0.address /\ x.calls = x0.calls
      /\ x.then = m /\ x.gone = x0.gone /\ x.pc = x0.pc /\ x.expires = x0.expires
      /\ x.flash = x0.flash /\ x.alias = x0.alias /\ x.tried = x0.tried
  BY <1>1 DEF Loose
<1> HIDE DEF x, x0
<1>4. sessionid(x) = sessionid(x0)
  BY <1>3 DEF sessionid, get_session_id
<1>5. Sound(x, own, nextSid)
  BY <1>1, <1>2, <1>3 DEF Sound, Mine, IdsIssued
<1>6. /\ x0.old = NoSid /\ (x0.data # None => sessionid(x0) > 0) /\ Addressed(x0)
      /\ sessionid(x0) \in dead => x0.data = None /\ x0.expires = 0 /\ ~x0.tried
  BY <1>1 DEF InPlace, Late, Fetching, Changing
<1>7. InPlace(x, dead)
  <2>1. x.old \notin dead
    BY <1>3, <1>6 DEF TypeOK, NoSid
  <2> QED
    BY <1>1, <1>3, <1>4, <1>6, <2>1 DEF InPlace, Late, Fetching, Changing, Addressed
<1>8. Ready(x, own)
  BY <1>1, <1>3, <1>4, <1>5, <1>6 DEF Ready, Addressed
<1> QED
  BY <1>1, <1>3, <1>4, <1>5, <1>6, <1>7, <1>8 DEF Lands, x, x0

\* A step that writes nothing
LEMMA NothingStored ==
  ASSUME TypeOK, NEW y, UNCHANGED Stored
  PROVE  StoredBy(session, session', y) /\ expires' \in [Sids -> Times]
BY DEF StoredBy, TypeOK, Stored

\* A call that leaves the request in its place keeps the invariant.
LEMMA CallKeeps ==
  ASSUME IInv, NEW own \in Owners, Owned(own), NEW r \in Slots, NEW m, NEW y,
         Lands(y, own, dead), y.calls = q[r].calls, y.pc \in Fetching => m \in Loading,
         Call(r, m, y)
  PROVE  IInv'
<1> DEFINE z == [y EXCEPT !.calls = @ - 1, !.then = m]
<1>1. m \in AllCalls /\ MaxCalls \in Nat /\ TypeOK
  BY SessionAssumption DEF Call, IInv
<1>2. y.calls > 0 /\ Becomes(r, z) /\ UNCHANGED <<Stored, cookie, clock, nextReq, left, dead>>
  BY DEF Call, Ghosts
<1>3. Lands(z, own, dead)
  BY <1>1, <1>2, CalledLands
<1> HIDE DEF z
<1>4. StoredBy(session, session', z) /\ expires' \in [Sids -> Times]
  BY <1>1, <1>2, NothingStored
<1>5. \A s \in dead : expires'[s] = 0
  BY <1>2 DEF IInv, Stored
<1> QED
  BY <1>1, <1>2, <1>3, <1>4, <1>5, ContinueAlone

\* m is one of the calls the application makes.
LEMMA CallRuns ==
  ASSUME NEW r, NEW m, NEW y, Call(r, m, y)
  PROVE  q[r].pc = "run" /\ m \in AllCalls
BY SessionAssumption DEF Call

LEMMA CallSessionKeeps ==
  ASSUME IInv, CallSession
  PROVE  IInv'
<1>1. PICK own \in Owners : Owned(own)
  BY DEF IInv
<1>2. PICK r \in Slots, m \in {"session", "put", "unbind", "valid", "change"} :
        Call(r, m, load_session([q[r] EXCEPT !.then = m]))
  BY DEF CallSession
<1> DEFINE x == [q[r] EXCEPT !.then = m]
<1>3. q[r].pc = "run" /\ m \in AllCalls /\ m \in Loading /\ TypeOK
  BY <1>2, CallRuns DEF IInv, Loading, Call
<1>4. /\ Ready(x, own) /\ x.then = m /\ x.calls = q[r].calls
      /\ sessionid(x) \in dead => x.data = None /\ x.expires = 0 /\ ~x.tried
  BY <1>1, <1>3, RunReady
<1> HIDE DEF x
<1>5. Lands(load_session(x), own, dead) /\ load_session(x).calls = x.calls
  BY <1>3, <1>4, LoadSessionLands
<1> QED
  BY <1>1, <1>2, <1>3, <1>4, <1>5, CallKeeps DEF x

\* A request whose flash is its own remains in its place.
LEMMA FlashSet ==
  ASSUME NEW own, NEW D, NEW x, Lands(x, own, D), NEW f \in SUBSET Items,
         AllOf(f, x.client)
  PROVE  LET y == [x EXCEPT !.flash = f]
         IN  /\ Lands(y, own, D) /\ y.calls = x.calls /\ y.pc = x.pc
             /\ y.flash = f /\ y.client = x.client
<1> DEFINE y == [x EXCEPT !.flash = f]
<1>1. x \in Loose
  BY DEF Lands, Sound
<1>2. y \in Loose
  BY <1>1 DEF Loose
<1>3. /\ y.data = x.data /\ y.sid = x.sid /\ y.out = x.out /\ y.sent = x.sent /\ y.old = x.old
      /\ y.client = x.client /\ y.n = x.n /\ y.address = x.address /\ y.calls = x.calls
      /\ y.then = x.then /\ y.gone = x.gone /\ y.pc = x.pc /\ y.expires = x.expires
      /\ y.flash = f /\ y.alias = x.alias /\ y.tried = x.tried
  BY <1>1 DEF Loose
<1> HIDE DEF y
<1>4. sessionid(y) = sessionid(x)
  BY <1>3 DEF sessionid, get_session_id
<1>5. Sound(y, own, nextSid)
  BY <1>2, <1>3 DEF Lands, Sound, Mine, IdsIssued
<1>6. InPlace(y, D)
  BY <1>3, <1>4 DEF Lands, InPlace, Late, Addressed
<1> QED
  BY <1>3, <1>5, <1>6 DEF Lands, y

\* A request that makes an id for a session it has not got is in its place.
LEMMA CreateLands ==
  ASSUME TypeOK, NEW own, NEW x, Ready(x, own), Lands(x, own, dead), x.pc = "run"
  PROVE  LET y == create_session_id(x, 0)
         IN  Lands(y, own, dead) /\ SameCall(x, y)
<1> DEFINE y == create_session_id(x, 0)
<1>1. Sound(x, own, nextSid) /\ x.sid < nextSid + 0 /\ nextSid \in Nat /\ nextSid > 0
  BY Bounds DEF Ready, Sound, Loose
<1>2. /\ Sound(y, own, nextSid) /\ SameCall(x, y) /\ y.sid = nextSid + 0 /\ sessionid(y) = y.sid
      /\ y.data = x.data /\ y.old = x.old
  BY <1>1, CreateSound
<1> HIDE DEF y
<1>3. sessionid(y) \notin dead /\ sessionid(y) > 0 /\ y.old \notin dead
  BY <1>1, <1>2 DEF TypeOK, Ready, NoSid
<1>4. InPlace(y, dead)
  BY <1>2, <1>3 DEF InPlace, SameCall, Fetching, Changing, Ready, Addressed
<1> QED
  BY <1>2, <1>4 DEF Lands, SameCall, y

LEMMA PutFlashLands ==
  ASSUME NEW own, NEW D, NEW x, Lands(x, own, D), x.flash \in SUBSET Items,
         AllOf(x.flash, x.client)
  PROVE  Lands(put_flash(x), own, D) /\ put_flash(x).calls = x.calls /\ put_flash(x).pc = x.pc
<1> DEFINE f == x.flash \cup {Own(x)}
<1>1. f \in SUBSET Items /\ AllOf(f, x.client)
  BY OwnItem DEF Lands, AllOf
<1>2. put_flash(x) = [x EXCEPT !.flash = f]
  BY DEF put_flash
<1> HIDE DEF f
<1> QED
  BY <1>1, <1>2, FlashSet

LEMMA CallFlashKeeps ==
  ASSUME IInv, CallFlash
  PROVE  IInv'
<1>1. PICK own \in Owners : Owned(own)
  BY DEF IInv
<1> DEFINE X(r, m) == [q[r] EXCEPT !.then = m]
           Done(m, y) == IF m = "putFlash" THEN put_flash(y) ELSE y
           New(x) == [create_session_id(x, 0) EXCEPT !.flash = {}]
           Y(x, m) == IF x.flash # None THEN Done(m, x)
                      ELSE IF sessionid(x) = NoSid THEN Done(m, New(x))
                      ELSE load_session(x)
<1>2. PICK r \in Slots, m \in {"flash", "putFlash"} : Call(r, m, Y(X(r, m), m))
  BY DEF CallFlash
<1>3. PICK x : x = X(r, m)
  OBVIOUS
<1>4. q[r].pc = "run" /\ m \in AllCalls /\ m \in Loading /\ TypeOK
  BY <1>2, CallRuns DEF IInv, Loading
<1>5. /\ Ready(x, own) /\ Lands(x, own, dead)
      /\ x.then = m /\ x.calls = q[r].calls /\ x.pc = "run"
      /\ sessionid(x) \in dead => x.data = None /\ x.expires = 0 /\ ~x.tried
  BY <1>1, <1>3, <1>4, RunReady
<1> HIDE DEF X
<1>6. Lands(Y(x, m), own, dead) /\ Y(x, m).calls = x.calls
  <2>1. CASE x.flash # None
    <3>1. x.flash \in SUBSET Items /\ AllOf(x.flash, x.client)
      BY <1>5, <2>1 DEF Ready, Sound, Loose, Mine
    <3> QED
      BY <1>5, <2>1, <3>1, PutFlashLands
  <2>2. CASE x.flash = None /\ sessionid(x) = NoSid
    <3> DEFINE z == create_session_id(x, 0)
               y == [z EXCEPT !.flash = {}]
    <3>1. Lands(z, own, dead) /\ SameCall(x, z)
      BY <1>4, <1>5, CreateLands
    <3>2. {} \in SUBSET Items /\ AllOf({}, z.client)
      BY DEF AllOf
    <3> HIDE DEF z
    <3>3. /\ Lands(y, own, dead) /\ y.calls = z.calls
          /\ y.flash = {} /\ y.client = z.client
      BY <3>1, <3>2, FlashSet
    <3> HIDE DEF y
    <3>4. Lands(Done(m, y), own, dead) /\ Done(m, y).calls = y.calls
      BY <3>2, <3>3, PutFlashLands
    <3> QED
      BY <2>2, <3>1, <3>3, <3>4 DEF y, z, SameCall
  <2>3. CASE x.flash = None /\ sessionid(x) # NoSid
    BY <1>4, <1>5, <2>3, LoadSessionLands
  <2> QED
    BY <2>1, <2>2, <2>3
<1> HIDE DEF Y
<1> QED
  BY <1>1, <1>2, <1>3, <1>4, <1>5, <1>6, CallKeeps

LEMMA CallKeepFlashKeeps ==
  ASSUME IInv, CallKeepFlash
  PROVE  IInv'
<1>1. PICK own \in Owners : Owned(own)
  BY DEF IInv
<1>2. PICK r \in Slots : Call(r, "keepFlash", [q[r] EXCEPT !.kept = TRUE])
  BY DEF CallKeepFlash
<1> DEFINE x == q[r]
           y == [x EXCEPT !.kept = TRUE]
<1>3. x.pc = "run" /\ Lands(x, own, dead) /\ x \in Loose
  BY <1>1, <1>2, CallRuns DEF Owned, RequestInv, Lands, Sound
<1>4. y \in Loose
  BY <1>3 DEF Loose
<1>5. /\ y.data = x.data /\ y.sid = x.sid /\ y.out = x.out /\ y.sent = x.sent /\ y.old = x.old
      /\ y.client = x.client /\ y.n = x.n /\ y.address = x.address /\ y.calls = x.calls
      /\ y.then = x.then /\ y.gone = x.gone /\ y.pc = x.pc /\ y.expires = x.expires
      /\ y.flash = x.flash /\ y.alias = x.alias /\ y.tried = x.tried
  BY <1>3 DEF Loose
<1> HIDE DEF y
<1>6. sessionid(y) = sessionid(x)
  BY <1>5 DEF sessionid, get_session_id
<1>7. Sound(y, own, nextSid)
  BY <1>3, <1>4, <1>5 DEF Lands, Sound, Mine, IdsIssued
<1>8. InPlace(y, dead)
  BY <1>3, <1>5, <1>6 DEF Lands, InPlace, Late, Addressed
<1>9. Lands(y, own, dead) /\ y.pc \notin Fetching /\ y.calls = q[r].calls
  BY <1>3, <1>5, <1>7, <1>8 DEF Lands, Fetching
<1> QED
  BY <1>1, <1>2, <1>9, CallKeeps DEF y

LEMMA CallClearFlashKeeps ==
  ASSUME IInv, CallClearFlash
  PROVE  IInv'
<1>1. PICK own \in Owners : Owned(own)
  BY DEF IInv
<1> DEFINE Y(x) == [x EXCEPT !.flash = {}, !.alias = FALSE, !.hashes = {}, !.kept = FALSE,
                             !.expect.flash = {}]
<1>2. PICK r \in Slots : Call(r, "clearFlash", Y(q[r]))
  BY DEF CallClearFlash
<1> DEFINE x == q[r]
           y == Y(x)
<1>3. x.pc = "run" /\ Lands(x, own, dead) /\ x \in Loose
  BY <1>1, <1>2, CallRuns DEF Owned, RequestInv, Lands, Sound
<1>4. y \in Loose
  <2>1. [x.expect EXCEPT !.flash = {}] \in View
    BY <1>3 DEF Loose, View
  <2> QED
    BY <1>3, <2>1 DEF Loose
<1>5. /\ y.data = x.data /\ y.sid = x.sid /\ y.out = x.out /\ y.sent = x.sent /\ y.old = x.old
      /\ y.client = x.client /\ y.n = x.n /\ y.address = x.address /\ y.calls = x.calls
      /\ y.then = x.then /\ y.gone = x.gone /\ y.pc = x.pc /\ y.expires = x.expires
      /\ y.flash = {} /\ y.alias = FALSE /\ y.tried = x.tried
  BY <1>3 DEF Loose
<1> HIDE DEF y
<1>6. sessionid(y) = sessionid(x)
  BY <1>5 DEF sessionid, get_session_id
<1>7. Sound(y, own, nextSid)
  BY <1>3, <1>4, <1>5 DEF Lands, Sound, Mine, IdsIssued, AllOf
<1>8. InPlace(y, dead)
  BY <1>3, <1>5, <1>6 DEF Lands, InPlace, Late, Addressed
<1>9. Lands(y, own, dead) /\ y.pc \notin Fetching /\ y.calls = q[r].calls
  BY <1>3, <1>5, <1>7, <1>8 DEF Lands, Fetching
<1> QED
  BY <1>1, <1>2, <1>9, CallKeeps DEF y

LEMMA CallExpiresKeeps ==
  ASSUME IInv, CallExpires
  PROVE  IInv'
<1>1. PICK own \in Owners : Owned(own)
  BY DEF IInv
<1> DEFINE Y(x) == IF x.extended > 0 THEN x
                   ELSE IF x.expires > 0 THEN Resume(x)
                   ELSE IF sessionid(x) = NoSid THEN x
                   ELSE [x EXCEPT !.sid = sessionid(x), !.pc = "loadExpires"]
<1>2. PICK r \in Slots : Call(r, "expires", Y([q[r] EXCEPT !.then = "expires"]))
  BY DEF CallExpires
<1>3. q[r].pc = "run" /\ "expires" \in AllCalls /\ "expires" \in Loading /\ TypeOK
  BY <1>2, CallRuns DEF IInv, Loading
<1>4. PICK x : x = [q[r] EXCEPT !.then = "expires"]
  OBVIOUS
<1>5. /\ Ready(x, own) /\ Lands(x, own, dead)
      /\ x.then = "expires" /\ x.calls = q[r].calls /\ x.pc = "run"
      /\ sessionid(x) \in dead => x.data = None /\ x.expires = 0 /\ ~x.tried
  BY <1>1, <1>3, <1>4, RunReady
<1>6. Lands(Y(x), own, dead) /\ Y(x).calls = x.calls
  <2>1. CASE x.extended > 0
    BY <1>5, <2>1
  <2>2. CASE ~(x.extended > 0) /\ x.expires > 0
    <3>1. Goes(x, Resume(x), own)
      BY <1>3, <1>5, ResumeGoes
    <3>2. sessionid(x) \notin dead /\ dead \in SUBSET (1..(nextSid - 1))
      BY <1>3, <1>5, <2>2 DEF TypeOK
    <3> QED
      BY <1>3, <2>2, <3>1, <3>2, GoesLands DEF Goes
  <2>3. CASE ~(x.extended > 0) /\ ~(x.expires > 0) /\ sessionid(x) = NoSid
    BY <1>5, <2>3
  <2>4. CASE ~(x.extended > 0) /\ ~(x.expires > 0) /\ sessionid(x) # NoSid
    <3>1. Sound(x, own, nextSid) /\ x.sid < nextSid /\ x.old = NoSid /\ Addressed(x)
      BY <1>5 DEF Ready
    <3>2. "loadExpires" \in Fetching /\ x.then \in Loading
      BY <1>3, <1>5 DEF Fetching
    <3>3. MayFetch(x, "loadExpires", own, dead)
      BY <1>5, <2>4, <3>1, <3>2 DEF MayFetch
    <3>4. Y(x) = Fetches(x, "loadExpires")
      BY <2>4 DEF Fetches
    <3> QED
      BY <1>3, <3>3, <3>4, FetchLands
  <2> QED
    BY <2>1, <2>2, <2>3, <2>4
<1> HIDE DEF Y
<1> QED
  BY <1>1, <1>2, <1>3, <1>4, <1>5, <1>6, CallKeeps

\* A request forgets its session.
LEMMA ClearSound ==
  ASSUME NEW own, NEW n \in Nat, NEW x, Sound(x, own, n), x.sid < n
  PROVE  LET y == clear_session_instance_data(x)
         IN  /\ Sound(y, own, n) /\ SameCall(x, y) /\ y.old = x.old /\ y.out = x.out
             /\ y.sid = NoSid /\ y.data = None /\ y.flash = None /\ ~y.alias
             /\ sessionid(y) = get_session_id(x) /\ y.expires = 0 /\ ~y.tried
<1> DEFINE y == clear_session_instance_data(x)
<1>1. x \in Loose /\ 0 \in Times
  BY SessionAssumption DEF Sound, Times
<1>2. y \in Loose
  BY <1>1 DEF Loose, clear_session_instance_data, NoSid
<1>3. /\ y.data = None /\ y.sid = NoSid /\ y.out = x.out /\ y.sent = x.sent /\ y.old = x.old
      /\ y.client = x.client /\ y.n = x.n /\ y.address = x.address /\ y.calls = x.calls
      /\ y.then = x.then /\ y.gone = x.gone /\ y.pc = x.pc /\ y.expires = 0
      /\ y.flash = None /\ y.alias = FALSE /\ y.tried = FALSE
  BY <1>1 DEF Loose, clear_session_instance_data
<1> HIDE DEF y
<1>4. IdsIssued(y, own, n)
  <2> SUFFICES ASSUME NEW i \in {x.sent, x.old, x.out}, i > 0
               PROVE  i < n /\ own[i] = x.client
    BY <1>3 DEF IdsIssued, Issued, NoSid
  <2>1. x.sent \in Nat /\ x.old \in Nat /\ x.out \in Nat \cup {-1} /\ x.sid \in Nat
    BY <1>1 DEF Loose, Sids, Unset
  <2> QED
    BY <2>1 DEF Sound, IdsIssued, Issued
<1>5. Sound(y, own, n)
  BY <1>1, <1>2, <1>3, <1>4 DEF Sound, Mine
<1>6. sessionid(y) = get_session_id(x)
  BY <1>3 DEF sessionid, get_session_id
<1> QED
  BY <1>3, <1>5, <1>6 DEF SameCall, y

\* Which call it was is noted last.
LEMMA CallThen ==
  ASSUME NEW r, NEW m, NEW x \in Loose, NEW y, y = [x EXCEPT !.then = m], Call(r, m, x)
  PROVE  Call(r, m, y)
<1>1. [y EXCEPT !.calls = @ - 1, !.then = m] = [x EXCEPT !.calls = @ - 1, !.then = m]
  BY DEF Loose
<1> QED
  BY <1>1 DEF Call

LEMMA CallDeleteKeeps ==
  ASSUME IInv, CallDelete
  PROVE  IInv'
<1>1. PICK own \in Owners : Owned(own)
  BY DEF IInv
<1> DEFINE Y(x) == IF sessionid(x) = NoSid THEN clear_session_instance_data(x)
                   ELSE [x EXCEPT !.sid = sessionid(x), !.pc = "deleteSession"]
<1>2. PICK r \in Slots : Call(r, "delete", Y(q[r]))
  BY DEF CallDelete
<1>3. q[r].pc = "run" /\ "delete" \in Loading /\ "delete" \in AllCalls /\ TypeOK /\ nextSid \in Nat
  BY <1>2, CallRuns, Bounds DEF IInv, Loading
<1>4. PICK x : x = [q[r] EXCEPT !.then = "delete"]
  OBVIOUS
<1>5. /\ Ready(x, own) /\ x.then = "delete" /\ x.calls = q[r].calls /\ x.pc = "run"
      /\ sessionid(x) \in dead => x.data = None /\ x.expires = 0 /\ ~x.tried
  BY <1>1, <1>3, <1>4, RunReady
<1>6. /\ Sound(x, own, nextSid) /\ x.sid < nextSid /\ x \in Loose /\ x.old = NoSid
  BY <1>5 DEF Ready, Sound
<1>7. q[r] \in Loose
  BY <1>1, <1>3 DEF Owned, RequestInv, Sound
<1>8. sessionid(x) = sessionid(q[r])
  <2>1. x.sid = q[r].sid /\ x.sent = q[r].sent /\ x.gone = q[r].gone
    BY <1>4, <1>7 DEF Loose
  <2> QED
    BY <2>1 DEF sessionid, get_session_id
<1>9. CASE sessionid(x) = NoSid
  <2> DEFINE y == clear_session_instance_data(x)
  <2>1. /\ Sound(y, own, nextSid) /\ SameCall(x, y) /\ y.old = x.old
        /\ y.sid = NoSid /\ y.data = None /\ sessionid(y) = get_session_id(x)
    BY <1>3, <1>6, ClearSound
  <2>2. sessionid(y) = NoSid
    BY <1>9, <2>1 DEF sessionid
  <2> HIDE DEF y
  <2>3. InPlace(y, dead)
    BY <1>3, <1>5, <1>6, <2>1, <2>2 DEF InPlace, SameCall, Fetching, Changing, Addressed, NoSid, TypeOK
  <2>4. Lands(y, own, dead) /\ y.calls = q[r].calls /\ y.pc \notin Fetching
    BY <1>5, <2>1, <2>3 DEF Lands, SameCall, Fetching
  <2>5. Call(r, "delete", y)
    <3> DEFINE w == clear_session_instance_data(q[r])
    <3>1. w = Y(q[r])
      BY <1>9, <1>8
    <3>2. 0 \in Times
      BY SessionAssumption DEF Times
    <3>3. w \in Loose
      BY <1>7, <3>2 DEF clear_session_instance_data, Loose, NoSid
    <3>4. y = [w EXCEPT !.then = "delete"]
      BY <1>4, <1>7 DEF clear_session_instance_data, Loose, y
    <3> HIDE DEF w, Y
    <3> QED
      BY <1>2, <3>1, <3>3, <3>4, CallThen
  <2> QED
    BY <1>1, <1>3, <2>4, <2>5, CallKeeps
<1>10. CASE sessionid(x) # NoSid
  <2> DEFINE y == Fetches(x, "deleteSession")
  <2>1. "deleteSession" \in Fetching /\ Addressed(x)
    BY <1>5 DEF Ready, Fetching
  <2>2. MayFetch(x, "deleteSession", own, dead)
    BY <1>3, <1>5, <1>6, <1>10, <2>1 DEF MayFetch
  <2>3. Lands(y, own, dead) /\ y.calls = x.calls
    BY <1>3, <2>2, FetchLands
  <2>4. Call(r, "delete", y)
    <3> DEFINE w == Fetches(q[r], "deleteSession")
    <3>1. sessionid(q[r]) \in Nat
      BY <1>3, <1>6, <1>8, OwnIds
    <3>2. w = Y(q[r])
      BY <1>10, <1>8 DEF Fetches
    <3>3. w \in Loose
      BY <1>7, <3>1 DEF Loose, Steps, Fetches
    <3>4. y = [w EXCEPT !.then = "delete"]
      BY <1>4, <1>7, <1>8 DEF Loose, Fetches
    <3> HIDE DEF w, y, Y
    <3> QED
      BY <1>2, <3>2, <3>3, <3>4, CallThen
  <2> HIDE DEF y
  <2> QED
    BY <1>1, <1>3, <1>5, <2>3, <2>4, CallKeeps
<1> QED
  BY <1>9, <1>10

-----------------------------------------------------------------------------
(* The steps of a call *)

\* A request given what it read, and where it goes with it
Given(x, d, g, e, v, pc) ==
  [x EXCEPT !.data = d, !.sig = g, !.expires = e, !.expect = v, !.pc = pc]

MayGive(x, d, g, e, v, pc) ==
  /\ d \in Data \cup {None} /\ g \in Data \cup {None} /\ e \in Times /\ v \in View /\ pc \in Steps
  /\ d # None => DataOf(d, x.client)

\* y is x, with session data d, expiry time e and step pc.
GivenFacts(x, y, d, e, pc) ==
  /\ y.data = d /\ y.sid = x.sid /\ y.out = x.out /\ y.sent = x.sent /\ y.old = x.old
  /\ y.client = x.client /\ y.n = x.n /\ y.address = x.address /\ y.calls = x.calls
  /\ y.then = x.then /\ y.gone = x.gone /\ y.pc = pc /\ y.expires = e
  /\ y.flash = x.flash /\ y.alias = x.alias /\ y.tried = x.tried
  /\ sessionid(y) = sessionid(x)

LEMMA GivenSound ==
  ASSUME NEW own, NEW n, NEW x, Sound(x, own, n), NEW d, NEW g, NEW e, NEW v, NEW pc,
         MayGive(x, d, g, e, v, pc)
  PROVE  LET y == Given(x, d, g, e, v, pc)
         IN  Sound(y, own, n) /\ GivenFacts(x, y, d, e, pc)
<1> DEFINE y == Given(x, d, g, e, v, pc)
<1>1. x \in Loose
  BY DEF Sound
<1>2. y \in Loose
  BY <1>1 DEF Loose, Given, MayGive
<1>3. /\ y.data = d /\ y.sid = x.sid /\ y.out = x.out /\ y.sent = x.sent /\ y.old = x.old
      /\ y.client = x.client /\ y.n = x.n /\ y.address = x.address /\ y.calls = x.calls
      /\ y.then = x.then /\ y.gone = x.gone /\ y.pc = pc /\ y.expires = e
      /\ y.flash = x.flash /\ y.alias = x.alias /\ y.tried = x.tried
  BY <1>1 DEF Loose, Given
<1> HIDE DEF y
<1>4. Sound(y, own, n)
  BY <1>2, <1>3 DEF Sound, Mine, IdsIssued, MayGive
<1> QED
  BY <1>3, <1>4 DEF sessionid, get_session_id, y, GivenFacts

\* A request in a step of a call is typed, and has what its step needs.
LEMMA StepReady ==
  ASSUME IInv, NEW own, Owned(own), NEW r \in Slots, NEW pc \in Steps \ {"idle"}, q[r].pc = pc
  PROVE  /\ Sound(q[r], own, nextSid) /\ q[r].sid < nextSid /\ InPlace(q[r], dead)
         /\ q[r] \in Loose /\ TypeOK /\ nextSid \in Nat
         /\ q[r] = [q[r] EXCEPT !.pc = pc]
<1>1. RequestInv(q[r], own, nextSid, dead) /\ TypeOK
  BY DEF Owned, IInv
<1>2. q[r] \in Loose
  BY <1>1 DEF RequestInv, Sound
<1>3. q[r] = [q[r] EXCEPT !.pc = pc]
  BY <1>2 DEF Loose
<1> QED
  BY <1>1, <1>2, <1>3, Bounds DEF RequestInv

\* A step that writes nothing keeps the invariant if the request lands in its place.
LEMMA StepKeeps ==
  ASSUME IInv, NEW own \in Owners, Owned(own), NEW r \in Slots, NEW pc, NEW y,
         Lands(y, own, dead), Step(r, pc, y), UNCHANGED <<Stored, Ghosts>>
  PROVE  IInv'
<1>1. TypeOK /\ UNCHANGED <<Stored, cookie, clock, nextReq, left, dead>> /\ Becomes(r, y)
  BY DEF IInv, Step, Ghosts
<1>2. StoredBy(session, session', y) /\ expires' \in [Sids -> Times]
  BY <1>1, NothingStored
<1>3. \A s \in dead : expires'[s] = 0
  BY <1>1 DEF IInv, Stored
<1> QED
  BY <1>1, <1>2, <1>3, ContinueAlone

LEMMA LoadExpiresKeeps ==
  ASSUME IInv, LoadExpires
  PROVE  IInv'
<1>1. PICK own \in Owners : Owned(own)
  BY DEF IInv
<1> DEFINE E(r) == expires[q[r].sid]
           V(x) == IF x.expect.until < clock THEN Nothing ELSE x.expect
           X(r) == [q[r] EXCEPT !.expect = IF @.until < clock THEN Nothing ELSE @]
           Y(r) == IF ~StillValid(E(r)) THEN [X(r) EXCEPT !.pc = "deleteSession"]
                   ELSE IF X(r).then = "expires" THEN Resume([X(r) EXCEPT !.expires = E(r)])
                   ELSE [X(r) EXCEPT !.expires = E(r), !.pc = "loadData"]
<1>2. PICK r \in Slots : Step(r, "loadExpires", Y(r)) /\ UNCHANGED <<Stored, Ghosts>>
  BY DEF LoadExpires
<1>3. q[r].pc = "loadExpires" /\ "loadExpires" \in Steps \ {"idle"}
  BY <1>2 DEF Step, Steps
<1> DEFINE x == q[r]
           e == E(r)
           v == V(x)
<1>4. /\ Sound(x, own, nextSid) /\ x.sid < nextSid /\ InPlace(x, dead)
      /\ x \in Loose /\ TypeOK /\ nextSid \in Nat
  BY <1>1, <1>3, StepReady
<1>5. /\ x.sid > 0 /\ x.then \in Loading /\ x.old = NoSid /\ Addressed(x)
      /\ x.data # None => sessionid(x) > 0
      /\ sessionid(x) \in dead => x.data = None /\ x.expires = 0
  BY <1>3, <1>4 DEF InPlace, Fetching, Changing, Late
<1>6. sessionid(x) = x.sid /\ x.sid \in Sids /\ x.old \notin dead
  BY <1>4, <1>5, Bounds DEF sessionid, NoSid, TypeOK, Loose, Sids
<1>7. e \in Times /\ v \in View /\ clock > 0
  <2>1. Nothing \in View
    BY <1>4, Bounds DEF Nothing, View
  <2> QED
    BY <1>4, <1>6, <2>1 DEF TypeOK, Loose
<1>8. X(r) = [x EXCEPT !.expect = v]
  BY <1>4 DEF Loose
<1> HIDE DEF X, E, V, e, v
<1>9. Lands(Y(r), own, dead)
  <2>1. CASE ~StillValid(e)
    <3> DEFINE y == Given(x, x.data, x.sig, x.expires, v, "deleteSession")
    <3>1. Y(r) = y
      BY <1>4, <1>8, <2>1 DEF Given, Loose, e
    <3>2. MayGive(x, x.data, x.sig, x.expires, v, "deleteSession")
      BY <1>4, <1>7 DEF Steps, Loose, Sound, Mine, MayGive
    <3>3. Sound(y, own, nextSid) /\ GivenFacts(x, y, x.data, x.expires, "deleteSession")
      BY <1>4, <3>2, GivenSound
    <3> HIDE DEF y, Y
    <3>4. InPlace(y, dead)
      BY <1>5, <1>6, <3>3 DEF InPlace, Fetching, Changing, Late, GivenFacts
    <3> QED
      BY <3>1, <3>3, <3>4 DEF Lands, GivenFacts
  <2>2. CASE StillValid(e)
    <3> DEFINE G(pc) == Given(x, x.data, x.sig, e, v, pc)
    <3>1. x.sid \notin dead
      <4>1. e # 0
        BY <1>4, <1>7, <2>2, Bounds, SessionAssumption DEF StillValid, Times
      <4> QED
        BY <4>1 DEF e, E, IInv
    <3>2. \A pc \in Steps : Sound(G(pc), own, nextSid) /\ GivenFacts(x, G(pc), x.data, e, pc)
      <4> TAKE pc \in Steps
      <4>1. MayGive(x, x.data, x.sig, e, v, pc)
        BY <1>4, <1>7 DEF Loose, Sound, Mine, MayGive
      <4> QED
        BY <1>4, <4>1, GivenSound
    <3>3. CASE x.then = "expires"
      <4> DEFINE y == G("loadExpires")
      <4>1. Y(r) = Resume(y)
        <5>1. [X(r) EXCEPT !.expires = e] = y
          BY <1>3, <1>4, <1>8 DEF Given, Loose
        <5>2. X(r).then = x.then
          BY <1>4, <1>8 DEF Loose
        <5> HIDE DEF y
        <5> QED
          BY <2>2, <3>3, <5>1, <5>2 DEF e
      <4>2. /\ Sound(y, own, nextSid) /\ y.data = x.data /\ y.sid = x.sid /\ y.old = x.old
            /\ y.then = x.then /\ y.address = x.address /\ sessionid(y) = sessionid(x)
        BY <1>3, <3>2 DEF GivenFacts
      <4> HIDE DEF y, Y
      <4>3. Ready(y, own)
        BY <1>4, <1>5, <4>2 DEF Ready, Addressed
      <4>4. Goes(y, Resume(y), own)
        BY <1>4, <1>5, <4>2, <4>3, ResumeGoes
      <4>5. dead \in SUBSET (1..(nextSid - 1)) /\ sessionid(y) \notin dead
        BY <1>4, <1>6, <3>1, <4>2 DEF TypeOK
      <4> QED
        BY <1>4, <4>1, <4>4, <4>5, GoesLands
    <3>4. CASE x.then # "expires"
      <4> DEFINE y == G("loadData")
      <4>1. Y(r) = y
        <5>1. [X(r) EXCEPT !.expires = e, !.pc = "loadData"] = y
          BY <1>4, <1>8 DEF Given, Loose
        <5>2. X(r).then = x.then
          BY <1>4, <1>8 DEF Loose
        <5> HIDE DEF y
        <5> QED
          BY <2>2, <3>4, <5>1, <5>2 DEF e
      <4>2. /\ Sound(y, own, nextSid) /\ y.data = x.data /\ y.sid = x.sid /\ y.old = x.old
            /\ y.then = x.then /\ y.address = x.address /\ sessionid(y) = sessionid(x)
            /\ y.pc = "loadData"
        BY <3>2 DEF Steps, GivenFacts
      <4> HIDE DEF y, Y
      <4>3. InPlace(y, dead)
        BY <1>5, <1>6, <3>1, <4>2 DEF InPlace, Fetching, Changing, Addressed
      <4> QED
        BY <4>1, <4>2, <4>3 DEF Lands
    <3> QED
      BY <3>3, <3>4
  <2> QED
    BY <2>1, <2>2
<1> HIDE DEF Y
<1> QED
  BY <1>1, <1>2, <1>9, StepKeeps

LEMMA LoadDataKeeps ==
  ASSUME IInv, LoadData
  PROVE  IInv'
<1>1. PICK own \in Owners : Owned(own)
  BY DEF IInv
<1> DEFINE D(r) == session[q[r].sid]
           V(r) == IF D(r).address = NoAddress THEN q[r].expect ELSE Nothing
           Y(r) == IF D(r) = None THEN Resume(q[r])
                   ELSE IF address_mismatch(D(r), q[r])
                   THEN [q[r] EXCEPT !.data = D(r), !.pc = "deleteSession",
                           !.expect = IF D(r).address = NoAddress THEN @ ELSE Nothing]
                   ELSE Resume([q[r] EXCEPT !.data = D(r), !.sig = D(r)])
<1>2. PICK r \in Slots : Step(r, "loadData", Y(r)) /\ UNCHANGED <<Stored, Ghosts>>
  BY DEF LoadData
<1>3. q[r].pc = "loadData" /\ "loadData" \in Steps \ {"idle"}
  BY <1>2 DEF Step, Steps
<1> DEFINE x == q[r]
           d == D(r)
           v == V(r)
<1>4. /\ Sound(x, own, nextSid) /\ x.sid < nextSid /\ InPlace(x, dead)
      /\ x \in Loose /\ TypeOK /\ nextSid \in Nat
  BY <1>1, <1>3, StepReady
<1>5. /\ x.sid > 0 /\ x.then \in Loading /\ x.old = NoSid /\ Addressed(x)
      /\ x.data # None => sessionid(x) > 0
      /\ sessionid(x) \notin dead
  BY <1>3, <1>4 DEF InPlace, Fetching, Changing, Late
<1>6. sessionid(x) = x.sid /\ x.sid \in 1..MaxSids /\ x.old \notin dead
  BY <1>4, <1>5, Bounds DEF sessionid, NoSid, TypeOK, Loose
<1>7. d \in Data \cup {None} /\ v \in View
  <2>1. Nothing \in View
    BY <1>4, Bounds DEF Nothing, View
  <2> QED
    BY <1>4, <1>6, <2>1 DEF TypeOK, Loose, Sids
<1>8. d # None => DataOf(d, x.client)
  <2>1. d # None => DataOf(d, own[x.sid])
    BY <1>1, <1>6 DEF Owned, StoreInv
  <2>2. own[x.sid] = x.client
    BY <1>4, <1>5, OwnIds
  <2> QED
    BY <2>1, <2>2
<1>9. dead \in SUBSET (1..(nextSid - 1))
  BY <1>4 DEF TypeOK
<1> HIDE DEF D, V, d, v
<1>10. Lands(Y(r), own, dead)
  <2>1. CASE d = None
    <3>1. Ready(x, own)
      BY <1>4, <1>5 DEF Ready
    <3>2. Goes(x, Resume(x), own)
      BY <1>4, <1>5, <3>1, ResumeGoes
    <3> QED
      BY <1>4, <1>5, <1>9, <2>1, <3>2, GoesLands DEF d
  <2>2. CASE d # None /\ address_mismatch(d, x)
    <3> DEFINE y == Given(x, d, x.sig, x.expires, v, "deleteSession")
    <3>1. Y(r) = y
      BY <1>4, <2>2 DEF Given, Loose, d, v, V
    <3>2. MayGive(x, d, x.sig, x.expires, v, "deleteSession")
      BY <1>4, <1>7, <1>8 DEF Steps, Loose, MayGive
    <3>3. Sound(y, own, nextSid) /\ GivenFacts(x, y, d, x.expires, "deleteSession")
      BY <1>4, <3>2, GivenSound
    <3> HIDE DEF y, Y
    <3>4. InPlace(y, dead)
      BY <1>5, <1>6, <3>3 DEF InPlace, Fetching, Changing, GivenFacts
    <3> QED
      BY <3>1, <3>3, <3>4 DEF Lands, GivenFacts
  <2>3. CASE d # None /\ ~address_mismatch(d, x)
    <3> DEFINE y == Given(x, d, d, x.expires, x.expect, "loadData")
    <3>1. Y(r) = Resume(y)
      <4>1. [x EXCEPT !.data = d, !.sig = d] = y
        BY <1>3, <1>4 DEF Given, Loose
      <4> HIDE DEF y
      <4> QED
        BY <2>3, <4>1 DEF d
    <3>2. MayGive(x, d, d, x.expires, x.expect, "loadData")
      BY <1>4, <1>7, <1>8 DEF Steps, Loose, MayGive
    <3>3. Sound(y, own, nextSid) /\ GivenFacts(x, y, d, x.expires, "loadData")
      BY <1>4, <3>2, GivenSound
    <3> HIDE DEF y, Y
    <3>4. Addressed(y)
      BY <2>3, <3>3 DEF Addressed, OfAddress, GivenFacts, address_mismatch
    <3>5. Ready(y, own) /\ y.then \in Loading /\ sessionid(y) = sessionid(x)
      BY <1>4, <1>5, <1>6, <3>3, <3>4 DEF Ready, GivenFacts
    <3>6. Goes(y, Resume(y), own)
      BY <1>4, <3>5, ResumeGoes
    <3> QED
      BY <1>4, <1>5, <1>9, <3>1, <3>5, <3>6, GoesLands
  <2> QED
    BY <2>1, <2>2, <2>3
<1> HIDE DEF Y
<1> QED
  BY <1>1, <1>2, <1>10, StepKeeps

\* The steps that take a key from the store, or put one there
LEMMA StoreKeeps ==
  ASSUME IInv, NEW own \in Owners, Owned(own), NEW r \in Slots, NEW y,
         Lands(y, own, dead), Becomes(r, y), NEW d \in Data \cup {None},
         NEW s, d # None => s \in {NoSid, y.sid, y.sent} /\ DataOf(d, y.client),
         session' = [session EXCEPT ![s] = d],
         UNCHANGED <<expires, cookie, clock, nextReq, left, dead>>
  PROVE  IInv'
<1>1. TypeOK
  BY DEF IInv
<1>2. session' \in [Sids -> Data \cup {None}]
  BY <1>1 DEF TypeOK
<1>3. \A k \in Sids : session'[k] = IF k = s THEN d ELSE session[k]
  BY <1>1 DEF TypeOK
<1>4. StoredBy(session, session', y)
  BY <1>2, <1>3 DEF StoredBy
<1>5. expires' \in [Sids -> Times] /\ \A k \in dead : expires'[k] = 0
  BY <1>1 DEF TypeOK, IInv
<1> QED
  BY <1>1, <1>4, <1>5, ContinueAlone

LEMMA DeleteSessionKeeps ==
  ASSUME IInv, DeleteSession
  PROVE  IInv'
<1>1. PICK own \in Owners : Owned(own)
  BY DEF IInv
<1>2. PICK r \in Slots :
        /\ Step(r, "deleteSession", [q[r] EXCEPT !.pc = "deleteExpires"])
        /\ session' = [session EXCEPT ![q[r].sid] = None]
        /\ UNCHANGED <<expires, Ghosts>>
  BY DEF DeleteSession
<1> DEFINE x == q[r]
           y == Given(x, x.data, x.sig, x.expires, x.expect, "deleteExpires")
<1>3. x.pc = "deleteSession" /\ "deleteSession" \in Steps \ {"idle"}
  BY <1>2 DEF Step, Steps
<1>4. /\ Sound(x, own, nextSid) /\ x.sid < nextSid /\ InPlace(x, dead)
      /\ x \in Loose /\ TypeOK
  BY <1>1, <1>3, StepReady
<1>5. y = [x EXCEPT !.pc = "deleteExpires"]
  BY <1>4 DEF Given, Loose
<1>6. MayGive(x, x.data, x.sig, x.expires, x.expect, "deleteExpires")
  BY <1>4 DEF Steps, Loose, Sound, Mine, MayGive
<1>7. Sound(y, own, nextSid) /\ GivenFacts(x, y, x.data, x.expires, "deleteExpires")
  BY <1>4, <1>6, GivenSound
<1> HIDE DEF y
<1>8. InPlace(y, dead)
  BY <1>3, <1>4, <1>7 DEF InPlace, Fetching, Changing, Late, GivenFacts
<1>9. Lands(y, own, dead)
  BY <1>7, <1>8 DEF Lands, GivenFacts
<1>10. Becomes(r, y) /\ UNCHANGED <<expires, cookie, clock, nextReq, left, dead>>
  BY <1>2, <1>5 DEF Step, Ghosts
<1> QED
  BY <1>1, <1>2, <1>9, <1>10, StoreKeeps

LEMMA ChangeSessionKeeps ==
  ASSUME IInv, ChangeSession
  PROVE  IInv'
<1>1. PICK own \in Owners : Owned(own)
  BY DEF IInv
<1>2. PICK r \in Slots :
        /\ Step(r, "changeSession", [q[r] EXCEPT !.pc = "changeExpires"])
        /\ session' = [session EXCEPT ![q[r].old] = None]
        /\ UNCHANGED <<expires, Ghosts>>
  BY DEF ChangeSession
<1> DEFINE x == q[r]
           y == Given(x, x.data, x.sig, x.expires, x.expect, "changeExpires")
<1>3. x.pc = "changeSession" /\ "changeSession" \in Steps \ {"idle"}
  BY <1>2 DEF Step, Steps
<1>4. /\ Sound(x, own, nextSid) /\ x.sid < nextSid /\ InPlace(x, dead)
      /\ x \in Loose /\ TypeOK
  BY <1>1, <1>3, StepReady
<1>5. y = [x EXCEPT !.pc = "changeExpires"]
  BY <1>4 DEF Given, Loose
<1>6. MayGive(x, x.data, x.sig, x.expires, x.expect, "changeExpires")
  BY <1>4 DEF Steps, Loose, Sound, Mine, MayGive
<1>7. Sound(y, own, nextSid) /\ GivenFacts(x, y, x.data, x.expires, "changeExpires")
  BY <1>4, <1>6, GivenSound
<1> HIDE DEF y
<1>8. InPlace(y, dead)
  BY <1>3, <1>4, <1>7 DEF InPlace, Fetching, Changing, Late, GivenFacts, Addressed
<1>9. Lands(y, own, dead)
  BY <1>7, <1>8 DEF Lands, GivenFacts
<1>10. Becomes(r, y) /\ UNCHANGED <<expires, cookie, clock, nextReq, left, dead>>
  BY <1>2, <1>5 DEF Step, Ghosts
<1> QED
  BY <1>1, <1>2, <1>9, <1>10, StoreKeeps

\* The session as it is stored is the request's own.
LEMMA CurrentMine ==
  ASSUME NEW own, NEW n, NEW x, Sound(x, own, n), x.data \in Data, DataOf(x.data, x.client)
  PROVE  /\ Current(x) \in Data /\ DataOf(Current(x), x.client)
         /\ Current(x).address = x.data.address
<1>1. CASE x.alias
  <2>1. Current(x) = [x.data EXCEPT !.flash = x.flash]
    BY <1>1 DEF Current
  <2>2. x.flash \in SUBSET Items /\ AllOf(x.flash, x.client)
    BY <1>1 DEF Sound, Mine
  <2> QED
    BY <2>1, <2>2 DEF Data, DataOf
<1>2. CASE ~x.alias
  BY <1>2 DEF Current
<1> QED
  BY <1>1, <1>2

LEMMA ChangeStoreKeeps ==
  ASSUME IInv, ChangeStore
  PROVE  IInv'
<1>1. PICK own \in Owners : Owned(own)
  BY DEF IInv
<1>2. PICK r \in Slots :
        /\ Step(r, "changeStore", [q[r] EXCEPT !.pc = "run", !.old = NoSid])
        /\ session' = [session EXCEPT ![q[r].sid] = Current(q[r])]
        /\ UNCHANGED <<expires, Ghosts>>
  BY DEF ChangeStore
<1> DEFINE x == q[r]
           y == [x EXCEPT !.pc = "run", !.old = NoSid]
<1>3. x.pc = "changeStore" /\ "changeStore" \in Steps \ {"idle"}
  BY <1>2 DEF Step, Steps
<1>4. /\ Sound(x, own, nextSid) /\ x.sid < nextSid /\ InPlace(x, dead)
      /\ x \in Loose /\ TypeOK
  BY <1>1, <1>3, StepReady
<1>5. /\ x.data \in Data /\ DataOf(x.data, x.client) /\ x.old > 0 /\ x.sid > x.old
      /\ Addressed(x) /\ sessionid(x) \notin dead
  BY <1>3, <1>4 DEF InPlace, Fetching, Changing, Late
<1>6. x.sid > 0 /\ sessionid(x) = x.sid
  BY <1>4, <1>5 DEF Loose, sessionid, NoSid
<1>7. Current(x) \in Data /\ DataOf(Current(x), x.client)
  BY <1>4, <1>5, CurrentMine
<1>8. y \in Loose
  BY <1>4 DEF Loose, Steps, NoSid
<1>9. /\ y.data = x.data /\ y.sid = x.sid /\ y.out = x.out /\ y.sent = x.sent /\ y.old = NoSid
      /\ y.client = x.client /\ y.n = x.n /\ y.address = x.address
      /\ y.gone = x.gone /\ y.pc = "run" /\ y.flash = x.flash /\ y.alias = x.alias
  BY <1>4 DEF Loose
<1> HIDE DEF y
<1>10. sessionid(y) = sessionid(x)
  BY <1>9 DEF sessionid, get_session_id
<1>11. Sound(y, own, nextSid)
  BY <1>4, <1>8, <1>9 DEF Sound, Mine, IdsIssued, Issued, NoSid
<1>12. InPlace(y, dead)
  <2>1. y.old \notin dead
    BY <1>4, <1>9 DEF TypeOK, NoSid
  <2> QED
    BY <1>5, <1>6, <1>9, <1>10, <2>1 DEF InPlace, Fetching, Changing, Addressed
<1>13. Lands(y, own, dead)
  BY <1>9, <1>11, <1>12 DEF Lands
<1>14. Becomes(r, y) /\ UNCHANGED <<expires, cookie, clock, nextReq, left, dead>>
  BY <1>2 DEF Step, Ghosts, y
<1>15. PICK d : d = Current(x)
  OBVIOUS
<1>16. d \in Data \cup {None} /\ x.sid \in {NoSid, y.sid, y.sent} /\ DataOf(d, y.client)
  BY <1>7, <1>9, <1>15
<1>17. session' = [session EXCEPT ![x.sid] = d]
  BY <1>2, <1>15
<1> QED
  BY <1>1, <1>13, <1>14, <1>16, <1>17, StoreKeeps

\* A session may be retired when no other request uses it, and its expiry time is gone.
LEMMA RetireKeeps ==
  ASSUME IInv, NEW own \in Owners, Owned(own), NEW r \in Slots, NEW s \in 1..(nextSid - 1),
         Retire(r, s), expires' = [expires EXCEPT ![s] = 0],
         UNCHANGED <<session, cookie, clock, nextReq>>,
         NEW y, Lands(y, own, dead'), Becomes(r, y)
  PROVE  IInv'
<1>1. TypeOK /\ nextSid \in Nat /\ nextSid <= MaxSids + 1 /\ MaxSids \in Nat /\ 0 \in Times
  BY Bounds DEF IInv
<1>2. left' = left /\ dead' = IF InUse(s, r) THEN dead ELSE dead \cup {s}
  BY DEF Retire
<1>3. dead' \in SUBSET (1..(nextSid - 1)) /\ dead \in SUBSET (1..(nextSid - 1))
  BY <1>1, <1>2 DEF TypeOK
<1>4. expires' \in [Sids -> Times] /\ \A k \in Sids : expires'[k] = IF k = s THEN 0 ELSE expires[k]
  BY <1>1 DEF TypeOK
<1>5. \A k \in dead' : expires'[k] = 0
  <2> TAKE k \in dead'
  <2>1. k \in Sids
    BY <1>1, <1>3 DEF Sids
  <2> QED
    BY <1>2, <1>4, <2>1 DEF IInv
<1>6. \A p \in Slots \ {r} : RequestInv(q[p], own, nextSid, dead')
  <2> TAKE p \in Slots \ {r}
  <2>1. RequestInv(q[p], own, nextSid, dead)
    BY DEF Owned
  <2>2. CASE InUse(s, r)
    BY <1>2, <2>1, <2>2
  <2>3. CASE ~InUse(s, r)
    <3>1. q[p].pc # "idle" => s \notin {sessionid(q[p]), q[p].old}
      BY <2>3 DEF InUse, Active
    <3>2. dead' = dead \cup {s}
      BY <1>2, <2>3
    <3>3. RequestInv(q[p], own, nextSid, dead \cup {s})
      BY <2>1, <3>1, Retired
    <3> QED
      BY <3>2, <3>3
  <2> QED
    BY <2>2, <2>3
<1>7. StoredBy(session, session', y) /\ nextReq' \in 1..(MaxRequests + 1)
  BY <1>1 DEF StoredBy, TypeOK
<1> QED
  BY <1>1, <1>2, <1>3, <1>4, <1>5, <1>6, <1>7, Continue

LEMMA ChangeExpiresKeeps ==
  ASSUME IInv, ChangeExpires
  PROVE  IInv'
<1>1. PICK own \in Owners : Owned(own)
  BY DEF IInv
<1>2. PICK r \in Slots :
        /\ Step(r, "changeExpires", [q[r] EXCEPT !.pc = "changeStore"])
        /\ expires' = [expires EXCEPT ![q[r].old] = 0]
        /\ Retire(r, q[r].old)
        /\ UNCHANGED session
  BY DEF ChangeExpires
<1> DEFINE x == q[r]
           y == Given(x, x.data, x.sig, x.expires, x.expect, "changeStore")
<1>3. x.pc = "changeExpires" /\ "changeExpires" \in Steps \ {"idle"}
  BY <1>2 DEF Step, Steps
<1>4. /\ Sound(x, own, nextSid) /\ x.sid < nextSid /\ InPlace(x, dead)
      /\ x \in Loose /\ TypeOK /\ nextSid \in Nat
  BY <1>1, <1>3, StepReady
<1>5. y = [x EXCEPT !.pc = "changeStore"]
  BY <1>4 DEF Given, Loose
<1>6. MayGive(x, x.data, x.sig, x.expires, x.expect, "changeStore")
  BY <1>4 DEF Steps, Loose, Sound, Mine, MayGive
<1>7. Sound(y, own, nextSid) /\ GivenFacts(x, y, x.data, x.expires, "changeStore")
  BY <1>4, <1>6, GivenSound
<1> HIDE DEF y
<1>8. /\ x.data \in Data /\ DataOf(x.data, x.client) /\ x.old > 0 /\ x.sid > x.old
      /\ Addressed(x) /\ sessionid(x) \notin dead
  BY <1>3, <1>4 DEF InPlace, Fetching, Changing, Late
<1>9. sessionid(x) = x.sid /\ x.sid > 0 /\ x.old \in 1..(nextSid - 1)
  BY <1>4, <1>8 DEF sessionid, NoSid, Loose
<1>10. sessionid(y) \notin dead'
  <2>1. dead' \in SUBSET (dead \cup {x.old})
    BY <1>2 DEF Retire
  <2> QED
    BY <1>4, <1>7, <1>8, <1>9, <2>1 DEF GivenFacts, Loose
<1>11. InPlace(y, dead')
  BY <1>7, <1>8, <1>9, <1>10 DEF InPlace, Fetching, Changing, GivenFacts, Addressed
<1>12. Lands(y, own, dead')
  BY <1>7, <1>11 DEF Lands, GivenFacts
<1>13. Becomes(r, y) /\ UNCHANGED <<session, cookie, clock, nextReq>>
  BY <1>2, <1>5 DEF Step
<1> QED
  BY <1>1, <1>2, <1>9, <1>12, <1>13, RetireKeeps

LEMMA DeleteExpiresKeeps ==
  ASSUME IInv, DeleteExpires
  PROVE  IInv'
<1>1. PICK own \in Owners : Owned(own)
  BY DEF IInv
<1> DEFINE Z(x) == [clear_session_instance_data(x) EXCEPT
                      !.gone = TRUE, !.out = NoSid,
                      !.expect = IF x.then = "delete" THEN Nothing ELSE @]
<1>2. PICK r \in Slots :
        /\ Step(r, "deleteExpires", Resume(Z(q[r])))
        /\ expires' = [expires EXCEPT ![q[r].sid] = 0]
        /\ Retire(r, q[r].sid)
        /\ UNCHANGED session
  BY DEF DeleteExpires
<1> DEFINE x == q[r]
           w == clear_session_instance_data(x)
           z == Z(x)
<1>3. x.pc = "deleteExpires" /\ "deleteExpires" \in Steps \ {"idle"}
  BY <1>2 DEF Step, Steps
<1>4. /\ Sound(x, own, nextSid) /\ x.sid < nextSid /\ InPlace(x, dead)
      /\ x \in Loose /\ TypeOK /\ nextSid \in Nat
  BY <1>1, <1>3, StepReady
<1>5. /\ x.sid > 0 /\ x.then \in Loading /\ x.old = NoSid /\ x.sid \in 1..(nextSid - 1)
  BY <1>3, <1>4 DEF InPlace, Fetching, Changing, Loose
<1>6. /\ Sound(w, own, nextSid) /\ SameCall(x, w) /\ w.old = x.old
      /\ w.sid = NoSid /\ w.data = None /\ w.flash = None /\ ~w.alias
  BY <1>4, ClearSound
<1>7. w \in Loose /\ Nothing \in View
  BY <1>4, <1>6, Bounds DEF Sound, Nothing, View
<1> HIDE DEF w
<1>8. PICK v : v = IF x.then = "delete" THEN Nothing ELSE w.expect
  OBVIOUS
<1>9. z = [w EXCEPT !.gone = TRUE, !.out = NoSid, !.expect = v]
  BY <1>7, <1>8 DEF w, Loose
<1>10. z \in Loose
  <2>1. v \in View
    BY <1>7, <1>8 DEF Loose
  <2>2. w \in Loose /\ NoSid \in Nat
    BY <1>7 DEF NoSid
  <2> HIDE DEF z, Z
  <2> QED
    BY <1>9, <2>1, <2>2 DEF Loose
<1>11. /\ z.data = w.data /\ z.sid = w.sid /\ z.out = NoSid /\ z.sent = w.sent /\ z.old = w.old
       /\ z.client = w.client /\ z.n = w.n /\ z.address = w.address /\ z.calls = w.calls
       /\ z.then = w.then /\ z.gone = TRUE /\ z.pc = w.pc /\ z.flash = w.flash /\ z.alias = w.alias
  BY <1>7, <1>9 DEF Loose
<1> HIDE DEF z, Z
<1>12. Sound(z, own, nextSid)
  BY <1>6, <1>10, <1>11 DEF Sound, Mine, IdsIssued, Issued, NoSid
<1>13. sessionid(z) = NoSid
  BY <1>6, <1>11 DEF sessionid, get_session_id
<1>14. Ready(z, own) /\ z.then \in Loading
  BY <1>4, <1>5, <1>6, <1>11, <1>12 DEF Ready, Addressed, SameCall, NoSid
<1>15. Goes(z, Resume(z), own)
  BY <1>4, <1>14, ResumeGoes
<1>16. dead' \in SUBSET (1..(nextSid - 1)) /\ NoSid \notin dead'
  <2>1. dead' \in SUBSET (dead \cup {x.sid})
    BY <1>2 DEF Retire
  <2> QED
    BY <1>4, <1>5, <2>1 DEF TypeOK, NoSid
<1>17. Lands(Resume(z), own, dead')
  BY <1>4, <1>13, <1>15, <1>16, GoesLands
<1>18. Becomes(r, Resume(z)) /\ UNCHANGED <<session, cookie, clock, nextReq>>
  BY <1>2 DEF Step, z
<1> QED
  BY <1>1, <1>2, <1>5, <1>17, <1>18, RetireKeeps

-----------------------------------------------------------------------------
(* The end of a request *)

\* A request whose session is over in the store has no expiry time to extend.
LEMMA FinalizeHeadersKeeps ==
  ASSUME IInv, FinalizeHeaders
  PROVE  IInv'
<1>1. PICK own \in Owners : Owned(own)
  BY DEF IInv
<1> DEFINE Z(x) == save_session_expires(x)
<1>2. PICK r \in Slots :
        /\ q[r].pc = "run"
        /\ IF q[r].expires > 0
           THEN /\ Becomes(r, [Z(q[r]) EXCEPT !.pc = "saveSession"])
                /\ expires' = [expires EXCEPT ![sessionid(Z(q[r]))] = Z(q[r]).extended]
           ELSE /\ Becomes(r, [q[r] EXCEPT !.pc = "saveSession"])
                /\ UNCHANGED expires
        /\ UNCHANGED <<session, cookie, clock, nextReq, Ghosts>>
  BY DEF FinalizeHeaders
<1> DEFINE x == q[r]
           z == IF x.expires > 0 THEN Z(x) ELSE x
           y == [z EXCEPT !.pc = "saveSession"]
<1>3. x.pc = "run" /\ "run" \in Steps \ {"idle"}
  BY <1>2 DEF Steps
<1>4. /\ Sound(x, own, nextSid) /\ x.sid < nextSid /\ InPlace(x, dead)
      /\ x \in Loose /\ TypeOK /\ nextSid \in Nat
  BY <1>1, <1>3, StepReady
<1>5. /\ x.old = NoSid /\ Addressed(x) /\ (x.data # None => sessionid(x) > 0)
      /\ sessionid(x) \in dead => x.data = None /\ x.expires = 0
  BY <1>3, <1>4 DEF InPlace, Fetching, Changing, Late
<1>6. /\ Sound(z, own, nextSid) /\ z.sid = x.sid /\ z.old = x.old /\ z.data = x.data
      /\ z.expires = x.expires /\ z.address = x.address /\ sessionid(z) = sessionid(x)
  <2>1. CASE ~(x.expires > 0) \/ x.extended > 0
    BY <1>4, <2>1 DEF save_session_expires
  <2>2. CASE x.expires > 0 /\ ~(x.extended > 0)
    <3>1. z = extend_session_expires(x)
      BY <2>2 DEF save_session_expires
    <3> QED
      BY <1>4, <3>1, ExtendSound DEF SameCall
  <2> QED
    BY <2>1, <2>2
<1>7. z.extended \in Times
  BY <1>6 DEF Sound, Loose
<1> HIDE DEF z
<1>8. "saveSession" \in Steps
  BY DEF Steps
<1>9. /\ Sound(y, own, nextSid) /\ y.pc = "saveSession" /\ y.sid = z.sid /\ y.old = z.old
      /\ y.data = z.data /\ y.expires = z.expires /\ y.address = z.address
      /\ sessionid(y) = sessionid(z)
  BY <1>6, <1>8, PcSound
<1> HIDE DEF y
<1>10. InPlace(y, dead)
  <2>1. y.old \notin dead
    BY <1>4, <1>5, <1>6, <1>9 DEF TypeOK, NoSid
  <2> QED
    BY <1>5, <1>6, <1>9, <2>1 DEF InPlace, Fetching, Changing, Addressed, Late
<1>11. Lands(y, own, dead)
  BY <1>9, <1>10 DEF Lands
<1>12. Becomes(r, y) /\ UNCHANGED <<session, cookie, clock, nextReq, left, dead>>
  BY <1>2 DEF y, z, Ghosts
<1>13. expires' \in [Sids -> Times] /\ \A s \in dead : expires'[s] = 0
  <2>1. expires \in [Sids -> Times] /\ (\A s \in dead : expires[s] = 0)
        /\ \A s \in dead : s \in Sids
    BY <1>4, Bounds DEF TypeOK, IInv, Sids
  <2>2. CASE x.expires > 0
    <3>1. expires' = [expires EXCEPT ![sessionid(x)] = z.extended]
      BY <1>2, <1>6, <2>2 DEF z
    <3>2. sessionid(x) \notin dead
      BY <1>5, <2>2
    <3> QED
      BY <1>7, <2>1, <3>1, <3>2
  <2>3. CASE ~(x.expires > 0)
    BY <1>2, <2>1, <2>3
  <2> QED
    BY <2>2, <2>3
<1>14. StoredBy(session, session', y)
  BY <1>4, <1>12 DEF StoredBy, TypeOK
<1> QED
  BY <1>1, <1>4, <1>11, <1>12, <1>13, <1>14, ContinueAlone

\* _save_session leaves the request in its place if what it is to save is its own.
LEMMA SaveKeeps ==
  ASSUME IInv, NEW own \in Owners, Owned(own), NEW r \in Slots, NEW x, NEW pc \in Steps,
         Sound(x, own, nextSid), x.sid < nextSid,
         x.data # None =>
           \A d \in Data : DataOf(d, x.client) /\ d.address = x.data.address =>
             Lands(Given(x, d, x.sig, x.expires, x.expect, pc), own, dead),
         Lands(Given(x, x.data, x.sig, x.expires, x.expect, pc), own, dead),
         Save(r, x, pc), UNCHANGED <<expires, cookie, clock, nextReq, Ghosts>>
  PROVE  IInv'
<1>1. x \in Loose /\ TypeOK /\ clock \in Times
  BY Bounds DEF Sound, IInv
<1>2. UNCHANGED <<expires, cookie, clock, nextReq, left, dead>>
  BY DEF Ghosts
<1>3. CASE x.data = None \/ x.data = x.sig
  <2> DEFINE y == Given(x, x.data, x.sig, x.expires, x.expect, pc)
  <2>1. y = [x EXCEPT !.pc = pc]
    BY <1>1 DEF Given, Loose
  <2> HIDE DEF y
  <2>2. Becomes(r, y) /\ UNCHANGED session
    BY <1>3, <2>1 DEF Save
  <2>3. StoredBy(session, session', y) /\ expires' \in [Sids -> Times]
        /\ \A s \in dead : expires'[s] = 0
    BY <1>1, <1>2, <2>2 DEF StoredBy, TypeOK, IInv
  <2>4. Lands(y, own, dead)
    BY DEF y
  <2> QED
    BY <1>1, <1>2, <2>2, <2>3, <2>4, ContinueAlone
<1>4. CASE x.data # None /\ x.data # x.sig
  <2> DEFINE d == [x.data EXCEPT !.updated = clock]
             y == Given(x, d, x.sig, x.expires, x.expect, pc)
  <2>1. d \in Data /\ DataOf(d, x.client) /\ d.address = x.data.address
    <3>1. x.data \in Data /\ DataOf(x.data, x.client)
      BY <1>1, <1>4 DEF Loose, Sound, Mine
    <3> QED
      BY <1>1, <3>1 DEF Data, DataOf
  <2>2. y = [x EXCEPT !.pc = pc, !.data = d]
    BY <1>1 DEF Given, Loose
  <2>3. Becomes(r, [x EXCEPT !.pc = pc, !.data = d])
        /\ session' = [session EXCEPT ![sessionid(x)] = d]
    BY <1>4 DEF Save
  <2>4. y.sid = x.sid /\ y.sent = x.sent /\ y.client = x.client
    BY <1>1, <2>2 DEF Loose
  <2> HIDE DEF d
  <2>5. Lands(y, own, dead)
    BY <1>4, <2>1
  <2> HIDE DEF y
  <2>6. sessionid(x) \in {NoSid, y.sid, y.sent} /\ DataOf(d, y.client)
    BY <2>1, <2>4 DEF sessionid, get_session_id
  <2>7. Becomes(r, y) /\ d \in Data \cup {None}
    BY <2>1, <2>2, <2>3
  <2> QED
    BY <1>2, <2>3, <2>5, <2>6, <2>7, StoreKeeps
<1> QED
  BY <1>3, <1>4

LEMMA SaveSessionKeeps ==
  ASSUME IInv, SaveSession
  PROVE  IInv'
<1>1. PICK own \in Owners : Owned(own)
  BY DEF IInv
<1> DEFINE Z(x) == IF x.data = None THEN x ELSE [x EXCEPT !.data = Current(x)]
<1>2. PICK r \in Slots :
        /\ q[r].pc = "saveSession"
        /\ Save(r, Z(q[r]), "saveFlash")
        /\ UNCHANGED <<expires, cookie, clock, nextReq, Ghosts>>
  BY DEF SaveSession
<1> DEFINE x == q[r]
           z == Z(x)
           G(d) == Given(z, d, z.sig, z.expires, z.expect, "saveFlash")
<1>3. x.pc = "saveSession" /\ "saveSession" \in Steps \ {"idle"}
  BY <1>2 DEF Steps
<1>4. /\ Sound(x, own, nextSid) /\ x.sid < nextSid /\ InPlace(x, dead)
      /\ x \in Loose /\ TypeOK /\ nextSid \in Nat
  BY <1>1, <1>3, StepReady
<1>5. /\ x.old = NoSid /\ Addressed(x) /\ (x.data # None => sessionid(x) > 0)
      /\ sessionid(x) \in dead => x.data = None /\ x.expires = 0
  BY <1>3, <1>4 DEF InPlace, Fetching, Changing, Late
<1>6. /\ Sound(z, own, nextSid) /\ z.sid = x.sid /\ z.old = x.old
      /\ z.expires = x.expires /\ z.address = x.address /\ sessionid(z) = sessionid(x)
      /\ Addressed(z) /\ (x.data = None => z.data = None)
  <2>1. CASE x.data = None
    BY <1>4, <1>5, <2>1
  <2>2. CASE x.data # None
    <3> DEFINE d == Current(x)
               y == Given(x, d, x.sig, x.expires, x.expect, "saveSession")
    <3>1. x.data \in Data /\ DataOf(x.data, x.client)
      BY <1>4, <2>2 DEF Sound, Loose, Mine
    <3>2. d \in Data /\ DataOf(d, x.client) /\ d.address = x.data.address
      BY <1>4, <3>1, CurrentMine
    <3> HIDE DEF d
    <3>3. z = y
      BY <1>3, <1>4, <2>2 DEF Given, Loose, d
    <3>4. MayGive(x, d, x.sig, x.expires, x.expect, "saveSession")
      BY <1>3, <1>4, <3>2 DEF Loose, MayGive
    <3>5. Sound(y, own, nextSid) /\ GivenFacts(x, y, d, x.expires, "saveSession")
      BY <1>4, <3>4, GivenSound
    <3> HIDE DEF y, z
    <3> QED
      BY <1>4, <1>5, <2>2, <3>2, <3>3, <3>5 DEF GivenFacts, Addressed, OfAddress
  <2> QED
    BY <2>1, <2>2
<1> HIDE DEF z, Z
<1>7. z \in Loose
  BY <1>6 DEF Sound
<1>8. ASSUME NEW d \in Data \cup {None}, d # None => DataOf(d, z.client),
             d # None => OfAddress(d, z.address),
             z.data = None => d = None
      PROVE  Lands(G(d), own, dead)
  <2>1. MayGive(z, d, z.sig, z.expires, z.expect, "saveFlash")
    BY <1>7, <1>8 DEF Loose, MayGive, Steps
  <2>2. Sound(G(d), own, nextSid) /\ GivenFacts(z, G(d), d, z.expires, "saveFlash")
    BY <1>6, <2>1, GivenSound
  <2>3. G(d).old \notin dead
    BY <1>4, <1>5, <1>6, <2>2 DEF TypeOK, NoSid, GivenFacts
  <2> HIDE DEF G
  <2>4. InPlace(G(d), dead)
    BY <1>5, <1>6, <1>8, <2>2, <2>3 DEF InPlace, Fetching, Changing, Addressed, Late, GivenFacts
  <2> QED
    BY <2>2, <2>4 DEF Lands, GivenFacts
<1>9. Lands(G(z.data), own, dead)
  <2>1. z.data \in Data \cup {None} /\ (z.data # None => DataOf(z.data, z.client))
    BY <1>6, <1>7 DEF Loose, Sound, Mine
  <2>2. z.data # None => OfAddress(z.data, z.address)
    BY <1>6 DEF Addressed
  <2> HIDE DEF G
  <2> QED
    BY <1>8, <2>1, <2>2
<1>10. z.data # None =>
         \A d \in Data : DataOf(d, z.client) /\ d.address = z.data.address => Lands(G(d), own, dead)
  <2> SUFFICES ASSUME z.data # None, NEW d \in Data, DataOf(d, z.client),
                      d.address = z.data.address
               PROVE  Lands(G(d), own, dead)
    OBVIOUS
  <2>1. OfAddress(d, z.address)
    BY <1>6 DEF Addressed, OfAddress
  <2> HIDE DEF G
  <2> QED
    BY <1>8, <2>1
<1>11. Save(r, z, "saveFlash") /\ "saveFlash" \in Steps /\ z.sid < nextSid
       /\ UNCHANGED <<expires, cookie, clock, nextReq, Ghosts>>
  BY <1>2, <1>4, <1>6 DEF z, Steps
<1> QED
  BY <1>1, <1>6, <1>9, <1>10, <1>11, SaveKeeps

\* A request that is answered may hold anything of its own.
LEMMA DeliverLands ==
  ASSUME NEW own, NEW D, NEW x, Sound(x, own, nextSid), x.pc = "deliver", x.old = NoSid,
         NoSid \notin D
  PROVE  Lands(x, own, D)
BY DEF Lands, InPlace, Late, Fetching, Changing

LEMMA SaveFlashKeeps ==
  ASSUME IInv, SaveFlash
  PROVE  IInv'
<1>1. PICK own \in Owners : Owned(own)
  BY DEF IInv
<1> DEFINE F(x) == x.flash \ Stale(x)
           D(x) == [(IF x.data = None THEN Sprung ELSE x.data) EXCEPT !.flash = F(x)]
           Z(x) == [x EXCEPT !.data = D(x), !.flash = F(x), !.alias = TRUE]
<1>2. PICK r \in Slots :
        /\ q[r].pc = "saveFlash"
        /\ IF q[r].flash = None
           THEN Becomes(r, [q[r] EXCEPT !.pc = "deliver"]) /\ UNCHANGED session
           ELSE Save(r, Z(q[r]), "deliver")
        /\ UNCHANGED <<expires, cookie, clock, nextReq, Ghosts>>
  BY DEF SaveFlash
<1> DEFINE x == q[r]
<1>3. x.pc = "saveFlash" /\ "saveFlash" \in Steps \ {"idle"}
  BY <1>2 DEF Steps
<1>4. /\ Sound(x, own, nextSid) /\ x.sid < nextSid /\ InPlace(x, dead)
      /\ x \in Loose /\ TypeOK
  BY <1>1, <1>3, StepReady
<1>5. x.old = NoSid /\ NoSid \notin dead
  BY <1>3, <1>4 DEF InPlace, Changing, TypeOK, NoSid
<1>6. CASE x.flash = None
  <2> DEFINE y == [x EXCEPT !.pc = "deliver"]
  <2>1. Sound(y, own, nextSid) /\ y.pc = "deliver" /\ y.old = x.old
    <3>1. "deliver" \in Steps
      BY DEF Steps
    <3> QED
      BY <1>4, <3>1, PcSound
  <2>2. Becomes(r, y) /\ UNCHANGED <<session, expires, cookie, clock, nextReq, left, dead>>
    BY <1>2, <1>6 DEF Ghosts
  <2> HIDE DEF y
  <2>3. Lands(y, own, dead)
    BY <1>5, <2>1, DeliverLands
  <2>4. StoredBy(session, session', y) /\ expires' \in [Sids -> Times]
        /\ \A s \in dead : expires'[s] = 0
    BY <1>4, <2>2 DEF StoredBy, TypeOK, IInv
  <2> QED
    BY <1>1, <1>4, <2>2, <2>3, <2>4, ContinueAlone
<1>7. CASE x.flash # None
  <2> DEFINE f == F(x)
             d == D(x)
             z == Z(x)
  <2>1. f \in SUBSET Items /\ AllOf(f, x.client)
    <3>1. x.flash \in SUBSET Items /\ AllOf(x.flash, x.client)
      BY <1>4, <1>7 DEF Sound, Loose, Mine
    <3> QED
      BY <3>1 DEF AllOf
  <2>2. d \in Data /\ DataOf(d, x.client)
    <3>1. CASE x.data = None
      <4>1. Sprung \in Data /\ Sprung.items = {}
        BY <1>4, Bounds DEF Sprung, Data
      <4>2. d = [Sprung EXCEPT !.flash = f]
        BY <3>1
      <4> HIDE DEF d, f
      <4> QED
        BY <2>1, <4>1, <4>2 DEF Data, DataOf, AllOf
    <3>2. CASE x.data # None
      <4>1. x.data \in Data /\ DataOf(x.data, x.client)
        BY <1>4, <3>2 DEF Sound, Loose, Mine
      <4>2. d = [x.data EXCEPT !.flash = f]
        BY <3>2
      <4> HIDE DEF d, f
      <4> QED
        BY <2>1, <4>1, <4>2 DEF Data, DataOf
    <3> QED
      BY <3>1, <3>2
  <2>3. z = [x EXCEPT !.data = d, !.flash = f, !.alias = TRUE]
    OBVIOUS
  <2>4. Save(r, z, "deliver") /\ UNCHANGED <<expires, cookie, clock, nextReq, Ghosts>>
    BY <1>2, <1>7
  <2> HIDE DEF d, f, z, D, F, Z
  <2>5. z \in Loose
    BY <1>4, <2>1, <2>2, <2>3 DEF Loose
  <2>6. /\ z.data = d /\ z.sid = x.sid /\ z.out = x.out /\ z.sent = x.sent /\ z.old = x.old
        /\ z.client = x.client /\ z.n = x.n /\ z.address = x.address
        /\ z.flash = f /\ z.alias = TRUE
    BY <1>4, <2>3 DEF Loose
  <2>7. Sound(z, own, nextSid)
    BY <1>4, <2>1, <2>2, <2>5, <2>6 DEF Sound, Mine, IdsIssued
  <2>8. ASSUME NEW e \in Data, DataOf(e, z.client)
        PROVE  Lands(Given(z, e, z.sig, z.expires, z.expect, "deliver"), own, dead)
    <3> DEFINE y == Given(z, e, z.sig, z.expires, z.expect, "deliver")
    <3>1. MayGive(z, e, z.sig, z.expires, z.expect, "deliver")
      BY <2>5, <2>8 DEF Loose, MayGive, Steps
    <3>2. Sound(y, own, nextSid) /\ GivenFacts(z, y, e, z.expires, "deliver")
      BY <2>7, <3>1, GivenSound
    <3> HIDE DEF y
    <3> QED
      BY <1>5, <2>6, <3>2, DeliverLands DEF GivenFacts, y
  <2>9. z.data \in Data /\ DataOf(z.data, z.client) /\ z.sid < nextSid /\ "deliver" \in Steps
    BY <1>4, <2>2, <2>6 DEF Steps
  <2> QED
    BY <1>1, <2>4, <2>7, <2>8, <2>9, SaveKeeps
<1> QED
  BY <1>6, <1>7

-----------------------------------------------------------------------------
(* A request comes, and is over *)

\* A slot with no request in it is typed.
LEMMA IdleTyped ==
  ASSUME TypeOK
  PROVE  Idle \in Request
<1>1. 0 \in Times /\ MaxRequests \in Nat /\ MaxCalls \in Nat /\ MaxSids \in Nat
  BY Bounds
<1>2. Nothing \in View
  BY <1>1 DEF Nothing, View
<1>3. NoSid \in Sids /\ 0 \in 0..MaxRequests /\ 0 \in 0..MaxCalls
  BY <1>1 DEF NoSid, Sids
<1> QED
  BY <1>1, <1>2, <1>3 DEF Idle, Request, Steps, AllCalls

\* A request that comes brings the id its browser holds, and nothing else.
LEMMA StartKeeps ==
  ASSUME IInv, Start
  PROVE  IInv'
<1>1. PICK own \in Owners : Owned(own)
  BY DEF IInv
<1> DEFINE Y(c, a) == [Idle EXCEPT
         !.pc = "run", !.client = c, !.n = nextReq, !.address = a,
         !.sent = cookie[c], !.calls = MaxCalls, !.expect = left[c]]
<1>2. PICK r \in Slots, c \in Clients, a \in Addresses :
        /\ nextReq <= MaxRequests
        /\ q' = [q EXCEPT ![r] = Y(c, a)]
        /\ nextReq' = nextReq + 1
        /\ UNCHANGED <<session, expires, cookie, clock, nextSid, left, dead>>
  BY DEF Start, Stored, Ghosts
<1>3. TypeOK /\ MaxCalls \in Nat /\ MaxRequests \in Nat /\ 0 \in Times /\ nextSid \in Nat
      /\ nextSid > 0 /\ nextSid <= MaxSids + 1
  BY Bounds DEF IInv
<1>4. cookie[c] \in Sids /\ left[c] \in View /\ nextReq \in Nat /\ nextReq > 0
  BY <1>3 DEF TypeOK
<1> DEFINE y == Y(c, a)
<1>5. /\ Idle \in Loose /\ Idle.sid = NoSid /\ Idle.data = None /\ Idle.tried = FALSE
      /\ Idle.expires = 0 /\ Idle.flash = None /\ Idle.alias = FALSE /\ Idle.old = NoSid
      /\ Idle.out = Unset
  <2>1. Idle \in Request /\ Sids \subseteq Nat
    BY <1>3, IdleTyped DEF Sids
  <2>2. Idle \in Loose
    BY <2>1 DEF Request, Loose
  <2> QED
    BY <2>2 DEF Idle
<1>6. y \in Loose
  <2>1. nextReq \in 0..MaxRequests /\ MaxCalls \in 0..MaxCalls /\ "run" \in Steps
    BY <1>2, <1>3, <1>4 DEF Steps
  <2>2. PICK w : w = [Idle EXCEPT !.pc = "run", !.client = c]
    OBVIOUS
  <2>3. PICK z : z = [w EXCEPT !.n = nextReq, !.address = a]
    OBVIOUS
  <2>4. Idle \in Loose
    BY <1>5
  <2> HIDE DEF Idle
  <2>5. w \in Loose
    BY <2>1, <2>2, <2>4 DEF Loose
  <2>6. z \in Loose
    BY <2>1, <2>3, <2>5 DEF Loose
  <2>7. y = [z EXCEPT !.sent = cookie[c], !.calls = MaxCalls, !.expect = left[c]]
    BY <2>2, <2>3
  <2> HIDE DEF y, Y
  <2> QED
    BY <1>4, <2>1, <2>7, <2>6 DEF Loose
<1>7. /\ y.pc = "run" /\ y.client = c /\ y.n = nextReq /\ y.address = a /\ y.sent = cookie[c]
      /\ y.sid = NoSid /\ y.data = None /\ y.tried = FALSE /\ y.expires = 0 /\ y.flash = None
      /\ y.alias = FALSE /\ y.old = NoSid /\ y.out = Unset
  BY <1>5 DEF Loose
<1> HIDE DEF y, Y
<1>8. IdsIssued(y, own, nextSid)
  BY <1>1, <1>7 DEF IdsIssued, Issued, Owned, CookieInv, NoSid, Unset
<1>9. Sound(y, own, nextSid)
  BY <1>4, <1>6, <1>7, <1>8 DEF Sound, Mine
<1>10. InPlace(y, dead)
  <2>1. y.old \notin dead
    BY <1>3, <1>7 DEF TypeOK, NoSid
  <2> QED
    BY <1>7, <2>1 DEF InPlace, Fetching, Changing, Addressed, Late
<1>11. Lands(y, own, dead)
  BY <1>7, <1>9, <1>10 DEF Lands
<1>12. Becomes(r, y)
  BY <1>2, <1>3, <1>7 DEF Becomes, NoSid, y, Y
<1>13. StoredBy(session, session', y) /\ expires' \in [Sids -> Times]
       /\ \A s \in dead : expires'[s] = 0
  BY <1>2, <1>3 DEF StoredBy, TypeOK, IInv
<1>14. \A p \in Slots \ {r} : RequestInv(q[p], own, nextSid, dead')
  BY <1>1, <1>2 DEF Owned
<1>15. dead' \in SUBSET (1..(nextSid - 1)) /\ nextReq' \in 1..(MaxRequests + 1)
  BY <1>2, <1>3, <1>4 DEF TypeOK
<1>16. Lands(y, own, dead') /\ UNCHANGED <<cookie, clock, left>>
       /\ \A s \in dead' : expires'[s] = 0
  BY <1>2, <1>11, <1>13
<1> QED
  BY <1>1, <1>3, <1>12, <1>13, <1>14, <1>15, <1>16, Continue

\* A step that ends a request, or none
LEMMA QuietKeeps ==
  ASSUME IInv, NEW own \in Owners, Owned(own),
         q' \in [Slots -> Request], \A r \in Slots : q'[r] = q[r] \/ q'[r] = Idle,
         cookie' \in [Clients -> Sids], CookieInv(cookie', own, nextSid),
         left' \in [Clients -> View], clock' \in 1..MaxTime,
         UNCHANGED <<session, expires, nextSid, nextReq, dead>>
  PROVE  IInv'
<1>1. \A r \in Slots : RequestInv(q'[r], own, nextSid, dead)
  BY DEF Owned, RequestInv, Idle
<1>2. Owned(own)'
  BY <1>1 DEF Owned
<1>3. TypeOK'
  BY DEF IInv, TypeOK
<1> QED
  BY <1>2, <1>3 DEF IInv

\* The client of a request that is answered holds the id of its own session.
LEMMA DeliverKeeps ==
  ASSUME IInv, Deliver
  PROVE  IInv'
<1>1. PICK own \in Owners : Owned(own)
  BY DEF IInv
<1>2. PICK r \in Slots :
        /\ q[r].pc = "deliver"
        /\ q' = [q EXCEPT ![r] = Idle]
        /\ \/ /\ cookie' = [cookie EXCEPT ![q[r].client] = IF q[r].out = Unset THEN @ ELSE q[r].out]
              /\ left' = [left EXCEPT ![q[r].client] = Leaves(q[r])]
           \/ UNCHANGED <<cookie, left>>
        /\ UNCHANGED <<session, expires, clock, nextSid, nextReq, dead>>
  BY DEF Deliver, Stored
<1> DEFINE x == q[r]
<1>3. x.pc = "deliver" /\ "deliver" \in Steps \ {"idle"}
  BY <1>2 DEF Steps
<1>4. /\ Sound(x, own, nextSid) /\ x.sid < nextSid /\ x \in Loose /\ TypeOK
  BY <1>1, <1>3, StepReady
<1>5. x \in Request /\ x.client \in Clients
  BY <1>4 DEF TypeOK, Sound
<1>6. q' \in [Slots -> Request] /\ \A p \in Slots : q'[p] = q[p] \/ q'[p] = Idle
  BY <1>2, <1>4, IdleTyped DEF TypeOK
<1>7. Leaves(x) \in View
  <2> DEFINE items == x.expect.items \cup (IF x.data = None THEN {} ELSE x.data.items \cap {Own(x)})
             flash == IF x.flash = None THEN x.expect.flash
                      ELSE (IF x.kept THEN x.expect.flash ELSE {}) \cup (x.flash \cap {Own(x)})
             until == IF x.expires > 0 THEN x.extended ELSE x.expect.until
  <2>1. x.expect \in View /\ Own(x) \in Items /\ x.extended \in Times
    BY <1>4, OwnItem DEF Loose
  <2>2. items \in SUBSET Items
    BY <2>1 DEF View
  <2>3. flash \in SUBSET Items
    BY <2>1 DEF View
  <2>4. until \in Times
    BY <2>1 DEF View
  <2>5. Leaves(x) = [items |-> items, flash |-> flash, until |-> until]
    BY DEF Leaves
  <2> HIDE DEF items, flash, until
  <2> QED
    BY <2>2, <2>3, <2>4, <2>5 DEF View
<1>8. /\ cookie' \in [Clients -> Sids]
      /\ \A c \in Clients : cookie'[c] = cookie[c]
           \/ (c = x.client /\ x.out # Unset /\ cookie'[c] = x.out)
  <2>1. x.out # Unset => x.out \in Sids
    BY <1>5 DEF Request
  <2>2. cookie \in [Clients -> Sids]
    BY <1>4 DEF TypeOK
  <2> QED
    BY <1>2, <1>5, <2>1, <2>2
<1>9. CookieInv(cookie', own, nextSid)
  <2> SUFFICES ASSUME NEW c \in Clients, cookie'[c] > 0
               PROVE  cookie'[c] < nextSid /\ own[cookie'[c]] = c
    BY DEF CookieInv
  <2>1. CASE cookie'[c] = cookie[c]
    BY <1>1, <2>1 DEF Owned, CookieInv
  <2>2. CASE c = x.client /\ cookie'[c] = x.out
    BY <1>4, <2>2, OwnIds
  <2> QED
    BY <1>8, <2>1, <2>2
<1>10. left' \in [Clients -> View] /\ clock' \in 1..MaxTime
  BY <1>2, <1>4, <1>7 DEF TypeOK
<1> QED
  BY <1>1, <1>2, <1>6, <1>8, <1>9, <1>10, QuietKeeps

LEMMA CrashKeeps ==
  ASSUME IInv, Crash
  PROVE  IInv'
<1>1. PICK own \in Owners : Owned(own)
  BY DEF IInv
<1>2. PICK r \in Slots :
        /\ q' = [q EXCEPT ![r] = Idle]
        /\ UNCHANGED <<session, expires, cookie, clock, nextSid, nextReq, left, dead>>
  BY DEF Crash, Stored, Ghosts
<1>3. TypeOK
  BY DEF IInv
<1>4. q' \in [Slots -> Request] /\ \A p \in Slots : q'[p] = q[p] \/ q'[p] = Idle
  BY <1>2, <1>3, IdleTyped DEF TypeOK
<1>5. /\ cookie' \in [Clients -> Sids] /\ left' \in [Clients -> View] /\ clock' \in 1..MaxTime
      /\ CookieInv(cookie', own, nextSid)
  BY <1>1, <1>2, <1>3 DEF TypeOK, Owned
<1> QED
  BY <1>1, <1>2, <1>4, <1>5, QuietKeeps

\* Time passes, or nothing changes.
LEMMA TickKeeps ==
  ASSUME IInv, Tick \/ UNCHANGED vars
  PROVE  IInv'
<1>1. PICK own \in Owners : Owned(own)
  BY DEF IInv
<1>2. TypeOK /\ MaxTime \in Nat
  BY SessionAssumption DEF IInv
<1>3. UNCHANGED <<session, expires, q, nextSid, nextReq, dead, cookie, left>>
      /\ clock' \in 1..MaxTime
  BY <1>2 DEF Tick, vars, Stored, Ghosts, TypeOK
<1>4. /\ q' \in [Slots -> Request] /\ (\A p \in Slots : q'[p] = q[p])
      /\ cookie' \in [Clients -> Sids] /\ left' \in [Clients -> View]
      /\ CookieInv(cookie', own, nextSid)
  BY <1>1, <1>2, <1>3 DEF TypeOK, Owned
<1> QED
  BY <1>1, <1>3, <1>4, QuietKeeps

-----------------------------------------------------------------------------
(* The theorems *)

\* At first there are no sessions, and no one holds anything.
LEMMA InitIInv ==
  ASSUME Init
  PROVE  IInv
<1>1. /\ MaxTime \in Nat /\ MaxTime > 0 /\ MaxSids \in Nat /\ MaxRequests \in Nat /\ TTL \in Nat
  BY SessionAssumption
<1>2. 0 \in Times /\ Nothing \in View /\ NoSid \in Sids
  BY <1>1 DEF Times, Nothing, View, NoSid, Sids
<1>3. TypeOK
  <2>1. Idle \in Request
    <3>1. 0 \in 0..MaxRequests /\ 0 \in 0..MaxCalls
      BY SessionAssumption
    <3> QED
      BY <1>2, <3>1 DEF Idle, Request, Steps, AllCalls
  <2> QED
    BY <1>1, <1>2, <2>1 DEF Init, TypeOK
<1>4. PICK own : own = [s \in Sids |-> None]
  OBVIOUS
<1>5. own \in Owners
  BY <1>4 DEF Owners
<1>6. Owned(own)
  <2>1. StoreInv(session, own, nextSid)
    BY <1>1 DEF Init, StoreInv, Sids
  <2>2. CookieInv(cookie, own, nextSid)
    BY DEF Init, CookieInv, NoSid
  <2>3. \A r \in Slots : RequestInv(q[r], own, nextSid, dead)
    BY DEF Init, RequestInv, Idle
  <2> QED
    BY <2>1, <2>2, <2>3 DEF Owned
<1> QED
  BY <1>3, <1>5, <1>6 DEF IInv, Init

LEMMA NextKeeps ==
  ASSUME IInv, [Next]_vars
  PROVE  IInv'
<1>1. CASE Next
  BY <1>1, StartKeeps, CallSessionKeeps, CallFlashKeeps, CallKeepFlashKeeps,
     CallClearFlashKeeps, CallExpiresKeeps, CallDeleteKeeps, LoadExpiresKeeps,
     LoadDataKeeps, DeleteSessionKeeps, DeleteExpiresKeeps, ChangeSessionKeeps,
     ChangeExpiresKeeps, ChangeStoreKeeps, FinalizeHeadersKeeps, SaveSessionKeeps,
     SaveFlashKeeps, DeliverKeeps, CrashKeeps, TickKeeps
     DEF Next
<1>2. CASE UNCHANGED vars
  BY <1>2, TickKeeps
<1> QED
  BY <1>1, <1>2

\* No step takes a client's session, or a request's hold on it, to another client.
THEOREM SessionInvariant == Spec => []IInv
<1>1. Init => IInv
  BY InitIInv
<1>2. IInv /\ [Next]_vars => IInv'
  BY NextKeeps
<1> QED
  BY <1>1, <1>2, PTL DEF Spec

\* Requests, the store and the browsers hold what they may, and no id that was
\* never given out.
THEOREM SessionTypeOK == Spec => []TypeOK
<1>1. IInv => TypeOK
  BY DEF IInv
<1> QED
  BY <1>1, SessionInvariant, PTL

\* However requests overlap, crash and lose their answers, no client sees what
\* another put in its session or its flash.
THEOREM SessionNoCrossTalk == Spec => []NoCrossTalk
<1>1. IInv => NoCrossTalk
  <2> SUFFICES ASSUME IInv, NEW r \in Slots
               PROVE  /\ q[r].data # None =>
                           \A i \in q[r].data.items \cup q[r].data.flash : i[1] = q[r].client
                      /\ q[r].flash # None => \A i \in q[r].flash : i[1] = q[r].client
    BY DEF NoCrossTalk
  <2>1. PICK own \in Owners : RequestInv(q[r], own, nextSid, dead)
    BY DEF IInv, Owned
  <2>2. CASE q[r].pc = "idle"
    BY <2>1, <2>2 DEF RequestInv
  <2>3. CASE q[r].pc # "idle"
    BY <2>1, <2>3 DEF RequestInv, Sound, Mine, DataOf, AllOf
  <2> QED
    BY <2>2, <2>3
<1> QED
  BY <1>1, SessionInvariant, PTL

\* A session that was deleted while nobody else was using it has no expiry time
\* in the store, and no request in the application's action holds its data: it
\* stays deleted, whatever requests with its id are on their way.
THEOREM SessionDeletedStaysDeleted == Spec => []DeletedStaysDeleted
<1>1. IInv => DeletedStaysDeleted
  <2> SUFFICES ASSUME IInv, NEW s \in dead
               PROVE  /\ expires[s] = 0
                      /\ \A r \in Slots : q[r].pc = "run" /\ q[r].data # None => sessionid(q[r]) # s
    BY DEF DeletedStaysDeleted
  <2>1. PICK own \in Owners : Owned(own)
    BY DEF IInv
  <2>2. \A r \in Slots : q[r].pc = "run" /\ q[r].data # None => sessionid(q[r]) \notin dead
    BY <2>1 DEF Owned, RequestInv, InPlace, Late
  <2> QED
    BY <2>2 DEF IInv
<1> QED
  BY <1>1, SessionInvariant, PTL

\* With verify_address no request in the application's action has a session of
\* another address, whichever step of which request stored it; it has one of no
\* address only if an application lets addresses change.
THEOREM SessionAddressKept == Spec => []AddressKept
<1>1. IInv => AddressKept
  <2> SUFFICES ASSUME IInv, VerifyAddress, NEW r \in Slots, q[r].pc = "run", q[r].data # None
               PROVE  q[r].data.address \in {q[r].address, NoAddress}
    BY DEF AddressKept
  <2>1. PICK own \in Owners : Owned(own)
    BY DEF IInv
  <2> QED
    BY <2>1 DEF Owned, RequestInv, InPlace, Addressed, OfAddress
<1> QED
  BY <1>1, SessionInvariant, PTL

-----------------------------------------------------------------------------
(* A client that makes one request at a time finds what it left.  The      *)
(* inductive invariant relates, at each place of a handler, what a request *)
(* holds and what the store has to what the request should find (expect).  *)

\* One request of a client at a time, each served and answered; no call of
\* clear_flash, and no session made to let the address change; a session that is
\* bound to an address has no flash.
InTurnUse ==
  /\ OneAtATime /\ Faults = {} /\ Calls \cap {"clearFlash", "unbind"} = {}
  /\ VerifyAddress => NoAddress \notin Addresses /\ Calls \cap {"flash", "putFlash"} = {}

Fields == {"pc", "client", "n", "address", "sent", "calls", "then", "sid", "data",
           "sig", "tried", "expires", "extended", "flash", "alias", "hashes",
           "kept", "gone", "old", "out", "expect"}
DataFields == {"items", "flash", "address", "updated"}

\* A session with nothing in it, and data d with what a view v says
Empty(v) == v.items = {} /\ v.flash = {}
Holds(d, v) == IF d = None THEN Empty(v) ELSE d.items = v.items /\ d.flash = v.flash

\* The store, with sessions S and expiry times X, has view v under id s.
Agrees(s, v, S, X) == IF s = NoSid THEN Empty(v) ELSE Holds(S[s], v) /\ X[s] = v.until

\* Everything in v was put there by a request before the n-th.
Before(v, n) == \A i \in v.items \cup v.flash : i[2] < n

\* The answer's cookie, or the one the browser keeps, is the request's id.
Answers(x) == IF x.out = Unset THEN sessionid(x) = x.sent ELSE x.out = sessionid(x)

Basic(x) == Before(x.expect, x.n) /\ Answers(x)

Plain(x) ==
  /\ x.then # "unbind"
  /\ VerifyAddress => x.flash = None /\ x.then \notin {"flash", "putFlash"}

\* What a request holds is what it should find, and its own item.
DataRight(x) ==
  x.data # None => /\ x.data.items \ {Own(x)} = x.expect.items
                   /\ x.data.flash = x.expect.flash
FlashRight(x) ==
  /\ x.flash # None => /\ x.flash \ {Own(x)} = x.expect.flash
                       /\ x.hashes = x.expect.flash
                       /\ x.data = None => Empty(x.expect)
SigRight(x) ==
  x.sig # None => /\ x.data # None
                  /\ x.sig.items = x.expect.items /\ x.sig.flash = x.expect.flash
AliasRight(x) ==
  /\ x.flash # None => (x.alias <=> x.expect.flash # {})
  /\ x.flash = None => ~x.alias /\ x.hashes = {}
IdRight(x) ==
  /\ x.data # None \/ x.flash # None => x.expires > 0
  /\ x.expires > 0 => sessionid(x) # NoSid
  /\ sessionid(x) = NoSid => Empty(x.expect)
Right(x) == DataRight(x) /\ FlashRight(x) /\ SigRight(x) /\ AliasRight(x) /\ IdRight(x)

\* The store still has what the request has not loaded, and no more than what
\* it holds once it has.
Unread(x, S) == sessionid(x) # NoSid /\ x.data = None => Holds(S[sessionid(x)], x.expect)
ReadFrom(x, d) ==
  /\ d # None
  /\ x.expect.items \subseteq d.items /\ d.items \subseteq x.data.items
  /\ x.expect.flash \subseteq d.flash /\ d.flash \subseteq Current(x).flash
KeptIn(x, S) == Unread(x, S) /\ (x.sig # None => ReadFrom(x, S[sessionid(x)]))

Timed(x, X) ==
  x.expires = 0 /\ sessionid(x) # NoSid => X[sessionid(x)] = x.expect.until

\* A request that looked and has no data has an empty session.
NoneFound(x) == Empty(x.expect) /\ (sessionid(x) # NoSid => x.expires > 0)
Settled(x) == x.tried /\ x.data = None => NoneFound(x)
Looked(x) ==
  /\ x.data = None /\ (x.tried \/ x.then # "expires") => NoneFound(x)
  /\ x.then \in {"flash", "putFlash"} => x.flash = None

\* The expiry time is stored by the time the data are.
Recorded(x, X) ==
  sessionid(x) # NoSid =>
    X[sessionid(x)] = IF x.expires > 0 THEN x.extended ELSE x.expect.until

\* The data are saved, the flash not yet.
SavedIn(x, d) ==
  /\ x.data.items \ {Own(x)} = x.expect.items /\ sessionid(x) # NoSid
  /\ d # None /\ d.items = x.data.items /\ d.flash = x.data.flash
  /\ x.data.flash = IF x.flash = None THEN x.expect.flash
                    ELSE IF x.expect.flash # {} THEN x.flash ELSE {}
Saved(x, S) ==
  /\ x.data # None => SavedIn(x, S[sessionid(x)])
  /\ FlashRight(x) /\ SigRight(x) /\ Unread(x, S)
  /\ x.flash # None => sessionid(x) # NoSid
  /\ sessionid(x) = NoSid => Empty(x.expect)

Turn(x, S, X) ==
  /\ Basic(x) /\ Plain(x)
  /\ x.pc \in {"run", "loadExpires", "loadData", "saveSession"} => Right(x) /\ KeptIn(x, S)
  /\ x.pc \in {"run", "loadExpires", "loadData"} => Timed(x, X)
  /\ x.pc = "run" => Settled(x)
  /\ x.pc \in {"loadExpires", "loadData"} =>
       x.data = None /\ sessionid(x) # NoSid /\ (x.then \in {"flash", "putFlash"} => x.flash = None)
  /\ x.pc = "loadExpires" => x.expires = 0 /\ (x.then = "expires" => ~x.tried)
  /\ x.pc = "loadData" => x.expires > 0
  /\ x.pc \in {"deleteSession", "deleteExpires"} => x.then = "delete" \/ Empty(x.expect)
  /\ x.pc \in Changing => Right(x) /\ x.data # None
  /\ x.pc \in {"saveSession", "saveFlash"} => Recorded(x, X)
  /\ x.pc = "saveFlash" => Saved(x, S)
  /\ x.pc = "deliver" => Agrees(sessionid(x), Leaves(x), S, X)

\* With verify_address every stored session is bound to an address.
AllAddressed(S) == VerifyAddress => \A s \in Sids : S[s] # None => S[s].address # NoAddress

TurnInv ==
  /\ \A r, p \in Slots : Active(r) /\ Active(p) /\ q[r].client = q[p].client => r = p
  /\ \A c \in Clients :
       /\ Before(left[c], nextReq)
       /\ (\A r \in Slots : Active(r) => q[r].client # c) =>
            Agrees(cookie[c], left[c], session, expires)
  /\ \A r \in Slots : Active(r) => /\ cookie[q[r].client] = q[r].sent
                                   /\ q[r].n < nextReq
                                   /\ Turn(q[r], session, expires)
  /\ \A s \in Sids : s >= nextSid => session[s] = None
  /\ AllAddressed(session)

\* A request as the code has it in hand: its fields, and their types where a
\* proof needs them
Typed(x) ==
  /\ DOMAIN x = Fields
  /\ x.client \in Clients /\ x.n \in 1..MaxRequests /\ x.address \in Addresses
  /\ x.data \in Data \cup {None} /\ x.sig \in Data \cup {None}
  /\ x.flash \in (SUBSET Items) \cup {None}
  /\ x.expires \in Nat

\* It holds what it should, and the store what it has not seen.
Fine(x, S) == Typed(x) /\ Basic(x) /\ Plain(x) /\ Right(x) /\ KeptIn(x, S)

SameRequest(x, y) ==
  /\ y.client = x.client /\ y.n = x.n /\ y.address = x.address
  /\ y.sent = x.sent /\ y.then = x.then

\* y holds what x does.
Alike(x, y) ==
  /\ y.client = x.client /\ y.n = x.n /\ y.address = x.address /\ y.sent = x.sent
  /\ sessionid(y) = sessionid(x) /\ y.out = x.out /\ y.expect = x.expect
  /\ y.data = x.data /\ y.sig = x.sig /\ y.expires = x.expires /\ y.extended = x.extended
  /\ y.flash = x.flash /\ y.alias = x.alias /\ y.hashes = x.hashes

\* What an invariant says of a request is about what it holds.
LEMMA AlikeKeeps ==
  ASSUME NEW x, NEW y, Alike(x, y), NEW S, NEW X
  PROVE  /\ Basic(x) => Basic(y)
         /\ Right(x) => Right(y)
         /\ KeptIn(x, S) => KeptIn(y, S)
         /\ Timed(x, X) => Timed(y, X)
         /\ Recorded(x, X) => Recorded(y, X)
         /\ NoneFound(x) => NoneFound(y)
         /\ Saved(x, S) => Saved(y, S)
         /\ Typed(x) /\ DOMAIN y = Fields => Typed(y)
         /\ y.kept = x.kept => Leaves(y) = Leaves(x)
         /\ Current(y) = Current(x)
<1>1. Own(y) = Own(x)
  BY DEF Alike, Own
<1>2. Current(y) = Current(x) /\ (y.kept = x.kept => Leaves(y) = Leaves(x))
  BY <1>1 DEF Alike, Current, Leaves
<1>3. Right(x) => Right(y)
  BY <1>1 DEF Alike, Right, DataRight, FlashRight, SigRight, AliasRight, IdRight, Empty
<1>4. KeptIn(x, S) => KeptIn(y, S)
  BY <1>2 DEF Alike, KeptIn, Unread, ReadFrom
<1>5. Saved(x, S) => Saved(y, S)
  BY <1>1 DEF Alike, Saved, SavedIn, FlashRight, SigRight, Unread, Empty
<1>6. /\ Basic(x) => Basic(y)
      /\ Timed(x, X) => Timed(y, X)
      /\ Recorded(x, X) => Recorded(y, X)
      /\ NoneFound(x) => NoneFound(y)
  BY DEF Alike, Basic, Answers, Timed, Recorded, NoneFound
<1>7. Typed(x) /\ DOMAIN y = Fields => Typed(y)
  BY DEF Alike, Typed
<1> QED
  BY <1>2, <1>3, <1>4, <1>5, <1>6, <1>7

\* What the requests before it left is not its own.
LEMMA OwnIsNew ==
  ASSUME NEW x, Typed(x), Basic(x)
  PROVE  /\ Own(x) \notin x.expect.items /\ Own(x) \notin x.expect.flash
         /\ Own(x) \in Items
<1>1. x.n \in 1..MaxRequests /\ MaxRequests \in Nat /\ x.client \in Clients
  BY SessionAssumption DEF Typed
<1>2. Own(x)[2] = x.n /\ ~(x.n < x.n) /\ Own(x) \in Items
  BY <1>1 DEF Own, Items
<1> QED
  BY <1>2 DEF Basic, Before

\* A session that a request has, or is given, is what it should find.
LEMMA LoadedFine ==
  ASSUME TypeOK, NEW x, NEW S, Fine(x, S), x.data = None => NoneFound(x)
  PROVE  LET l == Loaded(x)
         IN  /\ Fine(l, S) /\ SameRequest(x, l) /\ l.data \in Data /\ l.data # None
             /\ l.expires > 0 /\ l.flash = x.flash /\ l.expect = x.expect
<1>1. CASE x.data # None
  <2>1. Loaded(x) = x /\ x.data \in Data
    BY <1>1 DEF Loaded, Fine, Typed
  <2> QED
    BY <1>1, <2>1 DEF Fine, Right, IdRight, SameRequest
<1>2. CASE x.data = None
  <2> DEFINE c == create_session_id_if_needed(x)
             d == [items |-> {}, flash |-> {}, updated |-> clock,
                   address |-> IF VerifyAddress THEN c.address ELSE NoAddress]
             l == Loaded(x)
  <2>1. DOMAIN x = Fields /\ Empty(x.expect) /\ Typed(x)
    BY <1>2 DEF Fine, Typed, NoneFound
  <2>2. /\ DOMAIN c = Fields
        /\ c.client = x.client /\ c.n = x.n /\ c.address = x.address /\ c.sent = x.sent
        /\ c.then = x.then /\ c.expect = x.expect /\ c.data = x.data /\ c.sig = x.sig
        /\ c.flash = x.flash /\ c.alias = x.alias /\ c.hashes = x.hashes
    BY <2>1 DEF create_session_id_if_needed, create_session_id, Fields
  <2>3. sessionid(c) # NoSid /\ c.expires > 0 /\ c.expires \in Nat /\ Answers(c)
    <3>1. CASE sessionid(x) = NoSid
      <4>1. c = create_session_id(x, 0)
        BY <3>1 DEF create_session_id_if_needed
      <4>2. c.sid = nextSid /\ c.out = nextSid /\ c.expires = initial_expires
        BY <2>1, <4>1, Bounds DEF create_session_id, generate_session_id, Fields
      <4>3. sessionid(c) = nextSid
        BY <4>2, Bounds DEF sessionid, NoSid
      <4> QED
        BY <4>2, <4>3, Bounds, SessionAssumption DEF NoSid, Answers, Unset, Times
    <3>2. CASE sessionid(x) # NoSid
      <4>1. c = x /\ x.expires > 0
        BY <1>2, <3>2 DEF create_session_id_if_needed, NoneFound
      <4> QED
        BY <3>2, <4>1 DEF Fine, Basic, Typed
    <3> QED
      BY <3>1, <3>2
  <2>4. l = [c EXCEPT !.data = d]
    BY <1>2 DEF Loaded, initialize_session_data
  <2>5. d \in Data
    BY <2>1, <2>2, Bounds DEF Data, Typed
  <2>6. d.items = {} /\ d.flash = {}
    OBVIOUS
  <2> HIDE DEF c, d, l
  <2>7. /\ DOMAIN l = Fields /\ l.data = d
        /\ l.client = x.client /\ l.n = x.n /\ l.address = x.address /\ l.sent = x.sent
        /\ l.then = x.then /\ l.expect = x.expect /\ l.sig = x.sig
        /\ l.flash = x.flash /\ l.alias = x.alias /\ l.hashes = x.hashes
        /\ l.expires = c.expires /\ l.out = c.out /\ l.sid = c.sid /\ l.gone = c.gone
    BY <2>2, <2>4 DEF Fields
  <2>8. sessionid(l) = sessionid(c)
    BY <2>2, <2>7 DEF sessionid, get_session_id
  <2>9. d # None
    BY <2>5, NoneAssumption
  <2>10. Typed(l)
    BY <2>1, <2>3, <2>5, <2>7 DEF Typed
  <2>11. Basic(l) /\ Plain(l)
    BY <2>2, <2>3, <2>7, <2>8 DEF Fine, Basic, Plain, Answers
  <2>12. x.sig = None
    BY <1>2 DEF Fine, Right, SigRight
  <2>13. Own(l) = Own(x)
    BY <2>7 DEF Own
  <2>14. Right(l)
    BY <1>2, <2>1, <2>3, <2>6, <2>7, <2>8, <2>9, <2>12, <2>13
       DEF Fine, Right, DataRight, FlashRight, SigRight, AliasRight, IdRight, Empty
  <2>15. KeptIn(l, S)
    BY <2>7, <2>9, <2>12 DEF KeptIn, Unread
  <2> QED
    BY <2>3, <2>5, <2>7, <2>9, <2>10, <2>11, <2>14, <2>15 DEF Fine, SameRequest, l
<1> QED
  BY <1>1, <1>2

\* $c->session->{item} = ...
LEMMA PutFine ==
  ASSUME NEW x, NEW S, Fine(x, S), x.data # None
  PROVE  LET y == put(x)
         IN  /\ Fine(y, S) /\ SameRequest(x, y) /\ y.data # None /\ y.expires = x.expires
             /\ y.expect = x.expect
<1> DEFINE y == put(x)
<1>1. Typed(x) /\ Basic(x) /\ DOMAIN x = Fields /\ x.data \in Data
  BY DEF Fine, Typed
<1>2. Own(x) \notin x.expect.items /\ Own(x) \in Items
  BY <1>1, OwnIsNew
<1>3. /\ DOMAIN y = Fields /\ y.data = [x.data EXCEPT !.items = x.data.items \cup {Own(x)}]
      /\ y.client = x.client /\ y.n = x.n /\ y.address = x.address /\ y.sent = x.sent
      /\ y.then = x.then /\ y.sid = x.sid /\ y.gone = x.gone
      /\ y.out = x.out /\ y.expect = x.expect /\ y.sig = x.sig
      /\ y.expires = x.expires /\ y.extended = x.extended
      /\ y.flash = x.flash /\ y.alias = x.alias /\ y.hashes = x.hashes
  BY <1>1 DEF put, Fields, Data
<1>4. /\ y.data.items = x.data.items \cup {Own(x)} /\ y.data.flash = x.data.flash
      /\ y.data \in Data
  BY <1>1, <1>2, <1>3 DEF Data
<1> HIDE DEF y
<1>5. y.data # None
  BY <1>4, NoneAssumption
<1>6. sessionid(y) = sessionid(x) /\ Own(y) = Own(x)
  BY <1>3 DEF sessionid, get_session_id, Own
<1>7. Typed(y)
  BY <1>1, <1>3, <1>4 DEF Typed
<1>8. Basic(y) /\ Plain(y)
  BY <1>3, <1>6 DEF Fine, Basic, Plain, Answers
<1>9. Right(y)
  <2>1. y.data.items \ {Own(y)} = x.data.items \ {Own(x)}
    BY <1>4, <1>6
  <2> QED
    BY <1>3, <1>4, <1>5, <1>6, <2>1
       DEF Fine, Right, DataRight, FlashRight, SigRight, AliasRight, IdRight
<1>10. KeptIn(y, S)
  <2>1. Current(y).flash = Current(x).flash
    BY <1>1, <1>3, <1>4 DEF Current, Data
  <2> QED
    BY <1>3, <1>4, <1>5, <1>6, <2>1 DEF Fine, KeptIn, Unread, ReadFrom
<1> QED
  BY <1>3, <1>5, <1>7, <1>8, <1>9, <1>10 DEF Fine, SameRequest, y

\* The flash is looked at for the first time.
LEMMA LoadFlashFine ==
  ASSUME NEW x, NEW S, Fine(x, S), x.data # None, x.flash = None, ~VerifyAddress
  PROVE  LET y == load_flash(x)
         IN  /\ Fine(y, S) /\ SameRequest(x, y) /\ y.data # None /\ y.flash # None
             /\ y.expires = x.expires /\ y.expect = x.expect
<1> DEFINE y == load_flash(x)
<1>1. Typed(x) /\ Basic(x) /\ DOMAIN x = Fields /\ x.data \in Data /\ x.data.flash = x.expect.flash
  BY DEF Fine, Typed, Right, DataRight
<1>2. Own(x) \notin x.expect.flash
  BY <1>1, OwnIsNew
<1>3. /\ DOMAIN y = Fields
      /\ y.client = x.client /\ y.n = x.n /\ y.address = x.address /\ y.sent = x.sent
      /\ y.then = x.then /\ y.sid = x.sid /\ y.gone = x.gone /\ y.data = x.data
      /\ y.out = x.out /\ y.expect = x.expect /\ y.sig = x.sig
      /\ y.expires = x.expires /\ y.extended = x.extended
      /\ y.flash = x.expect.flash /\ y.hashes = x.expect.flash
      /\ y.alias = (x.expect.flash # {})
  BY <1>1 DEF load_flash, Fields
<1>4. x.expect.flash \in SUBSET Items /\ x.expect.flash # None
  BY <1>1, NoneAssumption DEF Data
<1> HIDE DEF y
<1>5. sessionid(y) = sessionid(x) /\ Own(y) = Own(x)
  BY <1>3 DEF sessionid, get_session_id, Own
<1>6. Typed(y)
  BY <1>1, <1>3, <1>4 DEF Typed
<1>7. Basic(y) /\ Plain(y)
  BY <1>3, <1>5 DEF Fine, Basic, Plain, Answers
<1>8. Right(y)
  <2>1. y.flash \ {Own(y)} = x.expect.flash
    BY <1>2, <1>3, <1>5
  <2>2. FlashRight(y) /\ AliasRight(y)
    BY <1>3, <1>4, <2>1 DEF FlashRight, AliasRight
  <2> QED
    BY <1>3, <1>5, <2>2 DEF Fine, Right, DataRight, SigRight, IdRight
<1>9. KeptIn(y, S)
  <2>1. Current(y).flash = Current(x).flash
    BY <1>1, <1>3 DEF Current, Data, Fine, Right, AliasRight
  <2> QED
    BY <1>3, <1>5, <2>1 DEF Fine, KeptIn, Unread, ReadFrom
<1> QED
  BY <1>3, <1>4, <1>6, <1>7, <1>8, <1>9 DEF Fine, SameRequest, y

\* $c->flash->{item} = ...
LEMMA PutFlashFine ==
  ASSUME NEW x, NEW S, Fine(x, S), x.flash # None
  PROVE  LET y == put_flash(x)
         IN  /\ Fine(y, S) /\ SameRequest(x, y) /\ y.data = x.data /\ y.flash # None
             /\ y.expires = x.expires /\ y.expect = x.expect /\ sessionid(y) = sessionid(x)
             /\ y.tried = x.tried /\ y.pc = x.pc
<1> DEFINE y == put_flash(x)
<1>1. Typed(x) /\ Basic(x) /\ DOMAIN x = Fields /\ x.flash \in SUBSET Items
  BY DEF Fine, Typed
<1>2. Own(x) \notin x.expect.flash /\ Own(x) \in Items
  BY <1>1, OwnIsNew
<1>3. /\ DOMAIN y = Fields
      /\ y.client = x.client /\ y.n = x.n /\ y.address = x.address /\ y.sent = x.sent
      /\ y.then = x.then /\ y.sid = x.sid /\ y.gone = x.gone /\ y.data = x.data
      /\ y.out = x.out /\ y.expect = x.expect /\ y.sig = x.sig
      /\ y.expires = x.expires /\ y.extended = x.extended
      /\ y.flash = x.flash \cup {Own(x)} /\ y.hashes = x.hashes /\ y.alias = x.alias
      /\ y.tried = x.tried /\ y.pc = x.pc
  BY <1>1 DEF put_flash, Fields
<1>4. y.flash \in SUBSET Items /\ y.flash # None
  BY <1>1, <1>2, <1>3, NoneAssumption
<1> HIDE DEF y
<1>5. sessionid(y) = sessionid(x) /\ Own(y) = Own(x)
  BY <1>3 DEF sessionid, get_session_id, Own
<1>6. Typed(y)
  BY <1>1, <1>3, <1>4 DEF Typed
<1>7. Basic(y) /\ Plain(y)
  BY <1>3, <1>5 DEF Fine, Basic, Plain, Answers
<1>8. Right(y)
  <2>1. y.flash \ {Own(y)} = x.flash \ {Own(x)}
    BY <1>3, <1>5
  <2>2. FlashRight(y) /\ AliasRight(y)
    BY <1>3, <1>4, <2>1 DEF Fine, Right, FlashRight, AliasRight
  <2> QED
    BY <1>3, <1>5, <2>2 DEF Fine, Right, DataRight, SigRight, IdRight
<1>9. KeptIn(y, S)
  <2>1. x.sig # None => x.data \in Data
    BY <1>1 DEF Fine, Right, SigRight, Typed
  <2>2. x.sig # None => Current(x).flash \subseteq Current(y).flash
    BY <1>3, <2>1 DEF Current, Data
  <2> QED
    BY <1>3, <1>5, <2>2 DEF Fine, KeptIn, Unread, ReadFrom
<1> QED
  BY <1>3, <1>4, <1>5, <1>6, <1>7, <1>8, <1>9 DEF Fine, SameRequest, y

\* session_expires only says until when, and gives the client its id again.
LEMMA ExtendFine ==
  ASSUME NEW x, NEW S, NEW X, Fine(x, S), Timed(x, X)
  PROVE  LET y == extend_session_expires(x)
         IN  /\ Fine(y, S) /\ SameRequest(x, y) /\ Timed(y, X) /\ y.data = x.data
             /\ y.expires = x.expires /\ y.expect = x.expect /\ sessionid(y) = sessionid(x)
             /\ y.tried = x.tried /\ y.pc = x.pc /\ y.flash = x.flash
<1> DEFINE y == extend_session_expires(x)
<1>1. Typed(x) /\ Basic(x) /\ DOMAIN x = Fields
  BY DEF Fine, Typed
<1>2. /\ DOMAIN y = Fields
      /\ y.client = x.client /\ y.n = x.n /\ y.address = x.address /\ y.sent = x.sent
      /\ y.then = x.then /\ y.sid = x.sid /\ y.gone = x.gone /\ y.data = x.data
      /\ y.out = (IF x.sent # NoSid THEN sessionid(x) ELSE x.out)
      /\ y.expect = x.expect /\ y.sig = x.sig /\ y.expires = x.expires
      /\ y.flash = x.flash /\ y.hashes = x.hashes /\ y.alias = x.alias
      /\ y.tried = x.tried /\ y.pc = x.pc
  BY <1>1 DEF extend_session_expires, Fields
<1> HIDE DEF y
<1>3. sessionid(y) = sessionid(x) /\ Own(y) = Own(x) /\ Current(y) = Current(x)
  BY <1>2 DEF sessionid, get_session_id, Own, Current
<1>4. Typed(y) /\ Plain(y)
  BY <1>1, <1>2 DEF Typed, Fine, Plain
<1>5. Answers(y)
  BY <1>1, <1>2, <1>3 DEF Basic, Answers
<1>6. Basic(y)
  BY <1>1, <1>2, <1>5 DEF Basic
<1>7. Right(y)
  BY <1>2, <1>3 DEF Fine, Right, DataRight, FlashRight, SigRight, AliasRight, IdRight
<1>8. KeptIn(y, S) /\ Timed(y, X)
  BY <1>2, <1>3 DEF Fine, KeptIn, Unread, ReadFrom, Timed
<1> QED
  BY <1>2, <1>3, <1>4, <1>6, <1>7, <1>8 DEF Fine, SameRequest, y

\* A call is over: the application runs on.
LEMMA RunsOn ==
  ASSUME NEW z, NEW S, NEW X, Fine(z, S), Timed(z, X), Settled(z)
  PROVE  LET y == [z EXCEPT !.pc = "run"]
         IN  Typed(y) /\ SameRequest(z, y) /\ y.pc = "run" /\ Turn(y, S, X)
<1> DEFINE y == [z EXCEPT !.pc = "run"]
<1>1. DOMAIN z = Fields
  BY DEF Fine, Typed
<1>2. /\ DOMAIN y = Fields /\ y.pc = "run"
      /\ y.client = z.client /\ y.n = z.n /\ y.address = z.address /\ y.sent = z.sent
      /\ y.then = z.then /\ y.sid = z.sid /\ y.gone = z.gone /\ y.out = z.out
      /\ y.expect = z.expect /\ y.data = z.data /\ y.sig = z.sig
      /\ y.expires = z.expires /\ y.extended = z.extended /\ y.tried = z.tried
      /\ y.flash = z.flash /\ y.alias = z.alias /\ y.hashes = z.hashes /\ y.kept = z.kept
  BY <1>1 DEF Fields
<1> HIDE DEF y
<1>3. Alike(z, y)
  BY <1>2 DEF Alike, sessionid, get_session_id
<1>4. Typed(y) /\ Basic(y) /\ Right(y) /\ KeptIn(y, S) /\ Timed(y, X)
  BY <1>2, <1>3, AlikeKeeps DEF Fine
<1>5. Settled(y)
  BY <1>2, <1>3 DEF Settled, NoneFound, Alike
<1>6. Plain(y)
  BY <1>2 DEF Fine, Plain
<1> QED
  BY <1>2, <1>4, <1>5, <1>6 DEF Turn, Changing, SameRequest, y

\* What has a session runs on.
LEMMA LoadedRunsOn ==
  ASSUME NEW z, NEW S, NEW X, Fine(z, S), z.data # None, z.expires > 0
  PROVE  LET y == [z EXCEPT !.pc = "run"]
         IN  Typed(y) /\ SameRequest(z, y) /\ y.pc = "run" /\ Turn(y, S, X)
<1>1. Timed(z, X) /\ Settled(z)
  BY DEF Timed, Settled
<1> QED
  BY <1>1, RunsOn

\* change_session_id makes an id and keeps what it has.
LEMMA ChangeTurn ==
  ASSUME TypeOK, NEW l, NEW S, NEW X, Fine(l, S), l.data # None, NEW k \in {0, 1}
  PROVE  LET y == [create_session_id(l, k) EXCEPT !.pc = "changeSession", !.old = sessionid(l)]
         IN  Typed(y) /\ SameRequest(l, y) /\ y.pc = "changeSession" /\ Turn(y, S, X)
<1> DEFINE y == [create_session_id(l, k) EXCEPT !.pc = "changeSession", !.old = sessionid(l)]
           id == nextSid + k
<1>1. DOMAIN l = Fields
  BY DEF Fine, Typed
<1>2. nextSid \in Nat /\ nextSid > 0 /\ initial_expires \in Nat /\ initial_expires > 0
  BY Bounds, SessionAssumption DEF Times
<1>3. /\ DOMAIN y = Fields /\ y.pc = "changeSession"
      /\ y.client = l.client /\ y.n = l.n /\ y.address = l.address /\ y.sent = l.sent
      /\ y.then = l.then /\ y.sid = id /\ y.out = id
      /\ y.expect = l.expect /\ y.data = l.data /\ y.sig = l.sig
      /\ y.expires = initial_expires /\ y.tried = l.tried
      /\ y.flash = l.flash /\ y.alias = l.alias /\ y.hashes = l.hashes /\ y.kept = l.kept
  BY <1>1 DEF Fields, create_session_id, generate_session_id
<1>4. id # NoSid /\ id # Unset /\ id \in Nat
  BY <1>2 DEF NoSid, Unset
<1> HIDE DEF y, id
<1>5. sessionid(y) = id /\ Own(y) = Own(l)
  BY <1>3, <1>4 DEF sessionid, Own
<1>6. Typed(y)
  BY <1>2, <1>3 DEF Fine, Typed
<1>7. Basic(y) /\ Plain(y)
  BY <1>3, <1>4, <1>5 DEF Fine, Basic, Plain, Answers
<1>8. Right(y)
  BY <1>2, <1>3, <1>4, <1>5 DEF Fine, Right, DataRight, FlashRight, SigRight, AliasRight, IdRight
<1> QED
  BY <1>3, <1>6, <1>7, <1>8 DEF Turn, Changing, SameRequest, y

\* Where the call that needed the session goes on
Resumed(x, y, S, X) ==
  /\ Typed(y) /\ SameRequest(x, y) /\ Turn(y, S, X)
  /\ y.pc \in {"run", "changeSession"}

LEMMA ResumeTurn ==
  ASSUME TypeOK, NEW x, NEW S, NEW X, Fine(x, S), Timed(x, X), Looked(x), x.then \in Loading
  PROVE  Resumed(x, Resume(x), S, X)
<1> DEFINE l == Loaded(x)
<1>1. x.then # "expires" =>
        /\ Fine(l, S) /\ SameRequest(x, l) /\ l.data \in Data /\ l.data # None
        /\ l.expires > 0 /\ l.flash = x.flash /\ l.expect = x.expect
  BY LoadedFine DEF Looked
<1> HIDE DEF l
<1>2. CASE x.then = "session"
  <2>1. Resume(x) = [l EXCEPT !.pc = "run"]
    BY <1>2 DEF Resume, l
  <2> QED
    BY <1>1, <1>2, <2>1, LoadedRunsOn DEF Resumed, SameRequest
<1>3. CASE x.then = "put"
  <2> DEFINE z == put(l)
  <2>1. Resume(x) = [z EXCEPT !.pc = "run"]
    BY <1>3 DEF Resume, l
  <2>2. Fine(z, S) /\ SameRequest(l, z) /\ z.data # None /\ z.expires > 0
    BY <1>1, <1>3, PutFine
  <2> HIDE DEF z
  <2> QED
    BY <1>1, <1>3, <2>1, <2>2, LoadedRunsOn DEF Resumed, SameRequest
<1>4. CASE x.then = "flash" \/ x.then = "putFlash"
  <2> DEFINE f == load_flash(l)
             z == put_flash(f)
  <2>1. ~VerifyAddress /\ l.flash = None
    BY <1>1, <1>4 DEF Fine, Plain, Looked
  <2>2. /\ Fine(f, S) /\ SameRequest(l, f) /\ f.data # None /\ f.flash # None
        /\ f.expires > 0
    BY <1>1, <1>4, <2>1, LoadFlashFine
  <2> HIDE DEF f
  <2>3. CASE x.then = "flash"
    <3>1. Resume(x) = [f EXCEPT !.pc = "run"]
      BY <2>3 DEF Resume, l, f
    <3> QED
      BY <1>1, <1>4, <2>2, <3>1, LoadedRunsOn DEF Resumed, SameRequest
  <2>4. CASE x.then = "putFlash"
    <3>1. Resume(x) = [z EXCEPT !.pc = "run"]
      BY <2>4 DEF Resume, l, f
    <3>2. Fine(z, S) /\ SameRequest(f, z) /\ z.data # None /\ z.expires > 0
      BY <2>2, PutFlashFine
    <3> HIDE DEF z
    <3> QED
      BY <1>1, <1>4, <2>2, <3>1, <3>2, LoadedRunsOn DEF Resumed, SameRequest
  <2> QED
    BY <1>4, <2>3, <2>4
<1>5. CASE x.then \in {"valid", "delete"}
  <2>1. Resume(x) = [x EXCEPT !.pc = "run"]
    BY <1>5 DEF Resume
  <2>2. Settled(x)
    BY <1>5 DEF Looked, Settled
  <2> QED
    BY <2>1, <2>2, RunsOn DEF Resumed
<1>6. CASE x.then = "expires"
  <2> DEFINE z == extend_session_expires(x)
  <2>1. Resume(x) = [z EXCEPT !.pc = "run"]
    BY <1>6 DEF Resume
  <2>2. /\ Fine(z, S) /\ SameRequest(x, z) /\ Timed(z, X) /\ z.data = x.data
        /\ z.expires = x.expires /\ z.expect = x.expect /\ sessionid(z) = sessionid(x)
        /\ z.tried = x.tried
    BY ExtendFine
  <2> HIDE DEF z
  <2>3. Settled(z)
    BY <2>2 DEF Looked, Settled, NoneFound
  <2> QED
    BY <2>1, <2>2, <2>3, RunsOn DEF Resumed, SameRequest
<1>7. CASE x.then = "change"
  <2>1. PICK k \in {0, 1} : k = IF l.sid = nextSid THEN 1 ELSE 0
    OBVIOUS
  <2> DEFINE y == [create_session_id(l, k) EXCEPT !.pc = "changeSession", !.old = sessionid(l)]
  <2>2. Resume(x) = y
    BY <1>7, <2>1 DEF Resume, l
  <2>3. Typed(y) /\ SameRequest(l, y) /\ y.pc = "changeSession" /\ Turn(y, S, X)
    BY <1>1, <1>7, ChangeTurn
  <2> HIDE DEF y
  <2> QED
    BY <1>1, <1>7, <2>2, <2>3 DEF Resumed, SameRequest
<1> QED
  BY <1>2, <1>3, <1>4, <1>5, <1>6, <1>7 DEF Loading, Fine, Plain

-----------------------------------------------------------------------------
(* What a step of one request leaves to the others *)

\* A request sees of the store what is under its id.
LEMMA TurnFrame ==
  ASSUME NEW x, NEW S, NEW X, NEW S2, NEW X2, Turn(x, S, X),
         S2[sessionid(x)] = S[sessionid(x)], X2[sessionid(x)] = X[sessionid(x)]
  PROVE  Turn(x, S2, X2)
<1>1. KeptIn(x, S) => KeptIn(x, S2)
  BY DEF KeptIn, Unread
<1>2. Timed(x, X) => Timed(x, X2)
  BY DEF Timed
<1>3. Recorded(x, X) => Recorded(x, X2)
  BY DEF Recorded
<1>4. Saved(x, S) => Saved(x, S2)
  BY DEF Saved, Unread
<1>5. Agrees(sessionid(x), Leaves(x), S, X) => Agrees(sessionid(x), Leaves(x), S2, X2)
  BY DEF Agrees
<1> QED
  BY <1>1, <1>2, <1>3, <1>4, <1>5 DEF Turn

\* What is known of a request that is served, whoever's turn it is
LEMMA Served ==
  ASSUME IInv, NEW r \in Slots, Active(r)
  PROVE  /\ Typed(q[r]) /\ q[r].sid < nextSid /\ TypeOK
         /\ q[r].pc \in Fetching => q[r].sid > 0 /\ q[r].then \in Loading
         /\ q[r].pc \in Changing => q[r].data \in Data /\ q[r].old > 0 /\ q[r].sid > q[r].old
         /\ q[r].pc \notin {"deleteSession", "deleteExpires", "deliver"} => Addressed(q[r])
         /\ q[r].data # None /\ q[r].pc # "deliver" => sessionid(q[r]) # NoSid
         /\ q[r].sid \in Nat /\ q[r].sent \in Nat /\ q[r].old \in Nat /\ sessionid(q[r]) \in Sids
<1>1. PICK own \in Owners : Owned(own)
  BY DEF IInv
<1>2. Sound(q[r], own, nextSid) /\ q[r].sid < nextSid /\ InPlace(q[r], dead) /\ q[r] \in Loose
  BY <1>1 DEF Owned, RequestInv, Active, Sound
<1>3. TypeOK /\ q[r] \in Request
  BY DEF IInv, TypeOK
<1>4. DOMAIN q[r] = Fields /\ q[r].expires \in Nat /\ q[r].n \in 1..MaxRequests
  <2>1. DOMAIN q[r] = Fields
    BY <1>3 DEF Request, Fields
  <2>2. q[r].expires \in Times /\ q[r].n \in 0..MaxRequests
    BY <1>3 DEF Request
  <2> QED
    BY <1>2, <2>1, <2>2, SessionAssumption DEF Times, Sound
<1>5. Typed(q[r])
  BY <1>2, <1>3, <1>4 DEF Typed, Request, Sound
<1>6. q[r].sid \in Sids /\ q[r].sent \in Sids /\ q[r].old \in Sids /\ sessionid(q[r]) \in Sids
  BY <1>3, SessionAssumption DEF Request, sessionid, get_session_id, Sids, NoSid
<1>7. q[r].data # None /\ q[r].pc # "deliver" => sessionid(q[r]) # NoSid
  BY <1>2, <1>6 DEF InPlace, NoSid, Sids
<1> QED
  BY <1>2, <1>3, <1>5, <1>6, <1>7 DEF InPlace, Sids

\* The ids under which a request may store
Ids(x) == {x.sid, x.sent, x.old} \ {NoSid}

\* They are of no other client.
LEMMA Apart ==
  ASSUME IInv, NEW r \in Slots, Active(r), NEW s \in Ids(q[r])
  PROVE  /\ s \in Sids /\ s < nextSid
         /\ \A p \in Slots : Active(p) /\ q[p].client # q[r].client => sessionid(q[p]) # s
         /\ \A c \in Clients : c # q[r].client => cookie[c] # s
<1>1. PICK own \in Owners : Owned(own)
  BY DEF IInv
<1>2. TypeOK /\ s > 0 /\ s \in Sids
  BY DEF IInv, TypeOK, Request, Ids, Sids, NoSid
<1>3. Sound(q[r], own, nextSid) /\ q[r].sid < nextSid
  BY <1>1 DEF Owned, RequestInv, Active
<1>4. s < nextSid /\ own[s] = q[r].client
  BY <1>2, <1>3, OwnIds DEF Ids
<1>5. ASSUME NEW p \in Slots, Active(p), q[p].client # q[r].client
      PROVE  sessionid(q[p]) # s
  <2>1. Sound(q[p], own, nextSid) /\ q[p].sid < nextSid
    BY <1>1, <1>5 DEF Owned, RequestInv, Active
  <2>2. sessionid(q[p]) > 0 => own[sessionid(q[p])] = q[p].client
    BY <1>2, <2>1, OwnIds DEF NoSid
  <2> QED
    BY <1>2, <1>4, <1>5, <2>2
<1>6. \A c \in Clients : c # q[r].client => cookie[c] # s
  BY <1>1, <1>2, <1>4 DEF Owned, CookieInv
<1> QED
  BY <1>2, <1>4, <1>5, <1>6

\* What the step of request r writes
Writes(r) ==
  \A s \in Sids : s \notin Ids(q[r]) => session'[s] = session[s] /\ expires'[s] = expires[s]

\* A request stays what it is, in a new place.
Moves(r, y) ==
  /\ y.client = q[r].client /\ y.n = q[r].n /\ y.sent = q[r].sent
  /\ y.pc # "idle" /\ Turn(y, session', expires')

\* A request that has its turn, and writes under its own ids, leaves the others theirs.
LEMMA TurnContinues ==
  ASSUME IInv, IInv', TurnInv, NEW r \in Slots, Active(r), NEW y, Becomes(r, y), Moves(r, y),
         Writes(r), AllAddressed(session'), UNCHANGED <<cookie, left, nextReq>>
  PROVE  TurnInv'
<1>1. /\ q' = [q EXCEPT ![r] = y] /\ q \in [Slots -> Request]
      /\ nextSid' = (IF y.sid >= nextSid THEN y.sid + 1 ELSE nextSid)
      /\ nextSid \in Nat /\ cookie \in [Clients -> Sids] /\ TypeOK
  BY Bounds DEF Becomes, IInv, TypeOK
<1>2. /\ q'[r] = y /\ \A p \in Slots : p # r => q'[p] = q[p]
  BY <1>1
<1>3. \A p \in Slots : /\ Active(p)' <=> Active(p)
                       /\ Active(p) => /\ q'[p].client = q[p].client
                                       /\ q'[p].n = q[p].n /\ q'[p].sent = q[p].sent
  BY <1>2 DEF Active, Moves
<1>4. \A s \in Ids(q[r]) : s < nextSid
  BY Apart
<1>5. nextSid' >= nextSid
  <2>1. IInv' => y.sid \in Int
    BY <1>2 DEF IInv, TypeOK, Request, Sids
  <2> QED
    BY <1>1, <2>1
<1>6. \A s \in Sids : s >= nextSid' => session'[s] = None
  <2>1. \A s \in Sids : s >= nextSid' => s >= nextSid
    BY <1>1, <1>5 DEF Sids
  <2>2. \A s \in Sids : s >= nextSid => s \notin Ids(q[r])
    BY <1>1, <1>4 DEF Sids
  <2> QED
    BY <2>1, <2>2 DEF Writes, TurnInv
<1>7. ASSUME NEW p \in Slots, Active(p), p # r
      PROVE  Turn(q[p], session', expires')
  <2>1. q[p].client # q[r].client
    BY <1>7 DEF TurnInv
  <2>2. sessionid(q[p]) \in Sids /\ sessionid(q[p]) \notin Ids(q[r])
    BY <1>7, <2>1, Served, Apart
  <2>3. Turn(q[p], session, expires)
    BY <1>7 DEF TurnInv
  <2> QED
    BY <2>2, <2>3, TurnFrame DEF Writes
<1>8. ASSUME NEW c \in Clients, \A p \in Slots : Active(p) => q[p].client # c
      PROVE  Agrees(cookie[c], left[c], session', expires')
  <2>1. cookie[c] \in Sids /\ cookie[c] \notin Ids(q[r])
    BY <1>1, <1>8, Apart
  <2>2. Agrees(cookie[c], left[c], session, expires)
    BY <1>8 DEF TurnInv
  <2> QED
    BY <2>1, <2>2 DEF Agrees, Writes
<1>9. \A p, o \in Slots : Active(p)' /\ Active(o)' /\ q'[p].client = q'[o].client => p = o
  BY <1>3 DEF TurnInv
<1>10. \A c \in Clients :
         /\ Before(left'[c], nextReq')
         /\ (\A p \in Slots : Active(p)' => q'[p].client # c) =>
              Agrees(cookie'[c], left'[c], session', expires')
  BY <1>3, <1>8 DEF TurnInv
<1>11. \A p \in Slots : Active(p)' => /\ cookie'[q'[p].client] = q'[p].sent
                                      /\ q'[p].n < nextReq'
                                      /\ Turn(q'[p], session', expires')
  BY <1>2, <1>3, <1>7 DEF TurnInv, Moves
<1> QED
  BY <1>6, <1>9, <1>10, <1>11 DEF TurnInv

-----------------------------------------------------------------------------
(* The calls of the plugin, in turn *)

\* A request in the application's action has what it should.
LEMMA AtRun ==
  ASSUME NEW y, NEW S, NEW X, Fine(y, S), Timed(y, X), Settled(y), y.pc = "run"
  PROVE  Turn(y, S, X)
BY DEF Fine, Turn, Changing

LEMMA RunTurn ==
  ASSUME InTurnUse, IInv, TurnInv, NEW r \in Slots, q[r].pc = "run", NEW m \in Calls
  PROVE  LET x == [q[r] EXCEPT !.then = m]
         IN  /\ Fine(x, session) /\ Timed(x, expires) /\ Settled(x)
             /\ Alike(q[r], x) /\ x.then = m /\ x.pc = "run"
             /\ x.kept = q[r].kept /\ x.tried = q[r].tried
             /\ m \in {"flash", "putFlash"} => ~VerifyAddress
<1> DEFINE x == [q[r] EXCEPT !.then = m]
<1>1. Active(r) /\ Typed(q[r]) /\ DOMAIN q[r] = Fields
  BY Served DEF Active, Typed
<1>2. Turn(q[r], session, expires)
  BY <1>1 DEF TurnInv
<1>3. /\ DOMAIN x = Fields /\ x.then = m /\ x.pc = q[r].pc
      /\ x.client = q[r].client /\ x.n = q[r].n /\ x.address = q[r].address
      /\ x.sent = q[r].sent /\ x.sid = q[r].sid /\ x.gone = q[r].gone
      /\ x.out = q[r].out /\ x.expect = q[r].expect /\ x.data = q[r].data /\ x.sig = q[r].sig
      /\ x.expires = q[r].expires /\ x.extended = q[r].extended /\ x.tried = q[r].tried
      /\ x.flash = q[r].flash /\ x.alias = q[r].alias /\ x.hashes = q[r].hashes
      /\ x.kept = q[r].kept
  BY <1>1 DEF Fields
<1> HIDE DEF x
<1>4. Alike(q[r], x)
  BY <1>3 DEF Alike, sessionid, get_session_id
<1>5. Typed(x) /\ Basic(x) /\ Right(x) /\ KeptIn(x, session) /\ Timed(x, expires)
  BY <1>1, <1>2, <1>3, <1>4, AlikeKeeps DEF Turn
<1>6. Settled(x)
  BY <1>2, <1>3, <1>4 DEF Turn, Settled, NoneFound, Alike
<1>7. Plain(x) /\ (m \in {"flash", "putFlash"} => ~VerifyAddress)
  BY <1>2, <1>3 DEF Turn, Plain, InTurnUse
<1> QED
  BY <1>3, <1>4, <1>5, <1>6, <1>7 DEF Fine, x

\* A call that leads to a place where the request has what it should
LEMMA CallTurn ==
  ASSUME IInv, IInv', TurnInv, NEW r \in Slots, NEW m, NEW y, Call(r, m, y),
         DOMAIN y = Fields, Turn(y, session, expires), y.pc # "idle",
         y.client = q[r].client, y.n = q[r].n, y.sent = q[r].sent,
         \/ y.then = m
         \/ y.pc = "run" /\ m # "unbind" /\ (VerifyAddress => m \notin {"flash", "putFlash"})
  PROVE  TurnInv'
<1> DEFINE z == [y EXCEPT !.calls = @ - 1, !.then = m]
<1>1. /\ Becomes(r, z) /\ Active(r)
      /\ UNCHANGED <<session, expires, cookie, left, nextReq>>
  BY DEF Call, Stored, Ghosts, Active
<1>2. /\ DOMAIN z = Fields /\ z.then = m /\ z.pc = y.pc
      /\ z.client = y.client /\ z.n = y.n /\ z.address = y.address
      /\ z.sent = y.sent /\ z.sid = y.sid /\ z.gone = y.gone
      /\ z.out = y.out /\ z.expect = y.expect /\ z.data = y.data /\ z.sig = y.sig
      /\ z.expires = y.expires /\ z.extended = y.extended /\ z.tried = y.tried
      /\ z.flash = y.flash /\ z.alias = y.alias /\ z.hashes = y.hashes /\ z.kept = y.kept
  BY DEF Fields
<1> HIDE DEF z
<1>3. Alike(y, z)
  BY <1>2 DEF Alike, sessionid, get_session_id
<1>4. /\ Basic(y) => Basic(z)
      /\ Right(y) => Right(z)
      /\ KeptIn(y, session) => KeptIn(z, session)
      /\ Timed(y, expires) => Timed(z, expires)
      /\ Recorded(y, expires) => Recorded(z, expires)
      /\ Saved(y, session) => Saved(z, session)
      /\ Leaves(z) = Leaves(y) /\ sessionid(z) = sessionid(y)
  BY <1>2, <1>3, AlikeKeeps DEF Alike
<1>5. Settled(y) => Settled(z)
  BY <1>2, <1>4 DEF Settled, NoneFound
<1>6. Plain(z)
  BY <1>2 DEF Turn, Plain
<1>7. Turn(z, session, expires)
  BY <1>2, <1>4, <1>5, <1>6 DEF Turn, Changing
<1>8. Moves(r, z) /\ Writes(r) /\ AllAddressed(session')
  BY <1>1, <1>2, <1>7 DEF Moves, Writes, TurnInv, AllAddressed
<1> QED
  BY <1>1, <1>8, TurnContinues

\* A request that turns to the store
LEMMA FetchTurn ==
  ASSUME NEW x, NEW S, NEW X, NEW pc, Fine(x, S), Timed(x, X),
         x.data = None, sessionid(x) # NoSid,
         x.then \in {"flash", "putFlash"} => x.flash = None,
         \/ pc = "loadExpires" /\ x.expires = 0 /\ (x.then = "expires" => ~x.tried)
         \/ pc = "loadData" /\ x.expires > 0
  PROVE  LET y == Fetches(x, pc)
         IN  DOMAIN y = Fields /\ SameRequest(x, y) /\ y.pc = pc /\ Turn(y, S, X)
<1> DEFINE y == Fetches(x, pc)
<1>1. DOMAIN x = Fields
  BY DEF Fine, Typed
<1>2. /\ DOMAIN y = Fields /\ y.then = x.then /\ y.pc = pc
      /\ y.client = x.client /\ y.n = x.n /\ y.address = x.address
      /\ y.sent = x.sent /\ y.sid = sessionid(x) /\ y.gone = x.gone
      /\ y.out = x.out /\ y.expect = x.expect /\ y.data = x.data /\ y.sig = x.sig
      /\ y.expires = x.expires /\ y.extended = x.extended /\ y.tried = x.tried
      /\ y.flash = x.flash /\ y.alias = x.alias /\ y.hashes = x.hashes
  BY <1>1 DEF Fields, Fetches
<1> HIDE DEF y
<1>3. Alike(x, y)
  BY <1>2 DEF Alike, sessionid
<1>4. /\ Basic(y) /\ Right(y) /\ KeptIn(y, S) /\ Timed(y, X)
      /\ sessionid(y) = sessionid(x)
  BY <1>3, AlikeKeeps DEF Fine, Alike
<1>5. Plain(y)
  BY <1>2 DEF Fine, Plain
<1>6. Turn(y, S, X)
  BY <1>2, <1>4, <1>5 DEF Turn, Changing
<1> QED
  BY <1>2, <1>6 DEF SameRequest, y

\* _load_session uses what the request has, or turns to the store.
LEMMA LoadSessionTurn ==
  ASSUME TypeOK, NEW x, NEW S, NEW X, Fine(x, S), Timed(x, X), Settled(x),
         x.then \in Loading \ {"expires"}, x.then \in {"flash", "putFlash"} => x.flash = None
  PROVE  LET y == load_session(x)
         IN  DOMAIN y = Fields /\ SameRequest(x, y) /\ y.pc # "idle" /\ Turn(y, S, X)
<1> DEFINE z == [x EXCEPT !.tried = TRUE]
<1>1. DOMAIN x = Fields /\ x.expires \in Nat
  BY DEF Fine, Typed
<1>2. /\ DOMAIN z = Fields /\ z.then = x.then /\ z.pc = x.pc
      /\ z.client = x.client /\ z.n = x.n /\ z.address = x.address
      /\ z.sent = x.sent /\ z.sid = x.sid /\ z.gone = x.gone
      /\ z.out = x.out /\ z.expect = x.expect /\ z.data = x.data /\ z.sig = x.sig
      /\ z.expires = x.expires /\ z.extended = x.extended
      /\ z.flash = x.flash /\ z.alias = x.alias /\ z.hashes = x.hashes
  BY <1>1 DEF Fields
<1>3. Alike(x, z)
  <2> HIDE DEF z
  <2> QED
    BY <1>2 DEF Alike, sessionid, get_session_id
<1>4. Fine(z, S) /\ Timed(z, X) /\ sessionid(z) = sessionid(x) /\ SameRequest(x, z)
  <2> HIDE DEF z
  <2>1. Typed(z) /\ Basic(z) /\ Right(z) /\ KeptIn(z, S) /\ Timed(z, X)
    BY <1>2, <1>3, AlikeKeeps DEF Fine
  <2>2. Plain(z)
    BY <1>2 DEF Fine, Plain
  <2> QED
    BY <1>2, <1>3, <2>1, <2>2 DEF Fine, Alike, SameRequest
<1>5. CASE x.data # None \/ x.tried \/ sessionid(x) = NoSid
  <2>1. load_session(x) = Resume(z)
    BY <1>5 DEF load_session
  <2> HIDE DEF z
  <2>2. x.data = None => NoneFound(x)
    BY <1>5 DEF Settled, NoneFound, Fine, Right, IdRight
  <2>3. Looked(z)
    BY <1>2, <1>4, <2>2 DEF Looked, NoneFound
  <2>4. Resumed(z, Resume(z), S, X)
    BY <1>2, <1>4, <2>3, ResumeTurn
  <2> QED
    BY <1>4, <2>1, <2>4 DEF Resumed, SameRequest, Typed
<1>6. CASE ~(x.data # None \/ x.tried \/ sessionid(x) = NoSid)
  <2>1. PICK pc : pc = IF x.expires > 0 THEN "loadData" ELSE "loadExpires"
    OBVIOUS
  <2>2. load_session(x) = Fetches(z, pc)
    BY <1>1, <1>6, <2>1 DEF load_session, Fields, sessionid, get_session_id, Fetches
  <2> DEFINE y == Fetches(z, pc)
  <2> HIDE DEF z
  <2>3. \/ pc = "loadExpires" /\ z.expires = 0 /\ (z.then = "expires" => ~z.tried)
        \/ pc = "loadData" /\ z.expires > 0
    BY <1>1, <1>2, <2>1
  <2>4. DOMAIN y = Fields /\ SameRequest(z, y) /\ y.pc = pc /\ Turn(y, S, X)
    BY <1>2, <1>4, <1>6, <2>3, FetchTurn
  <2> HIDE DEF y
  <2>5. y.pc # "idle"
    BY <2>1, <2>4
  <2> QED
    BY <1>4, <2>2, <2>4, <2>5 DEF SameRequest, y
<1> QED
  BY <1>5, <1>6

LEMMA CallSessionTurn ==
  ASSUME InTurnUse, IInv, IInv', TurnInv, CallSession
  PROVE  TurnInv'
<1>1. PICK r \in Slots, m \in {"session", "put", "unbind", "valid", "change"} :
        Call(r, m, load_session([q[r] EXCEPT !.then = m]))
  BY DEF CallSession
<1> DEFINE x == [q[r] EXCEPT !.then = m]
           y == load_session(x)
<1>2. q[r].pc = "run" /\ m \in Calls /\ m \in Loading \ {"expires"} /\ TypeOK
  BY <1>1 DEF Call, IInv, Loading
<1>3. /\ Fine(x, session) /\ Timed(x, expires) /\ Settled(x)
      /\ Alike(q[r], x) /\ x.then = m
  BY <1>2, RunTurn
<1> HIDE DEF x
<1>4. DOMAIN y = Fields /\ SameRequest(x, y) /\ y.pc # "idle" /\ Turn(y, session, expires)
  BY <1>2, <1>3, LoadSessionTurn
<1>5. Call(r, m, y)
  BY <1>1 DEF x
<1> HIDE DEF y
<1> QED
  BY <1>3, <1>4, <1>5, CallTurn DEF SameRequest, Alike

\* A request without a session that looks at the flash gets both.
LEMMA CreateFlashFine ==
  ASSUME TypeOK, NEW x, NEW S, Fine(x, S), sessionid(x) = NoSid, x.flash = None,
         ~VerifyAddress, S[nextSid] = None
  PROVE  LET y == [create_session_id(x, 0) EXCEPT !.flash = {}]
         IN  /\ Fine(y, S) /\ SameRequest(x, y) /\ y.flash # None /\ NoneFound(y)
             /\ y.expires > 0 /\ y.pc = x.pc
<1> DEFINE y == [create_session_id(x, 0) EXCEPT !.flash = {}]
<1>1. DOMAIN x = Fields /\ Typed(x) /\ Empty(x.expect)
  BY DEF Fine, Typed, Right, IdRight
<1>2. /\ nextSid \in Nat /\ nextSid # NoSid /\ nextSid # Unset
      /\ initial_expires \in Nat /\ initial_expires > 0
  BY Bounds, SessionAssumption DEF Times, NoSid, Unset
<1>3. /\ DOMAIN y = Fields /\ y.then = x.then /\ y.pc = x.pc
      /\ y.client = x.client /\ y.n = x.n /\ y.address = x.address
      /\ y.sent = x.sent /\ y.sid = nextSid /\ y.out = nextSid
      /\ y.expect = x.expect /\ y.data = x.data /\ y.sig = x.sig
      /\ y.expires = initial_expires
      /\ y.flash = {} /\ y.alias = x.alias /\ y.hashes = x.hashes
  BY <1>1, <1>2 DEF Fields, create_session_id, generate_session_id
<1> HIDE DEF y
<1>4. {} \in SUBSET Items /\ {} # None
  BY NoneAssumption
<1>5. sessionid(y) = nextSid
  BY <1>2, <1>3 DEF sessionid
<1>6. x.data = None /\ x.sig = None /\ ~x.alias /\ x.hashes = {}
  <2>1. x.expires \in Nat /\ ~(x.expires > 0)
    BY <1>1 DEF Typed, Fine, Right, IdRight
  <2> QED
    BY <2>1 DEF Fine, Right, IdRight, SigRight, AliasRight
<1>7. Typed(y)
  BY <1>1, <1>2, <1>3, <1>4 DEF Typed
<1>8. Basic(y) /\ Plain(y)
  BY <1>2, <1>3, <1>5 DEF Fine, Basic, Plain, Answers
<1>9. Right(y)
  <2>1. DataRight(y) /\ SigRight(y) /\ IdRight(y)
    BY <1>2, <1>3, <1>5, <1>6 DEF DataRight, SigRight, IdRight
  <2>2. FlashRight(y) /\ AliasRight(y)
    BY <1>1, <1>3, <1>4, <1>6 DEF FlashRight, AliasRight, Empty
  <2> QED
    BY <2>1, <2>2 DEF Right
<1>10. KeptIn(y, S)
  BY <1>1, <1>3, <1>5, <1>6 DEF KeptIn, Unread, Holds
<1>11. NoneFound(y)
  BY <1>1, <1>2, <1>3 DEF NoneFound
<1> QED
  BY <1>2, <1>3, <1>4, <1>7, <1>8, <1>9, <1>10, <1>11 DEF Fine, SameRequest, y

\* What a call of flash that need not look further leaves is what it should be.
LEMMA FlashDone ==
  ASSUME NEW x, NEW S, NEW X, Fine(x, S), Timed(x, X), Settled(x), x.pc = "run", x.flash # None,
         NEW m
  PROVE  LET y == IF m = "putFlash" THEN put_flash(x) ELSE x
         IN  DOMAIN y = Fields /\ SameRequest(x, y) /\ y.pc = "run" /\ Turn(y, S, X)
<1>1. CASE m = "putFlash"
  <2> DEFINE y == put_flash(x)
  <2>1. /\ Fine(y, S) /\ SameRequest(x, y) /\ y.data = x.data
        /\ y.expires = x.expires /\ y.expect = x.expect /\ sessionid(y) = sessionid(x)
        /\ y.tried = x.tried /\ y.pc = x.pc
    BY PutFlashFine
  <2> HIDE DEF y
  <2>2. Timed(y, X) /\ Settled(y)
    BY <2>1 DEF Timed, Settled, NoneFound
  <2>3. Turn(y, S, X)
    BY <2>1, <2>2, AtRun
  <2> QED
    BY <1>1, <2>1, <2>3 DEF Fine, Typed, y
<1>2. CASE m # "putFlash"
  BY <1>2, AtRun DEF Fine, Typed, SameRequest
<1> QED
  BY <1>1, <1>2

LEMMA CallFlashTurn ==
  ASSUME InTurnUse, IInv, IInv', TurnInv, CallFlash
  PROVE  TurnInv'
<1>1. PICK r \in Slots, m \in {"flash", "putFlash"} :
        LET x == [q[r] EXCEPT !.then = m]
            Done(y) == IF m = "putFlash" THEN put_flash(y) ELSE y
        IN  Call(r, m,
                 IF x.flash # None THEN Done(x)
                 ELSE IF sessionid(x) = NoSid
                 THEN Done([create_session_id(x, 0) EXCEPT !.flash = {}])
                 ELSE load_session(x))
  BY DEF CallFlash
<1> DEFINE x == [q[r] EXCEPT !.then = m]
           f == [create_session_id(x, 0) EXCEPT !.flash = {}]
<1>2. q[r].pc = "run" /\ m \in Calls /\ m \in Loading \ {"expires"} /\ TypeOK
  BY <1>1 DEF Call, IInv, Loading
<1>3. /\ Fine(x, session) /\ Timed(x, expires) /\ Settled(x)
      /\ Alike(q[r], x) /\ x.then = m /\ x.pc = "run" /\ ~VerifyAddress
  BY <1>2, RunTurn
<1>4. CASE x.flash # None
  <2> DEFINE y == IF m = "putFlash" THEN put_flash(x) ELSE x
  <2>1. Call(r, m, y)
    BY <1>1, <1>4
  <2> HIDE DEF x
  <2>2. DOMAIN y = Fields /\ SameRequest(x, y) /\ y.pc = "run" /\ Turn(y, session, expires)
    BY <1>3, <1>4, FlashDone
  <2> HIDE DEF y
  <2> QED
    BY <1>3, <2>1, <2>2, CallTurn DEF SameRequest, Alike
<1>5. CASE x.flash = None /\ sessionid(x) = NoSid
  <2> DEFINE y == IF m = "putFlash" THEN put_flash(f) ELSE f
  <2>1. Call(r, m, y)
    BY <1>1, <1>5
  <2> HIDE DEF x
  <2>2. session[nextSid] = None
    <3>1. Becomes(r, [y EXCEPT !.calls = @ - 1, !.then = m])
      BY <2>1 DEF Call
    <3>2. DOMAIN x = Fields
      BY <1>3 DEF Fine, Typed
    <3>3. y.sid = nextSid /\ DOMAIN y = Fields
      BY <3>2, Bounds, <1>2 DEF put_flash, create_session_id, generate_session_id, Fields
    <3> HIDE DEF y
    <3>4. [y EXCEPT !.calls = @ - 1, !.then = m].sid = nextSid
      BY <3>3 DEF Fields
    <3>5. nextSid + 1 <= MaxSids + 1
      BY <1>2, <3>1, <3>4, Bounds DEF Becomes
    <3>6. nextSid \in Sids
      BY <1>2, <3>5, Bounds DEF Sids
    <3> QED
      BY <1>2, <3>6, Bounds DEF TurnInv
  <2>3. /\ Fine(f, session) /\ SameRequest(x, f) /\ f.flash # None /\ NoneFound(f)
        /\ f.expires > 0 /\ f.pc = x.pc
    BY <1>2, <1>3, <1>5, <2>2, CreateFlashFine
  <2> HIDE DEF f
  <2>4. Timed(f, expires) /\ Settled(f)
    BY <2>3 DEF Timed, Settled
  <2>5. DOMAIN y = Fields /\ SameRequest(f, y) /\ y.pc = "run" /\ Turn(y, session, expires)
    BY <1>3, <2>3, <2>4, FlashDone
  <2> HIDE DEF y
  <2> QED
    BY <1>3, <2>1, <2>3, <2>5, CallTurn DEF SameRequest, Alike
<1>6. CASE x.flash = None /\ sessionid(x) # NoSid
  <2> DEFINE y == load_session(x)
  <2>1. Call(r, m, y)
    BY <1>1, <1>6
  <2> HIDE DEF x
  <2>2. DOMAIN y = Fields /\ SameRequest(x, y) /\ y.pc # "idle" /\ Turn(y, session, expires)
    BY <1>2, <1>3, <1>6, LoadSessionTurn
  <2> HIDE DEF y
  <2> QED
    BY <1>3, <2>1, <2>2, CallTurn DEF SameRequest, Alike
<1> QED
  BY <1>4, <1>5, <1>6

LEMMA CallKeepFlashTurn ==
  ASSUME InTurnUse, IInv, IInv', TurnInv, CallKeepFlash
  PROVE  TurnInv'
<1>1. PICK r \in Slots : Call(r, "keepFlash", [q[r] EXCEPT !.kept = TRUE])
  BY DEF CallKeepFlash
<1> DEFINE y == [q[r] EXCEPT !.kept = TRUE]
<1>2. q[r].pc = "run" /\ Active(r)
  BY <1>1 DEF Call, Active
<1>3. Typed(q[r]) /\ DOMAIN q[r] = Fields /\ Turn(q[r], session, expires)
  BY <1>2, Served DEF Typed, TurnInv
<1>4. /\ DOMAIN y = Fields /\ y.then = q[r].then /\ y.pc = q[r].pc
      /\ y.client = q[r].client /\ y.n = q[r].n /\ y.address = q[r].address
      /\ y.sent = q[r].sent /\ y.sid = q[r].sid /\ y.gone = q[r].gone
      /\ y.out = q[r].out /\ y.expect = q[r].expect /\ y.data = q[r].data /\ y.sig = q[r].sig
      /\ y.expires = q[r].expires /\ y.extended = q[r].extended /\ y.tried = q[r].tried
      /\ y.flash = q[r].flash /\ y.alias = q[r].alias /\ y.hashes = q[r].hashes
  BY <1>3 DEF Fields
<1>5. Call(r, "keepFlash", y)
  BY <1>1
<1> HIDE DEF y
<1>6. Alike(q[r], y)
  BY <1>4 DEF Alike, sessionid, get_session_id
<1>7. Typed(y) /\ Basic(y) /\ Right(y) /\ KeptIn(y, session) /\ Timed(y, expires)
  BY <1>2, <1>3, <1>4, <1>6, AlikeKeeps DEF Turn
<1>8. Settled(y) /\ Plain(y)
  BY <1>2, <1>3, <1>4, <1>6 DEF Turn, Settled, NoneFound, Alike, Plain
<1>9. Turn(y, session, expires)
  BY <1>2, <1>4, <1>7, <1>8, AtRun DEF Fine
<1> QED
  BY <1>2, <1>4, <1>5, <1>9, CallTurn

LEMMA CallExpiresTurn ==
  ASSUME InTurnUse, IInv, IInv', TurnInv, CallExpires
  PROVE  TurnInv'
<1>1. PICK r \in Slots :
        LET x == [q[r] EXCEPT !.then = "expires"]
        IN  Call(r, "expires",
                 IF x.extended > 0 THEN x
                 ELSE IF x.expires > 0 THEN Resume(x)
                 ELSE IF sessionid(x) = NoSid THEN x
                 ELSE [x EXCEPT !.sid = sessionid(x), !.pc = "loadExpires"])
  BY DEF CallExpires
<1> DEFINE x == [q[r] EXCEPT !.then = "expires"]
<1>2. q[r].pc = "run" /\ "expires" \in Calls /\ "expires" \in Loading /\ TypeOK
  BY <1>1 DEF Call, IInv, Loading
<1>3. /\ Fine(x, session) /\ Timed(x, expires) /\ Settled(x)
      /\ Alike(q[r], x) /\ x.then = "expires" /\ x.pc = "run"
  BY <1>2, RunTurn
<1>4. CASE x.extended > 0 \/ (~(x.expires > 0) /\ sessionid(x) = NoSid)
  <2>1. Call(r, "expires", x)
    BY <1>1, <1>4
  <2> HIDE DEF x
  <2>2. Turn(x, session, expires) /\ DOMAIN x = Fields
    BY <1>3, AtRun DEF Fine, Typed
  <2> QED
    BY <1>3, <2>1, <2>2, CallTurn DEF Alike
<1>5. CASE ~(x.extended > 0) /\ x.expires > 0
  <2> DEFINE y == Resume(x)
  <2>1. Call(r, "expires", y)
    BY <1>1, <1>5
  <2> HIDE DEF x
  <2>2. Looked(x)
    BY <1>3 DEF Looked, Settled
  <2>3. Resumed(x, y, session, expires)
    BY <1>2, <1>3, <2>2, ResumeTurn
  <2> HIDE DEF y
  <2> QED
    BY <1>3, <2>1, <2>3, CallTurn DEF Resumed, SameRequest, Alike, Typed
<1>6. CASE ~(x.extended > 0) /\ ~(x.expires > 0) /\ sessionid(x) # NoSid
  <2> DEFINE y == Fetches(x, "loadExpires")
  <2>1. Call(r, "expires", y)
    BY <1>1, <1>6 DEF Fetches
  <2> HIDE DEF x
  <2>2. x.expires = 0
    BY <1>3, <1>6 DEF Fine, Typed
  <2>3. x.data = None /\ ~x.tried
    BY <1>3, <1>6 DEF Fine, Right, IdRight, Settled, NoneFound
  <2>4. DOMAIN y = Fields /\ SameRequest(x, y) /\ y.pc = "loadExpires" /\ Turn(y, session, expires)
    BY <1>3, <1>6, <2>2, <2>3, FetchTurn
  <2> HIDE DEF y
  <2> QED
    BY <1>3, <2>1, <2>4, CallTurn DEF SameRequest, Alike
<1> HIDE DEF x
<1> QED
  BY <1>4, <1>5, <1>6

\* A request that has forgotten its session, of which nothing is expected
LEMMA ClearFine ==
  ASSUME NEW x, Typed(x), Plain(x), NEW S, NEW X, NEW y, Answers(y), Empty(y.expect),
         /\ DOMAIN y = Fields /\ y.client = x.client /\ y.n = x.n /\ y.address = x.address
         /\ y.then = x.then /\ sessionid(y) = NoSid /\ y.data = None /\ y.sig = None
         /\ y.expires = 0 /\ y.flash = None /\ ~y.alias /\ y.hashes = {}
  PROVE  Fine(y, S) /\ Timed(y, X) /\ NoneFound(y)
<1>1. Before(y.expect, y.n)
  BY DEF Before, Empty
<1>2. Typed(y)
  BY DEF Typed
<1>3. Right(y)
  BY DEF Right, DataRight, FlashRight, SigRight, AliasRight, IdRight
<1>4. KeptIn(y, S) /\ Plain(y)
  BY DEF KeptIn, Unread, Plain
<1> QED
  BY <1>1, <1>2, <1>3, <1>4 DEF Fine, Basic, Timed, NoneFound

LEMMA CallDeleteTurn ==
  ASSUME InTurnUse, IInv, IInv', TurnInv, CallDelete
  PROVE  TurnInv'
<1>1. PICK r \in Slots :
        Call(r, "delete",
             IF sessionid(q[r]) = NoSid THEN clear_session_instance_data(q[r])
             ELSE [q[r] EXCEPT !.sid = sessionid(q[r]), !.pc = "deleteSession"])
  BY DEF CallDelete
<1>2. q[r].pc = "run" /\ Active(r)
  BY <1>1 DEF Call, Active
<1>3. Typed(q[r]) /\ DOMAIN q[r] = Fields /\ Turn(q[r], session, expires)
  BY <1>2, Served DEF Typed, TurnInv
<1>4. CASE sessionid(q[r]) = NoSid
  <2> DEFINE y == clear_session_instance_data(q[r])
  <2>1. Call(r, "delete", y)
    BY <1>1, <1>4
  <2>2. /\ DOMAIN y = Fields /\ y.then = q[r].then /\ y.pc = q[r].pc
        /\ y.client = q[r].client /\ y.n = q[r].n /\ y.address = q[r].address
        /\ y.sent = q[r].sent /\ y.sid = NoSid /\ y.gone = q[r].gone
        /\ y.out = q[r].out /\ y.expect = q[r].expect /\ y.data = None /\ y.sig = None
        /\ y.expires = 0 /\ ~y.tried
        /\ y.flash = None /\ ~y.alias /\ y.hashes = {}
    BY <1>3 DEF Fields, clear_session_instance_data
  <2> HIDE DEF y
  <2>3. sessionid(y) = NoSid
    BY <1>4, <2>2 DEF sessionid, get_session_id
  <2>4. Empty(y.expect) /\ Answers(y) /\ Plain(q[r])
    BY <1>2, <1>3, <1>4, <2>2, <2>3 DEF Turn, Right, IdRight, Basic, Answers
  <2>5. Fine(y, session) /\ Timed(y, expires) /\ NoneFound(y)
    BY <1>3, <2>2, <2>3, <2>4, ClearFine
  <2>6. Turn(y, session, expires)
    BY <1>2, <2>2, <2>5, AtRun DEF Settled
  <2> QED
    BY <1>2, <2>1, <2>2, <2>6, CallTurn
<1>5. CASE sessionid(q[r]) # NoSid
  <2> DEFINE y == [[q[r] EXCEPT !.sid = sessionid(q[r]), !.pc = "deleteSession"]
                     EXCEPT !.calls = @ - 1, !.then = "delete"]
  <2>1. /\ Becomes(r, y)
        /\ UNCHANGED <<session, expires, cookie, left, nextReq>>
    BY <1>1, <1>5 DEF Call, Stored, Ghosts
  <2>2. /\ DOMAIN y = Fields /\ y.then = "delete" /\ y.pc = "deleteSession"
        /\ y.client = q[r].client /\ y.n = q[r].n /\ y.sent = q[r].sent
        /\ y.sid = sessionid(q[r]) /\ y.gone = q[r].gone
        /\ y.out = q[r].out /\ y.expect = q[r].expect /\ y.flash = q[r].flash
    BY <1>3 DEF Fields
  <2> HIDE DEF y
  <2>3. sessionid(y) = sessionid(q[r])
    BY <1>5, <2>2 DEF sessionid
  <2>4. Basic(y) /\ Plain(y)
    BY <1>3, <2>2, <2>3 DEF Turn, Basic, Answers, Plain
  <2>5. Turn(y, session, expires)
    BY <2>2, <2>4 DEF Turn, Changing
  <2>6. Moves(r, y) /\ Writes(r) /\ AllAddressed(session')
    BY <2>1, <2>2, <2>5 DEF Moves, Writes, TurnInv, AllAddressed
  <2> QED
    BY <1>2, <2>1, <2>6, TurnContinues
<1> QED
  BY <1>4, <1>5

-----------------------------------------------------------------------------
(* The steps of a call, in turn *)

LEMMA StepTurn ==
  ASSUME IInv, IInv', TurnInv, NEW r \in Slots, NEW pc, pc # "idle", NEW y, Step(r, pc, y),
         Moves(r, y), Writes(r), AllAddressed(session'), UNCHANGED left
  PROVE  TurnInv'
<1>1. Active(r) /\ Becomes(r, y) /\ UNCHANGED <<cookie, nextReq>>
  BY DEF Step, Active
<1> QED
  BY <1>1, TurnContinues

\* A step that writes nothing
LEMMA QuietStep ==
  ASSUME TurnInv, NEW r \in Slots, NEW y, UNCHANGED <<Stored, Ghosts>>,
         y.client = q[r].client, y.n = q[r].n, y.sent = q[r].sent, y.pc # "idle",
         Turn(y, session, expires)
  PROVE  Moves(r, y) /\ Writes(r) /\ AllAddressed(session') /\ UNCHANGED left
<1>1. UNCHANGED <<session, expires, left>>
  BY DEF Stored, Ghosts
<1> QED
  BY <1>1 DEF Moves, Writes, TurnInv, AllAddressed

\* What a request in a step of a call has
LEMMA AtStep ==
  ASSUME IInv, TurnInv, NEW r \in Slots, NEW pc, pc # "idle", q[r].pc = pc
  PROVE  /\ Active(r) /\ Typed(q[r]) /\ DOMAIN q[r] = Fields /\ TypeOK
         /\ Turn(q[r], session, expires)
         /\ pc \in Fetching => /\ q[r].sid # NoSid /\ q[r].sid \in Sids /\ sessionid(q[r]) = q[r].sid
                               /\ q[r].then \in Loading /\ q[r].sid \in Ids(q[r])
         /\ pc \in {"loadExpires", "loadData"} => Fine(q[r], session)
<1>1. Active(r)
  BY DEF Active
<1>2. Turn(q[r], session, expires)
  BY <1>1 DEF TurnInv
<1>3. /\ Typed(q[r]) /\ TypeOK /\ q[r].sid \in Nat
      /\ pc \in Fetching => q[r].sid > 0 /\ q[r].then \in Loading
  BY <1>1, Served
<1>4. q[r].sid \in Sids
  BY <1>3 DEF TypeOK, Request
<1>5. pc \in Fetching => sessionid(q[r]) = q[r].sid /\ q[r].sid # NoSid /\ q[r].sid \in Ids(q[r])
  BY <1>3 DEF sessionid, NoSid, Ids
<1>6. pc \in {"loadExpires", "loadData"} => Fine(q[r], session)
  BY <1>2, <1>3 DEF Turn, Fine
<1> QED
  BY <1>1, <1>2, <1>3, <1>4, <1>5, <1>6 DEF Typed

LEMMA LoadExpiresTurn ==
  ASSUME InTurnUse, IInv, IInv', TurnInv, LoadExpires
  PROVE  TurnInv'
<1>1. PICK r \in Slots :
        LET e == expires[q[r].sid]
            x == [q[r] EXCEPT !.expect = IF @.until < clock THEN Nothing ELSE @]
        IN  /\ Step(r, "loadExpires",
                    IF ~StillValid(e) THEN [x EXCEPT !.pc = "deleteSession"]
                    ELSE IF x.then = "expires" THEN Resume([x EXCEPT !.expires = e])
                    ELSE [x EXCEPT !.expires = e, !.pc = "loadData"])
            /\ UNCHANGED <<Stored, Ghosts>>
  BY DEF LoadExpires
<1> DEFINE e == expires[q[r].sid]
           v == IF q[r].expect.until < clock THEN Nothing ELSE q[r].expect
           x == [q[r] EXCEPT !.expect = v]
<1>2. q[r].pc = "loadExpires"
  BY <1>1 DEF Step
<1>3. /\ Active(r) /\ Typed(q[r]) /\ DOMAIN q[r] = Fields /\ TypeOK
      /\ Turn(q[r], session, expires) /\ Fine(q[r], session)
      /\ q[r].sid # NoSid /\ q[r].sid \in Sids /\ sessionid(q[r]) = q[r].sid
      /\ q[r].then \in Loading
  BY <1>2, AtStep DEF Fetching
<1>4. /\ q[r].expires = 0 /\ e = q[r].expect.until /\ q[r].data = None
      /\ q[r].then = "expires" => ~q[r].tried
      /\ q[r].then \in {"flash", "putFlash"} => q[r].flash = None
  BY <1>2, <1>3 DEF Turn, Timed
<1>5. e \in Nat /\ clock \in Nat /\ clock > 0
  BY <1>3, Bounds, SessionAssumption DEF TypeOK, Times
<1>6. UNCHANGED <<Stored, Ghosts>>
  BY <1>1
<1>7. CASE ~StillValid(e)
  <2> DEFINE y == [x EXCEPT !.pc = "deleteSession"]
  <2>1. Step(r, "loadExpires", y)
    BY <1>1, <1>7
  <2>2. v = Nothing
    BY <1>4, <1>5, <1>7 DEF StillValid
  <2> HIDE DEF v
  <2>3. /\ y.pc = "deleteSession" /\ y.client = q[r].client /\ y.n = q[r].n /\ y.sent = q[r].sent
        /\ y.sid = q[r].sid /\ y.gone = q[r].gone /\ y.out = q[r].out /\ y.expect = Nothing
        /\ y.flash = q[r].flash /\ y.then = q[r].then
    BY <1>3, <2>2 DEF Fields
  <2> HIDE DEF y
  <2>4. sessionid(y) = sessionid(q[r])
    BY <2>3 DEF sessionid, get_session_id
  <2>5. Before(Nothing, y.n) /\ Empty(Nothing)
    BY DEF Nothing, Before, Empty
  <2>6. Basic(y) /\ Plain(y) /\ Empty(y.expect)
    BY <1>3, <2>3, <2>4, <2>5 DEF Fine, Basic, Answers, Plain
  <2>7. Turn(y, session, expires)
    BY <2>3, <2>6 DEF Turn, Changing
  <2> QED
    BY <1>6, <2>1, <2>3, <2>7, QuietStep, StepTurn
<1>8. CASE StillValid(e)
  <2>1. v = q[r].expect /\ e > 0
    BY <1>4, <1>5, <1>8 DEF StillValid
  <2> DEFINE z == [x EXCEPT !.expires = e]
  <2> HIDE DEF v, e
  <2>2. /\ DOMAIN z = Fields /\ z.then = q[r].then /\ z.pc = q[r].pc
        /\ z.client = q[r].client /\ z.n = q[r].n /\ z.address = q[r].address
        /\ z.sent = q[r].sent /\ z.sid = q[r].sid /\ z.gone = q[r].gone
        /\ z.out = q[r].out /\ z.expect = q[r].expect /\ z.data = q[r].data /\ z.sig = q[r].sig
        /\ z.expires = e /\ z.tried = q[r].tried
        /\ z.flash = q[r].flash /\ z.alias = q[r].alias /\ z.hashes = q[r].hashes
    BY <1>3, <2>1 DEF Fields
  <2> HIDE DEF z
  <2>3. sessionid(z) = q[r].sid /\ Own(z) = Own(q[r]) /\ Current(z) = Current(q[r])
    BY <1>3, <2>2 DEF sessionid, get_session_id, Own, Current
  <2>4. Typed(z) /\ Basic(z) /\ Plain(z)
    BY <1>3, <1>5, <2>2, <2>3 DEF Fine, Typed, Basic, Answers, Plain, e
  <2>5. Right(z) /\ KeptIn(z, session)
    BY <1>3, <1>4, <2>1, <2>2, <2>3
       DEF Fine, Right, DataRight, FlashRight, SigRight, AliasRight, IdRight, KeptIn, Unread, ReadFrom
  <2>6. Fine(z, session) /\ Timed(z, expires)
    BY <2>1, <2>2, <2>4, <2>5 DEF Fine, Timed
  <2>7. CASE q[r].then = "expires"
    <3> DEFINE y == Resume(z)
    <3>1. Step(r, "loadExpires", y)
      BY <1>1, <1>3, <1>8, <2>7 DEF e, v, z, Fields
    <3>2. Looked(z)
      BY <1>4, <2>2, <2>7 DEF Looked
    <3>3. Resumed(z, y, session, expires)
      BY <1>3, <2>2, <2>6, <3>2, ResumeTurn
    <3> HIDE DEF y
    <3>4. /\ y.client = q[r].client /\ y.n = q[r].n /\ y.sent = q[r].sent /\ y.pc # "idle"
          /\ Turn(y, session, expires)
      BY <2>2, <3>3 DEF Resumed, SameRequest
    <3> QED
      BY <1>6, <3>1, <3>4, QuietStep, StepTurn
  <2>8. CASE q[r].then # "expires"
    <3> DEFINE y == [x EXCEPT !.expires = e, !.pc = "loadData"]
    <3>1. Step(r, "loadExpires", y)
      BY <1>1, <1>3, <1>8, <2>8 DEF e, v, Fields
    <3>2. y = Fetches(z, "loadData")
      BY <1>3, <2>2, <2>3 DEF z, Fetches, Fields
    <3>3. DOMAIN y = Fields /\ SameRequest(z, y) /\ y.pc = "loadData" /\ Turn(y, session, expires)
      BY <1>3, <1>4, <2>1, <2>2, <2>3, <2>6, <3>2, FetchTurn
    <3> HIDE DEF y
    <3>4. /\ y.client = q[r].client /\ y.n = q[r].n /\ y.sent = q[r].sent /\ y.pc # "idle"
      BY <2>2, <3>3 DEF SameRequest
    <3> QED
      BY <1>6, <3>1, <3>3, <3>4, QuietStep, StepTurn
  <2> QED
    BY <2>7, <2>8
<1> QED
  BY <1>7, <1>8

LEMMA LoadDataTurn ==
  ASSUME InTurnUse, IInv, IInv', TurnInv, LoadData
  PROVE  TurnInv'
<1>1. PICK r \in Slots :
        LET d == session[q[r].sid]
        IN  /\ Step(r, "loadData",
                    IF d = None THEN Resume(q[r])
                    ELSE IF address_mismatch(d, q[r])
                    THEN [q[r] EXCEPT !.data = d, !.pc = "deleteSession",
                            !.expect = IF d.address = NoAddress THEN @ ELSE Nothing]
                    ELSE Resume([q[r] EXCEPT !.data = d, !.sig = d]))
            /\ UNCHANGED <<Stored, Ghosts>>
  BY DEF LoadData
<1> DEFINE d == session[q[r].sid]
<1>2. q[r].pc = "loadData"
  BY <1>1 DEF Step
<1>3. /\ Active(r) /\ Typed(q[r]) /\ DOMAIN q[r] = Fields /\ TypeOK
      /\ Turn(q[r], session, expires) /\ Fine(q[r], session)
      /\ q[r].sid # NoSid /\ q[r].sid \in Sids /\ sessionid(q[r]) = q[r].sid
      /\ q[r].then \in Loading
  BY <1>2, AtStep DEF Fetching
<1>4. /\ q[r].expires > 0 /\ q[r].data = None /\ Timed(q[r], expires)
      /\ q[r].then \in {"flash", "putFlash"} => q[r].flash = None
      /\ Holds(d, q[r].expect) /\ d \in Data \cup {None}
  BY <1>2, <1>3 DEF Turn, KeptIn, Unread, TypeOK
<1>5. UNCHANGED <<Stored, Ghosts>>
  BY <1>1
<1>6. CASE d = None
  <2> DEFINE y == Resume(q[r])
  <2>1. Step(r, "loadData", y)
    BY <1>1, <1>6
  <2>2. Looked(q[r])
    BY <1>4, <1>6 DEF Holds, Looked, NoneFound
  <2>3. Resumed(q[r], y, session, expires)
    BY <1>3, <1>4, <2>2, ResumeTurn
  <2> HIDE DEF y
  <2>4. /\ y.client = q[r].client /\ y.n = q[r].n /\ y.sent = q[r].sent /\ y.pc # "idle"
        /\ Turn(y, session, expires)
    BY <2>3 DEF Resumed, SameRequest
  <2> QED
    BY <1>5, <2>1, <2>4, QuietStep, StepTurn
<1>7. CASE d # None /\ address_mismatch(d, q[r])
  <2> DEFINE y == [q[r] EXCEPT !.data = d, !.pc = "deleteSession",
                      !.expect = IF d.address = NoAddress THEN @ ELSE Nothing]
  <2>1. Step(r, "loadData", y)
    BY <1>1, <1>7
  <2>2. d.address # NoAddress
    BY <1>3, <1>7 DEF TurnInv, AllAddressed, address_mismatch
  <2>3. /\ y.pc = "deleteSession" /\ y.client = q[r].client /\ y.n = q[r].n /\ y.sent = q[r].sent
        /\ y.sid = q[r].sid /\ y.gone = q[r].gone /\ y.out = q[r].out /\ y.expect = Nothing
        /\ y.flash = q[r].flash /\ y.then = q[r].then
    BY <1>3, <2>2 DEF Fields
  <2> HIDE DEF y
  <2>4. sessionid(y) = sessionid(q[r])
    BY <2>3 DEF sessionid, get_session_id
  <2>5. Before(Nothing, y.n) /\ Empty(Nothing)
    BY DEF Nothing, Before, Empty
  <2>6. Basic(y) /\ Plain(y) /\ Empty(y.expect)
    BY <1>3, <2>3, <2>4, <2>5 DEF Fine, Basic, Answers, Plain
  <2>7. Turn(y, session, expires)
    BY <2>3, <2>6 DEF Turn, Changing
  <2> QED
    BY <1>5, <2>1, <2>3, <2>7, QuietStep, StepTurn
<1>8. CASE d # None /\ ~address_mismatch(d, q[r])
  <2> DEFINE z == [q[r] EXCEPT !.data = d, !.sig = d]
             y == Resume(z)
  <2>1. Step(r, "loadData", y)
    BY <1>1, <1>8
  <2> HIDE DEF d
  <2>2. /\ DOMAIN z = Fields /\ z.then = q[r].then
        /\ z.client = q[r].client /\ z.n = q[r].n /\ z.address = q[r].address
        /\ z.sent = q[r].sent /\ z.sid = q[r].sid /\ z.gone = q[r].gone
        /\ z.out = q[r].out /\ z.expect = q[r].expect /\ z.data = d /\ z.sig = d
        /\ z.expires = q[r].expires
        /\ z.flash = q[r].flash /\ z.alias = q[r].alias /\ z.hashes = q[r].hashes
    BY <1>3 DEF Fields
  <2> HIDE DEF z
  <2>3. sessionid(z) = q[r].sid /\ Own(z) = Own(q[r])
    BY <1>3, <2>2 DEF sessionid, get_session_id, Own
  <2>4. /\ d.items = z.expect.items /\ d.flash = z.expect.flash /\ d \in Data
        /\ Own(z) \notin d.items
    BY <1>3, <1>4, <1>8, <2>2, <2>3, OwnIsNew DEF Holds, Fine
  <2>5. q[r].flash # None => Empty(q[r].expect)
    BY <1>3, <1>4 DEF Fine, Right, FlashRight
  <2>6. ~z.alias
    BY <1>3, <2>2, <2>5 DEF Fine, Right, AliasRight, Empty
  <2>7. Typed(z) /\ Basic(z) /\ Plain(z)
    BY <1>3, <2>2, <2>3, <2>4 DEF Fine, Typed, Basic, Answers, Plain
  <2>8. Right(z)
    <3>1. DataRight(z) /\ SigRight(z)
      BY <1>8, <2>2, <2>4 DEF DataRight, SigRight
    <3>2. FlashRight(z) /\ AliasRight(z) /\ IdRight(z)
      BY <1>3, <1>4, <1>8, <2>2, <2>3 DEF Fine, Right, FlashRight, AliasRight, IdRight
    <3> QED
      BY <3>1, <3>2 DEF Right
  <2>9. KeptIn(z, session)
    <3>1. session[sessionid(z)] = d /\ Current(z) = d
      BY <2>2, <2>3, <2>6 DEF d, Current
    <3> QED
      BY <1>8, <2>2, <2>4, <3>1 DEF KeptIn, Unread, ReadFrom
  <2>10. Looked(z) /\ Timed(z, expires)
    BY <1>4, <1>8, <2>2 DEF Looked, Timed
  <2>11. Resumed(z, y, session, expires)
    BY <1>3, <2>2, <2>7, <2>8, <2>9, <2>10, ResumeTurn DEF Fine
  <2> HIDE DEF y
  <2>12. /\ y.client = q[r].client /\ y.n = q[r].n /\ y.sent = q[r].sent /\ y.pc # "idle"
         /\ Turn(y, session, expires)
    BY <2>2, <2>11 DEF Resumed, SameRequest
  <2> QED
    BY <1>5, <2>1, <2>12, QuietStep, StepTurn
<1> QED
  BY <1>6, <1>7, <1>8

\* What a store of one session writes
LEMMA StoresOne ==
  ASSUME TypeOK, TurnInv, NEW r \in Slots, NEW s \in Ids(q[r]), NEW new,
         session' = [session EXCEPT ![s] = new], UNCHANGED expires,
         VerifyAddress /\ new # None => new.address # NoAddress
  PROVE  Writes(r) /\ AllAddressed(session') /\ (s \in Sids => session'[s] = new)
<1>1. session \in [Sids -> Data \cup {None}]
  BY DEF TypeOK
<1>2. \A t \in Sids : session'[t] = IF t = s THEN new ELSE session[t]
  BY <1>1
<1> QED
  BY <1>2 DEF Writes, AllAddressed, TurnInv

LEMMA StoresTime ==
  ASSUME TypeOK, TurnInv, NEW r \in Slots, NEW s \in Ids(q[r]), NEW e,
         expires' = [expires EXCEPT ![s] = e], UNCHANGED session
  PROVE  Writes(r) /\ AllAddressed(session') /\ (s \in Sids => expires'[s] = e)
<1>1. expires \in [Sids -> Times]
  BY DEF TypeOK
<1>2. \A t \in Sids : expires'[t] = IF t = s THEN e ELSE expires[t]
  BY <1>1
<1> QED
  BY <1>2 DEF Writes, AllAddressed, TurnInv

LEMMA DeleteSessionTurn ==
  ASSUME InTurnUse, IInv, IInv', TurnInv, DeleteSession
  PROVE  TurnInv'
<1>1. PICK r \in Slots :
        /\ Step(r, "deleteSession", [q[r] EXCEPT !.pc = "deleteExpires"])
        /\ session' = [session EXCEPT ![q[r].sid] = None]
        /\ UNCHANGED <<expires, Ghosts>>
  BY DEF DeleteSession
<1> DEFINE y == [q[r] EXCEPT !.pc = "deleteExpires"]
<1>2. q[r].pc = "deleteSession" /\ Step(r, "deleteSession", y)
  BY <1>1 DEF Step
<1>3. /\ Active(r) /\ DOMAIN q[r] = Fields /\ TypeOK
      /\ Turn(q[r], session, expires) /\ q[r].sid \in Ids(q[r])
  BY <1>2, AtStep DEF Fetching
<1>4. /\ y.pc = "deleteExpires" /\ y.client = q[r].client /\ y.n = q[r].n /\ y.sent = q[r].sent
      /\ y.sid = q[r].sid /\ y.gone = q[r].gone /\ y.out = q[r].out /\ y.expect = q[r].expect
      /\ y.flash = q[r].flash /\ y.then = q[r].then
  BY <1>3 DEF Fields
<1> HIDE DEF y
<1>5. sessionid(y) = sessionid(q[r])
  BY <1>4 DEF sessionid, get_session_id
<1>6. Turn(y, session', expires')
  BY <1>2, <1>3, <1>4, <1>5 DEF Turn, Changing, Basic, Answers, Plain
<1>7. Writes(r) /\ AllAddressed(session') /\ UNCHANGED left
  BY <1>1, <1>3, StoresOne DEF Ghosts
<1> QED
  BY <1>2, <1>4, <1>6, <1>7, StepTurn DEF Moves

LEMMA DeleteExpiresTurn ==
  ASSUME InTurnUse, IInv, IInv', TurnInv, DeleteExpires
  PROVE  TurnInv'
<1>1. PICK r \in Slots :
        /\ Step(r, "deleteExpires",
                Resume([clear_session_instance_data(q[r]) EXCEPT
                          !.gone = TRUE, !.out = NoSid,
                          !.expect = IF q[r].then = "delete" THEN Nothing ELSE @]))
        /\ expires' = [expires EXCEPT ![q[r].sid] = 0]
        /\ Retire(r, q[r].sid)
        /\ UNCHANGED session
  BY DEF DeleteExpires
<1> DEFINE z == [clear_session_instance_data(q[r]) EXCEPT
                   !.gone = TRUE, !.out = NoSid,
                   !.expect = IF q[r].then = "delete" THEN Nothing ELSE @]
           y == Resume(z)
<1>2. q[r].pc = "deleteExpires" /\ Step(r, "deleteExpires", y)
  BY <1>1 DEF Step
<1>3. /\ Active(r) /\ Typed(q[r]) /\ DOMAIN q[r] = Fields /\ TypeOK
      /\ Turn(q[r], session, expires) /\ q[r].sid \in Ids(q[r]) /\ q[r].then \in Loading
  BY <1>2, AtStep DEF Fetching
<1>4. /\ DOMAIN z = Fields /\ z.then = q[r].then
      /\ z.client = q[r].client /\ z.n = q[r].n /\ z.address = q[r].address
      /\ z.sent = q[r].sent /\ z.sid = NoSid /\ z.gone = TRUE /\ z.out = NoSid
      /\ z.expect = (IF q[r].then = "delete" THEN Nothing ELSE q[r].expect)
      /\ z.data = None /\ z.sig = None /\ z.expires = 0
      /\ z.flash = None /\ ~z.alias /\ z.hashes = {}
  BY <1>3 DEF Fields, clear_session_instance_data
<1> HIDE DEF z
<1>5. sessionid(z) = NoSid /\ Answers(z)
  BY <1>4 DEF sessionid, get_session_id, Answers, NoSid, Unset
<1>6. Empty(z.expect)
  BY <1>2, <1>3, <1>4 DEF Turn, Nothing, Empty
<1>7. PICK X : X = expires'
  OBVIOUS
<1>8. Fine(z, session) /\ Timed(z, X) /\ NoneFound(z)
  <2>1. Plain(q[r])
    BY <1>3 DEF Turn
  <2> QED
    BY <1>3, <1>4, <1>5, <1>6, <2>1, ClearFine
<1>9. Looked(z)
  BY <1>4, <1>8 DEF Looked
<1>10. Resumed(z, y, session, X)
  BY <1>3, <1>4, <1>8, <1>9, ResumeTurn
<1> HIDE DEF y
<1>11. Moves(r, y)
  BY <1>1, <1>4, <1>7, <1>10 DEF Resumed, SameRequest, Moves
<1>12. Writes(r) /\ AllAddressed(session') /\ UNCHANGED left
  BY <1>1, <1>3, StoresTime DEF Retire
<1> QED
  BY <1>2, <1>11, <1>12, StepTurn

LEMMA ChangeSessionTurn ==
  ASSUME InTurnUse, IInv, IInv', TurnInv, ChangeSession
  PROVE  TurnInv'
<1>1. PICK r \in Slots :
        /\ Step(r, "changeSession", [q[r] EXCEPT !.pc = "changeExpires"])
        /\ session' = [session EXCEPT ![q[r].old] = None]
        /\ UNCHANGED <<expires, Ghosts>>
  BY DEF ChangeSession
<1> DEFINE y == [q[r] EXCEPT !.pc = "changeExpires"]
<1>2. q[r].pc = "changeSession" /\ Step(r, "changeSession", y)
  BY <1>1 DEF Step
<1>3. Active(r) /\ DOMAIN q[r] = Fields /\ TypeOK /\ Turn(q[r], session, expires)
  BY <1>2, AtStep
<1>4. q[r].old \in Ids(q[r])
  BY <1>2, <1>3, Served DEF Ids, Changing, NoSid
<1>5. /\ y.pc = "changeExpires" /\ y.then = q[r].then /\ y.kept = q[r].kept
      /\ y.client = q[r].client /\ y.n = q[r].n /\ y.address = q[r].address
      /\ y.sent = q[r].sent /\ y.sid = q[r].sid /\ y.gone = q[r].gone
      /\ y.out = q[r].out /\ y.expect = q[r].expect /\ y.data = q[r].data /\ y.sig = q[r].sig
      /\ y.expires = q[r].expires /\ y.extended = q[r].extended
      /\ y.flash = q[r].flash /\ y.alias = q[r].alias /\ y.hashes = q[r].hashes
  BY <1>3 DEF Fields
<1> HIDE DEF y
<1>6. Alike(q[r], y)
  BY <1>5 DEF Alike, sessionid, get_session_id
<1>7. Basic(y) /\ Right(y) /\ Plain(y) /\ y.data # None
  BY <1>2, <1>3, <1>5, <1>6, AlikeKeeps DEF Turn, Plain, Changing
<1>8. Turn(y, session', expires')
  BY <1>5, <1>7 DEF Turn
<1>9. Writes(r) /\ AllAddressed(session') /\ UNCHANGED left
  BY <1>1, <1>3, <1>4, StoresOne DEF Ghosts
<1> QED
  BY <1>2, <1>5, <1>8, <1>9, StepTurn DEF Moves

LEMMA ChangeExpiresTurn ==
  ASSUME InTurnUse, IInv, IInv', TurnInv, ChangeExpires
  PROVE  TurnInv'
<1>1. PICK r \in Slots :
        /\ Step(r, "changeExpires", [q[r] EXCEPT !.pc = "changeStore"])
        /\ expires' = [expires EXCEPT ![q[r].old] = 0]
        /\ Retire(r, q[r].old)
        /\ UNCHANGED session
  BY DEF ChangeExpires
<1> DEFINE y == [q[r] EXCEPT !.pc = "changeStore"]
<1>2. q[r].pc = "changeExpires" /\ Step(r, "changeExpires", y)
  BY <1>1 DEF Step
<1>3. Active(r) /\ DOMAIN q[r] = Fields /\ TypeOK /\ Turn(q[r], session, expires)
  BY <1>2, AtStep
<1>4. q[r].old \in Ids(q[r])
  BY <1>2, <1>3, Served DEF Ids, Changing, NoSid
<1>5. /\ y.pc = "changeStore" /\ y.then = q[r].then /\ y.kept = q[r].kept
      /\ y.client = q[r].client /\ y.n = q[r].n /\ y.address = q[r].address
      /\ y.sent = q[r].sent /\ y.sid = q[r].sid /\ y.gone = q[r].gone
      /\ y.out = q[r].out /\ y.expect = q[r].expect /\ y.data = q[r].data /\ y.sig = q[r].sig
      /\ y.expires = q[r].expires /\ y.extended = q[r].extended
      /\ y.flash = q[r].flash /\ y.alias = q[r].alias /\ y.hashes = q[r].hashes
  BY <1>3 DEF Fields
<1> HIDE DEF y
<1>6. Alike(q[r], y)
  BY <1>5 DEF Alike, sessionid, get_session_id
<1>7. Basic(y) /\ Right(y) /\ Plain(y) /\ y.data # None
  BY <1>2, <1>3, <1>5, <1>6, AlikeKeeps DEF Turn, Plain, Changing
<1>8. Turn(y, session', expires')
  BY <1>5, <1>7 DEF Turn
<1>9. Writes(r) /\ AllAddressed(session') /\ UNCHANGED left
  BY <1>1, <1>3, <1>4, StoresTime DEF Retire
<1> QED
  BY <1>2, <1>5, <1>8, <1>9, StepTurn DEF Moves

\* The data a request stores
LEMMA CurrentIs ==
  ASSUME NEW x, Typed(x), Right(x), x.data # None
  PROVE  /\ Current(x) \in Data /\ Current(x) # None
         /\ Current(x).items = x.data.items /\ Current(x).address = x.data.address
         /\ Current(x).flash = IF x.alias THEN x.flash ELSE x.data.flash
         /\ x.alias => x.flash # None
<1>1. x.data \in Data /\ (x.alias => x.flash # None /\ x.flash \in SUBSET Items)
  BY DEF Typed, Right, AliasRight
<1>2. /\ Current(x) \in Data
      /\ Current(x).items = x.data.items /\ Current(x).address = x.data.address
      /\ Current(x).flash = IF x.alias THEN x.flash ELSE x.data.flash
  <2>1. CASE x.alias
    <3>1. Current(x) = [x.data EXCEPT !.flash = x.flash]
      BY <2>1 DEF Current
    <3> QED
      BY <1>1, <2>1, <3>1 DEF Data
  <2>2. CASE ~x.alias
    BY <1>1, <2>2 DEF Current
  <2> QED
    BY <2>1, <2>2
<1> QED
  BY <1>1, <1>2, NoneAssumption

\* What a request has loaded or begun is bound to its address.
LEMMA HasAddress ==
  ASSUME InTurnUse, IInv, NEW r \in Slots, Active(r), q[r].data # None,
         q[r].pc \notin {"deleteSession", "deleteExpires", "deliver"}
  PROVE  VerifyAddress => q[r].data.address # NoAddress
BY Served DEF Addressed, OfAddress, InTurnUse, Typed

LEMMA ChangeStoreTurn ==
  ASSUME InTurnUse, IInv, IInv', TurnInv, ChangeStore
  PROVE  TurnInv'
<1>1. PICK r \in Slots :
        /\ Step(r, "changeStore", [q[r] EXCEPT !.pc = "run", !.old = NoSid])
        /\ session' = [session EXCEPT ![q[r].sid] = Current(q[r])]
        /\ UNCHANGED <<expires, Ghosts>>
  BY DEF ChangeStore
<1> DEFINE y == [q[r] EXCEPT !.pc = "run", !.old = NoSid]
<1>2. q[r].pc = "changeStore" /\ Step(r, "changeStore", y)
  BY <1>1 DEF Step
<1>3. /\ Active(r) /\ DOMAIN q[r] = Fields /\ TypeOK /\ Turn(q[r], session, expires)
      /\ Typed(q[r])
  BY <1>2, AtStep
<1>4. q[r].sid \in Ids(q[r]) /\ q[r].sid \in Sids /\ q[r].sid # NoSid
  <2>1. q[r].sid > 0
    BY <1>2, <1>3, Served DEF Changing
  <2> QED
    BY <1>3, <2>1 DEF Ids, TypeOK, Request, NoSid
<1>5. /\ DOMAIN y = Fields /\ y.pc = "run" /\ y.then = q[r].then
      /\ y.client = q[r].client /\ y.n = q[r].n /\ y.address = q[r].address
      /\ y.sent = q[r].sent /\ y.sid = q[r].sid /\ y.gone = q[r].gone
      /\ y.out = q[r].out /\ y.expect = q[r].expect /\ y.data = q[r].data /\ y.sig = q[r].sig
      /\ y.expires = q[r].expires /\ y.extended = q[r].extended
      /\ y.flash = q[r].flash /\ y.alias = q[r].alias /\ y.hashes = q[r].hashes
  BY <1>3 DEF Fields
<1> HIDE DEF y
<1>6. Alike(q[r], y)
  BY <1>5 DEF Alike, sessionid, get_session_id
<1>7. /\ Typed(y) /\ Basic(y) /\ Right(y) /\ Plain(y) /\ y.data # None
      /\ Right(q[r]) /\ Current(y) = Current(q[r]) /\ q[r].data # None
  BY <1>2, <1>3, <1>5, <1>6, AlikeKeeps DEF Turn, Plain, Changing
<1>8. /\ Current(y) # None
      /\ Current(y).items = y.data.items /\ Current(y).address = q[r].data.address
      /\ Current(y).flash = IF y.alias THEN y.flash ELSE y.data.flash
      /\ y.alias => y.flash # None
  BY <1>5, <1>7, CurrentIs
<1>9. Writes(r) /\ AllAddressed(session') /\ session'[q[r].sid] = Current(q[r]) /\ UNCHANGED left
  BY <1>1, <1>2, <1>3, <1>4, <1>7, <1>8, StoresOne, HasAddress DEF Ghosts
<1>10. sessionid(y) = q[r].sid
  BY <1>4, <1>5 DEF sessionid
<1>11. KeptIn(y, session')
  <2>1. y.expect.items \subseteq y.data.items /\ y.expect.flash \subseteq Current(y).flash
    BY <1>7, <1>8 DEF Right, DataRight, FlashRight
  <2> QED
    BY <1>7, <1>8, <1>9, <1>10, <2>1 DEF KeptIn, Unread, ReadFrom
<1>12. Timed(y, expires') /\ Settled(y)
  BY <1>7 DEF Right, IdRight, Timed, Settled
<1>13. Turn(y, session', expires')
  BY <1>5, <1>7, <1>11, <1>12 DEF Turn, Changing
<1> QED
  BY <1>2, <1>5, <1>9, <1>13, StepTurn DEF Moves

-----------------------------------------------------------------------------
(* The end of a request, in turn *)

LEMMA FinalizeHeadersTurn ==
  ASSUME InTurnUse, IInv, IInv', TurnInv, FinalizeHeaders
  PROVE  TurnInv'
<1>1. PICK r \in Slots :
        LET x == save_session_expires(q[r])
        IN  /\ q[r].pc = "run"
            /\ IF q[r].expires > 0
               THEN /\ Becomes(r, [x EXCEPT !.pc = "saveSession"])
                    /\ expires' = [expires EXCEPT ![sessionid(x)] = x.extended]
               ELSE /\ Becomes(r, [q[r] EXCEPT !.pc = "saveSession"])
                    /\ UNCHANGED expires
            /\ UNCHANGED <<session, cookie, clock, nextReq, Ghosts>>
  BY DEF FinalizeHeaders
<1> DEFINE x == save_session_expires(q[r])
<1>2. q[r].pc = "run" /\ UNCHANGED <<session, cookie, nextReq, left>>
  BY <1>1 DEF Ghosts
<1>3. /\ Active(r) /\ DOMAIN q[r] = Fields /\ TypeOK /\ Turn(q[r], session, expires)
      /\ Typed(q[r])
  BY <1>2, AtStep
<1>4. Fine(q[r], session) /\ Timed(q[r], expires)
  BY <1>2, <1>3 DEF Turn, Fine
<1>5. /\ Fine(x, session) /\ SameRequest(q[r], x) /\ Timed(x, expires)
      /\ sessionid(x) = sessionid(q[r]) /\ x.expires = q[r].expires /\ x.expect = q[r].expect
  <2>1. CASE q[r].extended > 0
    BY <1>4, <2>1 DEF save_session_expires, SameRequest
  <2>2. CASE ~(q[r].extended > 0)
    BY <1>4, <2>2, ExtendFine DEF save_session_expires
  <2> QED
    BY <2>1, <2>2
<1> HIDE DEF x
<1>6. ASSUME NEW z, Fine(z, session), SameRequest(q[r], z), NEW X,
             sessionid(z) # NoSid =>
               X[sessionid(z)] = IF z.expires > 0 THEN z.extended ELSE z.expect.until
      PROVE  LET y == [z EXCEPT !.pc = "saveSession"]
             IN  /\ Turn(y, session, X) /\ y.pc # "idle"
                 /\ y.client = q[r].client /\ y.n = q[r].n /\ y.sent = q[r].sent
  <2> DEFINE y == [z EXCEPT !.pc = "saveSession"]
  <2>1. DOMAIN z = Fields
    BY <1>6 DEF Fine, Typed
  <2>2. /\ DOMAIN y = Fields /\ y.pc = "saveSession" /\ y.then = z.then
        /\ y.client = z.client /\ y.n = z.n /\ y.address = z.address
        /\ y.sent = z.sent /\ y.sid = z.sid /\ y.gone = z.gone
        /\ y.out = z.out /\ y.expect = z.expect /\ y.data = z.data /\ y.sig = z.sig
        /\ y.expires = z.expires /\ y.extended = z.extended
        /\ y.flash = z.flash /\ y.alias = z.alias /\ y.hashes = z.hashes
    BY <2>1 DEF Fields
  <2> HIDE DEF y
  <2>3. Alike(z, y)
    BY <2>2 DEF Alike, sessionid, get_session_id
  <2>4. Basic(y) /\ Right(y) /\ KeptIn(y, session) /\ Recorded(y, X)
    BY <1>6, <2>3, AlikeKeeps DEF Fine, Recorded
  <2>5. Plain(y)
    BY <1>6, <2>2 DEF Fine, Plain
  <2>6. Turn(y, session, X)
    BY <2>2, <2>4, <2>5 DEF Turn, Changing
  <2> QED
    BY <1>6, <2>2, <2>6 DEF SameRequest, y
<1>7. PICK X : X = expires'
  OBVIOUS
<1>8. CASE q[r].expires > 0
  <2> DEFINE y == [x EXCEPT !.pc = "saveSession"]
  <2>1. Becomes(r, y) /\ expires' = [expires EXCEPT ![sessionid(x)] = x.extended]
    BY <1>1, <1>8 DEF x
  <2>2. sessionid(q[r]) # NoSid /\ sessionid(q[r]) \in Sids /\ sessionid(q[r]) \in Ids(q[r])
    BY <1>3, <1>4, <1>8, Served DEF Fine, Right, IdRight, Ids, sessionid, get_session_id
  <2>3. Writes(r) /\ AllAddressed(session') /\ expires'[sessionid(x)] = x.extended
    BY <1>2, <1>3, <1>5, <2>1, <2>2, StoresTime
  <2>4. /\ Turn(y, session, X) /\ y.pc # "idle"
        /\ y.client = q[r].client /\ y.n = q[r].n /\ y.sent = q[r].sent
    BY <1>5, <1>6, <1>7, <1>8, <2>3
  <2> HIDE DEF y
  <2>5. Moves(r, y)
    BY <1>2, <1>7, <2>4 DEF Moves
  <2> QED
    BY <1>2, <1>3, <2>1, <2>3, <2>5, TurnContinues
<1>9. CASE ~(q[r].expires > 0)
  <2> DEFINE y == [q[r] EXCEPT !.pc = "saveSession"]
  <2>1. Becomes(r, y) /\ UNCHANGED <<session, expires>>
    BY <1>1, <1>9
  <2>2. q[r].expires = 0
    BY <1>3, <1>9 DEF Typed
  <2>3. sessionid(q[r]) # NoSid => X[sessionid(q[r])] = q[r].expect.until
    BY <1>4, <1>7, <2>1, <2>2 DEF Timed
  <2>4. SameRequest(q[r], q[r])
    BY DEF SameRequest
  <2>5. /\ Turn(y, session, X) /\ y.pc # "idle"
        /\ y.client = q[r].client /\ y.n = q[r].n /\ y.sent = q[r].sent
    BY <1>4, <1>6, <1>9, <2>3, <2>4
  <2> HIDE DEF y
  <2>6. Moves(r, y) /\ Writes(r) /\ AllAddressed(session')
    BY <1>2, <1>7, <2>1, <2>5 DEF Moves, Writes, TurnInv, AllAddressed
  <2> QED
    BY <1>2, <1>3, <2>1, <2>6, TurnContinues
<1> QED
  BY <1>8, <1>9

\* The data of a request are in the store, as it holds them.
LEMMA SavingTurn ==
  ASSUME NEW x, NEW S, NEW X, Typed(x), x.pc = "saveSession", Turn(x, S, X), x.data # None,
         NEW d, d # None, d.items = Current(x).items, d.flash = Current(x).flash,
         NEW S2, S2[sessionid(x)] # None,
         S2[sessionid(x)].items = d.items, S2[sessionid(x)].flash = d.flash,
         NEW y, y.pc = "saveFlash",
         /\ y.client = x.client /\ y.n = x.n /\ y.sent = x.sent /\ y.then = x.then
         /\ sessionid(y) = sessionid(x) /\ y.out = x.out /\ y.expect = x.expect
         /\ y.data = d /\ y.sig = x.sig /\ y.expires = x.expires /\ y.extended = x.extended
         /\ y.flash = x.flash /\ y.hashes = x.hashes
  PROVE  Turn(y, S2, X)
<1>1. Right(x) /\ KeptIn(x, S) /\ Basic(x) /\ Plain(x) /\ Recorded(x, X)
  BY DEF Turn
<1>2. Own(y) = Own(x)
  BY DEF Own
<1>3. /\ Current(x).items = x.data.items
      /\ Current(x).flash = IF x.alias THEN x.flash ELSE x.data.flash
      /\ x.alias => x.flash # None
  BY <1>1, CurrentIs
<1>4. d.items \ {Own(y)} = y.expect.items
  BY <1>1, <1>2, <1>3 DEF Right, DataRight
<1>5. d.flash = IF y.flash = None THEN y.expect.flash
                ELSE IF y.expect.flash # {} THEN y.flash ELSE {}
  BY <1>1, <1>3 DEF Right, DataRight, AliasRight
<1>6. sessionid(y) # NoSid
  BY <1>1 DEF Right, IdRight
<1>7. SavedIn(y, S2[sessionid(y)])
  BY <1>4, <1>5, <1>6 DEF SavedIn
<1>8. FlashRight(y) /\ SigRight(y)
  BY <1>1, <1>2 DEF Right, FlashRight, SigRight
<1>9. Saved(y, S2)
  BY <1>6, <1>7, <1>8 DEF Saved, Unread
<1>10. Basic(y) /\ Plain(y) /\ Recorded(y, X)
  BY <1>1 DEF Basic, Answers, Plain, Recorded
<1> QED
  BY <1>9, <1>10 DEF Turn, Changing

LEMMA SaveSessionTurn ==
  ASSUME InTurnUse, IInv, IInv', TurnInv, SaveSession
  PROVE  TurnInv'
<1>1. PICK r \in Slots :
        /\ q[r].pc = "saveSession"
        /\ Save(r, IF q[r].data = None THEN q[r] ELSE [q[r] EXCEPT !.data = Current(q[r])],
                "saveFlash")
        /\ UNCHANGED <<expires, cookie, clock, nextReq, Ghosts>>
  BY DEF SaveSession
<1>2. UNCHANGED <<expires, cookie, nextReq, left>>
  BY <1>1 DEF Ghosts
<1>3. /\ Active(r) /\ DOMAIN q[r] = Fields /\ TypeOK /\ Turn(q[r], session, expires)
      /\ Typed(q[r]) /\ Right(q[r]) /\ KeptIn(q[r], session)
  BY <1>1, AtStep DEF Turn
<1>4. CASE q[r].data = None
  <2> DEFINE y == [q[r] EXCEPT !.pc = "saveFlash"]
  <2>1. Becomes(r, y) /\ UNCHANGED session
    BY <1>1, <1>4 DEF Save
  <2>2. /\ y.pc = "saveFlash" /\ y.then = q[r].then /\ y.kept = q[r].kept
        /\ y.client = q[r].client /\ y.n = q[r].n /\ y.address = q[r].address
        /\ y.sent = q[r].sent /\ y.sid = q[r].sid /\ y.gone = q[r].gone
        /\ y.out = q[r].out /\ y.expect = q[r].expect /\ y.data = q[r].data /\ y.sig = q[r].sig
        /\ y.expires = q[r].expires /\ y.extended = q[r].extended
        /\ y.flash = q[r].flash /\ y.alias = q[r].alias /\ y.hashes = q[r].hashes
    BY <1>3 DEF Fields
  <2> HIDE DEF y
  <2>3. Alike(q[r], y)
    BY <2>2 DEF Alike, sessionid, get_session_id
  <2>4. Saved(q[r], session)
    BY <1>3, <1>4 DEF Saved, Right, IdRight, KeptIn
  <2>5. Basic(y) /\ Plain(y) /\ Recorded(y, expires) /\ Saved(y, session)
    BY <1>1, <1>3, <2>2, <2>3, <2>4, AlikeKeeps DEF Turn, Plain
  <2>6. Turn(y, session, expires)
    BY <2>2, <2>5 DEF Turn, Changing
  <2>7. Moves(r, y) /\ Writes(r) /\ AllAddressed(session')
    BY <1>2, <2>1, <2>2, <2>6 DEF Moves, Writes, TurnInv, AllAddressed
  <2> QED
    BY <1>2, <1>3, <2>1, <2>7, TurnContinues
<1>5. CASE q[r].data # None
  <2> DEFINE d == Current(q[r])
             x == [q[r] EXCEPT !.data = d]
             new == [d EXCEPT !.updated = clock]
  <2>1. /\ d \in Data /\ d # None /\ d.address = q[r].data.address
    BY <1>3, <1>5, CurrentIs
  <2> HIDE DEF d
  <2>2. /\ DOMAIN x = Fields /\ x.then = q[r].then
        /\ x.client = q[r].client /\ x.n = q[r].n
        /\ x.sent = q[r].sent /\ x.sid = q[r].sid /\ x.gone = q[r].gone
        /\ x.out = q[r].out /\ x.expect = q[r].expect /\ x.data = d /\ x.sig = q[r].sig
        /\ x.expires = q[r].expires /\ x.extended = q[r].extended
        /\ x.flash = q[r].flash /\ x.hashes = q[r].hashes
    BY <1>3 DEF Fields
  <2>3. Save(r, x, "saveFlash")
    BY <1>1, <1>5 DEF d
  <2> HIDE DEF x
  <2>4. sessionid(x) = sessionid(q[r]) /\ sessionid(q[r]) # NoSid
        /\ sessionid(q[r]) \in Sids /\ sessionid(q[r]) \in Ids(q[r])
    BY <1>1, <1>3, <1>5, <2>2, Served DEF sessionid, get_session_id, Ids
  <2>5. CASE d = q[r].sig
    <3> DEFINE y == [x EXCEPT !.pc = "saveFlash"]
    <3>1. Becomes(r, y) /\ UNCHANGED session
      BY <2>2, <2>3, <2>5 DEF Save
    <3>2. /\ y.pc = "saveFlash" /\ y.then = x.then
          /\ y.client = x.client /\ y.n = x.n
          /\ y.sent = x.sent /\ y.sid = x.sid /\ y.gone = x.gone
          /\ y.out = x.out /\ y.expect = x.expect /\ y.data = x.data /\ y.sig = x.sig
          /\ y.expires = x.expires /\ y.extended = x.extended
          /\ y.flash = x.flash /\ y.hashes = x.hashes
      BY <2>2 DEF Fields
    <3> HIDE DEF y
    <3>3. sessionid(y) = sessionid(q[r])
      BY <2>2, <3>2 DEF sessionid, get_session_id
    <3>4. q[r].sig # None /\ Current(q[r]).items = q[r].data.items
      BY <1>3, <1>5, <2>1, <2>5, CurrentIs
    <3>5. /\ session[sessionid(q[r])] # None
          /\ session[sessionid(q[r])].items = d.items
          /\ session[sessionid(q[r])].flash = d.flash
      <4> DEFINE s == session[sessionid(q[r])]
      <4>1. ReadFrom(q[r], s)
        BY <1>3, <3>4 DEF KeptIn
      <4>2. d.items = q[r].expect.items /\ d.flash = q[r].expect.flash
        BY <1>3, <2>5, <3>4 DEF Right, SigRight
      <4>3. d.items = q[r].data.items /\ d.flash = Current(q[r]).flash
        BY <3>4 DEF d
      <4> HIDE DEF s
      <4>4. s # None /\ s.items = d.items /\ s.flash = d.flash
        BY <4>1, <4>2, <4>3 DEF ReadFrom
      <4> QED
        BY <4>4 DEF s
    <3>6. Turn(y, session, expires)
      BY <1>1, <1>3, <1>5, <2>1, <2>2, <3>2, <3>3, <3>5, SavingTurn DEF d
    <3>7. Moves(r, y) /\ Writes(r) /\ AllAddressed(session')
      BY <1>2, <2>2, <3>1, <3>2, <3>6 DEF Moves, Writes, TurnInv, AllAddressed
    <3> QED
      BY <1>2, <1>3, <3>1, <3>7, TurnContinues
  <2>6. CASE d # q[r].sig
    <3> DEFINE y == [x EXCEPT !.pc = "saveFlash", !.data = new]
    <3>1. Becomes(r, y) /\ session' = [session EXCEPT ![sessionid(x)] = new]
      BY <2>1, <2>2, <2>3, <2>6 DEF Save
    <3>2. /\ new \in Data /\ new.items = d.items /\ new.flash = d.flash
          /\ new.address = d.address
      BY <1>3, <2>1, Bounds DEF Data
    <3> HIDE DEF new
    <3>3. new # None
      BY <3>2, NoneAssumption
    <3>4. /\ y.pc = "saveFlash" /\ y.then = x.then
          /\ y.client = x.client /\ y.n = x.n
          /\ y.sent = x.sent /\ y.sid = x.sid /\ y.gone = x.gone
          /\ y.out = x.out /\ y.expect = x.expect /\ y.data = new /\ y.sig = x.sig
          /\ y.expires = x.expires /\ y.extended = x.extended
          /\ y.flash = x.flash /\ y.hashes = x.hashes
      BY <2>2 DEF Fields
    <3> HIDE DEF y
    <3>5. sessionid(y) = sessionid(q[r])
      BY <2>2, <3>4 DEF sessionid, get_session_id
    <3>6. Writes(r) /\ AllAddressed(session') /\ session'[sessionid(q[r])] = new
      <4>1. VerifyAddress => new.address # NoAddress
        BY <1>1, <1>3, <1>5, <2>1, <3>2, HasAddress
      <4> QED
        BY <1>2, <1>3, <2>4, <3>1, <4>1, StoresOne
    <3>7. PICK S : S = session'
      OBVIOUS
    <3>8. S[sessionid(q[r])] = new
      BY <3>6, <3>7
    <3>9. Turn(y, S, expires)
      BY <1>1, <1>3, <1>5, <2>2, <3>2, <3>3, <3>4, <3>5, <3>8, SavingTurn DEF d
    <3>10. Moves(r, y)
      BY <1>2, <2>2, <3>4, <3>7, <3>9 DEF Moves
    <3> QED
      BY <1>2, <1>3, <3>1, <3>6, <3>10, TurnContinues
  <2> QED
    BY <2>5, <2>6
<1> QED
  BY <1>4, <1>5

\* Of the flash, a request leaves what it put there, and the rest only if it is kept.
LEMMA FlashLeft ==
  ASSUME NEW x, Typed(x), Basic(x), FlashRight(x), x.flash # None,
         NEW y, y.flash = x.flash \ Stale(x), y.flash # None,
         Own(y) = Own(x), y.expect = x.expect, y.kept = x.kept,
         y.data # None, y.data.items \ {Own(x)} = x.expect.items
  PROVE  Leaves(y).items = y.data.items /\ Leaves(y).flash = y.flash
<1>1. /\ Own(x) \notin x.expect.items /\ Own(x) \notin x.expect.flash
      /\ x.flash \ {Own(x)} = x.expect.flash /\ x.hashes = x.expect.flash
  BY OwnIsNew DEF FlashRight
<1>2. Leaves(y).items = x.expect.items \cup (y.data.items \cap {Own(x)})
  BY DEF Leaves
<1>3. Leaves(y).flash = (IF x.kept THEN x.expect.flash ELSE {}) \cup (y.flash \cap {Own(x)})
  BY DEF Leaves
<1>4. y.flash = x.flash \ (IF x.kept THEN {} ELSE x.expect.flash)
  BY <1>1 DEF Stale
<1>5. CASE x.kept
  <2>1. y.flash = x.flash
    BY <1>4, <1>5
  <2> QED
    BY <1>1, <1>2, <1>3, <1>5, <2>1
<1>6. CASE ~x.kept
  <2>1. y.flash = x.flash \ x.expect.flash
    BY <1>4, <1>6
  <2>2. y.flash = x.flash \cap {Own(x)}
    BY <1>1, <2>1
  <2> QED
    BY <1>1, <1>2, <1>3, <1>6, <2>2
<1> QED
  BY <1>5, <1>6

\* A request that is about to be answered leaves what the store has.
LEMMA DeliversTurn ==
  ASSUME NEW x, NEW S, NEW X, Basic(x), Plain(x), Recorded(x, X),
         NEW y, y.pc = "deliver",
         /\ y.client = x.client /\ y.n = x.n /\ y.sent = x.sent /\ y.then = x.then
         /\ sessionid(y) = sessionid(x) /\ y.out = x.out /\ y.expect = x.expect
         /\ y.expires = x.expires /\ y.extended = x.extended,
         VerifyAddress => y.flash = None,
         IF sessionid(x) = NoSid THEN Empty(Leaves(y)) ELSE Holds(S[sessionid(x)], Leaves(y))
  PROVE  Turn(y, S, X)
<1>1. Leaves(y).until = IF x.expires > 0 THEN x.extended ELSE x.expect.until
  BY DEF Leaves
<1>2. Agrees(sessionid(y), Leaves(y), S, X)
  BY <1>1 DEF Agrees, Recorded
<1>3. Basic(y) /\ Plain(y)
  BY DEF Basic, Answers, Plain
<1> QED
  BY <1>2, <1>3 DEF Turn, Changing

LEMMA SaveFlashTurn ==
  ASSUME InTurnUse, IInv, IInv', TurnInv, SaveFlash
  PROVE  TurnInv'
<1>1. PICK r \in Slots :
        LET x == q[r]
            fl == x.flash \ Stale(x)
            data == [(IF x.data = None THEN Sprung ELSE x.data) EXCEPT !.flash = fl]
        IN  /\ x.pc = "saveFlash"
            /\ IF x.flash = None
               THEN Becomes(r, [x EXCEPT !.pc = "deliver"]) /\ UNCHANGED session
               ELSE Save(r, [x EXCEPT !.data = data, !.flash = fl, !.alias = TRUE], "deliver")
            /\ UNCHANGED <<expires, cookie, clock, nextReq, Ghosts>>
  BY DEF SaveFlash
<1>2. UNCHANGED <<expires, cookie, nextReq, left>>
  BY <1>1 DEF Ghosts
<1>3. /\ Active(r) /\ DOMAIN q[r] = Fields /\ TypeOK /\ Turn(q[r], session, expires)
      /\ Typed(q[r])
  BY <1>1, AtStep
<1>4. Saved(q[r], session) /\ Basic(q[r]) /\ Plain(q[r]) /\ Recorded(q[r], expires)
  BY <1>1, <1>3 DEF Turn
<1>5. CASE q[r].flash = None
  <2> DEFINE y == [q[r] EXCEPT !.pc = "deliver"]
  <2>1. Becomes(r, y) /\ UNCHANGED session
    BY <1>1, <1>5
  <2>2. /\ y.pc = "deliver" /\ y.then = q[r].then /\ y.kept = q[r].kept
        /\ y.client = q[r].client /\ y.n = q[r].n
        /\ y.sent = q[r].sent /\ y.sid = q[r].sid /\ y.gone = q[r].gone
        /\ y.out = q[r].out /\ y.expect = q[r].expect /\ y.data = q[r].data
        /\ y.expires = q[r].expires /\ y.extended = q[r].extended /\ y.flash = None
    BY <1>3, <1>5 DEF Fields
  <2> HIDE DEF y
  <2>3. sessionid(y) = sessionid(q[r]) /\ Own(y) = Own(q[r])
    BY <2>2 DEF sessionid, get_session_id, Own
  <2>4. IF sessionid(q[r]) = NoSid THEN Empty(Leaves(y))
        ELSE Holds(session[sessionid(q[r])], Leaves(y))
    <3>1. CASE q[r].data = None
      <4>1. Leaves(y).items = q[r].expect.items /\ Leaves(y).flash = q[r].expect.flash
        BY <2>2, <3>1 DEF Leaves
      <4> QED
        BY <1>4, <3>1, <4>1 DEF Saved, Unread, Empty, Holds
    <3>2. CASE q[r].data # None
      <4>1. SavedIn(q[r], session[sessionid(q[r])])
        BY <1>4, <3>2 DEF Saved
      <4>2. /\ Leaves(y).items = q[r].expect.items \cup (q[r].data.items \cap {Own(q[r])})
            /\ Leaves(y).flash = q[r].expect.flash
        BY <2>2, <2>3, <3>2 DEF Leaves
      <4>3. Leaves(y).items = q[r].data.items /\ Leaves(y).flash = q[r].data.flash
        BY <1>5, <4>1, <4>2 DEF SavedIn
      <4> QED
        BY <4>1, <4>3 DEF SavedIn, Holds
    <3> QED
      BY <3>1, <3>2
  <2>5. Turn(y, session, expires)
    BY <1>4, <2>2, <2>3, <2>4, DeliversTurn
  <2>6. Moves(r, y) /\ Writes(r) /\ AllAddressed(session')
    BY <1>2, <2>1, <2>2, <2>5 DEF Moves, Writes, TurnInv, AllAddressed
  <2> QED
    BY <1>2, <1>3, <2>1, <2>6, TurnContinues
<1>6. CASE q[r].flash # None
  <2> DEFINE fl == q[r].flash \ Stale(q[r])
             d0 == IF q[r].data = None THEN Sprung ELSE q[r].data
             d == [d0 EXCEPT !.flash = fl]
             x == [q[r] EXCEPT !.data = d, !.flash = fl, !.alias = TRUE]
             new == [d EXCEPT !.updated = clock]
  <2>1. Save(r, x, "deliver")
    BY <1>1, <1>6
  <2>2. ~VerifyAddress /\ sessionid(q[r]) # NoSid
    BY <1>4, <1>6 DEF Plain, Saved
  <2>3. fl \in SUBSET Items /\ fl # None
    BY <1>3, <1>6, NoneAssumption DEF Typed
  <2>4. /\ d0 \in Data
        /\ q[r].data # None => d0 = q[r].data
        /\ q[r].data = None => d0.items = {}
    <3>1. Sprung \in Data /\ Sprung.items = {}
      BY <1>3, Bounds DEF Sprung, Data
    <3> QED
      BY <1>3, <3>1 DEF Typed
  <2>5. d0.items \ {Own(q[r])} = q[r].expect.items
    <3>1. CASE q[r].data = None
      BY <1>4, <1>6, <2>4, <3>1 DEF Saved, FlashRight, Empty
    <3>2. CASE q[r].data # None
      BY <1>4, <2>4, <3>2 DEF Saved, SavedIn
    <3> QED
      BY <3>1, <3>2
  <2> HIDE DEF d0
  <2>6. d \in Data /\ d.items = d0.items /\ d.flash = fl
    <3> HIDE DEF fl
    <3> QED
      BY <2>3, <2>4 DEF Data
  <2>7. d # None
    BY <2>6, NoneAssumption
  <2>8. new \in Data /\ new.items = d.items /\ new.flash = d.flash
    <3> HIDE DEF d
    <3> QED
      BY <1>3, <2>6, Bounds DEF Data
  <2>9. new # None
    BY <2>8, NoneAssumption
  <2> HIDE DEF d, fl, new
  <2>10. /\ DOMAIN x = Fields /\ x.then = q[r].then /\ x.kept = q[r].kept
         /\ x.client = q[r].client /\ x.n = q[r].n
         /\ x.sent = q[r].sent /\ x.sid = q[r].sid /\ x.gone = q[r].gone
         /\ x.out = q[r].out /\ x.expect = q[r].expect /\ x.data = d /\ x.sig = q[r].sig
         /\ x.expires = q[r].expires /\ x.extended = q[r].extended /\ x.flash = fl
    BY <1>3 DEF Fields
  <2> HIDE DEF x
  <2>11. sessionid(x) = sessionid(q[r]) /\ sessionid(q[r]) \in Sids /\ sessionid(q[r]) \in Ids(q[r])
    BY <1>3, <2>2, <2>10, Served DEF sessionid, get_session_id, Ids
  <2>12. ASSUME NEW y, y.pc = "deliver", NEW g, y.data = g, g # None, g.items = d0.items, g.flash = fl,
                /\ y.client = x.client /\ y.n = x.n /\ y.sent = x.sent /\ y.then = x.then
                /\ y.sid = x.sid /\ y.gone = x.gone /\ y.out = x.out /\ y.expect = x.expect
                /\ y.expires = x.expires /\ y.extended = x.extended
                /\ y.flash = x.flash /\ y.kept = x.kept,
                NEW S, S[sessionid(x)] # None, S[sessionid(x)].items = g.items,
                S[sessionid(x)].flash = g.flash
         PROVE  Turn(y, S, expires)
    <3>1. sessionid(y) = sessionid(q[r]) /\ Own(y) = Own(q[r])
      BY <2>10, <2>12 DEF sessionid, get_session_id, Own
    <3>2. FlashRight(q[r]) /\ y.flash = q[r].flash \ Stale(q[r])
      BY <1>4, <2>10, <2>12 DEF Saved, fl
    <3>3. Leaves(y).items = y.data.items /\ Leaves(y).flash = y.flash
      BY <1>3, <1>4, <1>6, <2>3, <2>5, <2>10, <2>12, <3>1, <3>2, FlashLeft
    <3>4. Holds(S[sessionid(q[r])], Leaves(y))
      BY <2>10, <2>11, <2>12, <3>3 DEF Holds
    <3> QED
      BY <1>4, <2>2, <2>10, <2>12, <3>1, <3>4, DeliversTurn
  <2>13. CASE d = q[r].sig
    <3> DEFINE y == [x EXCEPT !.pc = "deliver"]
    <3>1. Becomes(r, y) /\ UNCHANGED session
      BY <2>1, <2>10, <2>13 DEF Save
    <3>2. /\ y.pc = "deliver" /\ y.data = d
          /\ y.client = x.client /\ y.n = x.n /\ y.sent = x.sent /\ y.then = x.then
          /\ y.sid = x.sid /\ y.gone = x.gone /\ y.out = x.out /\ y.expect = x.expect
          /\ y.expires = x.expires /\ y.extended = x.extended
          /\ y.flash = x.flash /\ y.kept = x.kept
      BY <2>10 DEF Fields
    <3> HIDE DEF y
    <3>3. /\ q[r].data # None /\ d.items = q[r].expect.items /\ fl = q[r].expect.flash
      BY <1>4, <2>6, <2>7, <2>13 DEF Saved, SigRight
    <3> DEFINE s == session[sessionid(q[r])]
    <3>4. SavedIn(q[r], s)
      BY <1>4, <3>3 DEF Saved
    <3>5. /\ q[r].flash \ {Own(q[r])} = q[r].expect.flash /\ q[r].hashes = q[r].expect.flash
          /\ Own(q[r]) \notin q[r].expect.flash
      BY <1>3, <1>4, <1>6, OwnIsNew DEF Saved, FlashRight
    <3>6. fl = IF q[r].expect.flash # {} THEN q[r].flash ELSE {}
      <4>1. CASE q[r].kept
        <5>1. fl = q[r].flash
          BY <4>1 DEF fl, Stale
        <5> QED
          BY <3>3, <5>1
      <4>2. CASE ~q[r].kept
        <5>1. fl = q[r].flash \ q[r].expect.flash
          BY <3>5, <4>2 DEF fl, Stale
        <5>2. fl = {}
          BY <3>3, <5>1
        <5> QED
          BY <3>3, <5>2
      <4> QED
        BY <4>1, <4>2
    <3> HIDE DEF s
    <3>7. s # None /\ s.items = d.items /\ s.flash = d.flash
      BY <1>6, <2>4, <2>6, <3>3, <3>4, <3>6 DEF SavedIn
    <3>8. Turn(y, session, expires)
      BY <2>6, <2>7, <2>11, <2>12, <3>2, <3>7 DEF s
    <3>9. Moves(r, y) /\ Writes(r) /\ AllAddressed(session')
      BY <1>2, <2>10, <3>1, <3>2, <3>8 DEF Moves, Writes, TurnInv, AllAddressed
    <3> QED
      BY <1>2, <1>3, <3>1, <3>9, TurnContinues
  <2>14. CASE d # q[r].sig
    <3> DEFINE y == [x EXCEPT !.pc = "deliver", !.data = new]
    <3>1. Becomes(r, y) /\ session' = [session EXCEPT ![sessionid(x)] = new]
      BY <2>1, <2>7, <2>10, <2>14 DEF Save, new
    <3>2. /\ y.pc = "deliver" /\ y.data = new
          /\ y.client = x.client /\ y.n = x.n /\ y.sent = x.sent /\ y.then = x.then
          /\ y.sid = x.sid /\ y.gone = x.gone /\ y.out = x.out /\ y.expect = x.expect
          /\ y.expires = x.expires /\ y.extended = x.extended
          /\ y.flash = x.flash /\ y.kept = x.kept
      BY <2>10 DEF Fields
    <3> HIDE DEF y
    <3>3. Writes(r) /\ AllAddressed(session') /\ session'[sessionid(q[r])] = new
      BY <1>2, <1>3, <2>2, <2>11, <3>1, StoresOne
    <3>4. PICK S : S = session'
      OBVIOUS
    <3>5. S[sessionid(x)] = new
      BY <2>11, <3>3, <3>4
    <3>6. Turn(y, S, expires)
      BY <2>6, <2>8, <2>9, <2>12, <3>2, <3>5
    <3>7. Moves(r, y)
      BY <1>2, <2>10, <3>2, <3>4, <3>6 DEF Moves
    <3> QED
      BY <1>2, <1>3, <3>1, <3>3, <3>7, TurnContinues
  <2> QED
    BY <2>13, <2>14
<1> QED
  BY <1>5, <1>6

\* The client has its answer, and will find what the request left.
LEMMA DeliverTurn ==
  ASSUME InTurnUse, IInv, TurnInv, Deliver
  PROVE  TurnInv'
<1>1. PICK r \in Slots :
        /\ q[r].pc = "deliver"
        /\ q' = [q EXCEPT ![r] = Idle]
        /\ \/ /\ cookie' = [cookie EXCEPT ![q[r].client] =
                              IF q[r].out = Unset THEN @ ELSE q[r].out]
              /\ left' = [left EXCEPT ![q[r].client] = Leaves(q[r])]
           \/ "lost" \in Faults /\ UNCHANGED <<cookie, left>>
        /\ UNCHANGED <<Stored, clock, nextSid, nextReq, dead>>
  BY DEF Deliver
<1> DEFINE x == q[r]
           b == x.client
<1>2. /\ Active(r) /\ Typed(x) /\ TypeOK /\ Turn(x, session, expires)
  BY <1>1, AtStep
<1>3. /\ cookie' = [cookie EXCEPT ![b] = IF x.out = Unset THEN cookie[b] ELSE x.out]
      /\ left' = [left EXCEPT ![b] = Leaves(x)]
      /\ UNCHANGED <<session, expires, nextSid, nextReq>>
  BY <1>1 DEF InTurnUse, Stored
<1>4. q'[r] = Idle /\ \A p \in Slots : p # r => q'[p] = q[p]
  BY <1>1, <1>2 DEF TypeOK
<1>5. \A p \in Slots : Active(p)' <=> Active(p) /\ p # r
  BY <1>4 DEF Active, Idle
<1>6. /\ b \in Clients /\ x.n \in Nat /\ nextReq \in Nat /\ x.n < nextReq
      /\ cookie[b] = x.sent
  BY <1>2, SessionAssumption DEF Typed, TypeOK, TurnInv
<1>7. /\ cookie'[b] = (IF x.out = Unset THEN cookie[b] ELSE x.out) /\ left'[b] = Leaves(x)
      /\ \A c \in Clients : c # b => cookie'[c] = cookie[c] /\ left'[c] = left[c]
  BY <1>2, <1>3, <1>6 DEF TypeOK
<1>8. \A p \in Slots : Active(p) /\ p # r => q[p].client # b
  BY <1>2 DEF TurnInv
<1>9. cookie'[b] = sessionid(x)
  BY <1>2, <1>6, <1>7 DEF Turn, Basic, Answers
<1>10. Agrees(cookie'[b], left'[b], session, expires)
  BY <1>1, <1>2, <1>7, <1>9 DEF Turn
<1>11. Before(left'[b], nextReq)
  <2>1. \A i \in Leaves(x).items \cup Leaves(x).flash :
          i \in x.expect.items \cup x.expect.flash \/ i = Own(x)
    BY DEF Leaves
  <2>2. \A i \in x.expect.items \cup x.expect.flash : i \in Items /\ i[2] < x.n
    <3>1. x.expect \in View
      BY <1>2 DEF TypeOK, Request
    <3> QED
      BY <1>2, <3>1 DEF Turn, Basic, Before, View
  <2>3. \A i \in Items : i[2] \in Nat
    BY SessionAssumption DEF Items
  <2>4. Own(x)[2] = x.n
    BY DEF Own
  <2> HIDE DEF x
  <2>5. \A i \in Leaves(x).items \cup Leaves(x).flash : i[2] < nextReq
    BY <1>6, <2>1, <2>2, <2>3, <2>4
  <2> QED
    BY <1>7, <2>5 DEF Before
<1> HIDE DEF x, b
<1>12. ASSUME NEW c \in Clients
       PROVE  /\ Before(left'[c], nextReq')
              /\ (\A p \in Slots : Active(p)' => q'[p].client # c) =>
                   Agrees(cookie'[c], left'[c], session', expires')
  <2>1. CASE c = b
    BY <1>3, <1>10, <1>11, <2>1
  <2>2. CASE c # b
    <3>1. (\A p \in Slots : Active(p)' => q'[p].client # c) =>
             (\A p \in Slots : Active(p) => q[p].client # c)
      BY <1>4, <1>5, <2>2 DEF x, b
    <3> QED
      BY <1>3, <1>7, <2>2, <3>1 DEF TurnInv
  <2> QED
    BY <2>1, <2>2
<1>13. \A p, o \in Slots : Active(p)' /\ Active(o)' /\ q'[p].client = q'[o].client => p = o
  BY <1>4, <1>5 DEF TurnInv
<1>14. ASSUME NEW p \in Slots, Active(p)'
       PROVE  /\ cookie'[q'[p].client] = q'[p].sent /\ q'[p].n < nextReq'
              /\ Turn(q'[p], session', expires')
  <2>1. Active(p) /\ p # r /\ q'[p] = q[p]
    BY <1>4, <1>5, <1>14
  <2>2. q[p].client # b /\ q[p].client \in Clients
    BY <1>8, <2>1, Served DEF Typed
  <2> QED
    BY <1>3, <1>7, <2>1, <2>2 DEF TurnInv
<1>15. (\A s \in Sids : s >= nextSid' => session'[s] = None) /\ AllAddressed(session')
  BY <1>3 DEF TurnInv
<1> QED
  BY <1>12, <1>13, <1>14, <1>15 DEF TurnInv

\* A client that has no request under way begins the next one with what it left.
LEMMA StartTurn ==
  ASSUME InTurnUse, IInv, TurnInv, Start
  PROVE  TurnInv'
<1>1. PICK r \in Slots, c \in Clients, a \in Addresses :
        /\ ~Active(r)
        /\ nextReq <= MaxRequests
        /\ OneAtATime => \A s \in Slots : Active(s) => q[s].client # c
        /\ q' = [q EXCEPT ![r] = [Idle EXCEPT
             !.pc = "run", !.client = c, !.n = nextReq, !.address = a,
             !.sent = cookie[c], !.calls = MaxCalls, !.expect = left[c]]]
        /\ nextReq' = nextReq + 1
        /\ UNCHANGED <<Stored, cookie, clock, nextSid, Ghosts>>
  BY DEF Start
<1> DEFINE y == [Idle EXCEPT !.pc = "run", !.client = c, !.n = nextReq, !.address = a,
                   !.sent = cookie[c], !.calls = MaxCalls, !.expect = left[c]]
<1>2. /\ UNCHANGED <<session, expires, cookie, nextSid, left>> /\ TypeOK /\ nextReq \in Nat
      /\ nextReq' = nextReq + 1
  BY <1>1 DEF Stored, Ghosts, IInv, TypeOK
<1>3. \A s \in Slots : Active(s) => q[s].client # c
  BY <1>1 DEF InTurnUse
<1>4. q'[r] = y /\ \A p \in Slots : p # r => q'[p] = q[p]
  BY <1>1, <1>2 DEF TypeOK
<1>5. /\ y.pc = "run" /\ y.client = c /\ y.n = nextReq /\ y.address = a /\ y.sent = cookie[c]
      /\ y.expect = left[c] /\ y.then = "session" /\ y.sid = NoSid /\ y.data = None
      /\ y.sig = None /\ y.tried = FALSE /\ y.expires = 0 /\ y.flash = None /\ y.alias = FALSE
      /\ y.hashes = {} /\ y.gone = FALSE /\ y.out = Unset
  BY DEF Idle
<1> HIDE DEF y
<1>6. \A p \in Slots : Active(p)' <=> Active(p) \/ p = r
  BY <1>4, <1>5 DEF Active
<1>7. sessionid(y) = cookie[c]
  BY <1>5 DEF sessionid, get_session_id, NoSid
<1>8. Agrees(cookie[c], left[c], session, expires) /\ Before(left[c], nextReq)
  BY <1>3 DEF TurnInv
<1>9. Turn(y, session, expires)
  <2>1. Basic(y) /\ Plain(y)
    BY <1>5, <1>7, <1>8 DEF Basic, Answers, Plain
  <2>2. Right(y)
    BY <1>5, <1>7, <1>8
       DEF Right, DataRight, FlashRight, SigRight, AliasRight, IdRight, Agrees
  <2>3. KeptIn(y, session) /\ Timed(y, expires) /\ Settled(y)
    BY <1>5, <1>7, <1>8 DEF KeptIn, Unread, Timed, Settled, Agrees
  <2> QED
    BY <1>5, <2>1, <2>2, <2>3 DEF Turn, Changing
<1>10. \A d \in Clients : Before(left[d], nextReq + 1)
  <2> SUFFICES ASSUME NEW d \in Clients, NEW i \in left[d].items \cup left[d].flash
               PROVE  i[2] < nextReq + 1
    BY DEF Before
  <2>1. left[d] \in View /\ i \in Items /\ i[2] < nextReq
    BY <1>2 DEF TypeOK, View, TurnInv, Before
  <2>2. i[2] \in Nat
    BY <2>1, SessionAssumption DEF Items
  <2> QED
    BY <1>2, <2>1, <2>2
<1>11. ASSUME NEW p \in Slots, Active(p)'
       PROVE  /\ cookie'[q'[p].client] = q'[p].sent /\ q'[p].n < nextReq'
              /\ Turn(q'[p], session', expires')
  <2>1. CASE p = r
    BY <1>2, <1>4, <1>5, <1>9, <2>1
  <2>2. CASE p # r
    <3>1. Active(p) /\ q'[p] = q[p]
      BY <1>4, <1>6, <1>11, <2>2
    <3>2. q[p].n \in Nat /\ q[p].n < nextReq
      BY <3>1, Served, SessionAssumption DEF Typed, TurnInv
    <3> QED
      BY <1>2, <3>1, <3>2 DEF TurnInv
  <2> QED
    BY <2>1, <2>2
<1>12. \A p, o \in Slots : Active(p)' /\ Active(o)' /\ q'[p].client = q'[o].client => p = o
  BY <1>3, <1>4, <1>5, <1>6 DEF TurnInv
<1>13. \A d \in Clients :
         /\ Before(left'[d], nextReq')
         /\ (\A p \in Slots : Active(p)' => q'[p].client # d) =>
              Agrees(cookie'[d], left'[d], session', expires')
  <2> SUFFICES ASSUME NEW d \in Clients
               PROVE  (\A p \in Slots : Active(p)' => q'[p].client # d) =>
                         Agrees(cookie[d], left[d], session, expires)
    BY <1>2, <1>10
  <2>1. (\A p \in Slots : Active(p)' => q'[p].client # d) =>
           (\A p \in Slots : Active(p) => q[p].client # d)
    BY <1>1, <1>4, <1>6
  <2> QED
    BY <2>1 DEF TurnInv
<1>14. (\A s \in Sids : s >= nextSid' => session'[s] = None) /\ AllAddressed(session')
  BY <1>2 DEF TurnInv
<1> QED
  BY <1>11, <1>12, <1>13, <1>14 DEF TurnInv

\* Time passes, or nothing happens.
LEMMA TickTurn ==
  ASSUME TurnInv, Tick \/ UNCHANGED vars
  PROVE  TurnInv'
<1>1. UNCHANGED <<session, expires, cookie, q, nextSid, nextReq, left>>
  BY DEF Tick, vars, Stored, Ghosts
<1>2. \A r \in Slots : Active(r)' <=> Active(r)
  BY <1>1 DEF Active
<1> QED
  BY <1>1, <1>2 DEF TurnInv

LEMMA InitTurn ==
  ASSUME Init
  PROVE  TurnInv
<1>1. \A r \in Slots : ~Active(r)
  BY DEF Init, Active, Idle
<1>2. Before(Nothing, nextReq) /\ Empty(Nothing)
  BY DEF Before, Nothing, Empty
<1>3. \A c \in Clients : left[c] = Nothing /\ cookie[c] = NoSid
  BY DEF Init
<1>4. \A s \in Sids : session[s] = None
  BY DEF Init
<1> QED
  BY <1>1, <1>2, <1>3, <1>4 DEF TurnInv, Agrees, AllAddressed

LEMMA NextTurn ==
  ASSUME InTurnUse, IInv, IInv', TurnInv, [Next]_vars
  PROVE  TurnInv'
<1>1. CASE Next
  <2>1. ~CallClearFlash /\ ~Crash
    BY DEF InTurnUse, CallClearFlash, Call, Crash
  <2> QED
    BY <1>1, <2>1, StartTurn, CallSessionTurn, CallFlashTurn, CallKeepFlashTurn,
       CallExpiresTurn, CallDeleteTurn, LoadExpiresTurn, LoadDataTurn, DeleteSessionTurn,
       DeleteExpiresTurn, ChangeSessionTurn, ChangeExpiresTurn, ChangeStoreTurn,
       FinalizeHeadersTurn, SaveSessionTurn, SaveFlashTurn, DeliverTurn, TickTurn
       DEF Next
<1>2. CASE UNCHANGED vars
  BY <1>2, TickTurn
<1> QED
  BY <1>1, <1>2

\* While clients make one request at a time, and every request is answered, each
\* request holds, at every step of every handler, what the client's last request
\* left and what this one put there, and the store the rest.
THEOREM SessionTurn == InTurnUse => (Spec => []TurnInv)
<1> SUFFICES ASSUME InTurnUse
             PROVE  Spec => []TurnInv
  OBVIOUS
<1>1. Init => TurnInv
  BY InitTurn
<1>2. IInv /\ IInv' /\ TurnInv /\ [Next]_vars => TurnInv'
  BY NextTurn
<1> QED
  BY <1>1, <1>2, SessionInvariant, PTL DEF Spec

\* The session such a client finds has what its requests before it left there,
\* nothing that was deleted or has expired, and nothing that was not stored.
THEOREM SessionSessionSeen == InTurnUse => (Spec => []SessionSeen)
<1> SUFFICES ASSUME InTurnUse
             PROVE  Spec => []SessionSeen
  OBVIOUS
<1>1. TurnInv => SessionSeen
  BY DEF TurnInv, SessionSeen, Active, Turn, Right, DataRight
<1> QED
  BY <1>1, SessionTurn, PTL

\* A flash value such a client stored is in the next request that looks at the
\* flash, and in no later one unless it is kept, through changes of the id,
\* deletions and expiry.
THEOREM SessionFlashSeen == InTurnUse => (Spec => []FlashSeen)
<1> SUFFICES ASSUME InTurnUse
             PROVE  Spec => []FlashSeen
  OBVIOUS
<1>1. TurnInv => FlashSeen
  BY DEF TurnInv, FlashSeen, Active, Turn, Right, FlashRight
<1> QED
  BY <1>1, SessionTurn, PTL
=============================================================================
