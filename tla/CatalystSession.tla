--------------------------- MODULE CatalystSession ---------------------------
(***************************************************************************)
(* Catalyst::Plugin::Session with cookies: the requests of a set of        *)
(* clients, the processes that serve them, and the store they share.       *)
(*                                                                         *)
(* The store is only reached one key at a time (session:<sid> and          *)
(* expires:<sid>), so a call of the plugin that reads or writes several    *)
(* keys is several steps, and requests of one client that overlap          *)
(* interleave between them. An application's action is any sequence of     *)
(* calls of the plugin.                                                    *)
(***************************************************************************)
EXTENDS Integers, FiniteSets

CONSTANTS
  Clients,        \* browsers
  Slots,          \* server processes, each serving one request at a time
  Addresses,      \* network addresses a client's requests may come from
  VerifyAddress,  \* the verify_address option
  OneAtATime,     \* TRUE: a client waits for a response before it asks again
  Calls,          \* the plugin's methods the application uses
  Faults,         \* what may happen to requests
  TTL,            \* the expires option
  None,           \* undef, where a hash is expected
  MaxCalls,       \* bound: calls of the plugin an action makes
  MaxTime, MaxRequests, MaxSids   \* bounds: of the whole run

AllCalls == {"session", "put", "unbind", "flash", "putFlash", "keepFlash", "clearFlash",
             "valid", "expires", "delete", "change"}
AllFaults == {"crash",    \* a process dies in the middle of a request
              "lost"}     \* a response does not reach the client

ASSUME SessionAssumption ==
  /\ VerifyAddress \in BOOLEAN /\ OneAtATime \in BOOLEAN
  /\ Calls \subseteq AllCalls /\ Faults \subseteq AllFaults
  /\ TTL \in Nat /\ MaxCalls \in Nat /\ MaxTime \in Nat \ {0} /\ MaxRequests \in Nat /\ MaxSids \in Nat

VARIABLES
  session,   \* the store: session:<sid>
  expires,   \* the store: expires:<sid>, 0 if there is none
  cookie,    \* the session id each client's browser holds
  q,         \* the request each slot serves
  clock,     \* time()
  nextSid,   \* session ids given out so far, plus one
  nextReq,   \* requests made so far, plus one
  left,      \* what each client's last request left in its session
  dead       \* ids of sessions deleted while no other request was using them

vars == <<session, expires, cookie, q, clock, nextSid, nextReq, left, dead>>

NoSid == 0      \* undef: no session id, and the key "session:" in the store
Unset == -1     \* no cookie in the response
Sids  == 0..MaxSids
Times == 0..(MaxTime + TTL)
NoAddress == "no address"

\* A request stores at most one item, and one flash value, of its own.
Items == Clients \X (1..MaxRequests)

Data == [items   : SUBSET Items,                       \* the application's keys
         flash   : SUBSET Items,                       \* __flash
         address : Addresses \cup {NoAddress},         \* __address
         updated : Times]                              \* __updated

\* undef is not a hash.
ASSUME NoneAssumption == None \notin Data /\ \A items \in SUBSET Items : items # None

View == [items : SUBSET Items, flash : SUBSET Items, until : Times]
Nothing == [items |-> {}, flash |-> {}, until |-> 0]

Steps == {"idle", "run", "loadExpires", "loadData", "deleteSession",
          "deleteExpires", "changeSession", "changeExpires", "changeStore",
          "saveSession", "saveFlash", "deliver"}

Request ==
  [pc       : Steps,
   client   : Clients \cup {None}, n : 0..MaxRequests,
   address  : Addresses \cup {None},
   sent     : Sids,                     \* the session id in its cookie
   calls    : 0..MaxCalls,              \* calls the application may still make
   then     : AllCalls,                 \* the last call it made
   sid      : Sids,                     \* _sessionid
   data     : Data \cup {None},         \* _session
   sig      : Data \cup {None},         \* _session_data_sig
   tried    : BOOLEAN,                  \* _tried_loading_session_data
   expires  : Times,                    \* _session_expires
   extended : Times,                    \* _extended_session_expires
   flash    : (SUBSET Items) \cup {None}, \* _flash
   alias    : BOOLEAN,                  \* _flash is the hash in _session
   hashes   : SUBSET Items,             \* _flash_key_hashes
   kept     : BOOLEAN,                  \* _flash_keep_keys: all of them
   gone     : BOOLEAN,                  \* _deleted_session_id
   old      : Sids,                     \* change_session_id: $oldsid
   out      : Sids \cup {Unset},        \* the cookie in the response
   expect   : View]                     \* what it should find in its session

Idle == [pc |-> "idle", client |-> None, n |-> 0, address |-> None, sent |-> NoSid,
         calls |-> 0, then |-> "session", sid |-> NoSid, data |-> None,
         sig |-> None, tried |-> FALSE, expires |-> 0, extended |-> 0,
         flash |-> None, alias |-> FALSE, hashes |-> {}, kept |-> FALSE,
         gone |-> FALSE, old |-> NoSid, out |-> Unset,
         expect |-> Nothing]

Init ==
  /\ session = [s \in Sids |-> None]
  /\ expires = [s \in Sids |-> 0]
  /\ cookie = [c \in Clients |-> NoSid]
  /\ q = [r \in Slots |-> Idle]
  /\ clock = 1 /\ nextSid = 1 /\ nextReq = 1
  /\ left = [c \in Clients |-> Nothing]
  /\ dead = {}

------------------------------------------------------------------------------
(* The request's own part of the plugin: no step of these reads the store *)

get_session_id_again(x) == x.sent

\* The cookie is no longer looked at once its session is deleted.
get_session_id(x) == IF x.gone THEN NoSid ELSE x.sent

sessionid(x) == IF x.sid # NoSid THEN x.sid ELSE get_session_id(x)

generate_session_id_repeats(k) == 1

\* The k-th new session id of this step: never one given out before.
generate_session_id(k) == nextSid + k

initial_expires == clock + TTL

create_session_id(x, k) ==
  [x EXCEPT !.sid = generate_session_id(k), !.out = generate_session_id(k),
            !.expires = initial_expires, !.extended = initial_expires]

create_session_id_if_needed(x) ==
  IF sessionid(x) = NoSid THEN create_session_id(x, 0) ELSE x

initialize_session_data(x) ==
  [x EXCEPT !.data =
     [items |-> {}, flash |-> {}, updated |-> clock,
      address |-> IF VerifyAddress THEN x.address ELSE NoAddress]]

\* session, once _load_session has returned.
Loaded(x) ==
  IF x.data # None THEN x
  ELSE initialize_session_data(create_session_id_if_needed(x))

extend_session_expires_adds(x) ==
  [x EXCEPT !.extended = x.expires + TTL,
            !.out = IF x.sent # NoSid THEN sessionid(x) ELSE @]

\* A client that sent no cookie gets none from extend_session_id.
extend_session_expires(x) ==
  [x EXCEPT !.extended = initial_expires,
            !.out = IF x.sent # NoSid THEN sessionid(x) ELSE @]

clear_session_instance_data(x) ==
  [x EXCEPT !.sid = NoSid, !.data = None, !.sig = None, !.tried = FALSE,
            !.expires = 0, !.extended = 0, !.flash = None, !.alias = FALSE,
            !.hashes = {}, !.kept = FALSE]

\* The flash is the hash inside the session, if there is one.
load_flash(x) ==
  [x EXCEPT !.flash = x.data.flash, !.hashes = x.data.flash,
            !.alias = x.data.flash # {}]

\* __flash as _save_session finds it: changed in place if it is an alias.
Current(x) == IF x.alias THEN [x.data EXCEPT !.flash = x.flash] ELSE x.data

Own(x) == <<x.client, x.n>>

\* $c->session->{item} = ... and $c->flash->{item} = ...
put(x) == [x EXCEPT !.data.items = @ \cup {Own(x)}]
put_flash(x) == [x EXCEPT !.flash = @ \cup {Own(x)}]

\* delete $c->session->{__address}, for a user whose address may change
unbind(x) == [x EXCEPT !.data.address = NoAddress]

\* The call that needed the session goes on.
Resume(x) ==
  CASE x.then = "session" -> [Loaded(x) EXCEPT !.pc = "run"]
    [] x.then = "put" -> [put(Loaded(x)) EXCEPT !.pc = "run"]
    [] x.then = "unbind" -> [unbind(Loaded(x)) EXCEPT !.pc = "run"]
    [] x.then = "flash" -> [load_flash(Loaded(x)) EXCEPT !.pc = "run"]
    [] x.then = "putFlash" -> [put_flash(load_flash(Loaded(x))) EXCEPT !.pc = "run"]
    [] x.then \in {"valid", "delete"} -> [x EXCEPT !.pc = "run"]
    [] x.then = "expires" -> [extend_session_expires(x) EXCEPT !.pc = "run"]
    [] x.then = "change" ->
         LET y == Loaded(x)
             k == IF y.sid = nextSid THEN 1 ELSE 0
         IN  [create_session_id(y, k) EXCEPT !.pc = "changeSession",
                                             !.old = sessionid(y)]

\* _load_session up to its first access to the store.
load_session(x) ==
  IF x.data # None \/ x.tried \/ sessionid(x) = NoSid
  THEN Resume([x EXCEPT !.tried = TRUE])
  ELSE [x EXCEPT !.tried = TRUE, !.sid = sessionid(x),
                 !.pc = IF x.expires > 0 THEN "loadData" ELSE "loadExpires"]

------------------------------------------------------------------------------
(* Steps of a request *)

\* Request r becomes x; x may have used up session ids.
Becomes(r, x) ==
  /\ q' = [q EXCEPT ![r] = x]
  /\ nextSid' = IF x.sid >= nextSid THEN x.sid + 1 ELSE nextSid
  /\ nextSid' <= MaxSids + 1

Active(r) == q[r].pc # "idle"

Stored == <<session, expires>>
Ghosts == <<left, dead>>

Start ==
  \E r \in Slots, c \in Clients, a \in Addresses :
    /\ ~Active(r)
    /\ nextReq <= MaxRequests
    /\ OneAtATime => \A s \in Slots : Active(s) => q[s].client # c
    /\ q' = [q EXCEPT ![r] = [Idle EXCEPT
         !.pc = "run", !.client = c, !.n = nextReq, !.address = a,
         !.sent = cookie[c], !.calls = MaxCalls, !.expect = left[c]]]
    /\ nextReq' = nextReq + 1
    /\ UNCHANGED <<Stored, cookie, clock, nextSid, Ghosts>>

\* The application calls method m of the plugin.
Call(r, m, x) ==
  /\ q[r].pc = "run"
  /\ m \in Calls
  /\ q[r].calls > 0
  /\ Becomes(r, [x EXCEPT !.calls = @ - 1, !.then = m])
  /\ UNCHANGED <<Stored, cookie, clock, nextReq, Ghosts>>

\* $c->session, alone, to store an item or to let the address change,
\* $c->session_is_valid and $c->change_session_id
CallSession ==
  \E r \in Slots, m \in {"session", "put", "unbind", "valid", "change"} :
    Call(r, m, load_session([q[r] EXCEPT !.then = m]))

\* $c->flash, alone or to store a value: it begins without the session.
CallFlash ==
  \E r \in Slots, m \in {"flash", "putFlash"} :
    LET x == [q[r] EXCEPT !.then = m]
        Done(y) == IF m = "putFlash" THEN put_flash(y) ELSE y
    IN  Call(r, m,
             IF x.flash # None THEN Done(x)
             ELSE IF sessionid(x) = NoSid
             THEN Done([create_session_id(x, 0) EXCEPT !.flash = {}])
             ELSE load_session(x))

CallKeepFlash == \E r \in Slots : Call(r, "keepFlash", [q[r] EXCEPT !.kept = TRUE])

CallClearFlash ==
  \E r \in Slots :
    Call(r, "clearFlash", [q[r] EXCEPT !.flash = {}, !.alias = FALSE,
                                       !.hashes = {}, !.kept = FALSE,
                                       !.expect.flash = {}])

CallExpires ==
  \E r \in Slots :
    LET x == [q[r] EXCEPT !.then = "expires"]
    IN  Call(r, "expires",
             IF x.extended > 0 THEN x
             ELSE IF x.expires > 0 THEN Resume(x)
             ELSE IF sessionid(x) = NoSid THEN x
             ELSE [x EXCEPT !.sid = sessionid(x), !.pc = "loadExpires"])

CallDelete ==
  \E r \in Slots :
    LET x == q[r]
    IN  Call(r, "delete",
             IF sessionid(x) = NoSid THEN clear_session_instance_data(x)
             ELSE [x EXCEPT !.sid = sessionid(x), !.pc = "deleteSession"])

\* A step inside a call: it may access the store once.
Step(r, pc, x) ==
  /\ q[r].pc = pc
  /\ Becomes(r, x)
  /\ UNCHANGED <<cookie, clock, nextReq>>

StillValid_always(e) == TRUE

StillValid(e) == e >= clock

\* _load_session_expires
LoadExpires ==
  \E r \in Slots :
    LET e == expires[q[r].sid]
        x == [q[r] EXCEPT !.expect = IF @.until < clock THEN Nothing ELSE @]
    IN  /\ Step(r, "loadExpires",
                IF ~StillValid(e) THEN [x EXCEPT !.pc = "deleteSession"]
                ELSE IF x.then = "expires" THEN Resume([x EXCEPT !.expires = e])
                ELSE [x EXCEPT !.expires = e, !.pc = "loadData"])
        /\ UNCHANGED <<Stored, Ghosts>>

address_mismatch_unless_set(d, x) ==
  VerifyAddress /\ x.address # d.address /\ d.items = {}

address_mismatch(d, x) == VerifyAddress /\ x.address # d.address

\* _load_session
LoadData ==
  \E r \in Slots :
    LET d == session[q[r].sid]
    IN  /\ Step(r, "loadData",
                IF d = None THEN Resume(q[r])
                ELSE IF address_mismatch(d, q[r])
                THEN [q[r] EXCEPT !.data = d, !.pc = "deleteSession",
                        !.expect = IF d.address = NoAddress THEN @ ELSE Nothing]
                ELSE Resume([q[r] EXCEPT !.data = d, !.sig = d]))
        /\ UNCHANGED <<Stored, Ghosts>>

\* Whether another request is working with session id s.
InUse(s, r) == \E p \in Slots \ {r} : Active(p) /\ s \in {sessionid(q[p]), q[p].sent, q[p].old}

Retire(r, s) ==
  /\ dead' = IF InUse(s, r) THEN dead ELSE dead \cup {s}
  /\ UNCHANGED left

\* delete_session
DeleteSession ==
  \E r \in Slots :
    /\ Step(r, "deleteSession", [q[r] EXCEPT !.pc = "deleteExpires"])
    /\ session' = [session EXCEPT ![q[r].sid] = None]
    /\ UNCHANGED <<expires, Ghosts>>

DeleteExpires ==
  \E r \in Slots :
    /\ Step(r, "deleteExpires",
            Resume([clear_session_instance_data(q[r]) EXCEPT
                      !.gone = TRUE, !.out = NoSid,
                      !.expect = IF q[r].then = "delete" THEN Nothing ELSE @]))
    /\ expires' = [expires EXCEPT ![q[r].sid] = 0]
    /\ Retire(r, q[r].sid)
    /\ UNCHANGED session

\* change_session_id, after the new id was made
ChangeSession ==
  \E r \in Slots :
    /\ Step(r, "changeSession", [q[r] EXCEPT !.pc = "changeExpires"])
    /\ session' = [session EXCEPT ![q[r].old] = None]
    /\ UNCHANGED <<expires, Ghosts>>

ChangeExpires ==
  \E r \in Slots :
    /\ Step(r, "changeExpires", [q[r] EXCEPT !.pc = "changeStore"])
    /\ expires' = [expires EXCEPT ![q[r].old] = 0]
    /\ Retire(r, q[r].old)
    /\ UNCHANGED session

ChangeStore ==
  \E r \in Slots :
    /\ Step(r, "changeStore", [q[r] EXCEPT !.pc = "run", !.old = NoSid])
    /\ session' = [session EXCEPT ![q[r].sid] = Current(q[r])]
    /\ UNCHANGED <<expires, Ghosts>>

\* session_expires, called to force an extension
save_session_expires(x) == IF x.extended > 0 THEN x ELSE extend_session_expires(x)

\* The action is over: finalize_headers.
FinalizeHeaders ==
  \E r \in Slots :
    LET x == save_session_expires(q[r])
    IN  /\ q[r].pc = "run"
        /\ IF q[r].expires > 0
           THEN /\ Becomes(r, [x EXCEPT !.pc = "saveSession"])
                /\ expires' = [expires EXCEPT ![sessionid(x)] = x.extended]
           ELSE /\ Becomes(r, [q[r] EXCEPT !.pc = "saveSession"])
                /\ UNCHANGED expires
        /\ UNCHANGED <<session, cookie, clock, nextReq, Ghosts>>

\* _save_session
Save(r, x, pc) ==
  LET new == [x.data EXCEPT !.updated = clock]
  IN  IF x.data = None \/ x.data = x.sig
      THEN Becomes(r, [x EXCEPT !.pc = pc]) /\ UNCHANGED session
      ELSE /\ Becomes(r, [x EXCEPT !.pc = pc, !.data = new])
           /\ session' = [session EXCEPT ![sessionid(x)] = new]

\* finalize_body: finalize_session
SaveSession ==
  \E r \in Slots :
    /\ q[r].pc = "saveSession"
    /\ Save(r, IF q[r].data = None THEN q[r] ELSE [q[r] EXCEPT !.data = Current(q[r])],
            "saveFlash")
    /\ UNCHANGED <<expires, cookie, clock, nextReq, Ghosts>>

Stale_none(x) == {}

\* Flash values that have not changed since they were loaded, unless kept.
Stale(x) == IF x.kept THEN {} ELSE x.hashes

\* A hash that springs into being when __flash is set in, or deleted from, undef.
Sprung == [items |-> {}, flash |-> {}, address |-> NoAddress, updated |-> 0]

\* _save_flash
SaveFlash ==
  \E r \in Slots :
    LET x == q[r]
        fl == x.flash \ Stale(x)
        data == [(IF x.data = None THEN Sprung ELSE x.data) EXCEPT !.flash = fl]
    IN  /\ x.pc = "saveFlash"
        /\ IF x.flash = None
           THEN Becomes(r, [x EXCEPT !.pc = "deliver"]) /\ UNCHANGED session
           ELSE Save(r, [x EXCEPT !.data = data, !.flash = fl, !.alias = TRUE], "deliver")
        /\ UNCHANGED <<expires, cookie, clock, nextReq, Ghosts>>

\* What a client that was answered may expect to find in its session next time:
\* what was in it and what this request put there; of the flash, what it kept.
Leaves(x) ==
  [items |-> x.expect.items \cup
               (IF x.data = None THEN {} ELSE x.data.items \cap {Own(x)}),
   flash |-> IF x.flash = None THEN x.expect.flash
             ELSE (IF x.kept THEN x.expect.flash ELSE {}) \cup (x.flash \cap {Own(x)}),
   until |-> IF x.expires > 0 THEN x.extended ELSE x.expect.until]

\* The body is sent after the session is stored; the browser takes the cookie.
Deliver ==
  \E r \in Slots :
    LET x == q[r]
    IN  /\ x.pc = "deliver"
        /\ q' = [q EXCEPT ![r] = Idle]
        /\ \/ /\ cookie' = [cookie EXCEPT ![x.client] = IF x.out = Unset THEN @ ELSE x.out]
              /\ left' = [left EXCEPT ![x.client] = Leaves(x)]
           \/ "lost" \in Faults /\ UNCHANGED <<cookie, left>>
        /\ UNCHANGED <<Stored, clock, nextSid, nextReq, dead>>

Crash ==
  \E r \in Slots :
    /\ "crash" \in Faults
    /\ Active(r)
    /\ q' = [q EXCEPT ![r] = Idle]
    /\ UNCHANGED <<Stored, cookie, clock, nextSid, nextReq, Ghosts>>

Tick ==
  /\ clock < MaxTime
  /\ clock' = clock + 1
  /\ UNCHANGED <<Stored, cookie, q, nextSid, nextReq, Ghosts>>

Next ==
  \/ Start \/ CallSession \/ CallFlash \/ CallKeepFlash
  \/ CallClearFlash \/ CallExpires \/ CallDelete
  \/ LoadExpires \/ LoadData \/ DeleteSession \/ DeleteExpires
  \/ ChangeSession \/ ChangeExpires \/ ChangeStore
  \/ FinalizeHeaders \/ SaveSession \/ SaveFlash \/ Deliver \/ Crash \/ Tick

Spec == Init /\ [][Next]_vars

------------------------------------------------------------------------------
(* Properties *)

\* Type invariant, and no more session ids than were given out.
TypeOK ==
  /\ session \in [Sids -> Data \cup {None}]
  /\ expires \in [Sids -> Times]
  /\ cookie \in [Clients -> Sids]
  /\ q \in [Slots -> Request]
  /\ clock \in 1..MaxTime
  /\ nextSid \in 1..(MaxSids + 1) /\ nextReq \in 1..(MaxRequests + 1)
  /\ left \in [Clients -> View]
  /\ dead \subseteq 1..(nextSid - 1)

\* The request of a client that makes one at a time finds in its session what
\* the requests before it left there, and nothing once the session is deleted
\* or TTL has passed since it was last used.
SessionSeen ==
  \A r \in Slots :
    q[r].pc = "run" /\ q[r].data # None =>
      q[r].data.items \ {Own(q[r])} = q[r].expect.items

\* Such a client finds each flash value in the next request that looks at the
\* flash, and not again unless it is kept.
FlashSeen ==
  \A r \in Slots :
    q[r].pc = "run" /\ q[r].flash # None =>
      q[r].flash \ {Own(q[r])} = q[r].expect.flash

\* However requests overlap, fail and lose their answers, no client sees what
\* another one put in its session.
NoCrossTalk ==
  \A r \in Slots :
    /\ q[r].data # None =>
         \A i \in q[r].data.items \cup q[r].data.flash : i[1] = q[r].client
    /\ q[r].flash # None => \A i \in q[r].flash : i[1] = q[r].client

\* A session that is deleted, or whose id is changed, while no other request
\* is using it never comes back: not even for a cookie the browser kept.
DeletedStaysDeleted ==
  \A s \in dead :
    /\ expires[s] = 0
    /\ \A r \in Slots : q[r].pc = "run" /\ q[r].data # None => sessionid(q[r]) # s

\* With verify_address no request, however it overlaps with others, works with the
\* session of another address: what it has is of its own address, or of none, which
\* an application makes it that lets the address change.
AddressKept ==
  VerifyAddress =>
    \A r \in Slots :
      q[r].pc = "run" /\ q[r].data # None =>
        q[r].data.address \in {q[r].address, NoAddress}
==============================================================================
