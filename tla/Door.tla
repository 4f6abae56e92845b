-------------------------------- MODULE Door --------------------------------
(***************************************************************************)
(* The forms that anybody can post: sign-in with a password or a token,    *)
(* and registration (register_submit and login_submit of app/api/auth.py), *)
(* behind the two throttles of app/auth/throttle.py.  What a sign-in that  *)
(* succeeds leads to is in Sessions.                                       *)
(*                                                                         *)
(* From the first check to the answer a handler awaits nothing.  Time is   *)
(* in fractions of a second, since the wait that is told is rounded.       *)
(***************************************************************************)
EXTENDS Integers, Sequences, FiniteSets

CONSTANTS
  Emails,         \* addresses that are typed, lowered and stripped
  Sources,        \* client_key: the first hop of a header, whatever it says, which may be "" or
                  \* spelled like an address; or the socket's address
  Second,         \* ticks in a second
  LoginLimit,     \* LOGIN_THROTTLE.limit
  RegisterLimit,  \* REGISTER_THROTTLE.limit
  DoorWindow,     \* the window of both, in ticks
  MaxDoorTime,    \* bound: ticks
  MaxPosts        \* bound: attempts, and starts of the process

ASSUME DoorAssumption ==
  /\ {Second, LoginLimit, RegisterLimit, DoorWindow} \subseteq Nat \ {0}
  /\ {MaxDoorTime, MaxPosts} \subseteq Nat
  /\ "" \notin Emails

VARIABLES
  doorTime,     \* time.monotonic
  loginHits,    \* LOGIN_THROTTLE._hits: of each address and source, times in their order
  registerHits, \* REGISTER_THROTTLE._hits, of each source that has a name
  registered,   \* the addresses that have a password
  posts,        \* attempts so far
  failures,     \* history: when a password or a token was tried in vain for each address and
                \* from each source, in a window, since a success that named it
  hashings,     \* history: when passwords were hashed for each source, in a window
  promised      \* history: a wait that was told, of which key and until when; or NoPromise

dvars == <<doorTime, loginHits, registerHits, registered, posts, failures, hashings, promised>>

SourceKeys == Sources \ {""}
Keys == Emails \cup SourceKeys
NoPromise == [key |-> "", until |-> 0]

DoorInit ==
  /\ doorTime = 0 /\ posts = 0
  /\ loginHits = [k \in Keys |-> <<>>] /\ registerHits = [s \in SourceKeys |-> <<>>]
  /\ registered = {}
  /\ failures = [k \in Keys |-> <<>>] /\ hashings = [s \in SourceKeys |-> <<>>]
  /\ promised = NoPromise

-----------------------------------------------------------------------------
(* AttemptThrottle.                                                        *)

\* _prune, which check and record begin with: the first are dropped, while they are too old.
Pruned(hits) ==
  LET stale == CHOOSE n \in 0..Len(hits) :
                 /\ \A i \in 1..n : hits[i] <= doorTime - DoorWindow
                 /\ n < Len(hits) => hits[n + 1] > doorTime - DoorWindow
  IN SubSeq(hits, stale + 1, Len(hits))

Full(hits, limit) == Len(Pruned(hits)) >= limit

\* Those of the keys that are over the limit: check and record skip the empty one.
Over(table, limit, keys) == {k \in keys \cap DOMAIN table : Full(table[k], limit)}

\* Mutant of Wait: what has passed is told, not what is left.
WaitElapsed(hits) == (doorTime - Head(Pruned(hits))) \div Second

\* The wait that is told, in seconds: max(1, int(window_s - (now - hits[0]))).
Wait(hits) ==
  LET left == (DoorWindow - (doorTime - Head(Pruned(hits)))) \div Second
  IN IF left > 1 THEN left ELSE 1

\* record, for each of the keys.
Recorded(table, keys) ==
  [k \in DOMAIN table |-> IF k \in keys THEN Append(Pruned(table[k]), doorTime) ELSE table[k]]

\* reset.
Cleared(table, keys) == [k \in DOMAIN table |-> IF k \in keys THEN <<>> ELSE table[k]]

\* The promise stands until somebody gets as far as being counted for that key.
PromiseKept(keys) == promised' = IF promised.key \in keys THEN NoPromise ELSE promised

\* The first key that is over its limit refuses, and tells how long it will.
Refused(key) ==
  /\ promised' = [key |-> key, until |-> doorTime + (Wait(loginHits[key]) + 1) * Second]
  /\ UNCHANGED <<loginHits, registerHits, registered, failures, hashings>>

Posted == posts < MaxPosts /\ posts' = posts + 1 /\ UNCHANGED doorTime

-----------------------------------------------------------------------------
(* The handlers.                                                           *)

\* Mutant of LoginKeys: only the source is counted.
LoginKeysOfSource(email, source) == {source}

LoginKeys(email, source) == {email, source}

\* login_submit with a password, which is the right one or not.
Login(email, source, right) ==
  LET keys == LoginKeys(email, source)
      over == Over(loginHits, LoginLimit, keys)
  IN /\ Posted /\ (right => email \in registered)
     /\ \/ /\ over # {}
           /\ Refused(IF email \in over THEN email ELSE source)
        \/ /\ over = {} /\ ~right
           /\ loginHits' = Recorded(loginHits, keys)
           /\ failures' = Recorded(failures, {email, source})
           /\ PromiseKept(keys)
           /\ UNCHANGED <<registerHits, registered, hashings>>
        \/ /\ over = {} /\ right
           /\ loginHits' = Cleared(loginHits, keys)
           /\ failures' = Cleared(failures, {email, source})
           /\ PromiseKept(keys)
           /\ UNCHANGED <<registerHits, registered, hashings>>

\* login_submit with a token, which resolves or not; or with a password and no address.
LoginWithToken(source, resolves) ==
  LET over == Over(loginHits, LoginLimit, {source})
  IN /\ Posted
     /\ \/ over # {} /\ Refused(source)
        \/ /\ over = {} /\ ~resolves
           /\ loginHits' = Recorded(loginHits, {source})
           /\ failures' = Recorded(failures, {source})
           /\ PromiseKept({source})
           /\ UNCHANGED <<registerHits, registered, hashings>>
        \/ /\ over = {} /\ resolves
           /\ loginHits' = Cleared(loginHits, {source})
           /\ failures' = Cleared(failures, {source})
           /\ PromiseKept({source})
           /\ UNCHANGED <<registerHits, registered, hashings>>

\* register_submit of something that is not an address is counted; of another domain's, with
\* passwords that differ or are too short or too long, or for an address that has one, is not.
RegisterInvalid(source) ==
  /\ Posted /\ Over(registerHits, RegisterLimit, {source}) = {}
  /\ registerHits' = Recorded(registerHits, {source})
  /\ UNCHANGED <<loginHits, registered, failures, hashings, promised>>

\* register_submit: the password is hashed and the account made, or completed.
Register(email, source) ==
  /\ Posted /\ Over(registerHits, RegisterLimit, {source}) = {} /\ email \notin registered
  /\ registerHits' = Recorded(registerHits, {source})
  /\ registered' = registered \cup {email}
  /\ hashings' = Recorded(hashings, {source})
  /\ UNCHANGED <<loginHits, failures, promised>>

\* The process starts again: the throttles are in its memory.
DoorRestarts ==
  /\ Posted
  /\ loginHits' = [k \in Keys |-> <<>>] /\ registerHits' = [s \in SourceKeys |-> <<>>]
  /\ failures' = [k \in Keys |-> <<>>] /\ hashings' = [s \in SourceKeys |-> <<>>]
  /\ promised' = NoPromise
  /\ UNCHANGED registered

DoorTimePasses ==
  /\ doorTime < MaxDoorTime /\ doorTime' = doorTime + 1
  /\ UNCHANGED <<loginHits, registerHits, registered, posts, failures, hashings, promised>>

DoorNext ==
  \/ \E e \in Emails, s \in Sources, right \in BOOLEAN : Login(e, s, right)
  \/ \E s \in Sources, resolves \in BOOLEAN : LoginWithToken(s, resolves)
  \/ \E s \in Sources : RegisterInvalid(s)
  \/ \E e \in Emails, s \in Sources : Register(e, s)
  \/ DoorRestarts \/ DoorTimePasses

DoorSpec == DoorInit /\ [][DoorNext]_dvars

-----------------------------------------------------------------------------
\* In no window are more than `limit` passwords or tokens tried in vain for one address, from
\* however many sources, or from one source that has a name, for however many addresses; nor
\* more passwords than the other limit hashed for it.  Refusals change nothing of it.  What
\* begins anew is a start and, for an address or a source, a success that names it: as the one
\* or the other, since a source may be spelled like an address (throttle.py:78-102, 105-124,
\* auth.py:302-307, 377-407).
AttemptsAreBounded ==
  /\ \A k \in Keys : Len(Pruned(failures[k])) <= LoginLimit
  /\ \A s \in SourceKeys : Len(Pruned(hashings[s])) <= RegisterLimit

\* Who is told to come back in n seconds is not refused for that reason n + 1 seconds later:
\* the wait is rounded down, by less than a second (throttle.py:76).
WaitsAreEnough ==
  promised # NoPromise /\ doorTime >= promised.until => ~Full(loginHits[promised.key], LoginLimit)

\* The throttle refuses enough and no more: what it lets through in a window is bounded for
\* every address and source, and the wait it tells is enough (throttle.py:43-93).
ThrottleHolds == AttemptsAreBounded /\ WaitsAreEnough
=============================================================================
