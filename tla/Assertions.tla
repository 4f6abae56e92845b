---------------------------- MODULE Assertions -----------------------------
(***************************************************************************)
(* Identity by the proxy's assertion (app/auth/pomerium.py, and the end of *)
(* current_principal in app/auth/deps.py): a signature checked against a   *)
(* key set that is fetched, kept for a time, and fetched once more when    *)
(* the signature does not fit.  A fetch is an await, so requests overtake  *)
(* one another in it.                                                      *)
(*                                                                         *)
(* The proxy signs with one key at a time, its generation.  Generation 0   *)
(* stands for every other assertion: forged, expired, of another audience. *)
(***************************************************************************)
EXTENDS Integers, FiniteSets

CONSTANTS
  Requests,         \* requests that carry an assertion
  Ttl,              \* cache_ttl_s
  FetchTime,        \* the longest that an answered fetch takes (its timeout)
  MaxAssertionTime, \* bound: ticks
  MaxGeneration     \* bound: keys

ASSUME AssertionsAssumption ==
  /\ Ttl \in Nat \ {0} /\ {FetchTime, MaxAssertionTime} \subseteq Nat
  /\ MaxGeneration \in Nat \ {0}

VARIABLES
  assertionTime, \* time.monotonic
  signing,       \* the generation the proxy signs with, and publishes
  retired,       \* history: when each generation was replaced
  keySet,        \* _jwks: the generation in the key set that is kept; 0 if none
  fetchedAt,     \* _fetched_at
  request,       \* the requests in verify: [pc, token, forced, sent, reply]
  failed,        \* history: the requests of which a fetch failed
  overtaken      \* history: the requests during which the proxy rotated

svars == <<assertionTime, signing, retired, keySet, fetchedAt, request, failed, overtaken>>

NotYet == -1
NoRequest == [pc |-> "idle", token |-> 0, forced |-> FALSE, sent |-> 0, reply |-> 0]

AssertionsInit ==
  /\ assertionTime = 0 /\ signing = 1
  /\ retired = [g \in 1..MaxGeneration |-> NotYet]
  /\ keySet = 0 /\ fetchedAt = 0
  /\ request = [r \in Requests |-> NoRequest]
  /\ failed = {} /\ overtaken = {}

-----------------------------------------------------------------------------
(* _decode, from a key set in hand to the next await.                      *)

Fresh == keySet # 0 /\ assertionTime - fetchedAt < Ttl

Fetching(req, forced) ==
  [req EXCEPT !.pc = "fetching", !.forced = forced, !.sent = assertionTime, !.reply = 0]

\* Mutant of Decoded: a bad signature is final.
DecodedOnce(req, keys) ==
  [req EXCEPT !.pc = IF req.token = keys THEN "accepted" ELSE "refused"]

\* A bad signature looks like a rotated key, once: then the key set is fetched again.
Decoded(req, keys) ==
  IF req.token = keys THEN [req EXCEPT !.pc = "accepted"]
  ELSE IF ~req.forced THEN Fetching(req, TRUE)
  ELSE [req EXCEPT !.pc = "refused"]

\* verify: an assertion of the key that signs, of one that did, or of none.
Verify(r, token) ==
  LET req == [NoRequest EXCEPT !.token = token]
  IN /\ request[r].pc = "idle"
     /\ request' = [request EXCEPT
         ![r] = IF Fresh THEN Decoded(req, keySet) ELSE Fetching(req, FALSE)]
     /\ failed' = failed \ {r} /\ overtaken' = overtaken \ {r}
     /\ UNCHANGED <<assertionTime, signing, retired, keySet, fetchedAt>>

\* The proxy reads its key set for the reply.
Published(r) ==
  /\ request[r].pc = "fetching" /\ request[r].reply = 0
  /\ request' = [request EXCEPT ![r].reply = signing]
  /\ UNCHANGED <<assertionTime, signing, retired, keySet, fetchedAt, failed, overtaken>>

\* The reply arrives, whatever was fetched meanwhile.
Fetched(r) ==
  /\ request[r].pc = "fetching" /\ request[r].reply # 0
  /\ keySet' = request[r].reply /\ fetchedAt' = assertionTime
  /\ request' = [request EXCEPT ![r] = Decoded(@, request[r].reply)]
  /\ UNCHANGED <<assertionTime, signing, retired, failed, overtaken>>

\* The fetch fails: the key set that is kept serves, however old; without one it is a 401.
FetchFails(r) ==
  /\ request[r].pc = "fetching"
  /\ request' = [request EXCEPT
       ![r] = IF keySet = 0 THEN [@ EXCEPT !.pc = "refused"] ELSE Decoded(@, keySet)]
  /\ failed' = failed \cup {r}
  /\ UNCHANGED <<assertionTime, signing, retired, keySet, fetchedAt, overtaken>>

\* current_principal goes on with who was accepted, or answers 401.
Answered(r) ==
  /\ request[r].pc \in {"accepted", "refused"}
  /\ request' = [request EXCEPT ![r] = NoRequest]
  /\ UNCHANGED <<assertionTime, signing, retired, keySet, fetchedAt, failed, overtaken>>

-----------------------------------------------------------------------------
(* The proxy, and time.                                                    *)

Rotate ==
  /\ signing < MaxGeneration /\ signing' = signing + 1
  /\ retired' = [retired EXCEPT ![signing] = assertionTime]
  /\ overtaken' = Requests
  /\ UNCHANGED <<assertionTime, keySet, fetchedAt, request, failed>>

\* A fetch that is not answered in time fails, and a decision takes no time.
AssertionTimePasses ==
  /\ assertionTime < MaxAssertionTime
  /\ \A r \in Requests :
       /\ request[r].pc \in {"idle", "fetching"}
       /\ request[r].pc = "fetching" => assertionTime - request[r].sent < FetchTime
  /\ assertionTime' = assertionTime + 1
  /\ UNCHANGED <<signing, retired, keySet, fetchedAt, request, failed, overtaken>>

AssertionsNext ==
  \/ \E r \in Requests : Published(r) \/ Fetched(r) \/ FetchFails(r) \/ Answered(r)
  \/ \E r \in Requests, token \in 0..signing : Verify(r, token)
  \/ Rotate \/ AssertionTimePasses

AssertionsSpec == AssertionsInit /\ [][AssertionsNext]_svars

-----------------------------------------------------------------------------
\* A key is accepted only while the proxy signs with it, or for the time that a key set is
\* kept and may have travelled, or after its own fetch failed: replies that overtake one
\* another put an older key set back, but no older than that (pomerium.py:56-78).
AcceptedKeyIsCurrent ==
  \A r \in Requests : request[r].pc = "accepted" =>
    LET g == request[r].token
    IN \/ r \in failed
       \/ retired[g] = NotYet
       \/ assertionTime - retired[g] <= Ttl + FetchTime

\* "A rotated signing key looks exactly like a bad signature": whoever comes with the key that
\* signs is not refused because the key set that is kept is older, unless the fetch for it fails
\* or the proxy rotates once more (pomerium.py:101-121).
RotationIsHealed ==
  \A r \in Requests :
    request[r].pc = "refused" /\ request[r].token = signing => r \in failed \cup overtaken

\* Keys follow the proxy's rotation: in time, and without a refusal on the way.
KeysFollowTheProxy == AcceptedKeyIsCurrent /\ RotationIsHealed
=============================================================================
