-------------------------- MODULE ServicesProofs ---------------------------
(***************************************************************************)
(* Proofs about the small components of the service: Assertions, Journal,  *)
(* CaseFiles, Runbooks, Door, Backups and Migrations, for any requests,    *)
(* records, cases, titles, attempts, runs, statements and bounds.  Each    *)
(* component has its own inductive invariant, since they share no state.   *)
(***************************************************************************)
EXTENDS Assertions, Journal, CaseFiles, Runbooks, Door, Backups, Migrations,
  FiniteSetTheorems, SequenceTheorems, WellFoundedInduction, TLAPS

-----------------------------------------------------------------------------
(* Assertions.                                                             *)

Generations == 0..MaxGeneration

RequestType ==
  [pc : {"idle", "fetching", "accepted", "refused"}, token : Generations, forced : BOOLEAN,
   sent : Nat, reply : Generations]

\* Generation g was published at time t or later.
PublishedSince(g, t) == retired[g] = NotYet \/ retired[g] >= t

\* Of a request: a reply that is under way has the key of a moment since it was asked for, the
\* present one if the proxy did not rotate; and what was decided was decided on such a key, or
\* on one that was kept for less than its time.
RequestOK(r) ==
  LET req == request[r] IN
  /\ req.token <= signing /\ req.reply <= signing
  /\ req.pc = "fetching" =>
       /\ req.sent <= assertionTime /\ assertionTime - req.sent <= FetchTime
       /\ req.reply # 0 => /\ PublishedSince(req.reply, req.sent)
                           /\ r \notin overtaken => req.reply = signing
  /\ req.pc = "accepted" =>
       /\ req.token # 0
       /\ r \in failed \/ PublishedSince(req.token, assertionTime - (Ttl + FetchTime))
  /\ req.pc = "refused" /\ req.token = signing => r \in failed \cup overtaken

\* Only a generation that is over was retired, and the key set that is kept is not older than
\* its fetch could make it.
AssertionsInv ==
  /\ assertionTime \in Nat /\ signing \in 1..MaxGeneration
  /\ retired \in [1..MaxGeneration -> Nat \cup {NotYet}]
  /\ keySet \in 0..signing /\ fetchedAt \in Nat /\ fetchedAt <= assertionTime
  /\ request \in [Requests -> RequestType]
  /\ failed \subseteq Requests /\ overtaken \subseteq Requests
  /\ \A g \in 1..MaxGeneration : g >= signing => retired[g] = NotYet
  /\ \A g \in 1..MaxGeneration : retired[g] <= assertionTime
  /\ keySet # 0 => PublishedSince(keySet, fetchedAt - FetchTime)
  /\ \A r \in Requests : RequestOK(r)

\* The order of the numbers, for what the provers need of them.
LEMMA GenerationsAre ==
  /\ MaxGeneration \in Nat \ {0} /\ Ttl \in Nat \ {0} /\ FetchTime \in Nat
  /\ 0 \in Generations /\ \A g \in 1..MaxGeneration : g \in Generations /\ g # 0
BY AssertionsAssumption DEF Generations

\* It holds before the first request.
LEMMA AssertionsInitial == AssertionsInit => AssertionsInv
<1> SUFFICES ASSUME AssertionsInit
             PROVE  AssertionsInv
  OBVIOUS
<1>1. NoRequest \in RequestType
  BY GenerationsAre DEF NoRequest, RequestType
<1>2. \A r \in Requests : RequestOK(r)
  BY DEF AssertionsInit, RequestOK, NoRequest
<1>3. retired \in [1..MaxGeneration -> Nat \cup {NotYet}] /\ \A g \in 1..MaxGeneration : retired[g] = NotYet
  BY DEF AssertionsInit
<1> QED
  BY <1>1, <1>2, <1>3, GenerationsAre DEF AssertionsInit, AssertionsInv, NotYet

\* What a decision on a key set says.
LEMMA DecodedIs ==
  ASSUME NEW req \in RequestType, NEW keys, assertionTime \in Nat
  PROVE  LET d == Decoded(req, keys) IN
         /\ d \in RequestType /\ d.token = req.token /\ d.reply \in {req.reply, 0}
         /\ \/ req.token = keys /\ d.pc = "accepted"
            \/ /\ req.token # keys /\ ~req.forced /\ d.pc = "fetching" /\ d.reply = 0
               /\ d.sent = assertionTime
            \/ req.token # keys /\ req.forced /\ d.pc = "refused"
<1>1. CASE req.token = keys
  BY <1>1 DEF Decoded, RequestType
<1>2. CASE req.token # keys /\ ~req.forced
  BY <1>2, GenerationsAre DEF Decoded, Fetching, RequestType
<1>3. CASE req.token # keys /\ req.forced
  BY <1>3 DEF Decoded, RequestType
<1> QED
  BY <1>1, <1>2, <1>3 DEF RequestType

\* A step of request r by itself.
LEMMA RequestStep ==
  ASSUME AssertionsInv, NEW r \in Requests, NEW req \in RequestType,
         request' = [request EXCEPT ![r] = req],
         UNCHANGED <<assertionTime, signing, retired>>,
         keySet' \in 0..signing, fetchedAt' \in Nat, fetchedAt' <= assertionTime,
         keySet' # 0 => PublishedSince(keySet', fetchedAt' - FetchTime),
         failed' \subseteq Requests, overtaken' \subseteq Requests,
         \A q \in Requests : q # r => /\ q \in failed => q \in failed'
                                      /\ q \in overtaken <=> q \in overtaken',
         RequestOK(r)'
  PROVE  AssertionsInv'
<1>1. request' \in [Requests -> RequestType] /\ \A q \in Requests : q # r => request'[q] = request[q]
  BY DEF AssertionsInv
<1>2. \A q \in Requests : RequestOK(q)'
  <2> TAKE q \in Requests
  <2>1. CASE q = r
    BY <2>1
  <2>2. CASE q # r
    <3>1. RequestOK(q) /\ request'[q] = request[q]
      BY <1>1, <2>2 DEF AssertionsInv
    <3> QED
      BY <2>2, <3>1 DEF RequestOK, PublishedSince
  <2> QED
    BY <2>1, <2>2
<1>3. keySet' # 0 => PublishedSince(keySet, fetchedAt - FetchTime)'
  BY DEF PublishedSince
<1> QED
  BY <1>1, <1>2, <1>3 DEF AssertionsInv

\* A request comes.
LEMMA VerifyStep ==
  ASSUME AssertionsInv, NEW r \in Requests, NEW token \in 0..signing, Verify(r, token)
  PROVE  AssertionsInv'
<1> DEFINE req == [NoRequest EXCEPT !.token = token]
           d == IF Fresh THEN Decoded(req, keySet) ELSE Fetching(req, FALSE)
<1>0. assertionTime \in Nat /\ signing \in 1..MaxGeneration /\ token \in Generations
      /\ fetchedAt \in Nat /\ fetchedAt <= assertionTime /\ keySet \in 0..signing
  BY GenerationsAre DEF AssertionsInv, Generations
<1>1. req \in RequestType /\ req.token = token /\ ~req.forced /\ req.reply = 0
  BY <1>0, GenerationsAre DEF NoRequest, RequestType
<1> HIDE DEF req
<1>2. /\ d \in RequestType /\ d.token = token /\ d.reply = 0
      /\ \/ Fresh /\ token = keySet /\ d.pc = "accepted"
         \/ d.pc = "fetching" /\ d.reply = 0 /\ d.sent = assertionTime
  <2>1. CASE Fresh
    BY <1>0, <1>1, <2>1, DecodedIs
  <2>2. CASE ~Fresh
    BY <1>0, <1>1, <2>2, GenerationsAre DEF Fetching, RequestType
  <2> QED
    BY <2>1, <2>2
<1>3. request' = [request EXCEPT ![r] = d] /\ failed' = failed \ {r} /\ overtaken' = overtaken \ {r}
      /\ UNCHANGED <<assertionTime, signing, retired, keySet, fetchedAt>>
  BY DEF Verify, req
<1> HIDE DEF d
<1>4. request'[r] = d
  BY <1>3 DEF AssertionsInv
<1>5. CASE Fresh /\ token = keySet /\ d.pc = "accepted"
  <2>1. keySet # 0 /\ assertionTime - fetchedAt < Ttl
    BY <1>5 DEF Fresh
  <2>2. PublishedSince(keySet, fetchedAt - FetchTime)
    BY <2>1 DEF AssertionsInv
  <2>3. PublishedSince(keySet, assertionTime - (Ttl + FetchTime))
    <3>1. keySet \in 1..MaxGeneration
      BY <1>0, <2>1, GenerationsAre
    <3>2. retired[keySet] \in Nat \cup {NotYet}
      BY <3>1 DEF AssertionsInv
    <3>3. assertionTime - (Ttl + FetchTime) <= fetchedAt - FetchTime
      BY <1>0, <2>1, GenerationsAre
    <3> DEFINE x == retired[keySet]
    <3>4. x = NotYet \/ (x \in Nat /\ x >= fetchedAt - FetchTime)
      BY <2>2, <3>2 DEF PublishedSince
    <3> HIDE DEF x
    <3>5. x = NotYet \/ x >= assertionTime - (Ttl + FetchTime)
      BY <1>0, <3>3, <3>4, GenerationsAre
    <3> QED
      BY <3>5 DEF x, PublishedSince
  <2>4. RequestOK(r)'
    BY <1>0, <1>2, <1>3, <1>4, <1>5, <2>1, <2>3 DEF RequestOK, PublishedSince
  <2> QED
    BY <1>0, <1>2, <1>3, <2>4, RequestStep DEF AssertionsInv
<1>6. CASE d.pc = "fetching" /\ d.reply = 0 /\ d.sent = assertionTime
  <2>1. RequestOK(r)'
    BY <1>0, <1>2, <1>3, <1>4, <1>6, GenerationsAre DEF RequestOK, PublishedSince
  <2> QED
    BY <1>0, <1>2, <1>3, <2>1, RequestStep DEF AssertionsInv
<1> QED
  BY <1>2, <1>5, <1>6

\* The proxy answers.
LEMMA PublishedStep == ASSUME AssertionsInv, NEW r \in Requests, Published(r) PROVE AssertionsInv'
<1> DEFINE old == request[r]
           req == [old EXCEPT !.reply = signing]
<1>0. assertionTime \in Nat /\ signing \in 1..MaxGeneration /\ signing \in Generations
      /\ old \in RequestType /\ RequestOK(r) /\ retired[signing] = NotYet
  BY GenerationsAre DEF AssertionsInv, Generations
<1>1. /\ req \in RequestType /\ req.pc = "fetching" /\ req.token = old.token
      /\ req.sent = old.sent /\ req.reply = signing
  BY <1>0 DEF RequestType, Published
<1>2. request' = [request EXCEPT ![r] = req]
      /\ UNCHANGED <<assertionTime, signing, retired, keySet, fetchedAt, failed, overtaken>>
  BY DEF Published
<1>4. old.token <= signing /\ old.sent <= assertionTime /\ assertionTime - old.sent <= FetchTime
  BY <1>0 DEF RequestOK, Published
<1> HIDE DEF old, req
<1>3. request'[r] = req
  BY <1>2 DEF AssertionsInv
<1>5. RequestOK(r)'
  BY <1>0, <1>1, <1>2, <1>3, <1>4 DEF RequestOK, PublishedSince
<1> QED
  BY <1>1, <1>2, <1>5, RequestStep DEF AssertionsInv

\* The reply arrives.
LEMMA FetchedStep == ASSUME AssertionsInv, NEW r \in Requests, Fetched(r) PROVE AssertionsInv'
<1> DEFINE old == request[r]
           key == old.reply
           d == Decoded(old, key)
<1>0. assertionTime \in Nat /\ signing \in 1..MaxGeneration /\ old \in RequestType /\ RequestOK(r)
  BY DEF AssertionsInv
<1>1. /\ d \in RequestType /\ d.token = old.token /\ d.reply \in {key, 0}
      /\ \/ old.token = key /\ d.pc = "accepted"
         \/ /\ old.token # key /\ ~old.forced /\ d.pc = "fetching" /\ d.reply = 0
            /\ d.sent = assertionTime
         \/ old.token # key /\ old.forced /\ d.pc = "refused"
  BY <1>0, DecodedIs
<1>2. request' = [request EXCEPT ![r] = d] /\ keySet' = key /\ fetchedAt' = assertionTime
      /\ UNCHANGED <<assertionTime, signing, retired, failed, overtaken>>
  BY DEF Fetched
<1>3. /\ old.token <= signing /\ old.sent <= assertionTime /\ assertionTime - old.sent <= FetchTime
      /\ PublishedSince(key, old.sent) /\ (r \notin overtaken => key = signing) /\ key # 0
      /\ key \in Generations /\ old.sent \in Nat /\ key <= signing
  BY <1>0 DEF RequestOK, Fetched, RequestType
<1> HIDE DEF old, key, d
<1>4. request'[r] = d
  BY <1>2 DEF AssertionsInv
<1>5. key \in 1..MaxGeneration /\ retired[key] \in Nat \cup {NotYet}
  BY <1>3 DEF AssertionsInv, Generations
<1>6. key \in 0..signing
  BY <1>0, <1>3 DEF Generations
<1>7. PublishedSince(key, assertionTime - FetchTime)
  <2> DEFINE x == retired[key]
             s == old.sent
  <2>1. (x = NotYet \/ (x \in Nat /\ x >= s)) /\ s \in Nat /\ assertionTime - s <= FetchTime
    BY <1>3, <1>5 DEF PublishedSince
  <2> HIDE DEF x, s
  <2>2. x = NotYet \/ x >= assertionTime - FetchTime
    BY <1>0, <2>1, GenerationsAre
  <2> QED
    BY <2>2 DEF x, PublishedSince
<1>8. PublishedSince(key, assertionTime - (Ttl + FetchTime))
  <2> DEFINE x == retired[key]
  <2>1. x = NotYet \/ (x \in Nat /\ x >= assertionTime - FetchTime)
    BY <1>5, <1>7 DEF PublishedSince
  <2> HIDE DEF x
  <2>2. x = NotYet \/ x >= assertionTime - (Ttl + FetchTime)
    BY <1>0, <2>1, GenerationsAre
  <2> QED
    BY <2>2 DEF x, PublishedSince
<1>9. RequestOK(r)'
  BY <1>0, <1>1, <1>2, <1>3, <1>4, <1>8, GenerationsAre DEF RequestOK, PublishedSince
<1>10. /\ keySet' \in 0..signing /\ fetchedAt' \in Nat /\ fetchedAt' <= assertionTime
       /\ UNCHANGED <<assertionTime, signing, retired>>
  BY <1>0, <1>2, <1>6
<1>11. keySet' # 0 => PublishedSince(keySet', fetchedAt' - FetchTime)
  BY <1>2, <1>7
<1>12. /\ failed' \subseteq Requests /\ overtaken' \subseteq Requests
       /\ \A q \in Requests : q # r => /\ q \in failed => q \in failed'
                                       /\ q \in overtaken <=> q \in overtaken'
  BY <1>2 DEF AssertionsInv
<1>13. d \in RequestType /\ request' = [request EXCEPT ![r] = d]
  BY <1>1, <1>2
<1> QED
  BY <1>9, <1>10, <1>11, <1>12, <1>13, RequestStep

\* The fetch fails.
LEMMA FetchFailsStep == ASSUME AssertionsInv, NEW r \in Requests, FetchFails(r) PROVE AssertionsInv'
<1> DEFINE old == request[r]
           d == IF keySet = 0 THEN [old EXCEPT !.pc = "refused"] ELSE Decoded(old, keySet)
<1>0. assertionTime \in Nat /\ signing \in 1..MaxGeneration /\ old \in RequestType /\ RequestOK(r)
      /\ keySet \in 0..signing
  BY DEF AssertionsInv
<1>1. /\ d \in RequestType /\ d.token = old.token /\ d.reply \in {old.reply, 0}
      /\ \/ keySet # 0 /\ old.token = keySet /\ d.pc = "accepted"
         \/ d.pc = "fetching" /\ d.reply = 0 /\ d.sent = assertionTime
         \/ d.pc = "refused"
  <2>1. CASE keySet = 0
    BY <1>0, <2>1 DEF RequestType
  <2>2. CASE keySet # 0
    BY <1>0, <2>2, DecodedIs
  <2> QED
    BY <2>1, <2>2
<1>2. request' = [request EXCEPT ![r] = d] /\ failed' = failed \cup {r}
      /\ UNCHANGED <<assertionTime, signing, retired, keySet, fetchedAt, overtaken>>
  BY DEF FetchFails
<1>3. old.token <= signing /\ old.reply <= signing
  BY <1>0 DEF RequestOK
<1> HIDE DEF old, d
<1>4. request'[r] = d
  BY <1>2 DEF AssertionsInv
<1>5. RequestOK(r)'
  BY <1>0, <1>1, <1>2, <1>3, <1>4, GenerationsAre DEF RequestOK, PublishedSince
<1> QED
  BY <1>0, <1>1, <1>2, <1>5, RequestStep DEF AssertionsInv

\* The request goes on, or is refused.
LEMMA AnsweredStep == ASSUME AssertionsInv, NEW r \in Requests, Answered(r) PROVE AssertionsInv'
<1>1. NoRequest \in RequestType /\ NoRequest.pc = "idle" /\ NoRequest.token = 0
      /\ NoRequest.reply = 0
  BY GenerationsAre DEF NoRequest, RequestType
<1>2. request' = [request EXCEPT ![r] = NoRequest]
      /\ UNCHANGED <<assertionTime, signing, retired, keySet, fetchedAt, failed, overtaken>>
  BY DEF Answered
<1>3. request'[r] = NoRequest
  BY <1>2 DEF AssertionsInv
<1>4. RequestOK(r)'
  BY <1>1, <1>2, <1>3 DEF RequestOK, AssertionsInv
<1> QED
  BY <1>1, <1>2, <1>4, RequestStep DEF AssertionsInv

\* The proxy rotates: the key that was signed with until now is retired now.
LEMMA RotateStep == ASSUME AssertionsInv, Rotate PROVE AssertionsInv'
<1> DEFINE now == assertionTime
<1>1. /\ now \in Nat /\ signing \in 1..MaxGeneration /\ signing + 1 \in 1..MaxGeneration
      /\ signing' = signing + 1 /\ retired' = [retired EXCEPT ![signing] = now]
      /\ overtaken' = Requests
      /\ UNCHANGED <<assertionTime, keySet, fetchedAt, request, failed>>
  BY GenerationsAre DEF Rotate, AssertionsInv
<1>2. /\ retired \in [1..MaxGeneration -> Nat \cup {NotYet}] /\ keySet \in 0..signing
      /\ \A g \in 1..MaxGeneration : g >= signing => retired[g] = NotYet
      /\ \A g \in 1..MaxGeneration : retired[g] <= now
      /\ fetchedAt \in Nat /\ fetchedAt <= now
  BY DEF AssertionsInv
<1> HIDE DEF now
<1>3. retired' \in [1..MaxGeneration -> Nat \cup {NotYet}] /\ retired'[signing] = now
      /\ \A g \in 1..MaxGeneration : g # signing => retired'[g] = retired[g]
  BY <1>1, <1>2
<1>4. \A g \in 1..MaxGeneration : g >= signing' => retired'[g] = NotYet
  BY <1>1, <1>2, <1>3
<1>5. \A g \in 1..MaxGeneration : retired'[g] <= now
  BY <1>1, <1>2, <1>3
<1>6. ASSUME NEW g \in 1..MaxGeneration, NEW t \in Int, t <= now, PublishedSince(g, t)
      PROVE  PublishedSince(g, t)'
  BY <1>1, <1>3, <1>6 DEF PublishedSince
<1>7. keySet' # 0 => PublishedSince(keySet, fetchedAt - FetchTime)'
  <2> SUFFICES ASSUME keySet # 0
               PROVE  PublishedSince(keySet, fetchedAt - FetchTime)'
    BY <1>1
  <2>1. PublishedSince(keySet, fetchedAt - FetchTime)
    BY DEF AssertionsInv
  <2>2. keySet \in 1..MaxGeneration /\ fetchedAt - FetchTime \in Int /\ fetchedAt - FetchTime <= now
    BY <1>1, <1>2, GenerationsAre
  <2> DEFINE t == fetchedAt - FetchTime
  <2>3. PublishedSince(keySet, t) /\ t \in Int /\ t <= now
    BY <2>1, <2>2
  <2>5. t' = t /\ keySet' = keySet
    BY <1>1
  <2> HIDE DEF t
  <2>4. PublishedSince(keySet, t)'
    BY <1>6, <2>2, <2>3, <2>5 DEF PublishedSince
  <2> QED
    BY <2>4 DEF t
<1>8. \A r \in Requests : RequestOK(r)'
  <2> TAKE r \in Requests
  <2> DEFINE req == request[r]
             s == req.sent
             early == now - (Ttl + FetchTime)
  <2>1. RequestOK(r) /\ req \in RequestType
    BY DEF AssertionsInv
  <2>2. req' = req /\ req.token \in Generations /\ req.reply \in Generations /\ req.sent \in Nat
    BY <1>1, <2>1 DEF RequestType
  <2>3. /\ req.token <= signing /\ req.reply <= signing
        /\ req.pc = "fetching" => s <= now /\ now - s <= FetchTime
        /\ req.pc = "fetching" /\ req.reply # 0 => PublishedSince(req.reply, s)
        /\ req.pc = "accepted" => /\ req.token # 0
                                  /\ r \in failed \/ PublishedSince(req.token, early)
    BY <2>1 DEF RequestOK, now
  <2>4. req.token # 0 => req.token \in 1..MaxGeneration
    BY <2>2, GenerationsAre DEF Generations
  <2>5. req.reply # 0 => req.reply \in 1..MaxGeneration
    BY <2>2, GenerationsAre DEF Generations
  <2>6. early \in Int /\ early <= now
    BY <1>1, GenerationsAre
  <2>8. early' = early
    BY <1>1 DEF now
  <2>9. s' = s
    BY <2>2
  <2> HIDE DEF req, early, s
  <2>7. req.pc = "fetching" /\ req.reply # 0 => PublishedSince(req.reply, s)'
    <3> SUFFICES ASSUME req.pc = "fetching", req.reply # 0
                 PROVE  PublishedSince(req.reply, s)'
      OBVIOUS
    <3> DEFINE g == req.reply
    <3>1. g \in 1..MaxGeneration /\ s \in Int /\ s <= now /\ PublishedSince(g, s) /\ g' = g /\ s' = s
      BY <2>2, <2>3, <2>5, <2>9 DEF s
    <3> HIDE DEF g
    <3>2. PublishedSince(g, s)'
      BY <1>6, <3>1 DEF PublishedSince
    <3> QED
      BY <3>2 DEF g
  <2>10. req.pc = "accepted" /\ r \notin failed => PublishedSince(req.token, early)'
    <3> SUFFICES ASSUME req.pc = "accepted", r \notin failed
                 PROVE  PublishedSince(req.token, early)'
      OBVIOUS
    <3> DEFINE g == req.token
    <3>1. g \in 1..MaxGeneration /\ PublishedSince(g, early) /\ g' = g
      BY <2>2, <2>3, <2>4
    <3> HIDE DEF g
    <3>2. PublishedSince(g, early)'
      BY <1>6, <2>6, <2>8, <3>1 DEF PublishedSince
    <3> QED
      BY <3>2 DEF g
  <2>11. req.token <= signing' /\ req.reply <= signing'
    BY <1>1, <2>2, <2>3, GenerationsAre DEF Generations
  <2> QED
    BY <1>1, <2>2, <2>3, <2>7, <2>10, <2>11 DEF RequestOK, req, s, early, now
<1>9. keySet \in 0..signing'
  BY <1>1, <1>2
<1> QED
  BY <1>1, <1>2, <1>3, <1>4, <1>5, <1>7, <1>8, <1>9 DEF AssertionsInv, now

\* Time passes: while a fetch may still be answered in time, and on no decision.
LEMMA AssertionTimeStep == ASSUME AssertionsInv, AssertionTimePasses PROVE AssertionsInv'
<1>1. /\ assertionTime \in Nat /\ fetchedAt \in Nat /\ fetchedAt <= assertionTime
      /\ assertionTime' = assertionTime + 1
      /\ UNCHANGED <<signing, retired, keySet, fetchedAt, request, failed, overtaken>>
  BY DEF AssertionsInv, AssertionTimePasses
<1>2. \A g \in 1..MaxGeneration : retired'[g] <= assertionTime'
  <2> TAKE g \in 1..MaxGeneration
  <2> DEFINE x == retired[g]
  <2>1. x \in Nat \cup {NotYet} /\ x <= assertionTime
    BY DEF AssertionsInv
  <2> HIDE DEF x
  <2>2. x <= assertionTime + 1
    BY <1>1, <2>1 DEF NotYet
  <2> QED
    BY <1>1, <2>2 DEF x
<1>3. \A r \in Requests : RequestOK(r)'
  <2> TAKE r \in Requests
  <2> DEFINE req == request[r]
             s == req.sent
  <2>1. /\ RequestOK(r) /\ req \in RequestType /\ req.pc \in {"idle", "fetching"}
        /\ req.pc = "fetching" => assertionTime - s < FetchTime
    BY DEF AssertionsInv, AssertionTimePasses
  <2>2. s \in Nat /\ req' = req
    BY <1>1, <2>1 DEF RequestType
  <2>3. /\ req.token <= signing /\ req.reply <= signing
        /\ req.pc = "fetching" => s <= assertionTime
        /\ req.pc = "fetching" /\ req.reply # 0 =>
             PublishedSince(req.reply, s) /\ (r \notin overtaken => req.reply = signing)
    BY <2>1 DEF RequestOK
  <2> HIDE DEF s
  <2>4. req.pc = "fetching" => s <= assertionTime + 1 /\ (assertionTime + 1) - s <= FetchTime
    BY <1>1, <2>1, <2>2, <2>3, GenerationsAre
  <2> HIDE DEF req
  <2> QED
    BY <1>1, <2>1, <2>2, <2>3, <2>4 DEF RequestOK, PublishedSince, req, s
<1>4. keySet' # 0 => PublishedSince(keySet, fetchedAt - FetchTime)'
  BY <1>1 DEF AssertionsInv, PublishedSince
<1> QED
  BY <1>1, <1>2, <1>3, <1>4 DEF AssertionsInv

\* Keys follow the proxy's rotation (pomerium.py:56-78, 101-121), for any times, requests and
\* number of rotations: no key is accepted that the proxy gave up longer ago than a key set is
\* kept and may travel, unless a fetch failed, and none that signs is refused.
THEOREM KeysTheorem == AssertionsSpec => []KeysFollowTheProxy
<1>1. ASSUME AssertionsInv, [AssertionsNext]_svars
      PROVE  AssertionsInv'
  <2>1. ASSUME NEW r \in Requests, Published(r) \/ Fetched(r) \/ FetchFails(r) \/ Answered(r)
        PROVE  AssertionsInv'
    BY <1>1, <2>1, PublishedStep, FetchedStep, FetchFailsStep, AnsweredStep
  <2>2. ASSUME NEW r \in Requests, NEW token \in 0..signing, Verify(r, token)
        PROVE  AssertionsInv'
    BY <1>1, <2>2, VerifyStep
  <2>3. CASE Rotate \/ AssertionTimePasses
    BY <1>1, <2>3, RotateStep, AssertionTimeStep
  <2>4. CASE UNCHANGED svars
    BY <1>1, <2>4 DEF svars, AssertionsInv, RequestOK, PublishedSince
  <2> QED
    BY <1>1, <2>1, <2>2, <2>3, <2>4 DEF AssertionsNext
<1>2. ASSUME AssertionsInv
      PROVE  KeysFollowTheProxy
  <2>1. ASSUME NEW r \in Requests, request[r].pc = "accepted", r \notin failed
        PROVE  \/ retired[request[r].token] = NotYet
               \/ assertionTime - retired[request[r].token] <= Ttl + FetchTime
    <3> DEFINE g == request[r].token
               x == retired[g]
    <3>1. g \in Generations /\ g # 0 /\ PublishedSince(g, assertionTime - (Ttl + FetchTime))
      BY <1>2, <2>1 DEF AssertionsInv, RequestOK, RequestType
    <3>2. g \in 1..MaxGeneration /\ assertionTime \in Nat
      BY <1>2, <3>1, GenerationsAre DEF Generations, AssertionsInv
    <3>3. /\ x \in Nat \cup {NotYet}
          /\ x = NotYet \/ x >= assertionTime - (Ttl + FetchTime)
      BY <1>2, <3>1, <3>2 DEF AssertionsInv, PublishedSince
    <3> HIDE DEF x
    <3>4. x = NotYet \/ assertionTime - x <= Ttl + FetchTime
      BY <3>2, <3>3, GenerationsAre DEF NotYet
    <3> QED
      BY <3>4 DEF x
  <2>2. AcceptedKeyIsCurrent
    BY <2>1 DEF AcceptedKeyIsCurrent
  <2>3. RotationIsHealed
    BY <1>2 DEF RotationIsHealed, AssertionsInv, RequestOK
  <2> QED
    BY <2>2, <2>3 DEF KeysFollowTheProxy
<1> QED
  BY AssertionsInitial, <1>1, <1>2, PTL DEF AssertionsSpec

-----------------------------------------------------------------------------
(* Journal.                                                                *)

JournalRecord == [day : JDays, kind : Kinds, split : BOOLEAN, kept : BOOLEAN]

\* The writes of a day are of records of that day, those that were kept are the ones that were
\* not cut, and what stands behind a cut is the record that followed one.
FileOK(d) ==
  LET file == auditLog[d] IN
  /\ file \in Seq([id : Nat \ {0}, cut : Cuts])
  /\ d > day => file = <<>>
  /\ \A i \in DOMAIN file :
       /\ file[i].id \in DOMAIN records /\ records[file[i].id].day = d
       /\ file[i].cut = "none" <=> records[file[i].id].kept
       /\ i > 1 /\ file[i - 1].cut # "none" => file[i].id - 1 \in CutsSoFar

\* A record that was kept is a write in the file of its day; and when the file of today ends in
\* a cut, the last record was one.
JournalInv ==
  /\ day \in JDays /\ serving \in BOOLEAN
  /\ DOMAIN auditLog = JDays
  /\ records \in Seq(JournalRecord)
  /\ \A d \in JDays : FileOK(d)
  /\ \A id \in KeptRecords : \E i \in DOMAIN auditLog[records[id].day] : auditLog[records[id].day][i].id = id
  /\ auditLog[day] # <<>> /\ auditLog[day][Len(auditLog[day])].cut # "none" =>
       Len(records) \in CutsSoFar

\* What is in a file is among the records, so all of the sets of records are finite.
LEMMA RecordsAreFinite ==
  ASSUME JournalInv, NEW S, S \subseteq DOMAIN records
  PROVE  IsFiniteSet(S)
<1>1. DOMAIN records = 1..Len(records) /\ Len(records) \in Nat
  BY DEF JournalInv
<1>2. IsFiniteSet(1..Len(records))
  BY <1>1, FS_Interval
<1> QED
  BY <1>1, <1>2, FS_Subset

\* It holds of the empty journal.
LEMMA JournalInitial == JournalInit => JournalInv
BY JournalAssumption
   DEF JournalInit, JournalInv, FileOK, JDays, KeptRecords, CutsSoFar, JournalRecord, Cuts

\* One more record, and perhaps its write at the end of the file of the day.
LEMMA OneMore ==
  ASSUME JournalInv, NEW rec \in JournalRecord, rec.day = day, NEW cut \in Cuts,
         cut = "none" <=> rec.kept,
         records' = Append(records, rec), day' = day, serving' \in BOOLEAN,
         \/ auditLog' = [auditLog EXCEPT ![day] = Append(@, [id |-> NextId, cut |-> cut])]
         \/ ~rec.kept /\ UNCHANGED auditLog
  PROVE  JournalInv'
<1> DEFINE n == Len(records)
           m == n + 1
<1>1. /\ n \in Nat /\ DOMAIN records = 1..n /\ DOMAIN records' = 1..m /\ Len(records') = m
      /\ records' \in Seq(JournalRecord) /\ records'[m] = rec
      /\ \A i \in 1..n : records'[i] = records[i]
      /\ NextId = m
  BY DEF JournalInv, NextId
<1> HIDE DEF n
<1>2. /\ \A i \in 1..n : i \in CutsSoFar' <=> i \in CutsSoFar
      /\ \A i \in 1..n : i \in KeptRecords' <=> i \in KeptRecords
      /\ m \in CutsSoFar' <=> ~rec.kept
      /\ m \in KeptRecords' <=> rec.kept
      /\ CutsSoFar \subseteq CutsSoFar'
      /\ CutsSoFar \subseteq 1..n
      /\ KeptRecords' \subseteq 1..m
  BY <1>1 DEF CutsSoFar, KeptRecords
<1>3. /\ day \in JDays /\ day \in Nat /\ DOMAIN auditLog = JDays
      /\ \A d \in JDays : FileOK(d)
  BY DEF JournalInv, JDays
<1> DEFINE old == auditLog[day]
           k == Len(old)
           entry == [id |-> NextId, cut |-> cut]
<1>4. /\ old \in Seq([id : Nat \ {0}, cut : Cuts]) /\ k \in Nat /\ DOMAIN old = 1..k
      /\ entry \in [id : Nat \ {0}, cut : Cuts] /\ entry.id = m /\ entry.cut = cut
  <2>1. old \in Seq([id : Nat \ {0}, cut : Cuts])
    BY <1>3 DEF FileOK
  <2>2. entry \in [id : Nat \ {0}, cut : Cuts] /\ entry.id = m /\ entry.cut = cut
    BY <1>1
  <2> HIDE DEF old, entry
  <2> QED
    BY <2>1, <2>2
<1>5. old # <<>> /\ old[k].cut # "none" => n \in CutsSoFar
  BY DEF JournalInv, n
<1>6. \A d \in JDays : d # day => auditLog'[d] = auditLog[d]
  BY <1>3
<1>7. DOMAIN auditLog' = JDays
  BY <1>3
<1>8. CASE auditLog' = [auditLog EXCEPT ![day] = Append(@, [id |-> NextId, cut |-> cut])]
  <2> DEFINE new == auditLog'[day]
  <2>1. new = Append(old, entry)
    BY <1>3, <1>8
  <2> HIDE DEF old, k, entry
  <2>2. /\ new \in Seq([id : Nat \ {0}, cut : Cuts]) /\ Len(new) = k + 1
        /\ DOMAIN new = 1..k + 1 /\ new[k + 1] = entry
        /\ \A i \in 1..k : new[i] = old[i]
    BY <1>4, <2>1 DEF k
  <2> HIDE DEF new
  <2>3. ASSUME NEW i \in DOMAIN new
        PROVE  /\ new[i].id \in DOMAIN records' /\ records'[new[i].id].day = day
               /\ new[i].cut = "none" <=> records'[new[i].id].kept
               /\ i > 1 /\ new[i - 1].cut # "none" => new[i].id - 1 \in CutsSoFar'
    <3>1. CASE i = k + 1
      <4>1. new[i].id = m /\ new[i].cut = cut
        BY <1>4, <2>2, <3>1
      <4>2. ASSUME i > 1, new[i - 1].cut # "none"
            PROVE  new[i].id - 1 \in CutsSoFar'
        <5>1. i - 1 = k /\ k \in 1..k
          BY <1>4, <3>1, <4>2
        <5>2. old[k].cut # "none" /\ old # <<>>
          BY <1>4, <2>2, <4>2, <5>1
        <5> QED
          BY <1>1, <1>2, <1>5, <4>1, <5>2
      <4> QED
        BY <1>1, <4>1, <4>2
    <3>2. CASE i \in 1..k
      <4>1. /\ old[i].id \in DOMAIN records /\ records[old[i].id].day = day
            /\ old[i].cut = "none" <=> records[old[i].id].kept
            /\ i > 1 /\ old[i - 1].cut # "none" => old[i].id - 1 \in CutsSoFar
        BY <1>3, <1>4, <3>2 DEF FileOK, old
      <4>2. new[i] = old[i] /\ (i > 1 => new[i - 1] = old[i - 1])
        BY <1>4, <2>2, <3>2
      <4> QED
        BY <1>1, <1>2, <4>1, <4>2
    <3> QED
      BY <1>4, <2>2, <3>1, <3>2
  <2>4. FileOK(day)'
    <3>1. new \in Seq([id : Nat \ {0}, cut : Cuts]) /\ ~(day > day)
      BY <1>3, <2>2
    <3>2. new = auditLog'[day] /\ day' = day
      BY DEF new
    <3>3. /\ auditLog'[day'] \in Seq([id : Nat \ {0}, cut : Cuts])
          /\ day' > day' => auditLog'[day'] = <<>>
      BY <3>1, <3>2
    <3>4. \A i \in DOMAIN auditLog'[day'] :
            /\ auditLog'[day'][i].id \in DOMAIN records'
            /\ records'[auditLog'[day'][i].id].day = day'
            /\ auditLog'[day'][i].cut = "none" <=> records'[auditLog'[day'][i].id].kept
            /\ i > 1 /\ auditLog'[day'][i - 1].cut # "none" => auditLog'[day'][i].id - 1 \in CutsSoFar'
      BY <2>3, <3>2
    <3> QED
      BY <3>3, <3>4, Zenon DEF FileOK
  <2>5. ASSUME NEW d \in JDays, d # day
        PROVE  FileOK(d)'
    <3>1. FileOK(d) /\ auditLog'[d] = auditLog[d]
      BY <1>3, <1>6, <2>5
    <3> QED
      BY <1>1, <1>2, <3>1 DEF FileOK
  <2>6. \A id \in KeptRecords' : \E i \in DOMAIN auditLog'[records'[id].day] : auditLog'[records'[id].day][i].id = id
    <3> TAKE id \in KeptRecords'
    <3>1. CASE id = m
      <4>1. records'[id].day = day /\ k + 1 \in DOMAIN new /\ new[k + 1].id = id
        BY <1>1, <1>4, <2>2, <3>1
      <4> QED
        BY <4>1 DEF new
    <3>2. CASE id \in 1..n
      <4>0. id \in KeptRecords /\ records'[id] = records[id]
        BY <1>1, <1>2, <3>2
      <4>1. id \in KeptRecords /\ records'[id] = records[id] /\ records[id].day \in JDays
        <5>1. records \in Seq(JournalRecord) /\ id \in DOMAIN records
          BY <1>1, <3>2 DEF JournalInv
        <5>2. records[id] \in JournalRecord
          BY <5>1
        <5> QED
          BY <4>0, <5>2 DEF JournalRecord
      <4> DEFINE d == records[id].day
      <4>2. PICK i \in DOMAIN auditLog[d] : auditLog[d][i].id = id
        BY <4>1 DEF JournalInv
      <4>3. CASE d = day
        <5>1. i \in 1..k /\ old[i].id = id
          BY <1>4, <4>2, <4>3 DEF old
        <5>2. i \in DOMAIN new /\ new[i].id = id
          BY <1>4, <2>2, <5>1
        <5> QED
          BY <4>1, <4>3, <5>2 DEF new
      <4>4. CASE d # day
        BY <1>6, <4>1, <4>2, <4>4
      <4> QED
        BY <4>3, <4>4
    <3>3. id \in 1..m
      BY <1>2
    <3>4. id = m \/ id \in 1..n
      BY <1>1, <3>3
    <3> QED
      BY <3>1, <3>2, <3>4, Zenon
  <2>7. auditLog'[day][Len(auditLog'[day])].cut # "none" => Len(records') \in CutsSoFar'
    BY <1>1, <1>2, <1>4, <2>2 DEF new
  <2> QED
    BY <1>1, <1>3, <1>7, <2>4, <2>5, <2>6, <2>7 DEF JournalInv, JDays
<1>9. CASE ~rec.kept /\ UNCHANGED auditLog
  <2>1. ASSUME NEW d \in JDays
        PROVE  FileOK(d)'
    <3>1. FileOK(d)
      BY <1>3
    <3> QED
      BY <1>1, <1>2, <1>9, <3>1 DEF FileOK
  <2>2. \A id \in KeptRecords' : \E i \in DOMAIN auditLog'[records'[id].day] : auditLog'[records'[id].day][i].id = id
    <3> TAKE id \in KeptRecords'
    <3>0. id \in 1..m /\ id # m
      BY <1>2, <1>9
    <3>2. id \in 1..n
      BY <1>1, <3>0
    <3>1. id \in KeptRecords /\ records'[id] = records[id]
      BY <1>1, <1>2, <3>2
    <3> QED
      BY <1>9, <3>1 DEF JournalInv
  <2>3. Len(records') \in CutsSoFar'
    BY <1>1, <1>2, <1>9
  <2> QED
    BY <1>1, <1>3, <1>7, <2>1, <2>2, <2>3 DEF JournalInv, JDays
<1> QED
  BY <1>8, <1>9

\* A record is written, whole or cut; the process comes back; the day ends.
LEMMA JournalStep == JournalInv /\ [JournalNext]_jvars => JournalInv'
<1> SUFFICES ASSUME JournalInv, [JournalNext]_jvars
             PROVE  JournalInv'
  OBVIOUS
<1>0. day \in JDays /\ "none" \in Cuts /\ \A cut \in Cuts \ {"none"} : cut \in Cuts /\ cut # "none"
  BY DEF JournalInv, Cuts
<1>1. ASSUME NEW kind \in Kinds, NEW split \in BOOLEAN, WriteRecord(kind, split)
      PROVE  JournalInv'
  <2> DEFINE rec == [day |-> day, kind |-> kind, split |-> split, kept |-> TRUE]
  <2>1. rec \in JournalRecord /\ rec.day = day /\ rec.kept
    BY <1>0, <1>1 DEF JournalRecord
  <2>2. records' = Append(records, rec)
    BY <1>1 DEF WriteRecord, Begun
  <2> HIDE DEF rec
  <2>3. /\ auditLog' = [auditLog EXCEPT ![day] = Append(@, [id |-> NextId, cut |-> "none"])]
        /\ day' = day /\ serving' \in BOOLEAN
    BY <1>1 DEF WriteRecord, Written, JournalInv
  <2> QED
    BY <1>0, <2>1, <2>2, <2>3, OneMore
<1>2. ASSUME NEW kind \in Kinds, NEW up \in BOOLEAN, Cut(kind, up)
      PROVE  JournalInv'
  <2> DEFINE rec == [day |-> day, kind |-> kind, split |-> FALSE, kept |-> FALSE]
  <2>1. rec \in JournalRecord /\ rec.day = day /\ ~rec.kept
    BY <1>0, <1>2 DEF JournalRecord
  <2>2. records' = Append(records, rec)
    BY <1>2 DEF Cut, Begun
  <2> HIDE DEF rec
  <2>3. /\ day' = day /\ serving' \in BOOLEAN
        /\ \/ \E cut \in Cuts \ {"none"} :
                auditLog' = [auditLog EXCEPT ![day] = Append(@, [id |-> NextId, cut |-> cut])]
           \/ UNCHANGED auditLog
    BY <1>2 DEF Cut, Written
  <2>4. ASSUME NEW cut \in Cuts \ {"none"},
               auditLog' = [auditLog EXCEPT ![day] = Append(@, [id |-> NextId, cut |-> cut])]
        PROVE  JournalInv'
    BY <1>0, <2>1, <2>2, <2>3, <2>4, OneMore
  <2>5. CASE UNCHANGED auditLog
    <3>1. \E cut \in Cuts : cut # "none"
      BY DEF Cuts
    <3> QED
      BY <1>0, <2>1, <2>2, <2>3, <2>5, <3>1, OneMore
  <2> QED
    BY <2>3, <2>4, <2>5
<1>6. ASSUME UNCHANGED <<auditLog, records>>, NEW d \in JDays, \A e \in JDays : e > day' => e > day
      PROVE  FileOK(d)'
  <2>1. FileOK(d)
    BY DEF JournalInv
  <2> QED
    BY <1>6, <2>1 DEF FileOK, CutsSoFar
<1>7. ASSUME UNCHANGED <<auditLog, records>>
      PROVE  KeptRecords' = KeptRecords /\ CutsSoFar' = CutsSoFar
  BY <1>7 DEF KeptRecords, CutsSoFar
<1>3. CASE JournalRestarts
  <2>1. UNCHANGED <<auditLog, records, day>> /\ serving' = TRUE
    BY <1>3 DEF JournalRestarts
  <2>2. \A d \in JDays : FileOK(d)'
    BY <1>6, <2>1
  <2> QED
    BY <1>7, <2>1, <2>2 DEF JournalInv
<1>4. CASE NextDay
  <2>1. /\ day < MaxDay /\ day' = day + 1 /\ UNCHANGED <<serving, auditLog, records>>
        /\ MaxDay \in Nat /\ day \in Nat
    BY <1>0, <1>4, JournalAssumption DEF NextDay, JDays
  <2>2. day' \in JDays /\ day' > day /\ \A d \in JDays : d > day' => d > day
    BY <2>1 DEF JDays
  <2>3. \A d \in JDays : FileOK(d)'
    BY <1>6, <2>1, <2>2
  <2>4. auditLog[day'] = <<>>
    BY <2>2 DEF JournalInv, FileOK
  <2> QED
    BY <1>7, <2>1, <2>2, <2>3, <2>4 DEF JournalInv
<1>5. CASE UNCHANGED jvars
  <2>1. UNCHANGED <<auditLog, records, day, serving>>
    BY <1>5 DEF jvars
  <2>2. \A d \in JDays : FileOK(d)'
    BY <1>6, <2>1
  <2> QED
    BY <1>7, <2>1, <2>2 DEF JournalInv
<1> QED
  BY <1>1, <1>2, <1>3, <1>4, <1>5 DEF JournalNext

\* A record that was kept and does not follow a cut can be read in the file of its day, and what
\* can be read is of a record.
LEMMA ReadBack ==
  ASSUME JournalInv
  PROVE  /\ \A id \in KeptRecords : id - 1 \notin CutsSoFar => id \in Lines(auditLog[records[id].day])
         /\ \A d \in JDays : Lines(auditLog[d]) \subseteq DOMAIN records
         /\ \A id \in KeptRecords : records[id].day \in JDays
<1>1. \A d \in JDays : FileOK(d)
  BY DEF JournalInv
<1>2. ASSUME NEW id \in KeptRecords, id - 1 \notin CutsSoFar
      PROVE  id \in Lines(auditLog[records[id].day])
  <2> DEFINE d == records[id].day
             file == auditLog[d]
  <2>1. PICK i \in DOMAIN file : file[i].id = id
    BY DEF JournalInv
  <2>2. d \in JDays
    <3>1. records \in Seq(JournalRecord) /\ id \in DOMAIN records
      BY DEF JournalInv, KeptRecords
    <3>2. records[id] \in JournalRecord
      BY <3>1
    <3> QED
      BY <3>2 DEF JournalRecord
  <2>3. /\ file[i].cut = "none" <=> records[file[i].id].kept
        /\ i > 1 /\ file[i - 1].cut # "none" => file[i].id - 1 \in CutsSoFar
    BY <1>1, <2>1, <2>2 DEF FileOK
  <2>4. Parses(file, i)
    BY <1>2, <2>1, <2>3 DEF Parses, KeptRecords
  <2> QED
    BY <2>1, <2>4 DEF Lines
<1>3. \A d \in JDays : Lines(auditLog[d]) \subseteq DOMAIN records
  BY <1>1 DEF Lines, FileOK
<1>4. ASSUME NEW id \in KeptRecords
      PROVE  records[id].day \in JDays
  <2>1. records \in Seq(JournalRecord) /\ id \in DOMAIN records
    BY DEF JournalInv, KeptRecords
  <2>2. records[id] \in JournalRecord
    BY <2>1
  <2> QED
    BY <2>2 DEF JournalRecord
<1> QED
  BY <1>2, <1>3, <1>4

\* A write that was cut costs the reader of hints the record it cut and at most the one after it,
\* and the admin's view no more unless a character was cut, which costs it that day and no other
\* (audit.py:5-10, 172-183), for any number of records, cuts and days.
THEOREM CutsTheorem == JournalSpec => []CutsAreContained
<1>1. ASSUME JournalInv
      PROVE  CutsAreContained
  <2> DEFINE lost == KeptRecords \ UNION {Lines(auditLog[d]) : d \in JDays}
             before == [id \in lost |-> id - 1]
  <2>1. \A id \in lost : id - 1 \in CutsSoFar
    BY <1>1, ReadBack
  <2>2. lost \subseteq DOMAIN records /\ CutsSoFar \subseteq DOMAIN records
    BY DEF KeptRecords, CutsSoFar
  <2>3. IsFiniteSet(lost) /\ IsFiniteSet(CutsSoFar)
    BY <1>1, <2>2, RecordsAreFinite
  <2>4. lost \subseteq Nat
    BY <1>1, <2>2 DEF JournalInv
  <2>7. ASSUME NEW id \in KeptRecords \ AuditView, id \notin lost
        PROVE  /\ ~Decodes(auditLog[records[id].day])
               /\ \E c \in CutsSoFar : records[c].day = records[id].day
    <3> DEFINE file == auditLog[records[id].day]
    <3>1. PICK d \in JDays : id \in Lines(auditLog[d])
      BY <2>7
    <3>2. FileOK(d)
      BY <1>1 DEF JournalInv
    <3>3. records[id].day = d
      BY <3>1, <3>2 DEF FileOK, Lines
    <3>4. ~Decodes(file)
      BY <2>7, <3>1, <3>3 DEF AuditView, Readable
    <3>5. PICK i \in DOMAIN file : file[i].cut = "character"
      BY <3>4 DEF Decodes
    <3>6. file[i].id \in CutsSoFar /\ records[file[i].id].day = d
      BY <3>2, <3>3, <3>5 DEF FileOK, CutsSoFar
    <3> QED
      BY <3>3, <3>4, <3>6
  <2> HIDE DEF lost
  <2>5. before \in Injection(lost, CutsSoFar)
    BY <2>1, <2>4 DEF Injection, IsInjective
  <2>6. Cardinality(lost) <= Cardinality(CutsSoFar)
    BY <2>3, <2>5, FS_Injection DEF ExistsInjection
  <2> QED
    BY <2>1, <2>6, <2>7 DEF CutsAreContained, lost
<1> QED
  BY JournalInitial, JournalStep, <1>1, PTL DEF JournalSpec

\* A hint is never more than what happened (experience.py:66-99), however far the selector looks
\* back and however many observations it asks for.
THEOREM HintsTheorem == JournalSpec => []HintsAreEarned
<1>1. ASSUME JournalInv
      PROVE  HintsAreEarned
  <2> DEFINE Of(kinds) == {id \in Collected : records[id].kind \in kinds}
             Ever(kind) == {id \in DOMAIN records : records[id].kind = kind}
             Recent(kinds) ==
               {id \in KeptRecords : records[id].day \in day - Lookback..day /\ records[id].kind \in kinds}
             Hidden == {id \in KeptRecords : records[id].split \/ id - 1 \in CutsSoFar}
  <2>1. Collected \subseteq DOMAIN records
    BY <1>1, ReadBack DEF Collected
  <2>2. \A kinds : /\ IsFiniteSet(Of(kinds)) /\ Counted(kinds) = Cardinality(Of(kinds))
                   /\ Counted(kinds) \in Nat
    <3> TAKE kinds
    <3>1. IsFiniteSet(Of(kinds))
      BY <1>1, <2>1, RecordsAreFinite
    <3> QED
      BY <3>1, FS_CardinalityType DEF Counted
  <2>3. \A kind : /\ IsFiniteSet(Ever(kind))
    BY <1>1, RecordsAreFinite
  <2>4. \A kinds \in SUBSET CallKinds : \A id \in Recent(kinds) : id \in Hidden \/ id \in Of(kinds)
    <3> SUFFICES ASSUME NEW kinds \in SUBSET CallKinds, NEW id \in Recent(kinds), id \notin Hidden
                 PROVE  id \in Collected
      OBVIOUS
    <3>1. id \in KeptRecords /\ ~records[id].split /\ id - 1 \notin CutsSoFar
      OBVIOUS
    <3>2. id \in Lines(auditLog[records[id].day]) /\ records[id].day \in JDays
      BY <1>1, <3>1, ReadBack
    <3> QED
      BY <3>1, <3>2 DEF Collected
  <2> HIDE DEF Recent, Hidden
  <2>5. ASSUME Hint = "always fails"
        PROVE  /\ Cardinality(Ever("failed")) >= MinObservations
               /\ Recent({"empty", "data", "uncounted"}) \subseteq Hidden
    <3>1. Counted(CallKinds) >= MinObservations /\ Counted({"failed"}) = Counted(CallKinds)
      BY <2>5 DEF Hint, AlwaysFails
    <3>2. Of({"failed"}) \subseteq Of(CallKinds)
      BY DEF CallKinds
    <3>3. Of({"failed"}) = Of(CallKinds)
      BY <2>2, <3>1, <3>2, FS_Subset
    <3>4. Of({"failed"}) \subseteq Ever("failed")
      BY <2>1
    <3>5. Cardinality(Ever("failed")) >= MinObservations
      <4>1. Cardinality(Of({"failed"})) <= Cardinality(Ever("failed"))
        BY <2>3, <3>4, FS_Subset
      <4>2. Cardinality(Ever("failed")) \in Nat
        BY <2>3, FS_CardinalityType
      <4>3. Counted({"failed"}) = Cardinality(Of({"failed"})) /\ Counted({"failed"}) \in Nat
        BY <2>2
      <4>4. MinObservations \in Nat
        BY JournalAssumption
      <4> HIDE DEF Of, Ever
      <4> QED
        BY <3>1, <4>1, <4>2, <4>3, <4>4
    <3>6. ASSUME NEW id \in Recent({"empty", "data", "uncounted"}), id \notin Hidden
          PROVE  FALSE
      <4>1. id \in Of({"empty", "data", "uncounted"})
        BY <2>4, <3>6 DEF CallKinds
      <4>2. id \in Of(CallKinds) /\ id \notin Of({"failed"})
        BY <4>1 DEF CallKinds
      <4> QED
        BY <3>3, <4>2
    <3> QED
      BY <3>5, <3>6
  <2>6. ASSUME Hint = "returns nothing"
        PROVE  /\ Cardinality(Ever("empty")) >= MinObservations
               /\ Recent({"failed", "data"}) \subseteq Hidden
    <3>1. Counted({"empty", "data"}) >= MinObservations /\ Counted({"failed", "data"}) = 0
      BY <2>6 DEF Hint, AlwaysEmpty
    <3>2. Of({"failed", "data"}) = {}
      BY <2>2, <3>1, FS_EmptySet
    <3>3. Of({"empty", "data"}) \subseteq Ever("empty")
      BY <2>1, <3>2
    <3>4. Cardinality(Ever("empty")) >= MinObservations
      <4>1. Cardinality(Of({"empty", "data"})) <= Cardinality(Ever("empty"))
        BY <2>3, <3>3, FS_Subset
      <4>2. Cardinality(Ever("empty")) \in Nat
        BY <2>3, FS_CardinalityType
      <4>3. Counted({"empty", "data"}) = Cardinality(Of({"empty", "data"})) /\ Counted({"empty", "data"}) \in Nat
        BY <2>2
      <4>4. MinObservations \in Nat
        BY JournalAssumption
      <4> HIDE DEF Of, Ever
      <4> QED
        BY <3>1, <4>1, <4>2, <4>3, <4>4
    <3>5. Recent({"failed", "data"}) \subseteq Hidden
      BY <2>4, <3>2 DEF CallKinds
    <3> QED
      BY <3>4, <3>5
  <2> QED
    BY <2>5, <2>6 DEF HintsAreEarned, Recent, Hidden
<1> QED
  BY JournalInitial, JournalStep, <1>1, PTL DEF JournalSpec

-----------------------------------------------------------------------------
(* CaseFiles.  The order of the sort is a strict and total one, so the     *)
(* cases that are shown are the first of it, and a newer case with as many *)
(* of the words comes before an older one.                                 *)

CaseRow ==
  [day : Nat, words : SUBSET CaseWords,
   functions : {Distinct(run) : run \in {run \in CaseRuns : run # <<>>}}]

\* The rows are in the order of their days.
CaseFilesInv ==
  /\ caseDay \in Nat
  /\ cases \in Seq(CaseRow)
  /\ \A id \in DOMAIN cases : cases[id].day <= caseDay
  /\ \A id, o \in DOMAIN cases : id < o => cases[id].day <= cases[o].day

\* It holds of the empty table.
LEMMA CaseFilesInitial == CaseFilesInit => CaseFilesInv
BY DEF CaseFilesInit, CaseFilesInv

\* Every step keeps it: a case is recorded at the newest day, and nothing is removed.
LEMMA CaseFilesStep == CaseFilesInv /\ [CaseFilesNext]_cvars => CaseFilesInv'
<1> SUFFICES ASSUME CaseFilesInv, [CaseFilesNext]_cvars
             PROVE  CaseFilesInv'
  OBVIOUS
<1>1. ASSUME NEW words \in SUBSET CaseWords, NEW functions \in CaseRuns, NEW complete \in BOOLEAN,
             RecordCase(words, functions, complete)
      PROVE  CaseFilesInv'
  <2> DEFINE row == [day |-> caseDay, words |-> words, functions |-> Distinct(functions)]
             n == Len(cases)
  <2>1. cases' = Append(cases, row) /\ caseDay' = caseDay
    BY <1>1 DEF RecordCase
  <2>2. row \in CaseRow /\ row.day = caseDay
    BY <1>1 DEF CaseFilesInv, CaseRow, RecordCase, Investigated
  <2> HIDE DEF row
  <2>3. /\ cases' \in Seq(CaseRow) /\ DOMAIN cases' = 1..n + 1 /\ n \in Nat /\ cases'[n + 1] = row
        /\ \A id \in 1..n : id \in DOMAIN cases /\ cases'[id] = cases[id]
    BY <2>1, <2>2 DEF CaseFilesInv
  <2> HIDE DEF n
  <2>4. \A id \in DOMAIN cases' : cases'[id].day <= caseDay
    <3> TAKE id \in DOMAIN cases'
    <3>1. CASE id = n + 1
      BY <2>2, <2>3, <3>1 DEF CaseFilesInv
    <3>2. CASE id \in 1..n
      BY <2>3, <3>2 DEF CaseFilesInv
    <3> QED
      BY <2>3, <3>1, <3>2
  <2>5. \A id, o \in DOMAIN cases' : id < o => cases'[id].day <= cases'[o].day
    <3> TAKE id, o \in DOMAIN cases'
    <3> HAVE id < o
    <3>1. id \in 1..n
      BY <2>3
    <3>2. CASE o = n + 1
      BY <2>2, <2>3, <2>4, <3>2
    <3>3. CASE o \in 1..n
      BY <2>3, <3>1, <3>3 DEF CaseFilesInv
    <3> QED
      BY <2>3, <3>2, <3>3
  <2> QED
    BY <2>1, <2>3, <2>4, <2>5 DEF CaseFilesInv
<1>2. CASE CaseDayPasses
  <2>1. caseDay \in Nat /\ caseDay' = caseDay + 1 /\ cases' = cases
    BY <1>2 DEF CaseDayPasses, CaseFilesInv
  <2>2. \A id \in DOMAIN cases : cases[id].day \in Nat
    <3> TAKE id \in DOMAIN cases
    <3>1. cases[id] \in CaseRow
      BY DEF CaseFilesInv
    <3> QED
      BY <3>1 DEF CaseRow
  <2>3. \A id \in DOMAIN cases : cases[id].day <= caseDay + 1
    BY <2>1, <2>2 DEF CaseFilesInv
  <2> QED
    BY <2>1, <2>3 DEF CaseFilesInv
<1>3. CASE UNCHANGED cvars
  BY <1>3 DEF cvars, CaseFilesInv
<1> QED
  BY <1>1, <1>2, <1>3 DEF CaseFilesNext

\* What the sort compares is numbers.
LEMMA CaseNumbers ==
  ASSUME CaseFilesInv, NEW question \in SUBSET CaseWords, NEW id \in DOMAIN cases
  PROVE  /\ id \in Nat /\ Age(id) \in Nat /\ HalfAge + Age(id) \in Nat /\ HalfAge + Age(id) > 0
         /\ Overlap(id, question) \in Nat
<1>1. cases[id] \in CaseRow /\ cases[id].day <= caseDay /\ caseDay \in Nat /\ id \in Nat
  BY DEF CaseFilesInv
<1>2. cases[id].day \in Nat /\ cases[id].words \subseteq CaseWords
  BY <1>1 DEF CaseRow
<1>3. IsFiniteSet(question \cap cases[id].words)
  BY <1>2, CaseFilesAssumption, FS_Subset
<1>4. Overlap(id, question) \in Nat
  BY <1>3, FS_CardinalityType DEF Overlap
<1>5. Age(id) \in Nat
  <2> DEFINE d == cases[id].day
  <2>1. d \in Nat /\ d <= caseDay /\ caseDay \in Nat
    BY <1>1, <1>2
  <2> HIDE DEF d
  <2>2. caseDay - d \in Nat
    BY <2>1
  <2> QED
    BY <2>2 DEF Age, d
<1> QED
  BY <1>1, <1>4, <1>5, CaseFilesAssumption

\* Products of numbers: they may be compared factor by factor, and a factor cancels.
LEMMA ProductsGrow ==
  ASSUME NEW a \in Nat, NEW b \in Nat, NEW x \in Nat, NEW y \in Nat, a >= b, x >= y
  PROVE  a * x >= b * y
<1>1. a * x >= b * x
  OBVIOUS
<1>2. b * x >= b * y
  OBVIOUS
<1>3. a * x \in Nat /\ b * x \in Nat /\ b * y \in Nat
  OBVIOUS
<1> QED
  BY <1>1, <1>2, <1>3

\* A positive factor on both sides of a comparison cancels: the ages are compared as
\* products of natural numbers.
LEMMA FactorsCancel ==
  ASSUME NEW x \in Nat, NEW y \in Nat, NEW p \in Nat, p > 0
  PROVE  /\ x * p >= y * p => x >= y
         /\ x * p > y * p => x > y
         /\ x >= y => x * p >= y * p
         /\ x > y => x * p > y * p
OBVIOUS

\* The comparison by quotients, and by the newer row where they are equal, is transitive.
LEMMA QuotientsTransit ==
  ASSUME NEW wa \in Nat, NEW wb \in Nat, NEW wc \in Nat,
         NEW pa \in Nat, NEW pb \in Nat, NEW pc \in Nat, pa > 0, pb > 0, pc > 0,
         NEW a \in Int, NEW b \in Int, NEW c \in Int,
         wa * pb > wb * pa \/ (wa * pb = wb * pa /\ a > b),
         wb * pc > wc * pb \/ (wb * pc = wc * pb /\ b > c)
  PROVE  wa * pc > wc * pa \/ (wa * pc = wc * pa /\ a > c)
<1> DEFINE l == wa * pb
           r == wb * pa
           m == wb * pc
           n == wc * pb
           x == wa * pc
           y == wc * pa
<1>1. /\ l \in Nat /\ r \in Nat /\ m \in Nat /\ n \in Nat /\ x \in Nat /\ y \in Nat
      /\ l * pc \in Nat /\ r * pc \in Nat /\ m * pa \in Nat /\ n * pa \in Nat
      /\ x * pb \in Nat /\ y * pb \in Nat
  OBVIOUS
<1>2. x * pb = l * pc /\ r * pc = m * pa /\ y * pb = n * pa
  OBVIOUS
<1>3. (l > r \/ (l = r /\ a > b)) /\ (m > n \/ (m = n /\ b > c))
  OBVIOUS
<1> HIDE DEF l, r, m, n, x, y
<1>4. /\ l > r => l * pc > r * pc
      /\ m > n => m * pa > n * pa
  BY <1>1, FactorsCancel
<1>5. CASE l > r \/ m > n
  <2>1. x * pb > y * pb
    BY <1>1, <1>2, <1>3, <1>4, <1>5
  <2>2. x > y
    BY <1>1, <2>1, FactorsCancel
  <2> QED
    BY <2>2 DEF x, y
<1>6. CASE l = r /\ m = n
  <2>1. x * pb = y * pb /\ a > c
    BY <1>1, <1>2, <1>3, <1>6
  <2>2. x = y
    BY <1>1, <2>1, FactorsCancel
  <2> QED
    BY <2>1, <2>2 DEF x, y
<1> QED
  BY <1>1, <1>3, <1>5, <1>6

\* The sort is by a strict and total order.
LEMMA BetterIsAnOrder ==
  ASSUME CaseFilesInv, NEW question \in SUBSET CaseWords,
         NEW a \in DOMAIN cases, NEW b \in DOMAIN cases
  PROVE  /\ ~Better(a, a, question)
         /\ a # b => Better(a, b, question) \/ Better(b, a, question)
         /\ \A c \in DOMAIN cases :
              Better(a, b, question) /\ Better(b, c, question) => Better(a, c, question)
<1> DEFINE w(id) == Overlap(id, question)
           p(id) == HalfAge + Age(id)
<1>1. \A id \in DOMAIN cases : id \in Int /\ w(id) \in Nat /\ p(id) \in Nat /\ p(id) > 0
  BY CaseNumbers
<1>2. \A id, o \in DOMAIN cases :
        Better(id, o, question) <=> w(id) * p(o) > w(o) * p(id) \/ (w(id) * p(o) = w(o) * p(id) /\ id > o)
  BY DEF Better
<1> HIDE DEF w, p
<1>3. \A id, o \in DOMAIN cases : w(id) * p(o) \in Nat
  BY <1>1
<1>4. ~Better(a, a, question)
  BY <1>1, <1>2, <1>3
<1>5. a # b => Better(a, b, question) \/ Better(b, a, question)
  BY <1>1, <1>2, <1>3
<1>6. ASSUME NEW c \in DOMAIN cases, Better(a, b, question), Better(b, c, question)
      PROVE  Better(a, c, question)
  <2>1. /\ w(a) * p(b) > w(b) * p(a) \/ (w(a) * p(b) = w(b) * p(a) /\ a > b)
        /\ w(b) * p(c) > w(c) * p(b) \/ (w(b) * p(c) = w(c) * p(b) /\ b > c)
    BY <1>2, <1>6
  <2>2. /\ w(a) \in Nat /\ w(b) \in Nat /\ w(c) \in Nat /\ p(a) \in Nat /\ p(b) \in Nat /\ p(c) \in Nat
        /\ p(a) > 0 /\ p(b) > 0 /\ p(c) > 0 /\ a \in Int /\ b \in Int /\ c \in Int
    BY <1>1, <1>6
  <2>3. w(a) * p(c) > w(c) * p(a) \/ (w(a) * p(c) = w(c) * p(a) /\ a > c)
    BY <2>1, <2>2, QuotientsTransit
  <2> QED
    BY <1>2, <1>6, <2>3
<1> QED
  BY <1>4, <1>5, <1>6

\* How many cases come before one.
Before(id, question) == {o \in Eligible(question) : Better(o, id, question)}

\* Who is better has fewer eligible cases before it, so that ranks follow the order.
LEMMA RanksGrow ==
  ASSUME CaseFilesInv, NEW question \in SUBSET CaseWords,
         NEW a \in DOMAIN cases, NEW b \in DOMAIN cases
  PROVE  /\ IsFiniteSet(Before(a, question)) /\ Cardinality(Before(a, question)) \in Nat
         /\ Better(a, b, question) => Cardinality(Before(a, question)) <= Cardinality(Before(b, question))
         /\ Better(a, b, question) /\ a \in Eligible(question) =>
              Cardinality(Before(a, question)) < Cardinality(Before(b, question))
<1>1. DOMAIN cases = 1..Len(cases) /\ Len(cases) \in Nat
  BY DEF CaseFilesInv
<1>2. IsFiniteSet(DOMAIN cases)
  BY <1>1, FS_Interval
<1>3. \A id : Before(id, question) \subseteq DOMAIN cases
  BY DEF Before, Eligible, Rows
<1>4. \A id : IsFiniteSet(Before(id, question)) /\ Cardinality(Before(id, question)) \in Nat
  BY <1>2, <1>3, FS_Subset, FS_CardinalityType
<1>5. ASSUME Better(a, b, question)
      PROVE  Before(a, question) \subseteq Before(b, question)
  <2> SUFFICES ASSUME NEW o \in Before(a, question)
               PROVE  Better(o, b, question)
    BY DEF Before
  <2>1. o \in DOMAIN cases /\ Better(o, a, question)
    BY <1>3 DEF Before
  <2> QED
    BY <1>5, <2>1, BetterIsAnOrder
<1>6. ASSUME Better(a, b, question)
      PROVE  Cardinality(Before(a, question)) <= Cardinality(Before(b, question))
  BY <1>4, <1>5, <1>6, FS_Subset
<1>7. ASSUME Better(a, b, question), a \in Eligible(question)
      PROVE  Cardinality(Before(a, question)) < Cardinality(Before(b, question))
  <2>1. a \in Before(b, question) /\ a \notin Before(a, question)
    BY <1>7, BetterIsAnOrder DEF Before
  <2>2. Before(a, question) # Before(b, question)
    BY <2>1
  <2>3. Cardinality(Before(a, question)) # Cardinality(Before(b, question))
    BY <1>4, <1>5, <1>7, <2>2, FS_Subset
  <2> QED
    BY <1>4, <1>6, <1>7, <2>3
<1> QED
  BY <1>4, <1>6, <1>7

\* What is kept of an investigation is not empty.
LEMMA DistinctKeepsOne ==
  ASSUME NEW run \in CaseRuns, run # <<>>
  PROVE  Distinct(run) # <<>>
<1> DEFINE first == {i \in DOMAIN run : run[i] \notin {run[j] : j \in 1..i - 1}}
           nth(k) == CHOOSE i \in first : Cardinality({j \in first : j <= i}) = k
           S == {run[i] : i \in DOMAIN run}
<1>1. run \in Seq(S)
  BY CaseFilesAssumption
<1> HIDE DEF S
<1>2. DOMAIN run = 1..Len(run) /\ Len(run) \in Nat /\ Len(run) # 0
  BY <1>1, EmptySeq
<1>3. 1 \in first
  BY <1>2
<1>4. IsFiniteSet(first)
  <2>1. first \subseteq 1..Len(run)
    BY <1>2
  <2> HIDE DEF first
  <2>2. IsFiniteSet(1..Len(run))
    BY <1>2, FS_Interval
  <2> QED
    BY <2>1, <2>2, FS_Subset
<1>5. Cardinality(first) \in Nat /\ Cardinality(first) # 0
  BY <1>3, <1>4, FS_CardinalityType, FS_EmptySet
<1>6. Distinct(run) = [k \in 1..Cardinality(first) |-> run[nth(k)]]
  BY DEF Distinct
<1> HIDE DEF first, nth
<1>7. 1 \in DOMAIN Distinct(run)
  BY <1>5, <1>6
<1> QED
  BY <1>7

\* Precedents are fair (casefiles.py:112-151), for any vocabulary, number of cases and ages, and
\* however the half-life and the limits are chosen.
THEOREM PrecedentsTheorem == CaseFilesSpec => []PrecedentsAreFair
<1>1. ASSUME CaseFilesInv
      PROVE  PrecedentsAreFair
  <2> SUFFICES ASSUME NEW question \in SUBSET CaseWords
               PROVE  LET shown == Similar(question)
                      IN /\ Cardinality(shown) <= MaxCases
                         /\ \A id \in shown :
                              Age(id) <= MaxAge /\ Overlap(id, question) >= 2 /\ cases[id].functions # <<>>
                         /\ \A id \in shown, o \in DOMAIN cases \ shown :
                              o > id => Overlap(o, question) < Overlap(id, question)
    BY DEF PrecedentsAreFair
  <2> DEFINE shown == Similar(question)
             rank(id) == Cardinality(Before(id, question))
  <2>1. \A id : id \in shown <=> id \in Eligible(question) /\ rank(id) < MaxCases
    BY DEF Similar, Before
  <2>2. Eligible(question) \subseteq DOMAIN cases
    BY DEF Eligible, Rows
  <2>3. \A id \in DOMAIN cases : rank(id) \in Nat
    BY <1>1, RanksGrow
  <2>4. MaxCases \in Nat
    BY CaseFilesAssumption
  <2> HIDE DEF shown
  <2>5. Cardinality(shown) <= MaxCases
    <3> DEFINE f == [id \in shown |-> rank(id)]
    <3>1. ASSUME NEW a \in shown, NEW b \in shown, rank(a) = rank(b)
          PROVE  a = b
      <4>1. a \in DOMAIN cases /\ b \in DOMAIN cases /\ a \in Eligible(question) /\ b \in Eligible(question)
        BY <2>1, <2>2
      <4>2. Better(a, b, question) => rank(a) < rank(b)
        BY <1>1, <4>1, RanksGrow
      <4>3. Better(b, a, question) => rank(b) < rank(a)
        BY <1>1, <4>1, RanksGrow
      <4>4. rank(a) \in Nat /\ rank(b) \in Nat
        BY <2>3, <4>1
      <4> HIDE DEF rank
      <4> QED
        BY <1>1, <3>1, <4>1, <4>2, <4>3, <4>4, BetterIsAnOrder
    <3>2. \A id \in shown : rank(id) \in 0..MaxCases - 1
      BY <2>1, <2>2, <2>3, <2>4
    <3> HIDE DEF rank
    <3> DEFINE T == 0..MaxCases - 1
    <3>3. f \in Injection(shown, T)
      BY <3>1, <3>2 DEF Injection, IsInjective
    <3>4. IsFiniteSet(T) /\ Cardinality(T) = MaxCases
      <4>1. 0 \in Int /\ MaxCases - 1 \in Int
        BY <2>4
      <4>2. IsFiniteSet(T) /\ Cardinality(T) = IF 0 > MaxCases - 1 THEN 0 ELSE (MaxCases - 1) - 0 + 1
        BY <4>1, FS_Interval
      <4> HIDE DEF T
      <4> QED
        BY <4>2, <2>4
    <3> HIDE DEF f, T
    <3>5. Cardinality(shown) <= Cardinality(T)
      BY <3>3, <3>4, FS_Injection
    <3> QED
      BY <3>4, <3>5
  <2>6. ASSUME NEW id \in shown
        PROVE  Age(id) <= MaxAge /\ Overlap(id, question) >= 2 /\ cases[id].functions # <<>>
    <3>1. id \in Eligible(question) /\ id \in DOMAIN cases
      BY <2>1, <2>2, <2>6
    <3>2. cases[id] \in CaseRow
      BY <1>1, <3>1 DEF CaseFilesInv
    <3>3. cases[id].functions # <<>>
      BY <3>2, DistinctKeepsOne DEF CaseRow
    <3> QED
      BY <3>1, <3>3 DEF Eligible, Rows
  <2>7. ASSUME NEW id \in shown, NEW o \in DOMAIN cases \ shown, o > id,
               ~(Overlap(o, question) < Overlap(id, question))
        PROVE  FALSE
    <3>1. id \in Eligible(question) /\ id \in DOMAIN cases /\ rank(id) < MaxCases
      BY <2>1, <2>2, <2>7
    <3> DEFINE w(i) == Overlap(i, question)
               h(i) == HalfAge + Age(i)
               days(i) == cases[i].day
    <3>2. /\ id \in Nat /\ o \in Nat /\ w(id) \in Nat /\ w(o) \in Nat /\ h(id) \in Nat /\ h(o) \in Nat
          /\ Age(id) \in Nat /\ Age(o) \in Nat
      BY <1>1, <2>7, <3>1, CaseNumbers
    <3>3. Age(o) <= Age(id) /\ h(o) <= h(id)
      <4>1. days(id) <= days(o) /\ cases[id] \in CaseRow /\ cases[o] \in CaseRow /\ caseDay \in Nat
        BY <1>1, <2>7, <3>1 DEF CaseFilesInv
      <4>2. days(id) \in Nat /\ days(o) \in Nat
        BY <4>1 DEF CaseRow
      <4>3. Age(id) = caseDay - days(id) /\ Age(o) = caseDay - days(o)
        BY DEF Age
      <4> HIDE DEF days
      <4>4. Age(o) <= Age(id)
        BY <4>1, <4>2, <4>3
      <4> QED
        BY <3>2, <4>4, CaseFilesAssumption
    <3>4. w(o) >= w(id)
      BY <2>7, <3>2
    <3>5. o \in Eligible(question)
      <4>1. Age(id) <= MaxAge /\ Len(cases) - id < MaxRows /\ w(id) >= 2
        BY <3>1 DEF Eligible, Rows
      <4>2. Len(cases) \in Nat /\ MaxAge \in Nat /\ MaxRows \in Nat
        BY <1>1, CaseFilesAssumption DEF CaseFilesInv
      <4> HIDE DEF w
      <4>3. Age(o) <= MaxAge /\ Len(cases) - o < MaxRows /\ w(o) >= 2
        BY <2>7, <3>2, <3>3, <3>4, <4>1, <4>2
      <4> QED
        BY <4>3 DEF Eligible, Rows, w
    <3>6. Better(o, id, question)
      <4>1. w(o) * h(id) >= w(id) * h(o) /\ w(o) * h(id) \in Nat /\ w(id) * h(o) \in Nat
        <5> HIDE DEF w, h
        <5> QED
          BY <3>2, <3>3, <3>4, ProductsGrow
      <4>2. Better(o, id, question) <=> w(o) * h(id) > w(id) * h(o) \/ (w(o) * h(id) = w(id) * h(o) /\ o > id)
        BY DEF Better
      <4> HIDE DEF w, h
      <4> QED
        BY <2>7, <4>1, <4>2
    <3>7. rank(o) <= rank(id)
      BY <1>1, <3>1, <3>6, RanksGrow
    <3>8. rank(o) \in Nat /\ rank(id) \in Nat
      BY <2>3, <3>1
    <3> HIDE DEF rank
    <3> QED
      BY <2>1, <2>4, <2>7, <3>1, <3>5, <3>7, <3>8
  <2> QED
    BY <2>5, <2>6, <2>7 DEF shown
<1> QED
  BY CaseFilesInitial, CaseFilesStep, <1>1, PTL DEF CaseFilesSpec

-----------------------------------------------------------------------------
(* Runbooks.                                                               *)

\* What the last answer about a file left is what is in it, or what a later start put there.
Stands(s, file) ==
  answered[s] # Unknown =>
    \/ file = answered[s]
    \/ boots > 1 /\ ShippedFile(s) # NoFile /\ file = ShippedFile(s)

\* The store is what was parsed of the files at some time since; what an answer left is parsed
\* as it is, because only such a save is answered for.
RunbooksInv ==
  /\ boots \in Nat \ {0}
  /\ DOMAIN volume = Slugs /\ DOMAIN answered = Slugs
  /\ \A s \in Slugs : Stands(s, volume[s])
  /\ \A s \in Slugs : answered[s] # Unknown => Parsed(answered[s]) = answered[s]
  /\ shelf # NotLoaded => \A s \in Slugs : Stands(s, shelf[s])

\* No file, and the image's, are parsed as they are.
LEMMA PlainFiles ==
  /\ Parsed(NoFile) = NoFile
  /\ \A s : Parsed(ShippedFile(s)) = ShippedFile(s)
<1>1. NoFile.title \notin Clipped
  BY RunbooksAssumption DEF NoFile
<1>2. ASSUME NEW s, \E t \in Shipped : SlugOf[t] = s
      PROVE  ShippedFile(s).title \notin Clipped
  BY <1>2, RunbooksAssumption DEF ShippedFile
<1> QED
  BY <1>1, <1>2 DEF Parsed, ShippedFile

\* It holds of the volume that the image's runbooks were copied to.
LEMMA RunbooksInitial == RunbooksInit => RunbooksInv
BY DEF RunbooksInit, RunbooksInv, Stands

\* A save, a delete, a page, a question or a start leaves what was answered for in its place.
LEMMA RunbooksStep == RunbooksInv /\ [RunbooksNext]_kvars => RunbooksInv'
<1> SUFFICES ASSUME RunbooksInv, [RunbooksNext]_kvars
             PROVE  RunbooksInv'
  OBVIOUS
<1>0. /\ boots \in Nat \ {0} /\ DOMAIN volume = Slugs /\ DOMAIN answered = Slugs
      /\ \A s \in Slugs : Stands(s, volume[s])
      /\ \A s \in Slugs : answered[s] # Unknown => Parsed(answered[s]) = answered[s]
      /\ shelf # NotLoaded => \A s \in Slugs : Stands(s, shelf[s])
  BY DEF RunbooksInv
\* A save and a delete change one file, and answer for it only when all of them load.
<1>1. ASSUME NEW slug \in Slugs, NEW file, NEW answer, UNCHANGED boots,
             volume' = [volume EXCEPT ![slug] = file],
             shelf' = Reloaded([volume EXCEPT ![slug] = file]),
             answered' = [answered EXCEPT ![slug] = answer],
             answer # Unknown => /\ answer = file /\ Parsed(file) = file
                                 /\ Loadable([volume EXCEPT ![slug] = file])
      PROVE  RunbooksInv'
  <2>1. \A s \in Slugs : answered'[s] # Unknown => Parsed(answered'[s]) = answered'[s]
    BY <1>0, <1>1
  <2>2. \A s \in Slugs : Stands(s, volume[s])'
    BY <1>0, <1>1 DEF Stands
  <2> DEFINE files == [volume EXCEPT ![slug] = file]
  <2>4. CASE Loadable(files)
    <3>1. shelf' = Loaded(volume')
      BY <1>1, <2>4 DEF Reloaded
    <3>3. \A s \in Slugs : Stands(s, shelf[s])'
      <4> TAKE s \in Slugs
      <4>1. shelf'[s] = Parsed(volume'[s])
        BY <3>1 DEF Loaded
      <4>2. Stands(s, volume[s])' /\ (answered'[s] # Unknown => Parsed(answered'[s]) = answered'[s])
        BY <2>1, <2>2
      <4> QED
        BY <4>1, <4>2, PlainFiles DEF Stands
    <3> QED
      BY <1>0, <1>1, <2>1, <2>2, <3>3 DEF RunbooksInv
  <2>5. CASE ~Loadable(files)
    <3>1. shelf' = shelf /\ answer = Unknown
      BY <1>1, <2>5 DEF Reloaded
    <3>2. shelf' # NotLoaded => \A s \in Slugs : Stands(s, shelf[s])'
      BY <1>0, <1>1, <3>1 DEF Stands
    <3> QED
      BY <1>0, <1>1, <2>1, <2>2, <3>2 DEF RunbooksInv
  <2> QED
    BY <2>4, <2>5
<1>2. ASSUME NEW t \in Titles, Save(t)
      PROVE  RunbooksInv'
  <2> DEFINE slug == SlugOf[t]
             file == [title |-> t, version |-> saves + 1]
             files == [volume EXCEPT ![slug] = file]
             found == Loadable(files) /\ t \notin Clipped /\ t \notin Blanked
             answer == IF found THEN files[slug] ELSE Unknown
  <2>1. slug \in Slugs /\ files[slug] = file
    BY <1>0 DEF Slugs
  <2>2. /\ UNCHANGED boots /\ volume' = files /\ shelf' = Reloaded(files)
        /\ answered' = [answered EXCEPT ![slug] = answer]
    BY <1>2 DEF Save
  <2>3. answer # Unknown => /\ answer = file /\ Parsed(file) = file
                            /\ Loadable(files)
    BY <2>1 DEF Parsed
  <2> HIDE DEF answer, file, slug
  <2> QED
    BY <1>1, <2>1, <2>2, <2>3
<1>3. ASSUME NEW s \in Slugs, Delete(s)
      PROVE  RunbooksInv'
  <2> DEFINE slug == Reslug[s]
             files == [volume EXCEPT ![slug] = NoFile]
             answer == IF Loadable(files) THEN NoFile ELSE Unknown
  <2>1. slug \in Slugs
    BY <1>3 DEF Delete
  <2>2. /\ UNCHANGED boots /\ volume' = files /\ shelf' = Reloaded(files)
        /\ answered' = [answered EXCEPT ![slug] = answer]
    BY <1>3 DEF Delete
  <2>3. answer # Unknown => /\ answer = NoFile /\ Parsed(NoFile) = NoFile
                            /\ Loadable(files)
    BY PlainFiles
  <2> HIDE DEF answer, slug
  <2> QED
    BY <1>1, <2>1, <2>2, <2>3
<1>4. CASE Browse \/ FirstQuestion
  <2>1. shelf' = Reloaded(volume) /\ UNCHANGED <<volume, boots, answered>>
    BY <1>4 DEF Browse, FirstQuestion
  <2>2. \A s \in Slugs : Stands(s, volume[s])'
    BY <1>0, <2>1 DEF Stands
  <2>3. \A s \in Slugs : answered'[s] # Unknown => Parsed(answered'[s]) = answered'[s]
    BY <1>0, <2>1
  <2>4. CASE Loadable(volume)
    <3>1. shelf' = Loaded(volume)
      BY <2>1, <2>4 DEF Reloaded
    <3>2. \A s \in Slugs : Stands(s, Loaded(volume)[s])
      BY <1>0, PlainFiles DEF Stands, Loaded
    <3>3. \A s \in Slugs : Stands(s, shelf[s])'
      <4> TAKE s \in Slugs
      <4> DEFINE parsed == Loaded(volume)[s]
      <4>1. Stands(s, parsed) /\ shelf'[s] = parsed
        BY <3>1, <3>2
      <4> HIDE DEF parsed
      <4> QED
        BY <2>1, <4>1 DEF Stands
    <3> QED
      BY <1>0, <2>1, <2>2, <2>3, <3>3 DEF RunbooksInv
  <2>5. CASE ~Loadable(volume)
    <3>1. shelf' = shelf
      BY <2>1, <2>5 DEF Reloaded
    <3>2. shelf' # NotLoaded => \A s \in Slugs : Stands(s, shelf[s])'
      BY <1>0, <2>1, <3>1 DEF Stands
    <3> QED
      BY <1>0, <2>1, <2>2, <2>3, <3>2 DEF RunbooksInv
  <2> QED
    BY <2>4, <2>5
<1>5. CASE ContainerStarts
  <2>1. /\ boots' = boots + 1 /\ shelf' = NotLoaded /\ UNCHANGED answered
        /\ volume' = [s \in Slugs |-> IF ShippedFile(s) # NoFile THEN ShippedFile(s) ELSE volume[s]]
    BY <1>5 DEF ContainerStarts
  <2>2. boots' \in Nat \ {0} /\ boots' > 1
    BY <1>0, <2>1
  <2>3. \A s \in Slugs : Stands(s, volume[s])'
    <3> TAKE s \in Slugs
    <3>1. CASE ShippedFile(s) # NoFile
      BY <2>1, <2>2, <3>1 DEF Stands
    <3>2. CASE ShippedFile(s) = NoFile
      <4>1. Stands(s, volume[s]) /\ volume'[s] = volume[s]
        BY <1>0, <2>1, <3>2
      <4> QED
        BY <2>1, <3>2, <4>1 DEF Stands
    <3> QED
      BY <3>1, <3>2
  <2> QED
    BY <1>0, <2>1, <2>2, <2>3 DEF RunbooksInv
<1>6. CASE UNCHANGED kvars
  BY <1>0, <1>6 DEF kvars, RunbooksInv, Stands
<1> QED
  BY <1>2, <1>3, <1>4, <1>5, <1>6 DEF RunbooksNext

\* What a save or a delete was answered for is what the questions are given until the same file
\* is saved or deleted again, or a start takes it back (runbooks/__init__.py:144-151, 237-254),
\* for any titles and slugs.
THEOREM ServedTheorem == RunbooksSpec => []AnsweredIsServed
<1>1. RunbooksInv => AnsweredIsServed
  BY DEF RunbooksInv, AnsweredIsServed, Stands
<1> QED
  BY RunbooksInitial, RunbooksStep, <1>1, PTL DEF RunbooksSpec

-----------------------------------------------------------------------------
(* Door.  The table of sign-ins holds, for every key, the very times the   *)
(* history does, and that of registrations at least as many young ones.    *)

\* Of the latest `cut`-young times of h, the i-th last is not after the i-th last of r.
Covered(h, r, cut) ==
  \A i \in 0..Len(h) - 1 :
    h[Len(h) - i] > cut => i < Len(r) /\ r[Len(r) - i] >= h[Len(h) - i]

InOrder(hits) == \A i, j \in DOMAIN hits : i <= j => hits[i] <= hits[j]

\* The tables count what the histories do, that of sign-ins exactly and that of registrations at
\* least, and no more than their limits; and of the key a wait was told of, nothing was counted since.
DoorInv ==
  /\ doorTime \in Nat
  /\ loginHits \in [Keys -> Seq(Nat)] /\ registerHits \in [SourceKeys -> Seq(Nat)]
  /\ failures = loginHits /\ hashings \in [SourceKeys -> Seq(Nat)]
  /\ \A k \in Keys : Len(loginHits[k]) <= LoginLimit
  /\ \A s \in SourceKeys :
       /\ Len(registerHits[s]) <= RegisterLimit /\ InOrder(registerHits[s])
       /\ \A i \in DOMAIN registerHits[s] : registerHits[s][i] <= doorTime
       /\ \A i \in DOMAIN hashings[s] : hashings[s][i] <= doorTime
       /\ Covered(hashings[s], registerHits[s], doorTime - DoorWindow)
  /\ promised # NoPromise =>
       /\ promised.key \in Keys /\ promised.until \in Int
       /\ loginHits[promised.key] # <<>>
       /\ loginHits[promised.key][1] + DoorWindow < promised.until

\* The limits and the times are natural numbers.
LEMMA DoorNumbers ==
  /\ Second \in Nat \ {0} /\ LoginLimit \in Nat \ {0} /\ RegisterLimit \in Nat \ {0}
  /\ DoorWindow \in Nat \ {0} /\ MaxDoorTime \in Nat /\ MaxPosts \in Nat
BY DoorAssumption

\* How many of the first times are too old.
Stale(hits, n, cut) ==
  /\ n \in 0..Len(hits)
  /\ \A i \in 1..n : hits[i] <= cut
  /\ n < Len(hits) => hits[n + 1] > cut

\* There is such a number.
LEMMA StaleExists ==
  ASSUME NEW hits \in Seq(Nat), NEW cut \in Int
  PROVE  \E n \in 0..Len(hits) : Stale(hits, n, cut)
<1> DEFINE R == OpToRel(<, Nat)
           S == {n \in 0..Len(hits) : n < Len(hits) => hits[n + 1] > cut}
<1>1. Len(hits) \in Nat /\ \A i \in 1..Len(hits) : hits[i] \in Nat
  OBVIOUS
<1> DEFINE last == Len(hits)
<1>2. last \in S
  BY <1>1
<1>3. S \subseteq Nat
  BY <1>1
<1>4. \A x, y \in Nat : x < y => <<x, y>> \in R
  BY DEF OpToRel
<1>5. IsWellFoundedOn(R, Nat)
  BY NatLessThanWellFounded
<1> HIDE DEF R, S
<1>6. PICK n \in S : \A y \in S : <<y, n>> \notin R
  BY <1>2, <1>3, <1>5, WFMin, Zenon
<1>7. \A y \in S : ~(y < n)
  BY <1>3, <1>4, <1>6
<1>8. n \in 0..Len(hits) /\ (n < Len(hits) => hits[n + 1] > cut)
  BY <1>6 DEF S
<1>9. ASSUME NEW i \in 1..n
      PROVE  hits[i] <= cut
  <2>1. i \in Nat /\ i - 1 \in 0..Len(hits) /\ i - 1 < n /\ i - 1 < Len(hits) /\ i \in 1..Len(hits)
    BY <1>1, <1>8
  <2>2. i - 1 \notin S
    BY <1>7, <2>1
  <2>3. ~(hits[(i - 1) + 1] > cut)
    BY <2>1, <2>2 DEF S
  <2>4. (i - 1) + 1 = i /\ hits[i] \in Nat
    BY <1>1, <2>1
  <2> QED
    BY <2>3, <2>4
<1> QED
  BY <1>8, <1>9 DEF Stale

\* What _prune leaves is the rest of the times, from the first that is young enough.
LEMMA PrunedIs ==
  ASSUME NEW hits \in Seq(Nat), doorTime \in Nat
  PROVE  \E n \in 0..Len(hits) :
           /\ Stale(hits, n, doorTime - DoorWindow)
           /\ Pruned(hits) \in Seq(Nat) /\ Len(Pruned(hits)) = Len(hits) - n
           /\ \A i \in 1..Len(hits) - n : Pruned(hits)[i] = hits[n + i]
<1> DEFINE cut == doorTime - DoorWindow
<1>1. cut \in Int
  BY DoorNumbers
<1> DEFINE n == CHOOSE n \in 0..Len(hits) :
                  /\ \A i \in 1..n : hits[i] <= doorTime - DoorWindow
                  /\ n < Len(hits) => hits[n + 1] > doorTime - DoorWindow
<1>2. \E k \in 0..Len(hits) : /\ \A i \in 1..k : hits[i] <= doorTime - DoorWindow
                              /\ k < Len(hits) => hits[k + 1] > doorTime - DoorWindow
  BY <1>1, StaleExists DEF Stale
<1>3. /\ n \in 0..Len(hits)
      /\ \A i \in 1..n : hits[i] <= doorTime - DoorWindow
      /\ n < Len(hits) => hits[n + 1] > doorTime - DoorWindow
  BY <1>2, Zenon
<1>4. Pruned(hits) = SubSeq(hits, n + 1, Len(hits))
  BY Zenon DEF Pruned
<1> HIDE DEF n
<1>5. Stale(hits, n, doorTime - DoorWindow)
  BY <1>3, Zenon DEF Stale
<1> DEFINE m == Len(hits)
<1>6. m \in Nat /\ n \in Nat /\ n <= m /\ n + 1 \in Nat
  BY <1>3
<1>7. /\ SubSeq(hits, n + 1, m) \in Seq(Nat)
      /\ Len(SubSeq(hits, n + 1, m)) = m - n
      /\ \A i \in 1..m - n : SubSeq(hits, n + 1, m)[i] = hits[n + i]
  <2>1. Len(SubSeq(hits, n + 1, m)) = m - n
    BY <1>6
  <2>2. SubSeq(hits, n + 1, m) \in Seq(Nat)
    BY <1>6
  <2>3. ASSUME NEW i \in 1..m - n
        PROVE  SubSeq(hits, n + 1, m)[i] = hits[n + i]
    BY <1>6
  <2> QED
    BY <2>1, <2>2, <2>3
<1> QED
  BY <1>3, <1>4, <1>5, <1>7

\* What record leaves: its time at the end, and before it the times that were young enough,
\* which are counted here from the end.
LEMMA RecordedIs ==
  ASSUME NEW hits \in Seq(Nat), doorTime \in Nat
  PROVE  LET after == Append(Pruned(hits), doorTime)
             cut == doorTime - DoorWindow
         IN /\ after \in Seq(Nat) /\ Len(after) \in Nat \ {0}
            /\ Len(after) = Len(Pruned(hits)) + 1 /\ Len(after) <= Len(hits) + 1
            /\ after[Len(after)] = doorTime
            /\ \A i \in 1..Len(after) - 1 :
                 Len(hits) - i + 1 \in 1..Len(hits) /\ after[Len(after) - i] = hits[Len(hits) - i + 1]
            /\ \A i \in 1..Len(hits) :
                 hits[Len(hits) - i + 1] > cut => i <= Len(after) - 1
<1> DEFINE after == Append(Pruned(hits), doorTime)
           cut == doorTime - DoorWindow
           p == Pruned(hits)
           m == Len(hits)
           k == Len(p)
<1>1. PICK n \in 0..Len(hits) : /\ Stale(hits, n, cut)
                                /\ p \in Seq(Nat) /\ k = m - n
                                /\ \A i \in 1..m - n : p[i] = hits[n + i]
  BY PrunedIs
<1>2. m \in Nat /\ n \in Nat /\ n <= m /\ k \in Nat /\ cut \in Int
  BY <1>1, DoorNumbers
<1>3. \A i \in 1..m : hits[i] \in Nat
  OBVIOUS
<1> HIDE DEF p
<1>4. /\ after \in Seq(Nat) /\ Len(after) = k + 1
      /\ after[k + 1] = doorTime /\ \A i \in 1..k : after[i] = p[i]
  BY <1>1, AppendProperties DEF p
<1> HIDE DEF after, m, k
<1>5. ASSUME NEW i \in 1..k
      PROVE  m - i + 1 \in 1..m /\ after[(k + 1) - i] = hits[m - i + 1]
  <2>1. m - i + 1 \in 1..m /\ (k + 1) - i \in 1..k /\ (k + 1) - i \in 1..m - n
    BY <1>1, <1>2
  <2>2. after[(k + 1) - i] = hits[n + ((k + 1) - i)]
    BY <1>1, <1>4, <2>1
  <2>3. n + ((k + 1) - i) = m - i + 1
    BY <1>1, <1>2
  <2> QED
    BY <2>1, <2>2, <2>3
<1>6. ASSUME NEW i \in 1..m, hits[m - i + 1] > cut
      PROVE  i <= k
  <2>1. m - i + 1 \in 1..m
    BY <1>2
  <2>2. hits[m - i + 1] \in Nat
    BY <1>3, <2>1
  <2>3. m - i + 1 \notin 1..n
    BY <1>1, <1>2, <1>6, <2>2 DEF Stale
  <2> QED
    BY <1>1, <1>2, <2>1, <2>3
<1> QED
  <2>1. Len(after) \in Nat \ {0} /\ Len(after) <= m + 1 /\ Len(after) - 1 = k
    BY <1>1, <1>2, <1>4
  <2> QED
    BY <1>4, <1>5, <1>6, <2>1 DEF m, k, after, p

\* A time that is recorded is the latest, and the order stays.
LEMMA RecordedInOrder ==
  ASSUME NEW hits \in Seq(Nat), doorTime \in Nat, InOrder(hits),
         \A i \in DOMAIN hits : hits[i] <= doorTime
  PROVE  LET after == Append(Pruned(hits), doorTime)
         IN InOrder(after) /\ \A i \in DOMAIN after : after[i] <= doorTime
<1> DEFINE after == Append(Pruned(hits), doorTime)
           m == Len(hits)
           l == Len(after)
<1>1. /\ after \in Seq(Nat) /\ l \in Nat \ {0} /\ l <= m + 1
      /\ after[l] = doorTime
      /\ \A i \in 1..l - 1 : m - i + 1 \in 1..m /\ after[l - i] = hits[m - i + 1]
  BY RecordedIs
<1> HIDE DEF after
<1>2. DOMAIN after = 1..l /\ DOMAIN hits = 1..m /\ m \in Nat /\ \A i \in 1..m : hits[i] \in Nat
  BY <1>1
<1> HIDE DEF m, l
<1>3. ASSUME NEW i \in 1..l, i # l
      PROVE  m - (l - i) + 1 \in 1..m /\ after[i] = hits[m - (l - i) + 1]
  <2>1. l - i \in 1..l - 1 /\ l - (l - i) = i
    BY <1>1, <1>3
  <2> QED
    BY <1>1, <2>1
<1>4. \A i \in DOMAIN after : after[i] <= doorTime
  <2> SUFFICES ASSUME NEW i \in 1..l
               PROVE  after[i] <= doorTime
    BY <1>2
  <2>1. CASE i = l
    BY <1>1, <2>1
  <2>2. CASE i # l
    BY <1>2, <1>3, <2>2
  <2> QED
    BY <2>1, <2>2
<1>5. InOrder(after)
  <2> SUFFICES ASSUME NEW i \in 1..l, NEW j \in 1..l, i <= j
               PROVE  after[i] <= after[j]
    BY <1>2 DEF InOrder
  <2>1. CASE j = l
    BY <1>1, <1>2, <1>4, <2>1
  <2>2. CASE j # l
    <3>1. i # l
      BY <1>1, <2>2
    <3>2. /\ m - (l - i) + 1 \in 1..m /\ after[i] = hits[m - (l - i) + 1]
          /\ m - (l - j) + 1 \in 1..m /\ after[j] = hits[m - (l - j) + 1]
      BY <1>3, <2>2, <3>1
    <3>3. m - (l - i) + 1 <= m - (l - j) + 1
      BY <1>1, <1>2
    <3> QED
      BY <1>2, <3>2, <3>3 DEF InOrder
  <2> QED
    BY <2>1, <2>2
<1> QED
  BY <1>4, <1>5 DEF after

\* No time that is recorded is to come.
LEMMA RecordedIsPast ==
  ASSUME NEW hits \in Seq(Nat), doorTime \in Nat, \A i \in DOMAIN hits : hits[i] <= doorTime
  PROVE  \A i \in DOMAIN Append(Pruned(hits), doorTime) : Append(Pruned(hits), doorTime)[i] <= doorTime
<1> DEFINE after == Append(Pruned(hits), doorTime)
           m == Len(hits)
           l == Len(after)
<1>1. /\ after \in Seq(Nat) /\ l \in Nat \ {0} /\ after[l] = doorTime
      /\ \A i \in 1..l - 1 : m - i + 1 \in 1..m /\ after[l - i] = hits[m - i + 1]
  BY RecordedIs
<1> HIDE DEF after
<1>2. DOMAIN after = 1..l /\ DOMAIN hits = 1..m
  BY <1>1
<1> HIDE DEF m, l
<1>3. ASSUME NEW i \in 1..l
      PROVE  after[i] <= doorTime
  <2>1. CASE i = l
    BY <1>1, <2>1
  <2>2. CASE i # l
    <3>1. l - i \in 1..l - 1 /\ l - (l - i) = i
      BY <1>1, <2>2
    <3> QED
      BY <1>1, <1>2, <3>1
  <2> QED
    BY <2>1, <2>2
<1> QED
  BY <1>2, <1>3 DEF after

\* Time makes old, and nothing else.
LEMMA CountedLater ==
  ASSUME NEW h \in Seq(Nat), NEW r, NEW cut \in Int, NEW later \in Int, cut <= later,
         Covered(h, r, cut)
  PROVE  Covered(h, r, later)
<1>1. \A i \in 0..Len(h) - 1 : Len(h) - i \in 1..Len(h)
  OBVIOUS
<1>2. \A i \in 1..Len(h) : h[i] \in Nat
  OBVIOUS
<1> QED
  BY <1>1, <1>2 DEF Covered

\* An attempt that is counted in the table alone.
LEMMA CountedMore ==
  ASSUME NEW h \in Seq(Nat), NEW r \in Seq(Nat), doorTime \in Nat, InOrder(r),
         \A i \in DOMAIN h : h[i] <= doorTime,
         Covered(h, r, doorTime - DoorWindow)
  PROVE  Covered(h, Append(Pruned(r), doorTime), doorTime - DoorWindow)
<1> DEFINE after == Append(Pruned(r), doorTime)
           cut == doorTime - DoorWindow
           m == Len(r)
           l == Len(after)
           x == Len(h)
<1>1. /\ after \in Seq(Nat) /\ l \in Nat \ {0} /\ l <= m + 1
      /\ after[l] = doorTime
      /\ \A i \in 1..l - 1 : m - i + 1 \in 1..m /\ after[l - i] = r[m - i + 1]
      /\ \A i \in 1..m : r[m - i + 1] > cut => i <= l - 1
  BY RecordedIs
<1>2. /\ m \in Nat /\ x \in Nat /\ cut \in Int
      /\ \A i \in 1..m : r[i] \in Nat
      /\ \A i \in 1..x : h[i] \in Nat /\ h[i] <= doorTime
      /\ \A i, j \in 1..m : i <= j => r[i] <= r[j]
  BY DoorNumbers DEF InOrder
<1>3. \A i \in 0..x - 1 : h[x - i] > cut => i < m /\ r[m - i] >= h[x - i]
  BY DEF Covered
<1> HIDE DEF after, cut, m, l, x
<1>4. ASSUME NEW i \in 0..x - 1, h[x - i] > cut
      PROVE  i < l /\ after[l - i] >= h[x - i]
  <2>1. x - i \in 1..x
    BY <1>2
  <2>2. h[x - i] \in Nat /\ h[x - i] <= doorTime
    BY <1>2, <2>1
  <2>3. CASE i = 0
    BY <1>1, <2>2, <2>3
  <2>4. CASE i # 0
    <3>1. i < m /\ r[m - i] >= h[x - i]
      BY <1>3, <1>4
    <3>2. m - i \in 1..m /\ m - i + 1 \in 1..m /\ i \in 1..m /\ m - i <= m - i + 1
      BY <1>2, <2>4, <3>1
    <3>3. r[m - i] <= r[m - i + 1] /\ r[m - i] \in Nat /\ r[m - i + 1] \in Nat
      BY <1>2, <3>2
    <3>4. r[m - i + 1] > cut /\ r[m - i + 1] >= h[x - i]
      BY <1>2, <1>4, <2>2, <3>1, <3>3
    <3>5. i <= l - 1
      BY <1>1, <3>2, <3>4
    <3>6. i \in 1..l - 1 /\ i < l
      BY <1>1, <3>2, <3>5
    <3>7. after[l - i] = r[m - i + 1]
      BY <1>1, <3>6
    <3> QED
      BY <3>4, <3>6, <3>7
  <2> QED
    BY <2>3, <2>4
<1> QED
  BY <1>4 DEF Covered, after, cut, l, x

\* An attempt that is counted in both.
LEMMA CountedBoth ==
  ASSUME NEW h \in Seq(Nat), NEW r \in Seq(Nat), doorTime \in Nat,
         Covered(h, r, doorTime - DoorWindow)
  PROVE  Covered(Append(Pruned(h), doorTime), Append(Pruned(r), doorTime), doorTime - DoorWindow)
<1> DEFINE after == Append(Pruned(r), doorTime)
           more == Append(Pruned(h), doorTime)
           cut == doorTime - DoorWindow
           m == Len(r)
           l == Len(after)
           x == Len(h)
           y == Len(more)
<1>1. /\ l \in Nat \ {0} /\ l <= m + 1
      /\ after[l] = doorTime
      /\ \A i \in 1..l - 1 : m - i + 1 \in 1..m /\ after[l - i] = r[m - i + 1]
      /\ \A i \in 1..m : r[m - i + 1] > cut => i <= l - 1
  BY RecordedIs
<1>2. /\ y \in Nat \ {0} /\ y <= x + 1
      /\ more[y] = doorTime
      /\ \A i \in 1..y - 1 : x - i + 1 \in 1..x /\ more[y - i] = h[x - i + 1]
  BY RecordedIs
<1>3. /\ m \in Nat /\ x \in Nat /\ cut \in Int
      /\ \A i \in 1..m : r[i] \in Nat
      /\ \A i \in 1..x : h[i] \in Nat
  BY DoorNumbers
<1>4. \A i \in 0..x - 1 : h[x - i] > cut => i < m /\ r[m - i] >= h[x - i]
  BY DEF Covered
<1> HIDE DEF after, more, cut, m, l, x, y
<1>5. ASSUME NEW i \in 0..y - 1, more[y - i] > cut
      PROVE  i < l /\ after[l - i] >= more[y - i]
  <2>1. CASE i = 0
    BY <1>1, <1>2, <2>1
  <2>2. CASE i # 0
    <3>1. i \in 1..y - 1
      BY <1>2, <2>2
    <3>2. x - i + 1 \in 1..x /\ more[y - i] = h[x - i + 1]
      BY <1>2, <3>1
    <3>3. i - 1 \in 0..x - 1 /\ x - (i - 1) = x - i + 1
      BY <1>2, <1>3, <3>1
    <3>4. i - 1 < m /\ r[m - (i - 1)] >= h[x - i + 1]
      BY <1>4, <1>5, <3>2, <3>3
    <3>5. m - (i - 1) = m - i + 1 /\ m - i + 1 \in 1..m /\ i \in 1..m
      BY <1>3, <3>1, <3>4
    <3>6. r[m - i + 1] \in Nat /\ h[x - i + 1] \in Nat
      BY <1>3, <3>2, <3>5
    <3>7. r[m - i + 1] > cut
      BY <1>3, <1>5, <3>2, <3>4, <3>5, <3>6
    <3>8. i \in 1..l - 1 /\ i < l
      BY <1>1, <3>1, <3>5, <3>7
    <3>9. after[l - i] = r[m - i + 1]
      BY <1>1, <3>8
    <3> QED
      BY <3>2, <3>4, <3>5, <3>8, <3>9
  <2> QED
    BY <2>1, <2>2
<1> QED
  BY <1>5 DEF Covered, after, more, cut, l, y

\* What is recorded when the table was not full does not fill it over its limit.
LEMMA RecordedFits ==
  ASSUME NEW hits \in Seq(Nat), NEW limit \in Nat, doorTime \in Nat, ~Full(hits, limit)
  PROVE  Append(Pruned(hits), doorTime) \in Seq(Nat) /\ Len(Append(Pruned(hits), doorTime)) <= limit
<1>1. Pruned(hits) \in Seq(Nat)
  BY PrunedIs
<1>2. Len(Pruned(hits)) \in Nat /\ Len(Pruned(hits)) < limit
  BY <1>1 DEF Full
<1>3. /\ Append(Pruned(hits), doorTime) \in Seq(Nat)
      /\ Len(Append(Pruned(hits), doorTime)) = Len(Pruned(hits)) + 1
  BY <1>1, AppendProperties
<1> QED
  BY <1>2, <1>3


\* What the integer quotient is.
LEMMA QuotientBounds ==
  ASSUME NEW a \in Nat, NEW d \in Nat \ {0}
  PROVE  a \div d \in Nat /\ a < (a \div d + 1) * d
BY SMT

\* Of no attempts, all are counted.
LEMMA NothingIsCounted ==
  ASSUME NEW r, NEW cut
  PROVE  Covered(<<>>, r, cut) /\ InOrder(<<>>)
<1>1. Len(<<>>) = 0 /\ DOMAIN <<>> = {}
  OBVIOUS
<1>2. 0..Len(<<>>) - 1 = {}
  BY <1>1
<1> QED
  BY <1>1, <1>2, Zenon DEF Covered, InOrder

\* It holds of the empty tables of a process that has just started.
LEMMA DoorInitial == DoorInit => DoorInv
<1> SUFFICES ASSUME DoorInit
             PROVE  DoorInv
  OBVIOUS
<1>1. <<>> \in Seq(Nat) /\ Len(<<>>) = 0 /\ \A i \in DOMAIN <<>> : FALSE
  OBVIOUS
<1>2. /\ loginHits = [k \in Keys |-> <<>>] /\ registerHits = [s \in SourceKeys |-> <<>>]
      /\ failures = [k \in Keys |-> <<>>] /\ hashings = [s \in SourceKeys |-> <<>>]
      /\ promised = NoPromise /\ doorTime = 0
  BY DEF DoorInit
<1>3. /\ doorTime \in Nat /\ loginHits \in [Keys -> Seq(Nat)] /\ registerHits \in [SourceKeys -> Seq(Nat)]
      /\ hashings \in [SourceKeys -> Seq(Nat)]
  BY <1>1, <1>2
<1>4. failures = loginHits
  BY <1>2, Zenon
<1>5. \A k \in Keys : Len(loginHits[k]) <= LoginLimit
  BY <1>1, <1>2, DoorNumbers
<1>6. ASSUME NEW s \in SourceKeys
      PROVE  /\ Len(registerHits[s]) <= RegisterLimit /\ InOrder(registerHits[s])
             /\ \A i \in DOMAIN registerHits[s] : registerHits[s][i] <= doorTime
             /\ \A i \in DOMAIN hashings[s] : hashings[s][i] <= doorTime
             /\ Covered(hashings[s], registerHits[s], doorTime - DoorWindow)
  <2>1. registerHits[s] = <<>> /\ hashings[s] = <<>>
    BY <1>2
  <2>2. Len(registerHits[s]) <= RegisterLimit
    BY <1>1, <2>1, DoorNumbers
  <2> QED
    BY <1>1, <2>1, <2>2, NothingIsCounted, Zenon
<1> QED
  BY <1>2, <1>3, <1>4, <1>5, <1>6, Zenon DEF DoorInv

\* The login table, when what was tried is counted for some keys.
LEMMA LoginIsRecorded ==
  ASSUME DoorInv, NEW keys, Over(loginHits, LoginLimit, keys) = {}
  PROVE  LET after == Recorded(loginHits, keys)
         IN /\ after \in [Keys -> Seq(Nat)]
            /\ \A k \in Keys : Len(after[k]) <= LoginLimit
            /\ \A k \in Keys \ keys : after[k] = loginHits[k]
<1> DEFINE after == Recorded(loginHits, keys)
<1>0. DOMAIN loginHits = Keys
  BY DEF DoorInv
<1>1. after = [k \in Keys |-> IF k \in keys THEN Append(Pruned(loginHits[k]), doorTime) ELSE loginHits[k]]
  BY <1>0 DEF Recorded
<1> HIDE DEF after
<1>2. ASSUME NEW k \in keys \cap Keys
      PROVE  /\ Append(Pruned(loginHits[k]), doorTime) \in Seq(Nat)
             /\ Len(Append(Pruned(loginHits[k]), doorTime)) <= LoginLimit
  <2>1. k \in Keys /\ loginHits[k] \in Seq(Nat) /\ LoginLimit \in Nat /\ doorTime \in Nat
    BY DoorNumbers DEF DoorInv
  <2>2. ~Full(loginHits[k], LoginLimit)
    BY <1>0 DEF Over
  <2> QED
    BY <2>1, <2>2, RecordedFits
<1>3. \A k \in Keys : loginHits[k] \in Seq(Nat) /\ Len(loginHits[k]) <= LoginLimit
  BY DEF DoorInv
<1>4. \A k \in Keys \ keys : after[k] = loginHits[k]
  BY <1>1, Zenon
<1>5. \A k \in keys \cap Keys : after[k] = Append(Pruned(loginHits[k]), doorTime)
  BY <1>1, Zenon
<1>6. \A k \in Keys : after[k] \in Seq(Nat) /\ Len(after[k]) <= LoginLimit
  BY <1>2, <1>3, <1>4, <1>5, Zenon
<1>7. after \in [Keys -> Seq(Nat)]
  BY <1>1, <1>6, Zenon
<1> QED
  BY <1>4, <1>6, <1>7 DEF after

\* And when they are cleared.
LEMMA LoginIsCleared ==
  ASSUME DoorInv, NEW keys
  PROVE  LET after == Cleared(loginHits, keys)
         IN /\ after \in [Keys -> Seq(Nat)]
            /\ \A k \in Keys : Len(after[k]) <= LoginLimit
            /\ \A k \in Keys \ keys : after[k] = loginHits[k]
<1> DEFINE after == Cleared(loginHits, keys)
<1>1. after = [k \in Keys |-> IF k \in keys THEN <<>> ELSE loginHits[k]]
  BY DEF Cleared, DoorInv
<1> HIDE DEF after
<1>2. <<>> \in Seq(Nat) /\ Len(<<>>) <= LoginLimit
  BY DoorNumbers
<1>3. \A k \in Keys : loginHits[k] \in Seq(Nat) /\ Len(loginHits[k]) <= LoginLimit
  BY DEF DoorInv
<1>4. \A k \in Keys \ keys : after[k] = loginHits[k]
  BY <1>1, Zenon
<1>5. \A k \in keys \cap Keys : after[k] = <<>>
  BY <1>1, Zenon
<1>6. \A k \in Keys : after[k] \in Seq(Nat) /\ Len(after[k]) <= LoginLimit
  BY <1>2, <1>3, <1>4, <1>5, Zenon
<1>7. after \in [Keys -> Seq(Nat)]
  BY <1>1, <1>6, Zenon
<1> QED
  BY <1>4, <1>6, <1>7 DEF after

\* The promise, when some keys are counted or cleared.
LEMMA PromiseStays ==
  ASSUME DoorInv, NEW keys, PromiseKept(keys),
         \A k \in Keys \ keys : loginHits'[k] = loginHits[k]
  PROVE  promised' # NoPromise =>
           /\ promised'.key \in Keys /\ promised'.until \in Int
           /\ loginHits'[promised'.key] # <<>>
           /\ loginHits'[promised'.key][1] + DoorWindow < promised'.until
BY DEF DoorInv, PromiseKept

\* What a refusal tells: the oldest attempt that was counted is too old by then.
LEMMA RefusalWaits ==
  ASSUME DoorInv, NEW key \in Keys, Refused(key), Full(loginHits[key], LoginLimit)
  PROVE  /\ promised'.key = key /\ promised'.until \in Int
         /\ loginHits[key] # <<>> /\ loginHits[key][1] + DoorWindow < promised'.until
<1> DEFINE hits == loginHits[key]
           m == Len(hits)
           left == DoorWindow - (doorTime - Head(Pruned(hits)))
           w == Wait(hits)
<1>1. hits \in Seq(Nat) /\ m <= LoginLimit /\ doorTime \in Nat
  BY DEF DoorInv
<1>2. PICK n \in 0..m : /\ Stale(hits, n, doorTime - DoorWindow)
                        /\ Pruned(hits) \in Seq(Nat) /\ Len(Pruned(hits)) = m - n
                        /\ \A i \in 1..m - n : Pruned(hits)[i] = hits[n + i]
  BY <1>1, PrunedIs
<1>3. Len(Pruned(hits)) >= LoginLimit
  BY DEF Full
<1>4. m \in Nat /\ n \in Nat /\ LoginLimit \in Nat \ {0}
  BY <1>1, <1>2, DoorNumbers
<1>5. n = 0 /\ m # 0
  BY <1>1, <1>2, <1>3, <1>4
<1>6. 1 \in 1..m - n /\ 1 \in 1..m
  BY <1>4, <1>5
<1>7. Pruned(hits)[1] = hits[1]
  BY <1>2, <1>5, <1>6
<1>8. Head(Pruned(hits)) = hits[1]
  BY <1>7
<1>9. hits[1] \in Nat /\ hits # <<>> /\ hits[1] > doorTime - DoorWindow
  <2>1. hits[1] \in Nat /\ hits # <<>>
    BY <1>1, <1>6
  <2>2. hits[0 + 1] > doorTime - DoorWindow
    BY <1>2, <1>4, <1>5 DEF Stale
  <2> QED
    BY <2>1, <2>2
<1>10. left \in Nat /\ left = DoorWindow - (doorTime - hits[1])
  <2>1. left = DoorWindow - (doorTime - hits[1])
    BY <1>8, Zenon
  <2> DEFINE h == hits[1]
  <2>2. h \in Nat /\ h > doorTime - DoorWindow
    BY <1>9
  <2> HIDE DEF h
  <2>3. DoorWindow - (doorTime - h) \in Nat
    BY <1>1, <2>2, DoorNumbers
  <2> QED
    BY <2>1, <2>3, Zenon DEF h
<1>11. w = IF left \div Second > 1 THEN left \div Second ELSE 1
  BY Zenon DEF Wait
<1>12. promised'.key = key /\ promised'.until = doorTime + (w + 1) * Second
  BY DEF Refused
<1> HIDE DEF left, w, hits
<1>13. left \div Second \in Nat /\ left < (left \div Second + 1) * Second
  BY <1>10, DoorNumbers, QuotientBounds
<1> DEFINE q == left \div Second
<1>14. q \in Nat /\ left < (q + 1) * Second
  BY <1>13
<1>15. w \in Nat /\ q <= w
  BY <1>11, <1>14
<1> HIDE DEF q
<1>16. (q + 1) * Second <= (w + 1) * Second /\ (w + 1) * Second \in Nat /\ (q + 1) * Second \in Nat
  BY <1>14, <1>15, DoorNumbers
<1> DEFINE a == (q + 1) * Second
           b == (w + 1) * Second
<1>17. left < a /\ a <= b /\ a \in Nat /\ b \in Nat /\ promised'.until = doorTime + b
  BY <1>12, <1>14, <1>16
<1> HIDE DEF a, b
<1>18. promised'.until \in Int /\ hits[1] + DoorWindow < promised'.until
  BY <1>1, <1>9, <1>10, <1>17, DoorNumbers
<1> QED
  BY <1>9, <1>12, <1>18 DEF hits


\* The registration table, when an attempt of a source is counted.
LEMMA RegisterIsRecorded ==
  ASSUME DoorInv, NEW source, Over(registerHits, RegisterLimit, {source}) = {}
  PROVE  LET after == Recorded(registerHits, {source})
         IN /\ after \in [SourceKeys -> Seq(Nat)]
            /\ \A s \in SourceKeys :
                 /\ after[s] = IF s = source THEN Append(Pruned(registerHits[s]), doorTime)
                                            ELSE registerHits[s]
                 /\ Len(after[s]) <= RegisterLimit /\ InOrder(after[s])
                 /\ \A i \in DOMAIN after[s] : after[s][i] <= doorTime
<1> DEFINE after == Recorded(registerHits, {source})
<1>0. DOMAIN registerHits = SourceKeys
  BY DEF DoorInv
<1>1. after = [s \in SourceKeys |->
                 IF s = source THEN Append(Pruned(registerHits[s]), doorTime) ELSE registerHits[s]]
  <2>1. \A s : s \in {source} <=> s = source
    OBVIOUS
  <2> QED
    BY <1>0, <2>1 DEF Recorded
<1> HIDE DEF after
<1>2. ASSUME NEW s \in SourceKeys
      PROVE  /\ after[s] \in Seq(Nat)
             /\ after[s] = IF s = source THEN Append(Pruned(registerHits[s]), doorTime)
                                        ELSE registerHits[s]
             /\ Len(after[s]) <= RegisterLimit /\ InOrder(after[s])
             /\ \A i \in DOMAIN after[s] : after[s][i] <= doorTime
  <2>1. /\ registerHits[s] \in Seq(Nat) /\ doorTime \in Nat /\ RegisterLimit \in Nat
        /\ Len(registerHits[s]) <= RegisterLimit /\ InOrder(registerHits[s])
        /\ \A i \in DOMAIN registerHits[s] : registerHits[s][i] <= doorTime
    BY DoorNumbers DEF DoorInv
  <2>2. CASE s = source
    <3> DEFINE hits == Append(Pruned(registerHits[s]), doorTime)
    <3>1. ~Full(registerHits[s], RegisterLimit)
      BY <1>0, <2>2 DEF Over
    <3>2. hits \in Seq(Nat) /\ Len(hits) <= RegisterLimit
      BY <2>1, <3>1, RecordedFits
    <3>3. InOrder(hits) /\ \A i \in DOMAIN hits : hits[i] <= doorTime
      BY <2>1, RecordedInOrder
    <3>4. after[s] = hits
      BY <1>1, <2>2
    <3> QED
      BY <2>2, <3>2, <3>3, <3>4, Zenon
  <2>3. CASE s # source
    BY <1>1, <2>1, <2>3, Zenon
  <2> QED
    BY <2>2, <2>3
<1>3. after \in [SourceKeys -> Seq(Nat)]
  BY <1>1, <1>2, Zenon
<1> QED
  BY <1>2, <1>3 DEF after

\* Every step keeps the invariant.
LEMMA DoorStep ==
  ASSUME DoorInv, [DoorNext]_dvars
  PROVE  DoorInv'
<1>t. /\ doorTime \in Nat
      /\ loginHits \in [Keys -> Seq(Nat)] /\ registerHits \in [SourceKeys -> Seq(Nat)]
      /\ failures = loginHits /\ hashings \in [SourceKeys -> Seq(Nat)]
  BY DEF DoorInv
<1>l. ASSUME UNCHANGED <<doorTime, registerHits, hashings>>,
             loginHits' \in [Keys -> Seq(Nat)], \A k \in Keys : Len(loginHits'[k]) <= LoginLimit,
             failures' = loginHits',
             promised' # NoPromise =>
               /\ promised'.key \in Keys /\ promised'.until \in Int
               /\ loginHits'[promised'.key] # <<>>
               /\ loginHits'[promised'.key][1] + DoorWindow < promised'.until
      PROVE  DoorInv'
  BY <1>l DEF DoorInv
<1>r. ASSUME UNCHANGED <<doorTime, loginHits, failures, promised>>,
             registerHits' \in [SourceKeys -> Seq(Nat)], hashings' \in [SourceKeys -> Seq(Nat)],
             \A s \in SourceKeys :
               /\ Len(registerHits'[s]) <= RegisterLimit /\ InOrder(registerHits'[s])
               /\ \A i \in DOMAIN registerHits'[s] : registerHits'[s][i] <= doorTime
               /\ \A i \in DOMAIN hashings'[s] : hashings'[s][i] <= doorTime
               /\ Covered(hashings'[s], registerHits'[s], doorTime - DoorWindow)
      PROVE  DoorInv'
  BY <1>r DEF DoorInv
<1>s. ASSUME NEW key \in Keys, Refused(key), Full(loginHits[key], LoginLimit), doorTime' = doorTime
      PROVE  DoorInv'
  <2>1. UNCHANGED <<loginHits, registerHits, registered, failures, hashings>>
    BY <1>s DEF Refused
  <2>2. /\ promised'.key = key /\ promised'.until \in Int
        /\ loginHits[key] # <<>> /\ loginHits[key][1] + DoorWindow < promised'.until
    BY <1>s, RefusalWaits
  <2> QED
    BY <1>l, <1>s, <1>t, <2>1, <2>2 DEF DoorInv
<1>v. ASSUME NEW keys, Over(loginHits, LoginLimit, keys) = {}, doorTime' = doorTime,
             \/ /\ loginHits' = Recorded(loginHits, keys)
                /\ failures' = Recorded(failures, keys)
             \/ /\ loginHits' = Cleared(loginHits, keys)
                /\ failures' = Cleared(failures, keys),
             PromiseKept(keys), UNCHANGED <<registerHits, hashings>>
      PROVE  DoorInv'
  <2>1. failures' = loginHits'
    BY <1>t, <1>v
  <2>2. /\ loginHits' \in [Keys -> Seq(Nat)]
        /\ \A k \in Keys : Len(loginHits'[k]) <= LoginLimit
        /\ \A k \in Keys \ keys : loginHits'[k] = loginHits[k]
    BY <1>v, LoginIsRecorded, LoginIsCleared
  <2>3. promised' # NoPromise =>
          /\ promised'.key \in Keys /\ promised'.until \in Int
          /\ loginHits'[promised'.key] # <<>>
          /\ loginHits'[promised'.key][1] + DoorWindow < promised'.until
    BY <1>v, <2>2, PromiseStays
  <2> QED
    BY <1>l, <1>v, <2>1, <2>2, <2>3
<1>1. ASSUME NEW e \in Emails, NEW s \in Sources, NEW right \in BOOLEAN, Login(e, s, right)
      PROVE  DoorInv'
  <2> DEFINE keys == LoginKeys(e, s)
             over == Over(loginHits, LoginLimit, keys)
  <2>1. keys = {e, s} /\ doorTime' = doorTime
    BY <1>1 DEF LoginKeys, Login, Posted
  <2>2. CASE over # {} /\ Refused(IF e \in over THEN e ELSE s)
    <3> DEFINE key == IF e \in over THEN e ELSE s
    <3>1. key \in over
      BY <2>1, <2>2 DEF Over
    <3>2. key \in Keys /\ Full(loginHits[key], LoginLimit) /\ Refused(key)
      BY <1>t, <2>2, <3>1 DEF Over
    <3> HIDE DEF key
    <3> QED
      BY <1>s, <2>1, <3>2
  <2>3. CASE /\ over = {} /\ ~right
             /\ loginHits' = Recorded(loginHits, keys)
             /\ failures' = Recorded(failures, {e, s})
             /\ PromiseKept(keys)
             /\ UNCHANGED <<registerHits, registered, hashings>>
    BY <1>v, <2>1, <2>3
  <2>4. CASE /\ over = {} /\ right
             /\ loginHits' = Cleared(loginHits, keys)
             /\ failures' = Cleared(failures, {e, s})
             /\ PromiseKept(keys)
             /\ UNCHANGED <<registerHits, registered, hashings>>
    BY <1>v, <2>1, <2>4
  <2> HIDE DEF keys, over
  <2> QED
    BY <1>1, <2>2, <2>3, <2>4, Zenon DEF Login, keys, over
<1>2. ASSUME NEW s \in Sources, NEW resolves \in BOOLEAN, LoginWithToken(s, resolves)
      PROVE  DoorInv'
  <2> DEFINE over == Over(loginHits, LoginLimit, {s})
  <2>1. doorTime' = doorTime
    BY <1>2 DEF LoginWithToken, Posted
  <2>2. CASE over # {} /\ Refused(s)
    <3>1. s \in Keys /\ Full(loginHits[s], LoginLimit)
      BY <1>t, <2>2 DEF Over
    <3> QED
      BY <1>s, <2>1, <2>2, <3>1
  <2>3. CASE /\ over = {} /\ ~resolves
             /\ loginHits' = Recorded(loginHits, {s})
             /\ failures' = Recorded(failures, {s})
             /\ PromiseKept({s})
             /\ UNCHANGED <<registerHits, registered, hashings>>
    BY <1>v, <2>1, <2>3
  <2>4. CASE /\ over = {} /\ resolves
             /\ loginHits' = Cleared(loginHits, {s})
             /\ failures' = Cleared(failures, {s})
             /\ PromiseKept({s})
             /\ UNCHANGED <<registerHits, registered, hashings>>
    BY <1>v, <2>1, <2>4
  <2> HIDE DEF over
  <2> QED
    BY <1>2, <2>2, <2>3, <2>4, Zenon DEF LoginWithToken, over
<1>3. ASSUME NEW s \in Sources, RegisterInvalid(s)
      PROVE  DoorInv'
  <2>1. /\ Over(registerHits, RegisterLimit, {s}) = {} /\ registerHits' = Recorded(registerHits, {s})
        /\ UNCHANGED <<doorTime, loginHits, failures, hashings, promised>>
    BY <1>3 DEF RegisterInvalid, Posted
  <2>2. /\ registerHits' \in [SourceKeys -> Seq(Nat)]
        /\ \A x \in SourceKeys :
             /\ registerHits'[x] = IF x = s THEN Append(Pruned(registerHits[x]), doorTime) ELSE registerHits[x]
             /\ Len(registerHits'[x]) <= RegisterLimit /\ InOrder(registerHits'[x])
             /\ \A i \in DOMAIN registerHits'[x] : registerHits'[x][i] <= doorTime
    BY <2>1, RegisterIsRecorded
  <2>3. ASSUME NEW x \in SourceKeys
        PROVE  /\ \A i \in DOMAIN hashings'[x] : hashings'[x][i] <= doorTime
               /\ Covered(hashings'[x], registerHits'[x], doorTime - DoorWindow)
    <3>1. /\ hashings[x] \in Seq(Nat) /\ registerHits[x] \in Seq(Nat)
          /\ InOrder(registerHits[x]) /\ \A i \in DOMAIN hashings[x] : hashings[x][i] <= doorTime
          /\ Covered(hashings[x], registerHits[x], doorTime - DoorWindow)
      BY DEF DoorInv
    <3>2. hashings'[x] = hashings[x]
      BY <2>1
    <3>3. CASE x = s
      <4>1. Covered(hashings[x], Append(Pruned(registerHits[x]), doorTime), doorTime - DoorWindow)
        BY <1>t, <3>1, CountedMore
      <4> QED
        BY <2>2, <3>1, <3>2, <3>3, <4>1
    <3>4. CASE x # s
      BY <2>2, <3>1, <3>2, <3>4, Zenon
    <3> QED
      BY <3>3, <3>4
  <2> QED
    BY <1>r, <1>t, <2>1, <2>2, <2>3
<1>4. ASSUME NEW e \in Emails, NEW s \in Sources, Register(e, s)
      PROVE  DoorInv'
  <2>1. /\ Over(registerHits, RegisterLimit, {s}) = {} /\ registerHits' = Recorded(registerHits, {s})
        /\ hashings' = Recorded(hashings, {s})
        /\ UNCHANGED <<doorTime, loginHits, failures, promised>>
    BY <1>4 DEF Register, Posted
  <2>2. /\ registerHits' \in [SourceKeys -> Seq(Nat)]
        /\ \A x \in SourceKeys :
             /\ registerHits'[x] = IF x = s THEN Append(Pruned(registerHits[x]), doorTime) ELSE registerHits[x]
             /\ Len(registerHits'[x]) <= RegisterLimit /\ InOrder(registerHits'[x])
             /\ \A i \in DOMAIN registerHits'[x] : registerHits'[x][i] <= doorTime
    BY <2>1, RegisterIsRecorded
  <2>3. hashings' = [x \in SourceKeys |->
                       IF x = s THEN Append(Pruned(hashings[x]), doorTime) ELSE hashings[x]]
    <3>1. DOMAIN hashings = SourceKeys /\ \A x : x \in {s} <=> x = s
      BY <1>t
    <3> QED
      BY <2>1, <3>1 DEF Recorded
  <2>4. \A x \in SourceKeys : hashings[x] \in Seq(Nat) /\ Append(Pruned(hashings[x]), doorTime) \in Seq(Nat)
    BY <1>t, RecordedIs
  <2>5. hashings' \in [SourceKeys -> Seq(Nat)]
    BY <2>3, <2>4, Zenon
  <2>6. ASSUME NEW x \in SourceKeys
        PROVE  /\ \A i \in DOMAIN hashings'[x] : hashings'[x][i] <= doorTime
               /\ Covered(hashings'[x], registerHits'[x], doorTime - DoorWindow)
    <3>1. /\ hashings[x] \in Seq(Nat) /\ registerHits[x] \in Seq(Nat)
          /\ \A i \in DOMAIN hashings[x] : hashings[x][i] <= doorTime
          /\ Covered(hashings[x], registerHits[x], doorTime - DoorWindow)
      BY DEF DoorInv
    <3>2. CASE x = s
      <4>1. hashings'[x] = Append(Pruned(hashings[x]), doorTime)
        BY <2>3, <3>2
      <4>2. Covered(Append(Pruned(hashings[x]), doorTime), Append(Pruned(registerHits[x]), doorTime),
                    doorTime - DoorWindow)
        BY <1>t, <3>1, CountedBoth
      <4>3. \A i \in DOMAIN Append(Pruned(hashings[x]), doorTime) :
              Append(Pruned(hashings[x]), doorTime)[i] <= doorTime
        BY <1>t, <3>1, RecordedIsPast
      <4>4. registerHits'[x] = Append(Pruned(registerHits[x]), doorTime)
        BY <2>2, <3>2
      <4> QED
        BY <4>1, <4>2, <4>3, <4>4, Zenon
    <3>3. CASE x # s
      <4>1. hashings'[x] = hashings[x] /\ registerHits'[x] = registerHits[x]
        BY <2>2, <2>3, <3>3
      <4> QED
        BY <3>1, <4>1, Zenon
    <3> QED
      BY <3>2, <3>3
  <2> QED
    BY <1>r, <1>t, <2>1, <2>2, <2>5, <2>6
<1>5. ASSUME DoorRestarts
      PROVE  DoorInv'
  <2>1. /\ doorTime' = doorTime /\ promised' = NoPromise
        /\ loginHits' = [k \in Keys |-> <<>>] /\ registerHits' = [s \in SourceKeys |-> <<>>]
        /\ failures' = [k \in Keys |-> <<>>] /\ hashings' = [s \in SourceKeys |-> <<>>]
    BY <1>5 DEF DoorRestarts, Posted
  <2>2. doorTime' \in Nat
    BY <1>t, <2>1
  <2>3. <<>> \in Seq(Nat) /\ Len(<<>>) = 0 /\ \A i \in DOMAIN <<>> : FALSE
    OBVIOUS
  <2>4. /\ loginHits' \in [Keys -> Seq(Nat)] /\ registerHits' \in [SourceKeys -> Seq(Nat)]
        /\ hashings' \in [SourceKeys -> Seq(Nat)]
    BY <2>1, <2>3
  <2>5. failures' = loginHits'
    BY <2>1, Zenon
  <2>6. \A k \in Keys : Len(loginHits'[k]) <= LoginLimit
    BY <2>1, <2>3, DoorNumbers
  <2>7. ASSUME NEW s \in SourceKeys
        PROVE  /\ Len(registerHits'[s]) <= RegisterLimit /\ InOrder(registerHits'[s])
               /\ \A i \in DOMAIN registerHits'[s] : registerHits'[s][i] <= doorTime'
               /\ \A i \in DOMAIN hashings'[s] : hashings'[s][i] <= doorTime'
               /\ Covered(hashings'[s], registerHits'[s], doorTime' - DoorWindow)
    <3>1. registerHits'[s] = <<>> /\ hashings'[s] = <<>>
      BY <2>1
    <3>2. Len(registerHits'[s]) <= RegisterLimit
      BY <2>3, <3>1, DoorNumbers
    <3> QED
      BY <2>3, <3>1, <3>2, NothingIsCounted, Zenon
  <2> QED
    BY <2>1, <2>2, <2>4, <2>5, <2>6, <2>7, Zenon DEF DoorInv
<1>6. ASSUME DoorTimePasses
      PROVE  DoorInv'
  <2>1. /\ doorTime' = doorTime + 1 /\ doorTime' \in Nat
        /\ UNCHANGED <<loginHits, registerHits, failures, hashings, promised>>
    BY <1>6, <1>t DEF DoorTimePasses
  <2>2. ASSUME NEW s \in SourceKeys
        PROVE  /\ \A i \in DOMAIN registerHits[s] : registerHits[s][i] <= doorTime'
               /\ \A i \in DOMAIN hashings[s] : hashings[s][i] <= doorTime'
               /\ Covered(hashings[s], registerHits[s], doorTime' - DoorWindow)
    <3>1. /\ hashings[s] \in Seq(Nat) /\ registerHits[s] \in Seq(Nat)
          /\ \A i \in DOMAIN registerHits[s] : registerHits[s][i] <= doorTime
          /\ \A i \in DOMAIN hashings[s] : hashings[s][i] <= doorTime
          /\ Covered(hashings[s], registerHits[s], doorTime - DoorWindow)
      BY DEF DoorInv
    <3>2. \A x \in Nat : x <= doorTime => x <= doorTime'
      BY <1>t, <2>1
    <3>3. /\ \A i \in DOMAIN registerHits[s] : registerHits[s][i] \in Nat
          /\ \A i \in DOMAIN hashings[s] : hashings[s][i] \in Nat
      BY <3>1
    <3>4. /\ doorTime - DoorWindow \in Int /\ doorTime' - DoorWindow \in Int
          /\ doorTime - DoorWindow <= doorTime' - DoorWindow
      BY <1>t, <2>1, DoorNumbers
    <3>5. Covered(hashings[s], registerHits[s], doorTime' - DoorWindow)
      BY <3>1, <3>4, CountedLater
    <3> QED
      BY <3>1, <3>2, <3>3, <3>5
  <2> QED
    BY <2>1, <2>2, Zenon DEF DoorInv
<1>7. CASE UNCHANGED dvars
  BY <1>7, Zenon DEF DoorInv, dvars
<1> QED
  BY <1>1, <1>2, <1>3, <1>4, <1>5, <1>6, <1>7, Zenon DEF DoorNext


\* What is left of the times of a source, of those that were young enough.
LEMMA CountedFits ==
  ASSUME NEW h \in Seq(Nat), NEW r \in Seq(Nat), NEW limit \in Nat, doorTime \in Nat,
         Len(r) <= limit, Covered(h, r, doorTime - DoorWindow)
  PROVE  Len(Pruned(h)) <= limit
<1> DEFINE x == Len(h)
           m == Len(r)
           k == Len(Pruned(h))
           cut == doorTime - DoorWindow
<1>1. PICK n \in 0..x : /\ Stale(h, n, cut) /\ k = x - n
  BY PrunedIs
<1>2. x \in Nat /\ m \in Nat /\ m <= limit /\ n \in Nat /\ n <= x
  BY <1>1
<1>3. n < x => h[n + 1] > cut
  BY <1>1 DEF Stale
<1>4. \A i \in 0..x - 1 : h[x - i] > cut => i < m
  BY DEF Covered
<1> HIDE DEF x, m, k, cut
<1>5. CASE n = x
  BY <1>1, <1>2, <1>5 DEF k
<1>6. CASE n < x
  <2>1. (x - n) - 1 \in 0..x - 1 /\ x - ((x - n) - 1) = n + 1
    BY <1>2, <1>6
  <2>2. (x - n) - 1 < m
    BY <1>3, <1>4, <1>6, <2>1
  <2> QED
    BY <1>1, <1>2, <2>2 DEF k
<1> QED
  BY <1>2, <1>5, <1>6

\* The throttle refuses enough and no more (throttle.py:43-93), for any addresses, sources,
\* limits and window, whatever the sources are called.
THEOREM ThrottleTheorem == DoorSpec => []ThrottleHolds
<1>1. DoorInv /\ [DoorNext]_dvars => DoorInv'
  BY DoorStep
<1>2. ASSUME DoorInv
      PROVE  ThrottleHolds
  <2>t. doorTime \in Nat /\ LoginLimit \in Nat /\ RegisterLimit \in Nat
    BY <1>2, DoorNumbers DEF DoorInv
  <2>1. ASSUME NEW k \in Keys
        PROVE  Len(Pruned(failures[k])) <= LoginLimit
    <3>1. failures[k] \in Seq(Nat) /\ Len(failures[k]) <= LoginLimit
      BY <1>2 DEF DoorInv
    <3>2. PICK n \in 0..Len(failures[k]) : Len(Pruned(failures[k])) = Len(failures[k]) - n
      BY <2>t, <3>1, PrunedIs
    <3> QED
      BY <2>t, <3>1, <3>2
  <2>2. ASSUME NEW s \in SourceKeys
        PROVE  Len(Pruned(hashings[s])) <= RegisterLimit
    <3>1. /\ hashings[s] \in Seq(Nat) /\ registerHits[s] \in Seq(Nat)
          /\ Len(registerHits[s]) <= RegisterLimit
          /\ Covered(hashings[s], registerHits[s], doorTime - DoorWindow)
      BY <1>2 DEF DoorInv
    <3> QED
      BY <2>t, <3>1, CountedFits
  <2>3. ASSUME promised # NoPromise, doorTime >= promised.until
        PROVE  ~Full(loginHits[promised.key], LoginLimit)
    <3> DEFINE hits == loginHits[promised.key]
               until == promised.until
    <3>1. /\ hits \in Seq(Nat) /\ Len(hits) <= LoginLimit /\ until \in Int
          /\ hits # <<>> /\ hits[1] + DoorWindow < until /\ until <= doorTime
      BY <1>2, <2>3 DEF DoorInv
    <3> HIDE DEF hits, until
    <3>2. PICK n \in 0..Len(hits) : /\ Stale(hits, n, doorTime - DoorWindow)
                                    /\ Len(Pruned(hits)) = Len(hits) - n
      BY <2>t, <3>1, PrunedIs
    <3>3. Len(hits) \in Nat /\ Len(hits) # 0
      BY <3>1, EmptySeq
    <3>4. hits[1] \in Nat
      BY <3>1, <3>3
    <3>5. n # 0
      <4>1. 0 < Len(hits) /\ ~(hits[1] > doorTime - DoorWindow)
        BY <2>t, <3>1, <3>3, <3>4, DoorNumbers
      <4> QED
        BY <3>2, <4>1 DEF Stale
    <3>6. Len(Pruned(hits)) < LoginLimit
      BY <2>t, <3>1, <3>2, <3>3, <3>5
    <3>7. ~Full(hits, LoginLimit)
      BY <2>t, <3>2, <3>3, <3>6 DEF Full
    <3> QED
      BY <3>7 DEF hits
  <2> QED
    BY <2>1, <2>2, <2>3 DEF ThrottleHolds, AttemptsAreBounded, WaitsAreEnough
<1> QED
  BY DoorInitial, <1>1, <1>2, PTL DEF DoorSpec

-----------------------------------------------------------------------------
(* Backups.  What a run has backed up is not written again, so a restore   *)
(* reads one thing from its beginning to its end, whatever runs beside it. *)

Tars == [BackupDays -> Nat]
CopyRow == [db : Int, tar : Tars, of : BackupDays, here : SUBSET Files]
RemoteRow == [db : Int, tar : Tars, of : BackupDays]
RestoreSteps == {"idle", "set aside", "set aside log", "copy", "copying", "count", "extract",
                 "extracting"}
RestoreRow == [pc : RestoreSteps, place : {"", "local", "bucket"}, run : Nat, runs : Nat,
               todo : SUBSET BackupDays, file : BackupDays \cup {NoDayFile}]

BackupsType ==
  /\ data \in [db : Int, base : Int, wal : Int] /\ made \in Nat \ {0} /\ running \in BOOLEAN
  /\ backupDay \in BackupDays /\ logged \in Tars /\ written \in Tars
  /\ copies \in Seq(CopyRow) /\ remote \in Seq(RemoteRow) /\ Len(remote) = Len(copies)
  /\ backup \in {"idle", "dump", "archive", "upload", "prune"}
  /\ restore \in RestoreRow
  /\ restored \in [from : Int, to : Int, cut : BOOLEAN]

\* A run that succeeded left what it should, and the one that runs, what its steps have done.
SavedOK ==
  /\ \A i \in succeeded :
       /\ i \in 1..Len(copies) /\ copies[i].db \notin {0, Half}
       /\ IsUploaded(i)
       /\ \E j \in i..Len(copies) : IsWhole(j) /\ IsUploaded(j)
  /\ backup # "idle" => ThisRun # 0 /\ ThisRun \notin succeeded /\ copies[ThisRun].here = Files
  /\ backup \in {"dump", "archive"} => copies[ThisRun].tar = NoTar
  /\ backup = "dump" => copies[ThisRun].db = 0
  /\ backup \in {"dump", "archive", "upload"} => remote[ThisRun].db = 0
  /\ backup \in {"archive", "upload", "prune"} => copies[ThisRun].db \notin {0, Half}
  /\ backup = "prune" =>
       remote[ThisRun].db = copies[ThisRun].db /\ remote[ThisRun].tar = copies[ThisRun].tar

\* The steps of a restore, and what they have done, unless an attempt was cut between two.
RestoreOK ==
  /\ restore.pc # "idle" =>
       /\ ~running /\ restore.run \in 1..Len(copies) /\ Restorable.db \notin {0, Half}
  /\ running => data.db # 0
  /\ restore.pc \in {"set aside log", "copy"} => data.db = 0
  /\ ~restored.cut =>
       /\ restored.from = restored.to
       /\ data.db = 0 /\ restore.pc # "set aside log" => data.wal = 0
       /\ restore.pc = "copying" => data.db = Half /\ data.wal = 0
       /\ restore.pc \in {"count", "extract", "extracting"} => data.db = Restorable.db /\ data.wal = 0

\* The files that are left to extract, or one of which is half extracted, are of the archive.
ExtractOK ==
  restore.todo \cup BeingWritten # {} =>
    /\ restore.pc = "extracting" /\ Restorable.of \in extracted
    /\ \A d \in restore.todo \cup BeingWritten : Restorable.tar[d] > 0

\* An archive has nothing of the days after its own, and of the days before it, all that was
\* written, but for those an archive was extracted of, or half extracted.
TarOK(tar, of) ==
  /\ of <= backupDay
  /\ \A d \in BackupDays :
       /\ d > of => tar[d] = 0
       /\ 0 < tar[d] /\ tar[d] < written[d] => d = of \/ d \in extracted \cup halved

AuditOK ==
  /\ \A d \in BackupDays : d > backupDay => logged[d] = 0
  /\ OtherDaysSurvive
  /\ \A i \in 1..Len(copies) : TarOK(copies[i].tar, copies[i].of) /\ TarOK(remote[i].tar, remote[i].of)

BackupsInv == BackupsType /\ SavedOK /\ RestoreOK /\ ExtractOK /\ AuditOK

\* The bounds are natural numbers, and the two marks are no versions of the database.
LEMMA BackupNumbers ==
  /\ BackupKeep \in Nat \ {0} /\ MaxMade \in Nat /\ MaxBackups \in Nat /\ MaxRestores \in Nat
  /\ MaxBackupDay \in Nat
  /\ BackupDays \subseteq Nat /\ 0 \in BackupDays
  /\ Half \in Int /\ Foreign \in Int /\ Half # 0 /\ Foreign # 0
BY BackupsAssumption DEF BackupDays, Half, Foreign

\* What is seen of a directory: nothing without the file, and the file alone without a log.
LEMMA VisibleIs ==
  ASSUME data \in [db : Int, base : Int, wal : Int]
  PROVE  /\ Visible \in Int /\ CheckpointedData \in [db : Int, base : Int, wal : Int]
         /\ Visible = 0 <=> data.db = 0
         /\ data.wal = 0 => Visible = data.db
         /\ CheckpointedData.db = Visible /\ CheckpointedData.wal = 0
<1>1. Visible \in Int
  BY BackupNumbers DEF Visible
<1>2. Visible = 0 <=> data.db = 0
  BY BackupNumbers DEF Visible
<1>3. data.wal = 0 => Visible = data.db
  BY DEF Visible
<1> HIDE DEF Visible
<1>4. /\ CheckpointedData \in [db : Int, base : Int, wal : Int]
      /\ CheckpointedData.db = Visible /\ CheckpointedData.wal = 0
  BY <1>1 DEF CheckpointedData
<1> QED
  BY <1>1, <1>2, <1>3, <1>4

\* The rows of the two tables.
LEMMA RowsAre ==
  ASSUME BackupsType
  PROVE  /\ Len(copies) \in Nat /\ Len(remote) = Len(copies)
         /\ DOMAIN copies = 1..Len(copies) /\ DOMAIN remote = 1..Len(copies)
         /\ \A i \in 1..Len(copies) : copies[i] \in CopyRow /\ remote[i] \in RemoteRow
<1>1. copies \in Seq(CopyRow) /\ remote \in Seq(RemoteRow) /\ Len(remote) = Len(copies)
  BY DEF BackupsType
<1> QED
  BY <1>1

\* A backup without audit files is one of the archives.
LEMMA NoTarIs == NoTar \in Tars /\ \A d \in BackupDays : NoTar[d] = 0
BY DEF NoTar, Tars

\* It holds before the first backup.
LEMMA BackupsInitial == BackupsInit => BackupsInv
<1> SUFFICES ASSUME BackupsInit
             PROVE  BackupsInv
  OBVIOUS
<1>1. /\ data = [db |-> 1, base |-> 0, wal |-> 0] /\ made = 1 /\ running = TRUE
      /\ backupDay = 0 /\ logged = NoTar /\ written = NoTar
      /\ copies = <<>> /\ remote = <<>> /\ backup = "idle" /\ restore = NoRestore
      /\ succeeded = {} /\ extracted = {} /\ restored = [from |-> 1, to |-> 1, cut |-> FALSE]
  BY DEF BackupsInit
<1>2. Len(copies) = 0 /\ Len(remote) = 0 /\ copies \in Seq(CopyRow) /\ remote \in Seq(RemoteRow)
  BY <1>1
<1>3. restore \in RestoreRow
  BY <1>1 DEF NoRestore, RestoreRow, RestoreSteps
<1>4. BackupsType
  <2>1. data \in [db : Int, base : Int, wal : Int] /\ restored \in [from : Int, to : Int, cut : BOOLEAN]
    BY <1>1
  <2>2. made \in Nat \ {0} /\ running \in BOOLEAN /\ backup \in {"idle", "dump", "archive", "upload", "prune"}
    BY <1>1
  <2>3. backupDay \in BackupDays /\ logged \in Tars /\ written \in Tars
    BY <1>1, NoTarIs, BackupNumbers
  <2>4. Len(remote) = Len(copies)
    BY <1>2
  <2> QED
    BY <1>2, <1>3, <2>1, <2>2, <2>3, <2>4, Zenon DEF BackupsType
<1>5. SavedOK
  BY <1>1 DEF SavedOK
<1>6. RestoreOK
  <2>1. restore.pc = "idle" /\ running /\ data.db = 1 /\ restored.from = 1 /\ restored.to = 1
    BY <1>1 DEF NoRestore
  <2>2. data.db # 0 /\ restored.from = restored.to
    BY <2>1
  <2> QED
    BY <2>1, <2>2 DEF RestoreOK
<1>8. ExtractOK
  <2>1. restore.todo = {} /\ BeingWritten = {}
    BY <1>1 DEF NoRestore, BeingWritten
  <2> QED
    BY <2>1 DEF ExtractOK
<1>7. AuditOK
  <2>1. \A d \in BackupDays : logged[d] = 0 /\ written[d] = 0
    BY <1>1, NoTarIs
  <2>2. 1..Len(copies) = {}
    BY <1>2
  <2> QED
    BY <2>1, <2>2 DEF AuditOK, OtherDaysSurvive
<1> QED
  BY <1>4, <1>5, <1>6, <1>7, <1>8 DEF BackupsInv

-----------------------------------------------------------------------------
(* Types.                                                                  *)

\* The steps that write neither the copies nor what the bucket has.
LEMMA OthersKeepTypes ==
  ASSUME BackupsInv, UNCHANGED <<copies, remote, backup>>,
         \/ ServiceWrites \/ ServiceStops \/ ServiceStarts \/ BackupDayPasses
         \/ RestoreAsks \/ RestoreBegins \/ SetsAside \/ SetsLogAside \/ CopyBegins \/ CopyEnds
         \/ Counts \/ FindsArchive \/ ExtractBegins \/ ExtractEnds \/ RestoreSucceeds \/ RestoreEnds
  PROVE  BackupsType'
<1> DEFINE DataType == [db : Int, base : Int, wal : Int]
           RestoreType == RestoreRow
           RestoredType == [from : Int, to : Int, cut : BOOLEAN]
<1>t. /\ data \in DataType /\ made \in Nat \ {0} /\ running \in BOOLEAN
      /\ backupDay \in BackupDays /\ logged \in Tars /\ written \in Tars
      /\ restore \in RestoreType /\ restored \in RestoredType
  BY DEF BackupsInv, BackupsType
<1>m. made \in Nat /\ made # 0 /\ backupDay \in BackupDays
  BY <1>t
<1>d. data \in DataType
  BY <1>t
<1>g. logged \in Tars /\ written \in Tars
  BY <1>t
<1>s. restore \in RestoreType /\ restored \in RestoredType
  BY <1>t
<1>n. restore.runs \in Nat
  BY <1>s DEF RestoreRow
<1>w. \A pc \in RestoreSteps : [restore EXCEPT !.pc = pc] \in RestoreRow
  BY <1>s DEF RestoreRow
<1>x. [NoRestore EXCEPT !.runs = restore.runs] \in RestoreRow
  BY <1>n DEF RestoreRow, NoRestore, RestoreSteps
<1>b. data.db \in Int /\ data.base \in Int /\ data.wal \in Int
  BY <1>d
<1>c. /\ copies \in Seq(CopyRow) /\ remote \in Seq(RemoteRow) /\ Len(remote) = Len(copies)
      /\ backup \in {"idle", "dump", "archive", "upload", "prune"}
  BY DEF BackupsInv, BackupsType
<1>v. Visible \in Int /\ CheckpointedData \in DataType
  BY <1>t, VisibleIs
<1>f. ASSUME /\ data' \in DataType /\ made' \in Nat \ {0} /\ running' \in BOOLEAN
             /\ backupDay' \in BackupDays /\ logged' \in Tars /\ written' \in Tars
             /\ restore' \in RestoreType /\ restored' \in RestoredType
      PROVE  BackupsType'
  <2>1. copies' = copies /\ remote' = remote /\ backup' = backup
    OBVIOUS
  <2> QED
    BY <1>c, <1>f, <2>1, Zenon DEF BackupsType
<1>r. restore.pc # "idle" =>
        Restorable.db \in Int /\ Restorable.tar \in Tars /\ restore.run \in DOMAIN copies
  <2>1. restore.pc # "idle" => restore.run \in 1..Len(copies)
    BY DEF BackupsInv, RestoreOK
  <2>2. restore.pc # "idle" => copies[restore.run] \in CopyRow /\ remote[restore.run] \in RemoteRow
    BY <2>1, RowsAre DEF BackupsInv
  <2>3. DOMAIN copies = 1..Len(copies)
    BY RowsAre DEF BackupsInv
  <2> QED
    BY <2>1, <2>2, <2>3 DEF Restorable, CopyRow, RemoteRow
<1>1. CASE ServiceWrites
  <2>1. made' \in Nat \ {0}
    <3>1. made' = made + 1
      BY <1>1 DEF ServiceWrites
    <3> QED
      BY <1>m, <3>1
  <2>2. data' \in DataType
    <3>1. data' = [data EXCEPT !.base = IF data.wal = 0 THEN data.db ELSE @, !.wal = made']
      BY <1>1 DEF ServiceWrites
    <3>2. made' \in Int /\ data.db \in Int /\ data.base \in Int
      BY <1>b, <2>1
    <3> QED
      BY <1>d, <3>1, <3>2
  <2>3. logged' \in Tars /\ written' \in Tars
    <3>1. /\ logged' = [logged EXCEPT ![backupDay] = @ + 1]
          /\ written' = [written EXCEPT ![backupDay] = @ + 1]
      BY <1>1 DEF ServiceWrites
    <3> QED
      BY <1>m, <1>g, <3>1 DEF Tars
  <2> QED
    BY <1>1, <1>f, <1>t, <2>1, <2>2, <2>3 DEF ServiceWrites
<1>2. CASE ServiceStops
  BY <1>2, <1>f, <1>t, <1>v DEF ServiceStops
<1>3. CASE ServiceStarts
  <2>1. \/ made' = made + 1 /\ data' = [db |-> made', base |-> 0, wal |-> 0]
        \/ made' = made /\ data' = CheckpointedData
    BY <1>3, Zenon DEF ServiceStarts
  <2> HIDE DEF CheckpointedData
  <2>2. made' \in Nat \ {0}
    <3>1. made' = made + 1 \/ made' = made
      BY <2>1, Zenon
    <3> QED
      BY <1>m, <3>1
  <2>3. data' \in DataType
    BY <1>v, <2>1, <2>2
  <2>4. running' = TRUE /\ UNCHANGED <<backupDay, logged, written, restore, restored>>
    BY <1>3, Zenon DEF ServiceStarts
  <2> QED
    BY <1>f, <1>t, <2>2, <2>3, <2>4
<1>4. CASE BackupDayPasses
  <2>1. backupDay' \in BackupDays
    <3>1. backupDay' = backupDay + 1 /\ backupDay < MaxBackupDay
      BY <1>4 DEF BackupDayPasses
    <3> QED
      BY <1>m, <3>1, BackupNumbers DEF BackupDays
  <2> QED
    BY <1>4, <1>f, <1>t, <2>1 DEF BackupDayPasses
<1>5. CASE RestoreAsks
  BY <1>5, <1>f, <1>t, <1>v DEF RestoreAsks, BesidesRestore
<1>6. CASE RestoreBegins
  <2>1. DOMAIN copies \subseteq Nat
    BY RowsAre DEF BackupsInv
  <2>2. restore' \in RestoreType
    <3>1. PICK run \in DOMAIN copies, place \in {"local", "bucket"} :
            restore' = [NoRestore EXCEPT !.pc = "set aside", !.place = place, !.run = run,
                                         !.runs = restore.runs + 1]
      BY <1>6 DEF RestoreBegins
    <3>2. run \in Nat /\ restore.runs + 1 \in Nat
      BY <1>n, <2>1
    <3>3. "set aside" \in RestoreSteps /\ place \in {"", "local", "bucket"}
      BY DEF RestoreSteps
    <3> QED
      BY <3>1, <3>2, <3>3 DEF NoRestore, RestoreRow
  <2> QED
    BY <1>6, <1>f, <1>t, <2>2 DEF RestoreBegins, BesidesRestore
<1>7. CASE SetsAside
  <2>1. restore' \in RestoreType
    <3>1. \E x \in {"copy", "set aside log"} : restore' = [restore EXCEPT !.pc = x]
      BY <1>7 DEF SetsAside
    <3>2. {"copy", "set aside log"} \subseteq RestoreSteps
      BY DEF RestoreSteps
    <3> QED
      BY <1>w, <3>1, <3>2
  <2>2. data' \in DataType
    <3>1. data' = [data EXCEPT !.db = 0]
      BY <1>7 DEF SetsAside
    <3> QED
      BY <1>d, <3>1
  <2> QED
    BY <1>7, <1>f, <1>t, <2>1, <2>2 DEF SetsAside, BesidesRestore
<1>8. CASE SetsLogAside
  <2>1. restore' \in RestoreType
    BY <1>8, <1>w DEF SetsLogAside, RestoreSteps
  <2>2. data' \in DataType
    <3>1. data' = [data EXCEPT !.base = 0, !.wal = 0]
      BY <1>8 DEF SetsLogAside
    <3>2. data' = [db |-> data.db, base |-> 0, wal |-> 0]
      BY <1>d, <3>1
    <3> QED
      BY <1>b, <3>2
  <2> QED
    BY <1>8, <1>f, <1>t, <2>1, <2>2 DEF SetsLogAside, BesidesRestore
<1>9. CASE CopyBegins
  <2>1. restore' \in RestoreType
    BY <1>9, <1>w DEF CopyBegins, RestoreSteps
  <2> QED
    BY <1>9, <1>f, <1>t, <2>1, BackupNumbers DEF CopyBegins, BesidesRestore
<1>10. CASE CopyEnds
  <2>1. Restorable.db \in Int
    BY <1>10, <1>r DEF CopyEnds
  <2>2. restore' \in RestoreType
    BY <1>10, <1>w DEF CopyEnds, RestoreSteps
  <2> HIDE DEF Restorable
  <2> QED
    BY <1>10, <1>f, <1>t, <2>1, <2>2 DEF CopyEnds, BesidesRestore
<1>11. CASE Counts
  <2>1. restore' \in RestoreType
    BY <1>11, <1>w DEF Counts, RestoreSteps
  <2> QED
    BY <1>11, <1>f, <1>t, <1>v, <2>1 DEF Counts, BesidesRestore
<1>12. CASE FindsArchive
  <2>1. PICK days \in SUBSET BackupDays : restore' = [restore EXCEPT !.pc = "extracting", !.todo = days]
    BY <1>12 DEF FindsArchive
  <2>2. restore' \in RestoreType
    BY <1>s, <2>1 DEF RestoreRow, RestoreSteps
  <2> QED
    BY <1>12, <1>f, <1>t, <2>2 DEF FindsArchive, BesidesRestore
<1>14. CASE ExtractBegins
  <2>0. \A d \in restore.todo : 0..Restorable.tar[d] - 1 \subseteq Nat
    <3>1. Restorable.tar \in Tars
      BY <1>14, <1>r DEF ExtractBegins
    <3>2. restore.todo \subseteq BackupDays
      BY <1>s DEF RestoreRow
    <3>3. \A d \in restore.todo : Restorable.tar[d] \in Nat
      BY <3>1, <3>2 DEF Tars
    <3> HIDE DEF Restorable
    <3> QED
      BY <3>3
  <2>1. PICK d \in restore.todo, n \in Nat :
          /\ restore' = [restore EXCEPT !.todo = @ \ {d}, !.file = d]
          /\ logged' = [logged EXCEPT ![d] = n]
    BY <1>14, <2>0, Zenon DEF ExtractBegins
  <2>2. restore.todo \subseteq BackupDays
    BY <1>s DEF RestoreRow
  <2>3. restore' \in RestoreType
    BY <1>s, <2>1, <2>2 DEF RestoreRow
  <2>4. logged' \in Tars
    BY <1>g, <2>1, <2>2 DEF Tars
  <2> QED
    BY <1>14, <1>f, <1>t, <2>3, <2>4 DEF ExtractBegins, BesidesRestore
<1>15. CASE ExtractEnds
  <2>1. restore.file \in BackupDays /\ Restorable.tar \in Tars
    <3>1. restore.pc # "idle" /\ restore.file # NoDayFile
      BY <1>15 DEF ExtractEnds
    <3>2. restore.file \in BackupDays \cup {NoDayFile}
      BY <1>s DEF RestoreRow
    <3> QED
      BY <1>r, <3>1, <3>2
  <2>2. Restorable.tar[restore.file] \in Nat
    BY <2>1 DEF Tars
  <2>3. logged' = [logged EXCEPT ![restore.file] = Restorable.tar[restore.file]]
    BY <1>15, Zenon DEF ExtractEnds
  <2>4. logged' \in Tars
    BY <1>g, <2>1, <2>2, <2>3 DEF Tars
  <2>5. restore' \in RestoreType
    BY <1>15, <1>s DEF ExtractEnds, RestoreRow
  <2> QED
    BY <1>15, <1>f, <1>t, <2>4, <2>5 DEF ExtractEnds, BesidesRestore
<1>16. CASE RestoreSucceeds
  <2>1. Restorable.db \in Int
    BY <1>16, <1>r DEF RestoreSucceeds
  <2>2. restored' \in RestoredType
    BY <1>16, <1>t, <2>1 DEF RestoreSucceeds
  <2>3. restore' \in RestoreType
    BY <1>16, <1>x DEF RestoreSucceeds
  <2> QED
    BY <1>16, <1>f, <1>t, <2>2, <2>3 DEF RestoreSucceeds, BesidesRestore
<1>13. CASE RestoreEnds
  <2>1. restored' \in RestoredType
    BY <1>13, <1>t DEF RestoreEnds
  <2>2. restore' \in RestoreType
    BY <1>13, <1>x DEF RestoreEnds
  <2> QED
    BY <1>13, <1>f, <1>t, <2>1, <2>2 DEF RestoreEnds, BesidesRestore
<1> QED
  BY <1>1, <1>2, <1>3, <1>4, <1>5, <1>6, <1>7, <1>8, <1>9, <1>10, <1>11, <1>12, <1>13, <1>14, <1>15,
     <1>16


\* What a run of backup.sh does to the rows: its own alone, if it does anything.
RowsMove ==
  /\ Len(copies') = Len(copies) /\ Len(remote') = Len(copies)
  /\ \A i \in 1..Len(copies) : i # ThisRun => copies'[i] = copies[i] /\ remote'[i] = remote[i]

\* A sequence with one more row.
LEMMA AppendedIs ==
  ASSUME NEW S, NEW s \in Seq(S), NEW x \in S
  PROVE  /\ Append(s, x) \in Seq(S) /\ Len(Append(s, x)) = Len(s) + 1
         /\ \A i \in 1..Len(s) : Append(s, x)[i] = s[i]
         /\ Append(s, x)[Len(s) + 1] = x
BY AppendProperties

\* A sequence with one row replaced.
LEMMA ReplacedIs ==
  ASSUME NEW S, NEW s \in Seq(S), NEW k \in 1..Len(s), NEW x \in S
  PROVE  /\ [s EXCEPT ![k] = x] \in Seq(S) /\ Len([s EXCEPT ![k] = x]) = Len(s)
         /\ \A i \in 1..Len(s) : i # k => [s EXCEPT ![k] = x][i] = s[i]
         /\ [s EXCEPT ![k] = x][k] = x
BY ExceptSeq

\* A new row, and its backup begins.
LEMMA BackupBeginsIs ==
  ASSUME BackupsType, BackupBegins
  PROVE  /\ copies' \in Seq(CopyRow) /\ remote' \in Seq(RemoteRow)
         /\ Len(copies') = Len(copies) + 1 /\ Len(remote') = Len(copies) + 1
         /\ \A i \in 1..Len(copies) : copies'[i] = copies[i] /\ remote'[i] = remote[i]
         /\ copies'[Len(copies')] = [db |-> 0, tar |-> NoTar, of |-> backupDay, here |-> Files]
         /\ remote'[Len(copies')] = [db |-> 0, tar |-> NoTar, of |-> backupDay]
<1> DEFINE row == [db |-> 0, tar |-> NoTar, of |-> backupDay, here |-> Files]
           away == [db |-> 0, tar |-> NoTar, of |-> backupDay]
<1>1. copies' = Append(copies, row) /\ remote' = Append(remote, away)
  BY DEF BackupBegins
<1>2. backupDay \in BackupDays /\ copies \in Seq(CopyRow) /\ remote \in Seq(RemoteRow) /\ Len(remote) = Len(copies)
  BY DEF BackupsType
<1>3. row \in CopyRow
  BY <1>2, NoTarIs DEF CopyRow
<1>4. away \in RemoteRow
  BY <1>2, NoTarIs DEF RemoteRow
<1> HIDE DEF row, away
<1>5. /\ copies' \in Seq(CopyRow) /\ Len(copies') = Len(copies) + 1
      /\ \A i \in 1..Len(copies) : copies'[i] = copies[i]
      /\ copies'[Len(copies) + 1] = row
  BY <1>1, <1>2, <1>3, AppendedIs
<1>6. /\ remote' \in Seq(RemoteRow) /\ Len(remote') = Len(remote) + 1
      /\ \A i \in 1..Len(remote) : remote'[i] = remote[i]
      /\ remote'[Len(remote) + 1] = away
  BY <1>1, <1>2, <1>4, AppendedIs
<1> QED
  BY <1>2, <1>5, <1>6 DEF row, away

\* The other steps of a run, with what they leave of its rows.
LEMMA BackupRows ==
  ASSUME BackupsInv, Dumps \/ ArchivesAudit \/ Uploads \/ BackupEnds
  PROVE  /\ copies' \in Seq(CopyRow) /\ remote' \in Seq(RemoteRow) /\ RowsMove
         /\ copies'[ThisRun].here = copies[ThisRun].here
         /\ Dumps => /\ copies'[ThisRun].db = Visible /\ copies'[ThisRun].tar = copies[ThisRun].tar
                     /\ copies'[ThisRun].of = copies[ThisRun].of /\ remote' = remote
         /\ ArchivesAudit => /\ copies'[ThisRun].tar = logged /\ copies'[ThisRun].of = backupDay
                             /\ copies'[ThisRun].db = copies[ThisRun].db /\ remote' = remote
         /\ Uploads => /\ copies' = copies
                       /\ remote'[ThisRun].db = copies[ThisRun].db
                       /\ remote'[ThisRun].tar = copies[ThisRun].tar
                       /\ remote'[ThisRun].of = copies[ThisRun].of
         /\ BackupEnds => /\ copies'[ThisRun].tar = copies[ThisRun].tar
                          /\ copies'[ThisRun].of = copies[ThisRun].of
                          /\ remote'[ThisRun].tar = remote[ThisRun].tar
                          /\ remote'[ThisRun].of = remote[ThisRun].of
                          /\ copies'[ThisRun].db # copies[ThisRun].db => backup = "dump"
                          /\ remote'[ThisRun].db # remote[ThisRun].db => backup = "upload"
<1> DEFINE k == ThisRun
<1>1. /\ copies \in Seq(CopyRow) /\ remote \in Seq(RemoteRow) /\ Len(remote) = Len(copies)
      /\ data \in [db : Int, base : Int, wal : Int] /\ logged \in Tars /\ backupDay \in BackupDays
  BY DEF BackupsInv, BackupsType
<1>2. backup # "idle" /\ Len(copies) # 0
  BY DEF BackupsInv, SavedOK, Dumps, ArchivesAudit, Uploads, BackupEnds, ThisRun
<1>3. Len(copies) \in Nat /\ k = Len(copies) /\ k \in 1..Len(copies) /\ k \in 1..Len(remote)
  BY <1>1, <1>2 DEF ThisRun
<1>4. copies[k] \in CopyRow /\ remote[k] \in RemoteRow
  BY <1>1, <1>3
<1>v. Visible \in Int
  BY <1>1, VisibleIs
<1> HIDE DEF k
<1>5. CASE Dumps
  <2> DEFINE row == [copies[k] EXCEPT !.db = Visible]
  <2>1. copies' = [copies EXCEPT ![k] = row] /\ remote' = remote
    BY <1>5 DEF Dumps, k
  <2>2. /\ row \in CopyRow /\ row.db = Visible /\ row.tar = copies[k].tar /\ row.of = copies[k].of
        /\ row.here = copies[k].here
    BY <1>4, <1>v DEF CopyRow
  <2> HIDE DEF row
  <2>3. /\ copies' \in Seq(CopyRow) /\ Len(copies') = Len(copies)
        /\ \A i \in 1..Len(copies) : i # k => copies'[i] = copies[i]
        /\ copies'[k] = row
    BY <1>1, <1>3, <2>1, <2>2, ReplacedIs
  <2>4. ~ArchivesAudit /\ ~Uploads /\ ~BackupEnds
    BY <1>5 DEF Dumps, ArchivesAudit, Uploads, BackupEnds
  <2> QED
    BY <1>1, <2>1, <2>2, <2>3, <2>4 DEF RowsMove, k
<1>6. CASE ArchivesAudit
  <2> DEFINE row == [copies[k] EXCEPT !.tar = logged, !.of = backupDay]
  <2>1. copies' = [copies EXCEPT ![k] = row] /\ remote' = remote
    BY <1>3, <1>6 DEF ArchivesAudit, k
  <2>2. /\ row \in CopyRow /\ row.db = copies[k].db /\ row.tar = logged /\ row.of = backupDay
        /\ row.here = copies[k].here
    BY <1>1, <1>4 DEF CopyRow
  <2> HIDE DEF row
  <2>3. /\ copies' \in Seq(CopyRow) /\ Len(copies') = Len(copies)
        /\ \A i \in 1..Len(copies) : i # k => copies'[i] = copies[i]
        /\ copies'[k] = row
    BY <1>1, <1>3, <2>1, <2>2, ReplacedIs
  <2>4. ~Dumps /\ ~Uploads /\ ~BackupEnds
    BY <1>6 DEF Dumps, ArchivesAudit, Uploads, BackupEnds
  <2> QED
    BY <1>1, <2>1, <2>2, <2>3, <2>4 DEF RowsMove, k
<1>7. CASE Uploads
  <2> DEFINE row == [f \in {"db", "tar", "of"} |-> copies[k][f]]
  <2>1. remote' = [remote EXCEPT ![k] = row] /\ copies' = copies
    BY <1>7 DEF Uploads, k
  <2>2. row = [db |-> copies[k].db, tar |-> copies[k].tar, of |-> copies[k].of]
    BY <1>4 DEF CopyRow
  <2>3. /\ row \in RemoteRow /\ row.db = copies[k].db /\ row.tar = copies[k].tar
        /\ row.of = copies[k].of
    BY <1>4, <2>2 DEF CopyRow, RemoteRow
  <2> HIDE DEF row
  <2>4. /\ remote' \in Seq(RemoteRow) /\ Len(remote') = Len(remote)
        /\ \A i \in 1..Len(remote) : i # k => remote'[i] = remote[i]
        /\ remote'[k] = row
    BY <1>1, <1>3, <2>1, <2>3, ReplacedIs
  <2>5. ~Dumps /\ ~ArchivesAudit /\ ~BackupEnds
    BY <1>7 DEF Dumps, ArchivesAudit, Uploads, BackupEnds
  <2> QED
    BY <1>1, <2>1, <2>3, <2>4, <2>5 DEF RowsMove, k
<1>8. CASE BackupEnds
  <2> DEFINE row == [copies[k] EXCEPT !.db = Half]
             away == [remote[k] EXCEPT !.db = copies[k].db]
  <2>1. \/ UNCHANGED <<copies, remote>>
        \/ backup = "dump" /\ copies' = [copies EXCEPT ![k] = row] /\ remote' = remote
        \/ backup = "upload" /\ copies' = copies /\ remote' = [remote EXCEPT ![k] = away]
    BY <1>8 DEF BackupEnds, k
  <2>2. /\ row \in CopyRow /\ row.tar = copies[k].tar /\ row.of = copies[k].of
        /\ row.here = copies[k].here
    BY <1>4, BackupNumbers DEF CopyRow
  <2>3. away \in RemoteRow /\ away.tar = remote[k].tar /\ away.of = remote[k].of
    BY <1>4 DEF CopyRow, RemoteRow
  <2> HIDE DEF row, away
  <2>4. ~Dumps /\ ~ArchivesAudit /\ ~Uploads
    BY <1>8 DEF Dumps, ArchivesAudit, Uploads, BackupEnds
  <2>5. CASE UNCHANGED <<copies, remote>>
    BY <1>1, <2>4, <2>5 DEF RowsMove, k
  <2>6. CASE backup = "dump" /\ copies' = [copies EXCEPT ![k] = row] /\ remote' = remote
    <3>1. /\ copies' \in Seq(CopyRow) /\ Len(copies') = Len(copies)
          /\ \A i \in 1..Len(copies) : i # k => copies'[i] = copies[i]
          /\ copies'[k] = row
      BY <1>1, <1>3, <2>2, <2>6, ReplacedIs
    <3> QED
      BY <1>1, <2>2, <2>4, <2>6, <3>1 DEF RowsMove, k
  <2>7. CASE backup = "upload" /\ copies' = copies /\ remote' = [remote EXCEPT ![k] = away]
    <3>1. /\ remote' \in Seq(RemoteRow) /\ Len(remote') = Len(remote)
          /\ \A i \in 1..Len(remote) : i # k => remote'[i] = remote[i]
          /\ remote'[k] = away
      BY <1>1, <1>3, <2>3, <2>7, ReplacedIs
    <3> QED
      BY <1>1, <2>3, <2>4, <2>7, <3>1 DEF RowsMove, k
  <2> QED
    BY <2>1, <2>5, <2>6, <2>7
<1> QED
  BY <1>5, <1>6, <1>7, <1>8

\* A file of an old copy is removed, and no row but that one changes.
LEMMA PrunesIs ==
  ASSUME BackupsType, Prunes
  PROVE  /\ copies' \in Seq(CopyRow) /\ Len(copies') = Len(copies) /\ remote' = remote
         /\ \A i \in 1..Len(copies) :
              /\ copies'[i].db = copies[i].db /\ copies'[i].tar = copies[i].tar
              /\ copies'[i].of = copies[i].of
              /\ i \in KeptCopies => copies'[i] = copies[i]
<1>1. copies \in Seq(CopyRow) /\ Len(copies) \in Nat /\ DOMAIN copies = 1..Len(copies)
      /\ \A i \in 1..Len(copies) : copies[i] \in CopyRow
  BY RowsAre DEF BackupsType
<1>2. PICK k \in OldCopies, f \in Files : copies' = [copies EXCEPT ![k].here = @ \ {f}]
  BY DEF Prunes
<1>3. k \in 1..Len(copies) /\ k \notin KeptCopies
  BY <1>1 DEF OldCopies
<1> DEFINE row == [copies[k] EXCEPT !.here = @ \ {f}]
<1>4. copies[k] \in CopyRow
  BY <1>1, <1>3
<1>5. row \in CopyRow /\ row.db = copies[k].db /\ row.tar = copies[k].tar /\ row.of = copies[k].of
  BY <1>4 DEF CopyRow
<1>6. copies' = [copies EXCEPT ![k] = row]
  BY <1>2
<1> HIDE DEF row
<1>7. /\ copies' \in Seq(CopyRow) /\ Len(copies') = Len(copies)
      /\ \A i \in 1..Len(copies) : i # k => copies'[i] = copies[i]
      /\ copies'[k] = row
  BY <1>1, <1>3, <1>5, <1>6, ReplacedIs
<1>8. remote' = remote
  BY DEF Prunes
<1> QED
  BY <1>3, <1>5, <1>7, <1>8, Zenon


-----------------------------------------------------------------------------
(* Restoring, while a backup runs.                                         *)

\* What was backed up of a row stays as it is.
BackedUpStays ==
  \A i \in 1..Len(copies) :
    /\ i \in 1..Len(copies')
    /\ copies[i].db \notin {0, Half} => copies'[i].db = copies[i].db
    /\ copies[i].tar # NoTar => copies'[i].tar = copies[i].tar /\ copies'[i].of = copies[i].of
    /\ remote[i].db \notin {0, Half} =>
         /\ remote'[i].db = remote[i].db
         /\ remote'[i].tar = remote[i].tar /\ remote'[i].of = remote[i].of

\* The steps of backup.sh leave what was backed up as it is.
LEMMA BackupsKeepRows ==
  ASSUME BackupsInv,
         BackupBegins \/ Dumps \/ ArchivesAudit \/ Uploads \/ Prunes \/ BackupSucceeds \/ BackupEnds
  PROVE  BackedUpStays
<1>1. BackupsType /\ Len(copies) \in Nat
  BY RowsAre DEF BackupsInv
<1>2. CASE BackupBegins
  BY <1>1, <1>2, BackupBeginsIs DEF BackedUpStays
<1>3. CASE Prunes
  BY <1>1, <1>3, PrunesIs DEF BackedUpStays
<1>5. CASE BackupSucceeds
  BY <1>1, <1>5 DEF BackupSucceeds, BackedUpStays
<1>4. ASSUME Dumps \/ ArchivesAudit \/ Uploads \/ BackupEnds
      PROVE  BackedUpStays
  <2>1. RowsMove
    BY <1>4, BackupRows
  <2>2. SavedOK
    BY DEF BackupsInv
  <2> DEFINE k == ThisRun
             Stays == /\ copies[k].db \notin {0, Half} => copies'[k].db = copies[k].db
                      /\ copies[k].tar # NoTar =>
                           copies'[k].tar = copies[k].tar /\ copies'[k].of = copies[k].of
                      /\ remote[k].db \notin {0, Half} =>
                           /\ remote'[k].db = remote[k].db
                           /\ remote'[k].tar = remote[k].tar /\ remote'[k].of = remote[k].of
  <2>3. Stays
    <3>1. CASE Dumps
      <4>1. /\ copies[k].db = 0 /\ remote' = remote
            /\ copies'[k].tar = copies[k].tar /\ copies'[k].of = copies[k].of
        BY <2>2, <3>1, BackupRows DEF SavedOK, Dumps
      <4> QED
        BY <4>1
    <3>2. CASE ArchivesAudit
      <4>1. copies[k].tar = NoTar /\ copies'[k].db = copies[k].db /\ remote' = remote
        BY <2>2, <3>2, BackupRows DEF SavedOK, ArchivesAudit
      <4> QED
        BY <4>1
    <3>3. CASE Uploads
      <4>1. remote[k].db = 0 /\ copies' = copies
        BY <2>2, <3>3, BackupRows DEF SavedOK, Uploads
      <4> QED
        BY <4>1
    <3>4. CASE BackupEnds
      <4>1. copies'[k].db # copies[k].db => backup = "dump"
        BY <3>4, BackupRows
      <4>2. remote'[k].db # remote[k].db => backup = "upload"
        BY <3>4, BackupRows
      <4>3. /\ copies'[k].tar = copies[k].tar /\ copies'[k].of = copies[k].of
            /\ remote'[k].tar = remote[k].tar /\ remote'[k].of = remote[k].of
        BY <3>4, BackupRows
      <4> QED
        BY <2>2, <4>1, <4>2, <4>3 DEF SavedOK
    <3> QED
      BY <1>4, <3>1, <3>2, <3>3, <3>4
  <2> QED
    BY <1>1, <2>1, <2>3, Zenon DEF RowsMove, BackedUpStays
<1> QED
  BY <1>2, <1>3, <1>4, <1>5

\* So a backup does not disturb a restore, though it may open the database as it does.
LEMMA RestoreBesideBackup ==
  ASSUME BackupsInv,
         BackupBegins \/ Dumps \/ ArchivesAudit \/ Uploads \/ Prunes \/ BackupSucceeds \/ BackupEnds
  PROVE  RestoreOK'
<1>1. BackedUpStays
  BY BackupsKeepRows
<1>2. RestoreOK /\ data \in [db : Int, base : Int, wal : Int]
  BY DEF BackupsInv, BackupsType
<1>3. UNCHANGED <<running, restore, restored>>
  BY DEF BackupBegins, Dumps, ArchivesAudit, Uploads, Prunes, BackupSucceeds, BackupEnds, BesidesBackup
<1>4. \/ data' = data
      \/ data' = CheckpointedData /\ ~running /\ Visible \notin {0, Half}
  BY Zenon DEF BackupBegins, Dumps, ArchivesAudit, Uploads, Prunes, BackupSucceeds, BackupEnds
<1>5. restore.pc # "idle" =>
        restore'.run \in 1..Len(copies') /\ Restorable'.db = Restorable.db
  BY <1>1, <1>2, <1>3, Zenon DEF RestoreOK, BackedUpStays, Restorable
<1>6. /\ Visible = 0 <=> data.db = 0
      /\ data.wal = 0 => Visible = data.db
      /\ CheckpointedData.db = Visible /\ CheckpointedData.wal = 0
  BY <1>2, VisibleIs
<1> HIDE DEF Restorable, Visible, CheckpointedData
<1>7. CASE data' = data
  BY <1>2, <1>3, <1>5, <1>7, Zenon DEF RestoreOK
<1>8. CASE data' = CheckpointedData /\ ~running /\ Visible \notin {0, Half}
  <2>1. data.db # 0 /\ data'.db = Visible /\ data'.wal = 0
    BY <1>6, <1>8
  <2>2. restore.pc \notin {"set aside log", "copy"}
    BY <1>2, <2>1 DEF RestoreOK
  <2>3. ~restored.cut =>
          /\ restored.from = restored.to
          /\ restore.pc # "copying"
          /\ restore.pc \in {"count", "extract", "extracting"} => data'.db = Restorable.db
    BY <1>2, <1>6, <1>8, <2>1 DEF RestoreOK
  <2> QED
    BY <1>2, <1>3, <1>5, <1>8, <2>1, <2>2, <2>3 DEF RestoreOK
<1> QED
  BY <1>4, <1>7, <1>8


\* The steps of the service and of the restore itself.
LEMMA RestoreByItself ==
  ASSUME BackupsInv, UNCHANGED <<copies, remote>>,
         \/ ServiceWrites \/ ServiceStops \/ ServiceStarts \/ BackupDayPasses
         \/ RestoreAsks \/ RestoreBegins \/ SetsAside \/ SetsLogAside \/ CopyBegins \/ CopyEnds
         \/ Counts \/ FindsArchive \/ ExtractBegins \/ ExtractEnds \/ RestoreSucceeds \/ RestoreEnds
  PROVE  RestoreOK'
<1> DEFINE DataType == [db : Int, base : Int, wal : Int]
           RestoreType == RestoreRow
<1>1. RestoreOK
  BY DEF BackupsInv
<1>2. data \in DataType /\ made \in Nat \ {0}
  BY DEF BackupsInv, BackupsType
<1>3. restore \in RestoreType /\ restored \in [from : Int, to : Int, cut : BOOLEAN]
  BY DEF BackupsInv, BackupsType
<1>4. /\ Visible = 0 <=> data.db = 0
      /\ data.wal = 0 => Visible = data.db
      /\ CheckpointedData.db = Visible /\ CheckpointedData.wal = 0
  BY <1>2, VisibleIs
<1>5. restore'.run = restore.run /\ restore'.place = restore.place => Restorable' = Restorable
  BY Zenon DEF Restorable
<1>6. copies' = copies /\ Len(copies') = Len(copies)
  OBVIOUS
<1> HIDE DEF Restorable, Visible, CheckpointedData
\* Of the service: no restore runs beside it.
<1>s. ASSUME ServiceWrites \/ ServiceStops \/ ServiceStarts, running' => data'.db # 0,
             restore.pc = "idle", data'.db = 0 => data'.wal = 0 \/ restored.cut
      PROVE  RestoreOK'
  <2>1. restore' = restore /\ restored' = restored
    BY <1>s, Zenon DEF ServiceWrites, ServiceStops, ServiceStarts
  <2> QED
    BY <1>1, <1>s, <2>1 DEF RestoreOK
<1>7. CASE ServiceWrites
  <2>1. running /\ made' = made + 1
        /\ data' = [data EXCEPT !.base = IF data.wal = 0 THEN data.db ELSE @, !.wal = made']
    BY <1>7 DEF ServiceWrites
  <2>2. data'.db = data.db /\ data.db # 0
    BY <1>1, <1>2, <2>1 DEF RestoreOK
  <2>3. restore.pc = "idle"
    BY <1>1, <2>1 DEF RestoreOK
  <2> QED
    BY <1>7, <1>s, <2>2, <2>3
<1>8. CASE ServiceStops
  <2>1. running /\ ~running' /\ (data' = data \/ data' = CheckpointedData)
    BY <1>8 DEF ServiceStops
  <2>2. restore.pc = "idle" /\ data.db # 0
    BY <1>1, <2>1 DEF RestoreOK
  <2>3. data'.db # 0
    BY <1>4, <2>1, <2>2
  <2> QED
    BY <1>8, <1>s, <2>1, <2>2, <2>3
<1>9. CASE ServiceStarts
  <2>1. /\ restore.pc = "idle"
        /\ \/ data.db = 0 /\ made' = made + 1 /\ data' = [db |-> made', base |-> 0, wal |-> 0]
           \/ data.db # 0 /\ data' = CheckpointedData
    BY <1>9, Zenon DEF ServiceStarts
  <2>2. data'.db # 0
    <3>1. CASE data.db = 0 /\ made' = made + 1 /\ data' = [db |-> made', base |-> 0, wal |-> 0]
      <4>1. made \in Nat /\ data'.db = made + 1
        BY <1>2, <3>1
      <4> QED
        BY <4>1
    <3>2. CASE data.db # 0 /\ data' = CheckpointedData
      BY <1>4, <3>2
    <3> QED
      BY <2>1, <3>1, <3>2
  <2> QED
    BY <1>9, <1>s, <2>1, <2>2
<1>10. CASE BackupDayPasses
  <2>1. UNCHANGED <<data, running, restore, restored>>
    BY <1>10 DEF BackupDayPasses
  <2> QED
    BY <1>1, <1>5, <1>6, <2>1 DEF RestoreOK
<1>11. CASE RestoreAsks
  <2>1. /\ ~running /\ restore.pc = "idle" /\ data.db # 0 /\ data' = CheckpointedData
        /\ UNCHANGED <<running, restore, restored>>
    BY <1>11 DEF RestoreAsks, BesidesRestore
  <2>2. data'.db # 0 /\ data'.wal = 0
    BY <1>4, <2>1
  <2> QED
    BY <1>1, <2>1, <2>2 DEF RestoreOK
<1>12. CASE RestoreBegins
  <2>1. PICK run \in DOMAIN copies, place \in {"local", "bucket"} :
          /\ IsVerified(place, run)
          /\ restore' = [NoRestore EXCEPT !.pc = "set aside", !.place = place, !.run = run,
                                          !.runs = restore.runs + 1]
    BY <1>12 DEF RestoreBegins
  <2>2. /\ ~running /\ restore.pc = "idle" /\ UNCHANGED <<data, running, restored>>
    BY <1>12 DEF RestoreBegins, BesidesRestore
  <2>3. restore'.pc = "set aside" /\ restore'.run = run /\ restore'.place = place
    BY <2>1 DEF NoRestore
  <2>4. Restorable'.db \notin {0, Half}
    BY <2>1, <2>3, Zenon DEF IsVerified, Restorable
  <2>5. run \in 1..Len(copies)
    BY RowsAre DEF BackupsInv
  <2> QED
    BY <1>1, <1>6, <2>2, <2>3, <2>4, <2>5 DEF RestoreOK
\* Of a restore: while it runs, it restores the same.
<1>r. ASSUME NEW pc \in RestoreSteps \ {"idle"}, restore' = [restore EXCEPT !.pc = pc],
             restore.pc # "idle", UNCHANGED <<running, restored>>
      PROVE  /\ restore'.pc = pc /\ Restorable' = Restorable /\ ~running'
             /\ restore'.run \in 1..Len(copies') /\ Restorable'.db \notin {0, Half}
  <2>1. restore'.pc = pc /\ restore'.run = restore.run /\ restore'.place = restore.place
    BY <1>3, <1>r DEF RestoreRow
  <2> QED
    BY <1>1, <1>5, <1>6, <1>r, <2>1 DEF RestoreOK
<1>p. "set aside log" \in RestoreSteps \ {"idle"} /\ "copy" \in RestoreSteps \ {"idle"}
      /\ "copying" \in RestoreSteps \ {"idle"} /\ "count" \in RestoreSteps \ {"idle"}
      /\ "extract" \in RestoreSteps \ {"idle"}
  BY DEF RestoreSteps
<1>13. CASE SetsAside
  <2>1. /\ restore.pc = "set aside" /\ data' = [data EXCEPT !.db = 0]
        /\ restore' = [restore EXCEPT !.pc = IF data.db = 0 THEN "copy" ELSE "set aside log"]
        /\ UNCHANGED <<running, restored>>
    BY <1>13 DEF SetsAside, BesidesRestore
  <2>2. data'.db = 0 /\ data'.wal = data.wal
    BY <1>2, <2>1
  <2>3. CASE data.db = 0
    <3>1. /\ restore'.pc = "copy" /\ ~running'
          /\ restore'.run \in 1..Len(copies') /\ Restorable'.db \notin {0, Half}
      BY <1>p, <1>r, <2>1, <2>3
    <3> QED
      BY <1>1, <2>1, <2>2, <2>3, <3>1 DEF RestoreOK
  <2>4. CASE data.db # 0
    <3>1. /\ restore'.pc = "set aside log" /\ ~running'
          /\ restore'.run \in 1..Len(copies') /\ Restorable'.db \notin {0, Half}
      BY <1>p, <1>r, <2>1, <2>4
    <3> QED
      BY <1>1, <2>1, <2>2, <3>1 DEF RestoreOK
  <2> QED
    BY <2>3, <2>4
<1>14. CASE SetsLogAside
  <2>1. /\ restore.pc = "set aside log" /\ data' = [data EXCEPT !.base = 0, !.wal = 0]
        /\ restore' = [restore EXCEPT !.pc = "copy"]
        /\ UNCHANGED <<running, restored>>
    BY <1>14 DEF SetsLogAside, BesidesRestore
  <2>2. data'.db = data.db /\ data'.wal = 0 /\ data.db = 0
    BY <1>1, <1>2, <2>1 DEF RestoreOK
  <2>3. /\ restore'.pc = "copy" /\ ~running'
        /\ restore'.run \in 1..Len(copies') /\ Restorable'.db \notin {0, Half}
    BY <1>p, <1>r, <2>1
  <2> QED
    BY <1>1, <2>1, <2>2, <2>3 DEF RestoreOK
<1>15. CASE CopyBegins
  <2>1. /\ restore.pc = "copy" /\ data' = [data EXCEPT !.db = Half]
        /\ restore' = [restore EXCEPT !.pc = "copying"]
        /\ UNCHANGED <<running, restored>>
    BY <1>15 DEF CopyBegins, BesidesRestore
  <2>2. data'.db = Half /\ data'.wal = data.wal /\ data.db = 0 /\ Half # 0
    BY <1>1, <1>2, <2>1, BackupNumbers DEF RestoreOK
  <2>3. /\ restore'.pc = "copying" /\ ~running'
        /\ restore'.run \in 1..Len(copies') /\ Restorable'.db \notin {0, Half}
    BY <1>p, <1>r, <2>1
  <2> QED
    BY <1>1, <2>1, <2>2, <2>3 DEF RestoreOK
<1>16. CASE CopyEnds
  <2>1. /\ restore.pc = "copying" /\ data' = [data EXCEPT !.db = Restorable.db]
        /\ restore' = [restore EXCEPT !.pc = "count"]
        /\ UNCHANGED <<running, restored>>
    BY <1>16 DEF CopyEnds, BesidesRestore
  <2>2. data'.db = Restorable.db /\ data'.wal = data.wal
    BY <1>2, <2>1
  <2>3. /\ restore'.pc = "count" /\ ~running' /\ Restorable' = Restorable
        /\ restore'.run \in 1..Len(copies') /\ Restorable'.db \notin {0, Half}
    BY <1>p, <1>r, <2>1
  <2> QED
    BY <1>1, <2>1, <2>2, <2>3 DEF RestoreOK
<1>17. CASE Counts
  <2>1. /\ restore.pc = "count" /\ data' = CheckpointedData
        /\ restore' = [restore EXCEPT !.pc = "extract"]
        /\ UNCHANGED <<running, restored>>
    BY <1>17 DEF Counts, BesidesRestore
  <2>2. data'.db = Visible /\ data'.wal = 0
    BY <1>4, <2>1
  <2>3. /\ restore'.pc = "extract" /\ ~running' /\ Restorable' = Restorable
        /\ restore'.run \in 1..Len(copies') /\ Restorable'.db \notin {0, Half}
    BY <1>p, <1>r, <2>1
  <2>4. ~restored.cut => data'.db = Restorable.db
    BY <1>1, <1>4, <2>1, <2>2 DEF RestoreOK
  <2> QED
    BY <1>1, <2>1, <2>2, <2>3, <2>4 DEF RestoreOK
\* Of the archive: what is restored of the database stays.
<1>e. ASSUME restore.pc \in {"extract", "extracting"}, restore'.pc = "extracting",
             restore'.run = restore.run, restore'.place = restore.place,
             UNCHANGED <<data, running, restored>>
      PROVE  RestoreOK'
  <2>1. Restorable' = Restorable
    BY <1>5, <1>e
  <2> QED
    BY <1>1, <1>6, <1>e, <2>1 DEF RestoreOK
<1>20. CASE FindsArchive
  <2>1. PICK days : restore' = [restore EXCEPT !.pc = "extracting", !.todo = days]
    BY <1>20 DEF FindsArchive
  <2>2. restore.pc = "extract" /\ UNCHANGED <<data, running, restored>>
    BY <1>20 DEF FindsArchive, BesidesRestore
  <2> QED
    BY <1>3, <1>e, <2>1, <2>2 DEF RestoreRow
<1>21. CASE ExtractBegins
  <2>1. PICK d \in restore.todo : restore' = [restore EXCEPT !.todo = @ \ {d}, !.file = d]
    BY <1>21, Zenon DEF ExtractBegins
  <2>2. restore.pc = "extracting" /\ UNCHANGED <<data, running, restored>>
    BY <1>21 DEF ExtractBegins, BesidesRestore
  <2> QED
    BY <1>3, <1>e, <2>1, <2>2 DEF RestoreRow
<1>22. CASE ExtractEnds
  BY <1>3, <1>22, <1>e DEF ExtractEnds, BesidesRestore, RestoreRow
<1>18. CASE RestoreSucceeds
  <2>1. /\ restore.pc = "extracting"
        /\ restored' = [restored EXCEPT !.from = Restorable.db, !.to = data.db]
        /\ restore' = [NoRestore EXCEPT !.runs = restore.runs]
        /\ UNCHANGED <<running, data>>
    BY <1>18 DEF RestoreSucceeds, BesidesRestore
  <2>2. restore'.pc = "idle"
    BY <2>1 DEF NoRestore
  <2>3. restored'.from = Restorable.db /\ restored'.to = data.db /\ restored'.cut = restored.cut
    BY <1>3, <2>1
  <2> QED
    BY <1>1, <2>1, <2>2, <2>3 DEF RestoreOK
<1>19. CASE RestoreEnds
  <2>1. /\ restore.pc # "idle"
        /\ restored' = [restored EXCEPT !.cut = @ \/ (restore.pc = "set aside log" /\ data.wal # 0)]
        /\ restore' = [NoRestore EXCEPT !.runs = restore.runs]
        /\ UNCHANGED <<running, data>>
    BY <1>19 DEF RestoreEnds, BesidesRestore
  <2>2. restore'.pc = "idle"
    BY <2>1 DEF NoRestore
  <2>3. restored'.from = restored.from /\ restored'.to = restored.to
        /\ (restored'.cut <=> restored.cut \/ (restore.pc = "set aside log" /\ data.wal # 0))
    BY <1>3, <2>1
  <2> QED
    BY <1>1, <2>1, <2>2, <2>3 DEF RestoreOK
<1> QED
  BY <1>7, <1>8, <1>9, <1>10, <1>11, <1>12, <1>13, <1>14, <1>15, <1>16, <1>17, <1>18, <1>19, <1>20,
     <1>21, <1>22, Zenon

-----------------------------------------------------------------------------
(* What a run that succeeded has left.                                     *)

\* The steps of backup.sh keep what is known of the backups that were made.
LEMMA SavedByBackup ==
  ASSUME BackupsInv,
         BackupBegins \/ Dumps \/ ArchivesAudit \/ Uploads \/ Prunes \/ BackupSucceeds \/ BackupEnds
  PROVE  SavedOK'
<1>1. SavedOK /\ BackupsType
  BY DEF BackupsInv
<1> DEFINE n == Len(copies)
           Safe(j) == IsWhole(j) /\ IsUploaded(j)
<1>2. n \in Nat /\ ThisRun = n
  BY <1>1, RowsAre DEF ThisRun
<1>s. ASSUME NEW i \in succeeded
      PROVE  /\ i \in 1..n /\ copies[i].db \notin {0, Half} /\ IsUploaded(i)
             /\ \E j \in i..n : Safe(j)
  BY <1>1 DEF SavedOK
<1>3. CASE BackupBegins
  <2>1. /\ Len(copies') = n + 1
        /\ \A i \in 1..n : copies'[i] = copies[i] /\ remote'[i] = remote[i]
        /\ copies'[n + 1] = [db |-> 0, tar |-> NoTar, of |-> backupDay, here |-> Files]
        /\ remote'[n + 1] = [db |-> 0, tar |-> NoTar, of |-> backupDay]
    BY <1>1, <1>3, BackupBeginsIs
  <2>2. backup' = "dump" /\ succeeded' = succeeded
    BY <1>3 DEF BackupBegins
  <2>3. ThisRun' = n + 1
    BY <2>1 DEF ThisRun
  <2>4. \A i \in succeeded : i \in 1..n /\ i \in 1..n + 1 /\ i # n + 1
    BY <1>1, <1>2 DEF SavedOK
  <2>5. /\ copies'[n + 1].db = 0 /\ copies'[n + 1].here = Files /\ copies'[n + 1].tar = NoTar
        /\ remote'[n + 1].db = 0 /\ n + 1 # 0
    BY <1>2, <2>1
  <2>7. \A i \in 1..n : (IsUploaded(i) => IsUploaded(i)') /\ (Safe(i) => Safe(i)')
    BY <2>1 DEF IsUploaded, IsWhole
  <2>8. \A i \in 1..n : \A j \in i..n : j \in 1..n /\ j \in i..n + 1
    BY <1>2
  <2>6. ASSUME NEW i \in succeeded
        PROVE  /\ i \in 1..n + 1 /\ copies'[i].db \notin {0, Half} /\ IsUploaded(i)'
               /\ \E j \in i..n + 1 : Safe(j)'
    <3>1. PICK j \in i..n : Safe(j)
      BY <1>s
    <3>2. copies'[i].db = copies[i].db
      BY <2>1, <2>4
    <3> HIDE DEF Safe, n
    <3> QED
      BY <1>s, <2>4, <2>7, <2>8, <3>1, <3>2
  <2> HIDE DEF n, ThisRun
  <2> QED
    BY <2>1, <2>2, <2>3, <2>4, <2>5, <2>6 DEF SavedOK
<1>4. ASSUME Dumps \/ ArchivesAudit \/ Uploads \/ BackupEnds
      PROVE  SavedOK'
  <2>1. RowsMove /\ copies'[n].here = copies[n].here
    BY <1>2, <1>4, BackupRows
  <2>2. Len(copies') = n /\ ThisRun' = n /\ succeeded' = succeeded
    BY <1>4, <2>1 DEF RowsMove, ThisRun, Dumps, ArchivesAudit, Uploads, BackupEnds, BesidesBackup
  <2>0. backup # "idle"
    BY <1>4 DEF Dumps, ArchivesAudit, Uploads, BackupEnds
  <2>3. n # 0 /\ n \notin succeeded /\ copies[n].here = Files
    BY <1>1, <1>2, <2>0 DEF SavedOK
  <2>4. \A i \in 1..n : i # n => copies'[i] = copies[i] /\ remote'[i] = remote[i]
    BY <1>2, <2>1 DEF RowsMove
  \* The row that is written is safe already only when there is nothing left to write.
  <2>w. ASSUME NEW j, j = n, Safe(j)
        PROVE  Safe(j)'
    <3>1. backup = "prune"
      BY <1>1, <1>2, <2>0, <2>w DEF SavedOK, IsWhole, IsUploaded, BackupsType
    <3>2. backup = "prune" => BackupEnds
      BY <1>4 DEF Dumps, ArchivesAudit, Uploads
    <3>3. backup = "prune" /\ BackupEnds =>
            /\ copies'[n].db = copies[n].db /\ copies'[n].tar = copies[n].tar
            /\ remote'[n].db = remote[n].db /\ remote'[n].tar = remote[n].tar
      BY <1>2, BackupRows
    <3> QED
      BY <2>1, <2>w, <3>1, <3>2, <3>3 DEF IsWhole, IsUploaded
  <2>5. ASSUME NEW i \in succeeded
        PROVE  /\ i \in 1..n /\ copies'[i].db \notin {0, Half} /\ IsUploaded(i)'
               /\ \E j \in i..n : Safe(j)'
    <3>1. i \in 1..n /\ i # n
      BY <1>s, <2>3
    <3>2. copies'[i] = copies[i] /\ remote'[i] = remote[i]
      BY <2>4, <3>1
    <3>3. copies'[i].db \notin {0, Half} /\ IsUploaded(i)'
      BY <1>s, <3>2 DEF IsUploaded
    <3>4. PICK j \in i..n : Safe(j)
      BY <1>s
    <3>5. j \in 1..n
      BY <1>2, <3>1, <3>4
    <3>6. Safe(j)'
      <4>1. CASE j = n
        BY <2>w, <3>4, <4>1, Zenon
      <4>2. CASE j # n
        BY <2>4, <3>4, <3>5, <4>2 DEF IsWhole, IsUploaded
      <4> QED
        BY <4>1, <4>2
    <3> QED
      BY <3>1, <3>3, <3>4, <3>6
  <2> HIDE DEF n, ThisRun, Safe
  <2>s. \A i \in succeeded' :
          /\ i \in 1..Len(copies') /\ copies'[i].db \notin {0, Half} /\ IsUploaded(i)'
          /\ \E j \in i..Len(copies') : IsWhole(j)' /\ IsUploaded(j)'
    BY <2>2, <2>5 DEF Safe
  <2>6. CASE Dumps
    <3>1. backup = "dump" /\ backup' = "archive" /\ Visible \notin {0, Half}
      BY <2>6 DEF Dumps
    <3>2. /\ copies'[n].db = Visible /\ remote' = remote /\ remote[n].db = 0
          /\ copies'[n].tar = NoTar
      BY <1>1, <1>2, <2>6, <3>1, BackupRows DEF SavedOK
    <3> HIDE DEF Visible
    <3> QED
      BY <2>1, <2>2, <2>3, <2>s, <3>1, <3>2 DEF SavedOK
  <2>7. CASE ArchivesAudit
    <3>1. backup = "archive" /\ backup' = "upload"
      BY <2>7 DEF ArchivesAudit
    <3>2. /\ copies'[n].db = copies[n].db /\ copies[n].db \notin {0, Half}
          /\ remote' = remote /\ remote[n].db = 0
      BY <1>1, <1>2, <2>7, <3>1, BackupRows DEF SavedOK
    <3> QED
      BY <2>1, <2>2, <2>3, <2>s, <3>1, <3>2 DEF SavedOK
  <2>8. CASE Uploads
    <3>1. backup = "upload" /\ backup' = "prune"
      BY <2>8 DEF Uploads
    <3>2. /\ copies' = copies /\ copies[n].db \notin {0, Half}
          /\ remote'[n].db = copies[n].db /\ remote'[n].tar = copies[n].tar
      BY <1>1, <1>2, <2>8, <3>1, BackupRows DEF SavedOK
    <3> QED
      BY <2>1, <2>2, <2>3, <2>s, <3>1, <3>2 DEF SavedOK
  <2>9. CASE BackupEnds
    <3>1. backup' = "idle"
      BY <2>9 DEF BackupEnds
    <3> QED
      BY <2>2, <2>s, <3>1 DEF SavedOK
  <2> QED
    BY <1>4, <2>6, <2>7, <2>8, <2>9
\* The run that reports SUCCESS, or removes older copies, is safe itself.
<1>p. ASSUME backup = "prune"
      PROVE  /\ n # 0 /\ n \in 1..n /\ n \in KeptCopies /\ n \notin succeeded
             /\ copies[n].db \notin {0, Half} /\ copies[n].here = Files /\ Safe(n)
  <2>1. /\ n # 0 /\ copies[n].here = Files /\ copies[n].db \notin {0, Half} /\ n \notin succeeded
        /\ remote[n].db = copies[n].db /\ remote[n].tar = copies[n].tar
    BY <1>1, <1>2, <1>p DEF SavedOK
  <2>2. DOMAIN copies = 1..n
    BY <1>1, RowsAre
  <2>3. n \in 1..n /\ n > n - BackupKeep
    BY <1>2, <2>1, BackupNumbers
  <2> QED
    BY <2>1, <2>2, <2>3 DEF KeptCopies, IsWhole, IsUploaded
<1>5. CASE Prunes
  <2>1. backup = "prune" /\ backup' = "prune" /\ succeeded' = succeeded
    BY <1>5 DEF Prunes
  <2>2. /\ Len(copies') = n /\ remote' = remote
        /\ \A i \in 1..n :
             /\ copies'[i].db = copies[i].db /\ copies'[i].tar = copies[i].tar
             /\ i \in KeptCopies => copies'[i] = copies[i]
    BY <1>1, <1>5, PrunesIs
  <2>3. copies'[n] = copies[n] /\ Safe(n)'
    BY <1>p, <2>1, <2>2 DEF IsWhole, IsUploaded
  <2>4. ThisRun' = n
    BY <2>2 DEF ThisRun
  <2>5. ASSUME NEW i \in succeeded
        PROVE  /\ i \in 1..n /\ copies'[i].db \notin {0, Half} /\ IsUploaded(i)'
               /\ \E j \in i..n : Safe(j)'
    <3>1. i \in 1..n /\ n \in i..n
      BY <1>2, <1>s
    <3> QED
      BY <1>s, <2>2, <2>3, <3>1 DEF IsUploaded
  <2>6. /\ copies[n].here = Files /\ copies[n].db \notin {0, Half} /\ n # 0 /\ n \notin succeeded
        /\ remote[n].db = copies[n].db /\ remote[n].tar = copies[n].tar
    BY <1>p, <2>1 DEF IsUploaded
  <2> HIDE DEF n, ThisRun, Safe
  <2>7. \A i \in succeeded' :
          /\ i \in 1..Len(copies') /\ copies'[i].db \notin {0, Half} /\ IsUploaded(i)'
          /\ \E j \in i..Len(copies') : IsWhole(j)' /\ IsUploaded(j)'
    BY <2>1, <2>2, <2>5 DEF Safe
  <2> QED
    BY <2>1, <2>2, <2>3, <2>4, <2>6, <2>7 DEF SavedOK
<1>6. CASE BackupSucceeds
  <2>1. /\ backup = "prune" /\ backup' = "idle" /\ succeeded' = succeeded \cup {n}
        /\ copies' = copies /\ remote' = remote
    BY <1>2, <1>6 DEF BackupSucceeds
  <2>2. \A i : (IsUploaded(i)' <=> IsUploaded(i)) /\ (Safe(i)' <=> Safe(i))
    BY <2>1 DEF IsUploaded, IsWhole
  <2>3. ASSUME NEW i \in succeeded'
        PROVE  /\ i \in 1..n /\ copies[i].db \notin {0, Half} /\ IsUploaded(i)
               /\ \E j \in i..n : Safe(j)
    <3>1. CASE i \in succeeded
      BY <1>s, <3>1
    <3>2. CASE i = n
      <4>1. n \in n..n
        BY <1>2
      <4> QED
        BY <1>p, <2>1, <3>2, <4>1
    <3> QED
      BY <2>1, <3>1, <3>2
  <2>4. Len(copies') = n
    BY <2>1
  <2>5. \A i \in succeeded' :
          /\ i \in 1..Len(copies') /\ copies'[i].db \notin {0, Half} /\ IsUploaded(i)'
          /\ \E j \in i..Len(copies') : IsWhole(j)' /\ IsUploaded(j)'
    <3> HIDE DEF n
    <3> QED
      BY <2>1, <2>2, <2>3, <2>4
  <2> QED
    BY <2>1, <2>5 DEF SavedOK
<1> QED
  BY <1>3, <1>4, <1>5, <1>6

-----------------------------------------------------------------------------
(* The archive that is extracted.                                          *)

\* A backup leaves the archive that a restore extracts as it is.
LEMMA ExtractBesideBackup ==
  ASSUME BackupsInv,
         BackupBegins \/ Dumps \/ ArchivesAudit \/ Uploads \/ Prunes \/ BackupSucceeds \/ BackupEnds
  PROVE  ExtractOK'
<1>1. UNCHANGED <<restore, extracted>>
  BY DEF BackupBegins, Dumps, ArchivesAudit, Uploads, Prunes, BackupSucceeds, BackupEnds, BesidesBackup
<1>2. BackedUpStays
  BY BackupsKeepRows
<1>3. BeingWritten' = BeingWritten
  BY <1>1 DEF BeingWritten
<1> DEFINE days == restore.todo \cup BeingWritten
<1>4. days' = days
  BY <1>1, <1>3
<1> SUFFICES ASSUME days # {}
             PROVE  /\ restore.pc = "extracting" /\ Restorable'.of \in extracted
                    /\ \A d \in days : Restorable'.tar[d] > 0
  BY <1>1, <1>4 DEF ExtractOK
<1> HIDE DEF days
<1>5. /\ restore.pc = "extracting" /\ Restorable.of \in extracted
      /\ \A d \in days : Restorable.tar[d] > 0
  BY DEF BackupsInv, ExtractOK, days
<1>6. restore.run \in 1..Len(copies) /\ Restorable.db \notin {0, Half}
  BY <1>5 DEF BackupsInv, RestoreOK
<1>7. days \subseteq BackupDays
  <2>1. restore \in RestoreRow
    BY DEF BackupsInv, BackupsType
  <2> QED
    BY <2>1 DEF RestoreRow, BeingWritten, days
<1>8. Restorable.tar # NoTar
  <2>1. PICK d \in days : TRUE
    OBVIOUS
  <2>2. Restorable.tar[d] > 0 /\ NoTar[d] = 0
    BY <1>5, <1>7, NoTarIs
  <2> QED
    BY <2>2
<1>9. Restorable'.tar = Restorable.tar /\ Restorable'.of = Restorable.of
  <2>1. CASE restore.place = "bucket"
    <3>1. Restorable = remote[restore.run] /\ Restorable' = remote'[restore.run]
      BY <1>1, <2>1 DEF Restorable
    <3> QED
      BY <1>2, <1>6, <3>1, Zenon DEF BackedUpStays
  <2>2. CASE restore.place # "bucket"
    <3>1. Restorable = copies[restore.run] /\ Restorable' = copies'[restore.run]
      BY <1>1, <2>2 DEF Restorable
    <3> QED
      BY <1>2, <1>6, <1>8, <3>1, Zenon DEF BackedUpStays
  <2> QED
    BY <2>1, <2>2
<1> QED
  BY <1>5, <1>9

\* What a restore has yet to extract is of the archive it has found.
LEMMA ExtractByItself ==
  ASSUME BackupsInv, UNCHANGED <<copies, remote>>,
         \/ ServiceWrites \/ ServiceStops \/ ServiceStarts \/ BackupDayPasses
         \/ RestoreAsks \/ RestoreBegins \/ SetsAside \/ SetsLogAside \/ CopyBegins \/ CopyEnds
         \/ Counts \/ FindsArchive \/ ExtractBegins \/ ExtractEnds \/ RestoreSucceeds \/ RestoreEnds
  PROVE  ExtractOK'
<1>1. ExtractOK /\ restore \in RestoreRow
  BY DEF BackupsInv, BackupsType
<1>2. restore'.run = restore.run /\ restore'.place = restore.place => Restorable' = Restorable
  BY Zenon DEF Restorable
<1>f. \A d \in BackupDays : d # NoDayFile
  BY BackupNumbers DEF NoDayFile
<1>3. CASE UNCHANGED <<restore, extracted>>
  BY <1>1, <1>2, <1>3, Zenon DEF ExtractOK, BeingWritten
\* There is nothing to extract.
<1>n. ASSUME restore'.todo = {}, restore'.file = NoDayFile
      PROVE  ExtractOK'
  BY <1>n DEF ExtractOK, BeingWritten
<1>4. CASE RestoreBegins
  <2>1. PICK run, place : restore' = [NoRestore EXCEPT !.pc = "set aside", !.place = place, !.run = run,
                                                       !.runs = restore.runs + 1]
    BY <1>4, Zenon DEF RestoreBegins
  <2> QED
    BY <1>n, <2>1 DEF NoRestore
<1>5. CASE RestoreSucceeds \/ RestoreEnds
  <2>1. restore' = [NoRestore EXCEPT !.runs = restore.runs]
    BY <1>5 DEF RestoreSucceeds, RestoreEnds
  <2> QED
    BY <1>n, <2>1 DEF NoRestore
<1>6. CASE SetsAside \/ SetsLogAside \/ CopyBegins \/ CopyEnds \/ Counts
  <2>1. PICK pc : restore' = [restore EXCEPT !.pc = pc]
    BY <1>6, Zenon DEF SetsAside, SetsLogAside, CopyBegins, CopyEnds, Counts
  <2>2. restore.pc # "extracting"
    BY <1>6 DEF SetsAside, SetsLogAside, CopyBegins, CopyEnds, Counts
  <2>3. restore.todo = {} /\ restore.file = NoDayFile
    BY <1>1, <2>2 DEF ExtractOK, BeingWritten
  <2>4. restore'.todo = restore.todo /\ restore'.file = restore.file
    BY <1>1, <2>1 DEF RestoreRow
  <2> QED
    BY <1>n, <2>3, <2>4
<1>7. CASE FindsArchive
  <2>1. PICK found : LET days == {d \in BackupDays : found /\ Restorable.tar[d] > 0}
                     IN /\ restore' = [restore EXCEPT !.pc = "extracting", !.todo = days]
                        /\ extracted' = IF days = {} THEN extracted ELSE extracted \cup {Restorable.of}
    BY <1>7, Zenon DEF FindsArchive
  <2> DEFINE days == {d \in BackupDays : found /\ Restorable.tar[d] > 0}
  <2>2. restore.pc = "extract"
    BY <1>7 DEF FindsArchive
  <2>3. restore.file = NoDayFile
    BY <1>1, <2>2 DEF ExtractOK, BeingWritten
  <2> HIDE DEF Restorable
  <2>5. \A d \in days : Restorable.tar[d] > 0
    OBVIOUS
  <2>6. days # {} => Restorable.of \in extracted'
    BY <2>1
  <2> HIDE DEF days
  <2>4. /\ restore'.pc = "extracting" /\ restore'.todo = days /\ restore'.file = NoDayFile
        /\ restore'.run = restore.run /\ restore'.place = restore.place
    BY <1>1, <2>1, <2>3 DEF RestoreRow, days
  <2>7. BeingWritten' = {}
    BY <2>4 DEF BeingWritten
  <2> QED
    BY <1>2, <2>4, <2>5, <2>6, <2>7 DEF ExtractOK
<1>8. CASE ExtractBegins
  <2>1. PICK d \in restore.todo : restore' = [restore EXCEPT !.todo = @ \ {d}, !.file = d]
    BY <1>8, Zenon DEF ExtractBegins
  <2>2. restore.pc = "extracting" /\ extracted' = extracted
    BY <1>8 DEF ExtractBegins
  <2>3. /\ restore'.pc = "extracting" /\ restore'.todo = restore.todo \ {d} /\ restore'.file = d
        /\ restore'.run = restore.run /\ restore'.place = restore.place
    BY <1>1, <2>1, <2>2 DEF RestoreRow
  <2>4. Restorable' = Restorable
    BY <1>2, <2>3
  <2>5. (restore.todo \cup BeingWritten)' \subseteq restore.todo \cup BeingWritten
    BY <2>3 DEF BeingWritten
  <2> HIDE DEF Restorable
  <2> QED
    BY <1>1, <2>1, <2>2, <2>3, <2>4, <2>5 DEF ExtractOK
<1>9. CASE ExtractEnds
  <2>1. /\ restore.pc = "extracting" /\ extracted' = extracted
        /\ restore' = [restore EXCEPT !.file = NoDayFile]
    BY <1>9 DEF ExtractEnds
  <2>2. /\ restore'.pc = "extracting" /\ restore'.todo = restore.todo /\ restore'.file = NoDayFile
        /\ restore'.run = restore.run /\ restore'.place = restore.place
    BY <1>1, <2>1 DEF RestoreRow
  <2>3. Restorable' = Restorable
    BY <1>2, <2>2
  <2>4. (restore.todo \cup BeingWritten)' \subseteq restore.todo \cup BeingWritten
    BY <2>2 DEF BeingWritten
  <2> HIDE DEF Restorable
  <2> QED
    BY <1>1, <2>1, <2>2, <2>3, <2>4 DEF ExtractOK
<1>10. \/ UNCHANGED <<restore, extracted>> \/ RestoreBegins \/ RestoreSucceeds \/ RestoreEnds
       \/ SetsAside \/ SetsLogAside \/ CopyBegins \/ CopyEnds \/ Counts
       \/ FindsArchive \/ ExtractBegins \/ ExtractEnds
  BY Zenon DEF ServiceWrites, ServiceStops, ServiceStarts, BackupDayPasses, RestoreAsks
<1> QED
  BY <1>3, <1>4, <1>5, <1>6, <1>7, <1>8, <1>9, <1>10, Zenon

-----------------------------------------------------------------------------
(* The audit log.                                                          *)

\* The days of which records may be lost: what was extracted or halved stays one of them.
LostGrows ==
  /\ extracted \cup halved \subseteq extracted' \cup halved'
  /\ extracted \cup halved \cup BeingWritten \subseteq extracted' \cup halved' \cup BeingWritten'

\* The steps that write no audit file lose no audit record of a day.
LEMMA OthersKeepAudit ==
  ASSUME BackupsInv, UNCHANGED <<copies, remote, backupDay, logged, written>>, LostGrows
  PROVE  AuditOK'
<1>1. AuditOK /\ Len(copies') = Len(copies)
  BY DEF BackupsInv
<1>2. OtherDaysSurvive'
  BY <1>1, Zenon DEF AuditOK, OtherDaysSurvive, LostGrows
<1>3. \A i \in 1..Len(copies') :
        TarOK(copies[i].tar, copies[i].of)' /\ TarOK(remote[i].tar, remote[i].of)'
  BY <1>1, Zenon DEF AuditOK, TarOK, LostGrows
<1> QED
  BY <1>1, <1>2, <1>3, Zenon DEF AuditOK

\* Nor do the service, and the steps of a restore before the archive.
LEMMA ServiceKeepsAudit ==
  ASSUME BackupsInv, UNCHANGED <<copies, remote, extracted, halved>>, restore' = restore,
         ServiceWrites \/ BackupDayPasses
  PROVE  AuditOK'
<1>1. AuditOK
  BY DEF BackupsInv
<1>2. /\ logged \in Tars /\ written \in Tars /\ backupDay \in BackupDays
      /\ \A d \in BackupDays : logged[d] \in Nat /\ written[d] \in Nat
  BY DEF BackupsInv, BackupsType, Tars
<1>3. \A i \in 1..Len(copies) :
        copies[i].of \in BackupDays /\ copies[i].tar \in Tars
        /\ remote[i].of \in BackupDays /\ remote[i].tar \in Tars
  BY RowsAre DEF BackupsInv, CopyRow, RemoteRow
<1>4. backupDay \in Nat /\ \A d \in BackupDays : d \in Nat
  BY <1>2, BackupNumbers
<1>5. /\ copies' = copies /\ remote' = remote /\ extracted' = extracted /\ halved' = halved
      /\ Len(copies') = Len(copies) /\ BeingWritten' = BeingWritten
  BY DEF BeingWritten
<1>6. CASE ServiceWrites
  <2>1. /\ logged' = [logged EXCEPT ![backupDay] = @ + 1]
        /\ written' = [written EXCEPT ![backupDay] = @ + 1] /\ backupDay' = backupDay
    BY <1>6 DEF ServiceWrites
  <2>2. \A d \in BackupDays :
          /\ logged'[d] = IF d = backupDay THEN logged[d] + 1 ELSE logged[d]
          /\ written'[d] = IF d = backupDay THEN written[d] + 1 ELSE written[d]
    BY <1>2, <2>1 DEF Tars
  <2>3. \A d \in BackupDays : d > backupDay => logged'[d] = 0
    BY <1>1, <1>4, <2>2 DEF AuditOK
  <2>4. OtherDaysSurvive'
    BY <1>1, <1>2, <1>5, <2>2 DEF AuditOK, OtherDaysSurvive
  <2>5. ASSUME NEW tar \in Tars, NEW of \in BackupDays, TarOK(tar, of)
        PROVE  /\ of <= backupDay
               /\ \A d \in BackupDays :
                    /\ d > of => tar[d] = 0
                    /\ 0 < tar[d] /\ tar[d] < written'[d] => d = of \/ d \in extracted \cup halved
    <3>1. ASSUME NEW d \in BackupDays, 0 < tar[d], tar[d] < written'[d]
          PROVE  d = of \/ d \in extracted \cup halved
      <4>1. CASE d = backupDay
        <5>1. ~(d > of) /\ of <= d
          BY <2>5, <3>1, <4>1, <1>4 DEF TarOK
        <5> QED
          BY <1>4, <5>1
      <4>2. CASE d # backupDay
        BY <2>2, <2>5, <3>1, <4>2 DEF TarOK
      <4> QED
        BY <4>1, <4>2
    <3> QED
      BY <2>5, <3>1 DEF TarOK
  <2>6. \A i \in 1..Len(copies) : TarOK(copies[i].tar, copies[i].of) /\ TarOK(remote[i].tar, remote[i].of)
    BY <1>1 DEF AuditOK
  <2>7. \A i \in 1..Len(copies') :
          TarOK(copies[i].tar, copies[i].of)' /\ TarOK(remote[i].tar, remote[i].of)'
    BY <1>3, <1>5, <2>1, <2>5, <2>6 DEF TarOK
  <2> QED
    BY <2>1, <2>3, <2>4, <2>7 DEF AuditOK
<1>7. CASE BackupDayPasses
  <2>1. backupDay' = backupDay + 1 /\ UNCHANGED <<logged, written>>
    BY <1>7 DEF BackupDayPasses
  <2>2. \A d \in Nat : (d > backupDay' => d > backupDay) /\ (d <= backupDay => d <= backupDay')
    BY <1>4, <2>1
  <2>3. \A d \in BackupDays : d > backupDay' => logged'[d] = 0
    BY <1>1, <1>4, <2>1, <2>2 DEF AuditOK
  <2>4. OtherDaysSurvive'
    BY <1>1, <1>5, <2>1 DEF AuditOK, OtherDaysSurvive
  <2>5. \A i \in 1..Len(copies') :
          TarOK(copies[i].tar, copies[i].of)' /\ TarOK(remote[i].tar, remote[i].of)'
    BY <1>1, <1>3, <1>4, <1>5, <2>1, <2>2 DEF AuditOK, TarOK
  <2> QED
    BY <2>3, <2>4, <2>5 DEF AuditOK
<1> QED
  BY <1>6, <1>7

\* What is extracted of a file is of the archive's own day, or complete, or not yet the whole of
\* it; and no other file is touched.
LEMMA ExtractsKeepAudit ==
  ASSUME BackupsInv, ExtractBegins \/ ExtractEnds
  PROVE  AuditOK'
<1> DEFINE tar == Restorable.tar
           of == Restorable.of
<1>1. AuditOK /\ ExtractOK /\ restore \in RestoreRow
  BY DEF BackupsInv, BackupsType
<1>0. restore.pc = "extracting"
  BY DEF ExtractBegins, ExtractEnds
<1>2. restore.run \in 1..Len(copies)
  BY <1>0 DEF BackupsInv, RestoreOK
<1>3. copies[restore.run] \in CopyRow /\ remote[restore.run] \in RemoteRow
  BY <1>2, RowsAre DEF BackupsInv
<1>4. tar \in Tars /\ of \in BackupDays
  BY <1>3 DEF Restorable, CopyRow, RemoteRow
<1>5. TarOK(tar, of)
  BY <1>1, <1>2, Zenon DEF AuditOK, Restorable
<1>6. UNCHANGED <<copies, remote, backupDay, written, extracted, halved>>
  BY DEF ExtractBegins, ExtractEnds, BesidesRestore
<1>7. /\ \A d \in BackupDays : logged[d] \in Nat /\ written[d] \in Nat /\ tar[d] \in Nat /\ d \in Nat
      /\ backupDay \in Nat /\ of \in Nat /\ logged \in Tars
  BY <1>4, BackupNumbers DEF BackupsInv, BackupsType, Tars
<1>8. \A i \in 1..Len(copies') :
        TarOK(copies[i].tar, copies[i].of)' /\ TarOK(remote[i].tar, remote[i].of)'
  BY <1>1, <1>6, Zenon DEF AuditOK, TarOK
<1>f. \A d \in BackupDays : d # NoDayFile
  BY BackupNumbers DEF NoDayFile
<1>9. PICK d \in restore.todo \cup BeingWritten, n \in Nat :
        /\ logged' = [logged EXCEPT ![d] = n]
        /\ BeingWritten \subseteq {d}
        /\ n = tar[d] \/ d \in BeingWritten'
        /\ BeingWritten' \subseteq {d}
  <2>1. CASE ExtractBegins
    <3>0. \A d \in restore.todo : 0..tar[d] - 1 \subseteq Nat
      <4>1. restore.todo \subseteq BackupDays
        BY <1>1 DEF RestoreRow
      <4>2. \A d \in restore.todo : tar[d] \in Nat
        BY <1>7, <4>1
      <4> HIDE DEF tar
      <4> QED
        BY <4>2
    <3>1. PICK d \in restore.todo, n \in Nat :
            /\ restore' = [restore EXCEPT !.todo = @ \ {d}, !.file = d]
            /\ logged' = [logged EXCEPT ![d] = n]
      BY <2>1, <3>0, Zenon DEF ExtractBegins
    <3>2. d \in BackupDays
      BY <1>1 DEF RestoreRow
    <3>3. restore'.file = d /\ restore.file = NoDayFile
      BY <1>1, <2>1, <3>1 DEF RestoreRow, ExtractBegins
    <3>5. BeingWritten = {} /\ BeingWritten' = {d}
      BY <1>f, <3>2, <3>3 DEF BeingWritten
    <3> QED
      BY <3>1, <3>5
  <2>2. CASE ExtractEnds
    <3> DEFINE d == restore.file
    <3>1. d # NoDayFile /\ restore' = [restore EXCEPT !.file = NoDayFile]
          /\ logged' = [logged EXCEPT ![d] = tar[d]]
      BY <2>2 DEF ExtractEnds
    <3>2. d \in BackupDays
      BY <1>1, <3>1 DEF RestoreRow
    <3>3. restore'.file = NoDayFile
      BY <1>1, <3>1 DEF RestoreRow
    <3>4. BeingWritten = {d} /\ BeingWritten' = {}
      BY <3>1, <3>3 DEF BeingWritten
    <3>5. tar[d] \in Nat
      BY <1>7, <3>2
    <3> HIDE DEF d, tar
    <3> QED
      BY <3>1, <3>4, <3>5
  <2> QED
    BY <2>1, <2>2
<1>10. /\ tar[d] > 0 /\ of \in extracted /\ d \in BackupDays
  BY <1>1, <1>f, Zenon DEF ExtractOK, RestoreRow, BeingWritten
<1> HIDE DEF tar, of
<1>11. d <= of /\ of <= backupDay
  BY <1>5, <1>7, <1>10 DEF TarOK
<1>12. /\ logged'[d] = n /\ \A e \in BackupDays : e # d => logged'[e] = logged[e]
  BY <1>7, <1>9, <1>10 DEF Tars
<1>13. \A e \in BackupDays : e > backupDay' => logged'[e] = 0
  <2>1. \A e \in BackupDays : e > backupDay => e # d
    BY <1>7, <1>10, <1>11
  <2> QED
    BY <1>1, <1>6, <1>12, <2>1 DEF AuditOK
<1>14. ASSUME NEW e \in BackupDays, logged'[e] < written'[e]
       PROVE  e \in extracted' \cup halved' \cup BeingWritten'
  <2>1. CASE e = d /\ n = tar[d]
    <3>1. 0 < tar[d] /\ tar[d] < written[d]
      BY <1>6, <1>10, <1>12, <1>14, <2>1, <1>7
    <3>2. d = of \/ d \in extracted \cup halved
      BY <1>5, <1>10, <3>1 DEF TarOK
    <3> QED
      BY <1>6, <1>10, <2>1, <3>2
  <2>2. CASE e = d /\ n # tar[d]
    BY <1>9, <2>2
  <2>3. CASE e # d
    <3>1. e \in extracted \cup halved \cup BeingWritten
      BY <1>1, <1>6, <1>12, <1>14, <2>3 DEF AuditOK, OtherDaysSurvive
    <3> QED
      BY <1>6, <1>9, <2>3, <3>1
  <2> QED
    BY <2>1, <2>2, <2>3
<1> QED
  BY <1>8, <1>13, <1>14, Zenon DEF AuditOK, OtherDaysSurvive

\* An archive is made of the log as it is, and the bucket gets the archive that was made.
LEMMA BackupKeepsAudit ==
  ASSUME BackupsInv,
         BackupBegins \/ Dumps \/ ArchivesAudit \/ Uploads \/ Prunes \/ BackupSucceeds \/ BackupEnds
  PROVE  AuditOK'
<1>1. AuditOK /\ BackupsType
  BY DEF BackupsInv
<1> DEFINE n == Len(copies)
<1>2. n \in Nat /\ ThisRun = n
  BY <1>1, RowsAre DEF ThisRun
<1>3. /\ UNCHANGED <<backupDay, logged, written, extracted>> /\ BeingWritten' = BeingWritten
      /\ halved \subseteq halved'
  BY DEF BackupBegins, Dumps, ArchivesAudit, Uploads, Prunes, BackupSucceeds, BackupEnds, BesidesBackup,
         BeingWritten
<1>4. /\ \A d \in BackupDays : d > backupDay => logged[d] = 0
      /\ OtherDaysSurvive
      /\ \A i \in 1..n : TarOK(copies[i].tar, copies[i].of) /\ TarOK(remote[i].tar, remote[i].of)
  BY <1>1 DEF AuditOK
<1> DEFINE OK(tar, of) ==
             /\ of <= backupDay
             /\ \A d \in BackupDays :
                  /\ d > of => tar[d] = 0
                  /\ 0 < tar[d] /\ tar[d] < written[d] => d = of \/ d \in extracted \cup halved'
<1>5. \A tar, of : TarOK(tar, of) => OK(tar, of)
  BY <1>3, Zenon DEF TarOK
<1> HIDE DEF OK
<1>6. ASSUME \A i \in 1..Len(copies') :
               OK(copies'[i].tar, copies'[i].of) /\ OK(remote'[i].tar, remote'[i].of)
      PROVE  AuditOK'
  <2>1. \A i \in 1..Len(copies') :
          TarOK(copies[i].tar, copies[i].of)' /\ TarOK(remote[i].tar, remote[i].of)'
    BY <1>3, <1>6, Zenon DEF TarOK, OK
  <2>2. OtherDaysSurvive'
    BY <1>3, <1>4, Zenon DEF OtherDaysSurvive
  <2>3. \A d \in BackupDays : d > backupDay' => logged'[d] = 0
    BY <1>3, <1>4, Zenon
  <2> QED
    BY <2>1, <2>2, <2>3 DEF AuditOK
<1>7. CASE BackupBegins
  <2>1. /\ Len(copies') = n + 1
        /\ \A i \in 1..n : copies'[i] = copies[i] /\ remote'[i] = remote[i]
        /\ copies'[n + 1] = [db |-> 0, tar |-> NoTar, of |-> backupDay, here |-> Files]
        /\ remote'[n + 1] = [db |-> 0, tar |-> NoTar, of |-> backupDay]
    BY <1>1, <1>7, BackupBeginsIs
  <2>2. TarOK(NoTar, backupDay)
    <3>1. backupDay \in Nat
      BY <1>1, BackupNumbers DEF BackupsType
    <3> QED
      BY <3>1, NoTarIs DEF TarOK
  <2>3. \A i \in 1..n + 1 : i \in 1..n \/ i = n + 1
    BY <1>2
  <2> HIDE DEF n
  <2>4. ASSUME NEW i \in 1..Len(copies')
        PROVE  OK(copies'[i].tar, copies'[i].of) /\ OK(remote'[i].tar, remote'[i].of)
    <3>1. CASE i \in 1..n
      BY <1>4, <1>5, <2>1, <3>1
    <3>2. CASE i = n + 1
      <4>1. /\ copies'[i].tar = NoTar /\ copies'[i].of = backupDay
            /\ remote'[i].tar = NoTar /\ remote'[i].of = backupDay
        BY <2>1, <3>2
      <4> QED
        BY <1>5, <2>2, <4>1
    <3> QED
      BY <2>1, <2>3, <3>1, <3>2
  <2> QED
    BY <1>6, <2>4
<1>8. ASSUME Dumps \/ ArchivesAudit \/ Uploads \/ BackupEnds
      PROVE  AuditOK'
  <2>1. RowsMove
    BY <1>8, BackupRows
  <2>2. /\ Len(copies') = n
        /\ \A i \in 1..n : i # n => copies'[i] = copies[i] /\ remote'[i] = remote[i]
    BY <1>2, <2>1 DEF RowsMove
  <2>3. n \in 1..n
    <3>1. backup # "idle"
      BY <1>8 DEF Dumps, ArchivesAudit, Uploads, BackupEnds
    <3>2. n # 0
      BY <1>2, <3>1 DEF BackupsInv, SavedOK
    <3> QED
      BY <1>2, <3>2
  <2>4. TarOK(copies[n].tar, copies[n].of) /\ TarOK(remote[n].tar, remote[n].of)
    BY <1>4, <2>3
  <2>t. OK(copies[n].tar, copies[n].of) /\ OK(remote[n].tar, remote[n].of)
    BY <1>5, <2>4
  <2>5. OK(copies'[n].tar, copies'[n].of) /\ OK(remote'[n].tar, remote'[n].of)
    <3>1. CASE Dumps
      <4>1. copies'[n].tar = copies[n].tar /\ copies'[n].of = copies[n].of /\ remote' = remote
        BY <1>2, <3>1, BackupRows
      <4> QED
        BY <2>t, <4>1
    <3>2. CASE ArchivesAudit
      <4>1. copies'[n].tar = logged /\ copies'[n].of = backupDay /\ remote' = remote
        BY <1>2, <3>2, BackupRows
      <4>2. OK(logged, backupDay)
        <5>1. backupDay \in Nat
          BY <1>1, BackupNumbers DEF BackupsType
        <5>2. halved' = halved \cup BeingWritten
          BY <3>2 DEF ArchivesAudit
        <5> QED
          BY <1>4, <5>1, <5>2 DEF OK, OtherDaysSurvive
      <4> QED
        BY <2>t, <4>1, <4>2
    <3>3. CASE Uploads
      <4>1. copies' = copies /\ remote'[n].tar = copies[n].tar /\ remote'[n].of = copies[n].of
        BY <1>2, <3>3, BackupRows
      <4> QED
        BY <2>t, <4>1
    <3>4. CASE BackupEnds
      <4>1. /\ copies'[n].tar = copies[n].tar /\ copies'[n].of = copies[n].of
            /\ remote'[n].tar = remote[n].tar /\ remote'[n].of = remote[n].of
        BY <1>2, <3>4, BackupRows
      <4> QED
        BY <2>t, <4>1
    <3> QED
      BY <1>8, <3>1, <3>2, <3>3, <3>4
  <2> HIDE DEF n
  <2>6. \A i \in 1..n : OK(copies'[i].tar, copies'[i].of) /\ OK(remote'[i].tar, remote'[i].of)
    BY <1>4, <1>5, <2>2, <2>5, Zenon
  <2> QED
    BY <1>6, <2>2, <2>6
<1>9. CASE Prunes
  <2>1. /\ Len(copies') = n /\ remote' = remote
        /\ \A i \in 1..n : copies'[i].tar = copies[i].tar /\ copies'[i].of = copies[i].of
    BY <1>1, <1>9, PrunesIs
  <2> QED
    BY <1>4, <1>5, <1>6, <2>1
<1>10. CASE BackupSucceeds
  <2>1. copies' = copies /\ remote' = remote
    BY <1>10 DEF BackupSucceeds
  <2> QED
    BY <1>4, <1>5, <1>6, <2>1
<1> QED
  BY <1>7, <1>8, <1>9, <1>10

-----------------------------------------------------------------------------

\* The rows and the stage, of a run of backup.sh.
LEMMA BackupKeepsTypes ==
  ASSUME BackupsInv,
         BackupBegins \/ Dumps \/ ArchivesAudit \/ Uploads \/ Prunes \/ BackupSucceeds \/ BackupEnds
  PROVE  BackupsType'
<1>1. BackupsType
  BY DEF BackupsInv
<1>2. copies' \in Seq(CopyRow) /\ remote' \in Seq(RemoteRow) /\ Len(remote') = Len(copies')
  <2>1. CASE BackupBegins
    BY <1>1, <2>1, BackupBeginsIs
  <2>2. CASE Prunes
    <3>1. remote \in Seq(RemoteRow) /\ Len(remote) = Len(copies)
      BY <1>1 DEF BackupsType
    <3> QED
      BY <1>1, <2>2, <3>1, PrunesIs
  <2>3. ASSUME Dumps \/ ArchivesAudit \/ Uploads \/ BackupEnds
        PROVE  copies' \in Seq(CopyRow) /\ remote' \in Seq(RemoteRow) /\ Len(remote') = Len(copies')
    BY <2>3, BackupRows DEF RowsMove
  <2>4. CASE BackupSucceeds
    BY <1>1, <2>4 DEF BackupSucceeds, BackupsType
  <2> QED
    BY <2>1, <2>2, <2>3, <2>4
<1>3. data' = data \/ data' = CheckpointedData
  BY Zenon DEF BackupBegins, Dumps, ArchivesAudit, Uploads, Prunes, BackupSucceeds, BackupEnds
<1>4. data \in [db : Int, base : Int, wal : Int]
  BY <1>1 DEF BackupsType
<1>5. data' \in [db : Int, base : Int, wal : Int]
  <2>1. CheckpointedData \in [db : Int, base : Int, wal : Int]
    BY <1>4, VisibleIs
  <2> QED
    BY <1>3, <1>4, <2>1, Zenon
<1>6. backup' \in {"idle", "dump", "archive", "upload", "prune"}
  BY DEF BackupBegins, Dumps, ArchivesAudit, Uploads, Prunes, BackupSucceeds, BackupEnds
<1>7. UNCHANGED <<running, made, backupDay, logged, restore, restored, written>>
  BY DEF BackupBegins, Dumps, ArchivesAudit, Uploads, Prunes, BackupSucceeds, BackupEnds, BesidesBackup
<1> QED
  BY <1>1, <1>2, <1>5, <1>6, <1>7, Zenon DEF BackupsType

\* A file that a restore is writing when it ends is halved.
LEMMA RestoreKeepsLost ==
  ASSUME BackupsInv,
         \/ ServiceStops \/ ServiceStarts
         \/ RestoreAsks \/ RestoreBegins \/ SetsAside \/ SetsLogAside \/ CopyBegins \/ CopyEnds
         \/ Counts \/ FindsArchive \/ RestoreSucceeds \/ RestoreEnds
  PROVE  LostGrows
<1>1. ExtractOK /\ restore \in RestoreRow
  BY DEF BackupsInv, BackupsType
<1>2. CASE RestoreEnds
  BY <1>2 DEF RestoreEnds, LostGrows
<1>3. CASE RestoreSucceeds
  BY <1>3 DEF RestoreSucceeds, LostGrows, BeingWritten
<1>4. CASE FindsArchive
  <2>1. BeingWritten = {}
    BY <1>1, <1>4 DEF FindsArchive, ExtractOK
  <2> QED
    BY <1>4, <2>1 DEF FindsArchive, LostGrows
<1>5. CASE SetsAside \/ SetsLogAside \/ CopyBegins \/ CopyEnds \/ Counts \/ RestoreBegins
  <2>1. BeingWritten = {}
    BY <1>1, <1>5 DEF SetsAside, SetsLogAside, CopyBegins, CopyEnds, Counts, RestoreBegins, ExtractOK
  <2> QED
    BY <1>5, <2>1 DEF SetsAside, SetsLogAside, CopyBegins, CopyEnds, Counts, RestoreBegins, LostGrows
<1>6. CASE ServiceStops \/ ServiceStarts \/ RestoreAsks
  <2>1. UNCHANGED <<restore, extracted, halved>>
    BY <1>6, Zenon DEF ServiceStops, ServiceStarts, RestoreAsks
  <2> QED
    BY <2>1 DEF LostGrows, BeingWritten
<1> QED
  BY <1>2, <1>3, <1>4, <1>5, <1>6

\* Every step keeps the invariant.
LEMMA BackupsStep == BackupsInv /\ [BackupsNext]_backupVars => BackupsInv'
<1> SUFFICES ASSUME BackupsInv, [BackupsNext]_backupVars
             PROVE  BackupsInv'
  OBVIOUS
<1>1. ASSUME BackupBegins \/ Dumps \/ ArchivesAudit \/ Uploads \/ Prunes \/ BackupSucceeds \/ BackupEnds
      PROVE  BackupsInv'
  BY <1>1, BackupKeepsTypes, SavedByBackup, RestoreBesideBackup, ExtractBesideBackup,
     BackupKeepsAudit DEF BackupsInv
<1>2. ASSUME \/ ServiceWrites \/ ServiceStops \/ ServiceStarts \/ BackupDayPasses
             \/ RestoreAsks \/ RestoreBegins \/ SetsAside \/ SetsLogAside \/ CopyBegins \/ CopyEnds
             \/ Counts \/ FindsArchive \/ ExtractBegins \/ ExtractEnds \/ RestoreSucceeds \/ RestoreEnds
      PROVE  BackupsInv'
  <2>1. UNCHANGED <<copies, remote, backup, succeeded>>
    BY <1>2, Zenon DEF ServiceWrites, ServiceStops, ServiceStarts, BackupDayPasses, RestoreAsks,
         RestoreBegins, SetsAside, SetsLogAside, CopyBegins, CopyEnds, Counts, FindsArchive,
         ExtractBegins, ExtractEnds, RestoreSucceeds, RestoreEnds, BesidesRestore
  <2>2. BackupsType'
    BY <1>2, <2>1, OthersKeepTypes, Zenon
  <2>3. RestoreOK'
    BY <1>2, <2>1, RestoreByItself, Zenon
  <2>4. SavedOK'
    BY <2>1, Zenon DEF BackupsInv, SavedOK, ThisRun, IsWhole, IsUploaded
  <2>5. AuditOK'
    <3>1. CASE ExtractBegins \/ ExtractEnds
      BY <3>1, ExtractsKeepAudit
    <3>2. CASE ServiceWrites \/ BackupDayPasses
      <4>1. UNCHANGED <<extracted, halved, restore>>
        BY <3>2 DEF ServiceWrites, BackupDayPasses
      <4> QED
        BY <2>1, <3>2, <4>1, ServiceKeepsAudit, Zenon
    <3>3. ASSUME \/ ServiceStops \/ ServiceStarts
                 \/ RestoreAsks \/ RestoreBegins \/ SetsAside \/ SetsLogAside \/ CopyBegins \/ CopyEnds
                 \/ Counts \/ FindsArchive \/ RestoreSucceeds \/ RestoreEnds
          PROVE  AuditOK'
      <4>1. UNCHANGED <<backupDay, logged, written>>
        BY <3>3, Zenon DEF ServiceStops, ServiceStarts, RestoreAsks, RestoreBegins, SetsAside,
             SetsLogAside, CopyBegins, CopyEnds, Counts, FindsArchive, RestoreSucceeds, RestoreEnds,
             BesidesRestore
      <4>2. LostGrows
        BY <3>3, RestoreKeepsLost, Zenon
      <4> QED
        BY <2>1, <4>1, <4>2, OthersKeepAudit, Zenon
    <3> QED
      BY <1>2, <3>1, <3>2, <3>3, Zenon
  <2>6. ExtractOK'
    BY <1>2, <2>1, ExtractByItself, Zenon
  <2> QED
    BY <2>2, <2>3, <2>4, <2>5, <2>6 DEF BackupsInv
<1>3. CASE UNCHANGED backupVars
  <2>1. UNCHANGED <<data, running, made, backupDay, logged, copies, remote, backup, restore, succeeded,
                    restored, written, extracted, halved>>
    BY <1>3 DEF backupVars
  <2>2. BackupsType'
    BY <2>1, Zenon DEF BackupsInv, BackupsType
  <2>3. SavedOK'
    BY <2>1, Zenon DEF BackupsInv, SavedOK, ThisRun, IsWhole, IsUploaded
  <2>4. RestoreOK'
    <3>1. Restorable' = Restorable
      BY <2>1, Zenon DEF Restorable
    <3> QED
      BY <2>1, <3>1, Zenon DEF BackupsInv, RestoreOK
  <2>5. AuditOK'
    BY <2>1, Zenon DEF BackupsInv, AuditOK, TarOK, OtherDaysSurvive, BeingWritten
  <2>6. ExtractOK'
    <3>1. Restorable' = Restorable
      BY <2>1, Zenon DEF Restorable
    <3> QED
      BY <2>1, <3>1, Zenon DEF BackupsInv, ExtractOK, BeingWritten
  <2> QED
    BY <2>2, <2>3, <2>4, <2>5, <2>6 DEF BackupsInv
<1> QED
  BY <1>1, <1>2, <1>3, Zenon DEF BackupsNext

\* Of the runs that succeeded there is a last one.
LEMMA LastSuccess ==
  ASSUME BackupsInv, succeeded # {}
  PROVE  \E i \in succeeded : \A j \in succeeded : j <= i
<1> DEFINE R == OpToRel(<, Nat)
           n == Len(copies)
           S == {n - i : i \in succeeded}
<1>1. n \in Nat /\ \A i \in succeeded : i \in 1..n
  BY RowsAre DEF BackupsInv, SavedOK
<1> HIDE DEF n
<1>2. S # {} /\ S \subseteq Nat
  BY <1>1
<1>3. \A x, y \in Nat : x < y => <<x, y>> \in R
  BY DEF OpToRel
<1>4. IsWellFoundedOn(R, Nat)
  BY NatLessThanWellFounded
<1> HIDE DEF R, S
<1>5. PICK x \in S : \A y \in S : <<y, x>> \notin R
  BY <1>2, <1>4, WFMin, Zenon
<1>6. \A y \in S : ~(y < x)
  BY <1>2, <1>3, <1>5
<1>7. PICK i \in succeeded : x = n - i
  BY <1>5 DEF S
<1>8. ASSUME NEW j \in succeeded
      PROVE  j <= i
  <2>1. n - j \in S
    BY DEF S
  <2>2. ~(n - j < n - i)
    BY <1>6, <1>7, <2>1
  <2> QED
    BY <1>1, <2>2
<1> QED
  BY <1>8

\* Wherever the scripts stop, also half way through an upload, the removal of an old copy or the
\* extraction of an archive, the last backup that reported SUCCESS can be restored and a restore
\* replaces no more than it says (backup.sh:23-28, 121-154, restore.sh:108-136), for any number of
\* backups, restores, commits and days and any positive INFRAGPT_BACKUP_KEEP.
THEOREM BackupsTheorem == BackupsSpec => []BackupsHold
<1>1. ASSUME BackupsInv
      PROVE  BackupsHold
  <2>1. SuccessIsUsable
    <3> DEFINE Usable(i) == /\ copies[i].db \notin {0, Half} /\ IsUploaded(i)
                            /\ \E j \in i..Len(copies) : IsWhole(j) /\ IsUploaded(j)
    <3> SUFFICES ASSUME succeeded # {}
                 PROVE  Usable(CHOOSE i \in succeeded : \A j \in succeeded : j <= i)
      BY DEF SuccessIsUsable
    <3>1. \A i \in succeeded : Usable(i)
      BY <1>1 DEF BackupsInv, SavedOK
    <3>2. \E i \in succeeded : \A j \in succeeded : j <= i
      BY <1>1, LastSuccess, Zenon
    <3> HIDE DEF Usable
    <3> QED
      BY <3>1, <3>2, Zenon
  <2>2. RestoreIsExact
    BY <1>1, Zenon DEF BackupsInv, RestoreOK, RestoreIsExact, RestoresRepeat
  <2>3. OtherDaysSurvive
    BY <1>1, Zenon DEF BackupsInv, AuditOK
  <2> QED
    BY <2>1, <2>2, <2>3 DEF BackupsHold
<1> QED
  BY BackupsInitial, BackupsStep, <1>1, PTL DEF BackupsSpec

-----------------------------------------------------------------------------
(* Migrations: whichever statements are ALTERs and whatever releases and   *)
(* crashes there are, the recorded version is never ahead of the schema,   *)
(* at most one statement is applied and not recorded, and a process that   *)
(* serves finds the schema its code needs.                                 *)

\* What the connection sees, relative to where the loop is: every statement
\* before idx is applied and recorded, and so is idx itself once it ran.  Until
\* the first INSERT that is what is on disk; after it, idx is still to be run.
Loop ==
  phase = "migrating" =>
    /\ 1..(idx - 1) \subseteq conn.applied
    /\ conn.applied \subseteq 1..idx
    /\ conn.version = idx - 1
    /\ ran => idx \in conn.applied /\ idx <= release
    /\ ~inTx => conn = disk
    /\ inTx /\ ~ran => idx \notin conn.applied

\* A crash leaves at most one statement that is applied and not recorded.
NearlyAtomic == disk.applied \subseteq 1..(disk.version + 1)

\* The inductive invariant.
MigrationsInv ==
  /\ MigrationsTypeOK /\ VersionIsApplied /\ NearlyAtomic
  /\ Loop
  /\ phase = "serving" => release <= disk.version

\* The assumptions, one by one.
LEMMA MigrationsBounds == N \in Nat /\ MaxCrashes \in Nat /\ Releases \subseteq 0..N
  BY MigrationsAssumption

\* Recording a statement as applied.
LEMMA WithStatementFields ==
  ASSUME NEW schema \in Schema, idx \in 1..N
  PROVE  /\ WithStatement(schema) \in Schema
         /\ WithStatement(schema).applied = schema.applied \cup {idx}
         /\ WithStatement(schema).version = schema.version
  BY DEF Schema, WithStatement

\* Recording a version.
LEMMA VersionFields ==
  ASSUME NEW schema \in Schema, NEW v \in 0..N
  PROVE  /\ [schema EXCEPT !.version = v] \in Schema
         /\ [schema EXCEPT !.version = v].applied = schema.applied
         /\ [schema EXCEPT !.version = v].version = v
  BY DEF Schema

\* TypeOK in two parts.
Flags == ran \in BOOLEAN /\ inTx \in BOOLEAN

Rest ==
  /\ phase \in {"down", "migrating", "serving", "failed"}
  /\ release \in 0..N /\ idx \in 1..(N + 1)
  /\ disk \in Schema /\ conn \in Schema
  /\ crashes \in 0..MaxCrashes

\* The first state satisfies the invariant.
LEMMA MigrationsInitial == MigrationsInit => MigrationsInv
  <1> SUFFICES ASSUME MigrationsInit PROVE MigrationsInv
      OBVIOUS
  <1>1. Empty \in Schema /\ Empty.applied = {} /\ Empty.version = 0
      BY MigrationsBounds DEF Empty, Schema
  <1>2. MigrationsTypeOK
    <2>1. Flags
        BY DEF Flags, MigrationsInit
    <2>2. Rest
        BY <1>1, MigrationsBounds DEF Rest, MigrationsInit
    <2> QED
        BY <2>1, <2>2 DEF MigrationsTypeOK, Flags, Rest
  <1>3. VersionIsApplied /\ NearlyAtomic /\ Loop
      BY <1>1 DEF MigrationsInit, VersionIsApplied, NearlyAtomic, Loop
  <1> QED
      BY <1>2, <1>3 DEF MigrationsInit, MigrationsInv

\* A start takes what is on disk as it is.
LEMMA StartStep ==
  ASSUME MigrationsInv, NEW r \in Releases, StartRelease(r)
  PROVE  MigrationsInv'
  <1>1. r \in 0..N /\ disk.version \in 0..N
      BY MigrationsBounds DEF MigrationsInv, MigrationsTypeOK, Schema
  <1>2. MigrationsTypeOK'
    <2>1. Flags'
        BY DEF MigrationsInv, MigrationsTypeOK, Flags, StartRelease
    <2>2. Rest'
        BY <1>1, MigrationsBounds DEF MigrationsInv, MigrationsTypeOK, Rest, StartRelease
    <2> QED
        BY <2>1, <2>2 DEF MigrationsTypeOK, Flags, Rest
  <1>3. (VersionIsApplied /\ NearlyAtomic)'
      BY DEF MigrationsInv, VersionIsApplied, NearlyAtomic, StartRelease
  <1>4. Loop'
    <2>1. disk.version + 1 - 1 = disk.version
        BY <1>1
    <2> QED
        BY <2>1, <1>1 DEF MigrationsInv, VersionIsApplied, NearlyAtomic, Loop, StartRelease
  <1> QED
      BY <1>2, <1>3, <1>4 DEF MigrationsInv, StartRelease

\* A statement that runs is in what the connection sees, and on disk as well
\* if it is the first.
LEMMA DdlStep ==
  ASSUME MigrationsInv, Ddl
  PROVE  MigrationsInv'
  <1>1. idx \in 1..N /\ idx <= release /\ phase = "migrating" /\ ~ran
      BY MigrationsBounds DEF MigrationsInv, MigrationsTypeOK, Ddl, AtStatement
  <1>2. conn \in Schema /\ disk \in Schema
      BY DEF MigrationsInv, MigrationsTypeOK
  <1>3. /\ conn' \in Schema /\ conn'.applied = conn.applied \cup {idx}
        /\ conn'.version = conn.version
      BY <1>1, <1>2, WithStatementFields DEF Ddl
  <1>4. /\ disk' \in Schema /\ disk'.version = disk.version
        /\ inTx => disk' = disk
        /\ ~inTx => disk' = conn' /\ disk = conn
      BY <1>1, <1>2, WithStatementFields DEF Ddl, MigrationsInv, Loop
  <1>5. MigrationsTypeOK'
    <2>1. Flags'
        BY DEF MigrationsInv, MigrationsTypeOK, Flags, Ddl
    <2>2. Rest'
        BY <1>3, <1>4 DEF MigrationsInv, MigrationsTypeOK, Rest, Ddl
    <2> QED
        BY <2>1, <2>2 DEF MigrationsTypeOK, Flags, Rest
  <1>6. /\ 1..(idx - 1) \subseteq conn.applied /\ conn.applied \subseteq 1..idx
        /\ conn.version = idx - 1
      BY <1>1 DEF MigrationsInv, Loop
  <1>7. (VersionIsApplied /\ NearlyAtomic)'
    <2>1. CASE inTx
        BY <2>1, <1>4 DEF MigrationsInv, VersionIsApplied, NearlyAtomic
    <2>2. CASE ~inTx
        BY <2>2, <1>1, <1>3, <1>4, <1>6 DEF VersionIsApplied, NearlyAtomic
    <2> QED
        BY <2>1, <2>2
  <1>8. Loop'
      BY <1>1, <1>3, <1>4, <1>6 DEF Loop, Ddl
  <1> QED
      BY <1>1, <1>5, <1>7, <1>8 DEF MigrationsInv, Ddl

\* The INSERT moves the loop on, to a statement that was not run.
LEMMA RecordStep ==
  ASSUME MigrationsInv, Record
  PROVE  MigrationsInv'
  <1>1. /\ phase = "migrating" /\ ran /\ idx \in 1..N
        /\ idx \in conn.applied /\ conn.applied \subseteq 1..idx
        /\ 1..(idx - 1) \subseteq conn.applied
      BY MigrationsBounds DEF MigrationsInv, MigrationsTypeOK, Loop, Record
  <1>2. conn \in Schema
      BY DEF MigrationsInv, MigrationsTypeOK
  <1>3. /\ conn' \in Schema /\ conn'.applied = conn.applied /\ conn'.version = idx
        /\ idx' = idx + 1 /\ inTx' = TRUE /\ ran' = FALSE /\ phase' = phase
        /\ disk' = disk
      BY <1>1, <1>2, VersionFields DEF Record
  <1>4. MigrationsTypeOK'
    <2>1. Flags'
        BY <1>3 DEF MigrationsInv, MigrationsTypeOK, Flags, Record
    <2>2. conn' \in Schema /\ idx' \in 1..(N + 1)
        BY <1>1, <1>3, MigrationsBounds
    <2>3. Rest'
        BY <2>2 DEF MigrationsInv, MigrationsTypeOK, Rest, Record
    <2> QED
        BY <2>1, <2>3 DEF MigrationsTypeOK, Flags, Rest
  <1>5. (VersionIsApplied /\ NearlyAtomic)'
      BY <1>3 DEF MigrationsInv, VersionIsApplied, NearlyAtomic
  <1>6. Loop'
      BY <1>1, <1>3 DEF Loop
  <1> QED
      BY <1>1, <1>3, <1>4, <1>5, <1>6 DEF MigrationsInv

\* The commit puts on disk everything that is recorded.
LEMMA CommitStep ==
  ASSUME MigrationsInv, Commit
  PROVE  MigrationsInv'
  <1>1. /\ 1..(idx - 1) \subseteq conn.applied /\ conn.applied \subseteq 1..idx
        /\ conn.version = idx - 1 /\ idx \in 1..(N + 1) /\ release \in 0..N
        /\ idx > release
      BY DEF MigrationsInv, MigrationsTypeOK, Loop, Commit
  <1>2. MigrationsTypeOK'
    <2>1. Flags'
        BY DEF MigrationsInv, MigrationsTypeOK, Flags, Commit
    <2>2. Rest'
        BY MigrationsBounds DEF MigrationsInv, MigrationsTypeOK, Rest, Commit
    <2> QED
        BY <2>1, <2>2 DEF MigrationsTypeOK, Flags, Rest
  <1>3. (VersionIsApplied /\ NearlyAtomic)'
      BY <1>1 DEF VersionIsApplied, NearlyAtomic, Commit
  <1>4. release' <= disk'.version
      BY <1>1 DEF Commit
  <1>5. Loop'
      BY DEF Loop, Commit
  <1> QED
      BY <1>2, <1>3, <1>4, <1>5 DEF MigrationsInv

\* Every step keeps it.
LEMMA MigrationsStep == MigrationsInv /\ [MigrationsNext]_migrationVars => MigrationsInv'
  <1> SUFFICES ASSUME MigrationsInv, [MigrationsNext]_migrationVars PROVE MigrationsInv'
      OBVIOUS
  <1>1. ASSUME NEW r \in Releases, StartRelease(r) PROVE MigrationsInv'
      BY <1>1, StartStep
  <1>2. CASE Ddl
      BY <1>2, DdlStep
  <1>3. CASE DdlFails
      BY <1>3 DEF MigrationsInv, MigrationsTypeOK, VersionIsApplied, NearlyAtomic, Loop, DdlFails
  <1>4. CASE Record
      BY <1>4, RecordStep
  <1>5. CASE Commit
      BY <1>5, CommitStep
  <1>6. CASE Crash
    <2>1. MigrationsTypeOK'
      <3>1. Flags'
          BY <1>6 DEF MigrationsInv, MigrationsTypeOK, Flags, Crash
      <3>2. Rest'
          BY <1>6, MigrationsBounds DEF MigrationsInv, MigrationsTypeOK, Rest, Crash
      <3> QED
          BY <3>1, <3>2 DEF MigrationsTypeOK, Flags, Rest
    <2> QED
        BY <2>1, <1>6 DEF MigrationsInv, VersionIsApplied, NearlyAtomic, Loop, Crash
  <1>7. CASE UNCHANGED migrationVars
      BY <1>7 DEF MigrationsInv, MigrationsTypeOK, VersionIsApplied, NearlyAtomic, Loop, migrationVars
  <1> QED
      BY <1>1, <1>2, <1>3, <1>4, <1>5, <1>6, <1>7 DEF MigrationsNext, Step

\* So it holds throughout.
LEMMA MigrationsInvariance == MigrationsSpec => []MigrationsInv
  BY MigrationsInitial, MigrationsStep, PTL DEF MigrationsSpec

\* Every value stays within its type.
THEOREM MigrationsTypeCorrect == MigrationsSpec => []MigrationsTypeOK
  <1>1. MigrationsInv => MigrationsTypeOK
      BY DEF MigrationsInv
  <1> QED
      BY <1>1, MigrationsInvariance, PTL

\* The recorded version is never ahead of the schema, and at most one statement
\* is applied and not recorded, whenever the process dies.
THEOREM VersionTheorem == MigrationsSpec => [](VersionIsApplied /\ NearlyAtomic)
  <1>1. MigrationsInv => VersionIsApplied /\ NearlyAtomic
      BY DEF MigrationsInv
  <1> QED
      BY <1>1, MigrationsInvariance, PTL

\* A process that serves finds the schema its code was written for.
THEOREM SchemaTheorem == MigrationsSpec => []ServesItsSchema
  <1>1. MigrationsInv => ServesItsSchema
    <2> SUFFICES ASSUME MigrationsInv, phase = "serving" PROVE 1..release \subseteq disk.applied
        BY DEF ServesItsSchema
    <2>1. release \in 0..N /\ disk.version \in 0..N /\ release <= disk.version
        BY DEF MigrationsInv, MigrationsTypeOK, Schema
    <2> QED
        BY <2>1 DEF MigrationsInv, VersionIsApplied
  <1> QED
      BY <1>1, MigrationsInvariance, PTL

\* A start only ever fails at an ALTER, and only at the first statement it had
\* to run: one that an earlier start applied and died before recording.
THEOREM FailureTheorem == MigrationsSpec => FailsOnlyAtAlter
  <1>1. MigrationsInv /\ [MigrationsNext]_migrationVars
          => [phase' = "failed" => idx \in Alters /\ idx = disk.version + 1]_migrationVars
    <2> SUFFICES ASSUME MigrationsInv, MigrationsNext, phase' = "failed"
                 PROVE  idx \in Alters /\ idx = disk.version + 1
        BY Zenon DEF migrationVars
    <2>1. DdlFails
      <3>1. \A r \in Releases : ~StartRelease(r)
          BY DEF StartRelease
      <3>2. ~Ddl /\ ~Record /\ ~Commit /\ ~Crash
          BY DEF Ddl, AtStatement, Record, Commit, Crash
      <3> QED
          BY <3>1, <3>2 DEF MigrationsNext, Step
    <2>2. /\ idx \in Alters /\ idx \in conn.applied /\ ~ran
          /\ phase = "migrating" /\ idx \in Nat
        BY <2>1, MigrationsBounds DEF DdlFails, AtStatement, Repeatable, MigrationsInv, MigrationsTypeOK
    <2>3. conn = disk /\ conn.version = idx - 1
        BY <2>2 DEF MigrationsInv, Loop
    <2> QED
        BY <2>2, <2>3
  <1> QED
      BY <1>1, MigrationsInvariance, PTL DEF MigrationsSpec, FailsOnlyAtAlter
=============================================================================
