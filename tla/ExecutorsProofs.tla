--------------------------- MODULE ExecutorsProofs --------------------------
(***************************************************************************)
(* Proofs about what a call goes through, each component by itself: the    *)
(* door with its cache (Dispatch), processes (Commands), the model gateway *)
(* (Gateway), an MCP server (Mcp), the credentials of the clouds           *)
(* (Credentials) and the catalogue (Registry).  They hold for any number   *)
(* of calls, keys, names and connections and for any limits and clocks.    *)
(***************************************************************************)
EXTENDS Registry, Dispatch, Mcp, Commands, Credentials, Gateway, SequenceTheorems,
        WellFoundedInduction, TLAPS

(***************************************************************************)
(* DISPATCH.  The age of an answer is honest because an entry's time is    *)
(* the time of its store, which is at most a run after its read, and an    *)
(* output is clean because only clean ones are kept.                       *)
(***************************************************************************)

\* The bounds are numbers.
LEMMA DispatchBounds ==
  Ttl \in Nat /\ Keep \in Nat /\ MaxRun \in Nat /\ MaxTime \in Nat
BY DispatchAssumption

\* The keys that were asked for with a filter.
Filtered == {k \in Keys : IsFiltered(k)}

\* What a text may hold of secrets: OnlyCutSecretsPass, given whether it was cut and filtered.
CleanText(text, truncated, filtered) ==
  /\ text \cap Secrets = {}
  /\ Piece \in text => truncated
  /\ text \cap Block # {} => ~(BlockEnds \subseteq text) /\ (truncated \/ filtered)

\* What is kept was read at most a run before it was stored, and went through the tail.
EntryOK(E, t, filtered) ==
  E.ts # -1 => /\ E.ts <= t /\ E.at \in 0..E.ts /\ E.ts - E.at <= MaxRun
               /\ CleanText(E.text, E.truncated, filtered)

\* A run is granted, and no older than an executor's run may be.
RunningOK(C, t) ==
  C.pc = "running" => C.granted /\ C.since <= t /\ t <= C.since + MaxRun

\* What a reply may say: AnswersAreHonest and OnlyCutSecretsPass of one call.
AnswerOK(C, filtered) ==
  LET r == C.reply IN
  /\ r.ok => r.at # -1
  /\ r.ok \/ r.error # {} => C.granted
  /\ r.age # -1 =>
       /\ r.age < Ttl /\ r.when - r.age - r.at \in 0..MaxRun
       /\ C.needle = NoNeedle /\ ~r.truncated => Mark \in r.text
  /\ CleanText(r.text, r.truncated, filtered)

\* The inductive invariant.
DispatchInv ==
  /\ TypeOK
  /\ \A k \in Keys : EntryOK(cache[k], now, k \in Filtered)
  /\ \A c \in Calls : RunningOK(call[c], now) /\ AnswerOK(call[c], call[c].key \in Filtered)

\* A text that is cut is a text; it has a piece of a secret only if it is told.
LEMMA CutsAre ==
  ASSUME NEW text \in Texts, NEW r \in Cuts(text)
  PROVE  /\ r \in [text : Texts, truncated : BOOLEAN]
         /\ r.text \subseteq text \cup {Piece}
         /\ ~r.truncated => r.text = text
<1>1. CASE r = [text |-> text, truncated |-> FALSE]
  BY <1>1
<1>2. CASE \E fits \in Beginnings, piece \in {{}} \cup {{Piece} : l \in text \cap (Secrets \cup Block)} :
             r = [text |-> (text \cap (fits \cup {Masked})) \cup piece, truncated |-> TRUE]
  <2>1. PICK fits \in Beginnings, piece \in {{}} \cup {{Piece} : l \in text \cap (Secrets \cup Block)} :
          r = [text |-> (text \cap (fits \cup {Masked})) \cup piece, truncated |-> TRUE]
    BY <1>2
  <2> DEFINE T == (text \cap (fits \cup {Masked})) \cup piece
  <2>2. piece \subseteq {Piece}
    OBVIOUS
  <2>3. T \subseteq text \cup {Piece}
    BY <2>2
  <2>4. T \in Texts
    BY <2>3 DEF Texts
  <2>5. r = [text |-> T, truncated |-> TRUE]
    BY <2>1
  <2> HIDE DEF T
  <2> QED
    BY <2>3, <2>4, <2>5
<1> QED
  BY <1>1, <1>2 DEF Cuts

\* A text that was redacted has no secret, and of a block at most a part.
LEMMA RedactIs ==
  ASSUME NEW text \in Texts
  PROVE  /\ Redact(text) \in Texts /\ Redact(text) \cap Secrets = {}
         /\ Redact(text) \subseteq text \cup {Masked}
         /\ Mark \in text => Mark \in Redact(text)
         /\ Redact(text) \cap Block # {} =>
              ~(BlockEnds \subseteq Redact(text)) /\ ~(BlockEnds \subseteq text) /\ text \cap Block # {}
<1>1. /\ Masked \notin Lines /\ Mark \notin Lines /\ Secrets \subseteq Lines /\ Block \subseteq Lines
      /\ BlockEnds \subseteq Block
  BY DispatchAssumption
<1> DEFINE hidden == (text \cap Secrets) \cup (IF BlockEnds \subseteq text THEN text \cap Block ELSE {})
<1>2. Redact(text) = (text \ hidden) \cup (IF hidden # {} THEN {Masked} ELSE {})
  BY DEF Redact
<1>3. Redact(text) \subseteq text \cup {Masked} /\ Redact(text) \in Texts
  BY <1>2 DEF Texts
<1>4. Redact(text) \cap Secrets = {}
  BY <1>1, <1>2
<1>5. Mark \in text => Mark \in Redact(text)
  BY <1>1, <1>2
<1>6. ASSUME Redact(text) \cap Block # {}
      PROVE  ~(BlockEnds \subseteq Redact(text)) /\ ~(BlockEnds \subseteq text) /\ text \cap Block # {}
  <2>1. text \cap Block # {}
    BY <1>1, <1>3, <1>6
  <2>2. ~(BlockEnds \subseteq text)
    BY <1>1, <1>2, <1>6
  <2>3. BlockEnds \subseteq Redact(text) => BlockEnds \subseteq text
    BY <1>1, <1>3
  <2> QED
    BY <2>1, <2>2, <2>3
<1> QED
  BY <1>3, <1>4, <1>5, <1>6

\* What went through the tail has no secret but what a filter or the cap cut, and still has the
\* mark if nothing was cut.
LEMMA TailIsClean ==
  ASSUME NEW text \in Texts, NEW needle \in Lines \cup {NoNeedle}, NEW out \in Tails(text, needle)
  PROVE  /\ out \in [text : Texts, truncated : BOOLEAN]
         /\ out.text \cap Secrets = {}
         /\ needle = NoNeedle /\ ~out.truncated /\ Mark \in text => Mark \in out.text
         /\ Piece \in out.text => out.truncated \/ Piece \in text
         /\ out.text \cap Block # {} =>
              /\ ~(BlockEnds \subseteq out.text) /\ text \cap Block # {}
              /\ out.truncated \/ needle # NoNeedle \/ ~(BlockEnds \subseteq text)
<1>0. /\ Masked # Piece /\ {Masked, Mark, NoMatch, Piece} \cap Lines = {} /\ Block \subseteq Lines
      /\ NoMatch # Piece
  BY DispatchAssumption DEF Masked, Piece, NoMatch
<1>a. PICK r \in UNION {Cuts(K) : K \in Greps(text, needle)} :
        out = [text |-> Redact(r.text), truncated |-> r.truncated]
  BY Zenon DEF Tails
<1>1. PICK left \in Greps(text, needle) : r \in Cuts(left)
  OBVIOUS
<1>2. /\ left \in Texts /\ left \subseteq text \cup {NoMatch}
      /\ needle = NoNeedle => left = text
  BY DEF Greps, Texts
<1>3. /\ r \in [text : Texts, truncated : BOOLEAN] /\ r.text \subseteq left \cup {Piece}
      /\ ~r.truncated => r.text = left
  BY <1>1, <1>2, CutsAre
<1>4. out.text = Redact(r.text) /\ out.truncated = r.truncated
      /\ out = [text |-> Redact(r.text), truncated |-> r.truncated]
  BY <1>a, <1>3
<1>5. /\ Redact(r.text) \in Texts /\ Redact(r.text) \cap Secrets = {}
      /\ Redact(r.text) \subseteq r.text \cup {Masked}
      /\ Mark \in r.text => Mark \in Redact(r.text)
      /\ Redact(r.text) \cap Block # {} =>
           ~(BlockEnds \subseteq Redact(r.text)) /\ ~(BlockEnds \subseteq r.text) /\ r.text \cap Block # {}
  BY <1>3, RedactIs
<1>6. out \in [text : Texts, truncated : BOOLEAN]
  BY <1>3, <1>4, <1>5
<1>7. needle = NoNeedle /\ ~out.truncated /\ Mark \in text => Mark \in out.text
  BY <1>2, <1>3, <1>4, <1>5
<1>8. Piece \in out.text => out.truncated \/ Piece \in text
  BY <1>0, <1>2, <1>3, <1>4, <1>5
<1>9. out.text \cap Block # {} =>
        /\ ~(BlockEnds \subseteq out.text) /\ text \cap Block # {}
        /\ out.truncated \/ needle # NoNeedle \/ ~(BlockEnds \subseteq text)
  BY <1>0, <1>2, <1>3, <1>4, <1>5
<1> QED
  BY <1>4, <1>5, <1>6, <1>7, <1>8, <1>9

\* Failures are replies that say nothing.
LEMMA FailureReply ==
  ASSUME now \in 0..MaxTime, NEW quoted \in SUBSET Lines
  PROVE  /\ Failure(quoted) \in ReplyType
         /\ ~Failure(quoted).ok /\ Failure(quoted).age = -1
         /\ Failure(quoted).text = {} /\ Failure(quoted).error = quoted
<1>1. -1 \in -1..MaxTime
  BY DispatchBounds
<1>2. {} \in Texts
  BY DEF Texts
<1> QED
  BY <1>1, <1>2 DEF Failure, ReplyType

\* Every call of the first state is new.
LEMMA DispatchInit == Init => DispatchInv
<1> SUFFICES ASSUME Init PROVE DispatchInv
  OBVIOUS
<1>1. now = 0 /\ now \in 0..MaxTime /\ -1 \in -1..MaxTime
  BY DispatchBounds DEF Init
<1>2. /\ Failure({}) \in ReplyType /\ ~Failure({}).ok
      /\ Failure({}).age = -1 /\ Failure({}).text = {} /\ Failure({}).error = {}
  BY <1>1, FailureReply
<1>3. NoEntry \in EntryType /\ NoEntry.ts = -1
  BY <1>1 DEF NoEntry, EntryType, Texts
<1>4. cache \in [Keys -> EntryType] /\ \A k \in Keys : EntryOK(cache[k], now, k \in Filtered)
  BY <1>3 DEF Init, EntryOK
<1>5. ASSUME NEW c \in Calls
      PROVE  call[c] \in CallType /\ RunningOK(call[c], now)
             /\ AnswerOK(call[c], call[c].key \in Filtered)
  <2>1. PICK k \in Keys, n \in Lines \cup {NoNeedle}, g \in BOOLEAN :
          call[c] = [pc |-> "new", key |-> k, needle |-> n, granted |-> g,
                     since |-> 0, reply |-> Failure({})]
    BY DEF Init
  <2> DEFINE F == Failure({})
  <2>2. F \in ReplyType /\ ~F.ok /\ F.age = -1 /\ F.text = {} /\ F.error = {}
    BY <1>2
  <2>3. call[c] = [pc |-> "new", key |-> k, needle |-> n, granted |-> g,
                   since |-> 0, reply |-> F]
    BY <2>1
  <2> HIDE DEF F
  <2>4. call[c] \in CallType
    BY <1>1, <2>2, <2>3 DEF CallType
  <2>5. call[c].pc = "new" /\ call[c].reply = F
    BY <2>3
  <2>7. CleanText(F.text, F.truncated, call[c].key \in Filtered)
    BY <2>2 DEF CleanText
  <2>8. RunningOK(call[c], now)
    BY <2>5 DEF RunningOK
  <2> HIDE DEF CleanText
  <2>9. AnswerOK(call[c], call[c].key \in Filtered)
    BY <2>2, <2>5, <2>7 DEF AnswerOK
  <2> QED
    BY <2>4, <2>8, <2>9
<1>6. call \in [Calls -> CallType]
  BY <1>5 DEF Init
<1> QED
  BY <1>1, <1>4, <1>5, <1>6 DEF DispatchInv, TypeOK

\* A step that answers one call and leaves the cache well formed.
LEMMA AnsweringStep ==
  ASSUME DispatchInv, now' = now, NEW c \in Calls, NEW r \in ReplyType,
         call' = Replies(c, r),
         cache' \in [Keys -> EntryType],
         \A k \in Keys : EntryOK(cache'[k], now, k \in Filtered),
         AnswerOK([call[c] EXCEPT !.reply = r], call[c].key \in Filtered)
  PROVE  DispatchInv'
<1>1. call \in [Calls -> CallType] /\ call[c] \in CallType
  BY DEF DispatchInv, TypeOK
<1>2. call' = [call EXCEPT ![c] = [call[c] EXCEPT !.pc = "done", !.reply = r]]
  BY DEF Replies
<1> DEFINE N == [call[c] EXCEPT !.pc = "done", !.reply = r]
<1>3. N \in CallType /\ N.pc = "done" /\ N.reply = r /\ N.granted = call[c].granted
      /\ N.needle = call[c].needle /\ N.key = call[c].key
  BY <1>1 DEF CallType
<1>a. call' = [call EXCEPT ![c] = N]
  BY <1>2
<1> HIDE DEF N
<1>4. AnswerOK(N, call[c].key \in Filtered)
  <2> DEFINE M == [call[c] EXCEPT !.reply = r]
  <2>1. M.reply = r /\ M.granted = call[c].granted /\ M.needle = call[c].needle
    BY <1>1 DEF CallType
  <2>2. AnswerOK(M, call[c].key \in Filtered)
    OBVIOUS
  <2> HIDE DEF M
  <2> QED
    BY <1>3, <2>1, <2>2 DEF AnswerOK
<1>5. RunningOK(N, now)
  BY <1>3 DEF RunningOK
<1>6. call' \in [Calls -> CallType]
  BY <1>1, <1>3, <1>a
<1>7. \A d \in Calls : call'[d] = IF d = c THEN N ELSE call[d]
  BY <1>1, <1>a
<1>k. Filtered' = Filtered
  <2>1. \A d \in Calls : call'[d].key = call[d].key /\ call'[d].needle = call[d].needle
    BY <1>3, <1>7
  <2> QED
    BY <2>1 DEF Filtered, IsFiltered
<1>8. \A d \in Calls : RunningOK(call'[d], now') /\ AnswerOK(call'[d], call'[d].key \in Filtered')
  <2> HIDE DEF Filtered
  <2> QED
    BY <1>3, <1>4, <1>5, <1>7, <1>k DEF DispatchInv
<1>9. TypeOK'
  BY <1>6 DEF DispatchInv, TypeOK
<1>10. \A k \in Keys : EntryOK(cache'[k], now', k \in Filtered')
  BY <1>k
<1> QED
  BY <1>8, <1>9, <1>10 DEF DispatchInv

\* A failure is an answer that says nothing, but for what it quotes to a caller with the grant.
LEMMA FailingStep ==
  ASSUME DispatchInv, NEW c \in Calls, NEW quoted \in SUBSET Lines,
         call' = Replies(c, Failure(quoted)), UNCHANGED <<now, cache>>,
         quoted = {} \/ call[c].granted
  PROVE  DispatchInv'
<1> DEFINE F == Failure(quoted)
<1>1. F \in ReplyType /\ ~F.ok /\ F.age = -1 /\ F.text = {} /\ F.error = quoted
  BY FailureReply DEF DispatchInv, TypeOK
<1>2. call' = Replies(c, F)
  OBVIOUS
<1> HIDE DEF F
<1>3. call[c] \in CallType
  BY DEF DispatchInv, TypeOK
<1> DEFINE M == [call[c] EXCEPT !.reply = F]
<1>4. M.reply = F /\ M.granted = call[c].granted
  BY <1>3 DEF CallType
<1> HIDE DEF M
<1>a. CleanText(F.text, F.truncated, call[c].key \in Filtered)
  BY <1>1 DEF CleanText
<1> HIDE DEF CleanText
<1>5. AnswerOK(M, call[c].key \in Filtered)
  BY <1>1, <1>4, <1>a DEF AnswerOK
<1>6. cache' \in [Keys -> EntryType] /\ \A k \in Keys : EntryOK(cache'[k], now, k \in Filtered)
  BY DEF DispatchInv, TypeOK
<1>7. AnswerOK([call[c] EXCEPT !.reply = F], call[c].key \in Filtered)
  BY <1>5 DEF M
<1> QED
  BY <1>1, <1>2, <1>6, <1>7, AnsweringStep

\* A hit tells the age of an entry, which is honest, in a text that went through the tail.
LEMMA HitPreserves ==
  ASSUME DispatchInv, NEW c \in Calls, Hit(c)
  PROVE  DispatchInv'
<1> DEFINE E == cache[call[c].key]
           filtered == call[c].key \in Filtered
<1>1. call[c] \in CallType /\ now \in 0..MaxTime /\ call[c].granted
  BY DEF Hit, DispatchInv, TypeOK
<1>2. call[c].needle \in Lines \cup {NoNeedle} /\ call[c].key \in Keys
  BY <1>1 DEF CallType
<1>3. E \in EntryType /\ EntryOK(E, now, filtered)
  BY <1>2 DEF DispatchInv, TypeOK
<1>4. E.ts # -1 /\ now - E.ts < Ttl
  BY DEF Hit, Fresh
<1>5. /\ E.text \cup {Mark} \in Texts /\ E.ts \in -1..MaxTime /\ E.at \in -1..MaxTime
      /\ E.truncated \in BOOLEAN
  BY <1>3 DEF EntryType, Texts
<1>6. /\ E.ts <= now /\ E.at \in 0..E.ts /\ E.ts - E.at <= MaxRun
      /\ CleanText(E.text, E.truncated, filtered)
  BY <1>3, <1>4 DEF EntryOK
<1>a. PICK out \in Tails(E.text \cup {Mark}, call[c].needle) :
        call' = Replies(c, Reply(out.text, E.truncated \/ out.truncated, E.at, now - E.ts))
  BY DEF Hit
<1> DEFINE T == out.text
           b == E.truncated \/ out.truncated
           r == Reply(T, b, E.at, now - E.ts)
<1>f. call[c].needle # NoNeedle => filtered
  BY <1>2 DEF Filtered, IsFiltered
<1> HIDE DEF filtered
<1>7. /\ out \in [text : Texts, truncated : BOOLEAN] /\ T \cap Secrets = {}
      /\ call[c].needle = NoNeedle /\ ~out.truncated => Mark \in T
      /\ Piece \in T => out.truncated \/ Piece \in E.text \cup {Mark}
      /\ T \cap Block # {} =>
           /\ ~(BlockEnds \subseteq T) /\ (E.text \cup {Mark}) \cap Block # {}
  BY <1>2, <1>5, TailIsClean
<1>b. Piece # Mark /\ Mark \notin Block
  BY DispatchAssumption DEF Piece, Mark
<1>c. CleanText(T, b, filtered)
  <2>1. Piece \in T => b
    BY <1>6, <1>7, <1>b DEF CleanText
  <2>2. T \cap Block # {} => ~(BlockEnds \subseteq T) /\ (b \/ filtered)
    BY <1>6, <1>7, <1>b DEF CleanText
  <2> QED
    BY <1>7, <2>1, <2>2 DEF CleanText
<1>8. /\ r.ok = TRUE /\ r.text = T /\ r.error = {} /\ r.truncated = b
      /\ r.at = E.at /\ r.age = now - E.ts /\ r.when = now
  BY DEF Reply
<1>9. r = [ok |-> TRUE, text |-> T, truncated |-> b, error |-> {}, at |-> E.at,
           age |-> now - E.ts, when |-> now]
  BY DEF Reply
<1>10. call' = Replies(c, r) /\ now' = now /\ cache' = cache
  BY <1>a DEF Hit
<1>d. T \in Texts /\ b \in BOOLEAN /\ (call[c].needle = NoNeedle /\ ~b => Mark \in T)
  BY <1>5, <1>7
<1> HIDE DEF E, T, r, b
<1>11. r.age \in -1..MaxTime /\ r.age < Ttl /\ r.at # -1 /\ r.when - r.age - r.at \in 0..MaxRun
  BY <1>1, <1>4, <1>5, <1>6, <1>8, DispatchBounds
<1>12. r \in ReplyType
  BY <1>1, <1>5, <1>d, <1>8, <1>9, <1>11 DEF ReplyType
<1> DEFINE M == [call[c] EXCEPT !.reply = r]
<1>13. M.reply = r /\ M.granted /\ M.needle = call[c].needle
  BY <1>1 DEF CallType
<1> HIDE DEF M
<1>14. AnswerOK(M, filtered)
  BY <1>c, <1>d, <1>8, <1>11, <1>13 DEF AnswerOK
<1>15. AnswerOK([call[c] EXCEPT !.reply = r], call[c].key \in Filtered)
  BY <1>14 DEF M, filtered
<1>16. cache' \in [Keys -> EntryType] /\ \A k \in Keys : EntryOK(cache'[k], now, k \in Filtered)
  BY <1>10 DEF DispatchInv, TypeOK
<1> QED
  BY <1>10, <1>12, <1>15, <1>16, AnsweringStep

\* A run that succeeds was granted when it began, and is stored at once.
LEMMA SucceedPreserves ==
  ASSUME DispatchInv, NEW c \in Calls, NEW at \in 0..MaxTime, Succeed(c, at)
  PROVE  DispatchInv'
<1>1. /\ call[c] \in CallType /\ now \in 0..MaxTime /\ cache \in [Keys -> EntryType]
      /\ RunningOK(call[c], now)
  BY DEF DispatchInv, TypeOK
<1>2. call[c].needle \in Lines \cup {NoNeedle} /\ call[c].key \in Keys
      /\ call[c].since \in 0..MaxTime
  BY <1>1 DEF CallType
<1>3. call[c].granted /\ now <= call[c].since + MaxRun /\ at \in call[c].since..now
  BY <1>1 DEF Succeed, RunningOK
<1>4. Lines \in Texts
  BY DEF Texts
<1>a. PICK tail \in Tails(Lines, call[c].needle) : AnswersWith(c, at, tail)
  BY DEF Succeed
<1> DEFINE out == tail.text
           b == tail.truncated
           filtered == call[c].key \in Filtered
           r == Reply(out, b, at, -1)
           e == [ts |-> now, text |-> out, truncated |-> b, at |-> at]
<1>f. call[c].needle # NoNeedle => filtered
  BY <1>2 DEF Filtered, IsFiltered
<1> HIDE DEF filtered
<1>5. out \in Texts /\ b \in BOOLEAN /\ CleanText(out, b, filtered)
  <2>1. /\ tail \in [text : Texts, truncated : BOOLEAN] /\ out \cap Secrets = {}
        /\ Piece \in out => b \/ Piece \in Lines
        /\ out \cap Block # {} =>
             ~(BlockEnds \subseteq out) /\ (b \/ call[c].needle # NoNeedle \/ ~(BlockEnds \subseteq Lines))
    BY <1>2, <1>4, TailIsClean
  <2>2. Piece \notin Lines /\ BlockEnds \subseteq Lines
    BY DispatchAssumption
  <2> QED
    BY <1>f, <2>1, <2>2 DEF CleanText
<1>6. r = [ok |-> TRUE, text |-> out, truncated |-> b, error |-> {}, at |-> at, age |-> -1,
           when |-> now]
  BY DEF Reply
<1>7. /\ call' = Replies(c, r) /\ now' = now
      /\ cache' = IF Ttl = 0 THEN cache ELSE [Swept EXCEPT ![call[c].key] = e]
  BY <1>a DEF Succeed, AnswersWith
<1>8. e = [ts |-> now, text |-> out, truncated |-> b, at |-> at]
  OBVIOUS
<1> HIDE DEF out, b, r, e
<1>9. -1 \in -1..MaxTime /\ at \in -1..MaxTime /\ now \in -1..MaxTime
  BY <1>1, DispatchBounds
<1>10. r \in ReplyType
  BY <1>1, <1>5, <1>6, <1>9 DEF ReplyType
<1> DEFINE M == [call[c] EXCEPT !.reply = r]
<1>11. M.reply = r /\ M.granted
  BY <1>1, <1>3 DEF CallType
<1> HIDE DEF M
<1>12. AnswerOK(M, filtered)
  BY <1>5, <1>6, <1>11 DEF AnswerOK
<1>13. AnswerOK([call[c] EXCEPT !.reply = r], call[c].key \in Filtered)
  BY <1>12 DEF M, filtered
<1>14. e \in EntryType
  BY <1>5, <1>8, <1>9 DEF EntryType
<1>15. EntryOK(e, now, filtered)
  <2>1. at \in 0..now /\ now - at <= MaxRun
    BY <1>1, <1>2, <1>3, DispatchBounds
  <2> QED
    BY <1>1, <1>5, <1>8, <2>1 DEF EntryOK
<1>16. NoEntry \in EntryType /\ \A fil : EntryOK(NoEntry, now, fil)
  BY <1>9 DEF NoEntry, EntryType, EntryOK, Texts
<1>17. ASSUME NEW k \in Keys
       PROVE  cache'[k] \in {NoEntry, cache[k]} \/ (k = call[c].key /\ cache'[k] = e)
  BY <1>1, <1>2, <1>7 DEF Swept
<1>18. cache' \in [Keys -> EntryType]
  <2>1. \A k \in Keys : cache'[k] \in EntryType
    BY <1>1, <1>14, <1>16, <1>17
  <2>2. cache' = [k \in Keys |-> cache'[k]]
    BY <1>1, <1>7 DEF Swept
  <2> QED
    BY <2>1, <2>2
<1>19. \A k \in Keys : EntryOK(cache'[k], now, k \in Filtered)
  BY <1>15, <1>16, <1>17 DEF DispatchInv, filtered
<1> QED
  BY <1>7, <1>10, <1>13, <1>18, <1>19, AnsweringStep

\* A run begins with the grant that it will answer with.
LEMMA RunPreserves ==
  ASSUME DispatchInv, NEW c \in Calls, Run(c)
  PROVE  DispatchInv'
<1> DEFINE N == [call[c] EXCEPT !.pc = "running", !.since = now]
<1>1. /\ call \in [Calls -> CallType] /\ call[c] \in CallType /\ now \in 0..MaxTime
      /\ AnswerOK(call[c], call[c].key \in Filtered)
  BY DEF DispatchInv, TypeOK
<1>2. N \in CallType /\ N.reply = call[c].reply /\ N.granted = call[c].granted
      /\ N.needle = call[c].needle /\ N.key = call[c].key /\ N.since = now
  BY <1>1 DEF CallType
<1>3. call' = [call EXCEPT ![c] = N] /\ now' = now /\ cache' = cache /\ call[c].granted
  BY DEF Run
<1> HIDE DEF N
<1>4. RunningOK(N, now)
  BY <1>1, <1>2, <1>3, DispatchBounds DEF RunningOK
<1>5. AnswerOK(N, call[c].key \in Filtered)
  BY <1>1, <1>2 DEF AnswerOK
<1>6. call' \in [Calls -> CallType]
  BY <1>1, <1>2, <1>3
<1>7. \A d \in Calls : call'[d] = IF d = c THEN N ELSE call[d]
  BY <1>1, <1>3
<1>8. Filtered' = Filtered
  <2>1. \A d \in Calls : call'[d].key = call[d].key /\ call'[d].needle = call[d].needle
    BY <1>2, <1>7
  <2> QED
    BY <2>1 DEF Filtered, IsFiltered
<1> HIDE DEF Filtered
<1> QED
  BY <1>2, <1>3, <1>4, <1>5, <1>6, <1>7, <1>8 DEF DispatchInv, TypeOK

\* Time passes only while every run is within its bound.
LEMMA TickPreserves ==
  ASSUME DispatchInv, Tick
  PROVE  DispatchInv'
<1>1. now \in 0..MaxTime /\ now' = now + 1 /\ now' \in 0..MaxTime
      /\ cache' = cache /\ call' = call
  BY DispatchBounds DEF Tick, DispatchInv, TypeOK
<1>2. ASSUME NEW k \in Keys
      PROVE  EntryOK(cache[k], now', k \in Filtered)
  <2>1. EntryOK(cache[k], now, k \in Filtered) /\ cache[k].ts \in -1..MaxTime
    BY DEF DispatchInv, TypeOK, EntryType
  <2> QED
    BY <1>1, <2>1 DEF EntryOK
<1>3. ASSUME NEW c \in Calls
      PROVE  RunningOK(call[c], now')
  <2>1. RunningOK(call[c], now) /\ call[c].since \in 0..MaxTime
    BY DEF DispatchInv, TypeOK, CallType
  <2>2. call[c].pc = "running" => now < call[c].since + MaxRun
    BY DEF Tick
  <2> QED
    BY <1>1, <2>1, <2>2, DispatchBounds DEF RunningOK
<1>4. Filtered' = Filtered
  BY <1>1 DEF Filtered, IsFiltered
<1> QED
  BY <1>1, <1>2, <1>3, <1>4 DEF DispatchInv, TypeOK

\* Every step of the door keeps the invariant.
LEMMA DispatchStep == DispatchInv /\ [Next]_vars => DispatchInv'
<1> SUFFICES ASSUME DispatchInv, [Next]_vars PROVE DispatchInv'
  OBVIOUS
<1>1. CASE Tick
  BY <1>1, TickPreserves
<1>2. ASSUME NEW c \in Calls,
             Refuse(c) \/ Cancel(c) \/ Fail(c)
      PROVE  DispatchInv'
  <2>1. PICK quoted \in SUBSET Secrets :
          call' = Replies(c, Failure(quoted)) /\ (quoted = {} \/ call[c].pc = "running")
    BY <1>2 DEF Refuse, Cancel, Fail
  <2>3. call[c].pc = "running" => call[c].granted
    BY DEF DispatchInv, RunningOK
  <2>2. UNCHANGED <<now, cache>> /\ quoted \in SUBSET Lines
    BY <1>2, DispatchAssumption DEF Refuse, Cancel, Fail
  <2> QED
    BY <2>1, <2>2, <2>3, FailingStep
<1>3. ASSUME NEW c \in Calls, Hit(c)
      PROVE  DispatchInv'
  BY <1>3, HitPreserves
<1>4. ASSUME NEW c \in Calls, Run(c)
      PROVE  DispatchInv'
  BY <1>4, RunPreserves
<1>5. ASSUME NEW c \in Calls, NEW at \in 0..MaxTime, Succeed(c, at)
      PROVE  DispatchInv'
  BY <1>5, SucceedPreserves
<1>6. CASE UNCHANGED vars
  BY <1>6 DEF vars, DispatchInv, TypeOK, Filtered, IsFiltered
<1> QED
  BY <1>1, <1>2, <1>3, <1>4, <1>5, <1>6 DEF Next

\* The invariant of the door.
LEMMA DispatchInvariance == Spec => []DispatchInv
<1> QED
  BY DispatchInit, DispatchStep, PTL DEF Spec

\* The calls, the cache and the clock are what they are declared to be.
THEOREM DispatchTypeCorrect == Spec => []TypeOK
<1>1. DispatchInv => TypeOK
  BY DEF DispatchInv
<1> QED
  BY <1>1, DispatchInvariance, PTL

\* An answer that says it worked holds what a run really read, and a cached
\* one tells its age right up to the time of a run, for any number of
\* overlapping calls and any TTL (dispatch.py:262-307).
THEOREM HonestyTheorem == Spec => []AnswersAreHonest
<1>1. DispatchInv => AnswersAreHonest
  BY DEF DispatchInv, AnswerOK, AnswersAreHonest
<1> QED
  BY <1>1, DispatchInvariance, PTL

\* What passes the redaction of a secret was cut by a filter or by the cap, and is told as such
\* or is of a key that was asked for with a filter; and what is of the backend goes only to
\* callers with the grant: whatever is asked, whatever the secrets are and whatever the cache
\* holds (dispatch.py:110-165, 227-307).
THEOREM DisclosureTheorem == Spec => []OnlyCutSecretsPass
<1>1. ASSUME DispatchInv
      PROVE  OnlyCutSecretsPass
  <2>1. \A k \in Keys : k \in Filtered <=> IsFiltered(k)
    BY DEF Filtered
  <2>2. \A c \in Calls : call[c].key \in Keys
    BY <1>1 DEF DispatchInv, TypeOK, CallType
  <2> QED
    BY <1>1, <2>1, <2>2 DEF DispatchInv, AnswerOK, CleanText, OnlyCutSecretsPass
<1> QED
  BY <1>1, DispatchInvariance, PTL

-----------------------------------------------------------------------------
(***************************************************************************)
(* COMMANDS.  What a call becomes depends on its own process only, so the  *)
(* invariant is one call's, with its process.                              *)
(***************************************************************************)

Told ==
  {"", "empty", "unparsed", "refused", "missing", "permissions", "output", "no matches",
   "the exit explained", "its own words", "timed out"}

CommandType ==
  [pc     : {"new", "waiting", "over"},
   kind   : CommandKinds \cup {""},
   result : {"", "ok", "failed", "raised", "stopped"},
   told   : Told,
   timed  : BOOLEAN]

ChildType ==
  [is     : {"none", "running", "exited", "killed"},
   exit   : {"", "0", "1"},
   output : Outputs \cup {""}]

\* A call has no process before it begins, and no verdict before it is over; and
\* what NoneIsForgotten and OkIsEarned say of it, for any state it is in.
CommandOK(C, P) ==
  /\ C.pc = "new" => P.is = "none"
  /\ C.pc # "over" => C.result = "" /\ ~C.timed
  /\ C.pc = "waiting" => C.kind \in CommandKinds
  /\ P.is = "running" /\ C.pc # "waiting" => C.kind = "search" \/ C.result = "stopped"
  /\ C.result = "ok" /\ C.kind # "search" =>
       /\ P.is = "exited" /\ P.exit = "0" /\ ~C.timed
       /\ C.kind = "shell" => P.output # "denial"

\* The inductive invariant.
CommandsInv ==
  /\ command \in [CommandCalls -> CommandType]
  /\ child \in [CommandCalls -> ChildType]
  /\ \A c \in CommandCalls : CommandOK(command[c], child[c])

\* Before the first call there is nothing to account for.
LEMMA CommandsStart == CommandsInit => CommandsInv
<1>1. NewCommand \in CommandType /\ NewCommand.pc = "new" /\ NewCommand.result = ""
      /\ ~NewCommand.timed
  BY DEF NewCommand, CommandType, Told
<1>2. NoChild \in ChildType /\ NoChild.is = "none"
  BY DEF NoChild, ChildType
<1>3. CommandOK(NewCommand, NoChild)
  BY <1>1, <1>2 DEF CommandOK
<1> QED
  BY <1>1, <1>2, <1>3 DEF CommandsInit, CommandsInv

\* A step of one call and its process.
LEMMA CommandStep ==
  ASSUME CommandsInv, NEW c \in CommandCalls, NEW C \in CommandType, NEW P \in ChildType,
         command' = [command EXCEPT ![c] = C], child' = [child EXCEPT ![c] = P],
         CommandOK(C, P)
  PROVE  CommandsInv'
BY DEF CommandsInv

\* The verdict of a call that ends.
LEMMA EndingStep ==
  ASSUME CommandsInv, NEW c \in CommandCalls, command[c].pc = "waiting",
         NEW result \in {"ok", "failed", "raised", "stopped"}, NEW told \in Told,
         Ends(c, result, told), child' = child,
         result # "stopped" => child[c].is # "running",
         result = "ok" /\ command[c].kind # "search" =>
           /\ child[c].is = "exited" /\ child[c].exit = "0"
           /\ command[c].kind = "shell" => child[c].output # "denial"
  PROVE  CommandsInv'
<1> DEFINE C == [command[c] EXCEPT !.pc = "over", !.result = result, !.told = told]
<1>1. command[c] \in CommandType /\ child[c] \in ChildType
      /\ CommandOK(command[c], child[c])
  BY DEF CommandsInv
<1>2. /\ C \in CommandType /\ C.pc = "over" /\ C.result = result
      /\ C.kind = command[c].kind /\ C.timed = command[c].timed
  BY <1>1 DEF CommandType
<1>3. command' = [command EXCEPT ![c] = C] /\ child' = [child EXCEPT ![c] = child[c]]
  BY DEF Ends, CommandsInv
<1> HIDE DEF C
<1>4. CommandOK(C, child[c])
  BY <1>1, <1>2 DEF CommandOK
<1> QED
  BY <1>1, <1>2, <1>3, <1>4, CommandStep

\* A call that never gets a process.
LEMMA RefusedPreserves ==
  ASSUME CommandsInv, NEW c \in CommandCalls, CommandRefused(c)
  PROVE  CommandsInv'
<1>1. command[c] \in CommandType /\ child[c] \in ChildType
      /\ CommandOK(command[c], child[c])
  BY DEF CommandsInv
<1>2. PICK kind \in CommandKinds, result \in {"failed", "raised"}, told \in Told :
        command' = [command EXCEPT ![c] = [pc |-> "over", kind |-> kind, result |-> result,
                                           told |-> told, timed |-> FALSE]]
  <2>1. CASE ShellRefused(c)
    <3>1. PICK why \in {"empty", "unparsed", "refused", "missing"} :
            command' = [command EXCEPT ![c] =
              [pc |-> "over", kind |-> "shell",
               result |-> IF why = "empty" THEN "raised" ELSE "failed",
               told |-> why, timed |-> FALSE]]
      BY <2>1 DEF ShellRefused
    <3>2. why \in Told /\ "shell" \in CommandKinds
          /\ (IF why = "empty" THEN "raised" ELSE "failed") \in {"failed", "raised"}
      BY DEF Told, CommandKinds
    <3> QED
      BY <3>1, <3>2
  <2>2. CASE OthersRefused(c)
    BY <2>2 DEF OthersRefused, CommandKinds, Told
  <2> QED
    BY <2>1, <2>2 DEF CommandRefused
<1> DEFINE C == [pc |-> "over", kind |-> kind, result |-> result, told |-> told, timed |-> FALSE]
<1>3. C \in CommandType
  BY DEF CommandType
<1>4. child[c].is = "none" /\ child' = [child EXCEPT ![c] = child[c]]
  BY <1>1 DEF CommandOK, CommandRefused, CommandsInv
<1>5. CommandOK(C, child[c])
  BY <1>4 DEF CommandOK
<1> QED
  BY <1>1, <1>2, <1>3, <1>4, <1>5, CommandStep

\* Its process is what a call waits for from here on.
LEMMA SpawnPreserves ==
  ASSUME CommandsInv, NEW c \in CommandCalls, Spawn(c)
  PROVE  CommandsInv'
<1>1. PICK kind \in CommandKinds, output \in Outputs :
        /\ command' = [command EXCEPT ![c].pc = "waiting", ![c].kind = kind]
        /\ child' = [child EXCEPT ![c] = [is |-> "running", exit |-> "", output |-> output]]
  BY DEF Spawn
<1> DEFINE C == [command[c] EXCEPT !.pc = "waiting", !.kind = kind]
           P == [is |-> "running", exit |-> "", output |-> output]
<1>2. command[c] \in CommandType /\ command[c].pc = "new" /\ CommandOK(command[c], child[c])
  BY DEF CommandsInv, Spawn
<1>3. /\ C \in CommandType /\ C.pc = "waiting" /\ C.kind = kind
      /\ C.result = command[c].result /\ C.timed = command[c].timed
  BY <1>2 DEF CommandType
<1>4. P \in ChildType /\ P.is = "running"
  BY DEF ChildType
<1>5. command' = [command EXCEPT ![c] = C] /\ child' = [child EXCEPT ![c] = P]
  BY <1>1
<1> HIDE DEF C, P
<1>6. CommandOK(C, P)
  BY <1>2, <1>3, <1>4 DEF CommandOK
<1> QED
  BY <1>3, <1>4, <1>5, <1>6, CommandStep

\* The process has ended, and its end is judged.
LEMMA CommunicatedPreserves ==
  ASSUME CommandsInv, NEW c \in CommandCalls, Communicated(c)
  PROVE  CommandsInv'
<1>1. command[c].pc = "waiting" /\ child[c].is = "exited" /\ child' = child
  BY DEF Communicated
<1>2. CASE command[c].kind = "shell" /\ ShellJudged(c)
  <2>1. CASE child[c].exit = "0" /\ child[c].output = "denial"
    <3>1. Ends(c, "failed", "permissions")
      BY <1>2, <2>1 DEF ShellJudged
    <3> QED
      BY <1>1, <3>1, EndingStep DEF Told
  <2>2. CASE child[c].exit = "0" /\ child[c].output # "denial"
    <3>1. Ends(c, "ok", "output")
      BY <1>2, <2>2 DEF ShellJudged
    <3> QED
      BY <1>1, <2>2, <3>1, EndingStep DEF Told
  <2>3. CASE child[c].exit # "0"
    <3>1. \/ Ends(c, "failed", "the exit explained") \/ Ends(c, "failed", "its own words")
      BY <1>2, <2>3 DEF ShellJudged
    <3> QED
      BY <1>1, <3>1, EndingStep DEF Told
  <2> QED
    BY <2>1, <2>2, <2>3
<1>3. CASE command[c].kind = "kubectl" /\ KubectlJudged(c)
  <2>1. CASE child[c].exit = "0"
    <3>1. Ends(c, "ok", "output")
      BY <1>3, <2>1 DEF KubectlJudged
    <3> QED
      BY <1>1, <1>3, <2>1, <3>1, EndingStep DEF Told
  <2>2. CASE child[c].exit # "0"
    <3>1. Ends(c, "raised", "its own words")
      BY <1>3, <2>2 DEF KubectlJudged
    <3> QED
      BY <1>1, <3>1, EndingStep DEF Told
  <2> QED
    BY <2>1, <2>2
<1>4. CASE command[c].kind = "search" /\ SearchJudged(c)
  <2>1. Ends(c, "ok", "no matches") \/ Ends(c, "ok", "output")
    BY <1>4 DEF SearchJudged
  <2> QED
    BY <1>1, <1>4, <2>1, EndingStep DEF Told
<1> QED
  BY <1>2, <1>3, <1>4 DEF Communicated

\* The time is over: a command and a kubectl take their process with them.
LEMMA TimedOutPreserves ==
  ASSUME CommandsInv, NEW c \in CommandCalls, TimedOut(c)
  PROVE  CommandsInv'
<1> DEFINE result == IF command[c].kind = "shell" THEN "failed" ELSE "raised"
           C == [command[c] EXCEPT !.pc = "over", !.told = "timed out", !.timed = TRUE,
                                   !.result = result]
           killed == command[c].kind # "search" /\ child[c].is = "running"
           P == IF killed THEN [child[c] EXCEPT !.is = "killed"] ELSE child[c]
<1>1. command[c] \in CommandType /\ child[c] \in ChildType
      /\ CommandOK(command[c], child[c])
  BY DEF CommandsInv
<1>2. /\ C \in CommandType /\ C.pc = "over" /\ C.result \in {"failed", "raised"}
      /\ C.kind = command[c].kind
  <2>1. result \in {"failed", "raised"} /\ "timed out" \in Told
    BY DEF Told
  <2> HIDE DEF result
  <2> QED
    BY <1>1, <2>1 DEF CommandType
<1>3. P \in ChildType /\ (P.is = "running" => command[c].kind = "search")
  BY <1>1 DEF ChildType
<1>4. command' = [command EXCEPT ![c] = C]
  BY DEF TimedOut
<1>5. child' = [child EXCEPT ![c] = P]
  BY DEF TimedOut, CommandsInv
<1> HIDE DEF C, P
<1>6. CommandOK(C, P)
  BY <1>2, <1>3 DEF CommandOK
<1> QED
  BY <1>2, <1>3, <1>4, <1>5, <1>6, CommandStep

\* A process that ends by itself was running, so no verdict rests on it yet.
LEMMA ExitsPreserves ==
  ASSUME CommandsInv, NEW c \in CommandCalls, Exits(c)
  PROVE  CommandsInv'
<1>1. PICK exit \in {"0", "1"} :
        child' = [child EXCEPT ![c].is = "exited", ![c].exit = exit]
  BY DEF Exits
<1> DEFINE P == [child[c] EXCEPT !.is = "exited", !.exit = exit]
<1>2. /\ command[c] \in CommandType /\ child[c] \in ChildType /\ child[c].is = "running"
      /\ CommandOK(command[c], child[c])
  BY DEF CommandsInv, Exits
<1>3. P \in ChildType /\ P.is = "exited"
  BY <1>2 DEF ChildType
<1>4. child' = [child EXCEPT ![c] = P] /\ command' = [command EXCEPT ![c] = command[c]]
  BY <1>1 DEF Exits, CommandsInv
<1> HIDE DEF P
<1>5. CommandOK(command[c], P)
  BY <1>2, <1>3 DEF CommandOK
<1> QED
  BY <1>2, <1>3, <1>4, <1>5, CommandStep

\* The end of the service takes everything that runs.
LEMMA ServiceEndsPreserves ==
  ASSUME CommandsInv, ServiceEnds
  PROVE  CommandsInv'
<1> DEFINE C(c) == IF Attended(c) THEN [command[c] EXCEPT !.pc = "over", !.result = "stopped"]
                   ELSE command[c]
           P(c) == IF child[c].is = "running" THEN [child[c] EXCEPT !.is = "killed"] ELSE child[c]
<1>1. ASSUME NEW c \in CommandCalls
      PROVE  C(c) \in CommandType /\ P(c) \in ChildType /\ CommandOK(C(c), P(c))
  <2>1. command[c] \in CommandType /\ child[c] \in ChildType
        /\ CommandOK(command[c], child[c])
    BY DEF CommandsInv
  <2>2. /\ C(c) \in CommandType /\ C(c).kind = command[c].kind /\ C(c).timed = command[c].timed
        /\ C(c).pc # "waiting"
        /\ command[c].pc = "waiting" => C(c).pc = "over" /\ C(c).result = "stopped"
        /\ command[c].pc # "waiting" => C(c) = command[c]
    BY <2>1 DEF CommandType, Attended
  <2>3. /\ P(c) \in ChildType /\ P(c).is # "running"
        /\ child[c].is # "running" => P(c) = child[c]
    BY <2>1 DEF ChildType
  <2> HIDE DEF C, P
  <2>4. CASE command[c].pc = "waiting"
    BY <2>2, <2>3, <2>4 DEF CommandOK
  <2>5. CASE command[c].pc # "waiting" /\ child[c].is = "running"
    <3>1. C(c) = command[c] /\ command[c].pc # "new"
          /\ ~(command[c].result = "ok" /\ command[c].kind # "search")
      BY <2>1, <2>2, <2>5 DEF CommandOK
    <3> QED
      BY <2>1, <2>3, <2>5, <3>1 DEF CommandOK
  <2>6. CASE command[c].pc # "waiting" /\ child[c].is # "running"
    BY <2>1, <2>2, <2>3, <2>6
  <2> QED
    BY <2>2, <2>3, <2>4, <2>5, <2>6
<1>2. command' = [c \in CommandCalls |-> C(c)] /\ child' = [c \in CommandCalls |-> P(c)]
  BY DEF ServiceEnds
<1> HIDE DEF C, P
<1> QED
  BY <1>1, <1>2 DEF CommandsInv

\* Every step of a command keeps the invariant.
LEMMA CommandsStep == CommandsInv /\ [CommandsNext]_cmdVars => CommandsInv'
<1> SUFFICES ASSUME CommandsInv, [CommandsNext]_cmdVars PROVE CommandsInv'
  OBVIOUS
<1>1. ASSUME NEW c \in CommandCalls, CommandStopped(c)
      PROVE  CommandsInv'
  BY <1>1, EndingStep DEF CommandStopped, Told
<1>2. CASE UNCHANGED cmdVars
  BY <1>2 DEF cmdVars, CommandsInv
<1> QED
  BY <1>1, <1>2, RefusedPreserves, SpawnPreserves, CommunicatedPreserves, TimedOutPreserves,
     ExitsPreserves, ServiceEndsPreserves DEF CommandsNext

\* A process ends with its call unless it is a search or its question was
\* stopped, and a result that is ok was earned, for any number of calls and
\* ends of the service (shell_exec.py:190-220, k8s.py:316-353).
THEOREM AccountabilityTheorem == CommandsSpec => []CommandsAreAccountable
<1>1. CommandsSpec => []CommandsInv
  BY CommandsStart, CommandsStep, PTL DEF CommandsSpec
<1>2. CommandsInv => CommandsAreAccountable
  BY DEF CommandsInv, CommandOK, CommandsAreAccountable, NoneIsForgotten, OkIsEarned, Attended
<1> QED
  BY <1>1, <1>2, PTL

-----------------------------------------------------------------------------
(***************************************************************************)
(* GATEWAY.  While the answer streams, the page has what the client has;   *)
(* while the plain call is made, it has nothing.                           *)
(***************************************************************************)

Taken(raws) == IF Len(raws) < MaxCalls THEN Len(raws) ELSE MaxCalls

\* The inductive invariant.  The selection was read whole as soon as there is one.
GatewayInv ==
  /\ grid = [pc |-> grid.pc, parts |-> grid.parts, lines |-> grid.lines, calls |-> grid.calls,
             answer |-> grid.answer, error |-> grid.error]
  /\ grid.pc \in {"selecting", "streaming", "writing", "over"} /\ grid.calls \in Nat
  /\ grid.pc = "selecting" => grid.calls = 0 /\ grid.parts = <<>> /\ replied = <<>>
  /\ grid.pc \in {"streaming", "writing"} => grid.calls > 0
  /\ grid.pc = "streaming" => page = grid.parts
  /\ grid.pc \in {"selecting", "writing"} => page = <<>>
  /\ RepliesAreTakenWhole

\* Nothing was asked yet.
LEMMA GatewayStart == GatewayInit => GatewayInv
<1> SUFFICES ASSUME GatewayInit PROVE GatewayInv
  OBVIOUS
<1>1. /\ grid = [pc |-> grid.pc, parts |-> grid.parts, lines |-> grid.lines,
                 calls |-> grid.calls, answer |-> grid.answer, error |-> grid.error]
      /\ grid.pc = "selecting" /\ grid.calls = 0 /\ grid.parts = <<>>
      /\ page = <<>> /\ replied = <<>>
  BY DEF GatewayInit
<1> QED
  BY <1>1 DEF GatewayInv, RepliesAreTakenWhole, ShownIsStored, SelectionIsWhole

\* A failure says nothing about the selection.
LEMMA FailureKeeps ==
  ASSUME GatewayInv, NEW error \in {"gateway", "other"}, Fails(error), page' = page,
         grid.calls > 0 => replied' = replied
  PROVE  GatewayInv'
BY DEF GatewayInv, Fails, RepliesAreTakenWhole, ShownIsStored, SelectionIsWhole

\* A reply of calls is taken whole up to the cap, or not at all.
LEMMA SelectionPreserves ==
  ASSUME GatewayInv, SelectReplies
  PROVE  GatewayInv'
<1>1. PICK raws \in SeqOf(Asked, MaxAsked) :
        /\ replied' = raws
        /\ IF raws = <<>> THEN Stored(<<"refusal">>) ELSE Selected(raws)
  BY DEF SelectReplies
<1>2. /\ grid.pc = "selecting" /\ grid.calls = 0 /\ page = <<>> /\ page' = page
      /\ MaxCalls \in Nat \ {0}
  BY GatewayAssumption DEF SelectReplies, GatewayInv
<1>3. raws \in Seq(Asked)
  BY GatewayAssumption DEF SeqOf
<1>4. Len(raws) \in Nat /\ (raws = <<>> <=> Len(raws) = 0)
  BY <1>3
<1>5. CASE raws = <<>>
  BY <1>1, <1>2, <1>5 DEF GatewayInv, Stored, RepliesAreTakenWhole, ShownIsStored, SelectionIsWhole
<1>6. CASE raws # <<>>
  <2> DEFINE seen == SubSeq(raws, 1, Taken(raws))
  <2>1. Taken(raws) \in 1..Len(raws) /\ Taken(raws) \in Nat /\ Taken(raws) > 0
    BY <1>2, <1>4, <1>6 DEF Taken
  <2>2. /\ Len(seen) = Taken(raws) /\ DOMAIN seen = 1..Taken(raws)
        /\ \A i \in 1..Taken(raws) : seen[i] = raws[i]
    BY <1>3, <2>1
  <2>3. Selected(raws)
    BY <1>1, <1>6
  <2>4. \/ Fails("gateway")
        \/ /\ \A i \in 1..Taken(raws) : raws[i] = "call"
           /\ grid' = [grid EXCEPT !.pc = "streaming", !.calls = Taken(raws)]
    BY <2>2, <2>3 DEF Selected, Taken
  <2>5. CASE Fails("gateway")
    BY <1>2, <2>5, FailureKeeps
  <2>6. CASE /\ \A i \in 1..Taken(raws) : raws[i] = "call"
             /\ grid' = [grid EXCEPT !.pc = "streaming", !.calls = Taken(raws)]
    BY <1>1, <1>2, <2>1, <2>6
    DEF GatewayInv, Taken, RepliesAreTakenWhole, ShownIsStored, SelectionIsWhole
  <2> QED
    BY <2>4, <2>5, <2>6
<1> QED
  BY <1>5, <1>6

\* What is stored is what the page was shown, if it was shown anything.
LEMMA StoringStep ==
  ASSUME GatewayInv, grid.pc \in {"streaming", "writing"}, NEW answer, Stored(answer),
         page' = page, replied' = replied, page = <<>> \/ Strip(page) = answer
  PROVE  GatewayInv'
<1>1. /\ grid' = [pc |-> "over", parts |-> grid.parts, lines |-> grid.lines,
                  calls |-> grid.calls, answer |-> answer, error |-> grid.error]
      /\ grid.calls > 0 /\ grid.calls \in Nat
  BY DEF GatewayInv, Stored
<1>2. SelectionIsWhole'
  <2>1. grid'.calls = grid.calls /\ grid.calls > 0 /\ grid.calls # 0
    BY <1>1
  <2> QED
    BY <2>1 DEF GatewayInv, RepliesAreTakenWhole, SelectionIsWhole
<1>3. ShownIsStored'
  BY <1>1 DEF ShownIsStored
<1> QED
  BY <1>1, <1>2, <1>3 DEF GatewayInv, RepliesAreTakenWhole

\* The page is reset whenever the stream is given up.
LEMMA FallingBack ==
  ASSUME GatewayInv, grid.pc = "streaming", FallsBack, replied' = replied
  PROVE  GatewayInv'
<1>1. /\ grid' = [pc |-> "writing", parts |-> <<>>, lines |-> grid.lines,
                  calls |-> grid.calls, answer |-> grid.answer, error |-> grid.error]
      /\ grid.calls > 0 /\ grid.calls \in Nat /\ page' = <<>>
  BY DEF GatewayInv, FallsBack
<1>2. SelectionIsWhole'
  BY <1>1 DEF GatewayInv, RepliesAreTakenWhole, SelectionIsWhole
<1>3. ShownIsStored'
  BY <1>1 DEF ShownIsStored
<1> QED
  BY <1>1, <1>2, <1>3 DEF GatewayInv, RepliesAreTakenWhole

\* A line of the stream comes to both, or to neither.
LEMMA LinePreserves ==
  ASSUME GatewayInv, LineIsSkipped \/ PieceArrives
  PROVE  GatewayInv'
<1>1. PICK parts :
        /\ grid' = [pc |-> grid.pc, parts |-> parts, lines |-> grid.lines + 1,
                    calls |-> grid.calls, answer |-> grid.answer, error |-> grid.error]
        /\ page' = parts
  BY DEF GatewayInv, LineIsSkipped, PieceArrives
<1>2. grid.pc = "streaming" /\ grid.calls > 0 /\ grid.calls \in Nat /\ replied' = replied
  BY DEF GatewayInv, LineIsSkipped, PieceArrives
<1>3. SelectionIsWhole'
  BY <1>1, <1>2 DEF GatewayInv, RepliesAreTakenWhole, SelectionIsWhole
<1>4. ShownIsStored'
  BY <1>1, <1>2 DEF ShownIsStored
<1> QED
  BY <1>1, <1>2, <1>3, <1>4 DEF GatewayInv, RepliesAreTakenWhole

\* Every step of the client keeps the invariant.
LEMMA GatewayStep == GatewayInv /\ [GatewayNext]_gridVars => GatewayInv'
<1> SUFFICES ASSUME GatewayInv, [GatewayNext]_gridVars PROVE GatewayInv'
  OBVIOUS
<1>1. CASE PostFails \/ BodyIsOdd
  BY <1>1, FailureKeeps DEF PostFails, BodyIsOdd
<1>2. CASE PlainReplies
  <2>1. PICK content \in SeqOf(Pieces, 2) : Stored(Strip(content))
    BY <1>2 DEF PlainReplies
  <2> QED
    BY <1>2, <2>1, StoringStep DEF PlainReplies, GatewayInv
<1>3. CASE StreamEnds
  <2>1. CASE Strip(grid.parts) = <<>>
    BY <1>3, <2>1, FallingBack DEF StreamEnds
  <2>2. CASE Strip(grid.parts) # <<>>
    BY <1>3, <2>2, StoringStep DEF StreamEnds, GatewayInv
  <2> QED
    BY <2>1, <2>2
<1>4. CASE StreamBreaks
  BY <1>4, FallingBack DEF StreamBreaks
<1>5. CASE UNCHANGED gridVars
  BY <1>5 DEF gridVars, GatewayInv, RepliesAreTakenWhole, ShownIsStored, SelectionIsWhole
<1> QED
  BY <1>1, <1>2, <1>3, <1>4, <1>5, SelectionPreserves, LinePreserves DEF GatewayNext

\* Wherever a stream breaks and whatever is skipped in it, what is stored is what
\* was shown, and a selection is taken whole up to the cap or refused, for any
\* cap, any replies and any length of stream (client.py:176-206, 286-377).
THEOREM WholeRepliesTheorem == GatewaySpec => []RepliesAreTakenWhole
<1>1. GatewaySpec => []GatewayInv
  BY GatewayStart, GatewayStep, PTL DEF GatewaySpec
<1>2. GatewayInv => RepliesAreTakenWhole
  BY DEF GatewayInv
<1> QED
  BY <1>1, <1>2, PTL

-----------------------------------------------------------------------------
(***************************************************************************)
(* MCP.  A call may only hold a name that its entry allows.  A call that   *)
(* began under the server's present life with no name found before it can  *)
(* only be led to a name that the server has in this life.                 *)
(***************************************************************************)

\* The least number of a set is one of it.
LEMMA LeastNatural ==
  ASSUME NEW S \in SUBSET Nat, S # {}
  PROVE  Min(S) \in S /\ \A k \in S : Min(S) <= k
<1> DEFINE R == OpToRel(<, Nat)
<1>1. IsWellFoundedOn(R, Nat)
  BY NatLessThanWellFounded
<1>2. \A a, b \in Nat : a < b => <<a, b>> \in R
  BY DEF OpToRel
<1> HIDE DEF R
<1>3. PICK x \in S : \A y \in S : ~(<<y, x>> \in R)
  BY <1>1, WFMin, Zenon
<1>4. ASSUME NEW y \in S
      PROVE  x <= y
  <2>1. x \in Nat /\ y \in Nat /\ ~(y < x)
    BY <1>2, <1>3
  <2> QED
    BY <2>1
<1> QED
  BY <1>4 DEF Min

\* What a call of an entry may be sent as.
Allowed(e) == Names(e) \ Mutating

Active == {"handshake", "notify", "send"}

ToolNames == STRING \cup {NoTool}

McpErrors ==
  {"none", "refused", "broken", "session", "unknown", "unlisted", "tool error", "lost"}

McpCallType ==
  [pc      : {"new", "done", "failed"} \cup Active,
   doing   : {"call", "list", "retry"},
   tool    : ToolNames,
   session : Int,
   began   : Nat,
   first   : BOOLEAN,
   error   : McpErrors]

McpType == [up : BOOLEAN, life : Nat \ {0}, sessional : BOOLEAN, tools : ToolSets]
KeptType == [life : Nat, session : Int, tool : [Entries -> ToolNames]]

\* What the process keeps: names that may be sent, and, as long as the server is
\* in its first life, the session of that life.
KeptOK(K, M) ==
  /\ \A e \in Entries : K.tool[e] \in {NoTool} \cup Allowed(e)
  /\ M.sessional /\ M.life = 1 => K.session \in {Unset, 1}

\* What a call of e holds, given what is kept and what the server is.
McpCallOK(C, e, K, M) ==
  /\ C.began <= M.life
  /\ C.pc \in Active => C.tool \in Allowed(e)
  /\ C.pc \in Active /\ C.doing # "retry" /\ C.first => C.tool = Declared[e][1]
  /\ C.pc \in {"notify", "send"} =>
       C.session # Unset /\ (M.sessional /\ M.life = 1 => C.session = 1)
  /\ C.first /\ C.began = M.life =>
       /\ C.pc \in Active => K.tool[e] \in {NoTool} \cup M.tools
       /\ C.pc \in Active /\ C.doing = "retry" => C.tool \in M.tools
       /\ C.pc \in Active /\ C.doing = "list" /\ C.error = "unknown" => C.tool \notin M.tools
       /\ C.pc \in Active /\ (M.sessional => M.life = 1) => C.error # "session"
       /\ M.up /\ Allowed(e) \cap M.tools # {} /\ (M.sessional => M.life = 1) /\ C.pc = "failed" =>
            C.error # "session" /\ (C.doing # "call" => C.error # "unknown")

\* What the server ran for a call of e: nothing while it is made for the first time, and under
\* the second name nothing that it ran under the first.
RanOK(R, C, e) ==
  \/ R = <<>>
  \/ \E t \in Allowed(e) :
       /\ R = <<t>>
       /\ \/ C.pc \in {"done", "failed"}
          \/ C.pc \in Active /\ C.doing = "list" /\ C.tool = t
          \/ C.pc \in Active /\ C.doing = "retry" /\ C.tool # t
  \/ \E t, u \in Allowed(e) :
       R = <<t, u>> /\ t # u /\ C.pc \in {"done", "failed"} /\ C.doing = "retry"

\* The inductive invariant.
McpInv ==
  /\ mcp \in McpType /\ kept \in KeptType /\ mcall \in [McpCalls -> McpCallType]
  /\ DOMAIN executed = McpCalls /\ executed = [c \in McpCalls |-> executed[c]]
  /\ KeptOK(kept, mcp)
  /\ \A c \in McpCalls : /\ McpCallOK(mcall[c], EntryOf[c], kept, mcp)
                          /\ RanOK(executed[c], mcall[c], EntryOf[c])

\* An entry's names are those it declares, and none of them is NoTool.
LEMMA EntryNames ==
  ASSUME NEW e \in Entries
  PROVE  /\ Declared[e] \in Seq(STRING \ {NoTool}) /\ Len(Declared[e]) \in Nat \ {0}
         /\ Declared[e][1] \in Names(e)
         /\ Names(e) \subseteq STRING \ {NoTool}
<1>1. Declared[e] \in Seq(STRING \ {NoTool}) /\ Declared[e] # <<>>
  BY McpAssumption
<1>2. Len(Declared[e]) \in Nat \ {0} /\ DOMAIN Declared[e] = 1..Len(Declared[e])
  BY <1>1
<1>3. \A i \in 1..Len(Declared[e]) : Declared[e][i] \in STRING \ {NoTool}
  BY <1>1, <1>2
<1> QED
  BY <1>1, <1>2, <1>3 DEF Names, ToSet

\* The alias is a declared name that the server has, and there is one if the
\* server has a declared name other than the first.
LEMMA AliasIsDeclared ==
  ASSUME NEW e \in Entries
  PROVE  /\ Alias(e) # NoTool => Alias(e) \in Names(e) \cap mcp.tools
         /\ Alias(e) = NoTool => Names(e) \cap mcp.tools \subseteq {Declared[e][1]}
<1> DEFINE s == Declared[e]
           t == Tail(s)
           I == {i \in 1..Len(t) : t[i] \in mcp.tools}
<1>1. s \in Seq(STRING \ {NoTool}) /\ s # <<>> /\ Len(s) \in Nat \ {0} /\ DOMAIN s = 1..Len(s)
      /\ Names(e) \subseteq STRING \ {NoTool}
  BY EntryNames
<1>2. /\ t \in Seq(STRING \ {NoTool}) /\ Len(t) = Len(s) - 1
      /\ \A i \in 1..Len(t) : t[i] = s[i + 1]
  BY <1>1, HeadTailProperties
<1>3. Alias(e) = IF I = {} THEN NoTool ELSE t[Min(I)]
  <2>1. SelectInSeq(t, LAMBDA x : x \in mcp.tools) = IF I # {} THEN Min(I) ELSE 0
    BY DEF SelectInSeq
  <2>2. I \in SUBSET Nat /\ 0 \notin I
    BY <1>1, <1>2
  <2> HIDE DEF I
  <2>3. I # {} => Min(I) # 0
    BY <2>2, LeastNatural
  <2> QED
    BY <2>1, <2>3 DEF Alias, I
<1>4. Names(e) = {s[i] : i \in 1..Len(s)}
  BY <1>1 DEF Names, ToSet
<1> HIDE DEF s, t
<1>5. CASE I = {}
  <2>1. ASSUME NEW n \in Names(e) \cap mcp.tools
        PROVE  n = s[1]
    <3>1. PICK i \in 1..Len(s) : n = s[i]
      BY <1>4
    <3>2. CASE i # 1
      <4>1. i - 1 \in 1..Len(t) /\ t[i - 1] = s[i]
        BY <1>1, <1>2, <3>2
      <4> QED
        BY <1>5, <3>1, <4>1
    <3> QED
      BY <3>1, <3>2
  <2> QED
    BY <1>3, <1>5, <2>1 DEF s
<1>6. CASE I # {}
  <2> DEFINE i == Min(I)
  <2>1. i \in 1..Len(t) /\ t[i] \in mcp.tools
    <3>1. I \in SUBSET Nat
      BY <1>2
    <3> QED
      BY <1>6, <3>1, LeastNatural
  <2> HIDE DEF i
  <2>2. t[i] = s[i + 1] /\ i + 1 \in 1..Len(s)
    BY <1>1, <1>2, <2>1
  <2>3. Alias(e) = t[i]
    BY <1>3, <1>6 DEF i
  <2>4. Alias(e) \in Names(e)
    BY <1>4, <2>2, <2>3
  <2> QED
    BY <1>1, <2>1, <2>3, <2>4
<1> QED
  BY <1>5, <1>6

\* A step of one call, which may leave something kept.
LEMMA McpCallStep ==
  ASSUME McpInv, mcp' = mcp, NEW c \in McpCalls, NEW C \in McpCallType, NEW R,
         mcall' = [mcall EXCEPT ![c] = C], executed' = [executed EXCEPT ![c] = R],
         kept' \in KeptType, KeptOK(kept', mcp),
         \A e \in Entries : kept'.tool[e] = kept.tool[e] \/ kept'.tool[e] \in mcp.tools,
         McpCallOK(C, EntryOf[c], kept', mcp), RanOK(R, C, EntryOf[c])
  PROVE  McpInv'
<1>1. ASSUME NEW d \in McpCalls
      PROVE  McpCallOK(mcall'[d], EntryOf[d], kept', mcp')
  <2>1. CASE d = c
    BY <2>1 DEF McpInv
  <2>2. CASE d # c
    <3>1. McpCallOK(mcall[d], EntryOf[d], kept, mcp) /\ EntryOf[d] \in Entries
      BY McpAssumption DEF McpInv
    <3>2. McpCallOK(mcall[d], EntryOf[d], kept', mcp)
      BY <3>1 DEF McpCallOK
    <3> QED
      BY <2>2, <3>2 DEF McpInv
  <2> QED
    BY <2>1, <2>2
<1>2. ASSUME NEW d \in McpCalls
      PROVE  RanOK(executed'[d], mcall'[d], EntryOf[d])
  BY DEF McpInv
<1>3. DOMAIN executed' = McpCalls /\ executed' = [d \in McpCalls |-> executed'[d]]
  BY DEF McpInv
<1>4. mcall' \in [McpCalls -> McpCallType]
  BY DEF McpInv
<1> QED
  BY <1>1, <1>2, <1>3, <1>4 DEF McpInv

\* The same, for a step that keeps nothing and runs nothing.
LEMMA QuietStep ==
  ASSUME McpInv, UNCHANGED <<mcp, kept, executed>>, NEW c \in McpCalls, NEW C \in McpCallType,
         mcall' = [mcall EXCEPT ![c] = C],
         McpCallOK(C, EntryOf[c], kept, mcp), RanOK(executed[c], C, EntryOf[c])
  PROVE  McpInv'
<1>1. executed' = [executed EXCEPT ![c] = executed[c]]
  BY DEF McpInv
<1>2. kept' = kept /\ kept' \in KeptType /\ KeptOK(kept', mcp)
  BY DEF McpInv
<1> QED
  BY <1>1, <1>2, McpCallStep

\* A request is for a handshake first, or has the session that is kept.
LEMMA AskingCall ==
  ASSUME McpInv, NEW c \in McpCalls, mcall[c].pc \in Active,
         NEW doing \in {"list", "retry"}, NEW tool \in Allowed(EntryOf[c]),
         NEW error \in McpErrors, Asks(c, doing, tool, error),
         mcall[c].first /\ doing = "list" => tool = Declared[EntryOf[c]][1],
         mcall[c].first /\ mcall[c].began = mcp.life =>
           /\ doing = "retry" => tool \in mcp.tools
           /\ doing = "list" /\ error = "unknown" => tool \notin mcp.tools
           /\ (mcp.sessional => mcp.life = 1) => error # "session"
  PROVE  \E C \in McpCallType :
           /\ mcall' = [mcall EXCEPT ![c] = C] /\ McpCallOK(C, EntryOf[c], kept, mcp)
           /\ C.pc \in Active /\ C.doing = doing /\ C.tool = tool
           /\ C.first = mcall[c].first /\ C.began = mcall[c].began
<1> DEFINE e == EntryOf[c]
           x == mcall[c]
           session == kept.session
           pc == IF session = Unset THEN "handshake" ELSE "send"
           C == [x EXCEPT !.pc = pc, !.doing = doing, !.tool = tool, !.session = session,
                          !.error = error]
<1>1. /\ x \in McpCallType /\ McpCallOK(x, e, kept, mcp) /\ e \in Entries /\ session \in Int
      /\ mcp.sessional /\ mcp.life = 1 => session \in {Unset, 1}
      /\ pc \in {"handshake", "send"} /\ (pc = "send" => session # Unset)
      /\ x.pc \in Active /\ tool \in Allowed(e)
      /\ (x.first /\ doing = "list" => tool = Declared[e][1])
      /\ (x.first /\ x.began = mcp.life =>
           /\ doing = "retry" => tool \in mcp.tools
           /\ doing = "list" /\ error = "unknown" => tool \notin mcp.tools
           /\ (mcp.sessional => mcp.life = 1) => error # "session")
  BY McpAssumption DEF McpInv, KeptOK, KeptType
<1>2. tool \in ToolNames
  BY <1>1, EntryNames DEF Allowed, ToolNames
<1>3. mcall' = [mcall EXCEPT ![c] = C]
  BY DEF Asks
<1> HIDE DEF e, x, session, pc
<1>4. /\ C \in McpCallType /\ C.pc = pc /\ C.doing = doing /\ C.tool = tool /\ C.error = error
      /\ C.session = session /\ C.began = x.began /\ C.first = x.first
  BY <1>1, <1>2 DEF McpCallType, Active
<1> HIDE DEF C
<1>5. McpCallOK(C, e, kept, mcp)
  BY <1>1, <1>4 DEF McpCallOK, Active
<1> QED
  BY <1>1, <1>3, <1>4, <1>5 DEF e, x, Active

\* A call that is over keeps what led it there.
LEMMA OverCallOK ==
  ASSUME McpInv, NEW c \in McpCalls, NEW pc \in {"done", "failed"},
         NEW error \in McpErrors, Over(c, pc, error),
         /\ mcall[c].first /\ mcall[c].began = mcp.life /\ (mcp.sessional => mcp.life = 1)
         /\ mcp.up /\ Allowed(EntryOf[c]) \cap mcp.tools # {}
         => error # "session" /\ (mcall[c].doing # "call" => error # "unknown")
  PROVE  \E C \in McpCallType :
           /\ mcall' = [mcall EXCEPT ![c] = C] /\ McpCallOK(C, EntryOf[c], kept, mcp)
           /\ C.pc \in {"done", "failed"} /\ C.doing = mcall[c].doing
<1> DEFINE x == mcall[c]
           C == [x EXCEPT !.pc = pc, !.error = error]
<1>1. x \in McpCallType /\ McpCallOK(x, EntryOf[c], kept, mcp)
  BY DEF McpInv
<1>2. mcall' = [mcall EXCEPT ![c] = C]
  BY DEF Over
<1>3. /\ C \in McpCallType /\ C.pc = pc /\ C.error = error /\ C.doing = x.doing
      /\ C.began = x.began /\ C.first = x.first
  BY <1>1 DEF McpCallType
<1> HIDE DEF C
<1>4. McpCallOK(C, EntryOf[c], kept, mcp)
  BY <1>1, <1>3 DEF McpCallOK, Active
<1> QED
  BY <1>2, <1>3, <1>4

\* An error ends the call, or leads to the list or to the name that is kept.
LEMMA RaisingCall ==
  ASSUME McpInv, NEW c \in McpCalls, mcall[c].pc \in Active,
         NEW error \in {"broken", "session", "unknown"}, Raises(c, error),
         error = "session" => ~(mcp.sessional => mcp.life = 1),
         error = "unknown" => mcall[c].tool \notin mcp.tools /\ mcall[c].doing # "list"
  PROVE  \E C \in McpCallType :
           /\ mcall' = [mcall EXCEPT ![c] = C] /\ McpCallOK(C, EntryOf[c], kept, mcp)
           /\ \/ C.pc \in {"done", "failed"} /\ C.doing = mcall[c].doing
              \/ /\ mcall[c].doing = "call" /\ C.pc \in Active
                 /\ \/ C.doing = "list" /\ C.tool = mcall[c].tool
                    \/ C.doing = "retry" /\ C.tool # mcall[c].tool
<1> DEFINE e == EntryOf[c]
           x == mcall[c]
<1>1. /\ x \in McpCallType /\ McpCallOK(x, e, kept, mcp) /\ e \in Entries
      /\ kept.tool[e] \in {NoTool} \cup Allowed(e)
  BY McpAssumption DEF McpInv, KeptOK
<1>2. CASE x.doing # "list" /\ Over(c, "failed", error)
  <2>1. x.first /\ x.began = mcp.life /\ x.doing = "retry" => error # "unknown"
    BY <1>1 DEF McpCallOK
  <2>2. x.first /\ x.began = mcp.life /\ (mcp.sessional => mcp.life = 1)
        /\ mcp.up /\ Allowed(EntryOf[c]) \cap mcp.tools # {}
        => error # "session" /\ (x.doing # "call" => error # "unknown")
    BY <1>1, <1>2, <2>1 DEF McpCallType
  <2> QED
    BY <1>2, <2>2, OverCallOK DEF McpErrors
<1>3. CASE /\ x.doing = "call" /\ kept.tool[e] = NoTool /\ Asks(c, "list", x.tool, error)
  <2>1. x.tool \in Allowed(e) /\ (x.first => x.tool = Declared[e][1])
    BY <1>1, <1>3 DEF McpCallOK
  <2>2. PICK C \in McpCallType :
          /\ mcall' = [mcall EXCEPT ![c] = C] /\ McpCallOK(C, EntryOf[c], kept, mcp)
          /\ C.pc \in Active /\ C.doing = "list" /\ C.tool = x.tool
    <3> DEFINE tool == x.tool
    <3>1. /\ tool \in Allowed(EntryOf[c]) /\ error \in McpErrors /\ Asks(c, "list", tool, error)
          /\ (mcall[c].first => tool = Declared[EntryOf[c]][1])
          /\ (error = "unknown" => tool \notin mcp.tools)
      BY <1>3, <2>1 DEF McpErrors
    <3> HIDE DEF tool, e
    <3>2. PICK C \in McpCallType :
            /\ mcall' = [mcall EXCEPT ![c] = C] /\ McpCallOK(C, EntryOf[c], kept, mcp)
            /\ C.pc \in Active /\ C.doing = "list" /\ C.tool = tool
      BY <3>1, AskingCall
    <3> QED
      BY <3>2 DEF tool
  <2> QED
    BY <1>3, <2>2
<1>4. CASE /\ x.doing = "call" /\ kept.tool[e] \notin {NoTool, x.tool}
           /\ Asks(c, "retry", kept.tool[e], error)
  <2>1. kept.tool[e] \in Allowed(e)
    BY <1>1, <1>4
  <2>2. x.first /\ x.began = mcp.life => kept.tool[e] \in mcp.tools
    BY <1>1, <1>4 DEF McpCallOK
  <2>3. PICK C \in McpCallType :
          /\ mcall' = [mcall EXCEPT ![c] = C] /\ McpCallOK(C, EntryOf[c], kept, mcp)
          /\ C.pc \in Active /\ C.doing = "retry" /\ C.tool = kept.tool[e]
    <3> DEFINE tool == kept.tool[e]
    <3>1. /\ tool \in Allowed(EntryOf[c]) /\ error \in McpErrors /\ Asks(c, "retry", tool, error)
          /\ (mcall[c].first /\ mcall[c].began = mcp.life => tool \in mcp.tools)
      BY <1>4, <2>1, <2>2 DEF McpErrors
    <3> HIDE DEF tool, e
    <3>2. PICK C \in McpCallType :
            /\ mcall' = [mcall EXCEPT ![c] = C] /\ McpCallOK(C, EntryOf[c], kept, mcp)
            /\ C.pc \in Active /\ C.doing = "retry" /\ C.tool = tool
      BY <3>1, AskingCall
    <3> QED
      BY <3>2 DEF tool
  <2> QED
    BY <1>4, <2>3
<1>5. CASE x.doing = "list" /\ Over(c, "failed", "unlisted")
  BY <1>5, OverCallOK DEF McpErrors
<1> QED
  BY <1>2, <1>3, <1>4, <1>5 DEF Raises

\* The same, for a step that keeps nothing and runs nothing.
LEMMA RaisingStep ==
  ASSUME McpInv, UNCHANGED <<mcp, kept, executed>>, NEW c \in McpCalls, mcall[c].pc \in Active,
         NEW error \in {"broken", "session", "unknown"}, Raises(c, error),
         error = "session" => ~(mcp.sessional => mcp.life = 1),
         error = "unknown" => mcall[c].tool \notin mcp.tools /\ mcall[c].doing # "list"
  PROVE  McpInv'
<1>1. PICK C \in McpCallType :
        /\ mcall' = [mcall EXCEPT ![c] = C] /\ McpCallOK(C, EntryOf[c], kept, mcp)
        /\ \/ C.pc \in {"done", "failed"} /\ C.doing = mcall[c].doing
           \/ /\ mcall[c].doing = "call" /\ C.pc \in Active
              /\ \/ C.doing = "list" /\ C.tool = mcall[c].tool
                 \/ C.doing = "retry" /\ C.tool # mcall[c].tool
  BY RaisingCall
<1>2. RanOK(executed[c], mcall[c], EntryOf[c])
  BY DEF McpInv
<1>3. RanOK(executed[c], C, EntryOf[c])
  BY <1>1, <1>2 DEF RanOK, Active
<1> QED
  BY <1>1, <1>3, QuietStep

\* A call that is refused was not sent, or is not sent again.
LEMMA McpRefusePreserves ==
  ASSUME McpInv, NEW c \in McpCalls, McpRefuse(c)
  PROVE  McpInv'
<1>1. /\ Over(c, "failed", "refused") /\ UNCHANGED <<mcp, kept, executed>>
      /\ mcall[c].pc = "new" /\ RanOK(executed[c], mcall[c], EntryOf[c])
  BY DEF McpInv, McpRefuse
<1>2. PICK C \in McpCallType :
        /\ mcall' = [mcall EXCEPT ![c] = C] /\ McpCallOK(C, EntryOf[c], kept, mcp)
        /\ C.pc \in {"done", "failed"} /\ C.doing = mcall[c].doing
  BY <1>1, OverCallOK DEF McpErrors
<1>3. RanOK(executed[c], C, EntryOf[c])
  BY <1>1, <1>2 DEF RanOK, Active
<1> QED
  BY <1>1, <1>2, <1>3, QuietStep

\* A call begins with the first declared name, or with the one that was found.
LEMMA McpBeginPreserves ==
  ASSUME McpInv, NEW c \in McpCalls, McpBegin(c)
  PROVE  McpInv'
<1> DEFINE e == EntryOf[c]
           tool == IF kept.tool[e] = NoTool THEN Declared[e][1] ELSE kept.tool[e]
           pc == IF kept.session = Unset THEN "handshake" ELSE "send"
           first == kept.tool[e] = NoTool
           C == [pc |-> pc, doing |-> "call", tool |-> tool, session |-> kept.session,
                 began |-> mcp.life, first |-> first, error |-> "none"]
<1>1. /\ e \in Entries /\ mcall[c] \in McpCallType /\ mcall[c].pc = "new"
      /\ kept \in KeptType /\ KeptOK(kept, mcp) /\ mcp \in McpType
      /\ Declared[e][1] \notin Mutating
  BY McpAssumption DEF McpInv, McpBegin
<1>2. mcall' = [mcall EXCEPT ![c] = C] /\ UNCHANGED <<mcp, kept, executed>>
  BY DEF McpBegin
<1>3. tool \in Allowed(e) /\ (first => tool = Declared[e][1])
  BY <1>1, EntryNames DEF KeptOK, Allowed
<1>4. tool \in ToolNames
  BY <1>1, <1>3, EntryNames DEF Allowed, ToolNames
<1>5. /\ kept.session \in Int /\ mcp.life \in Nat /\ first \in BOOLEAN
      /\ pc \in {"handshake", "send"} /\ (pc = "send" => kept.session # Unset)
      /\ mcp.sessional /\ mcp.life = 1 => kept.session \in {Unset, 1}
  BY <1>1 DEF KeptType, McpType, KeptOK
<1>6. first => kept.tool[e] = NoTool
  OBVIOUS
<1>7. executed[c] = <<>>
  BY <1>1 DEF McpInv, RanOK, Active
<1> HIDE DEF e, tool, pc, first
<1>8. C \in McpCallType
  BY <1>4, <1>5 DEF McpCallType, Active, McpErrors
<1>9. McpCallOK(C, e, kept, mcp) /\ RanOK(executed[c], C, e)
  BY <1>3, <1>5, <1>6, <1>7 DEF McpCallOK, Active, RanOK
<1> QED
  BY <1>1, <1>2, <1>8, <1>9, QuietStep DEF e

\* The handshake, which may give a session of the server's life.
LEMMA HandshakePreserves ==
  ASSUME McpInv, NEW c \in McpCalls, Handshake(c)
  PROVE  McpInv'
<1>1. /\ mcall[c] \in McpCallType /\ mcall[c].pc = "handshake" /\ mcp \in McpType
      /\ McpCallOK(mcall[c], EntryOf[c], kept, mcp) /\ UNCHANGED <<mcp, kept, executed>>
      /\ RanOK(executed[c], mcall[c], EntryOf[c])
  BY DEF McpInv, Handshake
<1> DEFINE session == IF mcp.sessional THEN mcp.life ELSE 0
<1>2. CASE mcall' = [mcall EXCEPT ![c].pc = "notify", ![c].session = session]
  <2> DEFINE C == [mcall[c] EXCEPT !.pc = "notify", !.session = session]
  <2>1. session \in Int /\ session # Unset /\ (mcp.sessional /\ mcp.life = 1 => session = 1)
    BY <1>1, McpAssumption DEF McpType
  <2>2. mcall' = [mcall EXCEPT ![c] = C]
    BY <1>2
  <2> HIDE DEF session
  <2>3. /\ C \in McpCallType /\ C.pc = "notify" /\ C.tool = mcall[c].tool
        /\ C.session = session /\ C.began = mcall[c].began /\ C.first = mcall[c].first
        /\ C.doing = mcall[c].doing /\ C.error = mcall[c].error
    BY <1>1, <2>1 DEF McpCallType, Active
  <2> HIDE DEF C
  <2>4. McpCallOK(C, EntryOf[c], kept, mcp)
    BY <1>1, <2>1, <2>3 DEF McpCallOK, Active
  <2>5. RanOK(executed[c], C, EntryOf[c])
    BY <1>1, <2>3 DEF RanOK, Active
  <2> QED
    BY <1>1, <2>2, <2>3, <2>4, <2>5, QuietStep
<1>3. CASE Raises(c, "broken")
  BY <1>1, <1>3, RaisingStep DEF Active
<1> QED
  BY <1>2, <1>3 DEF Handshake

\* The session is kept for the calls that follow.
LEMMA NotifyPreserves ==
  ASSUME McpInv, NEW c \in McpCalls, Notify(c)
  PROVE  McpInv'
<1> DEFINE K == [kept EXCEPT !.session = mcall[c].session]
           C == [mcall[c] EXCEPT !.pc = "send"]
<1>1. /\ mcall[c] \in McpCallType /\ mcall[c].pc = "notify" /\ kept \in KeptType
      /\ McpCallOK(mcall[c], EntryOf[c], kept, mcp) /\ KeptOK(kept, mcp)
      /\ RanOK(executed[c], mcall[c], EntryOf[c])
      /\ mcp' = mcp /\ executed' = [executed EXCEPT ![c] = executed[c]]
  BY DEF McpInv, Notify
<1>2. kept' = K /\ mcall' = [mcall EXCEPT ![c] = C]
  BY DEF Notify
<1>3. mcall[c].session \in Int /\ mcall[c].session # Unset
      /\ (mcp.sessional /\ mcp.life = 1 => mcall[c].session = 1)
  BY <1>1 DEF McpCallOK, McpCallType
<1>4. K \in KeptType /\ K.session = mcall[c].session /\ K.tool = kept.tool
  BY <1>1, <1>3 DEF KeptType
<1>5. /\ C \in McpCallType /\ C.pc = "send" /\ C.tool = mcall[c].tool
      /\ C.session = mcall[c].session /\ C.began = mcall[c].began /\ C.first = mcall[c].first
      /\ C.doing = mcall[c].doing /\ C.error = mcall[c].error
  BY <1>1 DEF McpCallType, Active
<1> HIDE DEF K, C
<1>6. KeptOK(K, mcp)
  BY <1>1, <1>3, <1>4 DEF KeptOK
<1>7. McpCallOK(C, EntryOf[c], K, mcp)
  BY <1>1, <1>3, <1>4, <1>5 DEF McpCallOK, Active
<1>8. RanOK(executed[c], C, EntryOf[c])
  BY <1>1, <1>5 DEF RanOK, Active
<1> QED
  BY <1>1, <1>2, <1>4, <1>5, <1>6, <1>7, <1>8, McpCallStep

\* A tool runs: what the call asked for, which is none that ran for it before.
LEMMA ToolRunsPreserves ==
  ASSUME McpInv, NEW c \in McpCalls, ToolRuns(c)
  PROVE  McpInv'
<1> DEFINE e == EntryOf[c]
           x == mcall[c]
           R == Append(executed[c], x.tool)
<1>1. /\ x \in McpCallType /\ x.pc = "send" /\ x.doing # "list" /\ kept \in KeptType
      /\ McpCallOK(x, e, kept, mcp) /\ KeptOK(kept, mcp) /\ RanOK(executed[c], x, e)
      /\ mcp' = mcp /\ kept' = kept /\ executed' = [executed EXCEPT ![c] = R]
  BY DEF McpInv, ToolRuns
<1>2. x.tool \in Allowed(e)
  BY <1>1 DEF McpCallOK, Active
<1>3. \/ executed[c] = <<>> /\ R = <<x.tool>>
      \/ /\ x.doing = "retry"
         /\ \E t \in Allowed(e) : t # x.tool /\ R = <<t, x.tool>>
  <2>1. executed[c] = <<>> => R = <<x.tool>>
    OBVIOUS
  <2>2. ASSUME NEW t \in Allowed(e), executed[c] = <<t>>
        PROVE  R = <<t, x.tool>>
    <3> DEFINE u == x.tool
    <3>1. R = Append(<<t>>, u)
      BY <2>2
    <3> HIDE DEF u, R
    <3> DEFINE A == Append(<<t>>, u)
    <3>a. DOMAIN A = 1..2 /\ Len(A) = 2 /\ A[1] = t /\ A[2] = u
      OBVIOUS
    <3>b. A \in Seq({t, u}) /\ <<t, u>> \in Seq({t, u})
      OBVIOUS
    <3>c. Len(<<t, u>>) = 2 /\ <<t, u>>[1] = t /\ <<t, u>>[2] = u
      OBVIOUS
    <3> HIDE DEF A
    <3>d. A = <<t, u>>
      BY <3>a, <3>b, <3>c, SeqEqual
    <3>2. Append(<<t>>, u) = <<t, u>>
      BY <3>d DEF A
    <3> QED
      BY <3>1, <3>2 DEF u
  <2> QED
    BY <1>1, <2>1, <2>2 DEF RanOK, Active
<1> HIDE DEF R
<1>4. PICK C \in McpCallType :
        /\ mcall' = [mcall EXCEPT ![c] = C] /\ McpCallOK(C, e, kept, mcp)
        /\ \/ C.pc \in {"done", "failed"} /\ C.doing = x.doing
           \/ /\ x.doing = "call" /\ C.pc \in Active
              /\ \/ C.doing = "list" /\ C.tool = x.tool
                 \/ C.doing = "retry" /\ C.tool # x.tool
  <2>1. CASE Over(c, "done", "none")
    BY <2>1, OverCallOK DEF McpErrors
  <2>2. CASE Over(c, "failed", "tool error")
    BY <2>2, OverCallOK DEF McpErrors
  <2>3. CASE Raises(c, "broken")
    BY <1>1, <2>3, RaisingCall DEF Active
  <2> QED
    BY <2>1, <2>2, <2>3 DEF ToolRuns
<1>5. RanOK(R, C, e)
  BY <1>2, <1>3, <1>4 DEF RanOK, Active
<1> QED
  BY <1>1, <1>4, <1>5, McpCallStep

\* In the first life of the server, and where there are no sessions, a session holds.
LEMMA FirstSessionHolds ==
  ASSUME McpInv, NEW c \in McpCalls, mcall[c].pc = "send", mcp.sessional => mcp.life = 1
  PROVE  SessionHolds(c)
BY DEF McpInv, McpCallOK, SessionHolds

\* A request that fails.
LEMMA CallFailsPreserves ==
  ASSUME McpInv, NEW c \in McpCalls, CallFails(c)
  PROVE  McpInv'
<1>1. mcall[c].pc = "send" /\ mcall[c].pc \in Active /\ UNCHANGED <<mcp, kept, executed>>
  BY DEF CallFails, Active
<1>2. CASE Raises(c, "broken")
  BY <1>1, <1>2, RaisingStep
<1>3. CASE ~SessionHolds(c) /\ Raises(c, "session")
  BY <1>1, <1>3, RaisingStep, FirstSessionHolds
<1>4. CASE /\ mcall[c].doing # "list" /\ mcall[c].tool \notin mcp.tools
           /\ Raises(c, "unknown")
  BY <1>1, <1>4, RaisingStep
<1> QED
  BY <1>2, <1>3, <1>4 DEF CallFails

\* The list finds a declared name that the server has; that there is none is
\* only so where the entry has no other name.
LEMMA ListToolsPreserves ==
  ASSUME McpInv, NEW c \in McpCalls, ListTools(c)
  PROVE  McpInv'
<1> DEFINE e == EntryOf[c]
           x == mcall[c]
           a == Alias(e)
<1>1. /\ e \in Entries /\ x \in McpCallType /\ x.pc = "send" /\ x.pc \in Active
      /\ x.doing = "list" /\ mcp' = mcp /\ executed' = executed
      /\ executed' = [executed EXCEPT ![c] = executed[c]]
      /\ kept \in KeptType /\ KeptOK(kept, mcp) /\ mcp \in McpType
      /\ McpCallOK(x, e, kept, mcp) /\ RanOK(executed[c], x, e)
  BY McpAssumption DEF McpInv, ListTools, Active
<1>2. /\ a # NoTool => a \in Names(e) \cap mcp.tools
      /\ a = NoTool => Names(e) \cap mcp.tools \subseteq {Declared[e][1]}
      /\ Names(e) \subseteq ToolNames /\ NoTool \in ToolNames
  BY <1>1, AliasIsDeclared, EntryNames DEF ToolNames
<1>3. ASSUME x.first, x.began = mcp.life
      PROVE  /\ x.tool = Declared[e][1]
             /\ x.error = "unknown" => x.tool \notin mcp.tools
             /\ (mcp.sessional => mcp.life = 1) => x.error # "session"
  BY <1>1, <1>3 DEF McpCallOK
<1>4. x.tool \in Allowed(e) /\ x.error \in McpErrors
  BY <1>1 DEF McpCallOK, McpCallType
<1>5. ASSUME NEW C \in McpCallType, C.pc \in {"done", "failed"}
      PROVE  RanOK(executed[c], C, e)
  BY <1>1, <1>5 DEF RanOK
<1>6. CASE UNCHANGED kept /\ (a \in Mutating \/ a = NoTool)
  <2>1. PICK C \in McpCallType :
          /\ mcall' = [mcall EXCEPT ![c] = C] /\ McpCallOK(C, e, kept, mcp)
          /\ C.pc \in {"done", "failed"} /\ C.doing = x.doing
    <3>1. CASE Over(c, "failed", "refused")
      BY <3>1, OverCallOK DEF McpErrors
    <3>2. CASE a = NoTool /\ Over(c, "failed", x.error)
      <4>1. x.first /\ x.began = mcp.life /\ (mcp.sessional => mcp.life = 1)
            /\ mcp.up /\ Allowed(EntryOf[c]) \cap mcp.tools # {}
            => x.error # "session" /\ (x.doing # "call" => x.error # "unknown")
        BY <1>2, <1>3, <3>2 DEF Allowed
      <4> QED
        BY <1>4, <3>2, <4>1, OverCallOK
    <3> QED
      BY <1>6, <3>1, <3>2, <1>2 DEF ListTools
  <2> QED
    BY <1>1, <1>5, <1>6, <2>1, QuietStep
<1>7. CASE a \notin {NoTool} \cup Mutating /\ kept' = [kept EXCEPT !.tool[e] = a]
  <2> DEFINE K == [kept EXCEPT !.tool[e] = a]
  <2>1. a \in Allowed(e) /\ a \in mcp.tools /\ a \in ToolNames
    BY <1>2, <1>7 DEF Allowed
  <2> HIDE DEF a
  <2>2. K \in KeptType /\ K.session = kept.session
        /\ \A f \in Entries : K.tool[f] = IF f = e THEN a ELSE kept.tool[f]
    BY <1>1, <2>1 DEF KeptType
  <2>3. kept' = K
    BY <1>7
  <2> HIDE DEF K
  <2>4. KeptOK(K, mcp) /\ \A f \in Entries : K.tool[f] = kept.tool[f] \/ K.tool[f] \in mcp.tools
    BY <1>1, <2>1, <2>2 DEF KeptOK
  <2>5. PICK C \in McpCallType :
          /\ mcall' = [mcall EXCEPT ![c] = C] /\ McpCallOK(C, e, kept, mcp)
          /\ RanOK(executed[c], C, e)
    <3>1. CASE a = x.tool /\ Over(c, "failed", x.error)
      <4>1. x.first /\ x.began = mcp.life /\ (mcp.sessional => mcp.life = 1)
            /\ mcp.up /\ Allowed(EntryOf[c]) \cap mcp.tools # {}
            => x.error # "session" /\ (x.doing # "call" => x.error # "unknown")
        BY <1>3, <2>1, <3>1
      <4> QED
        BY <1>4, <1>5, <3>1, <4>1, OverCallOK
    <3>2. CASE a # x.tool /\ Asks(c, "retry", a, x.error)
      <4>1. x.first /\ x.began = mcp.life /\ (mcp.sessional => mcp.life = 1) => x.error # "session"
        BY <1>3
      <4>2. PICK C \in McpCallType :
              /\ mcall' = [mcall EXCEPT ![c] = C] /\ McpCallOK(C, e, kept, mcp)
              /\ C.pc \in Active /\ C.doing = "retry" /\ C.tool = a
        BY <1>1, <1>4, <2>1, <3>2, <4>1, AskingCall
      <4>3. RanOK(executed[c], C, e)
        BY <1>1, <3>2, <4>2 DEF RanOK, Active
      <4> QED
        BY <4>2, <4>3
    <3> QED
      BY <1>7, <3>1, <3>2 DEF ListTools, a
  <2>6. McpCallOK(C, e, K, mcp)
    BY <1>1, <2>1, <2>2, <2>5 DEF McpCallOK
  <2> HIDE DEF e
  <2> QED
    BY <1>1, <2>2, <2>3, <2>4, <2>5, <2>6, McpCallStep DEF e
<1> QED
  BY <1>6, <1>7 DEF ListTools

\* The server goes, or comes back in another life: what a call was led to in the
\* last one is not claimed of this one.
LEMMA ServerPreserves ==
  ASSUME McpInv, ServerStops \/ ServerStarts
  PROVE  McpInv'
<1>1. PICK M \in McpType :
        /\ mcp' = M /\ M.sessional = mcp.sessional
        /\ \/ M.life = mcp.life /\ M.tools = mcp.tools /\ ~M.up
           \/ M.life = mcp.life + 1
  <2>1. mcp \in McpType
    BY DEF McpInv
  <2>2. CASE ServerStops
    <3> DEFINE M == [mcp EXCEPT !.up = FALSE]
    <3>1. M \in McpType /\ M.sessional = mcp.sessional /\ M.life = mcp.life
          /\ M.tools = mcp.tools /\ ~M.up /\ mcp' = M
      BY <2>1, <2>2 DEF McpType, ServerStops
    <3> QED
      BY <3>1
  <2>3. CASE ServerStarts
    <3>1. PICK tools \in ToolSets :
            mcp' = [mcp EXCEPT !.up = TRUE, !.life = @ + 1, !.tools = tools]
      BY <2>3 DEF ServerStarts
    <3> DEFINE M == [mcp EXCEPT !.up = TRUE, !.life = @ + 1, !.tools = tools]
    <3>2. mcp.life + 1 \in Nat \ {0}
      BY <2>1 DEF McpType
    <3>3. mcp' = M
      BY <3>1
    <3>4. M \in McpType /\ M.sessional = mcp.sessional /\ M.life = mcp.life + 1
      BY <2>1, <3>2 DEF McpType
    <3> HIDE DEF M
    <3> QED
      BY <3>3, <3>4
  <2> QED
    BY <2>2, <2>3
<1>2. UNCHANGED <<kept, mcall, executed>> /\ mcp \in McpType /\ kept \in KeptType
      /\ KeptOK(kept, mcp) /\ mcall \in [McpCalls -> McpCallType]
  BY DEF McpInv, ServerStops, ServerStarts
<1>3. M.life \in Nat \ {0} /\ mcp.life \in Nat \ {0}
  BY <1>2 DEF McpType
<1>4. KeptOK(kept, M)
  BY <1>1, <1>2, <1>3 DEF KeptOK
<1>5. ASSUME NEW c \in McpCalls
      PROVE  McpCallOK(mcall[c], EntryOf[c], kept, M)
  <2>1. McpCallOK(mcall[c], EntryOf[c], kept, mcp) /\ mcall[c].began \in Nat
    BY <1>2 DEF McpInv, McpCallType
  <2>2. CASE M.life = mcp.life /\ M.tools = mcp.tools /\ ~M.up
    BY <1>1, <2>1, <2>2 DEF McpCallOK
  <2>3. CASE M.life = mcp.life + 1
    <3>1. mcall[c].began <= M.life /\ mcall[c].began # M.life /\ M.life # 1
      BY <1>3, <2>1, <2>3 DEF McpCallOK
    <3> QED
      BY <2>1, <3>1 DEF McpCallOK
  <2> QED
    BY <1>1, <2>2, <2>3
<1> QED
  BY <1>1, <1>2, <1>4, <1>5 DEF McpInv

\* The end of the process takes its calls, and what it kept.
LEMMA ProcessRestartsPreserves ==
  ASSUME McpInv, ProcessRestarts
  PROVE  McpInv'
<1>1. mcp' = mcp /\ executed' = executed /\ kept' = Forgotten(kept.life + 1)
      /\ kept \in KeptType /\ mcall \in [McpCalls -> McpCallType]
  BY DEF McpInv, ProcessRestarts
<1> DEFINE K == Forgotten(kept.life + 1)
<1>2. K \in KeptType /\ K.session = Unset /\ \A e \in Entries : K.tool[e] = NoTool
  <2>1. kept.life + 1 \in Nat /\ Unset \in Int /\ NoTool \in ToolNames
    BY <1>1, McpAssumption DEF KeptType, ToolNames
  <2> QED
    BY <2>1 DEF Forgotten, KeptType
<1> HIDE DEF K
<1>3. KeptOK(K, mcp)
  BY <1>2 DEF KeptOK
<1> DEFINE N(c) == IF mcall[c].pc \in {"new", "done", "failed"} THEN mcall[c]
                   ELSE [mcall[c] EXCEPT !.pc = "failed", !.error = "lost"]
<1>4. mcall' = [c \in McpCalls |-> N(c)]
  BY DEF ProcessRestarts
<1>5. ASSUME NEW c \in McpCalls
      PROVE  N(c) \in McpCallType /\ McpCallOK(N(c), EntryOf[c], K, mcp)
             /\ RanOK(executed[c], N(c), EntryOf[c])
  <2>1. /\ mcall[c] \in McpCallType /\ McpCallOK(mcall[c], EntryOf[c], kept, mcp)
        /\ RanOK(executed[c], mcall[c], EntryOf[c])
    BY <1>1 DEF McpInv
  <2>2. CASE mcall[c].pc \in {"new", "done", "failed"}
    <3>1. N(c) = mcall[c] /\ mcall[c].pc \notin Active
      BY <2>2 DEF Active
    <3>2. McpCallOK(mcall[c], EntryOf[c], K, mcp)
      BY <2>1, <2>2, <3>1 DEF McpCallOK
    <3> QED
      BY <2>1, <3>1, <3>2
  <2>3. CASE mcall[c].pc \notin {"new", "done", "failed"}
    <3>1. /\ N(c) \in McpCallType /\ N(c).pc = "failed" /\ N(c).error = "lost"
          /\ N(c).began = mcall[c].began
      BY <2>1, <2>3 DEF McpCallType, McpErrors
    <3> HIDE DEF N
    <3>2. RanOK(executed[c], N(c), EntryOf[c])
      BY <2>1, <2>3, <3>1 DEF RanOK
    <3>3. McpCallOK(N(c), EntryOf[c], K, mcp)
      BY <2>1, <3>1 DEF McpCallOK, Active
    <3> QED
      BY <3>1, <3>2, <3>3
  <2> QED
    BY <2>2, <2>3
<1>6. kept' = K
  BY <1>1 DEF K
<1> HIDE DEF N
<1> QED
  BY <1>1, <1>2, <1>3, <1>4, <1>5, <1>6 DEF McpInv

\* Nothing was sent and nothing is kept.
LEMMA McpStart == McpInit => McpInv
<1> SUFFICES ASSUME McpInit PROVE McpInv
  OBVIOUS
<1> DEFINE C == [pc |-> "new", doing |-> "call", tool |-> NoTool, session |-> Unset, began |-> 0,
                 first |-> FALSE, error |-> "none"]
<1>1. mcp \in McpType /\ kept = Forgotten(1) /\ mcall = [c \in McpCalls |-> C]
      /\ executed = [c \in McpCalls |-> <<>>]
  <2>1. mcp \in [up : {TRUE}, life : {1}, sessional : BOOLEAN, tools : ToolSets]
    BY DEF McpInit
  <2>2. mcp \in McpType
    <3>1. PICK b \in BOOLEAN, t \in ToolSets :
            mcp = [up |-> TRUE, life |-> 1, sessional |-> b, tools |-> t]
      BY <2>1
    <3>2. 1 \in Nat \ {0}
      OBVIOUS
    <3> QED
      BY <3>1, <3>2 DEF McpType
  <2> QED
    BY <2>2 DEF McpInit
<1>2. kept \in KeptType /\ kept.session = Unset /\ \A e \in Entries : kept.tool[e] = NoTool
  <2>1. Unset \in Int /\ NoTool \in ToolNames
    BY McpAssumption DEF ToolNames
  <2> QED
    BY <1>1, <2>1 DEF Forgotten, KeptType
<1>3. KeptOK(kept, mcp)
  BY <1>2 DEF KeptOK
<1>4. C \in McpCallType /\ C.pc = "new" /\ C.began = 0 /\ C.first = FALSE
  <2>1. Unset \in Int /\ NoTool \in ToolNames
    BY McpAssumption DEF ToolNames
  <2> QED
    BY <2>1 DEF McpCallType, McpErrors
<1>5. mcp.life \in Nat
  BY <1>1 DEF McpType
<1> HIDE DEF C
<1>6. ASSUME NEW e
      PROVE  McpCallOK(C, e, kept, mcp) /\ RanOK(<<>>, C, e)
  BY <1>4, <1>5 DEF McpCallOK, RanOK, Active
<1> QED
  BY <1>1, <1>2, <1>3, <1>4, <1>6 DEF McpInv

\* Every step of the calls, the process and the server keeps the invariant.
LEMMA McpStep == McpInv /\ [McpNext]_mvars => McpInv'
<1> SUFFICES ASSUME McpInv, [McpNext]_mvars PROVE McpInv'
  OBVIOUS
<1>1. ASSUME NEW c \in McpCalls, McpRefuse(c) \/ McpBegin(c)
      PROVE  McpInv'
  BY <1>1, McpRefusePreserves, McpBeginPreserves
<1>2. ASSUME NEW c \in McpCalls,
             \/ Handshake(c) \/ Notify(c) \/ ToolRuns(c) \/ CallFails(c) \/ ListTools(c)
      PROVE  McpInv'
  BY <1>2, HandshakePreserves, NotifyPreserves, ToolRunsPreserves, CallFailsPreserves,
     ListToolsPreserves
<1>3. CASE ServerStops \/ ServerStarts \/ ProcessRestarts
  BY <1>3, ServerPreserves, ProcessRestartsPreserves
<1>4. CASE UNCHANGED mvars
  BY <1>4 DEF mvars, McpInv
<1> QED
  BY <1>1, <1>2, <1>3, <1>4 DEF McpNext

\* The server runs only names that the call's entry declares and nothing denies, none of them
\* twice for a call, and a second one only if the first error's message was taken for a missing
\* tool's; and then the first call after a rename finds the tool, for any number of calls at once
\* (mcpapi.py:99-119, 404-435, 467-484).
THEOREM ToolCallsTheorem == McpSpec => []ToolCallsHold
<1>1. McpSpec => []McpInv
  BY McpStart, McpStep, PTL DEF McpSpec
<1>2. McpInv => OnlyDeclaredToolsRun
  <2> SUFFICES ASSUME McpInv, NEW c \in McpCalls
               PROVE  /\ ToSet(executed[c]) \subseteq Allowed(EntryOf[c])
                      /\ IsInjective(executed[c])
                      /\ Len(executed[c]) <= (IF mcall[c].doing = "retry" THEN 2 ELSE 1)
    BY DEF OnlyDeclaredToolsRun, Allowed
  <2>1. RanOK(executed[c], mcall[c], EntryOf[c])
    BY DEF McpInv
  <2>2. CASE executed[c] = <<>>
    BY <2>2 DEF ToSet, IsInjective
  <2>3. ASSUME NEW t \in Allowed(EntryOf[c]), executed[c] = <<t>>
        PROVE  /\ ToSet(executed[c]) \subseteq Allowed(EntryOf[c])
               /\ IsInjective(executed[c]) /\ Len(executed[c]) = 1
    <3>1. DOMAIN executed[c] = {1} /\ executed[c][1] = t /\ Len(executed[c]) = 1
      BY <2>3
    <3> QED
      BY <3>1 DEF ToSet, IsInjective
  <2>4. ASSUME NEW t \in Allowed(EntryOf[c]), NEW u \in Allowed(EntryOf[c]), t # u,
               executed[c] = <<t, u>>
        PROVE  /\ ToSet(executed[c]) \subseteq Allowed(EntryOf[c])
               /\ IsInjective(executed[c]) /\ Len(executed[c]) = 2
    <3>1. /\ DOMAIN executed[c] = {1, 2} /\ executed[c][1] = t /\ executed[c][2] = u
          /\ Len(executed[c]) = 2
      BY <2>4
    <3> QED
      BY <2>4, <3>1 DEF ToSet, IsInjective
  <2>5. CASE \E t \in Allowed(EntryOf[c]) : executed[c] = <<t>>
    <3>1. PICK t \in Allowed(EntryOf[c]) : executed[c] = <<t>>
      BY <2>5
    <3>2. /\ ToSet(executed[c]) \subseteq Allowed(EntryOf[c])
          /\ IsInjective(executed[c]) /\ Len(executed[c]) = 1
      BY <2>3, <3>1
    <3> QED
      BY <3>2
  <2>6. CASE /\ mcall[c].doing = "retry"
             /\ \E t, u \in Allowed(EntryOf[c]) : t # u /\ executed[c] = <<t, u>>
    <3>1. PICK t \in Allowed(EntryOf[c]), u \in Allowed(EntryOf[c]) :
            t # u /\ executed[c] = <<t, u>>
      BY <2>6
    <3>2. /\ ToSet(executed[c]) \subseteq Allowed(EntryOf[c])
          /\ IsInjective(executed[c]) /\ Len(executed[c]) = 2
      BY <2>4, <3>1
    <3> QED
      BY <2>6, <3>2
  <2> QED
    BY <2>1, <2>2, <2>5, <2>6 DEF RanOK
<1>3. McpInv => FirstRenameHeals
  BY DEF McpInv, McpCallOK, FirstRenameHeals, Served, Allowed
<1> QED
  BY <1>1, <1>2, <1>3, PTL DEF ToolCallsHold

-----------------------------------------------------------------------------
(***************************************************************************)
(* CREDENTIALS.  What is kept is believed for at most a fetch longer than  *)
(* it lives, so what is taken with the margin to spare outlives a request. *)
(* The one cluster that was described is the one that every call, and the  *)
(* certificate file, is about.                                             *)
(***************************************************************************)

CredentialType == [dies : Nat, until : Nat, life : Nat]

\* Why a call failed, if it did.
Causes ==
  {"", "not fetched", "unreadable certificate", "another cluster", "expired", "unreachable"}

CloudCallType ==
  [pc     : {"new", "fetching", "describing", "writing", "sent", "over"},
   api    : {"", "gcp", "aws", "eks"},
   dies   : Nat, life : Nat, since : Nat, ca : Nat, server : Nat,
   error  : Causes, near : BOOLEAN]

Looping == {"fetching", "describing", "writing"}

\* A credential that dies then, of that life, outlives a request that begins now.
Outlives(dies, life, api, t) ==
  CloudOf(api) \in static \/ dies > t + Lag \/ life <= FetchLag + Lag

\* What RefusalsHaveACause says of one call, of the cluster it is.
CauseOK(C, clu) ==
  /\ C.error = "expired" => CloudOf(C.api) \in static \/ C.life <= FetchLag + Lag
  /\ C.error = "unreadable certificate" => C.near
  /\ C.error = "another cluster" => C.server < clu

\* A call at a time, given what is described, what the cluster is, whether it is the
\* call that blocks the loop, and whether the certificate file is being written.
CloudCallOK(C, t, det, clu, loops, torn) ==
  /\ C.pc \in Looping <=> loops
  /\ C.pc # "over" => C.error = ""
  /\ C.pc \notin {"sent", "over"} => C.ca = 0
  /\ C.pc \in {"fetching", "describing"} => C.since <= t /\ t <= C.since + FetchLag
  /\ C.pc = "writing" => C.since = t /\ C.api = "eks"
  /\ C.pc = "sent" => C.since <= t /\ t <= C.since + Lag
  /\ C.pc \in {"writing", "sent"} => Outlives(C.dies, C.life, C.api, C.since)
  /\ C.pc \in {"fetching", "describing"} => C.api \in {"gcp", "aws", "eks"}
  /\ C.pc = "describing" => det = 0
  /\ C.pc = "writing" \/ (C.pc = "sent" /\ C.api = "eks") => C.server = det /\ det # 0
  /\ C.pc = "sent" /\ C.api = "eks" => C.ca \in {0, det}
  /\ torn /\ loops => C.pc = "writing"
  /\ torn /\ C.pc = "sent" /\ C.api = "eks" => C.near
  /\ CauseOK(C, clu)

\* The inductive invariant.
CredentialsInv ==
  /\ credTime \in Nat /\ details \in Nat /\ cluster \in Nat /\ cluster # 0 /\ details <= cluster
  /\ caFile \in {0, Torn, details} /\ (caFile = Torn => looping # NoCall)
  /\ looping \in CloudCalls \cup {NoCall}
  /\ held \in [Clouds -> CredentialType]
  /\ \A k \in Clouds : held[k].until <= held[k].dies + FetchLag
  /\ cloudCall \in [CloudCalls -> CloudCallType]
  /\ \A c \in CloudCalls :
       CloudCallOK(cloudCall[c], credTime, details, cluster, looping = c, caFile = Torn)

\* The bounds and the lives are numbers, and no call is NoCall.
LEMMA CredentialBounds ==
  /\ Margin \in Nat /\ FetchLag \in Nat /\ Lag \in Nat /\ MaxCredTime \in Nat
  /\ RoleLife \in Nat /\ IrsaLife \in Nat /\ EksLife \in Nat /\ GcpLives \subseteq Nat
  /\ Torn = -1 /\ NoCall \notin CloudCalls
BY CredentialsAssumption DEF NoCall

\* Nothing is held, described or asked.
LEMMA CredentialsStart == CredentialsInit => CredentialsInv
<1> SUFFICES ASSUME CredentialsInit PROVE CredentialsInv
  OBVIOUS
<1>1. /\ NewCloudCall \in CloudCallType /\ NewCloudCall.pc = "new" /\ NewCloudCall.ca = 0
      /\ NewCloudCall.error = ""
  BY DEF NewCloudCall, CloudCallType, Causes
<1>2. /\ NoCredential \in CredentialType /\ NoCredential.until <= NoCredential.dies + FetchLag
  BY CredentialBounds DEF NoCredential, CredentialType
<1>3. /\ credTime = 0 /\ details = 0 /\ caFile = 0 /\ cluster = 1 /\ looping = NoCall
      /\ held = [k \in Clouds |-> NoCredential] /\ cloudCall = [c \in CloudCalls |-> NewCloudCall]
  BY DEF CredentialsInit
<1>4. ASSUME NEW c \in CloudCalls
      PROVE  CloudCallOK(NewCloudCall, 0, 0, 1, looping = c, caFile = Torn)
  BY <1>1, <1>3, CredentialBounds DEF CloudCallOK, CauseOK, Looping
<1>5. caFile # Torn
  BY <1>3, CredentialBounds
<1>6. held \in [Clouds -> CredentialType] /\ \A k \in Clouds : held[k].until <= held[k].dies + FetchLag
  BY <1>2, <1>3
<1>7. /\ cloudCall \in [CloudCalls -> CloudCallType]
      /\ \A c \in CloudCalls :
           CloudCallOK(cloudCall[c], credTime, details, cluster, looping = c, caFile = Torn)
  BY <1>1, <1>3, <1>4
<1>8. /\ credTime \in Nat /\ details \in Nat /\ cluster \in Nat /\ cluster # 0
      /\ details <= cluster
  BY <1>3
<1>9. caFile \in {0, Torn, details} /\ looping \in CloudCalls \cup {NoCall}
  BY <1>3
<1> HIDE DEF CredentialsInit
<1> QED
  BY <1>5, <1>6, <1>7, <1>8, <1>9 DEF CredentialsInv

\* A call that goes on, with the rest as it is: c is the one that may hold the loop,
\* before and after.  The others do not hold it.
LEMMA CloudStep ==
  ASSUME NEW c \in CloudCalls, NEW F \in [CloudCalls -> CloudCallType],
         credTime' = credTime, credTime \in Nat, cluster' = cluster, cluster \in Nat, cluster # 0,
         details' \in Nat, details' <= cluster, UNCHANGED static,
         caFile' \in {0, Torn, details'}, caFile' = Torn => looping' = c,
         looping' \in {NoCall, c}, looping \in {NoCall, c},
         held' \in [Clouds -> CredentialType],
         \A k \in Clouds : held'[k].until <= held'[k].dies + FetchLag,
         cloudCall' = F,
         CloudCallOK(F[c], credTime, details', cluster, looping' = c, caFile' = Torn),
         \A d \in CloudCalls \ {c} :
           CloudCallOK(F[d], credTime, details', cluster, FALSE, caFile' = Torn)
  PROVE  CredentialsInv'
<1>1. \A d \in CloudCalls \ {c} : looping' # d
  BY CredentialBounds
<1>2. ASSUME NEW d \in CloudCalls
      PROVE  CloudCallOK(F[d], credTime, details', cluster, looping' = d, caFile' = Torn)
  <2>1. CASE d = c
    BY <2>1
  <2>2. CASE d # c
    <3>1. looping' = d <=> FALSE
      BY <1>1, <2>2
    <3>2. CloudCallOK(F[d], credTime, details', cluster, FALSE, caFile' = Torn)
      BY <2>2
    <3> QED
      BY ONLY <3>1, <3>2, ZenonT(60) DEF CloudCallOK
  <2> QED
    BY <2>1, <2>2
<1>3. \A d \in CloudCalls :
        CloudCallOK(cloudCall[d], credTime, details, cluster, looping = d, caFile = Torn)'
  <2> TAKE d \in CloudCalls
  <2>1. CloudCallOK(cloudCall'[d], credTime, details', cluster, looping' = d, caFile' = Torn)
    BY <1>2
  <2>2. static' = static /\ credTime' = credTime /\ cluster' = cluster
    OBVIOUS
  <2> QED
    BY ONLY <2>1, <2>2, ZenonT(60) DEF CloudCallOK, CauseOK, Outlives
<1>4. cloudCall' \in [CloudCalls -> CloudCallType] /\ looping' \in CloudCalls \cup {NoCall}
      /\ (caFile' = Torn => looping' # NoCall)
  BY CredentialBounds
<1> QED
  BY <1>3, <1>4 DEF CredentialsInv

\* The same, of a step that changes one call.
LEMMA OneCallStep ==
  ASSUME CredentialsInv, NEW c \in CloudCalls, NEW C \in CloudCallType,
         UNCHANGED <<credTime, cluster, static, details, held>>,
         caFile' \in {0, details}, looping' \in {NoCall, c}, looping \in {NoCall, c},
         cloudCall' = [cloudCall EXCEPT ![c] = C],
         CloudCallOK(C, credTime, details, cluster, looping' = c, FALSE)
  PROVE  CredentialsInv'
<1> DEFINE F == [cloudCall EXCEPT ![c] = C]
<1>1. F \in [CloudCalls -> CloudCallType] /\ F[c] = C
      /\ \A d \in CloudCalls \ {c} : F[d] = cloudCall[d] /\ ~(looping = d)
  BY CredentialBounds DEF CredentialsInv
<1> HIDE DEF F
<1>2. caFile' # Torn /\ details \in Nat
  BY CredentialBounds DEF CredentialsInv
<1>3. ASSUME NEW d \in CloudCalls \ {c}
      PROVE  CloudCallOK(F[d], credTime, details, cluster, FALSE, FALSE)
  <2>1. CloudCallOK(cloudCall[d], credTime, details, cluster, looping = d, caFile = Torn)
    BY DEF CredentialsInv
  <2> QED
    BY <1>1, <2>1 DEF CloudCallOK
<1>4. ASSUME NEW d \in CloudCalls \ {c}
      PROVE  CloudCallOK(F[d], credTime, details', cluster, FALSE, caFile' = Torn)
  <2>1. (caFile' = Torn <=> FALSE) /\ details' = details
    BY <1>2
  <2> QED
    BY <1>3, <2>1 DEF CloudCallOK
<1>5. CloudCallOK(F[c], credTime, details', cluster, looping' = c, caFile' = Torn)
  <2>1. (caFile' = Torn <=> FALSE) /\ details' = details
    BY <1>2
  <2> QED
    BY <1>1, <2>1 DEF CloudCallOK
<1>6. cloudCall' = F
  BY DEF F
<1> QED
  BY <1>1, <1>2, <1>4, <1>5, <1>6, CloudStep DEF CredentialsInv

\* The lags do not go back in time.
LEMMA LagsAreLater ==
  ASSUME NEW t \in Nat
  PROVE  t <= t /\ t <= t + FetchLag /\ t <= t + Lag
<1>1. FetchLag \in Nat /\ Lag \in Nat
  BY CredentialBounds
<1> QED
  BY <1>1

\* A call that goes on, at t, to a fetch or to a description.
LEMMA FetchingCall ==
  ASSUME NEW C, NEW t \in Nat, NEW det, NEW clu,
         C.since = t, C.ca = 0, C.error = "", C.api \in {"gcp", "aws", "eks"},
         C.pc = "fetching" \/ (C.pc = "describing" /\ det = 0)
  PROVE  CloudCallOK(C, t, det, clu, TRUE, FALSE)
<1>1. t <= t /\ t <= t + FetchLag /\ t <= t + Lag
  BY LagsAreLater
<1> QED
  BY <1>1 DEF CloudCallOK, CauseOK, Looping

\* A call whose request is sent at t.
LEMMA SendingCall ==
  ASSUME NEW C, NEW t \in Nat, NEW det, NEW clu,
         C.since = t, C.ca = 0, C.error = "", C.api \in {"gcp", "aws", "eks"},
         C.pc = "sent", C.api # "eks", Outlives(C.dies, C.life, C.api, t)
  PROVE  CloudCallOK(C, t, det, clu, FALSE, FALSE)
<1>1. t <= t /\ t <= t + FetchLag /\ t <= t + Lag
  BY LagsAreLater
<1> QED
  BY <1>1 DEF CloudCallOK, CauseOK, Looping

\* A call that begins to write the certificate at t.
LEMMA WritingCall ==
  ASSUME NEW C, NEW t \in Nat, NEW det, NEW clu,
         C.since = t, C.ca = 0, C.error = "", C.api \in {"gcp", "aws", "eks"},
         C.pc = "writing", C.api = "eks", C.server = det, det # 0,
         Outlives(C.dies, C.life, C.api, t)
  PROVE  CloudCallOK(C, t, det, clu, TRUE, TRUE)
<1>1. t <= t /\ t <= t + FetchLag /\ t <= t + Lag
  BY LagsAreLater
<1> QED
  BY <1>1 DEF CloudCallOK, CauseOK, Looping

\* A token of a credential that outlives a request does so too.
LEMMA TokenOutlives ==
  ASSUME NEW cred, cred.dies \in Nat, credTime \in Nat, EksLife > Lag,
         Outlives(cred.dies, cred.life, "eks", credTime)
  PROVE  /\ EksToken(cred).dies \in Nat
         /\ Outlives(EksToken(cred).dies, cred.life, "eks", credTime)
<1> DEFINE dies == EksToken(cred).dies
<1>1. dies = IF cred.dies < credTime + EksLife THEN cred.dies ELSE credTime + EksLife
  BY DEF EksToken
<1> HIDE DEF dies
<1>2. dies \in Nat /\ (cred.dies > credTime + Lag => dies > credTime + Lag)
  BY <1>1, CredentialBounds
<1>3. Outlives(dies, cred.life, "eks", credTime)
  BY <1>2 DEF Outlives
<1> QED
  BY <1>2, <1>3 DEF dies

\* What another call may hold is so for what is described now, too: while one
\* describes the cluster, none is sent to it.
LEMMA OthersStand ==
  ASSUME CredentialsInv, NEW c \in CloudCalls, looping \in {NoCall, c},
         details = 0 \/ details' = details, NEW d \in CloudCalls \ {c}
  PROVE  CloudCallOK(cloudCall[d], credTime, details', cluster, FALSE, FALSE)
<1>1. CloudCallOK(cloudCall[d], credTime, details, cluster, looping = d, caFile = Torn)
  BY DEF CredentialsInv
<1>2. ~(looping = d)
  <2>1. d # NoCall /\ d # c
    BY CredentialBounds
  <2> QED
    BY <2>1
<1>3. cloudCall[d].pc \notin Looping
  BY <1>1, <1>2 DEF CloudCallOK
<1>4. CASE details = 0
  BY <1>1, <1>2, <1>3, <1>4 DEF CloudCallOK, Looping
<1>5. CASE details' = details
  BY <1>1, <1>2, <1>5 DEF CloudCallOK
<1> QED
  BY <1>4, <1>5

\* A call that goes on while no certificate is being written.
LEMMA GoingStep ==
  ASSUME CredentialsInv, NEW c \in CloudCalls, looping \in {NoCall, c},
         cloudCall[c].pc # "writing",
         UNCHANGED <<credTime, cluster, static, caFile>>,
         details' \in Nat, details' <= cluster, details = 0 \/ details' = details,
         held' \in [Clouds -> CredentialType],
         \A k \in Clouds : held'[k].until <= held'[k].dies + FetchLag,
         NEW C \in CloudCallType, cloudCall' = [cloudCall EXCEPT ![c] = C],
         looping' \in {NoCall, c},
         CloudCallOK(C, credTime, details', cluster, looping' = c, FALSE)
  PROVE  CredentialsInv'
<1>1. /\ credTime \in Nat /\ cluster \in Nat /\ cluster # 0 /\ details \in Nat
      /\ cloudCall \in [CloudCalls -> CloudCallType] /\ caFile \in {0, Torn, details}
  BY DEF CredentialsInv
<1>2. caFile # Torn
  BY DEF CredentialsInv, CloudCallOK
<1> DEFINE F == [cloudCall EXCEPT ![c] = C]
<1>3. F \in [CloudCalls -> CloudCallType] /\ F[c] = C /\ cloudCall' = F
      /\ \A d \in CloudCalls \ {c} : F[d] = cloudCall[d]
  BY <1>1
<1> HIDE DEF F
<1>4. (caFile' = Torn <=> FALSE) /\ caFile' \in {0, Torn, details'}
  BY <1>1, <1>2
<1>5. CloudCallOK(F[c], credTime, details', cluster, looping' = c, caFile' = Torn)
  BY <1>3, <1>4 DEF CloudCallOK
<1>6. ASSUME NEW d \in CloudCalls \ {c}
      PROVE  CloudCallOK(F[d], credTime, details', cluster, FALSE, caFile' = Torn)
  <2>1. CloudCallOK(cloudCall[d], credTime, details', cluster, FALSE, FALSE)
    BY OthersStand
  <2>2. F[d] = cloudCall[d] /\ (caFile' = Torn <=> FALSE)
    BY <1>3, <1>4
  <2> QED
    BY <2>1, <2>2 DEF CloudCallOK
<1> QED
  BY <1>1, <1>3, <1>4, <1>5, <1>6, CloudStep

\* With a credential that outlives a request, a call is sent, or its cluster is
\* described, or the certificate is written over what others may be reading.
LEMMA EquippedStep ==
  ASSUME CredentialsInv, NEW c \in CloudCalls, looping \in {NoCall, c},
         cloudCall[c].pc # "writing",
         NEW cc \in CloudCallType, cc.ca = 0, cc.error = "",
         cc.api \in {"gcp", "aws", "eks"},
         UNCHANGED <<credTime, cluster, static>>,
         NEW known, details' = known, known \in Nat, known <= cluster, details = 0 \/ details' = details,
         held' \in [Clouds -> CredentialType],
         \A k \in Clouds : held'[k].until <= held'[k].dies + FetchLag,
         NEW cred, cred.dies \in Nat, cred.life \in Nat,
         Outlives(cred.dies, cred.life, cc.api, credTime),
         EksLife > Lag,
         Equipped(c, cc, cred, known)
  PROVE  CredentialsInv'
<1>1. /\ credTime \in Nat /\ cluster \in Nat /\ cluster # 0 /\ details \in Nat
      /\ cloudCall \in [CloudCalls -> CloudCallType]
  BY DEF CredentialsInv
<1>6. CASE cc.api # "eks"
  <2> DEFINE C == [cc EXCEPT !.dies = cred.dies, !.life = cred.life, !.pc = "sent",
                               !.since = credTime]
  <2>1. cloudCall' = [cloudCall EXCEPT ![c] = C] /\ UNCHANGED caFile /\ looping' = NoCall
    BY <1>6 DEF Equipped, Goes
  <2>2. /\ C \in CloudCallType /\ C.pc = "sent" /\ C.since = credTime /\ C.dies = cred.dies
        /\ C.life = cred.life /\ C.api = cc.api /\ C.ca = 0 /\ C.error = ""
    BY <1>1 DEF CloudCallType
  <2> HIDE DEF C
  <2>3. looping' = c <=> FALSE
    BY <2>1, CredentialBounds
  <2>4. CloudCallOK(C, credTime, details', cluster, looping' = c, FALSE)
    <3>1. Outlives(C.dies, C.life, C.api, credTime)
      BY <2>2
    <3>2. CloudCallOK(C, credTime, details', cluster, FALSE, FALSE)
      BY <1>1, <1>6, <2>2, <3>1, SendingCall
    <3> QED
      BY <2>3, <3>2 DEF CloudCallOK
  <2> QED
    BY <2>1, <2>2, <2>4, GoingStep
<1>7. CASE cc.api = "eks" /\ details' = 0
  <2> DEFINE C == [cc EXCEPT !.pc = "describing", !.since = credTime]
  <2>1. cloudCall' = [cloudCall EXCEPT ![c] = C] /\ UNCHANGED caFile /\ looping' = c
    BY <1>7 DEF Equipped, Goes
  <2>2. /\ C \in CloudCallType /\ C.pc = "describing" /\ C.since = credTime
        /\ C.api = cc.api /\ C.ca = 0 /\ C.error = ""
    BY <1>1 DEF CloudCallType
  <2> HIDE DEF C
  <2>3. CloudCallOK(C, credTime, details', cluster, looping' = c, FALSE)
    <3>1. CloudCallOK(C, credTime, details', cluster, TRUE, FALSE)
      BY <1>1, <1>7, <2>2, FetchingCall
    <3> QED
      BY <2>1, <3>1 DEF CloudCallOK
  <2> QED
    BY <2>1, <2>2, <2>3, GoingStep
<1>8. CASE cc.api = "eks" /\ details' # 0
  <2> DEFINE dies == EksToken(cred).dies
             C == [cc EXCEPT !.pc = "writing", !.since = credTime, !.life = cred.life,
                               !.dies = dies, !.server = details']
             N(d) == [cloudCall[d] EXCEPT !.near = @ \/ (cloudCall[d].pc = "sent"
                                                         /\ cloudCall[d].api = "eks")]
             F == [d \in CloudCalls |-> IF d = c THEN C ELSE N(d)]
  <2>1. looping' = c /\ caFile' = Torn /\ cloudCall' = F
    BY <1>8 DEF Equipped
  <2>2. Outlives(cred.dies, cred.life, "eks", credTime)
    BY <1>8
  <2>3. dies \in Nat
    BY <1>1, <2>2, TokenOutlives
  <2>4. Outlives(dies, cred.life, "eks", credTime)
    BY <1>1, <2>2, TokenOutlives
  <2> HIDE DEF dies
  <2>5. /\ C \in CloudCallType /\ C.pc = "writing" /\ C.since = credTime /\ C.dies = dies
        /\ C.life = cred.life /\ C.api = "eks" /\ C.ca = 0 /\ C.error = ""
        /\ C.server = details'
    BY <1>1, <1>8, <2>3 DEF CloudCallType
  <2>6. ASSUME NEW d \in CloudCalls \ {c}
        PROVE  N(d) \in CloudCallType
               /\ CloudCallOK(N(d), credTime, details', cluster, FALSE, TRUE)
    <3> DEFINE x == cloudCall[d]
               near == x.near \/ (x.pc = "sent" /\ x.api = "eks")
               n == [x EXCEPT !.near = near]
    <3>1. x \in CloudCallType /\ near \in BOOLEAN /\ N(d) = n
      BY <1>1 DEF CloudCallType
    <3>2. CloudCallOK(x, credTime, details', cluster, FALSE, FALSE)
      BY OthersStand
    <3>3. (x.near => near) /\ (x.pc = "sent" /\ x.api = "eks" => near)
      OBVIOUS
    <3> HIDE DEF x, near, N
    <3>4. /\ n \in CloudCallType /\ n.pc = x.pc /\ n.api = x.api /\ n.dies = x.dies
          /\ n.life = x.life /\ n.since = x.since /\ n.ca = x.ca /\ n.server = x.server
          /\ n.error = x.error /\ n.near = near
      BY <3>1 DEF CloudCallType
    <3> HIDE DEF n
    <3>5. CloudCallOK(n, credTime, details', cluster, FALSE, TRUE)
      BY <3>2, <3>3, <3>4 DEF CloudCallOK, CauseOK
    <3> QED
      BY <3>1, <3>4, <3>5
  <2> HIDE DEF N, C
  <2>7. CloudCallOK(C, credTime, details', cluster, TRUE, TRUE)
    BY <1>1, <1>8, <2>4, <2>5, WritingCall
  <2>8. F \in [CloudCalls -> CloudCallType] /\ F[c] = C
        /\ \A d \in CloudCalls \ {c} : F[d] = N(d)
    BY <2>5, <2>6
  <2> HIDE DEF F
  <2>9. CloudCallOK(F[c], credTime, details', cluster, looping' = c, caFile' = Torn)
    BY <2>1, <2>7, <2>8 DEF CloudCallOK
  <2>10. \A d \in CloudCalls \ {c} :
           CloudCallOK(F[d], credTime, details', cluster, FALSE, caFile' = Torn)
    BY <2>1, <2>6, <2>8 DEF CloudCallOK
  <2> QED
    BY <1>1, <2>1, <2>8, <2>9, <2>10, CloudStep
<1> QED
  BY <1>6, <1>7, <1>8

\* What is taken out of the cache with the margin to spare outlives a request.
LEMMA KeptOutlives ==
  ASSUME NEW h \in CredentialType, NEW t \in Nat, NEW api,
         Margin >= FetchLag + Lag, h.until <= h.dies + FetchLag, h.until > t + Margin
  PROVE  Outlives(h.dies, h.life, api, t)
<1>1. h.dies \in Nat /\ h.until \in Nat
  BY DEF CredentialType
<1>2. h.dies > t + Lag
  BY <1>1, CredentialBounds
<1> QED
  BY <1>2 DEF Outlives

\* The credential of the environment, the one that is kept, or a fetch.
LEMMA EquipsStep ==
  ASSUME CredentialsInv, NEW c \in CloudCalls, looping \in {NoCall, c},
         cloudCall[c].pc # "writing",
         NEW cc \in CloudCallType, cc.ca = 0, cc.error = "",
         cc.api \in {"gcp", "aws", "eks"},
         UNCHANGED <<credTime, cluster, static, held>>,
         NEW known, details' = known, known \in Nat, known <= cluster, details = 0 \/ details' = details,
         Margin >= FetchLag + Lag, EksLife > Lag,
         Equips(c, cc, known)
  PROVE  CredentialsInv'
<1> DEFINE cloud == CloudOf(cc.api)
<1>1. /\ cloud \in Clouds /\ credTime \in Nat
      /\ held' \in [Clouds -> CredentialType] /\ held[cloud] \in CredentialType
      /\ \A k \in Clouds : held'[k].until <= held'[k].dies + FetchLag
      /\ held[cloud].until <= held[cloud].dies + FetchLag
  BY DEF CredentialsInv, CloudOf, Clouds
<1>2. CASE cloud \in static
  <2> DEFINE cred == [dies |-> MaxCredTime, life |-> MaxCredTime]
  <2>1. Equipped(c, cc, cred, known)
    BY <1>2 DEF Equips
  <2>2. cred.dies \in Nat /\ cred.life \in Nat /\ Outlives(cred.dies, cred.life, cc.api, credTime)
    BY <1>2, CredentialBounds DEF Outlives
  <2> HIDE DEF cred
  <2> QED
    BY <1>1, <2>1, <2>2, EquippedStep
<1>3. CASE cloud \notin static /\ Kept(cloud)
  <2> DEFINE cred == held[cloud]
  <2>1. Equipped(c, cc, cred, known)
    BY <1>3 DEF Equips
  <2>2. cred.dies \in Nat /\ cred.life \in Nat
    BY <1>1 DEF CredentialType
  <2>3. Outlives(cred.dies, cred.life, cc.api, credTime)
    BY <1>1, <1>3, KeptOutlives DEF Kept
  <2> HIDE DEF cred
  <2> QED
    BY <1>1, <2>1, <2>2, <2>3, EquippedStep
<1>4. CASE cloud \notin static /\ ~Kept(cloud)
  <2> DEFINE C == [cc EXCEPT !.pc = "fetching", !.since = credTime]
  <2>1. cloudCall' = [cloudCall EXCEPT ![c] = C] /\ UNCHANGED caFile /\ looping' = c
    BY <1>4 DEF Equips, Goes
  <2>2. /\ C \in CloudCallType /\ C.pc = "fetching" /\ C.since = credTime
        /\ C.api = cc.api /\ C.ca = 0 /\ C.error = ""
    BY <1>1 DEF CloudCallType
  <2> HIDE DEF C
  <2>3. CloudCallOK(C, credTime, details', cluster, looping' = c, FALSE)
    <3>1. CloudCallOK(C, credTime, details', cluster, TRUE, FALSE)
      BY <1>1, <2>2, FetchingCall
    <3> QED
      BY <2>1, <3>1 DEF CloudCallOK
  <2> QED
    BY <1>1, <2>1, <2>2, <2>3, GoingStep
<1> QED
  BY <1>2, <1>3, <1>4

\* What the code's numbers say of the bounds: the margin covers a fetch and a
\* request, and what is given lasts as long as it is kept.
Timely == Margin >= FetchLag + Lag /\ RoleLife >= IrsaLife /\ EksLife > Lag

\* A call begins with the credential there is.
LEMMA BeginCloudCallPreserves ==
  ASSUME CredentialsInv, Timely, NEW c \in CloudCalls, BeginCloudCall(c)
  PROVE  CredentialsInv'
<1>1. PICK api \in {"gcp", "aws", "eks"} : Equips(c, [cloudCall[c] EXCEPT !.api = api], details)
  BY DEF BeginCloudCall
<1> DEFINE cc == [cloudCall[c] EXCEPT !.api = api]
<1>2. /\ cloudCall[c] \in CloudCallType /\ cloudCall[c].pc = "new" /\ cloudCall[c].ca = 0
      /\ cloudCall[c].error = "" /\ looping = NoCall
  BY DEF CredentialsInv, CloudCallOK, BeginCloudCall
<1>3. cc \in CloudCallType /\ cc.ca = 0 /\ cc.error = "" /\ cc.api = api
  BY <1>2 DEF CloudCallType
<1>4. Equips(c, cc, details)
  BY <1>1
<1> HIDE DEF cc
<1>5. /\ UNCHANGED <<credTime, cluster, static, held>> /\ details' = details
      /\ details \in Nat /\ details <= cluster
  BY DEF BeginCloudCall, CredentialsInv
<1> QED
  BY <1>2, <1>3, <1>4, <1>5, EquipsStep DEF Timely

\* What the server gave outlives the request it was asked for, if it was given for
\* long enough at all.
LEMMA CredentialFetchedPreserves ==
  ASSUME CredentialsInv, Timely, NEW c \in CloudCalls, CredentialFetched(c)
  PROVE  CredentialsInv'
<1> DEFINE cc == cloudCall[c]
           cloud == CloudOf(cc.api)
<1>1. PICK given \in cc.since..credTime, life \in IF cloud = "gcp" THEN GcpLives ELSE {RoleLife} :
        LET cred == [dies |-> given + life, life |-> life,
                     until |-> credTime + IF cloud = "gcp" THEN life ELSE IrsaLife]
        IN held' = [held EXCEPT ![cloud] = cred] /\ Equipped(c, cc, cred, details)
  BY DEF CredentialFetched
<1> DEFINE until == credTime + IF cloud = "gcp" THEN life ELSE IrsaLife
           cred == [dies |-> given + life, life |-> life, until |-> until]
<1>2. held' = [held EXCEPT ![cloud] = cred] /\ Equipped(c, cc, cred, details)
  BY <1>1
<1>3. /\ cc \in CloudCallType /\ cc.pc = "fetching" /\ cloud \in Clouds
      /\ CloudCallOK(cc, credTime, details, cluster, looping = c, caFile = Torn)
      /\ credTime \in Nat /\ details \in Nat /\ details <= cluster
      /\ held \in [Clouds -> CredentialType]
      /\ \A k \in Clouds : held[k].until <= held[k].dies + FetchLag
  BY DEF CredentialFetched, CredentialsInv, CloudOf, Clouds
<1>4. /\ looping = c /\ cc.ca = 0 /\ cc.error = "" /\ cc.api \in {"gcp", "aws", "eks"}
      /\ cc.since <= credTime /\ credTime <= cc.since + FetchLag
  BY <1>3 DEF CloudCallOK, Looping
<1>5. cc.since \in Nat /\ life \in Nat
  BY <1>3, CredentialBounds DEF CloudCallType
<1>6. given \in Nat /\ given <= credTime /\ credTime <= given + FetchLag
  <2> DEFINE since == cc.since
  <2>1. since \in Nat /\ credTime \in Nat /\ FetchLag \in Nat /\ credTime <= since + FetchLag
    BY <1>3, <1>4, <1>5, CredentialBounds
  <2>2. given \in since..credTime
    BY <1>1
  <2> HIDE DEF since
  <2> QED
    BY <2>1, <2>2
<1>7. until \in Nat /\ until <= given + life + FetchLag
  <2>1. CASE cloud = "gcp"
    BY <1>3, <1>5, <1>6, <2>1, CredentialBounds
  <2>2. CASE cloud # "gcp"
    <3>1. life = RoleLife /\ until = credTime + IrsaLife /\ RoleLife >= IrsaLife
      BY <1>1, <2>2 DEF Timely
    <3> QED
      BY <1>3, <1>6, <3>1, CredentialBounds
  <2> QED
    BY <2>1, <2>2
<1> HIDE DEF until
<1>8. /\ cred \in CredentialType /\ cred.dies = given + life /\ cred.life = life
      /\ cred.until <= cred.dies + FetchLag
  BY <1>5, <1>6, <1>7 DEF CredentialType
<1> HIDE DEF cred
<1>9. cred.dies \in Nat /\ cred.life \in Nat
  BY <1>8 DEF CredentialType
<1>10. Outlives(cred.dies, cred.life, cc.api, credTime)
  BY <1>3, <1>5, <1>6, <1>8, CredentialBounds DEF Outlives
<1>11. held' \in [Clouds -> CredentialType]
       /\ \A k \in Clouds : held'[k].until <= held'[k].dies + FetchLag
  BY <1>2, <1>3, <1>8
<1>12. UNCHANGED <<credTime, cluster, static>> /\ details' = details
  BY DEF CredentialFetched
<1> HIDE DEF cc
<1>13. cloudCall[c].pc # "writing"
  BY <1>3 DEF cc
<1> QED
  BY <1>2, <1>3, <1>4, <1>9, <1>10, <1>11, <1>12, <1>13, EquippedStep DEF Timely

\* The cluster as it is, for this call and for those to come.
LEMMA DescribedPreserves ==
  ASSUME CredentialsInv, Timely, NEW c \in CloudCalls, Described(c)
  PROVE  CredentialsInv'
<1>1. /\ cloudCall[c] \in CloudCallType /\ cloudCall[c].pc = "describing"
      /\ CloudCallOK(cloudCall[c], credTime, details, cluster, looping = c, caFile = Torn)
      /\ cluster \in Nat
  BY DEF Described, CredentialsInv
<1>2. /\ looping = c /\ cloudCall[c].ca = 0 /\ cloudCall[c].error = "" /\ details = 0
      /\ cloudCall[c].api \in {"gcp", "aws", "eks"}
  BY <1>1 DEF CloudCallOK, Looping
<1>3. details' = cluster /\ Equips(c, cloudCall[c], cluster) /\ cluster <= cluster
      /\ UNCHANGED <<credTime, cluster, static, held>>
  BY <1>1 DEF Described
<1> QED
  BY <1>1, <1>2, <1>3, EquipsStep DEF Timely

\* A call whose request is on its way, and that holds no loop, goes on.
LEMMA QuietCallStep ==
  ASSUME CredentialsInv, NEW c \in CloudCalls, cloudCall[c].pc = "sent",
         UNCHANGED <<credTime, static, held, details, caFile, cluster, looping>>,
         NEW C \in CloudCallType, cloudCall' = [cloudCall EXCEPT ![c] = C],
         CloudCallOK(C, credTime, details, cluster, FALSE, caFile = Torn)
  PROVE  CredentialsInv'
<1>1. /\ cloudCall \in [CloudCalls -> CloudCallType]
      /\ CloudCallOK(cloudCall[c], credTime, details, cluster, looping = c, caFile = Torn)
  BY DEF CredentialsInv
<1>2. looping = c <=> FALSE
  BY <1>1 DEF CloudCallOK, Looping
<1> DEFINE F == [cloudCall EXCEPT ![c] = C]
<1>3. F \in [CloudCalls -> CloudCallType] /\ F[c] = C /\ cloudCall' = F
      /\ \A d \in CloudCalls \ {c} : F[d] = cloudCall[d]
  BY <1>1
<1> HIDE DEF F
<1>4. \A d \in CloudCalls :
        CloudCallOK(F[d], credTime, details, cluster, looping = d, caFile = Torn)
  <2> TAKE d \in CloudCalls
  <2>1. CASE d = c
    BY <1>2, <1>3, <2>1 DEF CloudCallOK
  <2>2. CASE d # c
    <3>1. CloudCallOK(cloudCall[d], credTime, details, cluster, looping = d, caFile = Torn)
      BY DEF CredentialsInv
    <3>2. F[d] = cloudCall[d]
      BY <1>3, <2>2
    <3> QED
      BY <3>1, <3>2
  <2> QED
    BY <2>1, <2>2
<1>5. \A d \in CloudCalls :
        CloudCallOK(cloudCall[d], credTime, details, cluster, looping = d, caFile = Torn)'
  <2>1. \A d \in CloudCalls :
          CloudCallOK(cloudCall'[d], credTime', details', cluster', looping' = d, caFile' = Torn)
    BY <1>3, <1>4
  <2> QED
    BY <2>1 DEF CloudCallOK, CauseOK, Outlives
<1> QED
  BY <1>3, <1>5 DEF CredentialsInv

\* What is left of a call that is over.
IsOver(C, c, error) ==
  /\ C.pc = "over" /\ C.error = error
  /\ error # "" => /\ C.api = cloudCall[c].api /\ C.life = cloudCall[c].life
                   /\ C.server = cloudCall[c].server /\ C.near = cloudCall[c].near

\* There is such a record, and it takes the place of the call's.
LEMMA OverCall ==
  ASSUME NEW c \in CloudCalls, cloudCall[c] \in CloudCallType, NEW error \in Causes,
         CallOver(c, error)
  PROVE  \E C \in CloudCallType :
           cloudCall' = [cloudCall EXCEPT ![c] = C] /\ IsOver(C, c, error)
<1> DEFINE cc == cloudCall[c]
           past == IF error = "" THEN NewCloudCall
                   ELSE [NewCloudCall EXCEPT !.api = cc.api, !.life = cc.life,
                                             !.server = cc.server, !.near = cc.near]
           C == [past EXCEPT !.pc = "over", !.error = error]
<1>1. cloudCall' = [cloudCall EXCEPT ![c] = C]
  BY Zenon DEF CallOver
<1>2. C \in CloudCallType /\ C.pc = "over" /\ C.error = error
  <2>1. CASE error = ""
    BY <2>1 DEF NewCloudCall, CloudCallType, Causes
  <2>2. CASE error # ""
    BY <2>2 DEF NewCloudCall, CloudCallType, Causes
  <2> QED
    BY <2>1, <2>2
<1>3. error # "" => /\ C.api = cc.api /\ C.life = cc.life
                    /\ C.server = cc.server /\ C.near = cc.near
  BY DEF NewCloudCall
<1>4. IsOver(C, c, error)
  BY <1>2, <1>3 DEF IsOver
<1> HIDE DEF C
<1> QED
  BY <1>1, <1>2, <1>4

\* A call that is over is as it should be if its failure has a cause.
LEMMA OverIsOK ==
  ASSUME NEW C, NEW t, NEW det, NEW clu, NEW torn, C.pc = "over", CauseOK(C, clu)
  PROVE  CloudCallOK(C, t, det, clu, FALSE, torn)
BY DEF CloudCallOK, Looping

\* A fetch that goes wrong is over, and leaves the loop to others.
LEMMA FetchGoesWrongPreserves ==
  ASSUME CredentialsInv, NEW c \in CloudCalls, FetchGoesWrong(c)
  PROVE  CredentialsInv'
<1>1. /\ cloudCall[c] \in CloudCallType /\ cloudCall[c].pc \in {"fetching", "describing"}
      /\ CloudCallOK(cloudCall[c], credTime, details, cluster, looping = c, caFile = Torn)
      /\ caFile \in {0, Torn, details}
  BY DEF FetchGoesWrong, CredentialsInv
<1>2. looping = c /\ caFile # Torn
  BY <1>1 DEF CloudCallOK, Looping
<1>3. /\ CallOver(c, "not fetched") /\ looping' = NoCall
      /\ UNCHANGED <<credTime, static, held, details, caFile, cluster>>
  BY DEF FetchGoesWrong
<1>4. PICK C \in CloudCallType :
        cloudCall' = [cloudCall EXCEPT ![c] = C] /\ IsOver(C, c, "not fetched")
  <2>1. "not fetched" \in Causes
    BY DEF Causes
  <2> QED
    BY <1>1, <1>3, <2>1, OverCall
<1>5. CloudCallOK(C, credTime, details, cluster, FALSE, FALSE)
  BY <1>4, OverIsOK DEF CauseOK, IsOver
<1>6. CloudCallOK(C, credTime, details, cluster, looping' = c, FALSE)
  <2>1. looping' = c <=> FALSE
    BY <1>3, CredentialBounds
  <2> QED
    BY <1>5, <2>1 DEF CloudCallOK
<1> QED
  BY <1>1, <1>2, <1>3, <1>4, <1>6, OneCallStep

\* The certificate is the described cluster's, for this call as for those whose
\* request is on its way.
LEMMA CertificateWrittenPreserves ==
  ASSUME CredentialsInv, NEW c \in CloudCalls, CertificateWritten(c)
  PROVE  CredentialsInv'
<1>1. /\ cloudCall[c] \in CloudCallType /\ cloudCall[c].pc = "writing"
      /\ CloudCallOK(cloudCall[c], credTime, details, cluster, looping = c, caFile = Torn)
      /\ credTime \in Nat
  BY DEF CertificateWritten, CredentialsInv
<1> DEFINE cc == cloudCall[c]
           C == [cc EXCEPT !.pc = "sent", !.since = credTime]
<1>2. /\ looping = c /\ cc.server = details /\ details # 0 /\ cc.api = "eks"
      /\ cc.ca = 0 /\ cc.error = "" /\ cc.since = credTime
      /\ Outlives(cc.dies, cc.life, cc.api, credTime)
  BY <1>1 DEF CloudCallOK, Looping
<1>3. /\ caFile' = details /\ looping' = NoCall /\ cloudCall' = [cloudCall EXCEPT ![c] = C]
      /\ UNCHANGED <<credTime, static, held, details, cluster>>
  BY <1>2 DEF CertificateWritten, Goes
<1>4. /\ C \in CloudCallType /\ C.pc = "sent" /\ C.since = credTime /\ C.dies = cc.dies
      /\ C.life = cc.life /\ C.api = "eks" /\ C.ca = 0 /\ C.error = ""
      /\ C.server = details
  BY <1>1, <1>2 DEF CloudCallType
<1> HIDE DEF C
<1>5. Outlives(C.dies, C.life, C.api, C.since)
  BY <1>2, <1>4
<1>6. credTime <= credTime /\ credTime <= credTime + Lag
  BY <1>1, LagsAreLater
<1>7. CloudCallOK(C, credTime, details, cluster, FALSE, FALSE)
  BY <1>2, <1>4, <1>5, <1>6 DEF CloudCallOK, CauseOK, Looping
<1>8. CloudCallOK(C, credTime, details, cluster, looping' = c, FALSE)
  <2>1. looping' = c <=> FALSE
    BY <1>3, CredentialBounds
  <2> QED
    BY <1>7, <2>1 DEF CloudCallOK
<1> QED
  BY <1>2, <1>3, <1>4, <1>8, OneCallStep

\* What kubectl reads is the described cluster's, or what is being written near it.
LEMMA KubectlStartsPreserves ==
  ASSUME CredentialsInv, NEW c \in CloudCalls, KubectlStarts(c)
  PROVE  CredentialsInv'
<1>1. /\ cloudCall[c] \in CloudCallType /\ cloudCall[c].pc = "sent" /\ cloudCall[c].api = "eks"
      /\ CloudCallOK(cloudCall[c], credTime, details, cluster, looping = c, caFile = Torn)
      /\ caFile \in {0, Torn, details} /\ details \in Nat
      /\ UNCHANGED <<credTime, static, held, details, caFile, cluster, looping>>
  BY DEF KubectlStarts, CredentialsInv
<1>2. CASE caFile = Torn
  <2>1. CallOver(c, "unreadable certificate")
    BY <1>2 DEF KubectlStarts
  <2>2. PICK C \in CloudCallType :
          cloudCall' = [cloudCall EXCEPT ![c] = C] /\ IsOver(C, c, "unreadable certificate")
    <3>1. "unreadable certificate" \in Causes
      BY DEF Causes
    <3> QED
      BY <1>1, <2>1, <3>1, OverCall
  <2>3. cloudCall[c].near
    BY <1>1, <1>2 DEF CloudCallOK
  <2>4. C.pc = "over" /\ CauseOK(C, cluster)
    BY <2>2, <2>3 DEF CauseOK, IsOver
  <2>5. CloudCallOK(C, credTime, details, cluster, FALSE, caFile = Torn)
    BY <2>4, OverIsOK
  <2> QED
    BY <1>1, <2>2, <2>5, QuietCallStep
<1>3. CASE caFile # Torn
  <2> DEFINE cc == cloudCall[c]
             C == [cc EXCEPT !.ca = caFile]
  <2>1. cloudCall' = [cloudCall EXCEPT ![c] = C]
    BY <1>3 DEF KubectlStarts
  <2>2. caFile \in {0, details} /\ caFile \in Nat
    BY <1>1, <1>3
  <2>3. /\ C \in CloudCallType /\ C.pc = "sent" /\ C.since = cc.since /\ C.dies = cc.dies
        /\ C.life = cc.life /\ C.api = cc.api /\ C.ca = caFile /\ C.error = cc.error
        /\ C.server = cc.server /\ C.near = cc.near
    BY <1>1, <2>2 DEF CloudCallType
  <2> HIDE DEF C
  <2>4. ~(looping = c)
    BY <1>1 DEF CloudCallOK, Looping
  <2>5. CloudCallOK(C, credTime, details, cluster, FALSE, caFile = Torn)
    BY <1>1, <2>2, <2>3, <2>4 DEF CloudCallOK, CauseOK
  <2> QED
    BY <1>1, <2>1, <2>3, <2>5, QuietCallStep
<1> QED
  BY <1>2, <1>3

\* A request in time is only refused for one of the causes.
LEMMA RequestReadPreserves ==
  ASSUME CredentialsInv, NEW c \in CloudCalls, RequestRead(c)
  PROVE  CredentialsInv'
<1> DEFINE cc == cloudCall[c]
<1>1. /\ cc \in CloudCallType /\ cc.pc = "sent" /\ (cc.api = "eks" => cc.ca # 0)
      /\ CloudCallOK(cc, credTime, details, cluster, looping = c, caFile = Torn)
      /\ credTime \in Nat /\ details \in Nat /\ cluster \in Nat /\ details <= cluster
      /\ UNCHANGED <<credTime, static, held, details, caFile, cluster, looping>>
  BY DEF RequestRead, CredentialsInv
<1>2. SUFFICES ASSUME NEW error \in Causes, CallOver(c, error),
                      error = "expired" => CloudOf(cc.api) \in static \/ cc.dies <= credTime,
                      error = "another cluster" =>
                        cc.api = "eks" /\ {cc.ca, cc.server} # {cluster},
                      error # "unreadable certificate"
               PROVE  CredentialsInv'
  <2>1. CASE cc.api = "eks" /\ {cc.ca, cc.server} # {cluster}
    <3>1. CallOver(c, "another cluster")
      BY <2>1 DEF RequestRead
    <3> QED
      BY <1>2, <2>1, <3>1 DEF Causes
  <2>2. CASE ~(cc.api = "eks" /\ {cc.ca, cc.server} # {cluster})
    <3> DEFINE out == IF CloudOf(cc.api) \in static THEN BOOLEAN ELSE {cc.dies <= credTime}
    <3>1. PICK expired \in out : CallOver(c, IF expired THEN "expired" ELSE "")
      BY <2>2 DEF RequestRead
    <3>2. CASE expired
      <4>1. CallOver(c, "expired") /\ (CloudOf(cc.api) \in static \/ cc.dies <= credTime)
        BY <3>1, <3>2
      <4> QED
        BY <1>2, <4>1 DEF Causes
    <3>3. CASE ~expired
      <4>1. CallOver(c, "")
        BY <3>1, <3>3
      <4> QED
        BY <1>2, <4>1 DEF Causes
    <3> QED
      BY <3>2, <3>3
  <2> QED
    BY <2>1, <2>2
<1> HIDE DEF cc
<1>8. PICK C \in CloudCallType :
        cloudCall' = [cloudCall EXCEPT ![c] = C] /\ IsOver(C, c, error)
  BY <1>1, <1>2, OverCall DEF cc
<1>3. /\ C.pc = "over" /\ C.error = error
      /\ error # "" => C.api = cc.api /\ C.life = cc.life /\ C.server = cc.server
  BY <1>8 DEF IsOver, cc
<1>4. ASSUME error = "expired"
      PROVE  CloudOf(C.api) \in static \/ C.life <= FetchLag + Lag
  <2>1. C.api = cc.api /\ C.life = cc.life
    BY <1>3, <1>4
  <2>2. /\ Outlives(cc.dies, cc.life, cc.api, cc.since)
        /\ credTime <= cc.since + Lag
    BY <1>1 DEF CloudCallOK
  <2>3. cc.dies > cc.since + Lag => ~(cc.dies <= credTime)
    <3> DEFINE dies == cc.dies
               since == cc.since
    <3>1. dies \in Nat /\ since \in Nat /\ credTime \in Nat /\ Lag \in Nat
          /\ credTime <= since + Lag
      BY <1>1, <2>2, CredentialBounds DEF CloudCallType
    <3> HIDE DEF dies, since
    <3>2. dies > since + Lag => ~(dies <= credTime)
      BY <3>1
    <3> QED
      BY <3>2 DEF dies, since
  <2> QED
    BY <1>2, <1>4, <2>1, <2>2, <2>3 DEF Outlives
<1>5. ASSUME error = "another cluster"
      PROVE  C.server < cluster
  <2>1. cc.server = details /\ cc.ca \in {0, details} /\ cc.ca # 0
    BY <1>1, <1>2, <1>5 DEF CloudCallOK
  <2>2. details # cluster
    BY <1>2, <1>5, <2>1
  <2>3. details < cluster
    BY <1>1, <2>2
  <2> QED
    BY <1>3, <1>5, <2>1, <2>3
<1>6. CauseOK(C, cluster)
  BY <1>2, <1>3, <1>4, <1>5 DEF CauseOK
<1>7. CloudCallOK(C, credTime, details, cluster, FALSE, caFile = Torn)
  BY <1>3, <1>6, OverIsOK
<1> QED
  BY <1>1, <1>7, <1>8, QuietCallStep DEF cc

\* A request that is not answered says nothing of its credential.
LEMMA UnreachablePreserves ==
  ASSUME CredentialsInv, NEW c \in CloudCalls, Unreachable(c)
  PROVE  CredentialsInv'
<1>1. /\ cloudCall[c] \in CloudCallType /\ cloudCall[c].pc = "sent"
      /\ UNCHANGED <<credTime, static, held, details, caFile, cluster, looping>>
      /\ CallOver(c, "unreachable")
  BY DEF Unreachable, CredentialsInv
<1>2. PICK C \in CloudCallType :
        cloudCall' = [cloudCall EXCEPT ![c] = C] /\ IsOver(C, c, "unreachable")
  <2>1. "unreachable" \in Causes
    BY DEF Causes
  <2> QED
    BY <1>1, <2>1, OverCall
<1>3. CloudCallOK(C, credTime, details, cluster, FALSE, caFile = Torn)
  BY <1>2, OverIsOK DEF CauseOK, IsOver
<1> QED
  BY <1>1, <1>2, <1>3, QuietCallStep

\* What was not the cluster is not the one that takes its place, either.
LEMMA ClusterReplacedPreserves ==
  ASSUME CredentialsInv, ClusterReplaced
  PROVE  CredentialsInv'
<1>1. /\ cluster' = cluster + 1 /\ cluster \in Nat /\ details \in Nat /\ details <= cluster
      /\ UNCHANGED <<credTime, static, held, details, caFile, looping, cloudCall>>
  BY DEF ClusterReplaced, CredentialsInv
<1>2. cluster' \in Nat /\ cluster' # 0 /\ details <= cluster'
  BY <1>1
<1>3. ASSUME NEW d \in CloudCalls
      PROVE  CloudCallOK(cloudCall[d], credTime, details, cluster', looping = d, caFile = Torn)
  <2>1. /\ cloudCall[d] \in CloudCallType
        /\ CloudCallOK(cloudCall[d], credTime, details, cluster, looping = d, caFile = Torn)
    BY DEF CredentialsInv
  <2>2. CauseOK(cloudCall[d], cluster')
    <3> DEFINE of == cloudCall[d].server
    <3>1. of \in Nat /\ (of < cluster => of < cluster')
      <4>1. of \in Nat
        BY <2>1 DEF CloudCallType
      <4> HIDE DEF of
      <4> QED
        BY <1>1, <4>1
    <3> QED
      BY <2>1, <3>1 DEF CloudCallOK, CauseOK
  <2> QED
    BY <2>1, <2>2 DEF CloudCallOK
<1>4. \A d \in CloudCalls :
        CloudCallOK(cloudCall[d], credTime, details, cluster, looping = d, caFile = Torn)'
  BY <1>1, <1>3 DEF CloudCallOK, CauseOK, Outlives
<1> QED
  BY <1>1, <1>2, <1>4 DEF CredentialsInv

\* The clock waits for those that fetch, describe or ask.
LEMMA CredTimePassesPreserves ==
  ASSUME CredentialsInv, CredTimePasses
  PROVE  CredentialsInv'
<1>1. /\ credTime' = credTime + 1 /\ credTime \in Nat
      /\ UNCHANGED <<static, held, details, caFile, cluster, looping, cloudCall>>
  BY DEF CredTimePasses, CredentialsInv
<1>2. credTime' \in Nat
  BY <1>1
<1>3. ASSUME NEW d \in CloudCalls
      PROVE  CloudCallOK(cloudCall[d], credTime', details, cluster, looping = d, caFile = Torn)
  <2> DEFINE C == cloudCall[d]
             since == C.since
  <2>1. /\ since \in Nat /\ C.pc # "writing"
        /\ C.pc \in {"fetching", "describing"} => credTime - since < FetchLag
        /\ C.pc = "sent" => credTime - since < Lag
        /\ CloudCallOK(C, credTime, details, cluster, looping = d, caFile = Torn)
    BY DEF CredTimePasses, CredentialsInv, CloudCallType
  <2>2. /\ C.pc \in {"fetching", "describing"} => since <= credTime
        /\ C.pc = "sent" => since <= credTime
    BY <2>1 DEF CloudCallOK
  <2>3. C.pc \in {"fetching", "describing"} => since <= credTime' /\ credTime' <= since + FetchLag
    <3> HIDE DEF since
    <3> QED
      BY <1>1, <2>1, <2>2, CredentialBounds
  <2>4. C.pc = "sent" => since <= credTime' /\ credTime' <= since + Lag
    <3> HIDE DEF since
    <3> QED
      BY <1>1, <2>1, <2>2, CredentialBounds
  <2> QED
    BY <2>1, <2>3, <2>4 DEF CloudCallOK
<1>4. \A d \in CloudCalls :
        CloudCallOK(cloudCall[d], credTime, details, cluster, looping = d, caFile = Torn)'
  BY <1>1, <1>3 DEF CloudCallOK, CauseOK, Outlives
<1> QED
  BY <1>1, <1>2, <1>4 DEF CredentialsInv

\* Every step of the credentials keeps the invariant.
LEMMA CredentialsStep == Timely /\ CredentialsInv /\ [CredentialsNext]_credVars => CredentialsInv'
<1> SUFFICES ASSUME Timely, CredentialsInv, [CredentialsNext]_credVars PROVE CredentialsInv'
  OBVIOUS
<1>1. CASE CredentialsNext
  BY <1>1, BeginCloudCallPreserves, CredentialFetchedPreserves, DescribedPreserves,
     FetchGoesWrongPreserves, CertificateWrittenPreserves, KubectlStartsPreserves,
     RequestReadPreserves, UnreachablePreserves, ClusterReplacedPreserves,
     CredTimePassesPreserves
  DEF CredentialsNext
<1>2. CASE UNCHANGED credVars
  BY <1>2 DEF credVars, CredentialsInv, CloudCallOK, CauseOK, Outlives
<1> QED
  BY <1>1, <1>2

\* For any number of calls and any lives: where the margin covers a fetch and a
\* request, what refuses a call is never a credential that the code kept for too
\* long, and no certificate is read half written but by a call that was near the
\* one that wrote it (gcpapi.py:52-72, awsapi.py:58-60, 102-103, k8s.py).
THEOREM CausesTheorem ==
  ASSUME Timely
  PROVE  CredentialsSpec => []RefusalsHaveACause
<1>1. CredentialsInv /\ [CredentialsNext]_credVars => CredentialsInv'
  BY CredentialsStep
<1>2. CredentialsInv => RefusalsHaveACause
  BY DEF CredentialsInv, CloudCallOK, CauseOK, RefusalsHaveACause
<1> QED
  BY CredentialsStart, <1>1, <1>2, PTL DEF CredentialsSpec

-----------------------------------------------------------------------------
(***************************************************************************)
(* REGISTRY.  What is loaded passed every check, and nothing writes to it  *)
(* after that, so what a call ran was sound and was offered whatever the   *)
(* directory has become.  The rendering of an argv is defined by recursion *)
(* over its elements: that there is such a function, and what it gives,    *)
(* follows from the least number at which it would not be so.              *)
(***************************************************************************)

\* upTo is the rendering of the first elements of an argv, up to each of N.
IsRendering(upTo, N, argv, given) ==
  upTo = [i \in 0..N |-> IF i = 0 THEN <<>> ELSE Put(upTo[i - 1], argv[i], given)]

\* One element more is put to a rendering.
LEMMA RenderingExtends ==
  ASSUME NEW n \in Nat, NEW argv, NEW given, NEW f, IsRendering(f, n, argv, given)
  PROVE  \E g : IsRendering(g, n + 1, argv, given)
<1> DEFINE g == [i \in 0..(n + 1) |-> IF i = n + 1 THEN Put(f[n], argv[n + 1], given) ELSE f[i]]
           h == [i \in 0..(n + 1) |-> IF i = 0 THEN <<>> ELSE Put(g[i - 1], argv[i], given)]
<1>1. ASSUME NEW i \in 0..n
      PROVE  g[i] = f[i] /\ f[i] = IF i = 0 THEN <<>> ELSE Put(f[i - 1], argv[i], given)
  <2>1. i \in 0..(n + 1) /\ i # n + 1
    OBVIOUS
  <2>2. g[i] = f[i]
    BY <2>1
  <2>3. f[i] = [j \in 0..n |-> IF j = 0 THEN <<>> ELSE Put(f[j - 1], argv[j], given)][i]
    BY DEF IsRendering
  <2> QED
    BY <2>2, <2>3
<1>2. g[n + 1] = Put(f[n], argv[n + 1], given)
  OBVIOUS
<1> HIDE DEF g
<1>3. ASSUME NEW i \in 0..(n + 1)
      PROVE  g[i] = IF i = 0 THEN <<>> ELSE Put(g[i - 1], argv[i], given)
  <2>1. CASE i = n + 1
    <3>1. i - 1 = n /\ n \in 0..n /\ i # 0
      BY <2>1
    <3>2. g[n] = f[n]
      BY <3>1, <1>1
    <3> QED
      BY <1>2, <2>1, <3>1, <3>2
  <2>2. CASE i # n + 1 /\ i # 0
    <3>1. i \in 0..n /\ i - 1 \in 0..n
      BY <2>2
    <3> QED
      BY <1>1, <2>2, <3>1
  <2>3. CASE i = 0
    <3>1. i \in 0..n
      BY <2>3
    <3> QED
      BY <1>1, <2>3, <3>1
  <2> QED
    BY <2>1, <2>2, <2>3
<1>4. g = h
  <2>1. g = [i \in 0..(n + 1) |-> g[i]]
    BY DEF g
  <2>2. \A i \in 0..(n + 1) : g[i] = h[i]
    BY <1>3
  <2>3. h = [i \in 0..(n + 1) |-> h[i]]
    OBVIOUS
  <2> HIDE DEF h
  <2> QED
    BY <2>1, <2>2, <2>3
<1>5. IsRendering(g, n + 1, argv, given)
  BY <1>4 DEF IsRendering
<1> QED
  BY <1>5

\* There is a rendering of the elements up to any of them.
LEMMA RenderingExists ==
  ASSUME NEW n \in Nat, NEW argv, NEW given
  PROVE  \E f : IsRendering(f, n, argv, given)
<1> DEFINE Bad == {m \in Nat : ~ \E f : IsRendering(f, m, argv, given)}
<1> SUFFICES ASSUME Bad # {} PROVE FALSE
  OBVIOUS
<1> DEFINE m == Min(Bad)
<1>1. m \in Bad /\ \A k \in Bad : m <= k
  BY LeastNatural
<1>2. m \in Nat /\ ~ \E f : IsRendering(f, m, argv, given)
  BY <1>1
<1>3. \A k \in Nat : k \notin Bad => \E f : IsRendering(f, k, argv, given)
  OBVIOUS
<1> HIDE DEF m, Bad
<1>4. CASE m = 0
  <2> DEFINE f == [i \in 0..0 |-> <<>>]
  <2>1. \A i \in 0..0 : i = 0
    OBVIOUS
  <2>2. IsRendering(f, 0, argv, given)
    BY <2>1 DEF IsRendering
  <2> QED
    BY <1>2, <1>4, <2>2
<1>5. CASE m # 0
  <2>1. m - 1 \in Nat /\ m - 1 \notin Bad /\ (m - 1) + 1 = m
    BY <1>1, <1>2, <1>5
  <2>2. PICK f : IsRendering(f, m - 1, argv, given)
    BY <1>3, <2>1
  <2>3. \E g : IsRendering(g, (m - 1) + 1, argv, given)
    BY <2>1, <2>2, RenderingExtends
  <2> QED
    BY <1>2, <2>1, <2>3
<1> QED
  BY <1>4, <1>5

\* What is rendered is the end of a rendering.
LEMMA RenderedIsOne ==
  ASSUME NEW argv, NEW given, Len(argv) \in Nat
  PROVE  \E f : IsRendering(f, Len(argv), argv, given) /\ Rendered(argv, given) = f[Len(argv)]
<1> DEFINE f == CHOOSE f : f = [i \in 0..Len(argv) |->
                                  IF i = 0 THEN <<>> ELSE Put(f[i - 1], argv[i], given)]
<1>1. \E g : g = [i \in 0..Len(argv) |-> IF i = 0 THEN <<>> ELSE Put(g[i - 1], argv[i], given)]
  <2>1. \E g : IsRendering(g, Len(argv), argv, given)
    BY RenderingExists
  <2> QED
    BY <2>1, Zenon DEF IsRendering
<1>2. IsRendering(f, Len(argv), argv, given)
  BY <1>1, Zenon DEF IsRendering
<1>3. Rendered(argv, given) = f[Len(argv)]
  BY DEF Rendered
<1> QED
  BY <1>2, <1>3

\* Each flag of an argv that takes a value is followed by it.
FlagsLead(argv) ==
  /\ argv \in Seq(ToSet(argv))
  /\ \A i \in DOMAIN argv :
       argv[i].takes => argv[i].flag /\ i < Len(argv) /\ ~argv[i + 1].flag

\* What has been rendered of the first n elements: the last of it may still wait
\* for its value, if it is the last of those.
Rendering(out, n, argv) ==
  /\ out \in Seq(ToSet(argv))
  /\ \A j \in 1..(Len(out) - 1) : out[j].takes => ~out[j + 1].flag
  /\ out # <<>> /\ out[Len(out)].takes => n > 0 /\ out[Len(out)] = argv[n]

\* An element that is put after them leaves no flag behind without its value.
LEMMA PutKeeps ==
  ASSUME NEW argv, FlagsLead(argv), NEW n \in Nat, n + 1 \in DOMAIN argv, NEW out, NEW given,
         Rendering(out, n, argv)
  PROVE  Rendering(Put(out, argv[n + 1], given), n + 1, argv)
<1> DEFINE T == ToSet(argv)
           x == argv[n + 1]
<1>1. /\ argv \in Seq(T) /\ x \in T /\ out \in Seq(T) /\ Len(out) \in Nat
      /\ DOMAIN out = 1..Len(out) /\ DOMAIN argv = 1..Len(argv)
  BY DEF FlagsLead, Rendering, ToSet
<1>2. \A y \in T : y.takes => y.flag
  BY DEF FlagsLead, ToSet
<1>3. out # <<>> /\ out[Len(out)].takes => ~x.flag
  <2> SUFFICES ASSUME out # <<>>, out[Len(out)].takes PROVE ~x.flag
    OBVIOUS
  <2>1. n > 0 /\ out[Len(out)] = argv[n]
    BY DEF Rendering
  <2>2. n \in DOMAIN argv
    BY <1>1, <2>1
  <2> QED
    BY <2>1, <2>2 DEF FlagsLead
<1>4. \A j \in 1..(Len(out) - 1) : out[j].takes => ~out[j + 1].flag
  BY DEF Rendering
<1> HIDE DEF T, x
<1>5. CASE x.slots \subseteq given
  <2> DEFINE o == Append(out, x)
  <2>1. /\ o \in Seq(T) /\ Len(o) = Len(out) + 1 /\ o[Len(o)] = x
        /\ \A j \in 1..Len(out) : o[j] = out[j]
    BY <1>1, AppendProperties
  <2> HIDE DEF o
  <2>2. ASSUME NEW j \in 1..(Len(o) - 1), o[j].takes
        PROVE  ~o[j + 1].flag
    <3>1. j \in 1..Len(out) /\ o[j] = out[j]
      BY <1>1, <2>1
    <3>2. CASE j = Len(out)
      <4>1. out # <<>> /\ out[Len(out)].takes /\ o[j + 1] = x
        BY <1>1, <2>1, <2>2, <3>1, <3>2
      <4> QED
        BY <1>3, <4>1
    <3>3. CASE j # Len(out)
      <4> DEFINE n1 == Len(out)
      <4>2. n1 \in Nat /\ j \in 1..n1 /\ j # n1
        BY <1>1, <3>1, <3>3
      <4> HIDE DEF n1
      <4>3. j \in 1..(n1 - 1) /\ j + 1 \in 1..n1
        BY <4>2
      <4>1. j \in 1..(Len(out) - 1) /\ j + 1 \in 1..Len(out)
        BY <4>3 DEF n1
      <4> QED
        BY <1>4, <2>1, <2>2, <3>1, <4>1
    <3> QED
      BY <3>2, <3>3
  <2>3. Put(out, x, given) = o
    BY <1>5 DEF Put, o
  <2>4. n + 1 > 0
    OBVIOUS
  <2> QED
    BY <2>1, <2>2, <2>3, <2>4 DEF Rendering, T, x
<1>6. CASE ~(x.slots \subseteq given) /\ out # <<>> /\ out[Len(out)].flag
  <2> DEFINE o == SubSeq(out, 1, Len(out) - 1)
  <2>1. Len(out) > 0
    BY <1>1, <1>6
  <2>2. /\ o \in Seq(T) /\ Len(o) = Len(out) - 1
        /\ \A j \in 1..(Len(out) - 1) : o[j] = out[j]
    BY <1>1, <2>1, SubSeqProperties
  <2> HIDE DEF o
  <2>3. ASSUME NEW j \in 1..(Len(o) - 1), o[j].takes
        PROVE  ~o[j + 1].flag
    <3>1. j \in 1..(Len(out) - 1) /\ j + 1 \in 1..(Len(out) - 1)
      BY <1>1, <2>2
    <3> QED
      BY <1>4, <2>2, <2>3, <3>1
  <2>4. ASSUME o # <<>>
        PROVE  ~o[Len(o)].takes
    <3>1. Len(o) > 0
      BY <2>2, <2>4
    <3>2. Len(o) \in 1..(Len(out) - 1) /\ o[Len(o)] = out[Len(o)] /\ Len(o) + 1 = Len(out)
      BY <1>1, <2>2, <3>1
    <3> QED
      BY <1>4, <1>6, <3>2
  <2>5. Put(out, x, given) = o
    BY <1>6 DEF Put, o, Front, Last
  <2>6. Rendering(o, n + 1, argv)
    BY <2>2, <2>3, <2>4 DEF Rendering, T
  <2> QED
    BY <2>5, <2>6 DEF x
<1>7. CASE ~(x.slots \subseteq given) /\ ~(out # <<>> /\ out[Len(out)].flag)
  <2>1. Put(out, x, given) = out
    BY <1>7 DEF Put, Last
  <2>2. ASSUME out # <<>>
        PROVE  ~out[Len(out)].takes
    <3>1. Len(out) \in 1..Len(out)
      BY <1>1, <2>2
    <3>2. out[Len(out)] \in T
      BY <1>1, <3>1
    <3> QED
      BY <1>2, <1>7, <2>2, <3>2
  <2>3. Rendering(out, n + 1, argv)
    BY <1>1, <1>4, <2>2 DEF Rendering, T
  <2> QED
    BY <2>1, <2>3 DEF x
<1> QED
  BY <1>5, <1>6, <1>7 DEF x

\* Whatever was not given, no flag of what is rendered is without its value.
LEMMA RenderedFlagsLead ==
  ASSUME NEW argv, FlagsLead(argv), NEW given
  PROVE  LET out == Rendered(argv, given)
         IN \A i \in DOMAIN out : out[i].takes => i < Len(out) /\ ~out[i + 1].flag
<1> DEFINE N == Len(argv)
<1>1. argv \in Seq(ToSet(argv)) /\ N \in Nat /\ DOMAIN argv = 1..N
  BY DEF FlagsLead
<1>2. PICK f : IsRendering(f, N, argv, given) /\ Rendered(argv, given) = f[N]
  BY <1>1, RenderedIsOne
<1> HIDE DEF N
<1>3. \A i \in 0..N : f[i] = IF i = 0 THEN <<>> ELSE Put(f[i - 1], argv[i], given)
  <2> TAKE i \in 0..N
  <2>1. f = [j \in 0..N |-> IF j = 0 THEN <<>> ELSE Put(f[j - 1], argv[j], given)]
    BY <1>2 DEF IsRendering
  <2>2. f[i] = [j \in 0..N |-> IF j = 0 THEN <<>> ELSE Put(f[j - 1], argv[j], given)][i]
    BY <2>1
  <2> QED
    BY <2>2
<1>4. Rendering(f[0], 0, argv)
  <2>1. f[0] = <<>>
    BY <1>1, <1>3
  <2> QED
    BY <2>1 DEF Rendering
<1>5. \A i \in 0..N : Rendering(f[i], i, argv)
  <2> DEFINE Bad == {i \in 0..N : ~Rendering(f[i], i, argv)}
  <2> SUFFICES ASSUME Bad # {} PROVE FALSE
    OBVIOUS
  <2> DEFINE m == Min(Bad)
  <2>9. Bad \in SUBSET Nat
    BY <1>1
  <2>1. m \in Bad /\ \A k \in Bad : m <= k
    BY <2>9, LeastNatural
  <2>2. m \in 0..N /\ ~Rendering(f[m], m, argv)
    BY <2>1
  <2>3. \A k \in 0..N : k \notin Bad => Rendering(f[k], k, argv)
    OBVIOUS
  <2> HIDE DEF m, Bad
  <2>4. m # 0
    BY <1>4, <2>2
  <2>5. m - 1 \in Nat /\ m - 1 \in 0..N /\ m - 1 \notin Bad /\ (m - 1) + 1 = m /\ m \in 1..N
    BY <1>1, <2>1, <2>2, <2>4
  <2>6. Rendering(f[m - 1], m - 1, argv)
    BY <2>3, <2>5
  <2>7. Rendering(Put(f[m - 1], argv[m], given), m, argv)
    BY <1>1, <2>5, <2>6, PutKeeps
  <2>8. f[m] = Put(f[m - 1], argv[m], given)
    BY <1>3, <2>2, <2>4
  <2> QED
    BY <2>2, <2>7, <2>8
<1> DEFINE out == Rendered(argv, given)
<1>6. Rendering(out, N, argv)
  BY <1>1, <1>2, <1>5
<1> HIDE DEF out
<1>7. Len(out) \in Nat /\ DOMAIN out = 1..Len(out)
  BY <1>6 DEF Rendering
<1>8. ASSUME NEW i \in DOMAIN out, out[i].takes
      PROVE  i < Len(out) /\ ~out[i + 1].flag
  <2>1. CASE i = Len(out)
    <3>1. out # <<>> /\ out[Len(out)].takes
      BY <1>7, <1>8, <2>1
    <3>2. N > 0 /\ out[Len(out)] = argv[N]
      BY <1>6, <3>1 DEF Rendering
    <3>3. argv[N].takes /\ N \in DOMAIN argv
      BY <1>1, <3>1, <3>2
    <3>4. N < Len(argv)
      BY <3>3 DEF FlagsLead
    <3> QED
      BY <1>1, <3>4 DEF N
  <2>2. CASE i # Len(out)
    <3>1. i \in 1..(Len(out) - 1) /\ i < Len(out)
      BY <1>7, <2>2
    <3> QED
      BY <1>6, <1>8, <3>1 DEF Rendering
  <2> QED
    BY <2>1, <2>2
<1> QED
  BY <1>8 DEF out

\* A hypothesis on the directory: each flag of an entry's argv that takes a value is
\* followed by it, as it is in every entry of registry/k8s.yaml.
FlagsAreFollowed ==
  \A dir \in Directories :
    Loads(dir) => \A i \in DOMAIN dir :
      LET e == LoadedFrom(dir)[i] IN e.kind = "kubectl" => FlagsLead(e.argv)

\* An entry that a load accepts.
IsSound(e) == EntryIsSound(e) /\ (e.kind = "kubectl" => FlagsLead(e.argv))

\* What a call ran was declared, and its caller was shown it, of whatever catalogue.
RunOK(c) ==
  /\ c.target \in Connections[c.entry.kind]
  /\ \A p \in DOMAIN c.values : c.values[p] # None => Accepts(c.entry.params[p], c.values[p])
  /\ c.entry.kind = "kubectl" =>
       /\ FlagsLead(c.entry.argv)
       /\ c.surfaces \cap {"k8s:gcp", "k8s:aws"} # {}
  /\ c.entry.kind # "kubectl" => c.entry.surface \in c.surfaces

\* The inductive invariant.
RegistryInv ==
  /\ directory \in Directories
  /\ \A e \in ToSet(registry) : IsSound(e)
  /\ \A c \in ran : RunOK(c)

\* Nothing is loaded, and nothing ran.
LEMMA RegistryStart == RegistryInit => RegistryInv
BY DEF RegistryInit, RegistryInv, ToSet

\* A call that goes through the checks is of a sound entry, with values its parameters
\* accept, and for a caller who is shown it.
LEMMA CallPreserves ==
  ASSUME RegistryInv, Call
  PROVE  RegistryInv'
<1>1. PICK surfaces \in Callers, supplied \in Supplies, e \in ToSet(registry) :
        LET values == Validated(e, supplied) IN
        /\ ParamsAccepted(e, supplied)
        /\ RequiredSurface(e, values) \in surfaces
        /\ Resolves(e, values)
        /\ ran' = {[entry |-> e, values |-> values, target |-> Target(e, values),
                    surfaces |-> surfaces]}
        /\ UNCHANGED <<server, directory, registry>>
  BY Zenon DEF Call
<1> DEFINE values == Validated(e, supplied)
           c == [entry |-> e, values |-> values, target |-> Target(e, values),
                 surfaces |-> surfaces]
<1>2. IsSound(e)
  BY DEF RegistryInv
<1>3. /\ values = [p \in DOMAIN e.params |->
                     IF Given(supplied, p) = None THEN e.params[p].default ELSE supplied[p]]
      /\ DOMAIN values = DOMAIN e.params
  BY DEF Validated
<1>4. /\ Target(e, values) \in Connections[e.kind] /\ RequiredSurface(e, values) \in surfaces
      /\ ran' = {c} /\ UNCHANGED <<server, directory, registry>> /\ None \notin surfaces
      /\ ParamsAccepted(e, supplied)
  BY <1>1, RegistryAssumption DEF Resolves
<1> HIDE DEF values
<1>5. ASSUME NEW p \in DOMAIN values, values[p] # None
      PROVE  Accepts(e.params[p], values[p])
  <2>1. p \in DOMAIN e.params
    BY <1>3
  <2>2. CASE Given(supplied, p) = None
    <3>1. values[p] = e.params[p].default
      BY <1>3, <2>1, <2>2
    <3>2. e.params[p].default # None => Accepts(e.params[p], e.params[p].default)
      BY <1>2, <2>1, Zenon DEF IsSound, EntryIsSound, ParamsAreSound
    <3> QED
      BY <1>5, <3>1, <3>2
  <2>3. CASE Given(supplied, p) # None
    <3>1. values[p] = supplied[p] /\ Given(supplied, p) = supplied[p]
      BY <1>3, <2>1, <2>3 DEF Given
    <3>2. Accepts(e.params[p], Given(supplied, p))
      BY <1>4, <2>1 DEF ParamsAccepted
    <3> QED
      BY <3>1, <3>2
  <2> QED
    BY <2>2, <2>3
<1>6. ASSUME e.kind = "kubectl"
      PROVE  FlagsLead(e.argv) /\ surfaces \cap {"k8s:gcp", "k8s:aws"} # {}
  <2>1. RequiredSurface(e, values) \in {"k8s:gcp", "k8s:aws", None}
    BY <1>6 DEF RequiredSurface
  <2> QED
    BY <1>2, <1>4, <1>6, <2>1 DEF IsSound
<1>7. ASSUME e.kind # "kubectl"
      PROVE  e.surface \in surfaces
  BY <1>4, <1>7 DEF RequiredSurface
<1>8. /\ c.entry = e /\ c.values = values /\ c.surfaces = surfaces
      /\ c.target = Target(e, values)
  OBVIOUS
<1> HIDE DEF c
<1>9. RunOK(c)
  BY <1>4, <1>5, <1>6, <1>7, <1>8 DEF RunOK
<1>10. \A d \in ran' : RunOK(d)
  BY <1>4, <1>9
<1> QED
  BY <1>4, <1>10 DEF RegistryInv, RunOK, IsSound

\* What is loaded passed the checks.
LEMMA AskPreserves ==
  ASSUME RegistryInv, FlagsAreFollowed, Ask
  PROVE  RegistryInv'
<1>1. UNCHANGED <<directory, ran>> /\ directory \in Directories /\ registry' = GetRegistry
  BY DEF Ask, RegistryInv
<1>2. \A e \in ToSet(GetRegistry) : IsSound(e)
  <2>1. CASE Loads(directory) /\ GetRegistry = LoadedFrom(directory)
    <3> SUFFICES ASSUME NEW i \in DOMAIN LoadedFrom(directory)
                 PROVE  IsSound(LoadedFrom(directory)[i])
      BY <2>1 DEF ToSet
    <3>1. EntryIsSound(LoadedFrom(directory)[i])
      BY <2>1 DEF Loads
    <3>2. i \in DOMAIN directory
      BY DEF LoadedFrom
    <3> QED
      BY <1>1, <2>1, <3>1, <3>2 DEF IsSound, FlagsAreFollowed
  <2>2. CASE GetRegistry = registry
    BY <2>2 DEF RegistryInv
  <2> QED
    BY <2>1, <2>2 DEF GetRegistry
<1> QED
  BY <1>1, <1>2 DEF RegistryInv, RunOK, IsSound

\* Every step of the registry keeps the invariant.
LEMMA RegistryStep ==
  FlagsAreFollowed /\ RegistryInv /\ [RegistryNext]_rvars => RegistryInv'
<1> SUFFICES ASSUME FlagsAreFollowed, RegistryInv, [RegistryNext]_rvars PROVE RegistryInv'
  OBVIOUS
<1>1. CASE Start
  BY <1>1 DEF Start, RegistryInv, RunOK, IsSound, ToSet
<1>2. CASE Stop
  BY <1>2 DEF Stop, RegistryInv, RunOK, IsSound, ToSet
<1>3. CASE Edit
  BY <1>3 DEF Edit, RegistryInv, RunOK, IsSound
<1>4. CASE Ask
  BY <1>4, AskPreserves
<1>5. CASE Call
  BY <1>5, CallPreserves
<1>6. CASE UNCHANGED rvars
  BY <1>6 DEF rvars, RegistryInv, RunOK, IsSound
<1> QED
  BY <1>1, <1>2, <1>3, <1>4, <1>5, <1>6 DEF RegistryNext

\* For every directory in which a flag that takes a value is followed by it: a call that
\* ran is declared, rendered and offered as the load and the two checks of a grant
\* promise, whatever was edited since (loader.py:12-20, 349-367, dispatch.py:194-197,
\* k8s.py:220-233).
THEOREM CoverTheorem ==
  ASSUME FlagsAreFollowed
  PROVE  RegistrySpec => []RunsAreCovered
<1>1. RegistryInv /\ [RegistryNext]_rvars => RegistryInv'
  BY RegistryStep
<1>2. RegistryInv => RunsAreCovered
  <2> SUFFICES ASSUME RegistryInv PROVE RunsAreCovered
    OBVIOUS
  <2>1. \A c \in ran : RunOK(c)
    BY DEF RegistryInv
  <2>2. ASSUME NEW c \in ran, c.entry.kind = "kubectl"
        PROVE  LET argv == Rendered(c.entry.argv,
                                    {p \in DOMAIN c.values : c.values[p] # None})
               IN \A i \in DOMAIN argv : argv[i].takes => i < Len(argv) /\ ~argv[i + 1].flag
    <3>1. FlagsLead(c.entry.argv)
      BY <2>1, <2>2 DEF RunOK
    <3> QED
      BY <3>1, RenderedFlagsLead
  <2>3. RunsAreDeclared
    BY <2>1, <2>2 DEF RunsAreDeclared, RunOK
  <2>4. RunsWereOffered
    BY <2>1 DEF RunsWereOffered, RunOK, Offered
  <2> QED
    BY <2>3, <2>4 DEF RunsAreCovered
<1> QED
  BY RegistryStart, <1>1, <1>2, PTL DEF RegistrySpec
=============================================================================
