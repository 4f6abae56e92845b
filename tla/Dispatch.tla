------------------------------ MODULE Dispatch -----------------------------
(***************************************************************************)
(* The single door to infrastructure (app/executors/dispatch.py): checks,  *)
(* the cache of results, the executor's run, the grep filter, the cap on   *)
(* the size of an output and the redaction, for calls that run side by     *)
(* side.                                                                   *)
(*                                                                         *)
(* The only await is the executor's run, so what comes before it is one    *)
(* step and what comes after it is another.  A result is the set of its    *)
(* lines, together with the time at which the backend was read.  A secret  *)
(* is a line, or it spans several, of which redaction knows the first and  *)
(* the last.                                                               *)
(***************************************************************************)
EXTENDS Integers

CONSTANTS
  Calls,      \* bound: the calls
  Keys,       \* identities of calls: entry, validated params, target
  Lines,      \* the lines of a full result
  Secrets,    \* those that redaction masks, each by itself
  Block,      \* those of one secret that spans several (PRIVATE_KEY_RE), masked if BlockEnds are there
  BlockEnds,       \* its first and its last line
  Beginnings,   \* what may fit into MAX_OUTPUT_BYTES or MAX_GREP_LINES: beginnings of the result
  NoNeedle,   \* a call without grep
  Ttl,        \* cache_ttl_s of the entries, 0 for never
  Keep,       \* the age at which a store sweeps an entry out
  MaxRun,     \* what bounds an executor's run, timeout_s
  MaxTime     \* bound: the clock

VARIABLES now, cache, call

vars == <<now, cache, call>>

Masked == "masked"     \* what redaction puts for a secret line
Mark == "mark"         \* [served from cache, Ns old]
NoMatch == "no match"  \* No lines matched ... genuinely contained no match
Piece == "piece"       \* a part of a line of a secret, that no pattern knows

\* The notes are none of the lines of a result.
ASSUME DispatchAssumption ==
  /\ Secrets \subseteq Lines /\ Block \subseteq Lines \ Secrets /\ NoNeedle \notin Lines
  /\ Beginnings \subseteq SUBSET Lines /\ BlockEnds \subseteq Block /\ (Block # {} => BlockEnds # {})
  /\ {Masked, Mark, NoMatch, Piece} \cap Lines = {}
  /\ {Ttl, Keep, MaxRun, MaxTime} \subseteq Nat

Texts == SUBSET (Lines \cup {Masked, Mark, NoMatch, Piece})

\* age is -1 for a live result, and the age that is told for a cached one.
ReplyType == [ok : BOOLEAN, text : Texts, truncated : BOOLEAN, error : SUBSET Lines,
              at : -1..MaxTime, age : -1..MaxTime, when : 0..MaxTime]

CallType ==
  [pc      : {"new", "running", "done"},
   key     : Keys,
   needle  : Lines \cup {NoNeedle},
   granted : BOOLEAN,       \* is the surface it needs in granted_surfaces?
   since   : 0..MaxTime,
   reply   : ReplyType]

EntryType == [ts : -1..MaxTime, text : Texts, truncated : BOOLEAN, at : -1..MaxTime]

NoEntry == [ts |-> -1, text |-> {}, truncated |-> FALSE, at |-> -1]

Reply(text, truncated, at, age) ==
  [ok |-> TRUE, text |-> text, truncated |-> truncated, error |-> {}, at |-> at, age |-> age,
   when |-> now]

\* _failure: redact_result looks at text and rows, and the message is in error.
Failure(quoted) ==
  [ok |-> FALSE, text |-> {}, truncated |-> FALSE, error |-> quoted, at |-> -1, age |-> -1,
   when |-> now]

Init ==
  /\ now = 0
  /\ cache = [k \in Keys |-> NoEntry]
  /\ call \in [Calls -> {[pc |-> "new", key |-> k, needle |-> n, granted |-> g,
                          since |-> 0, reply |-> Failure({})] :
                         k \in Keys, n \in Lines \cup {NoNeedle}, g \in BOOLEAN}]

-----------------------------------------------------------------------------
(* The tail that every result goes through.                                *)

\* apply_grep, with the context that was asked for: any of the other lines.  The notes of the
\* tool are filtered like any other line.
Greps(text, needle) ==
  IF needle = NoNeedle \/ text = {} THEN {text}
  ELSE IF needle \in text THEN {kept \in SUBSET text : needle \in kept}
  ELSE {{NoMatch}}

\* cap_output, and the limit of apply_grep: the whole, or what fits, of which the last line may
\* be cut.  What the tool added comes at the end.
Cuts(text) ==
  {[text |-> text, truncated |-> FALSE]} \cup
  {[text |-> (text \cap (fits \cup {Masked})) \cup piece, truncated |-> TRUE] :
     fits \in Beginnings, piece \in {{}} \cup {{Piece} : l \in text \cap (Secrets \cup Block)}}

\* redact_result
Redact(text) ==
  LET hidden == (text \cap Secrets) \cup (IF BlockEnds \subseteq text THEN text \cap Block ELSE {})
  IN (text \ hidden) \cup (IF hidden # {} THEN {Masked} ELSE {})

\* The outcomes of the tail, of which the order is filter, cap, redaction.
Tails(text, needle) ==
  {[text |-> Redact(r.text), truncated |-> r.truncated] :
     r \in UNION {Cuts(kept) : kept \in Greps(text, needle)}}

Fresh(k) == cache[k].ts # -1 /\ now - cache[k].ts < Ttl

Replies(c, r) == [call EXCEPT ![c].pc = "done", ![c].reply = r]

-----------------------------------------------------------------------------

\* Unknown name, rejected params, no target, or a surface that is not granted.
Refuse(c) ==
  /\ call[c].pc = "new"
  /\ call' = Replies(c, Failure({}))
  /\ UNCHANGED <<now, cache>>

\* Mutant of Hit: a hit renews the entry.
HitRenews(c) ==
  /\ call[c].pc = "new" /\ call[c].granted /\ Fresh(call[c].key)
  /\ LET entry == cache[call[c].key] IN
       \E out \in Tails(entry.text \cup {Mark}, call[c].needle) :
         call' = Replies(c, Reply(out.text, entry.truncated \/ out.truncated, entry.at,
                                  now - entry.ts))
  /\ cache' = [cache EXCEPT ![call[c].key].ts = now]
  /\ UNCHANGED now

\* Served from the cache: rebuilt with its age, and sent through the same tail.
Hit(c) ==
  /\ call[c].pc = "new" /\ call[c].granted /\ Fresh(call[c].key)
  /\ LET entry == cache[call[c].key] IN
       \E out \in Tails(entry.text \cup {Mark}, call[c].needle) :
         call' = Replies(c, Reply(out.text, entry.truncated \/ out.truncated, entry.at,
                                  now - entry.ts))
  /\ UNCHANGED <<now, cache>>

\* executor.run begins.
Run(c) ==
  /\ call[c].pc = "new" /\ call[c].granted /\ ~Fresh(call[c].key)
  /\ call' = [call EXCEPT ![c].pc = "running", ![c].since = now]
  /\ UNCHANGED <<now, cache>>

\* What a store leaves of the cache.
Swept == [k \in Keys |-> IF now - cache[k].ts > Keep THEN NoEntry ELSE cache[k]]

\* The result with out is answered, and stored.
AnswersWith(c, at, out) ==
  /\ call' = Replies(c, Reply(out.text, out.truncated, at, -1))
  /\ cache' = IF Ttl = 0 THEN cache
              ELSE [Swept EXCEPT ![call[c].key] = [ts |-> now, text |-> out.text,
                                                   truncated |-> out.truncated, at |-> at]]

\* Mutant of Succeed: a filtered result is returned early.
SucceedFiltered(c, at) ==
  /\ call[c].pc = "running" /\ at \in call[c].since..now
  /\ \E out \in IF call[c].needle = NoNeedle THEN Tails(Lines, NoNeedle)
                ELSE UNION {Cuts(kept) : kept \in Greps(Lines, call[c].needle)} :
       AnswersWith(c, at, out)
  /\ UNCHANGED now

\* The run succeeds with what the backend held at some moment of it.  The
\* object that is cached is the one that the filter, the cap and the redaction
\* then change in place, so it is their outcome that a later hit starts from.
Succeed(c, at) ==
  /\ call[c].pc = "running" /\ at \in call[c].since..now
  /\ \E out \in Tails(Lines, call[c].needle) : AnswersWith(c, at, out)
  /\ UNCHANGED now

\* ExecutorError or any other exception, whose message may quote the backend;
\* or a result that is not ok, which is not cached.
Fail(c) ==
  /\ call[c].pc = "running"
  /\ \E quoted \in SUBSET Secrets : call' = Replies(c, Failure(quoted))
  /\ UNCHANGED <<now, cache>>

\* The question is stopped: CancelledError passes through dispatch.
Cancel(c) ==
  /\ call[c].pc = "running"
  /\ call' = Replies(c, Failure({}))
  /\ UNCHANGED <<now, cache>>

\* An executor's run ends within its timeout.
Tick ==
  /\ now < MaxTime
  /\ \A c \in Calls : call[c].pc = "running" => now < call[c].since + MaxRun
  /\ now' = now + 1
  /\ UNCHANGED <<cache, call>>

Next ==
  \/ Tick
  \/ \E c \in Calls :
       \/ Refuse(c) \/ Hit(c) \/ Run(c) \/ Fail(c) \/ Cancel(c)
       \/ \E at \in 0..MaxTime : Succeed(c, at)

Spec == Init /\ [][Next]_vars

-----------------------------------------------------------------------------
(* Properties.                                                             *)

TypeOK ==
  /\ now \in 0..MaxTime
  /\ cache \in [Keys -> EntryType]
  /\ call \in [Calls -> CallType]

\* An answer that says it worked holds what a run really read: a failure, of
\* this call or of another that shares its key, never turns into data.  The
\* age that a hit is marked with is less than the TTL, and right up to the
\* time the run took, also when runs of one key overlap and an older read is
\* stored over a newer one, and however often the entry was hit before; and
\* the mark is there, unless the filter of the call that hit took it out or
\* the cap, and then the result says that it is truncated (dispatch.py:262-307).
AnswersAreHonest ==
  \A c \in Calls : LET r == call[c].reply IN
    /\ r.ok => r.at # -1
    /\ r.age # -1 =>
         /\ r.age < Ttl /\ r.when - r.age - r.at \in 0..MaxRun
         /\ call[c].needle = NoNeedle /\ ~r.truncated => Mark \in r.text

\* Did a call with this key ask for a filter?
IsFiltered(k) == \E d \in Calls : call[d].key = k /\ call[d].needle # NoNeedle

\* What passes the redaction, which comes after the filter and the cap: no line that is a secret
\* by itself; a piece of one, only of a result that says it is truncated; and lines of a secret
\* that spans several, never all of it, and only if the result says so or the key was asked for
\* with a filter, by this call or by another from whose result it is served.  And what is of the
\* backend, in an output or quoted by the message of a failure, which _failure does not mask,
\* is told only to callers with the grant (dispatch.py:110-165, 227-307).
OnlyCutSecretsPass ==
  \A c \in Calls : LET r == call[c].reply IN
    /\ r.text \cap Secrets = {}
    /\ Piece \in r.text => r.truncated
    /\ r.text \cap Block # {} => ~(BlockEnds \subseteq r.text) /\ (r.truncated \/ IsFiltered(call[c].key))
    /\ r.ok \/ r.error # {} => call[c].granted

-----------------------------------------------------------------------------
(* What comments say, refuted by runs that expect it.                      *)

\* A comment on the store: a later hit with a different grep filters the full
\* result.  So a hit that asks for a line of it is not told that there is none
\* (dispatch.py:295-297).
HitFiltersTheWhole ==
  \A c \in Calls :
    LET r == call[c].reply IN
      r.age # -1 /\ call[c].needle \in Lines /\ ~r.truncated => NoMatch \notin r.text
=============================================================================
