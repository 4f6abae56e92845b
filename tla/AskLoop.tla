------------------------------ MODULE AskLoop ------------------------------
(***************************************************************************)
(* How one question is answered: _answer and _run_calls in app/api/ask.py. *)
(*                                                                         *)
(* The selector model picks registry functions, a round of them runs       *)
(* concurrently, the selector is asked again with what came back, and so   *)
(* on until it asks for nothing, fails, or the time window has closed;     *)
(* then the synthesis model writes the answer, which is stored with its    *)
(* evidence, audited and charged.  Old evidence that outgrows a threshold  *)
(* is folded into a digest.  Questions run concurrently, may share a       *)
(* conversation, may be stopped, may lose their conversation to a delete,  *)
(* and die with the process.                                               *)
(*                                                                         *)
(* An action is the code between two awaits of one coroutine.  A call      *)
(* chosen by the selector is a member of Calls: its identity is function   *)
(* and arguments as written; KeyOf maps it to what json.dumps(sort_keys)   *)
(* makes of it, so two calls with one key differ in key order only.        *)
(***************************************************************************)
EXTENDS Integers, Sequences, SequencesExt

CONSTANTS
  Asks,              \* questions that may be asked
  Users,
  UserOf,            \* the asker of each question
  Streamed,          \* the questions asked through /ask/stream
  NoUser,            \* owner of a conversation id that does not exist
  Calls,             \* function calls the selector may choose
  KeyOf,             \* canonical form of a call
  Chars,             \* size of a call's output when it succeeds
  MaxEvidenceChars,  \* MAX_EVIDENCE_CHARS
  MinEvidencePerCall,\* MIN_EVIDENCE_PER_CALL
  CompactChars,      \* COMPACT_EVIDENCE_CHARS
  MaxPerRound,       \* bound: calls in one selector response (max_calls)
  MaxConvs,          \* bound: conversations created
  MaxCrashes         \* bound: process crashes

ASSUME AsksAssumption ==
  /\ UserOf \in [Asks -> Users]
  /\ Streamed \subseteq Asks
  /\ NoUser \notin Users

ASSUME EvidenceAssumption ==
  /\ Chars \in [Calls -> Nat]
  /\ {MaxEvidenceChars, MinEvidencePerCall, CompactChars} \subseteq Nat
  /\ {MaxPerRound, MaxConvs, MaxCrashes} \subseteq Nat

VARIABLES
  ask,      \* ask[x]: the locals of question x's _answer and what it produced
  conv,     \* conv[c]: the row of conversation c and its messages
  nextConv, \* AUTOINCREMENT of the conversations table
  crashes

vars == <<ask, conv, nextConv, crashes>>

ConvIds == 1..MaxConvs

CallOut == [call : Calls, ok : BOOLEAN]

Message == [role : {"user", "assistant"}, ask : Asks, evidence : Seq(CallOut)]

ConvType == [owner : Users \cup {NoUser}, messages : Seq(Message)]

Exists(c) == conv[c].owner # NoUser

AskType ==
  [pc          : {"idle", "selecting", "running", "compacting", "following",
                  "streaming", "writing", "over"},
   status      : {"new", "running", "done", "error", "stopped", "lost"},
   conv        : 0..MaxConvs,
   pending     : Seq(Calls),   \* the round being run
   slots       : Seq({"flying", "ok", "failed", "raised"}),
   out         : Seq(CallOut), \* calls_out
   before      : Nat,          \* len(calls_out) when the round began
   audited     : SUBSET Nat,   \* positions of calls_out that audit_call wrote
   digest      : SUBSET Nat,   \* positions of calls_out the digest stands for
   upto        : Nat,          \* digest_upto
   usage       : Nat,          \* LLM calls counted in usage
   spent       : Nat,          \* LLM calls that were answered
   charged     : Nat,          \* what record_question_tokens recorded
   verdict     : {"none", "ok", "failed"},   \* the audit_question record
   kept        : BOOLEAN,      \* its answer was added to its conversation
   case        : BOOLEAN,      \* a case file was recorded
   late        : BOOLEAN,      \* time.monotonic() >= deadline
   lateSelects : Nat,          \* selections started after the deadline
   lateRounds  : Nat,          \* rounds started after the deadline
   shown       : {"none", "part", "all"}]    \* token events since a reset

NewAsk ==
  [pc |-> "idle", status |-> "new", conv |-> 0, pending |-> <<>>,
   slots |-> <<>>, out |-> <<>>, before |-> 0, audited |-> {}, digest |-> {},
   upto |-> 0, usage |-> 0, spent |-> 0, charged |-> 0, verdict |-> "none",
   kept |-> FALSE, case |-> FALSE, late |-> FALSE,
   lateSelects |-> 0, lateRounds |-> 0, shown |-> "none"]

Working(a) == a.pc \notin {"idle", "over"}

Init ==
  /\ ask = [x \in Asks |-> NewAsk]
  /\ conv = [c \in ConvIds |-> [owner |-> NoUser, messages |-> <<>>]]
  /\ nextConv = 1
  /\ crashes = 0

-----------------------------------------------------------------------------
(* Pure parts: duplicates and the size of the evidence.                    *)

\* _dedupe: the first of each canonical call, in order.
Dedupe(calls) ==
  LET keep(acc, c) == IF \E i \in 1..Len(acc) : KeyOf[acc[i]] = KeyOf[c]
                        THEN acc ELSE Append(acc, c)
  IN  FoldLeft(keep, <<>>, calls)

\* The `already` filter: a call whose text was executed before is dropped.
NotAlready(calls, out) ==
  LET fresh(c) == \A i \in 1..Len(out) : out[i].call # c
  IN  SelectSeq(calls, fresh)

\* len(_evidence(calls)), with a header and a failure's text of size 1.
EvidenceSize(calls) ==
  LET ok(c)      == c.ok
      heavy      == Len(SelectSeq(calls, ok))
      share      == Max({MaxEvidenceChars
                           \div Max({IF heavy > 0 THEN heavy ELSE Len(calls), 1}),
                         MinEvidencePerCall})
      add(n, c)  == n + 1 + (IF c.ok THEN Min({Chars[c.call], share}) ELSE 1)
  IN  FoldLeft(add, 0, calls)

Tail1(a) == SubSeq(a.out, a.upto + 1, Len(a.out))

\* The positions of calls_out that _working_evidence puts before the model.
Represented(a) == a.digest \cup ((a.upto + 1)..Len(a.out))

\* The early returns of _maybe_compact.
NeedsCompaction(a) ==
  /\ a.before > a.upto
  /\ EvidenceSize(Tail1(a)) >= CompactChars

-----------------------------------------------------------------------------
(* Where a question goes next.                                             *)

Counted(b) == IF b THEN 1 ELSE 0

\* An LLM call answered: usage = usage + ...
Spend(a) == [a EXCEPT !.usage = @ + 1, !.spent = @ + 1]

\* The start of a round: emit the stage, remember `before`, start the tasks.
ToRound(a, p) ==
  [a EXCEPT !.pc = "running", !.pending = p,
            !.slots = [k \in 1..Len(p) |-> "flying"],
            !.before = Len(a.out),
            !.lateRounds = @ + Counted(a.late)]

ToFollow(a) ==
  [a EXCEPT !.pc = "following", !.lateSelects = @ + Counted(a.late)]

\* Stream the answer when someone is watching.
ToSynthesis(x, a) ==
  [a EXCEPT !.pc = IF x \in Streamed THEN "streaming" ELSE "writing"]

\* The coroutine ends by an exception: work() publishes it, /ask answers 5xx.
Errored(a) == [a EXCEPT !.pc = "over", !.status = "error"]

\* _fail: the question is audited as failed, then the HTTPException ends it.  What cannot
\* be audited ends it as well.
Failed(a) == [Errored(a) EXCEPT !.verdict = "failed"]
Fails(x) == \E a \in {Failed(ask[x]), Errored(ask[x])} : ask' = [ask EXCEPT ![x] = a]

Answer(x, a) == [role |-> "assistant", ask |-> x, evidence |-> a.out]

\* The tail of _answer, in which nothing is awaited: the first n of message, audit record
\* and charge are made, and after the message a case file, if any call succeeded.
Answered(a, n, case, status) ==
  [a EXCEPT !.kept    = n >= 1,
            !.case    = case,
            !.verdict = IF n >= 2 THEN "ok" ELSE @,
            !.charged = IF n >= 3 THEN a.usage ELSE @,
            !.pc      = "over",
            !.status  = status]

\* add_message(conv.id, "assistant", answer, evidence).
WithAnswer(x, a) == [conv EXCEPT ![a.conv].messages = Append(@, Answer(x, a))]

\* An answer is stored as far as it gets.  If the conversation is gone the insert violates
\* its foreign key; a case file that cannot be written is passed over.
Stores(x, a, n, case, status) ==
  /\ n >= 1 => Exists(a.conv)
  /\ case => n >= 1 /\ \E i \in 1..Len(a.out) : a.out[i].ok
  /\ ask' = [ask EXCEPT ![x] = Answered(a, n, case, status)]
  /\ conv' = IF n >= 1 THEN WithAnswer(x, a) ELSE conv

\* Mutant of Finish: the case file is recorded before the message.
FinishCaseFirst(x, a) ==
  \/ \E n \in 0..3, case \in BOOLEAN, status \in {"done", "error"} :
       (status = "done" => n = 3) /\ Stores(x, a, n, case, status)
  \/ /\ \E i \in 1..Len(a.out) : a.out[i].ok
     /\ ask' = [ask EXCEPT ![x] = Answered(a, 0, TRUE, "error")]
     /\ UNCHANGED conv

\* Any of the writes may raise, and ends the question there: the disk is full, or the
\* database locked for longer than is waited.  What is charged is read back, which may too.
Finish(x, a) ==
  \E n \in 0..3, case \in BOOLEAN, status \in {"done", "error"} :
    (status = "done" => n = 3) /\ Stores(x, a, n, case, status)

-----------------------------------------------------------------------------
(* Asking.                                                                 *)

UserMessage(x) == [role |-> "user", ask |-> x, evidence |-> <<>>]

Opened(a, c) == [a EXCEPT !.pc = "selecting", !.status = "running", !.conv = c]

AskNew(x) ==
  /\ ask[x].pc = "idle" /\ nextConv <= MaxConvs
  /\ conv' = [conv EXCEPT ![nextConv] =
                [owner |-> UserOf[x], messages |-> <<UserMessage(x)>>]]
  /\ ask' = [ask EXCEPT ![x] = Opened(@, nextConv)]
  /\ nextConv' = nextConv + 1
  /\ UNCHANGED crashes

AskInto(x, c) ==
  /\ ask[x].pc = "idle" /\ conv[c].owner = UserOf[x]
  /\ conv' = [conv EXCEPT ![c].messages = Append(@, UserMessage(x))]
  /\ ask' = [ask EXCEPT ![x] = Opened(@, c)]
  /\ UNCHANGED <<nextConv, crashes>>

\* 404: a conversation that is gone, or somebody else's.
AskMissing(x, c) ==
  /\ ask[x].pc = "idle" /\ conv[c].owner # UserOf[x] /\ c < nextConv
  /\ ask' = [ask EXCEPT ![x] = Errored(@)]
  /\ UNCHANGED <<conv, nextConv, crashes>>

-----------------------------------------------------------------------------
(* The first selection.                                                    *)

Selections == BoundedSeq(Calls, MaxPerRound)

\* The selector chose no function: the refusal is the answer.  _log_uncovered
\* looks for coverage.record_uncovered, which app/coverage.py does not have, and
\* so changes nothing.
Refuse(x) ==
  /\ ask[x].pc = "selecting"
  /\ Finish(x, Spend(ask[x]))
  /\ UNCHANGED <<nextConv, crashes>>

SelectReturns(x) ==
  /\ ask[x].pc = "selecting"
  /\ \E calls \in Selections \ {<<>>}, p \in Selections :
       /\ p = Dedupe(calls)
       /\ ask' = [ask EXCEPT ![x] = ToRound(Spend(@), p)]
  /\ UNCHANGED <<conv, nextConv, crashes>>

SelectFails(x) ==
  /\ ask[x].pc = "selecting"
  /\ Fails(x)
  /\ UNCHANGED <<conv, nextConv, crashes>>

-----------------------------------------------------------------------------
(* A round.                                                                *)

\* _one: dispatch comes back, the call is audited and its event published.
CallReturns(x, k, ok) ==
  /\ ask[x].pc = "running" /\ k \in 1..Len(ask[x].slots)
  /\ ask[x].slots[k] = "flying"
  /\ ask' = [ask EXCEPT ![x].slots[k] = IF ok THEN "ok" ELSE "failed",
                        ![x].audited = @ \cup {ask[x].before + k}]
  /\ UNCHANGED <<conv, nextConv, crashes>>

\* _one raises: gather keeps the exception as that call's result.
CallRaises(x, k) ==
  /\ ask[x].pc = "running" /\ k \in 1..Len(ask[x].slots)
  /\ ask[x].slots[k] = "flying"
  /\ ask' = [ask EXCEPT ![x].slots[k] = "raised"]
  /\ UNCHANGED <<conv, nextConv, crashes>>

\* Mutant of Gathered: a call that raised is left out.
GatheredOnlyResults(a) ==
  LET came(k) == a.slots[k] # "raised"
  IN  a.out \o [i \in 1..Len(SelectSeq([k \in 1..Len(a.slots) |-> k], came)) |->
        LET k == SelectSeq([j \in 1..Len(a.slots) |-> j], came)[i]
        IN  [call |-> a.pending[k], ok |-> a.slots[k] = "ok"]]

\* calls_out after the round: the results in the order they were selected.
Gathered(a) ==
  a.out \o [k \in 1..Len(a.slots) |->
              [call |-> a.pending[k], ok |-> a.slots[k] = "ok"]]

\* Mutant of AfterRound: the clock is looked at only before the first round.
AfterRoundNoDeadline(x, a) ==
  IF NeedsCompaction(a) THEN [a EXCEPT !.pc = "compacting"] ELSE ToFollow(a)

\* pending = []; the deadline check; compaction or the next selection.
AfterRound(x, a) ==
  IF a.late THEN ToSynthesis(x, a)
  ELSE IF NeedsCompaction(a) THEN [a EXCEPT !.pc = "compacting"]
  ELSE ToFollow(a)

RoundEnds(x) ==
  /\ ask[x].pc = "running"
  /\ \A k \in 1..Len(ask[x].slots) : ask[x].slots[k] # "flying"
  /\ LET a == [ask[x] EXCEPT !.out = Gathered(ask[x]),
                             !.pending = <<>>, !.slots = <<>>]
     IN  ask' = [ask EXCEPT ![x] = AfterRound(x, a)]
  /\ UNCHANGED <<conv, nextConv, crashes>>

\* Mutant of Compacted: the old digest is not folded in.
CompactedAfresh(a) ==
  [Spend(a) EXCEPT !.digest = (a.upto + 1)..a.before, !.upto = a.before]

\* grid.compact answered: the digest and the block become the new digest.
Compacted(a) ==
  [Spend(a) EXCEPT !.digest = @ \cup ((a.upto + 1)..a.before),
                   !.upto = a.before]

CompactReturns(x) ==
  /\ ask[x].pc = "compacting"
  /\ ask' = [ask EXCEPT ![x] = ToFollow(Compacted(@))]
  /\ UNCHANGED <<conv, nextConv, crashes>>

\* Failure to compact is never failure to answer.
CompactFails(x) ==
  /\ ask[x].pc = "compacting"
  /\ ask' = [ask EXCEPT ![x] = ToFollow(@)]
  /\ UNCHANGED <<conv, nextConv, crashes>>

\* The follow-up selection; asking for nothing new ends the gathering.
FollowReturns(x) ==
  /\ ask[x].pc = "following"
  /\ \E calls \in Selections, p \in Selections :
       /\ p = Dedupe(NotAlready(calls, ask[x].out))
       /\ ask' = [ask EXCEPT ![x] = IF p = <<>> THEN ToSynthesis(x, Spend(@))
                                                ELSE ToRound(Spend(@), p)]
  /\ UNCHANGED <<conv, nextConv, crashes>>

FollowFails(x) ==
  /\ ask[x].pc = "following"
  /\ ask' = [ask EXCEPT ![x] = ToSynthesis(x, @)]
  /\ UNCHANGED <<conv, nextConv, crashes>>

-----------------------------------------------------------------------------
(* Synthesis.                                                              *)

\* on_token: a piece of the answer reaches the page.
TokensArrive(x) ==
  /\ ask[x].pc = "streaming" /\ ask[x].shown = "none"
  /\ ask' = [ask EXCEPT ![x].shown = "part"]
  /\ UNCHANGED <<conv, nextConv, crashes>>

StreamReturns(x) ==
  /\ ask[x].pc = "streaming"
  /\ Finish(x, [Spend(ask[x]) EXCEPT !.shown = "all"])
  /\ UNCHANGED <<nextConv, crashes>>

\* Mutant of StreamFails: the stream is tried again, and again.
StreamFailsRetries(x) ==
  /\ ask[x].pc = "streaming"
  /\ ask' = [ask EXCEPT ![x].shown = "none"]
  /\ UNCHANGED <<conv, nextConv, crashes>>

\* Any failure of the stream: token_reset, then the plain call.
StreamFails(x) ==
  /\ ask[x].pc = "streaming"
  /\ ask' = [ask EXCEPT ![x].pc = "writing", ![x].shown = "none"]
  /\ UNCHANGED <<conv, nextConv, crashes>>

WriteReturns(x) ==
  /\ ask[x].pc = "writing"
  /\ Finish(x, Spend(ask[x]))
  /\ UNCHANGED <<nextConv, crashes>>

WriteFails(x) ==
  /\ ask[x].pc = "writing"
  /\ Fails(x)
  /\ UNCHANGED <<conv, nextConv, crashes>>

\* The gateway's answer is JSON of another shape ("choices": null, a usage that is no number):
\* what that raises is no GridError, so nothing catches it, in a compaction either, and the
\* question ends without an audit record.  So does what the preparation of the first
\* selection raises, such as a registry that cannot be loaded.
BodyEscapes(x) ==
  /\ ask[x].pc \in {"selecting", "compacting", "following", "writing"}
  /\ ask' = [ask EXCEPT ![x] = Errored(@)]
  /\ UNCHANGED <<conv, nextConv, crashes>>

-----------------------------------------------------------------------------
(* The world around it.                                                    *)

\* Mutant of Stop: the streaming fallback swallows the cancellation.
StopFallsBack(x) ==
  /\ x \in Streamed /\ Working(ask[x])
  /\ ask' = [ask EXCEPT ![x].status = "stopped",
                        ![x].pc = IF @ = "streaming" THEN "writing" ELSE "over"]
  /\ UNCHANGED <<conv, nextConv, crashes>>

\* The asker stops the run: CancelledError is raised at the await the
\* coroutine is suspended in, and in the calls of the round that still fly.
\* (RunStream models the delay between the two.)
Stop(x) ==
  /\ x \in Streamed /\ Working(ask[x])
  /\ ask' = [ask EXCEPT ![x].status = "stopped", ![x].pc = "over"]
  /\ UNCHANGED <<conv, nextConv, crashes>>

\* The window ANSWER_TIME_BUDGET_S of a question closes.
WindowCloses(x) ==
  /\ Working(ask[x]) /\ ~ask[x].late
  /\ ask' = [ask EXCEPT ![x].late = TRUE]
  /\ UNCHANGED <<conv, nextConv, crashes>>

\* Mutant of DeleteConversation: ids are not AUTOINCREMENT, so one is reused.
DeleteReusesId(c) ==
  /\ Exists(c)
  /\ conv' = [conv EXCEPT ![c] = [owner |-> NoUser, messages |-> <<>>]]
  /\ nextConv' = IF c = nextConv - 1 THEN c ELSE nextConv
  /\ UNCHANGED <<ask, crashes>>

\* DELETE /conversations/{c} by its owner, whatever is being answered in it.
DeleteConversation(c) ==
  /\ Exists(c)
  /\ conv' = [conv EXCEPT ![c] = [owner |-> NoUser, messages |-> <<>>]]
  /\ UNCHANGED <<ask, nextConv, crashes>>

LostUnlessOver(a) ==
  IF Working(a) THEN [a EXCEPT !.pc = "over", !.status = "lost"] ELSE a

\* The process dies.  The database keeps what was committed.
Crash ==
  /\ crashes < MaxCrashes
  /\ crashes' = crashes + 1
  /\ ask' = [x \in Asks |-> LostUnlessOver(ask[x])]
  /\ UNCHANGED <<conv, nextConv>>

\* It dies between two of the writes of an answer, or of a refusal.
CrashWhileStoring(x) ==
  /\ crashes < MaxCrashes
  /\ crashes' = crashes + 1
  /\ ask[x].pc \in {"selecting", "streaming", "writing"} /\ Exists(ask[x].conv)
  /\ LET a == Spend(ask[x]) IN
       /\ conv' = WithAnswer(x, a)
       /\ \E n \in 1..3, case \in BOOLEAN :
            /\ case => \E i \in 1..Len(a.out) : a.out[i].ok
            /\ ask' = [y \in Asks |-> IF y = x THEN Answered(a, n, case, "lost")
                                               ELSE LostUnlessOver(ask[y])]
  /\ UNCHANGED nextConv

-----------------------------------------------------------------------------

Replies(x) ==
  \/ Refuse(x) \/ SelectReturns(x) \/ SelectFails(x)
  \/ \E k \in 1..MaxPerRound :
       (\E ok \in BOOLEAN : CallReturns(x, k, ok)) \/ CallRaises(x, k)
  \/ RoundEnds(x)
  \/ CompactReturns(x) \/ CompactFails(x)
  \/ FollowReturns(x) \/ FollowFails(x)
  \/ StreamReturns(x) \/ StreamFails(x)
  \/ WriteReturns(x) \/ WriteFails(x) \/ BodyEscapes(x)

Next ==
  \/ \E x \in Asks :
       \/ AskNew(x) \/ (\E c \in ConvIds : AskInto(x, c) \/ AskMissing(x, c))
       \/ Replies(x)
       \/ TokensArrive(x) \/ Stop(x) \/ WindowCloses(x) \/ CrashWhileStoring(x)
  \/ \E c \in ConvIds : DeleteConversation(c)
  \/ Crash

Spec == Init /\ [][Next]_vars

\* Every await is answered: grid calls time out, so do executors, and the
\* event loop is fair to ready coroutines.  And time passes.
FairSpec == Spec /\ \A x \in Asks : WF_vars(Replies(x)) /\ WF_vars(WindowCloses(x))

\* The loop alone, for which both ways of writing an answer are one.
StageOf(a) == IF a.pc \in {"streaming", "writing"} THEN "synthesis" ELSE a.pc

Loop == INSTANCE Rounds WITH stage <- [x \in Asks |-> StageOf(ask[x])],
                             late  <- [x \in Asks |-> ask[x].late]

-----------------------------------------------------------------------------
(* Properties.                                                             *)

TypeOK ==
  /\ ask \in [Asks -> AskType]
  /\ conv \in [ConvIds -> ConvType]
  /\ nextConv \in 1..(MaxConvs + 1)
  /\ crashes \in 0..MaxCrashes

AnswersOf(x, c) ==
  {i \in 1..Len(conv[c].messages) :
     conv[c].messages[i].role = "assistant" /\ conv[c].messages[i].ask = x}

\* What the models are shown always stands for every call that ran, each
\* exactly once (digest and verbatim tail never overlap or leave a gap), and
\* a round that just ended is verbatim in the selection that follows it: the
\* bookkeeping of digest, digest_upto and keep_from across rounds, failed
\* compactions and growing evidence.
EvidenceIsWhole ==
  \A x \in Asks : LET a == ask[x] IN
    /\ Represented(a) = 1..Len(a.out)
    /\ a.digest = 1..a.upto
    /\ a.pc = "following" => a.upto <= a.before

\* An answer that was kept is, unless its conversation was deleted since, there exactly
\* once, after its question, in a conversation of the asker, carrying every call of the
\* question in selection order; and nowhere is an answer that was not kept.  A question that
\* is done was audited as ok and charged for every model call that was answered.
KeptAnswersAreWhole ==
  \A x \in Asks : LET a == ask[x] IN
    /\ ~a.kept => \A c \in ConvIds : AnswersOf(x, c) = {}
    /\ a.kept /\ Exists(a.conv) =>
         /\ conv[a.conv].owner = UserOf[x]
         /\ \E i \in 1..Len(conv[a.conv].messages) :
              /\ AnswersOf(x, a.conv) = {i}
              /\ conv[a.conv].messages[i].evidence = a.out
              /\ \E j \in 1..(i - 1) :
                   conv[a.conv].messages[j] = UserMessage(x)
    /\ a.status = "done" => a.kept /\ a.verdict = "ok" /\ a.charged = a.spent

\* A question that was stopped, is recorded as failed, was refused a conversation or is
\* still running has kept no answer, no case file, no ok audit record and no charge.
NothingBeforeTheAnswer ==
  \A x \in Asks : LET a == ask[x] IN
    a.status \in {"new", "running", "stopped"} \/ a.verdict = "failed" =>
      ~a.kept /\ ~a.case /\ a.verdict # "ok" /\ a.charged = 0

\* Whichever write fails, and whatever instant the process dies at, a charge has its audit
\* record, and an audit record or a case file saying the question was answered has the
\* answer stored before it.
WritesInOrder ==
  \A x \in Asks : LET a == ask[x] IN
    /\ a.charged > 0 => a.verdict = "ok"
    /\ (a.verdict = "ok" \/ a.case) => a.kept

\* Calls of a round run concurrently, yet calls_out lists them in the order
\* they were selected, one entry per selected call: a call that succeeded
\* according to the stored evidence was audited, and a call that was audited
\* is in the evidence.
EvidenceIsAudited ==
  \A x \in Asks : LET a == ask[x] IN
    /\ \A k \in 1..Len(a.out) : a.out[k].ok => k \in a.audited
    /\ a.pc \notin {"running", "over"} => a.audited \subseteq 1..Len(a.out)
    /\ a.status = "done" => a.audited \subseteq 1..Len(a.out)

\* The window overshoots by at most one selection and one round: past the
\* deadline at most one selection starts and at most one round does.
BoundedOvershoot ==
  \A x \in Asks : ask[x].lateSelects <= 1 /\ ask[x].lateRounds <= 1

\* The tokens the page was given since the last reset are none or the whole
\* answer once the question is done: half an answer from a stream that died is
\* never left in front of the answer that replaced it.
NoTornAnswer ==
  \A x \in Asks : ask[x].status = "done" => ask[x].shown # "part"

\* An answer is whole in its conversation before anything says that there is one: whatever
\* is deleted, stopped or asked beside it, whichever of its writes fails and whichever a
\* crash cuts.  It is not all or nothing: an answer may be left without its audit record or
\* its charge, and who asked be told of an error (ask.py:522-551).
AnswersHold ==
  /\ KeptAnswersAreWhole
  /\ NothingBeforeTheAnswer
  /\ WritesInOrder
  /\ NoTornAnswer

\* Once a question has ended, by answer, error, stop or crash, nothing about
\* it changes, and no later step adds an answer of it to any conversation: a
\* stop wins over an answer that is being written, streamed or retried.
EndedIsFinal ==
  [][\A x \in Asks : ask[x].status \notin {"new", "running"} =>
       /\ ask'[x] = ask[x]
       /\ \A c \in ConvIds : AnswersOf(x, c)' \subseteq AnswersOf(x, c)]_vars

\* Whatever is gathered, kept and folded, the questions go through the rounds of Rounds and
\* are as sure to end: no stage lasts, no failure begins another round, and none of the
\* awaits comes between the end of a round and the look at the clock (ask.py:429-471).
LoopIsRounds == Loop!FairRounds
=============================================================================
