--------------------------- MODULE AskLoopProofs ---------------------------
(***************************************************************************)
(* Proofs about AskLoop, for any questions, conversations, calls and sizes *)
(* of evidence.  The inductive invariant says of a question what holds of  *)
(* it before, while and after it is answered; of a conversation, that its  *)
(* number is not used again; and of the two, what the conversation holds   *)
(* of the question.                                                        *)
(***************************************************************************)
EXTENDS AskLoop, SequenceTheorems, TLAPS

-----------------------------------------------------------------------------
(* One question.                                                           *)

\* At any time: the digest stands for a beginning of the evidence that ends before the last
\* round, what succeeded was audited, and the window was overshot by one round at most.
BooksOK(a) ==
  /\ a.digest = 1..a.upto /\ a.upto <= a.before /\ a.before <= Len(a.out)
  /\ \A k \in 1..Len(a.out) : a.out[k].ok => k \in a.audited
  /\ a.lateSelects <= 1 /\ a.lateRounds <= 1
  /\ a.usage = a.spent

\* Of a round that runs: the positions it will fill are audited as its calls return.
RoundOK(a) ==
  /\ a.before = Len(a.out) /\ Len(a.slots) = Len(a.pending)
  /\ a.audited \subseteq 1..(Len(a.out) + Len(a.slots))
  /\ \A k \in 1..Len(a.slots) : a.slots[k] = "ok" => a.before + k \in a.audited

\* While the window is open nothing is late; once it is closed, the compaction that was
\* under way lets one selection begin, and a selection one round.
TimeOK(a) ==
  /\ ~a.late \/ a.pc \in {"selecting", "compacting"} => a.lateSelects = 0 /\ a.lateRounds = 0
  /\ a.pc = "following" => a.lateRounds = 0

\* Nothing of it is written.
Unwritten(a) == ~a.kept /\ ~a.case /\ a.verdict = "none" /\ a.charged = 0

\* While it is answered.
Underway(a) ==
  /\ Working(a) /\ a.status = "running" /\ a.conv # 0
  /\ Unwritten(a) /\ TimeOK(a)
  /\ a.pc # "running" => a.audited \subseteq 1..Len(a.out)
  /\ a.pc = "running" => RoundOK(a)
  /\ a.pc # "streaming" => a.shown = "none"

\* Once it has ended: its writes were made in their order, up to the last or to the one that
\* failed or that the crash cut.
Ended(a) ==
  /\ a.pc = "over" /\ a.status \in {"done", "error", "stopped", "lost"}
  /\ a.status = "stopped" \/ a.verdict = "failed" => ~a.kept
  /\ a.kept => a.conv # 0
  /\ ~a.kept => ~a.case /\ a.verdict # "ok"
  /\ a.verdict # "ok" => a.charged = 0
  /\ a.status = "done" => /\ a.kept /\ a.verdict = "ok" /\ a.charged = a.spent
                          /\ a.shown # "part" /\ a.audited \subseteq 1..Len(a.out)

AskOK(a) == a \in AskType /\ BooksOK(a) /\ (a = NewAsk \/ Underway(a) \/ Ended(a))

-----------------------------------------------------------------------------
(* What the helpers of the model leave as it is.                           *)

SameBooks(a, b) ==
  /\ b.out = a.out /\ b.before = a.before /\ b.audited = a.audited
  /\ b.digest = a.digest /\ b.upto = a.upto
SameTimes(a, b) == b.late = a.late /\ b.lateSelects = a.lateSelects /\ b.lateRounds = a.lateRounds
SameWrites(a, b) ==
  b.charged = a.charged /\ b.verdict = a.verdict /\ b.kept = a.kept /\ b.case = a.case
SameCosts(a, b) == b.usage = a.usage /\ b.spent = a.spent
SameRound(a, b) == b.pending = a.pending /\ b.slots = a.slots

\* The fields that a proof of arithmetic asks for.
LEMMA AskFields ==
  ASSUME NEW a \in AskType
  PROVE  /\ a.out \in Seq(CallOut) /\ Len(a.out) \in Nat /\ a.before \in Nat /\ a.upto \in Nat
         /\ a.usage \in Nat /\ a.spent \in Nat /\ a.charged \in Nat
         /\ a.lateSelects \in Nat /\ a.lateRounds \in Nat /\ a.late \in BOOLEAN
         /\ a.conv \in 0..MaxConvs /\ a.kept \in BOOLEAN /\ a.case \in BOOLEAN
BY DEF AskType

\* A call of a model is counted twice.
LEMMA SpendIs ==
  ASSUME NEW a \in AskType
  PROVE  LET b == Spend(a) IN
         /\ b \in AskType /\ b.usage = a.usage + 1 /\ b.spent = a.spent + 1
         /\ b.pc = a.pc /\ b.status = a.status /\ b.conv = a.conv /\ b.shown = a.shown
         /\ SameBooks(a, b) /\ SameTimes(a, b) /\ SameWrites(a, b) /\ SameRound(a, b)
<1> DEFINE u == a.usage + 1
           v == a.spent + 1
           b == [a EXCEPT !.usage = u, !.spent = v]
<1>1. u \in Nat /\ v \in Nat
  BY AskFields
<1>2. Spend(a) = b
  BY DEF Spend
<1> HIDE DEF u, v
<1>3. b \in AskType
  BY <1>1, Zenon DEF AskType
<1>4. /\ b.usage = u /\ b.spent = v
      /\ b.pc = a.pc /\ b.status = a.status /\ b.conv = a.conv /\ b.shown = a.shown
      /\ SameBooks(a, b) /\ SameTimes(a, b) /\ SameWrites(a, b) /\ SameRound(a, b)
  BY DEF AskType, SameBooks, SameTimes, SameWrites, SameRound
<1> QED
  BY <1>2, <1>3, <1>4 DEF u, v

\* Another selection.
LEMMA FollowIs ==
  ASSUME NEW a \in AskType
  PROVE  LET b == ToFollow(a) IN
         /\ b \in AskType /\ b.pc = "following"
         /\ b.late = a.late /\ b.lateSelects = a.lateSelects + Counted(a.late)
         /\ b.lateRounds = a.lateRounds
         /\ b.status = a.status /\ b.conv = a.conv /\ b.shown = a.shown
         /\ SameBooks(a, b) /\ SameCosts(a, b) /\ SameWrites(a, b) /\ SameRound(a, b)
<1> DEFINE w == a.lateSelects + Counted(a.late)
           b == [a EXCEPT !.pc = "following", !.lateSelects = w]
<1>1. w \in Nat
  BY AskFields DEF Counted
<1>2. ToFollow(a) = b
  BY DEF ToFollow
<1> HIDE DEF w
<1>3. b \in AskType
  BY <1>1, Zenon DEF AskType
<1>4. /\ b.pc = "following" /\ b.late = a.late /\ b.lateSelects = w
      /\ b.lateRounds = a.lateRounds
      /\ b.status = a.status /\ b.conv = a.conv /\ b.shown = a.shown
      /\ SameBooks(a, b) /\ SameCosts(a, b) /\ SameWrites(a, b) /\ SameRound(a, b)
  BY DEF AskType, SameBooks, SameCosts, SameWrites, SameRound
<1> QED
  BY <1>2, <1>3, <1>4 DEF w

\* Another round.
LEMMA RoundIs ==
  ASSUME NEW a \in AskType, NEW p \in Seq(Calls)
  PROVE  LET b == ToRound(a, p) IN
         /\ b \in AskType /\ b.pc = "running" /\ b.pending = p
         /\ b.slots = [k \in 1..Len(p) |-> "flying"] /\ b.before = Len(a.out)
         /\ b.late = a.late /\ b.lateRounds = a.lateRounds + Counted(a.late)
         /\ b.lateSelects = a.lateSelects
         /\ b.status = a.status /\ b.conv = a.conv /\ b.shown = a.shown
         /\ b.out = a.out /\ b.audited = a.audited /\ b.digest = a.digest /\ b.upto = a.upto
         /\ SameCosts(a, b) /\ SameWrites(a, b)
<1> DEFINE w == a.lateRounds + Counted(a.late)
           s == [k \in 1..Len(p) |-> "flying"]
           n == Len(a.out)
           b == [a EXCEPT !.pc = "running", !.pending = p, !.slots = s, !.before = n,
                          !.lateRounds = w]
<1>1. w \in Nat /\ n \in Nat
  BY AskFields DEF Counted
<1>5. s \in Seq({"flying", "ok", "failed", "raised"})
  <2>1. Len(p) \in Nat
    OBVIOUS
  <2> QED
    BY <2>1, IsASeq
<1>2. ToRound(a, p) = b
  BY DEF ToRound
<1> HIDE DEF w, s, n
<1>3. b \in AskType
  BY <1>1, <1>5, Zenon DEF AskType
<1>4. /\ b.pc = "running" /\ b.pending = p /\ b.slots = s /\ b.before = n
      /\ b.late = a.late /\ b.lateRounds = w /\ b.lateSelects = a.lateSelects
      /\ b.status = a.status /\ b.conv = a.conv /\ b.shown = a.shown
      /\ b.out = a.out /\ b.audited = a.audited /\ b.digest = a.digest /\ b.upto = a.upto
      /\ SameCosts(a, b) /\ SameWrites(a, b)
  BY DEF AskType, SameCosts, SameWrites
<1> QED
  BY <1>2, <1>3, <1>4 DEF w, s, n

\* Another step of the coroutine, another status, another verdict or other tokens.
Staged(a, pc, status, verdict, shown, late, c) ==
  [a EXCEPT !.pc = pc, !.status = status, !.verdict = verdict, !.shown = shown,
            !.late = late, !.conv = c]

Stages == {"idle", "selecting", "running", "compacting", "following", "streaming", "writing",
           "over"}
Statuses == {"new", "running", "done", "error", "stopped", "lost"}
Verdicts == {"none", "ok", "failed"}
Tokens == {"none", "part", "all"}

\* The fields it changes, and those it does not.
LEMMA StageIs ==
  ASSUME NEW a \in AskType,
         NEW pc \in Stages, NEW status \in Statuses, NEW verdict \in Verdicts,
         NEW shown \in Tokens, NEW late \in BOOLEAN, NEW c \in 0..MaxConvs
  PROVE  LET b == Staged(a, pc, status, verdict, shown, late, c) IN
         /\ b \in AskType /\ b.pc = pc /\ b.status = status /\ b.verdict = verdict
         /\ b.shown = shown /\ b.late = late /\ b.conv = c
         /\ b.lateSelects = a.lateSelects /\ b.lateRounds = a.lateRounds
         /\ b.kept = a.kept /\ b.case = a.case /\ b.charged = a.charged
         /\ SameBooks(a, b) /\ SameCosts(a, b) /\ SameRound(a, b)
<1> DEFINE b == [a EXCEPT !.pc = pc, !.status = status, !.verdict = verdict,
                          !.shown = shown, !.late = late, !.conv = c]
<1>1. b \in AskType
  <2> DEFINE b1 == [a EXCEPT !.pc = pc, !.status = status, !.verdict = verdict]
             b2 == [b1 EXCEPT !.shown = shown, !.late = late, !.conv = c]
  <2>1. b1 \in AskType
    BY Zenon DEF AskType, Stages, Statuses, Verdicts
  <2>2. b = b2
    BY DEF AskType
  <2> HIDE DEF b1, b
  <2>3. b2 \in AskType
    BY <2>1, Zenon DEF AskType, Tokens
  <2> QED
    BY <2>2, <2>3
<1>2. /\ b.pc = pc /\ b.status = status /\ b.verdict = verdict
      /\ b.shown = shown /\ b.late = late /\ b.conv = c
      /\ b.lateSelects = a.lateSelects /\ b.lateRounds = a.lateRounds
      /\ b.kept = a.kept /\ b.case = a.case /\ b.charged = a.charged
      /\ SameBooks(a, b) /\ SameCosts(a, b) /\ SameRound(a, b)
  BY DEF AskType, SameBooks, SameCosts, SameRound
<1>3. Staged(a, pc, status, verdict, shown, late, c) = b
  BY DEF Staged
<1> HIDE DEF b
<1> QED
  BY <1>1, <1>2, <1>3

\* An opened and a failed question are such records.
LEMMA StagesAre ==
  ASSUME NEW a \in AskType, NEW c
  PROVE  /\ Opened(a, c) =
              Staged(a, "selecting", "running", a.verdict, a.shown, a.late, c)
         /\ Errored(a) =
              Staged(a, "over", "error", a.verdict, a.shown, a.late, a.conv)
         /\ Failed(a) =
              Staged(a, "over", "error", "failed", a.shown, a.late, a.conv)
BY DEF AskType, Opened, Failed, Errored, Staged

\* The writes of an answer, the first n of them.
IsAnswered(a, b, n, case, status) ==
  /\ b \in AskType /\ b.pc = "over" /\ b.kept = (n >= 1) /\ b.case = case
  /\ b.verdict = (IF n >= 2 THEN "ok" ELSE a.verdict)
  /\ b.charged = (IF n >= 3 THEN a.usage ELSE a.charged)
  /\ b.status = status /\ b.conv = a.conv /\ b.shown = a.shown
  /\ SameBooks(a, b) /\ SameTimes(a, b) /\ SameCosts(a, b)

LEMMA AnsweredIs ==
  ASSUME NEW a \in AskType, NEW n \in 0..3, NEW case \in BOOLEAN,
         NEW status \in {"done", "error", "lost"}
  PROVE  IsAnswered(a, Answered(a, n, case, status), n, case, status)
<1> DEFINE verdict == IF n >= 2 THEN "ok" ELSE a.verdict
           charged == IF n >= 3 THEN a.usage ELSE a.charged
           kept == n >= 1
           b1 == [a EXCEPT !.kept = kept, !.case = case, !.verdict = verdict]
           b == [b1 EXCEPT !.charged = charged, !.pc = "over", !.status = status]
<1>1. kept \in BOOLEAN
  OBVIOUS
<1>2. charged \in Nat
  BY AskFields
<1>3. verdict \in {"none", "ok", "failed"}
  BY DEF AskType
<1>4. status \in {"new", "running", "done", "error", "stopped", "lost"}
  OBVIOUS
<1>5. Answered(a, n, case, status) = b
  BY DEF Answered, AskType
<1> HIDE DEF verdict, charged, kept
<1>6. b1 \in AskType
  BY <1>1, <1>3, Zenon DEF AskType
<1>7. /\ b1.kept = kept /\ b1.case = case /\ b1.verdict = verdict
      /\ b1.conv = a.conv /\ b1.shown = a.shown
      /\ SameBooks(a, b1) /\ SameTimes(a, b1) /\ SameCosts(a, b1)
  BY DEF AskType, SameBooks, SameTimes, SameCosts
<1> HIDE DEF b1
<1>8. b \in AskType
  BY <1>2, <1>4, <1>6, Zenon DEF AskType
<1>9. /\ b.kept = kept /\ b.case = case /\ b.verdict = verdict /\ b.charged = charged
      /\ b.pc = "over" /\ b.status = status /\ b.conv = a.conv /\ b.shown = a.shown
      /\ SameBooks(a, b) /\ SameTimes(a, b) /\ SameCosts(a, b)
  BY <1>6, <1>7 DEF AskType, SameBooks, SameTimes, SameCosts
<1> HIDE DEF b
<1> QED
  BY <1>1, <1>5, <1>8, <1>9 DEF IsAnswered, verdict, charged, kept

\* A round that is over.
LEMMA RoundOverIs ==
  ASSUME NEW a \in AskType, NEW out \in Seq(CallOut)
  PROVE  LET b == [a EXCEPT !.out = out, !.pending = <<>>, !.slots = <<>>] IN
         /\ b \in AskType /\ b.out = out /\ b.audited = a.audited /\ b.before = a.before
         /\ b.digest = a.digest /\ b.upto = a.upto /\ b.pc = a.pc /\ b.status = a.status
         /\ b.conv = a.conv /\ b.shown = a.shown
         /\ SameTimes(a, b) /\ SameWrites(a, b) /\ SameCosts(a, b)
<1> DEFINE none == <<>>
           b == [a EXCEPT !.out = out, !.pending = none, !.slots = none]
<1>1. none \in Seq(Calls) /\ none \in Seq({"flying", "ok", "failed", "raised"})
  OBVIOUS
<1> HIDE DEF none
<1>2. b \in AskType
  BY <1>1, Zenon DEF AskType
<1>3. /\ b.out = out /\ b.audited = a.audited /\ b.before = a.before
      /\ b.digest = a.digest /\ b.upto = a.upto /\ b.pc = a.pc /\ b.status = a.status
      /\ b.conv = a.conv /\ b.shown = a.shown
      /\ SameTimes(a, b) /\ SameWrites(a, b) /\ SameCosts(a, b)
  BY DEF AskType, SameTimes, SameWrites, SameCosts
<1> QED
  BY <1>2, <1>3, Zenon DEF none

\* A call of a round that came back.
LEMMA ReturnIs ==
  ASSUME NEW a \in AskType, NEW slots \in Seq({"flying", "ok", "failed", "raised"}),
         NEW audited \in SUBSET Nat
  PROVE  LET b == [a EXCEPT !.slots = slots, !.audited = audited] IN
         /\ b \in AskType /\ b.out = a.out /\ b.pending = a.pending /\ b.slots = slots
         /\ b.audited = audited /\ b.before = a.before /\ b.digest = a.digest
         /\ b.upto = a.upto /\ b.pc = a.pc /\ b.status = a.status /\ b.conv = a.conv
         /\ b.shown = a.shown
         /\ SameTimes(a, b) /\ SameWrites(a, b) /\ SameCosts(a, b)
<1> DEFINE b == [a EXCEPT !.slots = slots, !.audited = audited]
<1>5. b \in AskType
  BY Zenon DEF AskType
<1>4. /\ b.out = a.out /\ b.pending = a.pending /\ b.slots = slots
      /\ b.audited = audited /\ b.before = a.before /\ b.digest = a.digest
      /\ b.upto = a.upto /\ b.pc = a.pc /\ b.status = a.status /\ b.conv = a.conv
      /\ b.shown = a.shown
      /\ SameTimes(a, b) /\ SameWrites(a, b) /\ SameCosts(a, b)
  BY DEF AskType, SameTimes, SameWrites, SameCosts
<1> QED
  BY <1>4, <1>5, Zenon

\* The digest after a compaction.
LEMMA CompactedIs ==
  ASSUME NEW a \in AskType
  PROVE  LET b == Compacted(a) IN
         /\ b \in AskType /\ b.digest = a.digest \cup ((a.upto + 1)..a.before)
         /\ b.upto = a.before /\ b.usage = a.usage + 1 /\ b.spent = a.spent + 1
         /\ b.out = a.out /\ b.before = a.before /\ b.audited = a.audited
         /\ b.pc = a.pc /\ b.status = a.status /\ b.conv = a.conv /\ b.shown = a.shown
         /\ SameTimes(a, b) /\ SameWrites(a, b)
<1> DEFINE s == Spend(a)
           digest == a.digest \cup ((a.upto + 1)..a.before)
           before == a.before
           b == [s EXCEPT !.digest = digest, !.upto = before]
<1>1. /\ s \in AskType /\ s.usage = a.usage + 1 /\ s.spent = a.spent + 1
      /\ s.pc = a.pc /\ s.status = a.status /\ s.conv = a.conv /\ s.shown = a.shown
      /\ SameBooks(a, s) /\ SameTimes(a, s) /\ SameWrites(a, s)
  BY SpendIs
<1>2. digest \in SUBSET Nat /\ before \in Nat
  <2>1. a.digest \in SUBSET Nat /\ a.upto \in Nat /\ a.before \in Nat
    BY DEF AskType
  <2> QED
    BY <2>1
<1>3. Compacted(a) = b
  <2>1. s.digest = a.digest
    BY <1>1 DEF SameBooks
  <2> QED
    BY <1>1, <2>1 DEF Compacted, AskType
<1> HIDE DEF s, digest, before
<1>4. b \in AskType
  BY <1>1, <1>2, Zenon DEF AskType
<1>5. /\ b.digest = digest /\ b.upto = before /\ b.usage = s.usage /\ b.spent = s.spent
      /\ b.out = s.out /\ b.before = s.before /\ b.audited = s.audited
      /\ b.pc = s.pc /\ b.status = s.status /\ b.conv = s.conv /\ b.shown = s.shown
      /\ SameTimes(s, b) /\ SameWrites(s, b)
  BY <1>1 DEF AskType, SameTimes, SameWrites
<1> HIDE DEF b
<1> QED
  BY <1>1, <1>3, <1>4, <1>5 DEF digest, before, SameBooks, SameTimes, SameWrites

-----------------------------------------------------------------------------
(* What holds of a question after each of them.                            *)

\* Between two awaits: no round runs, and no token is shown.
Between(a) ==
  /\ a \in AskType /\ BooksOK(a)
  /\ Working(a) /\ a.status = "running" /\ a.conv # 0 /\ Unwritten(a)
  /\ ~a.late => a.lateSelects = 0 /\ a.lateRounds = 0
  /\ a.audited \subseteq 1..Len(a.out) /\ a.shown = "none"

\* A question that is underway, and what no step of its coroutine changes of it.
Goes(a, b) ==
  /\ AskOK(b) /\ Underway(b) /\ b.conv = a.conv /\ ~a.kept /\ ~b.kept

\* A model's answer is counted.
LEMMA SpendKeeps ==
  ASSUME NEW a, AskOK(a), Underway(a)
  PROVE  Goes(a, Spend(a)) /\ Spend(a).pc = a.pc /\ SameBooks(a, Spend(a))
         /\ SameTimes(a, Spend(a)) /\ Spend(a).shown = a.shown
<1> DEFINE b == Spend(a)
<1>1. a \in AskType
  BY DEF AskOK
<1>2. /\ b \in AskType /\ b.usage = a.usage + 1 /\ b.spent = a.spent + 1
      /\ b.pc = a.pc /\ b.status = a.status /\ b.conv = a.conv /\ b.shown = a.shown
      /\ SameBooks(a, b) /\ SameTimes(a, b) /\ SameWrites(a, b) /\ SameRound(a, b)
  BY <1>1, SpendIs
<1> HIDE DEF b
<1>3. b.usage = b.spent
  BY <1>2 DEF AskOK, BooksOK
<1>4. BooksOK(b)
  BY <1>2, <1>3 DEF AskOK, BooksOK, SameBooks, SameTimes
<1>5. Underway(b)
  BY <1>2 DEF Underway, Working, Unwritten, TimeOK, RoundOK, SameBooks, SameTimes, SameWrites,
              SameRound
<1> QED
  BY <1>2, <1>4, <1>5 DEF Goes, AskOK, Underway, Unwritten, b

\* Where no round runs and no token is shown.
LEMMA UnderwayBetween ==
  ASSUME NEW a, AskOK(a), Underway(a), a.pc \notin {"running", "streaming"}
  PROVE  Between(a)
BY DEF Between, AskOK, Underway, TimeOK

\* Another selection: it is late if a compaction was under way as the window closed.
LEMMA FollowKeeps ==
  ASSUME NEW a, Between(a), a.lateSelects = 0, a.lateRounds = 0
  PROVE  Goes(a, ToFollow(a))
<1> DEFINE b == ToFollow(a)
<1>1. /\ b \in AskType /\ b.pc = "following"
      /\ b.late = a.late /\ b.lateSelects = a.lateSelects + Counted(a.late)
      /\ b.lateRounds = a.lateRounds
      /\ b.status = a.status /\ b.conv = a.conv /\ b.shown = a.shown
      /\ SameBooks(a, b) /\ SameCosts(a, b) /\ SameWrites(a, b) /\ SameRound(a, b)
  BY FollowIs DEF Between
<1> HIDE DEF b
<1>2. b.lateSelects <= 1 /\ b.lateRounds <= 1 /\ b.lateRounds = 0
      /\ (~b.late => b.lateSelects = 0)
  BY <1>1 DEF Counted
<1>3. BooksOK(b)
  BY <1>1, <1>2 DEF Between, BooksOK, SameBooks, SameCosts
<1>4. Underway(b)
  BY <1>1, <1>2 DEF Between, Underway, Working, Unwritten, TimeOK, SameBooks, SameWrites
<1> QED
  BY <1>1, <1>3, <1>4 DEF Goes, AskOK, Between, Unwritten, Underway, b

\* Another round: it is late if its selection was, or if the window closed meanwhile.
LEMMA RoundKeeps ==
  ASSUME NEW a, Between(a), a.lateRounds = 0, NEW p \in Seq(Calls)
  PROVE  Goes(a, ToRound(a, p))
<1> DEFINE b == ToRound(a, p)
<1>1. /\ b \in AskType /\ b.pc = "running" /\ b.pending = p
      /\ b.slots = [k \in 1..Len(p) |-> "flying"] /\ b.before = Len(a.out)
      /\ b.late = a.late /\ b.lateRounds = a.lateRounds + Counted(a.late)
      /\ b.lateSelects = a.lateSelects
      /\ b.status = a.status /\ b.conv = a.conv /\ b.shown = a.shown
      /\ b.out = a.out /\ b.audited = a.audited /\ b.digest = a.digest /\ b.upto = a.upto
      /\ SameCosts(a, b) /\ SameWrites(a, b)
  BY RoundIs DEF Between
<1>0. Len(p) \in Nat /\ Len(a.out) \in Nat /\ a.upto \in Nat /\ a.before \in Nat
  BY AskFields DEF Between
<1> HIDE DEF b
<1>2. b.lateRounds <= 1 /\ (~b.late => b.lateRounds = 0)
  BY <1>1 DEF Counted
<1>3. b.upto <= b.before /\ b.before <= Len(b.out)
  BY <1>0, <1>1 DEF Between, BooksOK
<1>4. BooksOK(b)
  BY <1>1, <1>2, <1>3 DEF Between, BooksOK, SameCosts
<1>5. Len(b.slots) = Len(b.pending)
  BY <1>0, <1>1
<1>6. \A k \in 1..Len(b.slots) : b.slots[k] # "ok"
  BY <1>0, <1>1, <1>5
<1>7. b.audited \subseteq 1..(Len(b.out) + Len(b.slots))
  <2>1. 1..Len(a.out) \subseteq 1..(Len(a.out) + Len(p))
    BY <1>0
  <2>2. b.audited \subseteq 1..Len(a.out)
    BY <1>1 DEF Between
  <2> QED
    BY <1>1, <1>5, <2>1, <2>2
<1>8. RoundOK(b)
  BY <1>1, <1>5, <1>6, <1>7 DEF RoundOK
<1>9. Underway(b)
  BY <1>1, <1>2, <1>8 DEF Between, Underway, Working, Unwritten, TimeOK, SameWrites
<1> QED
  BY <1>1, <1>4, <1>9 DEF Goes, AskOK, Between, Unwritten, Underway, b

\* The same question at another step, with as many tokens shown, or in another time.
LEMMA StageKeeps ==
  ASSUME NEW a \in AskType, BooksOK(a), NEW b \in AskType, b.status = "running",
         b.conv # 0, ~b.kept, ~b.case, b.verdict = "none", b.charged = 0,
         b.lateSelects = a.lateSelects, b.lateRounds = a.lateRounds,
         SameBooks(a, b), SameCosts(a, b), b.audited \subseteq 1..Len(b.out),
         b.pc \in {"selecting", "compacting", "following", "streaming", "writing"},
         TimeOK(b), b.pc # "streaming" => b.shown = "none"
  PROVE  AskOK(b) /\ Underway(b)
<1>1. BooksOK(b)
  BY DEF BooksOK, SameBooks, SameCosts
<1>2. Underway(b)
  BY DEF Underway, Working, Unwritten
<1> QED
  BY <1>1, <1>2 DEF AskOK

\* A question that ends without an answer leaves nothing written.
LEMMA EndKeeps ==
  ASSUME NEW a, AskOK(a), a = NewAsk \/ Underway(a), NEW b \in AskType,
         b.pc = "over", b.status \in {"error", "stopped", "lost"},
         b.verdict \in {a.verdict, "failed"}, b.kept = a.kept, b.case = a.case,
         b.charged = a.charged, b.lateSelects = a.lateSelects, b.lateRounds = a.lateRounds,
         SameBooks(a, b), SameCosts(a, b)
  PROVE  AskOK(b) /\ Ended(b) /\ ~b.kept /\ ~a.kept
<1>1. BooksOK(b)
  BY DEF AskOK, BooksOK, SameBooks, SameCosts
<1>2. Unwritten(a)
  BY DEF Underway, Unwritten, NewAsk
<1>3. Ended(b) /\ ~b.kept /\ ~a.kept
  BY <1>2 DEF Ended, Unwritten
<1> QED
  BY <1>1, <1>3 DEF AskOK

\* What StageIs says, of a step to another stage.
LEMMA PcIs ==
  ASSUME NEW a \in AskType, NEW pc \in {"compacting", "streaming", "writing"}
  PROVE  LET b == [a EXCEPT !.pc = pc] IN
         /\ b \in AskType /\ b.pc = pc /\ b.status = a.status /\ b.verdict = a.verdict
         /\ b.shown = a.shown /\ b.late = a.late /\ b.conv = a.conv
         /\ b.lateSelects = a.lateSelects /\ b.lateRounds = a.lateRounds
         /\ b.kept = a.kept /\ b.case = a.case /\ b.charged = a.charged
         /\ SameBooks(a, b) /\ SameCosts(a, b)
<1> DEFINE b == [a EXCEPT !.pc = pc]
<1>1. b \in AskType
  BY Zenon DEF AskType
<1>2. /\ b.pc = pc /\ b.status = a.status /\ b.verdict = a.verdict
      /\ b.shown = a.shown /\ b.late = a.late /\ b.conv = a.conv
      /\ b.lateSelects = a.lateSelects /\ b.lateRounds = a.lateRounds
      /\ b.kept = a.kept /\ b.case = a.case /\ b.charged = a.charged
      /\ SameBooks(a, b) /\ SameCosts(a, b)
  BY DEF AskType, SameBooks, SameCosts
<1> QED
  BY <1>1, <1>2, Zenon

\* The next stage, from between two awaits.
LEMMA NextStage ==
  ASSUME NEW a, Between(a), NEW pc \in {"compacting", "streaming", "writing"},
         pc = "compacting" => a.lateSelects = 0 /\ a.lateRounds = 0
  PROVE  Goes(a, [a EXCEPT !.pc = pc])
<1> DEFINE b == [a EXCEPT !.pc = pc]
<1>1. a \in AskType /\ BooksOK(a)
  BY DEF Between
<1>2. /\ b \in AskType /\ b.pc = pc /\ b.status = a.status /\ b.verdict = a.verdict
      /\ b.shown = a.shown /\ b.late = a.late /\ b.conv = a.conv
      /\ b.lateSelects = a.lateSelects /\ b.lateRounds = a.lateRounds
      /\ b.kept = a.kept /\ b.case = a.case /\ b.charged = a.charged
      /\ SameBooks(a, b) /\ SameCosts(a, b)
  BY <1>1, PcIs
<1> HIDE DEF b
<1>3. TimeOK(b)
  BY <1>2 DEF TimeOK, Between
<1>4. AskOK(b) /\ Underway(b)
  BY <1>1, <1>2, <1>3, StageKeeps DEF Between, Unwritten, SameBooks
<1> QED
  BY <1>2, <1>4 DEF Goes, Between, Unwritten, b

\* The synthesis begins.
LEMMA SynthesisKeeps ==
  ASSUME NEW x, NEW a, Between(a)
  PROVE  Goes(a, ToSynthesis(x, a))
<1>1. CASE x \in Streamed
  BY <1>1, NextStage DEF ToSynthesis
<1>2. CASE x \notin Streamed
  BY <1>2, NextStage DEF ToSynthesis
<1> QED
  BY <1>1, <1>2

\* An answer is written, up to its nth write.
LEMMA AnsweredKeeps ==
  ASSUME NEW a, AskOK(a), Underway(a), a.pc # "running", NEW n \in 0..3, NEW case \in BOOLEAN,
         NEW status \in {"done", "error", "lost"}, case => n >= 1,
         status = "done" => n = 3 /\ a.shown # "part"
  PROVE  LET b == Answered(a, n, case, status) IN
         AskOK(b) /\ Ended(b) /\ b.kept = (n >= 1) /\ b.conv = a.conv /\ b.out = a.out
<1> DEFINE b == Answered(a, n, case, status)
<1>1. a \in AskType
  BY DEF AskOK
<1>2. /\ b \in AskType /\ b.pc = "over" /\ b.kept = (n >= 1) /\ b.case = case
      /\ b.verdict = (IF n >= 2 THEN "ok" ELSE a.verdict)
      /\ b.charged = (IF n >= 3 THEN a.usage ELSE a.charged)
      /\ b.status = status /\ b.conv = a.conv /\ b.shown = a.shown
      /\ SameBooks(a, b) /\ SameTimes(a, b) /\ SameCosts(a, b)
  <2>1. IsAnswered(a, b, n, case, status)
    BY <1>1, AnsweredIs
  <2> HIDE DEF b
  <2> QED
    BY <2>1 DEF IsAnswered
<1> HIDE DEF b
<1>3. BooksOK(b)
  BY <1>2 DEF AskOK, BooksOK, SameBooks, SameTimes, SameCosts
<1>4. a.verdict = "none" /\ a.charged = 0 /\ a.conv # 0 /\ a.audited \subseteq 1..Len(a.out)
  BY DEF Underway, Unwritten
<1>5. /\ b.verdict = "failed" => ~b.kept
      /\ ~b.kept => ~b.case /\ b.verdict # "ok"
      /\ b.verdict # "ok" => b.charged = 0
  <2>1. (n >= 3 => n >= 2) /\ (n >= 2 => n >= 1)
    OBVIOUS
  <2> QED
    BY <1>2, <1>4, <2>1
<1>6. ASSUME status = "done"
      PROVE  /\ b.kept /\ b.verdict = "ok" /\ b.charged = b.spent
             /\ b.shown # "part" /\ b.audited \subseteq 1..Len(b.out)
  <2>0. n >= 1 /\ n >= 2 /\ n >= 3
    BY <1>6
  <2>1. b.charged = a.usage /\ b.verdict = "ok" /\ b.kept
    BY <1>2, <2>0, Zenon
  <2>2. a.usage = b.spent
    BY <1>2 DEF AskOK, BooksOK, SameCosts
  <2> QED
    BY <1>2, <1>4, <1>6, <2>1, <2>2 DEF SameBooks
<1>7. Ended(b)
  BY <1>2, <1>4, <1>5, <1>6 DEF Ended
<1> QED
  BY <1>2, <1>3, <1>7 DEF AskOK, SameBooks, b

\* The old digest and the block it is compacted with stand for all that came before the
\* last round.
LEMMA CompactedKeeps ==
  ASSUME NEW a, AskOK(a), Underway(a), a.pc = "compacting"
  PROVE  /\ Between(Compacted(a)) /\ Compacted(a).conv = a.conv
         /\ Compacted(a).lateSelects = 0 /\ Compacted(a).lateRounds = 0
<1> DEFINE b == Compacted(a)
<1>1. a \in AskType /\ BooksOK(a)
  BY DEF AskOK
<1>2. /\ b \in AskType /\ b.digest = a.digest \cup ((a.upto + 1)..a.before)
      /\ b.upto = a.before /\ b.usage = a.usage + 1 /\ b.spent = a.spent + 1
      /\ b.out = a.out /\ b.before = a.before /\ b.audited = a.audited
      /\ b.pc = a.pc /\ b.status = a.status /\ b.conv = a.conv /\ b.shown = a.shown
      /\ SameTimes(a, b) /\ SameWrites(a, b)
  BY <1>1, CompactedIs
<1> HIDE DEF b
<1>3. a.upto \in Nat /\ a.before \in Nat /\ Len(a.out) \in Nat
  BY <1>1, AskFields
<1>4. b.digest = 1..b.upto
  <2>1. a.digest = 1..a.upto /\ a.upto <= a.before
    BY <1>1 DEF BooksOK
  <2> DEFINE u == a.upto
             n == a.before
  <2>2. u \in Nat /\ n \in Nat /\ u <= n
    BY <1>3, <2>1
  <2> HIDE DEF u, n
  <2>3. (1..u) \cup ((u + 1)..n) = 1..n
    BY <2>2
  <2> QED
    BY <1>2, <2>1, <2>3 DEF u, n
<1>5. b.upto <= b.before
  BY <1>2, <1>3
<1>6. b.usage = b.spent
  BY <1>1, <1>2 DEF BooksOK
<1>7. BooksOK(b)
  BY <1>1, <1>2, <1>4, <1>5, <1>6 DEF BooksOK, SameTimes
<1>8. Between(b)
  BY <1>2, <1>7 DEF Between, Underway, Working, Unwritten, TimeOK, SameTimes, SameWrites
<1> QED
  BY <1>2, <1>8 DEF Underway, TimeOK, SameTimes, b

\* A call of a round comes back, or raises.
LEMMA CallKeeps ==
  ASSUME NEW a, AskOK(a), Underway(a), a.pc = "running",
         NEW k \in 1..Len(a.slots), NEW result \in {"ok", "failed", "raised"},
         NEW audited \in {a.audited, a.audited \cup {a.before + k}},
         result = "ok" => a.before + k \in audited
  PROVE  LET slots == [a.slots EXCEPT ![k] = result] IN
         Goes(a, [a EXCEPT !.slots = slots, !.audited = audited])
<1> DEFINE slots == [a.slots EXCEPT ![k] = result]
           b == [a EXCEPT !.slots = slots, !.audited = audited]
<1>1. /\ a \in AskType /\ BooksOK(a) /\ a.out \in Seq(CallOut) /\ a.pending \in Seq(Calls)
      /\ a.slots \in Seq({"flying", "ok", "failed", "raised"}) /\ a.audited \in SUBSET Nat
      /\ a.before \in Nat /\ Len(a.out) \in Nat /\ Len(a.slots) \in Nat
  BY DEF AskOK, AskType
<1>2. /\ slots \in Seq({"flying", "ok", "failed", "raised"}) /\ Len(slots) = Len(a.slots)
      /\ slots[k] = result /\ \A j \in 1..Len(slots) : j # k => slots[j] = a.slots[j]
  BY <1>1, ExceptSeq
<1>3. audited \in SUBSET Nat
  BY <1>1
<1>4. /\ b \in AskType /\ b.out = a.out /\ b.pending = a.pending /\ b.slots = slots
      /\ b.audited = audited /\ b.before = a.before /\ b.digest = a.digest
      /\ b.upto = a.upto /\ b.pc = a.pc /\ b.status = a.status /\ b.conv = a.conv
      /\ b.shown = a.shown
      /\ SameTimes(a, b) /\ SameWrites(a, b) /\ SameCosts(a, b)
  BY <1>1, <1>2, <1>3, ReturnIs
<1> HIDE DEF slots, b
<1>5. RoundOK(a)
  BY DEF Underway
<1>6. BooksOK(b)
  BY <1>1, <1>4 DEF BooksOK, SameTimes, SameCosts
<1>7. b.audited \subseteq 1..(Len(b.out) + Len(b.slots))
  <2> DEFINE n == Len(a.out)
             m == Len(a.slots)
  <2>2. n \in Nat /\ m \in Nat /\ k \in 1..m /\ a.before = n
    BY <1>1, <1>5 DEF RoundOK
  <2> HIDE DEF n, m
  <2>3. n + k \in 1..(n + m)
    BY <2>2
  <2>1. a.before + k \in 1..(Len(a.out) + Len(a.slots))
    BY <2>2, <2>3 DEF n, m
  <2> QED
    BY <1>2, <1>4, <1>5, <2>1 DEF RoundOK
<1>8. \A j \in 1..Len(b.slots) : b.slots[j] = "ok" => b.before + j \in b.audited
  BY <1>2, <1>4, <1>5 DEF RoundOK
<1>9. RoundOK(b)
  BY <1>2, <1>4, <1>5, <1>7, <1>8 DEF RoundOK
<1>10. Underway(b)
  BY <1>4, <1>9 DEF Underway, Working, Unwritten, TimeOK, SameTimes, SameWrites
<1> QED
  BY <1>4, <1>6, <1>10 DEF Goes, AskOK, Underway, Unwritten, b, slots

\* The results of a round are put after those of the rounds before it, in the order the
\* calls were selected.
LEMMA GatheredKeeps ==
  ASSUME NEW a, AskOK(a), Underway(a), a.pc = "running"
  PROVE  LET b == [a EXCEPT !.out = Gathered(a), !.pending = <<>>, !.slots = <<>>] IN
         /\ Between(b) /\ b.late = a.late /\ b.conv = a.conv
         /\ ~a.kept
<1> DEFINE out == Gathered(a)
           b == [a EXCEPT !.out = out, !.pending = <<>>, !.slots = <<>>]
<1>1. /\ a \in AskType /\ BooksOK(a) /\ a.out \in Seq(CallOut) /\ a.pending \in Seq(Calls)
      /\ a.slots \in Seq({"flying", "ok", "failed", "raised"}) /\ a.audited \in SUBSET Nat
      /\ a.before \in Nat /\ a.upto \in Nat /\ Len(a.out) \in Nat /\ Len(a.slots) \in Nat
  BY DEF AskOK, AskType
<1>2. RoundOK(a)
  BY DEF Underway
<1> DEFINE new == [k \in 1..Len(a.slots) |-> [call |-> a.pending[k], ok |-> a.slots[k] = "ok"]]
<1>3. new \in Seq(CallOut) /\ Len(new) = Len(a.slots)
      /\ \A k \in 1..Len(a.slots) : new[k].ok <=> a.slots[k] = "ok"
  <2>1. \A k \in 1..Len(a.slots) : a.pending[k] \in Calls
    BY <1>1, <1>2 DEF RoundOK
  <2>2. \A k \in 1..Len(a.slots) : [call |-> a.pending[k], ok |-> a.slots[k] = "ok"] \in CallOut
    BY <2>1 DEF CallOut
  <2>3. new \in [1..Len(a.slots) -> CallOut]
    BY <2>2
  <2>6. \A k \in 1..Len(a.slots) : new[k].ok <=> a.slots[k] = "ok"
    OBVIOUS
  <2> DEFINE m == Len(a.slots)
  <2>7. new \in [1..m -> CallOut] /\ m \in Nat
    BY <1>1, <2>3
  <2> HIDE DEF new, m
  <2>4. new \in Seq(CallOut)
    BY <2>7, SeqDef
  <2>5. Len(new) = m
    BY <2>4, <2>7
  <2> QED
    BY <2>4, <2>5, <2>6 DEF m
<1>4. out = a.out \o new
  BY DEF Gathered
<1> HIDE DEF new, out
<1>5. /\ out \in Seq(CallOut) /\ Len(out) = Len(a.out) + Len(a.slots)
      /\ \A k \in 1..Len(a.out) : out[k] = a.out[k]
      /\ \A k \in (Len(a.out) + 1)..Len(out) : out[k] = new[k - Len(a.out)]
  <2> DEFINE old == a.out
  <2>1. old \in Seq(CallOut) /\ new \in Seq(CallOut) /\ out = old \o new
    BY <1>1, <1>3, <1>4
  <2> HIDE DEF old
  <2>2. /\ old \o new \in Seq(CallOut) /\ Len(old \o new) = Len(old) + Len(new)
        /\ \A i \in 1..Len(old \o new) :
             (old \o new)[i] = IF i <= Len(old) THEN old[i] ELSE new[i - Len(old)]
    BY <2>1, ConcatProperties
  <2>3. Len(old) \in Nat /\ Len(new) \in Nat
    BY <2>1
  <2>4. /\ \A k \in 1..Len(old) : out[k] = old[k]
        /\ \A k \in (Len(old) + 1)..Len(out) : out[k] = new[k - Len(old)]
    BY <2>1, <2>2, <2>3
  <2> QED
    BY <1>3, <2>1, <2>2, <2>4 DEF old
<1>6. /\ b \in AskType /\ b.out = out /\ b.audited = a.audited /\ b.before = a.before
      /\ b.digest = a.digest /\ b.upto = a.upto /\ b.pc = a.pc /\ b.status = a.status
      /\ b.conv = a.conv /\ b.shown = a.shown
      /\ SameTimes(a, b) /\ SameWrites(a, b) /\ SameCosts(a, b)
  BY <1>1, <1>5, RoundOverIs, Zenon
<1>7. b = [a EXCEPT !.out = Gathered(a), !.pending = <<>>, !.slots = <<>>]
  BY DEF out
<1> HIDE DEF b
<1>8. \A k \in 1..Len(out) : out[k].ok => k \in a.audited
  <2> TAKE k \in 1..Len(out)
  <2>1. CASE k <= Len(a.out)
    <3>1. k \in 1..Len(a.out)
      BY <1>1, <1>5, <2>1
    <3> QED
      BY <1>1, <1>5, <3>1 DEF BooksOK
  <2>2. CASE ~(k <= Len(a.out))
    <3> DEFINE j == k - Len(a.out)
    <3> DEFINE n == Len(a.out)
               m == Len(a.slots)
               l == Len(out)
    <3>3. n \in Nat /\ m \in Nat /\ l = n + m /\ k \in 1..l /\ ~(k <= n) /\ a.before = n
      BY <1>1, <1>2, <1>5, <2>2 DEF RoundOK
    <3> HIDE DEF n, m, l
    <3>4. k - n \in 1..m /\ k \in (n + 1)..l /\ n + (k - n) = k
      BY <3>3
    <3>1. j \in 1..Len(a.slots) /\ k \in (Len(a.out) + 1)..Len(out) /\ a.before + j = k
      BY <3>3, <3>4 DEF n, m, l
    <3>2. out[k] = new[j]
      BY <1>5, <3>1
    <3> HIDE DEF j
    <3> QED
      BY <1>2, <1>3, <3>1, <3>2 DEF RoundOK
  <2> QED
    BY <2>1, <2>2
<1>9. b.before <= Len(b.out)
  <2> DEFINE n == Len(a.out)
             m == Len(a.slots)
  <2>1. n \in Nat /\ m \in Nat /\ b.before = n /\ Len(b.out) = n + m
    BY <1>1, <1>2, <1>5, <1>6 DEF RoundOK
  <2> HIDE DEF n, m
  <2> QED
    BY <2>1
<1>10. BooksOK(b)
  BY <1>1, <1>6, <1>8, <1>9 DEF BooksOK, SameTimes, SameCosts
<1>11. b.audited \subseteq 1..Len(b.out)
  BY <1>2, <1>5, <1>6 DEF RoundOK
<1>12. Between(b)
  BY <1>6, <1>10, <1>11 DEF Between, Underway, Working, Unwritten, TimeOK, SameTimes, SameWrites
<1> QED
  BY <1>6, <1>7, <1>12 DEF Underway, Unwritten, SameTimes

\* A question that ends by an exception, by a stop or with the process.
LEMMA OverKeeps ==
  ASSUME NEW a, AskOK(a), a = NewAsk \/ Underway(a),
         NEW status \in {"error", "stopped", "lost"}, NEW verdict \in {a.verdict, "failed"}
  PROVE  LET b == Staged(a, "over", status, verdict, a.shown, a.late, a.conv) IN
         AskOK(b) /\ Ended(b) /\ ~b.kept /\ ~a.kept /\ b.conv = a.conv
<1> DEFINE shown == a.shown
           late == a.late
           c == a.conv
           b == Staged(a, "over", status, verdict, shown, late, c)
<1>1. /\ a \in AskType /\ verdict \in Verdicts /\ shown \in Tokens /\ late \in BOOLEAN
      /\ c \in 0..MaxConvs
  BY DEF AskOK, AskType, Verdicts, Tokens
<1>4. status \in Statuses /\ "over" \in Stages
  BY DEF Statuses, Stages
<1>0. c = a.conv
  OBVIOUS
<1> HIDE DEF shown, late, c
<1>2. /\ b \in AskType /\ b.pc = "over" /\ b.status = status /\ b.verdict = verdict
      /\ b.conv = c
      /\ b.lateSelects = a.lateSelects /\ b.lateRounds = a.lateRounds
      /\ b.kept = a.kept /\ b.case = a.case /\ b.charged = a.charged
      /\ SameBooks(a, b) /\ SameCosts(a, b)
  BY <1>1, <1>4, StageIs
<1> HIDE DEF b
<1>3. AskOK(b) /\ Ended(b) /\ ~b.kept /\ ~a.kept
  BY <1>2, EndKeeps
<1> QED
  BY <1>0, <1>2, <1>3 DEF b, shown, late, c

\* The same, by the names the model gives them.
LEMMA EndingKeeps ==
  ASSUME NEW a, AskOK(a), a = NewAsk \/ Underway(a)
  PROVE  \A b \in {Errored(a), Failed(a), [a EXCEPT !.status = "stopped", !.pc = "over"],
                   [a EXCEPT !.pc = "over", !.status = "lost"]} :
           AskOK(b) /\ Ended(b) /\ ~b.kept /\ ~a.kept /\ b.conv = a.conv
<1>1. a \in AskType
  BY DEF AskOK
<1>2. LET b == Errored(a) IN
      AskOK(b) /\ Ended(b) /\ ~b.kept /\ ~a.kept /\ b.conv = a.conv
  <2> DEFINE b == Staged(a, "over", "error", a.verdict, a.shown, a.late, a.conv)
  <2>1. Errored(a) = b
    BY <1>1, StagesAre
  <2>2. AskOK(b) /\ Ended(b) /\ ~b.kept /\ ~a.kept /\ b.conv = a.conv
    BY OverKeeps
  <2> HIDE DEF b
  <2> QED
    BY <2>1, <2>2
<1>3. LET b == Failed(a) IN
      AskOK(b) /\ Ended(b) /\ ~b.kept /\ ~a.kept /\ b.conv = a.conv
  <2> DEFINE b == Staged(a, "over", "error", "failed", a.shown, a.late, a.conv)
  <2>1. Failed(a) = b
    BY <1>1, StagesAre
  <2>2. AskOK(b) /\ Ended(b) /\ ~b.kept /\ ~a.kept /\ b.conv = a.conv
    BY OverKeeps
  <2> HIDE DEF b
  <2> QED
    BY <2>1, <2>2
<1>4. LET b == [a EXCEPT !.status = "stopped", !.pc = "over"] IN
      AskOK(b) /\ Ended(b) /\ ~b.kept /\ ~a.kept /\ b.conv = a.conv
  <2> DEFINE b == Staged(a, "over", "stopped", a.verdict, a.shown, a.late, a.conv)
  <2>1. [a EXCEPT !.status = "stopped", !.pc = "over"] = b
    BY <1>1 DEF Staged, AskType
  <2>2. AskOK(b) /\ Ended(b) /\ ~b.kept /\ ~a.kept /\ b.conv = a.conv
    BY OverKeeps
  <2> HIDE DEF b
  <2> QED
    BY <2>1, <2>2
<1>5. LET b == [a EXCEPT !.pc = "over", !.status = "lost"] IN
      AskOK(b) /\ Ended(b) /\ ~b.kept /\ ~a.kept /\ b.conv = a.conv
  <2> DEFINE b == Staged(a, "over", "lost", a.verdict, a.shown, a.late, a.conv)
  <2>1. [a EXCEPT !.pc = "over", !.status = "lost"] = b
    BY <1>1 DEF Staged, AskType
  <2>2. AskOK(b) /\ Ended(b) /\ ~b.kept /\ ~a.kept /\ b.conv = a.conv
    BY OverKeeps
  <2> HIDE DEF b
  <2> QED
    BY <2>1, <2>2
<1> QED
  BY <1>2, <1>3, <1>4, <1>5, Zenon

\* A question that was not asked is in order.
LEMMA NewAskOK == AskOK(NewAsk) /\ NewAsk.pc = "idle" /\ NewAsk.conv = 0 /\ ~NewAsk.kept
<1> DEFINE none == <<>>
<1>1. MaxConvs \in Nat
  BY EvidenceAssumption
<1>2. none \in Seq(Calls) /\ none \in Seq({"flying", "ok", "failed", "raised"})
      /\ none \in Seq(CallOut) /\ Len(none) = 0
  OBVIOUS
<1>3. 0 \in 0..MaxConvs /\ 0 \in Nat /\ {} \in SUBSET Nat /\ 1..0 = {}
  BY <1>1
<1>4. NewAsk = [pc |-> "idle", status |-> "new", conv |-> 0, pending |-> none,
                slots |-> none, out |-> none, before |-> 0, audited |-> {}, digest |-> {},
                upto |-> 0, usage |-> 0, spent |-> 0, charged |-> 0, verdict |-> "none",
                kept |-> FALSE, case |-> FALSE, late |-> FALSE,
                lateSelects |-> 0, lateRounds |-> 0, shown |-> "none"]
  BY DEF NewAsk
<1> HIDE DEF none
<1>5. NewAsk \in AskType
  BY <1>2, <1>3, <1>4, Zenon DEF AskType
<1>6. BooksOK(NewAsk)
  BY <1>2, <1>3, <1>4 DEF BooksOK
<1> QED
  BY <1>4, <1>5, <1>6 DEF AskOK

\* A question that is asked.
LEMMA OpenedKeeps ==
  ASSUME NEW c \in ConvIds
  PROVE  LET b == Opened(NewAsk, c) IN
         AskOK(b) /\ Underway(b) /\ ~b.kept /\ b.conv = c
<1> DEFINE a == NewAsk
           b == Opened(a, c)
<1>1. a \in AskType /\ AskOK(a) /\ BooksOK(a)
  BY NewAskOK DEF AskOK
<1>2. /\ a.verdict = "none" /\ a.shown = "none" /\ a.late = FALSE /\ ~a.kept /\ ~a.case
      /\ a.charged = 0 /\ a.lateSelects = 0 /\ a.lateRounds = 0 /\ a.audited = {}
  BY DEF NewAsk
<1>3. c \in 0..MaxConvs /\ c # 0
  BY DEF ConvIds
<1> DEFINE verdict == a.verdict
           shown == a.shown
           late == a.late
<1>4. b = Staged(a, "selecting", "running", verdict, shown, late, c)
  BY <1>1, StagesAre
<1>8. /\ verdict \in Verdicts /\ shown \in Tokens /\ late \in BOOLEAN
      /\ "selecting" \in Stages /\ "running" \in Statuses
  BY <1>2 DEF Verdicts, Tokens, Stages, Statuses
<1> HIDE DEF a, b, verdict, shown, late
<1>5. /\ b \in AskType /\ b.pc = "selecting" /\ b.status = "running" /\ b.verdict = verdict
      /\ b.shown = shown /\ b.late = late /\ b.conv = c
      /\ b.lateSelects = a.lateSelects /\ b.lateRounds = a.lateRounds
      /\ b.kept = a.kept /\ b.case = a.case /\ b.charged = a.charged
      /\ SameBooks(a, b) /\ SameCosts(a, b)
  <2> DEFINE d == Staged(a, "selecting", "running", verdict, shown, late, c)
  <2>1. /\ d \in AskType /\ d.pc = "selecting" /\ d.status = "running" /\ d.verdict = verdict
        /\ d.shown = shown /\ d.late = late /\ d.conv = c
        /\ d.lateSelects = a.lateSelects /\ d.lateRounds = a.lateRounds
        /\ d.kept = a.kept /\ d.case = a.case /\ d.charged = a.charged
        /\ SameBooks(a, d) /\ SameCosts(a, d)
    BY <1>1, <1>3, <1>8, StageIs
  <2> HIDE DEF d
  <2> QED
    BY <1>4, <2>1 DEF d
<1>9. b.verdict = "none" /\ b.shown = "none" /\ b.late = FALSE
  BY <1>2, <1>5 DEF verdict, shown, late
<1>6. TimeOK(b) /\ b.audited \subseteq 1..Len(b.out)
  BY <1>2, <1>5, <1>9 DEF TimeOK, SameBooks
<1>7. AskOK(b) /\ Underway(b)
  BY <1>1, <1>2, <1>3, <1>5, <1>6, <1>9, StageKeeps
<1> QED
  BY <1>2, <1>5, <1>7 DEF a, b

\* The window closes: what begins after this is late.
LEMMA LateKeeps ==
  ASSUME NEW a, AskOK(a), Underway(a), ~a.late
  PROVE  Goes(a, [a EXCEPT !.late = TRUE])
<1> DEFINE b == [a EXCEPT !.late = TRUE]
<1>1. a \in AskType /\ BooksOK(a)
  BY DEF AskOK
<1>2. b \in AskType
  BY <1>1, Zenon DEF AskType
<1>3. /\ b.pc = a.pc /\ b.status = a.status /\ b.conv = a.conv /\ b.shown = a.shown
      /\ b.lateSelects = a.lateSelects /\ b.lateRounds = a.lateRounds
      /\ SameBooks(a, b) /\ SameCosts(a, b) /\ SameWrites(a, b) /\ SameRound(a, b)
  BY <1>1 DEF AskType, SameBooks, SameCosts, SameWrites, SameRound
<1> HIDE DEF b
<1>4. BooksOK(b)
  BY <1>1, <1>3 DEF BooksOK, SameBooks, SameCosts
<1>5. TimeOK(b)
  BY <1>3 DEF TimeOK, Underway
<1>6. Underway(b)
  BY <1>3, <1>5 DEF Underway, Working, Unwritten, RoundOK, SameBooks, SameWrites, SameRound
<1> QED
  BY <1>2, <1>3, <1>4, <1>6 DEF Goes, AskOK, Underway, Unwritten, b

\* Tokens are shown, or taken back with the stream.
LEMMA ShownKeeps ==
  ASSUME NEW a, AskOK(a), Underway(a), a.pc = "streaming",
         NEW pc \in {"streaming", "writing"}, NEW shown \in {"none", "part", "all"},
         pc = "writing" => shown = "none"
  PROVE  LET b == Staged(a, pc, a.status, a.verdict, shown, a.late, a.conv) IN
         Goes(a, b) /\ b.pc = pc /\ b.shown = shown
<1> DEFINE status == a.status
           verdict == a.verdict
           late == a.late
           c == a.conv
           b == Staged(a, pc, status, verdict, shown, late, c)
<1>1. /\ a \in AskType /\ BooksOK(a) /\ verdict \in Verdicts /\ status \in Statuses
      /\ late \in BOOLEAN /\ c \in 0..MaxConvs /\ pc \in Stages /\ shown \in Tokens
  BY DEF AskOK, AskType, Verdicts, Statuses, Stages, Tokens
<1>5. status = a.status /\ verdict = a.verdict /\ late = a.late /\ c = a.conv
  OBVIOUS
<1> HIDE DEF status, verdict, late, c
<1>2. /\ b \in AskType /\ b.pc = pc /\ b.status = status /\ b.verdict = verdict
      /\ b.shown = shown /\ b.late = late /\ b.conv = c
      /\ b.lateSelects = a.lateSelects /\ b.lateRounds = a.lateRounds
      /\ b.kept = a.kept /\ b.case = a.case /\ b.charged = a.charged
      /\ SameBooks(a, b) /\ SameCosts(a, b)
  BY <1>1, StageIs
<1> HIDE DEF b
<1>3. TimeOK(b)
  BY <1>2, <1>5 DEF Underway, TimeOK
<1>4. AskOK(b) /\ Underway(b)
  BY <1>1, <1>2, <1>3, <1>5, StageKeeps DEF Underway, Unwritten, SameBooks
<1> QED
  BY <1>2, <1>4, <1>5 DEF Goes, Underway, Unwritten, b, status, verdict, late, c

-----------------------------------------------------------------------------
(* What a conversation holds of a question.                                *)

IsAnswerOf(m, x) == m.role = "assistant" /\ m.ask = x

NoAnswer(ms, x) == \A i \in 1..Len(ms) : ~IsAnswerOf(ms[i], x)

Asked(ms, x) == \E j \in 1..Len(ms) : ms[j] = UserMessage(x)

OneAnswer(ms, x, out) ==
  \E i \in 1..Len(ms) :
    /\ IsAnswerOf(ms[i], x) /\ ms[i].evidence = out
    /\ \A k \in 1..Len(ms) : IsAnswerOf(ms[k], x) => k = i
    /\ \E j \in 1..(i - 1) : ms[j] = UserMessage(x)

\* Of question x, whose record is a, in the conversations C of which n is the next: its
\* conversation is still its own, or gone, and has its answer if that was kept.
Stored(x, a, C, n) ==
  /\ a.kept => a.conv # 0
  /\ a.conv # 0 => a.conv < n
  /\ a.conv # 0 /\ C[a.conv].owner # NoUser =>
       C[a.conv].owner = UserOf[x] /\ Asked(C[a.conv].messages, x)
  /\ \A c \in ConvIds : ~a.kept \/ c # a.conv => NoAnswer(C[c].messages, x)
  /\ a.kept /\ C[a.conv].owner # NoUser => OneAnswer(C[a.conv].messages, x, a.out)

\* A message more, that is no answer of x.
LEMMA AnotherMessage ==
  ASSUME NEW ms \in Seq(Message), NEW m \in Message, NEW x, ~IsAnswerOf(m, x), NEW out
  PROVE  /\ Append(ms, m) \in Seq(Message)
         /\ NoAnswer(ms, x) => NoAnswer(Append(ms, m), x)
         /\ Asked(ms, x) => Asked(Append(ms, m), x)
         /\ OneAnswer(ms, x, out) => OneAnswer(Append(ms, m), x, out)
<1> DEFINE s == Append(ms, m)
           n == Len(ms)
<1>1. s \in Seq(Message) /\ Len(s) = n + 1 /\ s[n + 1] = m /\ n \in Nat
      /\ \A i \in 1..n : s[i] = ms[i]
  BY AppendProperties
<1> HIDE DEF s
<1>2. \A i \in 1..Len(s) : i \in 1..n \/ i = n + 1
  BY <1>1
<1>3. \A i \in 1..n : i \in 1..Len(s)
  BY <1>1
<1>4. NoAnswer(ms, x) => NoAnswer(s, x)
  BY <1>1, <1>2 DEF NoAnswer
<1>5. Asked(ms, x) => Asked(s, x)
  BY <1>1, <1>3 DEF Asked
<1>6. ASSUME OneAnswer(ms, x, out)
      PROVE  OneAnswer(s, x, out)
  <2>1. PICK i \in 1..n :
          /\ IsAnswerOf(ms[i], x) /\ ms[i].evidence = out
          /\ \A k \in 1..n : IsAnswerOf(ms[k], x) => k = i
          /\ \E j \in 1..(i - 1) : ms[j] = UserMessage(x)
    BY <1>6 DEF OneAnswer
  <2>2. PICK j \in 1..(i - 1) : ms[j] = UserMessage(x)
    BY <2>1
  <2>3. i \in 1..Len(s) /\ j \in 1..n
    BY <1>1
  <2>4. \A k \in 1..Len(s) : IsAnswerOf(s[k], x) => k = i
    BY <1>1, <1>2, <2>1
  <2>5. \E l \in 1..(i - 1) : s[l] = UserMessage(x)
    BY <1>1, <2>2, <2>3
  <2> QED
    BY <1>1, <2>1, <2>3, <2>4, <2>5 DEF OneAnswer
<1> QED
  BY <1>1, <1>4, <1>5, <1>6 DEF s

\* The answer of x, after its question.
LEMMA OwnMessage ==
  ASSUME NEW ms \in Seq(Message), NEW m \in Message, NEW x, IsAnswerOf(m, x),
         NoAnswer(ms, x), Asked(ms, x)
  PROVE  OneAnswer(Append(ms, m), x, m.evidence)
<1> DEFINE s == Append(ms, m)
           n == Len(ms)
<1>1. s \in Seq(Message) /\ Len(s) = n + 1 /\ s[n + 1] = m /\ n \in Nat
      /\ \A i \in 1..n : s[i] = ms[i]
  BY AppendProperties
<1> HIDE DEF s
<1>2. \A k \in 1..Len(s) : k \in 1..n \/ k = n + 1
  BY <1>1
<1>3. \A k \in 1..Len(s) : IsAnswerOf(s[k], x) => k = n + 1
  BY <1>1, <1>2 DEF NoAnswer
<1>4. n + 1 \in 1..Len(s) /\ (n + 1) - 1 = n
  BY <1>1
<1>5. \E j \in 1..((n + 1) - 1) : s[j] = UserMessage(x)
  BY <1>1, <1>4 DEF Asked
<1> QED
  BY <1>1, <1>3, <1>4, <1>5 DEF OneAnswer, s

\* A question whose record keeps its conversation and what is kept there.
Alike(a, b) == b.conv = a.conv /\ b.kept = a.kept /\ (a.kept => b.out = a.out)

\* It stays stored.
LEMMA StoredAlike ==
  ASSUME NEW x, NEW a, NEW b, NEW C, NEW n, Stored(x, a, C, n), Alike(a, b)
  PROVE  Stored(x, b, C, n)
BY DEF Stored, Alike

\* A message is added to a conversation.
LEMMA MessageAdded ==
  ASSUME NEW C \in [ConvIds -> ConvType], NEW c \in ConvIds, NEW m \in Message
  PROVE  LET D == [C EXCEPT ![c].messages = Append(@, m)] IN
         /\ D \in [ConvIds -> ConvType] /\ D[c].owner = C[c].owner
         /\ D[c].messages = Append(C[c].messages, m)
         /\ \A d \in ConvIds : d # c => D[d] = C[d]
<1> DEFINE r == C[c]
           s == Append(r.messages, m)
           t == [r EXCEPT !.messages = s]
           D == [C EXCEPT ![c] = t]
<1>1. D = [C EXCEPT ![c].messages = Append(@, m)]
  OBVIOUS
<1>2. r \in ConvType
  OBVIOUS
<1>3. s \in Seq(Message)
  BY <1>2, AppendProperties DEF ConvType
<1> HIDE DEF r, s
<1>4. t \in ConvType
  BY <1>2, <1>3, Zenon DEF ConvType
<1>5. t.owner = r.owner /\ t.messages = s
  BY <1>2 DEF ConvType
<1> HIDE DEF t
<1>6. D \in [ConvIds -> ConvType] /\ D[c] = t /\ \A d \in ConvIds : d # c => D[d] = C[d]
  BY <1>4
<1> HIDE DEF D
<1> QED
  BY <1>1, <1>5, <1>6, Zenon DEF r, s

\* A message of another.
LEMMA StoredBeside ==
  ASSUME NEW x, NEW a \in AskType, NEW C \in [ConvIds -> ConvType], NEW n, Stored(x, a, C, n),
         NEW m \in Message, ~IsAnswerOf(m, x), NEW c \in ConvIds
  PROVE  Stored(x, a, [C EXCEPT ![c].messages = Append(@, m)], n)
<1> DEFINE D == [C EXCEPT ![c].messages = Append(@, m)]
           ms == C[c].messages
           s == Append(ms, m)
<1>1. ms \in Seq(Message)
  BY DEF ConvType
<1>2. /\ (NoAnswer(ms, x) => NoAnswer(s, x))
      /\ (Asked(ms, x) => Asked(s, x))
      /\ (OneAnswer(ms, x, a.out) => OneAnswer(s, x, a.out))
  BY <1>1, AnotherMessage
<1>5. D[c].owner = C[c].owner /\ D[c].messages = s /\ \A d \in ConvIds : d # c => D[d] = C[d]
  BY MessageAdded, Zenon
<1> HIDE DEF s, D, ms
<1>6. a.conv # 0 => a.conv \in ConvIds
  BY AskFields DEF ConvIds
<1>7. \A d \in ConvIds : D[d].owner = C[d].owner
  BY <1>5
<1>8. a.conv # 0 /\ Asked(C[a.conv].messages, x) => Asked(D[a.conv].messages, x)
  BY <1>2, <1>5, <1>6 DEF ms
<1>9. \A d \in ConvIds : NoAnswer(C[d].messages, x) => NoAnswer(D[d].messages, x)
  BY <1>2, <1>5 DEF ms
<1>10. a.conv # 0 /\ OneAnswer(C[a.conv].messages, x, a.out)
         => OneAnswer(D[a.conv].messages, x, a.out)
  BY <1>2, <1>5, <1>6 DEF ms
<1>11. Stored(x, a, D, n)
  BY <1>6, <1>7, <1>8, <1>9, <1>10 DEF Stored
<1> QED
  BY <1>11 DEF D

\* Its own answer.
LEMMA StoredOwn ==
  ASSUME NEW x, NEW a \in AskType, NEW b \in AskType, NEW C \in [ConvIds -> ConvType], NEW n,
         Stored(x, a, C, n), ~a.kept, NEW c \in ConvIds, a.conv = c, C[c].owner # NoUser,
         b.kept, b.conv = c,
         NEW m \in Message, IsAnswerOf(m, x), m.evidence = b.out
  PROVE  Stored(x, b, [C EXCEPT ![c].messages = Append(@, m)], n)
<1> DEFINE D == [C EXCEPT ![c].messages = Append(@, m)]
           ms == C[c].messages
           s == Append(ms, m)
<1>0. c # 0
  BY DEF ConvIds
<1>1. ms \in Seq(Message)
  BY DEF ConvType
<1>2. NoAnswer(ms, x) /\ Asked(ms, x)
  BY <1>0 DEF Stored
<1>4. OneAnswer(s, x, b.out)
  BY <1>1, <1>2, OwnMessage
<1>5. Asked(s, x)
  <2>0. Len(s) \in Nat
    BY <1>1, AppendProperties
  <2> HIDE DEF s
  <2>1. PICK i \in 1..Len(s) : \E j \in 1..(i - 1) : s[j] = UserMessage(x)
    BY <1>4 DEF OneAnswer
  <2>2. PICK j \in 1..(i - 1) : s[j] = UserMessage(x)
    BY <2>1
  <2>3. j \in 1..Len(s)
    BY <2>0
  <2> QED
    BY <2>2, <2>3 DEF Asked
<1>8. D[c].owner = C[c].owner /\ D[c].messages = s /\ \A d \in ConvIds : d # c => D[d] = C[d]
  <2>1. LET E == [C EXCEPT ![c].messages = Append(@, m)] IN
        /\ E \in [ConvIds -> ConvType] /\ E[c].owner = C[c].owner
        /\ E[c].messages = Append(C[c].messages, m)
        /\ \A d \in ConvIds : d # c => E[d] = C[d]
    BY MessageAdded
  <2> QED
    BY <2>1, Zenon
<1> HIDE DEF s, D, ms
<1>9. Stored(x, b, D, n)
  BY <1>0, <1>4, <1>5, <1>8 DEF Stored
<1> QED
  BY <1>9 DEF D

\* A conversation that is deleted holds nothing of it.
LEMMA StoredDeleted ==
  ASSUME NEW x, NEW a \in AskType, NEW C \in [ConvIds -> ConvType], NEW n, Stored(x, a, C, n),
         NEW c \in ConvIds
  PROVE  Stored(x, a, [C EXCEPT ![c] = [owner |-> NoUser, messages |-> <<>>]], n)
<1> DEFINE D == [C EXCEPT ![c] = [owner |-> NoUser, messages |-> <<>>]]
<1>1. D[c].owner = NoUser /\ D[c].messages = <<>> /\ \A d \in ConvIds : d # c => D[d] = C[d]
  OBVIOUS
<1> HIDE DEF D
<1>2. a.conv # 0 => a.conv \in ConvIds
  BY AskFields DEF ConvIds
<1>3. NoAnswer(<<>>, x)
  BY DEF NoAnswer
<1>4. \A d \in ConvIds : NoAnswer(C[d].messages, x) => NoAnswer(D[d].messages, x)
  BY <1>1, <1>3
<1>5. \A d \in ConvIds : D[d].owner # NoUser => D[d] = C[d]
  BY <1>1
<1>6. Stored(x, a, D, n)
  BY <1>2, <1>4, <1>5 DEF Stored
<1> QED
  BY <1>6 DEF D

\* A conversation of a number that was not used is not its own.
LEMMA StoredNew ==
  ASSUME NEW x, NEW a \in AskType, NEW C \in [ConvIds -> ConvType], NEW n \in ConvIds,
         Stored(x, a, C, n), NEW y, NEW u
  PROVE  Stored(x, a, [C EXCEPT ![n] = [owner |-> u, messages |-> <<UserMessage(y)>>]], n + 1)
<1> DEFINE ms == <<UserMessage(y)>>
           D == [C EXCEPT ![n] = [owner |-> u, messages |-> ms]]
<1>1. D[n].messages = ms /\ \A d \in ConvIds : d # n => D[d] = C[d]
  OBVIOUS
<1>2. Len(ms) = 1 /\ ms[1] = UserMessage(y)
  OBVIOUS
<1>3. NoAnswer(ms, x)
  BY <1>2 DEF NoAnswer, IsAnswerOf, UserMessage
<1> HIDE DEF D, ms
<1>4. a.conv # 0 => a.conv \in ConvIds /\ a.conv < n /\ a.conv # n /\ a.conv < n + 1
  BY AskFields DEF ConvIds, Stored
<1>5. \A d \in ConvIds : NoAnswer(C[d].messages, x) => NoAnswer(D[d].messages, x)
  BY <1>1, <1>3
<1>6. Stored(x, a, D, n + 1)
  BY <1>1, <1>4, <1>5 DEF Stored
<1> QED
  BY <1>6 DEF D, ms

\* Its own question, in a conversation of its asker that holds no answer of it.
LEMMA StoredAsked ==
  ASSUME NEW x, NEW b \in AskType, NEW c \in ConvIds, NEW D, NEW n, ~b.kept, b.conv = c,
         c < n, D[c].owner = UserOf[x], Asked(D[c].messages, x),
         \A d \in ConvIds : NoAnswer(D[d].messages, x)
  PROVE  Stored(x, b, D, n)
BY DEF Stored

-----------------------------------------------------------------------------
(* The inductive invariant.                                                *)

\* Every question is in order and stored, and the conversations that exist have the numbers
\* that were given.
AskLoopInv ==
  /\ ask \in [Asks -> AskType]
  /\ conv \in [ConvIds -> ConvType]
  /\ nextConv \in 1..(MaxConvs + 1)
  /\ crashes \in 0..MaxCrashes
  /\ \A c \in ConvIds : conv[c].owner # NoUser => c < nextConv
  /\ \A x \in Asks : AskOK(ask[x]) /\ Stored(x, ask[x], conv, nextConv)

\* It holds at the start.
LEMMA AskLoopInitial == Init => AskLoopInv
<1> SUFFICES ASSUME Init
             PROVE  AskLoopInv
  OBVIOUS
<1>1. MaxConvs \in Nat /\ MaxCrashes \in Nat
  BY EvidenceAssumption
<1>2. conv \in [ConvIds -> ConvType] /\ \A c \in ConvIds : conv[c].owner = NoUser
      /\ conv[c].messages = <<>>
  BY DEF Init, ConvType
<1>3. \A x \in Asks : ask[x] = NewAsk
  BY DEF Init
<1>4. ask \in [Asks -> AskType]
  BY NewAskOK DEF Init, AskOK
<1>5. \A x \in Asks : Stored(x, NewAsk, conv, nextConv)
  <2>1. \A x : NoAnswer(<<>>, x)
    BY DEF NoAnswer
  <2> QED
    BY <1>2, <2>1, NewAskOK DEF Stored
<1> QED
  BY <1>1, <1>2, <1>3, <1>4, <1>5, NewAskOK DEF AskLoopInv, Init

\* The parts of it that a step of question x needs.
LEMMA AskIs ==
  ASSUME AskLoopInv, NEW x \in Asks
  PROVE  /\ ask[x] \in AskType /\ AskOK(ask[x]) /\ Stored(x, ask[x], conv, nextConv)
         /\ ask[x].pc = "idle" => ask[x] = NewAsk
         /\ Working(ask[x]) => Underway(ask[x])
<1> DEFINE a == ask[x]
<1>1. a \in AskType /\ AskOK(a) /\ Stored(x, a, conv, nextConv)
  BY DEF AskLoopInv
<1> HIDE DEF a
<1>2. a.pc = "idle" => a = NewAsk
  BY <1>1 DEF AskOK, Underway, Ended, Working
<1>3. Working(a) => Underway(a)
  BY <1>1, NewAskOK DEF AskOK, Ended, Working
<1> QED
  BY <1>1, <1>2, <1>3 DEF a

\* A step in which questions go on and no conversation changes.
LEMMA QuietSteps ==
  ASSUME AskLoopInv, ask' \in [Asks -> AskType], crashes' \in 0..MaxCrashes,
         UNCHANGED <<conv, nextConv>>,
         \A y \in Asks : AskOK(ask'[y]) /\ Alike(ask[y], ask'[y])
  PROVE  AskLoopInv'
<1>1. \A y \in Asks : Stored(y, ask'[y], conv, nextConv)
  BY StoredAlike DEF AskLoopInv
<1> QED
  BY <1>1 DEF AskLoopInv

\* A step in which one question goes on or ends without an answer.
LEMMA QuietStep ==
  ASSUME AskLoopInv, NEW x \in Asks, NEW b, AskOK(b), ~ask[x].kept, ~b.kept,
         b.conv = ask[x].conv, ask' = [ask EXCEPT ![x] = b],
         UNCHANGED <<conv, nextConv, crashes>>
  PROVE  AskLoopInv'
<1>1. ask \in [Asks -> AskType] /\ b \in AskType
  BY DEF AskLoopInv, AskOK
<1>2. ask' \in [Asks -> AskType] /\ ask'[x] = b /\ \A y \in Asks : y # x => ask'[y] = ask[y]
  BY <1>1
<1>5. Alike(ask[x], b) /\ \A a : Alike(a, a)
  <2>1. ask[x].kept \in BOOLEAN /\ b.kept \in BOOLEAN
    BY <1>1, AskFields
  <2> QED
    BY <2>1 DEF Alike
<1>6. \A y \in Asks : AskOK(ask[y])
  BY DEF AskLoopInv
<1>3. \A y \in Asks : AskOK(ask'[y]) /\ Alike(ask[y], ask'[y])
  BY <1>2, <1>5, <1>6
<1>4. crashes' \in 0..MaxCrashes
  BY DEF AskLoopInv
<1> QED
  BY <1>2, <1>3, <1>4, QuietSteps

\* Messages are of their type, and a question's message is no answer.
LEMMA MessagesAre ==
  ASSUME NEW x \in Asks
  PROVE  /\ UserMessage(x) \in Message /\ \A y : ~IsAnswerOf(UserMessage(x), y)
         /\ \A a \in AskType : /\ Answer(x, a) \in Message /\ Answer(x, a).evidence = a.out
                               /\ \A y : IsAnswerOf(Answer(x, a), y) <=> y = x
<1>1. UserMessage(x) \in Message /\ \A y : ~IsAnswerOf(UserMessage(x), y)
  <2> DEFINE none == <<>>
  <2>1. none \in Seq(CallOut)
    OBVIOUS
  <2>2. UserMessage(x) = [role |-> "user", ask |-> x, evidence |-> none]
    BY DEF UserMessage
  <2> HIDE DEF none
  <2> QED
    BY <2>1, <2>2 DEF Message, IsAnswerOf
<1>2. ASSUME NEW a \in AskType
      PROVE  /\ Answer(x, a) \in Message /\ Answer(x, a).evidence = a.out
             /\ \A y : IsAnswerOf(Answer(x, a), y) <=> y = x
  <2>1. a.out \in Seq(CallOut)
    BY AskFields
  <2> DEFINE out == a.out
  <2>2. out \in Seq(CallOut) /\ Answer(x, a) = [role |-> "assistant", ask |-> x, evidence |-> out]
    BY <2>1 DEF Answer
  <2> HIDE DEF out
  <2>3. /\ Answer(x, a) \in Message /\ Answer(x, a).evidence = out
        /\ \A y : IsAnswerOf(Answer(x, a), y) <=> y = x
    BY <2>2 DEF Message, IsAnswerOf
  <2> QED
    BY <2>3 DEF out
<1> QED
  BY <1>1, <1>2

\* A step in which the answer of question x is stored, while others go on or are lost.
LEMMA AnswerStep ==
  ASSUME AskLoopInv, NEW x \in Asks, NEW a \in AskType, NEW c \in ConvIds, ask[x].conv = c,
         ~ask[x].kept, conv[c].owner # NoUser,
         ask' \in [Asks -> AskType], crashes' \in 0..MaxCrashes, nextConv' = nextConv,
         conv' = [conv EXCEPT ![c].messages = Append(@, Answer(x, a))],
         \A y \in Asks : AskOK(ask'[y]) /\ (y # x => Alike(ask[y], ask'[y])),
         ask'[x].kept, ask'[x].conv = c, ask'[x].out = a.out
  PROVE  AskLoopInv'
<1> DEFINE m == Answer(x, a)
           D == [conv EXCEPT ![c].messages = Append(@, m)]
<1>1. conv \in [ConvIds -> ConvType] /\ \A y \in Asks : ask[y] \in AskType /\ ask'[y] \in AskType
      /\ Stored(y, ask[y], conv, nextConv)
  BY DEF AskLoopInv
<1>2. m \in Message /\ m.evidence = a.out /\ \A y : IsAnswerOf(m, y) <=> y = x
  BY MessagesAre
<1> HIDE DEF m
<1>3. /\ D \in [ConvIds -> ConvType] /\ D[c].owner = conv[c].owner
      /\ \A d \in ConvIds : d # c => D[d] = conv[d]
  BY <1>1, <1>2, MessageAdded
<1>4. ASSUME NEW y \in Asks, y # x
      PROVE  Stored(y, ask'[y], D, nextConv)
  <2>1. Stored(y, ask[y], D, nextConv)
    BY <1>1, <1>2, <1>4, StoredBeside
  <2> QED
    BY <1>4, <2>1, StoredAlike
<1>5. Stored(x, ask'[x], D, nextConv)
  <2> DEFINE old == ask[x]
             new == ask'[x]
  <2>1. /\ old \in AskType /\ new \in AskType /\ Stored(x, old, conv, nextConv) /\ ~old.kept
        /\ old.conv = c /\ new.kept /\ new.conv = c /\ IsAnswerOf(m, x) /\ m.evidence = new.out
    BY <1>1, <1>2
  <2> HIDE DEF old, new
  <2>2. Stored(x, new, D, nextConv)
    BY <1>1, <1>2, <2>1, StoredOwn
  <2> QED
    BY <2>2 DEF new
<1>6. conv' = D
  BY DEF m
<1> HIDE DEF D
<1>7. \A d \in ConvIds : D[d].owner = conv[d].owner
  BY <1>3
<1> QED
  BY <1>3, <1>4, <1>5, <1>6, <1>7 DEF AskLoopInv

\* The end of an answer: it is stored as far as it gets.
LEMMA FinishStep ==
  ASSUME AskLoopInv, NEW x \in Asks, NEW a, Goes(ask[x], a), a.shown # "part",
         a.pc # "running", Finish(x, a), UNCHANGED <<nextConv, crashes>>
  PROVE  AskLoopInv'
<1>1. /\ a \in AskType /\ AskOK(a) /\ Underway(a) /\ a.conv = ask[x].conv /\ ~ask[x].kept
      /\ a.conv \in ConvIds
  <2>1. a \in AskType /\ a.conv # 0
    BY DEF Goes, AskOK, Underway
  <2> QED
    BY <2>1, AskFields DEF Goes, ConvIds
<1>2. PICK n \in 0..3, case \in BOOLEAN, status \in {"done", "error"} :
        (status = "done" => n = 3) /\ Stores(x, a, n, case, status)
  BY DEF Finish
<1> DEFINE b == Answered(a, n, case, status)
           c == a.conv
<1>3. /\ ask' = [ask EXCEPT ![x] = b] /\ (case => n >= 1) /\ (n >= 1 => conv[c].owner # NoUser)
      /\ conv' = IF n >= 1 THEN [conv EXCEPT ![c].messages = Append(@, Answer(x, a))] ELSE conv
  BY <1>2 DEF Stores, WithAnswer, Exists
<1>4. AskOK(b) /\ b.kept = (n >= 1) /\ b.conv = c /\ b.out = a.out
  <2>1. status \in {"done", "error", "lost"}
    OBVIOUS
  <2> QED
    BY <1>1, <1>2, <1>3, <2>1, AnsweredKeeps
<1> HIDE DEF b
<1>5. CASE n >= 1
  <2>3. b \in AskType /\ ask \in [Asks -> AskType]
    BY <1>4 DEF AskOK, AskLoopInv
  <2>4. ask' \in [Asks -> AskType] /\ ask'[x] = b /\ \A y \in Asks : y # x => ask'[y] = ask[y]
    BY <1>3, <2>3
  <2>5. \A y \in Asks : AskOK(ask'[y]) /\ (y # x => Alike(ask[y], ask'[y]))
    BY <1>4, <2>4 DEF AskLoopInv, Alike
  <2>6. c \in ConvIds /\ ask[x].conv = c /\ conv[c].owner # NoUser
    BY <1>1, <1>3, <1>5
  <2>7. crashes' \in 0..MaxCrashes
    BY DEF AskLoopInv
  <2> HIDE DEF c
  <2>8. conv' = [conv EXCEPT ![c].messages = Append(@, Answer(x, a))] /\ b.kept
    BY <1>3, <1>4, <1>5
  <2> QED
    BY <1>1, <1>4, <2>4, <2>5, <2>6, <2>7, <2>8, AnswerStep
<1>6. CASE ~(n >= 1)
  BY <1>1, <1>3, <1>4, <1>6, QuietStep
<1> QED
  BY <1>5, <1>6

-----------------------------------------------------------------------------
(* Each action.                                                            *)

\* A question that is asked, in a conversation of its own.
LEMMA AskNewStep == ASSUME AskLoopInv, NEW x \in Asks, AskNew(x) PROVE AskLoopInv'
<1> DEFINE c == nextConv
           row == [owner |-> UserOf[x], messages |-> <<UserMessage(x)>>]
           D == [conv EXCEPT ![c] = row]
           b == Opened(NewAsk, c)
<1>1. ask[x] = NewAsk /\ c \in ConvIds
  BY AskIs, EvidenceAssumption DEF AskNew, AskLoopInv, ConvIds
<1>2. ask' = [ask EXCEPT ![x] = b] /\ conv' = D /\ nextConv' = c + 1 /\ crashes' = crashes
  BY <1>1 DEF AskNew
<1>3. AskOK(b) /\ ~b.kept /\ b.conv = c
  BY <1>1, OpenedKeeps
<1> HIDE DEF b
<1>4. ask \in [Asks -> AskType] /\ b \in AskType /\ conv \in [ConvIds -> ConvType]
      /\ \A y \in Asks : AskOK(ask[y]) /\ ask[y] \in AskType /\ Stored(y, ask[y], conv, c)
  BY <1>3 DEF AskOK, AskLoopInv
<1>5. ask' \in [Asks -> AskType] /\ ask'[x] = b /\ \A y \in Asks : y # x => ask'[y] = ask[y]
  BY <1>2, <1>4
<1>6. \A y \in Asks : Stored(y, ask[y], D, c + 1)
  BY <1>1, <1>4, StoredNew
<1>7. UserOf[x] \in Users /\ UserOf[x] # NoUser
  BY AsksAssumption
<1>8. row \in ConvType /\ Asked(row.messages, x) /\ NoAnswer(row.messages, x)
  <2> DEFINE ms == <<UserMessage(x)>>
  <2>1. ms \in Seq(Message) /\ Len(ms) = 1 /\ ms[1] = UserMessage(x)
    BY MessagesAre
  <2>2. row.owner = UserOf[x] /\ row.messages = ms
    OBVIOUS
  <2>3. 1 \in 1..Len(ms)
    BY <2>1
  <2>4. row = [owner |-> UserOf[x], messages |-> ms]
    OBVIOUS
  <2>5. NoAnswer(ms, x) /\ Asked(ms, x)
    BY <2>1, <2>3, MessagesAre DEF NoAnswer, Asked
  <2> HIDE DEF ms, row
  <2> QED
    BY <1>7, <2>1, <2>2, <2>4, <2>5 DEF ConvType
<1>9. D \in [ConvIds -> ConvType] /\ D[c] = row /\ \A d \in ConvIds : d # c => D[d] = conv[d]
  BY <1>1, <1>4, <1>8
<1>10. row.owner = UserOf[x]
  OBVIOUS
<1> HIDE DEF row, D
<1>11. c \in Nat /\ c < c + 1 /\ c + 1 \in 1..(MaxConvs + 1)
  BY <1>1, EvidenceAssumption DEF ConvIds
<1>12. Stored(x, b, D, c + 1)
  <2>1. \A d \in ConvIds : NoAnswer(D[d].messages, x)
    <3>1. ~NewAsk.kept /\ ask[x] = NewAsk
      BY <1>1, NewAskOK
    <3>2. \A d \in ConvIds : NoAnswer(conv[d].messages, x)
      BY <1>4, <3>1 DEF Stored
    <3> QED
      BY <1>8, <1>9, <3>2
  <2> QED
    BY <1>1, <1>3, <1>4, <1>8, <1>9, <1>10, <1>11, <2>1, StoredAsked
<1>13. \A y \in Asks : AskOK(ask'[y]) /\ Stored(y, ask'[y], D, c + 1)
  BY <1>3, <1>4, <1>5, <1>6, <1>12
<1>14. \A d \in ConvIds : D[d].owner # NoUser => d < c + 1
  <2>1. \A d \in ConvIds : conv[d].owner # NoUser => d < c
    BY DEF AskLoopInv
  <2> TAKE d \in ConvIds
  <2>2. d \in Nat
    BY DEF ConvIds
  <2> QED
    BY <1>9, <1>11, <2>1, <2>2
<1>15. crashes' \in 0..MaxCrashes
  BY <1>2 DEF AskLoopInv
<1> HIDE DEF c
<1> QED
  BY <1>2, <1>5, <1>9, <1>11, <1>13, <1>14, <1>15 DEF AskLoopInv

\* A question that is asked in a conversation of its asker.
LEMMA AskIntoStep ==
  ASSUME AskLoopInv, NEW x \in Asks, NEW c \in ConvIds, AskInto(x, c) PROVE AskLoopInv'
<1> DEFINE m == UserMessage(x)
           D == [conv EXCEPT ![c].messages = Append(@, m)]
           b == Opened(NewAsk, c)
<1>1. ask[x] = NewAsk /\ conv[c].owner = UserOf[x]
  BY AskIs DEF AskInto
<1>2. ask' = [ask EXCEPT ![x] = b] /\ conv' = D /\ nextConv' = nextConv /\ crashes' = crashes
  BY <1>1 DEF AskInto
<1>3. AskOK(b) /\ ~b.kept /\ b.conv = c
  BY OpenedKeeps
<1> HIDE DEF b
<1>4. ask \in [Asks -> AskType] /\ b \in AskType /\ conv \in [ConvIds -> ConvType]
      /\ \A y \in Asks : AskOK(ask[y]) /\ ask[y] \in AskType /\ Stored(y, ask[y], conv, nextConv)
  BY <1>3 DEF AskOK, AskLoopInv
<1>5. ask' \in [Asks -> AskType] /\ ask'[x] = b /\ \A y \in Asks : y # x => ask'[y] = ask[y]
  BY <1>2, <1>4
<1>6. m \in Message /\ \A y : ~IsAnswerOf(m, y)
  BY MessagesAre
<1>15. m = UserMessage(x)
  OBVIOUS
<1> HIDE DEF m
<1>7. \A y \in Asks : Stored(y, ask[y], D, nextConv)
  BY <1>4, <1>6, StoredBeside
<1>8. UserOf[x] \in Users /\ UserOf[x] # NoUser
  BY AsksAssumption
<1>9. /\ D \in [ConvIds -> ConvType] /\ D[c].owner = conv[c].owner
      /\ D[c].messages = Append(conv[c].messages, m)
      /\ \A d \in ConvIds : d # c => D[d] = conv[d]
  BY <1>4, <1>6, MessageAdded
<1>10. Asked(D[c].messages, x)
  <2> DEFINE ms == conv[c].messages
  <2>1. ms \in Seq(Message)
    BY <1>4 DEF ConvType
  <2>2. Len(Append(ms, m)) = Len(ms) + 1 /\ Append(ms, m)[Len(ms) + 1] = m /\ Len(ms) \in Nat
    BY <1>6, <2>1, AppendProperties
  <2>3. Len(ms) + 1 \in 1..Len(Append(ms, m))
    BY <2>2
  <2> QED
    BY <1>9, <1>15, <2>2, <2>3 DEF Asked
<1> HIDE DEF D
<1>11. c < nextConv
  BY <1>1, <1>8 DEF AskLoopInv
<1>12. Stored(x, b, D, nextConv)
  <2>1. \A d \in ConvIds : NoAnswer(D[d].messages, x)
    <3>1. ~NewAsk.kept /\ ask[x] = NewAsk
      BY <1>1, NewAskOK
    <3>2. \A d \in ConvIds : NoAnswer(D[d].messages, x)
      BY <1>7, <3>1 DEF Stored
    <3> QED
      BY <3>2
  <2> QED
    BY <1>1, <1>3, <1>4, <1>9, <1>10, <1>11, <2>1, StoredAsked
<1>13. \A y \in Asks : AskOK(ask'[y]) /\ Stored(y, ask'[y], D, nextConv)
  BY <1>3, <1>4, <1>5, <1>7, <1>12
<1>14. \A d \in ConvIds : D[d].owner # NoUser => d < nextConv
  BY <1>9 DEF AskLoopInv
<1> QED
  BY <1>2, <1>5, <1>9, <1>13, <1>14 DEF AskLoopInv

\* A conversation that is gone, or somebody else's.
LEMMA AskMissingStep ==
  ASSUME AskLoopInv, NEW x \in Asks, NEW c \in ConvIds, AskMissing(x, c) PROVE AskLoopInv'
<1>1. ask[x] = NewAsk /\ AskOK(ask[x])
  BY AskIs DEF AskMissing
<1>2. ask' = [ask EXCEPT ![x] = Errored(ask[x])] /\ UNCHANGED <<conv, nextConv, crashes>>
  BY DEF AskMissing
<1>3. LET b == Errored(ask[x]) IN
      AskOK(b) /\ Ended(b) /\ ~b.kept /\ ~ask[x].kept /\ b.conv = ask[x].conv
  BY <1>1, EndingKeeps
<1> QED
  BY <1>2, <1>3, QuietStep

\* A question that is underway ends without an answer.
LEMMA EndStep ==
  ASSUME AskLoopInv, NEW x \in Asks, Working(ask[x]),
         \/ ask' = [ask EXCEPT ![x] = Errored(ask[x])]
         \/ ask' = [ask EXCEPT ![x] = Failed(ask[x])]
         \/ ask' = [ask EXCEPT ![x] = [ask[x] EXCEPT !.status = "stopped", !.pc = "over"]],
         UNCHANGED <<conv, nextConv, crashes>>
  PROVE  AskLoopInv'
<1>1. AskOK(ask[x]) /\ Underway(ask[x])
  BY AskIs
<1> DEFINE stopped == [ask[x] EXCEPT !.status = "stopped", !.pc = "over"]
<1>2. PICK b \in {Errored(ask[x]), Failed(ask[x]), stopped} : ask' = [ask EXCEPT ![x] = b]
  OBVIOUS
<1>3. AskOK(b) /\ ~b.kept /\ ~ask[x].kept /\ b.conv = ask[x].conv
  BY <1>1, EndingKeeps
<1> QED
  BY <1>2, <1>3, QuietStep

\* A question that goes on.
LEMMA GoStep ==
  ASSUME AskLoopInv, NEW x \in Asks, NEW b, Goes(ask[x], b),
         ask' = [ask EXCEPT ![x] = b], UNCHANGED <<conv, nextConv, crashes>>
  PROVE  AskLoopInv'
BY QuietStep DEF Goes

\* Going on, and on.
LEMMA GoesOn == ASSUME NEW a, NEW b, NEW d, Goes(a, b), Goes(b, d) PROVE Goes(a, d)
BY DEF Goes

\* A selection is a sequence of calls.
LEMMA SelectionsAre == Selections \subseteq Seq(Calls)
<1> SUFFICES ASSUME NEW p \in Selections
             PROVE  p \in Seq(Calls)
  OBVIOUS
<1>1. PICK n \in 0..MaxPerRound : p \in [1..n -> Calls]
  BY DEF Selections, BoundedSeq, SeqOf
<1>2. n \in Nat
  BY EvidenceAssumption
<1> QED
  BY <1>1, <1>2, SeqDef

\* The first selection asks for a round.
LEMMA SelectStep == ASSUME AskLoopInv, NEW x \in Asks, SelectReturns(x) PROVE AskLoopInv'
<1> DEFINE a == ask[x]
           s == Spend(a)
<1>1. AskOK(a) /\ Underway(a) /\ a.pc = "selecting"
  BY AskIs DEF SelectReturns, Working
<1>2. PICK p \in Selections : ask' = [ask EXCEPT ![x] = ToRound(s, p)]
  BY DEF SelectReturns
<1>3. UNCHANGED <<conv, nextConv, crashes>>
  BY DEF SelectReturns
<1>4. p \in Seq(Calls)
  BY SelectionsAre
<1> HIDE DEF a
<1>5. Goes(a, s) /\ s.pc = a.pc /\ SameTimes(a, s)
  BY <1>1, SpendKeeps
<1> HIDE DEF s
<1>6. Between(s) /\ s.lateRounds = 0
  BY <1>1, <1>5, UnderwayBetween DEF Goes, SameTimes, Underway, TimeOK
<1>7. Goes(a, ToRound(s, p))
  BY <1>4, <1>5, <1>6, RoundKeeps, GoesOn
<1> QED
  BY <1>2, <1>3, <1>7, GoStep DEF a

\* A call of the round comes back.
LEMMA CallReturnsStep ==
  ASSUME AskLoopInv, NEW x \in Asks, NEW k, NEW ok \in BOOLEAN, CallReturns(x, k, ok)
  PROVE  AskLoopInv'
<1> DEFINE a == ask[x]
           result == IF ok THEN "ok" ELSE "failed"
           slots == [a.slots EXCEPT ![k] = result]
           audited == a.audited \cup {a.before + k}
           b == [a EXCEPT !.slots = slots, !.audited = audited]
<1>1. AskOK(a) /\ Underway(a) /\ a.pc = "running" /\ k \in 1..Len(a.slots)
  BY AskIs DEF CallReturns, Working
<1>2. ask' = [ask EXCEPT ![x] = b] /\ UNCHANGED <<conv, nextConv, crashes>>
  BY <1>1 DEF CallReturns, AskOK, AskType, AskLoopInv
<1>3. result \in {"ok", "failed", "raised"} /\ audited \in {a.audited, a.audited \cup {a.before + k}}
      /\ a.before + k \in audited
  OBVIOUS
<1>5. slots = [a.slots EXCEPT ![k] = result]
  OBVIOUS
<1>6. b = [a EXCEPT !.slots = slots, !.audited = audited]
  OBVIOUS
<1> HIDE DEF a, result, audited, slots, b
<1>4. Goes(a, b)
  BY <1>1, <1>3, <1>5, <1>6, CallKeeps
<1> QED
  BY <1>2, <1>4, GoStep DEF a

\* A call of the round raises.
LEMMA CallRaisesStep ==
  ASSUME AskLoopInv, NEW x \in Asks, NEW k, CallRaises(x, k)
  PROVE  AskLoopInv'
<1> DEFINE a == ask[x]
           slots == [a.slots EXCEPT ![k] = "raised"]
           audited == a.audited
           b == [a EXCEPT !.slots = slots, !.audited = audited]
<1>1. AskOK(a) /\ Underway(a) /\ a.pc = "running" /\ k \in 1..Len(a.slots)
  BY AskIs DEF CallRaises, Working
<1>2. ask' = [ask EXCEPT ![x] = b] /\ UNCHANGED <<conv, nextConv, crashes>>
  <2>1. a \in AskType
    BY <1>1 DEF AskOK
  <2>2. [a EXCEPT !.slots[k] = "raised"] = b
    BY <2>1 DEF AskType
  <2>3. ask' = [ask EXCEPT ![x] = [a EXCEPT !.slots[k] = "raised"]]
    BY DEF CallRaises
  <2> HIDE DEF b, a
  <2> QED
    BY <2>2, <2>3 DEF CallRaises
<1>3. "raised" \in {"ok", "failed", "raised"} /\ "raised" # "ok"
      /\ audited \in {a.audited, a.audited \cup {a.before + k}}
  OBVIOUS
<1>5. slots = [a.slots EXCEPT ![k] = "raised"]
  OBVIOUS
<1>6. b = [a EXCEPT !.slots = slots, !.audited = audited]
  OBVIOUS
<1> HIDE DEF a, audited, slots, b
<1>4. Goes(a, b)
  BY <1>1, <1>3, <1>5, <1>6, CallKeeps
<1> QED
  BY <1>2, <1>4, GoStep DEF a

\* The round is over: the answer, a compaction or another selection.
LEMMA RoundEndsStep == ASSUME AskLoopInv, NEW x \in Asks, RoundEnds(x) PROVE AskLoopInv'
<1> DEFINE a == ask[x]
           b == [a EXCEPT !.out = Gathered(a), !.pending = <<>>, !.slots = <<>>]
<1>1. AskOK(a) /\ Underway(a) /\ a.pc = "running"
  BY AskIs DEF RoundEnds, Working
<1>2. ask' = [ask EXCEPT ![x] = AfterRound(x, b)] /\ UNCHANGED <<conv, nextConv, crashes>>
  BY DEF RoundEnds
<1> HIDE DEF a
<1>3. Between(b) /\ b.conv = a.conv /\ ~a.kept
  BY <1>1, GatheredKeeps, Zenon
<1> HIDE DEF b
<1>4. Goes(b, AfterRound(x, b))
  <2>1. CASE b.late
    BY <1>3, <2>1, SynthesisKeeps DEF AfterRound
  <2>2. CASE ~b.late
    <3>1. b.lateSelects = 0 /\ b.lateRounds = 0
      BY <1>3, <2>2 DEF Between
    <3>2. Goes(b, [b EXCEPT !.pc = "compacting"]) /\ Goes(b, ToFollow(b))
      BY <1>3, <3>1, NextStage, FollowKeeps
    <3> QED
      BY <2>2, <3>2 DEF AfterRound
  <2> QED
    BY <2>1, <2>2
<1>5. Goes(a, AfterRound(x, b))
  BY <1>3, <1>4 DEF Goes
<1> QED
  BY <1>2, <1>5, GoStep DEF a

\* A compaction that was answered, or failed, is followed by a selection.
LEMMA CompactStep ==
  ASSUME AskLoopInv, NEW x \in Asks, CompactReturns(x) \/ CompactFails(x) PROVE AskLoopInv'
<1> DEFINE a == ask[x]
           d == Compacted(a)
<1>1. AskOK(a) /\ Underway(a) /\ a.pc = "compacting"
  BY AskIs DEF CompactReturns, CompactFails, Working
<1>2. (ask' = [ask EXCEPT ![x] = ToFollow(d)] \/ ask' = [ask EXCEPT ![x] = ToFollow(a)])
      /\ UNCHANGED <<conv, nextConv, crashes>>
  BY DEF CompactReturns, CompactFails
<1> HIDE DEF a
<1>3. Goes(a, ToFollow(a))
  BY <1>1, UnderwayBetween, FollowKeeps DEF Underway, TimeOK
<1>4. Between(d) /\ d.conv = a.conv /\ d.lateSelects = 0 /\ d.lateRounds = 0
  BY <1>1, CompactedKeeps
<1> HIDE DEF d
<1>5. Goes(a, ToFollow(d))
  BY <1>1, <1>4, FollowKeeps DEF Goes, Underway, Unwritten
<1> QED
  BY <1>2, <1>3, <1>5, GoStep DEF a

\* Another selection asks for a round, or for nothing new, or fails.
LEMMA FollowStep ==
  ASSUME AskLoopInv, NEW x \in Asks, FollowReturns(x) \/ FollowFails(x) PROVE AskLoopInv'
<1> DEFINE a == ask[x]
           s == Spend(a)
<1>1. AskOK(a) /\ Underway(a) /\ a.pc = "following"
  BY AskIs DEF FollowReturns, FollowFails, Working
<1>2. UNCHANGED <<conv, nextConv, crashes>>
  BY DEF FollowReturns, FollowFails
<1>3. \/ ask' = [ask EXCEPT ![x] = ToSynthesis(x, a)]
      \/ ask' = [ask EXCEPT ![x] = ToSynthesis(x, s)]
      \/ \E p \in Selections : ask' = [ask EXCEPT ![x] = ToRound(s, p)]
  BY DEF FollowReturns, FollowFails
<1> HIDE DEF a
<1>4. Goes(a, s) /\ s.pc = a.pc /\ SameTimes(a, s)
  BY <1>1, SpendKeeps
<1> HIDE DEF s
<1>5. Between(a) /\ Between(s) /\ s.lateRounds = 0
  BY <1>1, <1>4, UnderwayBetween DEF Goes, SameTimes, Underway, TimeOK
<1>6. Goes(a, ToSynthesis(x, a)) /\ Goes(a, ToSynthesis(x, s))
  BY <1>4, <1>5, SynthesisKeeps, GoesOn
<1>7. \A p \in Selections : Goes(a, ToRound(s, p))
  <2> TAKE p \in Selections
  <2>1. p \in Seq(Calls)
    BY SelectionsAre
  <2> QED
    BY <1>4, <1>5, <2>1, RoundKeeps, GoesOn
<1> QED
  BY <1>2, <1>3, <1>6, <1>7, GoStep DEF a

\* Tokens of the answer, or the end of a stream that fails.
LEMMA TokensStep ==
  ASSUME AskLoopInv, NEW x \in Asks, TokensArrive(x) \/ StreamFails(x) PROVE AskLoopInv'
<1> DEFINE a == ask[x]
           b == Staged(a, "streaming", a.status, a.verdict, "part", a.late, a.conv)
           d == Staged(a, "writing", a.status, a.verdict, "none", a.late, a.conv)
<1>1. a \in AskType /\ AskOK(a) /\ Underway(a) /\ a.pc = "streaming"
  BY AskIs DEF TokensArrive, StreamFails, Working
<1>2. UNCHANGED <<conv, nextConv, crashes>>
  BY DEF TokensArrive, StreamFails
<1>3. [a EXCEPT !.shown = "part"] = b /\ [a EXCEPT !.pc = "writing", !.shown = "none"] = d
  BY <1>1 DEF AskType, Staged
<1>4. ask' = [ask EXCEPT ![x] = [a EXCEPT !.shown = "part"]]
      \/ ask' = [ask EXCEPT ![x] = [a EXCEPT !.pc = "writing", !.shown = "none"]]
  BY DEF TokensArrive, StreamFails
<1>5. Goes(a, b) /\ Goes(a, d)
  BY <1>1, ShownKeeps
<1>6. ask' = [ask EXCEPT ![x] = b] \/ ask' = [ask EXCEPT ![x] = d]
  BY <1>3, <1>4
<1> HIDE DEF b, d
<1> QED
  BY <1>2, <1>5, <1>6, GoStep

\* The window closes.
LEMMA WindowStep == ASSUME AskLoopInv, NEW x \in Asks, WindowCloses(x) PROVE AskLoopInv'
<1>1. AskOK(ask[x]) /\ Underway(ask[x]) /\ ~ask[x].late
  BY AskIs DEF WindowCloses
<1>2. ask' = [ask EXCEPT ![x] = [ask[x] EXCEPT !.late = TRUE]]
      /\ UNCHANGED <<conv, nextConv, crashes>>
  BY DEF WindowCloses
<1> QED
  BY <1>1, <1>2, LateKeeps, GoStep

\* The answer comes: a refusal, the end of the stream, or the plain call.
LEMMA AnswerComes ==
  ASSUME AskLoopInv, NEW x \in Asks, Refuse(x) \/ StreamReturns(x) \/ WriteReturns(x)
  PROVE  AskLoopInv'
<1> DEFINE a == ask[x]
           s == Spend(a)
           d == Staged(s, "streaming", s.status, s.verdict, "all", s.late, s.conv)
<1>1. AskOK(a) /\ Underway(a) /\ a.pc \in {"selecting", "streaming", "writing"}
  BY AskIs DEF Refuse, StreamReturns, WriteReturns, Working
<1>2. UNCHANGED <<nextConv, crashes>>
  BY DEF Refuse, StreamReturns, WriteReturns
<1>3. \/ a.pc # "streaming" /\ Finish(x, s)
      \/ a.pc = "streaming" /\ Finish(x, [s EXCEPT !.shown = "all"])
  BY DEF Refuse, StreamReturns, WriteReturns
<1> HIDE DEF a
<1>4. Goes(a, s) /\ s.pc = a.pc /\ s.shown = a.shown
  BY <1>1, SpendKeeps
<1> HIDE DEF s
<1>5. CASE a.pc # "streaming" /\ Finish(x, s)
  <2>1. s.shown # "part" /\ s.pc # "running"
    BY <1>1, <1>4, <1>5 DEF Underway
  <2> QED
    BY <1>2, <1>4, <1>5, <2>1, FinishStep DEF a
<1>6. CASE a.pc = "streaming" /\ Finish(x, [s EXCEPT !.shown = "all"])
  <2>1. s \in AskType /\ AskOK(s) /\ Underway(s) /\ s.pc = "streaming"
    BY <1>4, <1>6 DEF Goes, AskOK
  <2>2. [s EXCEPT !.shown = "all"] = d
    BY <2>1 DEF AskType, Staged
  <2>3. Goes(s, d) /\ d.pc = "streaming" /\ d.shown = "all"
    BY <2>1, ShownKeeps
  <2>4. Finish(x, d)
    BY <1>6, <2>2
  <2> HIDE DEF d
  <2>5. Goes(a, d) /\ d.shown # "part" /\ d.pc # "running"
    BY <1>4, <2>3, GoesOn
  <2> QED
    BY <1>2, <2>4, <2>5, FinishStep DEF a
<1> QED
  BY <1>3, <1>5, <1>6

\* A conversation is deleted, whatever is being answered in it.
LEMMA DeleteStep == ASSUME AskLoopInv, NEW c \in ConvIds, DeleteConversation(c) PROVE AskLoopInv'
<1> DEFINE none == <<>>
           D == [conv EXCEPT ![c] = [owner |-> NoUser, messages |-> none]]
<1>1. conv' = D /\ UNCHANGED <<ask, nextConv, crashes>>
  BY DEF DeleteConversation
<1>2. /\ conv \in [ConvIds -> ConvType]
      /\ \A y \in Asks : ask[y] \in AskType /\ AskOK(ask[y]) /\ Stored(y, ask[y], conv, nextConv)
  BY DEF AskLoopInv
<1>3. \A y \in Asks : Stored(y, ask[y], D, nextConv)
  BY <1>2, StoredDeleted
<1>4. none \in Seq(Message)
  OBVIOUS
<1> HIDE DEF none
<1>5. [owner |-> NoUser, messages |-> none] \in ConvType
  BY <1>4 DEF ConvType
<1>6. D \in [ConvIds -> ConvType] /\ D[c].owner = NoUser
      /\ \A d \in ConvIds : d # c => D[d] = conv[d]
  BY <1>2, <1>5
<1> HIDE DEF D
<1>7. \A d \in ConvIds : D[d].owner # NoUser => d < nextConv
  BY <1>6 DEF AskLoopInv
<1> QED
  BY <1>1, <1>2, <1>3, <1>6, <1>7 DEF AskLoopInv

\* The process dies: whatever was being answered is lost, and kept nothing.
LEMMA LostKeeps ==
  ASSUME NEW a, AskOK(a)
  PROVE  AskOK(LostUnlessOver(a)) /\ Alike(a, LostUnlessOver(a))
<1>1. CASE Working(a)
  <2> DEFINE b == [a EXCEPT !.pc = "over", !.status = "lost"]
  <2>1. Underway(a) /\ LostUnlessOver(a) = b
    BY <1>1, NewAskOK DEF AskOK, Ended, Working, LostUnlessOver
  <2>2. AskOK(b) /\ ~b.kept /\ ~a.kept /\ b.conv = a.conv
    BY <2>1, EndingKeeps
  <2> HIDE DEF b
  <2>3. a.kept \in BOOLEAN /\ b.kept \in BOOLEAN
    BY <2>2, AskFields DEF AskOK
  <2> QED
    BY <2>1, <2>2, <2>3 DEF Alike
<1>2. CASE ~Working(a)
  BY <1>2 DEF LostUnlessOver, Alike
<1> QED
  BY <1>1, <1>2

\* Between two awaits.
LEMMA CrashStep == ASSUME AskLoopInv, Crash PROVE AskLoopInv'
<1>1. \A y \in Asks : AskOK(ask[y])
  BY DEF AskLoopInv
<1>2. \A y \in Asks : ask'[y] = LostUnlessOver(ask[y])
  BY DEF Crash
<1>3. \A y \in Asks : AskOK(ask'[y]) /\ Alike(ask[y], ask'[y])
  BY <1>1, <1>2, LostKeeps
<1>4. ask' \in [Asks -> AskType]
  <2>1. ask' = [y \in Asks |-> LostUnlessOver(ask[y])]
    BY DEF Crash
  <2>2. \A y \in Asks : LostUnlessOver(ask[y]) \in AskType
    BY <1>1, LostKeeps DEF AskOK
  <2> QED
    BY <2>1, <2>2
<1>5. crashes' \in 0..MaxCrashes
  BY EvidenceAssumption DEF Crash, AskLoopInv
<1> QED
  BY <1>3, <1>4, <1>5, QuietSteps DEF Crash

\* Between two of the writes of an answer.
LEMMA CrashWhileStoringStep ==
  ASSUME AskLoopInv, NEW x \in Asks, CrashWhileStoring(x) PROVE AskLoopInv'
<1> DEFINE old == ask[x]
           s == Spend(old)
           c == old.conv
<1>1. /\ old \in AskType /\ AskOK(old) /\ Underway(old)
      /\ old.pc \in {"selecting", "streaming", "writing"} /\ ~old.kept
  BY AskIs DEF CrashWhileStoring, Working, Underway, Unwritten
<1>0. PICK n \in 1..3, case \in BOOLEAN :
        ask' = [y \in Asks |-> IF y = x THEN Answered(s, n, case, "lost")
                                        ELSE LostUnlessOver(ask[y])]
  BY DEF CrashWhileStoring
<1> DEFINE a == Answered(s, n, case, "lost")
<1>2. /\ conv' = WithAnswer(x, s)
      /\ nextConv' = nextConv /\ crashes' = crashes + 1 /\ crashes < MaxCrashes
      /\ conv[c].owner # NoUser
  BY DEF CrashWhileStoring, Exists
<1>3. c \in ConvIds
  <2>1. old.conv # 0 /\ old.conv \in 0..MaxConvs
    BY <1>1, AskFields DEF Underway
  <2> QED
    BY <2>1 DEF ConvIds
<1> HIDE DEF old
<1>4. Goes(old, s) /\ s.pc = old.pc
  BY <1>1, SpendKeeps
<1>5. s.conv = c /\ AskOK(s) /\ Underway(s) /\ s.pc # "running" /\ s \in AskType
  BY <1>1, <1>4 DEF Goes, AskOK
<1> HIDE DEF s
<1>6. AskOK(a) /\ a.kept /\ a.conv = c /\ a \in AskType /\ a.out = s.out
  <2>1. n \in 0..3 /\ n >= 1 /\ "lost" \in {"done", "error", "lost"} /\ "lost" # "done"
    OBVIOUS
  <2> QED
    BY <1>5, <2>1, AnsweredKeeps DEF AskOK
<1>13. ask' = [y \in Asks |-> IF y = x THEN a ELSE LostUnlessOver(ask[y])]
  BY <1>0
<1> HIDE DEF a, c
<1>7. conv' = [conv EXCEPT ![c].messages = Append(@, Answer(x, s))]
  BY <1>2, <1>5 DEF WithAnswer
<1>8. ask'[x] = a /\ \A y \in Asks : y # x => ask'[y] = LostUnlessOver(ask[y])
  BY <1>13
<1>9. \A y \in Asks : AskOK(ask'[y]) /\ (y # x => Alike(ask[y], ask'[y]))
  BY <1>6, <1>8, LostKeeps DEF AskLoopInv
<1>10. ask' \in [Asks -> AskType]
  <2>1. \A y \in Asks : (IF y = x THEN a ELSE LostUnlessOver(ask[y])) \in AskType
    BY <1>8, <1>9 DEF AskOK
  <2> QED
    BY <1>13, <2>1
<1>11. crashes' \in 0..MaxCrashes
  BY <1>2, EvidenceAssumption DEF AskLoopInv
<1>12. ask[x].conv = c /\ ~ask[x].kept
  BY <1>1 DEF old, c
<1> QED
  BY <1>2, <1>3, <1>5, <1>6, <1>7, <1>8, <1>9, <1>10, <1>11, <1>12, AnswerStep

\* The steps that a reply to one question makes.
LEMMA RepliesStep == ASSUME AskLoopInv, NEW x \in Asks, Replies(x) PROVE AskLoopInv'
<1>1. CASE Refuse(x) \/ StreamReturns(x) \/ WriteReturns(x)
  BY <1>1, AnswerComes
<1>2. CASE SelectReturns(x)
  BY <1>2, SelectStep
<1>3. CASE SelectFails(x) \/ WriteFails(x) \/ BodyEscapes(x)
  <2>1. Working(ask[x])
    BY <1>3 DEF SelectFails, WriteFails, BodyEscapes, Working
  <2>2. \/ ask' = [ask EXCEPT ![x] = Errored(ask[x])]
        \/ ask' = [ask EXCEPT ![x] = Failed(ask[x])]
    BY <1>3 DEF SelectFails, WriteFails, BodyEscapes, Fails
  <2>3. UNCHANGED <<conv, nextConv, crashes>>
    BY <1>3 DEF SelectFails, WriteFails, BodyEscapes
  <2> QED
    BY <2>1, <2>2, <2>3, EndStep
<1>4. CASE \E k \in 1..MaxPerRound :
             (\E ok \in BOOLEAN : CallReturns(x, k, ok)) \/ CallRaises(x, k)
  BY <1>4, CallReturnsStep, CallRaisesStep
<1>5. CASE RoundEnds(x)
  BY <1>5, RoundEndsStep
<1>6. CASE CompactReturns(x) \/ CompactFails(x)
  BY <1>6, CompactStep
<1>7. CASE FollowReturns(x) \/ FollowFails(x)
  BY <1>7, FollowStep
<1>8. CASE StreamFails(x)
  BY <1>8, TokensStep
<1> QED
  BY <1>1, <1>2, <1>3, <1>4, <1>5, <1>6, <1>7, <1>8 DEF Replies

\* Every step keeps it.
LEMMA AskLoopStep == ASSUME AskLoopInv, [Next]_vars PROVE AskLoopInv'
<1>1. CASE UNCHANGED vars
  BY <1>1 DEF vars, AskLoopInv
<1>2. ASSUME NEW x \in Asks,
             \/ AskNew(x) \/ (\E c \in ConvIds : AskInto(x, c) \/ AskMissing(x, c))
             \/ Replies(x)
             \/ TokensArrive(x) \/ Stop(x) \/ WindowCloses(x) \/ CrashWhileStoring(x)
      PROVE  AskLoopInv'
  <2>1. CASE AskNew(x)
    BY <2>1, AskNewStep
  <2>2. CASE \E c \in ConvIds : AskInto(x, c) \/ AskMissing(x, c)
    BY <2>2, AskIntoStep, AskMissingStep
  <2>3. CASE Replies(x)
    BY <2>3, RepliesStep
  <2>4. CASE TokensArrive(x)
    BY <2>4, TokensStep
  <2>5. CASE Stop(x)
    <3>1. Working(ask[x]) /\ UNCHANGED <<conv, nextConv, crashes>>
      BY <2>5 DEF Stop
    <3>2. ask' = [ask EXCEPT ![x] = [ask[x] EXCEPT !.status = "stopped", !.pc = "over"]]
      BY <2>5 DEF Stop
    <3> QED
      BY <3>1, <3>2, EndStep
  <2>6. CASE WindowCloses(x)
    BY <2>6, WindowStep
  <2>7. CASE CrashWhileStoring(x)
    BY <2>7, CrashWhileStoringStep
  <2> QED
    BY <1>2, <2>1, <2>2, <2>3, <2>4, <2>5, <2>6, <2>7
<1>3. CASE \E c \in ConvIds : DeleteConversation(c)
  BY <1>3, DeleteStep
<1>4. CASE Crash
  BY <1>4, CrashStep
<1> QED
  BY <1>1, <1>2, <1>3, <1>4 DEF Next

\* It always holds.
THEOREM AskLoopHolds == Spec => []AskLoopInv
<1>1. Init => AskLoopInv
  BY AskLoopInitial
<1>2. AskLoopInv /\ [Next]_vars => AskLoopInv'
  BY AskLoopStep
<1> QED
  BY <1>1, <1>2, PTL DEF Spec

-----------------------------------------------------------------------------
(* What follows.                                                           *)

\* Types, of the questions in progress (_answer's locals) and of the stored conversations.
THEOREM AskLoopTypeCorrect == Spec => []TypeOK
<1>1. AskLoopInv => TypeOK
  BY DEF AskLoopInv, TypeOK
<1> QED
  BY <1>1, AskLoopHolds, PTL

\* The digest and the tail that _working_evidence puts before the model stand for every call
\* that ran, each exactly once, and the last round is verbatim in the selection after it.
THEOREM EvidenceTheorem == Spec => []EvidenceIsWhole
<1>1. AskLoopInv => EvidenceIsWhole
  <2> SUFFICES ASSUME AskLoopInv, NEW x \in Asks
               PROVE  LET a == ask[x] IN
                      /\ Represented(a) = 1..Len(a.out)
                      /\ a.digest = 1..a.upto
                      /\ a.pc = "following" => a.upto <= a.before
    BY DEF EvidenceIsWhole
  <2> DEFINE a == ask[x]
             u == a.upto
             n == Len(a.out)
  <2>1. a \in AskType /\ BooksOK(a)
    BY AskIs DEF AskOK
  <2>2. u \in Nat /\ n \in Nat /\ a.before \in Nat
    BY <2>1, AskFields
  <2>3. a.digest = 1..u /\ u <= a.before /\ a.before <= n
    BY <2>1 DEF BooksOK
  <2>4. Represented(a) = a.digest \cup ((u + 1)..n)
    BY DEF Represented
  <2> HIDE DEF u, n, a
  <2>5. (1..u) \cup ((u + 1)..n) = 1..n
    BY <2>2, <2>3
  <2> QED
    BY <2>3, <2>4, <2>5 DEF a, u, n
<1> QED
  BY <1>1, AskLoopHolds, PTL

\* However the calls of a round return, the evidence lists them in the order they were selected;
\* what succeeded was audited, and what was audited is in the evidence.
THEOREM AuditedTheorem == Spec => []EvidenceIsAudited
<1>1. AskLoopInv => EvidenceIsAudited
  <2> SUFFICES ASSUME AskLoopInv, NEW x \in Asks
               PROVE  LET a == ask[x] IN
                      /\ \A k \in 1..Len(a.out) : a.out[k].ok => k \in a.audited
                      /\ a.pc \notin {"running", "over"} => a.audited \subseteq 1..Len(a.out)
                      /\ a.status = "done" => a.audited \subseteq 1..Len(a.out)
    BY DEF EvidenceIsAudited
  <2> DEFINE a == ask[x]
  <2>1. AskOK(a)
    BY AskIs
  <2>2. NewAsk.audited = {} /\ NewAsk.status = "new"
    BY DEF NewAsk
  <2> HIDE DEF a
  <2> QED
    BY <2>1, <2>2 DEF AskOK, BooksOK, Underway, Ended, a
<1> QED
  BY <1>1, AskLoopHolds, PTL

\* Past ANSWER_TIME_BUDGET_S at most one selection and at most one round begin.
THEOREM OvershootTheorem == Spec => []BoundedOvershoot
<1>1. AskLoopInv => BoundedOvershoot
  BY DEF AskLoopInv, AskOK, BooksOK, BoundedOvershoot
<1> QED
  BY <1>1, AskLoopHolds, PTL

\* The answers of a question are where the invariant says.
LEMMA AnswersAre ==
  ASSUME NEW x, NEW c
  PROVE  NoAnswer(conv[c].messages, x) => AnswersOf(x, c) = {}
BY DEF NoAnswer, IsAnswerOf, AnswersOf

\* An answer is whole in its conversation before anything says that there is one, whatever is
\* deleted, stopped or asked beside it, whichever of its writes fails (ask.py:522-551) and
\* whichever a crash cuts.
THEOREM AnswerTheorem == Spec => []AnswersHold
<1>1. AskLoopInv => KeptAnswersAreWhole
  <2> SUFFICES ASSUME AskLoopInv, NEW x \in Asks
               PROVE  LET a == ask[x] IN
                      /\ ~a.kept => \A c \in ConvIds : AnswersOf(x, c) = {}
                      /\ a.kept /\ Exists(a.conv) =>
                           /\ conv[a.conv].owner = UserOf[x]
                           /\ \E i \in 1..Len(conv[a.conv].messages) :
                                /\ AnswersOf(x, a.conv) = {i}
                                /\ conv[a.conv].messages[i].evidence = a.out
                                /\ \E j \in 1..(i - 1) :
                                     conv[a.conv].messages[j] = UserMessage(x)
                      /\ a.status = "done" => a.kept /\ a.verdict = "ok" /\ a.charged = a.spent
    BY DEF KeptAnswersAreWhole
  <2> DEFINE a == ask[x]
             c == a.conv
             ms == conv[c].messages
  <2>1. AskOK(a) /\ Stored(x, a, conv, nextConv)
    BY AskIs
  <2>2. a.status = "done" => a.kept /\ a.verdict = "ok" /\ a.charged = a.spent
    BY <2>1 DEF AskOK, Ended, Underway, NewAsk
  <2>3. ASSUME a.kept, Exists(c)
        PROVE  /\ conv[c].owner = UserOf[x]
               /\ \E i \in 1..Len(ms) :
                    /\ AnswersOf(x, c) = {i}
                    /\ ms[i].evidence = a.out
                    /\ \E j \in 1..(i - 1) : ms[j] = UserMessage(x)
    <3>1. conv[c].owner = UserOf[x] /\ OneAnswer(ms, x, a.out)
      BY <2>1, <2>3 DEF Stored, Exists
    <3>2. PICK i \in 1..Len(ms) :
            /\ IsAnswerOf(ms[i], x) /\ ms[i].evidence = a.out
            /\ \A k \in 1..Len(ms) : IsAnswerOf(ms[k], x) => k = i
            /\ \E j \in 1..(i - 1) : ms[j] = UserMessage(x)
      BY <3>1 DEF OneAnswer
    <3>3. AnswersOf(x, c) = {i}
      BY <3>2 DEF AnswersOf, IsAnswerOf
    <3> QED
      BY <3>1, <3>2, <3>3
  <2>4. ~a.kept => \A d \in ConvIds : AnswersOf(x, d) = {}
    BY <2>1, AnswersAre DEF Stored
  <2> QED
    BY <2>2, <2>3, <2>4
<1>2. AskLoopInv => NothingBeforeTheAnswer
  <2> SUFFICES ASSUME AskLoopInv, NEW x \in Asks,
                      ask[x].status \in {"new", "running", "stopped"} \/ ask[x].verdict = "failed"
               PROVE  LET a == ask[x] IN
                      ~a.kept /\ ~a.case /\ a.verdict # "ok" /\ a.charged = 0
    BY DEF NothingBeforeTheAnswer
  <2> DEFINE a == ask[x]
  <2>1. AskOK(a)
    BY AskIs
  <2>2. CASE a = NewAsk \/ Underway(a)
    BY <2>2 DEF Underway, Unwritten, NewAsk
  <2>3. CASE Ended(a)
    BY <2>3 DEF Ended
  <2> QED
    BY <2>1, <2>2, <2>3 DEF AskOK
<1>3. AskLoopInv => WritesInOrder
  <2> SUFFICES ASSUME AskLoopInv, NEW x \in Asks
               PROVE  LET a == ask[x] IN
                      /\ a.charged > 0 => a.verdict = "ok"
                      /\ (a.verdict = "ok" \/ a.case) => a.kept
    BY DEF WritesInOrder
  <2> DEFINE a == ask[x]
  <2>1. AskOK(a)
    BY AskIs
  <2>2. (a.verdict # "ok" => a.charged = 0) /\ (~a.kept => ~a.case /\ a.verdict # "ok")
    BY <2>1 DEF AskOK, Ended, Underway, Unwritten, NewAsk
  <2> HIDE DEF a
  <2> QED
    BY <2>2 DEF a
<1>4. AskLoopInv => NoTornAnswer
  <2> SUFFICES ASSUME AskLoopInv, NEW x \in Asks, ask[x].status = "done"
               PROVE  ask[x].shown # "part"
    BY DEF NoTornAnswer
  <2>1. AskOK(ask[x])
    BY AskIs
  <2> QED
    BY <2>1 DEF AskOK, Ended, Underway, NewAsk
<1>5. AskLoopInv => AnswersHold
  BY <1>1, <1>2, <1>3, <1>4 DEF AnswersHold
<1> QED
  BY <1>5, AskLoopHolds, PTL

-----------------------------------------------------------------------------
(* A question that has ended.                                              *)

\* What a step may do to the conversations while question x is over: a message that is no
\* answer of x is added, or one is begun or deleted.
NotAnswered(x) ==
  \/ conv' = conv
  \/ \E c \in ConvIds, m \in Message :
       ~IsAnswerOf(m, x) /\ conv' = [conv EXCEPT ![c].messages = Append(@, m)]
  \/ \E r : NoAnswer(r.messages, x) /\ \E c \in ConvIds : conv' = [conv EXCEPT ![c] = r]

\* Then no answer of it is added.
LEMMA AnswersStay ==
  ASSUME AskLoopInv, NEW x, NotAnswered(x), NEW c \in ConvIds
  PROVE  AnswersOf(x, c)' \subseteq AnswersOf(x, c)
<1>0. conv \in [ConvIds -> ConvType]
  BY DEF AskLoopInv
<1>1. CASE conv' = conv
  BY <1>1 DEF AnswersOf
<1>2. ASSUME NEW d \in ConvIds, NEW m \in Message, ~IsAnswerOf(m, x),
             conv' = [conv EXCEPT ![d].messages = Append(@, m)]
      PROVE  AnswersOf(x, c)' \subseteq AnswersOf(x, c)
  <2> DEFINE D == [conv EXCEPT ![d].messages = Append(@, m)]
             ms == conv[d].messages
             s == Append(ms, m)
             n == Len(ms)
  <2>1. D[d].messages = s /\ \A e \in ConvIds : e # d => D[e] = conv[e]
    BY <1>0, MessageAdded
  <2>2. ms \in Seq(Message)
    BY <1>0 DEF ConvType
  <2>3. Len(s) = n + 1 /\ s[n + 1] = m /\ n \in Nat /\ \A i \in 1..n : s[i] = ms[i]
    BY <2>2, AppendProperties
  <2>4. \A i \in 1..Len(s) : i \in 1..n \/ i = n + 1
    BY <2>3
  <2> HIDE DEF D, s
  <2>5. \A i \in 1..Len(s) : IsAnswerOf(s[i], x) => i \in 1..n /\ IsAnswerOf(ms[i], x)
    BY <1>2, <2>3, <2>4
  <2>6. conv' = D
    BY <1>2 DEF D
  <2>7. CASE c = d
    <3>1. conv'[c].messages = s
      BY <2>1, <2>6, <2>7
    <3> QED
      BY <2>5, <2>7, <3>1 DEF AnswersOf, IsAnswerOf
  <2>8. CASE c # d
    <3>1. conv'[c] = conv[c]
      BY <2>1, <2>6, <2>8
    <3> QED
      BY <3>1 DEF AnswersOf
  <2> QED
    BY <2>7, <2>8
<1>3. ASSUME NEW d \in ConvIds, NEW r, NoAnswer(r.messages, x), conv' = [conv EXCEPT ![d] = r]
      PROVE  AnswersOf(x, c)' \subseteq AnswersOf(x, c)
  <2>1. CASE c = d
    <3>1. conv'[c] = r
      BY <1>0, <1>3, <2>1
    <3> QED
      BY <1>3, <3>1 DEF AnswersOf, NoAnswer, IsAnswerOf
  <2>2. CASE c # d
    <3>1. conv'[c] = conv[c]
      BY <1>0, <1>3, <2>2
    <3> QED
      BY <3>1 DEF AnswersOf
  <2> QED
    BY <2>1, <2>2
<1> QED
  BY <1>1, <1>2, <1>3 DEF NotAnswered

\* An answer of another question.
LEMMA FinishOther ==
  ASSUME AskLoopInv, NEW x \in Asks, NEW y \in Asks, y # x, NEW a \in AskType, a.conv \in ConvIds,
         Finish(y, a)
  PROVE  (\E b : ask' = [ask EXCEPT ![y] = b]) /\ NotAnswered(x)
<1>1. Answer(y, a) \in Message /\ ~IsAnswerOf(Answer(y, a), x)
  BY MessagesAre
<1>2. PICK n \in 0..3, case \in BOOLEAN, status \in {"done", "error"} :
        Stores(y, a, n, case, status)
  BY DEF Finish
<1>3. \/ conv' = conv
      \/ conv' = [conv EXCEPT ![a.conv].messages = Append(@, Answer(y, a))]
  BY <1>2 DEF Stores, WithAnswer
<1> QED
  BY <1>1, <1>2, <1>3 DEF NotAnswered, Stores

\* A step of question y, while x is over.
LEMMA OtherStep ==
  ASSUME AskLoopInv, NEW x \in Asks, ask[x].pc = "over", NEW y \in Asks,
         \/ AskNew(y) \/ (\E c \in ConvIds : AskInto(y, c) \/ AskMissing(y, c))
         \/ Replies(y)
         \/ TokensArrive(y) \/ Stop(y) \/ WindowCloses(y) \/ CrashWhileStoring(y)
  PROVE  ask'[x] = ask[x] /\ NotAnswered(x)
<1>0. ask \in [Asks -> AskType] /\ ask[y] \in AskType /\ AskOK(ask[y])
  BY DEF AskLoopInv
<1>1. ASSUME y # x, NEW b, ask' = [ask EXCEPT ![y] = b]
      PROVE  ask'[x] = ask[x]
  BY <1>0, <1>1
<1>2. CASE AskNew(y)
  <2> DEFINE r == [owner |-> UserOf[y], messages |-> <<UserMessage(y)>>]
  <2>1. y # x /\ ask' = [ask EXCEPT ![y] = Opened(@, nextConv)]
        /\ conv' = [conv EXCEPT ![nextConv] = r]
    BY <1>2 DEF AskNew
  <2>2. nextConv \in ConvIds
    BY <1>2, EvidenceAssumption DEF AskNew, AskLoopInv, ConvIds
  <2>3. r.messages = <<UserMessage(y)>>
    OBVIOUS
  <2>4. NoAnswer(<<UserMessage(y)>>, x)
    BY DEF NoAnswer, IsAnswerOf, UserMessage
  <2>5. NoAnswer(r.messages, x)
    BY <2>3, <2>4
  <2> HIDE DEF r
  <2> QED
    BY <1>1, <2>1, <2>2, <2>5 DEF NotAnswered
<1>3. CASE \E c \in ConvIds : AskInto(y, c)
  <2>1. PICK c \in ConvIds : AskInto(y, c)
    BY <1>3
  <2>2. y # x /\ ask' = [ask EXCEPT ![y] = Opened(@, c)]
        /\ conv' = [conv EXCEPT ![c].messages = Append(@, UserMessage(y))]
    BY <2>1 DEF AskInto
  <2>3. UserMessage(y) \in Message /\ ~IsAnswerOf(UserMessage(y), x)
    BY MessagesAre
  <2> QED
    BY <1>1, <2>2, <2>3 DEF NotAnswered
<1>4. CASE Refuse(y) \/ StreamReturns(y) \/ WriteReturns(y)
  <2> DEFINE a == ask[y]
             s == Spend(a)
             t == [s EXCEPT !.shown = "all"]
             d == Staged(s, s.pc, s.status, s.verdict, "all", s.late, s.conv)
  <2>1. y # x /\ (Finish(y, s) \/ Finish(y, t))
        /\ a.pc \in {"selecting", "streaming", "writing"}
    BY <1>4 DEF Refuse, StreamReturns, WriteReturns
  <2>2. Underway(a) /\ a.conv # 0
    BY <2>1, AskIs DEF Working, Underway
  <2>3. s \in AskType /\ s.conv = a.conv
    BY <1>0, SpendIs
  <2>4. t \in AskType /\ t.conv = s.conv
    <3> HIDE DEF s
    <3>1. t \in AskType
      BY <2>3, Zenon DEF AskType
    <3> QED
      BY <2>3, <3>1 DEF AskType
  <2>5. a.conv \in ConvIds
    BY <1>0, <2>2, AskFields DEF ConvIds
  <2> HIDE DEF a, s, t
  <2>6. (\E b : ask' = [ask EXCEPT ![y] = b]) /\ NotAnswered(x)
    BY <2>1, <2>3, <2>4, <2>5, FinishOther
  <2> QED
    BY <1>1, <2>1, <2>6
<1>5. CASE CrashWhileStoring(y)
  <2> DEFINE s == Spend(ask[y])
  <2>1. PICK n \in 1..3, case \in BOOLEAN :
          ask' = [z \in Asks |-> IF z = y THEN Answered(s, n, case, "lost")
                                          ELSE LostUnlessOver(ask[z])]
    BY <1>5 DEF CrashWhileStoring
  <2>2. y # x /\ conv' = WithAnswer(y, s) /\ ask[y].pc \in {"selecting", "streaming", "writing"}
    BY <1>5 DEF CrashWhileStoring
  <2>3. ask'[x] = ask[x]
    BY <2>1, <2>2 DEF LostUnlessOver, Working
  <2>4. Underway(ask[y]) /\ ask[y].conv # 0
    BY <2>2, AskIs DEF Working, Underway
  <2>5. s \in AskType /\ s.conv = ask[y].conv
    BY <1>0, SpendIs
  <2>6. s.conv \in ConvIds
    BY <1>0, <2>4, <2>5, AskFields DEF ConvIds
  <2> HIDE DEF s
  <2>7. Answer(y, s) \in Message /\ ~IsAnswerOf(Answer(y, s), x)
    BY <2>2, <2>5, MessagesAre
  <2>8. conv' = [conv EXCEPT ![s.conv].messages = Append(@, Answer(y, s))]
    BY <2>2 DEF WithAnswer
  <2> QED
    BY <2>3, <2>6, <2>7, <2>8 DEF NotAnswered
<1>6. CASE \/ \E c \in ConvIds : AskMissing(y, c)
           \/ SelectReturns(y) \/ SelectFails(y) \/ RoundEnds(y)
           \/ CompactReturns(y) \/ CompactFails(y) \/ FollowReturns(y) \/ FollowFails(y)
           \/ StreamFails(y) \/ WriteFails(y) \/ BodyEscapes(y)
           \/ TokensArrive(y) \/ Stop(y) \/ WindowCloses(y)
           \/ \E k \in 1..MaxPerRound :
                (\E ok \in BOOLEAN : CallReturns(y, k, ok)) \/ CallRaises(y, k)
  <2>1. conv' = conv
    BY <1>6 DEF AskMissing, SelectReturns, SelectFails, RoundEnds, CompactReturns, CompactFails,
                FollowReturns, FollowFails, StreamFails, WriteFails, BodyEscapes, TokensArrive,
                Stop, WindowCloses, CallReturns, CallRaises
  <2>2. y # x
    BY <1>6 DEF AskMissing, SelectReturns, SelectFails, RoundEnds, CompactReturns, CompactFails,
                FollowReturns, FollowFails, StreamFails, WriteFails, BodyEscapes, TokensArrive,
                Stop, WindowCloses, CallReturns, CallRaises, Working
  <2>3. ask'[x] = ask[x]
    BY <1>0, <1>6, <2>2 DEF Fails, AskMissing, SelectReturns, SelectFails, RoundEnds, CompactReturns,
                CompactFails, FollowReturns, FollowFails, StreamFails, WriteFails, BodyEscapes,
                TokensArrive, Stop, WindowCloses, CallReturns, CallRaises
  <2> QED
    BY <2>1, <2>3 DEF NotAnswered
<1> QED
  BY <1>2, <1>3, <1>4, <1>5, <1>6 DEF Replies

\* Once a question has ended, by its answer, an error, a stop or a crash, nothing about it
\* changes and no answer of it is added: a stop wins over an answer that is being written.
THEOREM FinalTheorem == Spec => EndedIsFinal
<1>1. ASSUME AskLoopInv, [Next]_vars, NEW x \in Asks, ask[x].status \notin {"new", "running"}
      PROVE  /\ ask'[x] = ask[x]
             /\ \A c \in ConvIds : AnswersOf(x, c)' \subseteq AnswersOf(x, c)
  <2>1. ask[x].pc = "over"
    <3>1. AskOK(ask[x])
      BY <1>1, AskIs
    <3> QED
      BY <1>1, <3>1 DEF AskOK, Underway, Ended, NewAsk
  <2>2. ask'[x] = ask[x] /\ NotAnswered(x)
    <3>1. CASE UNCHANGED vars
      BY <3>1 DEF vars, NotAnswered
    <3>2. CASE \E y \in Asks :
                 \/ AskNew(y) \/ (\E c \in ConvIds : AskInto(y, c) \/ AskMissing(y, c))
                 \/ Replies(y)
                 \/ TokensArrive(y) \/ Stop(y) \/ WindowCloses(y) \/ CrashWhileStoring(y)
      BY <1>1, <2>1, <3>2, OtherStep
    <3>3. CASE \E c \in ConvIds : DeleteConversation(c)
      <4> DEFINE r == [owner |-> NoUser, messages |-> <<>>]
      <4>1. PICK c \in ConvIds : conv' = [conv EXCEPT ![c] = r] /\ UNCHANGED ask
        BY <3>3 DEF DeleteConversation
      <4>2. NoAnswer(r.messages, x)
        BY DEF NoAnswer
      <4> HIDE DEF r
      <4> QED
        BY <4>1, <4>2 DEF NotAnswered
    <3>4. CASE Crash
      BY <2>1, <3>4 DEF Crash, LostUnlessOver, Working, NotAnswered
    <3> QED
      BY <1>1, <3>1, <3>2, <3>3, <3>4 DEF Next
  <2> QED
    BY <1>1, <2>2, AnswersStay
<1>2. AskLoopInv /\ [Next]_vars =>
        [\A x \in Asks : ask[x].status \notin {"new", "running"} =>
           /\ ask'[x] = ask[x]
           /\ \A c \in ConvIds : AnswersOf(x, c)' \subseteq AnswersOf(x, c)]_vars
  BY <1>1
<1> QED
  BY <1>2, AskLoopHolds, PTL DEF Spec, EndedIsFinal
-----------------------------------------------------------------------------
(* The rounds: AskLoop implements Rounds, step by step.                    *)

\* The stages that may follow one another in Rounds.
Allowed(late, from, to) ==
  \/ to = from
  \/ from = "idle" /\ to \in {"selecting", "over"}
  \/ from \notin {"idle", "over"} /\ to = "over"
  \/ from = "selecting" /\ to = "running"
  \/ from = "running" /\ to \in (IF late THEN {"synthesis"} ELSE {"compacting", "following"})
  \/ from = "compacting" /\ to = "following"
  \/ from = "following" /\ to \in {"running", "synthesis"}

\* A question that goes on to such a stage makes a step of Rounds.
LEMMA AllowedStep ==
  ASSUME NEW x \in Asks, NEW b, ask \in [Asks -> AskType], ask' = [ask EXCEPT ![x] = b],
         b.late = ask[x].late, Allowed(ask[x].late, StageOf(ask[x]), StageOf(b))
  PROVE  [Loop!RoundsNext]_(Loop!rvars)
<1> DEFINE S == [y \in Asks |-> StageOf(ask[y])]
           L == [y \in Asks |-> ask[y].late]
           from == StageOf(ask[x])
           to == StageOf(b)
<1>1. ask'[x] = b /\ \A y \in Asks : y # x => ask'[y] = ask[y]
  OBVIOUS
<1>2. [y \in Asks |-> StageOf(ask'[y])] = [S EXCEPT ![x] = to]
  <2>1. \A y \in Asks : StageOf(ask'[y]) = [S EXCEPT ![x] = to][y]
    BY <1>1
  <2> QED
    BY <2>1
<1>3. [y \in Asks |-> ask'[y].late] = L
  BY <1>1
<1>4. Loop!Moves(x, from, to)
  BY <1>2, <1>3 DEF Loop!Moves
<1>5. CASE to = from
  <2>1. [S EXCEPT ![x] = to] = S
    BY <1>5
  <2> QED
    BY <1>2, <1>3, <2>1 DEF Loop!rvars
<1>6. CASE from \notin {"idle", "over"} /\ to = "over"
  <2>1. [S EXCEPT ![x] = to] = [y \in Asks |-> IF y \in {x} THEN "over" ELSE S[y]]
    BY <1>6
  <2>2. Loop!Interrupted({x})
    BY <1>2, <1>3, <1>6, <2>1 DEF Loop!Interrupted, Loop!Answering
  <2>3. {x} \in SUBSET Asks
    OBVIOUS
  <2> QED
    BY <2>2, <2>3 DEF Loop!RoundsNext
<1>7. CASE \/ from = "idle" /\ to \in {"selecting", "over"}
           \/ from = "selecting" /\ to = "running"
           \/ from = "running"
                /\ to \in (IF ask[x].late THEN {"synthesis"} ELSE {"compacting", "following"})
           \/ from = "compacting" /\ to = "following"
           \/ from = "following" /\ to \in {"running", "synthesis"}
  <2> HIDE DEF from, to
  <2>1. L[x] = ask[x].late
    OBVIOUS
  <2>2. \/ Loop!Begins(x) \/ Loop!Selected(x) \/ Loop!RoundOver(x)
        \/ Loop!Compacted(x) \/ Loop!Followed(x)
    BY <1>4, <1>7, <2>1
       DEF Loop!Begins, Loop!Selected, Loop!RoundOver, Loop!Compacted, Loop!Followed
  <2> QED
    BY <2>2 DEF Loop!RoundsNext, Loop!Replied
<1> QED
  BY <1>5, <1>6, <1>7 DEF Allowed

\* Questions that are lost make one too.
LEMMA LostStep ==
  ASSUME AskLoopInv,
         \A x \in Asks : /\ ask'[x].late = ask[x].late
                         /\ ask'[x].pc = IF Working(ask[x]) THEN "over" ELSE ask[x].pc
  PROVE  [Loop!RoundsNext]_(Loop!rvars)
<1> DEFINE S == [y \in Asks |-> StageOf(ask[y])]
           X == {x \in Asks : Working(ask[x])}
<1>1. [y \in Asks |-> ask'[y].late] = [y \in Asks |-> ask[y].late]
  OBVIOUS
<1>2. \A x \in Asks : S[x] \notin {"idle", "over"} <=> x \in X
  BY DEF StageOf, Working
<1>3. \A x \in Asks : StageOf(ask'[x]) = IF x \in X THEN "over" ELSE S[x]
  BY DEF StageOf, Working
<1>4. Loop!Interrupted(X)
  BY <1>1, <1>2, <1>3 DEF Loop!Interrupted, Loop!Answering
<1> QED
  BY <1>4 DEF Loop!RoundsNext

\* What becomes of a question when the process dies.
LostIs(a, b) == b.late = a.late /\ b.pc = IF Working(a) THEN "over" ELSE a.pc

LEMMA LostAre == ASSUME NEW a \in AskType PROVE LostIs(a, LostUnlessOver(a))
BY DEF LostIs, LostUnlessOver, AskType

\* A reply to a question brings it to the next stage, and never changes its clock.
LEMMA ReplyIs ==
  ASSUME AskLoopInv, NEW x \in Asks, Replies(x)
  PROVE  \E b : /\ ask' = [ask EXCEPT ![x] = b] /\ b.late = ask[x].late
               /\ Allowed(ask[x].late, StageOf(ask[x]), StageOf(b))
<1> DEFINE a == ask[x]
           s == Spend(a)
<1>1. a \in AskType /\ ask \in [Asks -> AskType]
  BY DEF AskLoopInv
<1>2. s \in AskType /\ s.late = a.late /\ s.pc = a.pc /\ s.out = a.out
  BY <1>1, SpendIs DEF SameTimes, SameBooks
<1>3. \A c \in AskType : /\ ToFollow(c).late = c.late /\ ToFollow(c).pc = "following"
                         /\ ToSynthesis(x, c).late = c.late
                         /\ ToSynthesis(x, c).pc \in {"streaming", "writing"}
                         /\ Errored(c).late = c.late /\ Errored(c).pc = "over"
                         /\ Failed(c).late = c.late /\ Failed(c).pc = "over"
  BY DEF ToFollow, ToSynthesis, Errored, Failed, AskType
<1>4. \A c \in AskType : \A p : ToRound(c, p).late = c.late /\ ToRound(c, p).pc = "running"
  BY DEF ToRound, AskType
<1> HIDE DEF s
<1>5. CASE Refuse(x) \/ StreamReturns(x) \/ WriteReturns(x)
  <2> DEFINE e == [s EXCEPT !.shown = "all"]
  <2>1. PICK c \in {s, e} : Finish(x, c) /\ a.pc \in {"selecting", "streaming", "writing"}
    BY <1>5 DEF Refuse, StreamReturns, WriteReturns, s
  <2>2. e \in AskType /\ e.late = a.late
    <3>1. e \in AskType
      BY <1>2, Zenon DEF AskType
    <3> QED
      BY <1>2, <3>1 DEF AskType
  <2> HIDE DEF e
  <2>3. c \in AskType /\ c.late = a.late
    BY <1>2, <2>2
  <2>4. PICK n \in 0..3, case \in BOOLEAN, status \in {"done", "error"} :
          ask' = [ask EXCEPT ![x] = Answered(c, n, case, status)]
    BY <2>1 DEF Finish, Stores
  <2> DEFINE b == Answered(c, n, case, status)
  <2>5. b.late = c.late /\ b.pc = "over"
    BY <2>3 DEF Answered, AskType
  <2> HIDE DEF b
  <2>6. Allowed(a.late, StageOf(a), StageOf(b))
    BY <2>1, <2>5 DEF Allowed, StageOf
  <2> QED
    BY <2>3, <2>4, <2>5, <2>6 DEF b
<1>6. CASE SelectReturns(x)
  <2>1. PICK p : ask' = [ask EXCEPT ![x] = ToRound(s, p)] /\ a.pc = "selecting"
    BY <1>6 DEF SelectReturns, s
  <2> DEFINE b == ToRound(s, p)
  <2>2. b.late = a.late /\ b.pc = "running"
    BY <1>2, <1>4
  <2> HIDE DEF b
  <2>3. Allowed(a.late, StageOf(a), StageOf(b))
    BY <2>1, <2>2 DEF Allowed, StageOf
  <2> QED
    BY <2>1, <2>2, <2>3 DEF b
<1>7. CASE SelectFails(x) \/ WriteFails(x) \/ BodyEscapes(x)
  <2>1. PICK b \in {Errored(a), Failed(a)} :
          /\ ask' = [ask EXCEPT ![x] = b]
          /\ a.pc \in {"selecting", "compacting", "following", "writing"}
    BY <1>7 DEF SelectFails, WriteFails, BodyEscapes, Fails
  <2>2. b.late = a.late /\ b.pc = "over"
    BY <1>1, <1>3
  <2>3. Allowed(a.late, StageOf(a), StageOf(b))
    BY <2>1, <2>2 DEF Allowed, StageOf
  <2> QED
    BY <2>1, <2>2, <2>3
<1>8. CASE \E k \in 1..MaxPerRound :
             (\E ok \in BOOLEAN : CallReturns(x, k, ok)) \/ CallRaises(x, k)
  <2>1. PICK b : ask' = [ask EXCEPT ![x] = b] /\ b.late = a.late /\ b.pc = a.pc
    <3>1. ASSUME NEW k, NEW ok, CallReturns(x, k, ok)
          PROVE  \E b : ask' = [ask EXCEPT ![x] = b] /\ b.late = a.late /\ b.pc = a.pc
      <4> DEFINE t == IF ok THEN "ok" ELSE "failed"
                 m == a.audited \cup {a.before + k}
                 b == [a EXCEPT !.slots[k] = t, !.audited = m]
      <4>1. ask' = [ask EXCEPT ![x] = b]
        BY <1>1, <3>1 DEF CallReturns
      <4>2. b.late = a.late /\ b.pc = a.pc
        BY <1>1 DEF AskType
      <4> QED
        BY <4>1, <4>2
    <3>2. ASSUME NEW k, CallRaises(x, k)
          PROVE  \E b : ask' = [ask EXCEPT ![x] = b] /\ b.late = a.late /\ b.pc = a.pc
      <4> DEFINE b == [a EXCEPT !.slots[k] = "raised"]
      <4>1. ask' = [ask EXCEPT ![x] = b]
        BY <1>1, <3>2 DEF CallRaises
      <4>2. b.late = a.late /\ b.pc = a.pc
        BY <1>1 DEF AskType
      <4> QED
        BY <4>1, <4>2
    <3> QED
      BY <1>8, <3>1, <3>2
  <2>2. Allowed(a.late, StageOf(a), StageOf(b))
    BY <2>1 DEF Allowed, StageOf
  <2> QED
    BY <2>1, <2>2
<1>9. CASE RoundEnds(x)
  <2> DEFINE r == [a EXCEPT !.out = Gathered(a), !.pending = <<>>, !.slots = <<>>]
             b == AfterRound(x, r)
  <2>1. ask' = [ask EXCEPT ![x] = b] /\ a.pc = "running"
    BY <1>9 DEF RoundEnds
  <2>2. r.late = a.late /\ DOMAIN r = DOMAIN a
    BY <1>1 DEF AskType
  <2>3. /\ ToFollow(r).late = a.late /\ ToFollow(r).pc = "following"
        /\ ToSynthesis(x, r).late = a.late
        /\ ToSynthesis(x, r).pc \in {"streaming", "writing"}
        /\ [r EXCEPT !.pc = "compacting"].late = a.late
        /\ [r EXCEPT !.pc = "compacting"].pc = "compacting"
    BY <1>1, <2>2 DEF ToFollow, ToSynthesis, AskType
  <2> HIDE DEF r
  <2>4. /\ b.late = a.late
        /\ a.late => b.pc \in {"streaming", "writing"}
        /\ ~a.late => b.pc \in {"compacting", "following"}
    BY <2>2, <2>3, Zenon DEF AfterRound
  <2> HIDE DEF b
  <2>5. Allowed(a.late, StageOf(a), StageOf(b))
    BY <2>1, <2>4 DEF Allowed, StageOf
  <2> QED
    BY <2>1, <2>4, <2>5 DEF b
<1>10. CASE CompactReturns(x) \/ CompactFails(x)
  <2>1. PICK c \in {a, Compacted(a)} : ask' = [ask EXCEPT ![x] = ToFollow(c)] /\ a.pc = "compacting"
    BY <1>10 DEF CompactReturns, CompactFails
  <2> DEFINE b == ToFollow(c)
  <2>2. ToFollow(a).late = a.late /\ ToFollow(a).pc = "following"
    BY <1>1, <1>3
  <2>3. ToFollow(Compacted(a)).late = a.late /\ ToFollow(Compacted(a)).pc = "following"
    BY <1>1 DEF ToFollow, Compacted, Spend, AskType
  <2>4. b.late = a.late /\ b.pc = "following"
    BY <2>2, <2>3
  <2> HIDE DEF b
  <2>5. Allowed(a.late, StageOf(a), StageOf(b))
    BY <2>1, <2>4 DEF Allowed, StageOf
  <2> QED
    BY <2>1, <2>4, <2>5 DEF b
<1>11. CASE FollowReturns(x) \/ FollowFails(x) \/ StreamFails(x)
  <2>1. \E b : /\ ask' = [ask EXCEPT ![x] = b] /\ b.late = a.late
              /\ \/ a.pc = "following" /\ b.pc \in {"streaming", "writing", "running"}
                 \/ a.pc = "streaming" /\ b.pc = "writing"
    <3>1. CASE FollowReturns(x)
      <4>1. PICK p : /\ a.pc = "following"
                     /\ ask' = [ask EXCEPT ![x] = IF p = <<>> THEN ToSynthesis(x, s)
                                                            ELSE ToRound(s, p)]
        BY <3>1 DEF FollowReturns, s
      <4>2. ToSynthesis(x, s).late = a.late /\ ToSynthesis(x, s).pc \in {"streaming", "writing"}
        BY <1>2, <1>3
      <4>3. ToRound(s, p).late = a.late /\ ToRound(s, p).pc = "running"
        BY <1>2, <1>4
      <4> QED
        BY <4>1, <4>2, <4>3
    <3>2. CASE FollowFails(x)
      <4>1. a.pc = "following" /\ ask' = [ask EXCEPT ![x] = ToSynthesis(x, a)]
        BY <3>2 DEF FollowFails
      <4>2. ToSynthesis(x, a).late = a.late /\ ToSynthesis(x, a).pc \in {"streaming", "writing"}
        BY <1>1, <1>3
      <4> QED
        BY <4>1, <4>2
    <3>3. CASE StreamFails(x)
      <4> DEFINE b == [a EXCEPT !.pc = "writing", !.shown = "none"]
      <4>1. ask' = [ask EXCEPT ![x] = b] /\ a.pc = "streaming"
        BY <1>1, <3>3 DEF StreamFails
      <4>2. b.late = a.late /\ b.pc = "writing"
        BY <1>1 DEF AskType
      <4> QED
        BY <4>1, <4>2
    <3> QED
      BY <1>11, <3>1, <3>2, <3>3
  <2>2. PICK b : /\ ask' = [ask EXCEPT ![x] = b] /\ b.late = a.late
                 /\ \/ a.pc = "following" /\ b.pc \in {"streaming", "writing", "running"}
                    \/ a.pc = "streaming" /\ b.pc = "writing"
    BY <2>1
  <2>3. Allowed(a.late, StageOf(a), StageOf(b))
    BY <2>2 DEF Allowed, StageOf
  <2> QED
    BY <2>2, <2>3
<1> QED
  BY <1>5, <1>6, <1>7, <1>8, <1>9, <1>10, <1>11 DEF Replies

\* Whatever the loop gathers, writes and loses, its questions go through the rounds of Rounds
\* (ask.py:429-471): a round begins only after a selection, and none after one that the
\* window had closed in.
THEOREM RoundsTheorem == Spec => Loop!RoundsSpec
<1>1. Init => Loop!RoundsInit
  BY DEF Init, Loop!RoundsInit, NewAsk, StageOf
<1>2. ASSUME AskLoopInv, [Next]_vars
      PROVE  [Loop!RoundsNext]_(Loop!rvars)
  <2>0. ask \in [Asks -> AskType]
    BY <1>2 DEF AskLoopInv
  <2>1. CASE UNCHANGED ask
    BY <2>1 DEF Loop!rvars
  <2>2. ASSUME NEW x \in Asks, Replies(x)
        PROVE  [Loop!RoundsNext]_(Loop!rvars)
    <3> DEFINE a == ask[x]
    <3>1. PICK b : /\ ask' = [ask EXCEPT ![x] = b] /\ b.late = a.late
                   /\ Allowed(a.late, StageOf(a), StageOf(b))
      BY <2>0, <2>2, <1>2, ReplyIs
    <3> QED
      BY <2>0, <3>1, AllowedStep
  <2>3. ASSUME NEW x \in Asks, NEW c \in ConvIds, AskInto(x, c)
        PROVE  [Loop!RoundsNext]_(Loop!rvars)
    <3> DEFINE b == Opened(ask[x], c)
    <3>1. ask' = [ask EXCEPT ![x] = b] /\ ask[x].pc = "idle"
      BY <2>3 DEF AskInto
    <3>2. b.pc = "selecting" /\ b.late = ask[x].late
      BY <2>0 DEF Opened, AskType
    <3>3. Allowed(ask[x].late, StageOf(ask[x]), StageOf(b))
      BY <3>1, <3>2 DEF Allowed, StageOf
    <3> HIDE DEF b
    <3> QED
      BY <2>0, <3>1, <3>2, <3>3, AllowedStep
  <2>4. ASSUME NEW x \in Asks, AskNew(x)
        PROVE  [Loop!RoundsNext]_(Loop!rvars)
    <3> DEFINE b == Opened(ask[x], nextConv)
    <3>1. ask' = [ask EXCEPT ![x] = b] /\ ask[x].pc = "idle"
      BY <2>4 DEF AskNew
    <3>2. b.pc = "selecting" /\ b.late = ask[x].late
      BY <2>0 DEF Opened, AskType
    <3>3. Allowed(ask[x].late, StageOf(ask[x]), StageOf(b))
      BY <3>1, <3>2 DEF Allowed, StageOf
    <3> HIDE DEF b
    <3> QED
      BY <2>0, <3>1, <3>2, <3>3, AllowedStep
  <2>5. ASSUME NEW x \in Asks, NEW b, ask' = [ask EXCEPT ![x] = b], b.late = ask[x].late,
               ask[x].pc # "over", b.pc = "over"
        PROVE  [Loop!RoundsNext]_(Loop!rvars)
    <3>1. Allowed(ask[x].late, StageOf(ask[x]), StageOf(b))
      BY <2>5 DEF Allowed, StageOf
    <3> QED
      BY <2>0, <2>5, <3>1, AllowedStep
  <2>6. ASSUME NEW x \in Asks, NEW c \in ConvIds, AskMissing(x, c)
        PROVE  [Loop!RoundsNext]_(Loop!rvars)
    <3> DEFINE b == Errored(ask[x])
    <3>1. ask' = [ask EXCEPT ![x] = b] /\ ask[x].pc = "idle"
      BY <2>6 DEF AskMissing
    <3>2. b.pc = "over" /\ b.late = ask[x].late
      BY <2>0 DEF Errored, AskType
    <3> HIDE DEF b
    <3> QED
      BY <2>5, <3>1, <3>2
  <2>7. ASSUME NEW x \in Asks, Stop(x)
        PROVE  [Loop!RoundsNext]_(Loop!rvars)
    <3> DEFINE b == [ask[x] EXCEPT !.status = "stopped", !.pc = "over"]
    <3>1. ask' = [ask EXCEPT ![x] = b] /\ ask[x].pc # "over"
      BY <2>7 DEF Stop, Working
    <3>2. b.pc = "over" /\ b.late = ask[x].late
      BY <2>0 DEF AskType
    <3> HIDE DEF b
    <3> QED
      BY <2>5, <3>1, <3>2
  <2>8. ASSUME NEW x \in Asks, TokensArrive(x)
        PROVE  [Loop!RoundsNext]_(Loop!rvars)
    <3> DEFINE b == [ask[x] EXCEPT !.shown = "part"]
    <3>1. ask' = [ask EXCEPT ![x] = b]
      BY <2>8 DEF TokensArrive
    <3>2. b.pc = ask[x].pc /\ b.late = ask[x].late
      BY <2>0 DEF AskType
    <3>3. Allowed(ask[x].late, StageOf(ask[x]), StageOf(b))
      BY <3>2 DEF Allowed, StageOf
    <3> HIDE DEF b
    <3> QED
      BY <2>0, <3>1, <3>2, <3>3, AllowedStep
  <2>9. ASSUME NEW x \in Asks, WindowCloses(x)
        PROVE  [Loop!RoundsNext]_(Loop!rvars)
    <3> DEFINE L == [y \in Asks |-> ask[y].late]
               b == [ask[x] EXCEPT !.late = TRUE]
    <3>1. ask' = [ask EXCEPT ![x] = b] /\ Working(ask[x]) /\ ~ask[x].late
      BY <2>9 DEF WindowCloses
    <3>2. b.pc = ask[x].pc /\ b.late = TRUE
      BY <2>0 DEF AskType
    <3> HIDE DEF b
    <3>3. ask'[x] = b /\ \A y \in Asks : y # x => ask'[y] = ask[y]
      BY <2>0, <3>1
    <3>4. \A y \in Asks : StageOf(ask'[y]) = StageOf(ask[y])
      BY <3>2, <3>3 DEF StageOf
    <3>5. \A y \in Asks : ask'[y].late = [L EXCEPT ![x] = TRUE][y]
      BY <3>2, <3>3
    <3>6. [y \in Asks |-> StageOf(ask'[y])] = [y \in Asks |-> StageOf(ask[y])]
      BY <3>4
    <3>7. [y \in Asks |-> ask'[y].late] = [L EXCEPT ![x] = TRUE]
      BY <3>5
    <3>8. StageOf(ask[x]) \notin {"idle", "over"}
      BY <3>1 DEF StageOf, Working
    <3>9. Loop!Closes(x)
      BY <3>1, <3>6, <3>7, <3>8 DEF Loop!Closes, Loop!Answering
    <3> QED
      BY <3>9 DEF Loop!RoundsNext
  <2>10. CASE Crash
    <3>1. \A x \in Asks : ask'[x] = LostUnlessOver(ask[x])
      BY <2>10 DEF Crash
    <3>2. \A x \in Asks : LostIs(ask[x], LostUnlessOver(ask[x]))
      BY <2>0, LostAre
    <3> QED
      BY <1>2, <3>1, <3>2, LostStep DEF LostIs
  <2>11. ASSUME NEW x \in Asks, CrashWhileStoring(x)
         PROVE  [Loop!RoundsNext]_(Loop!rvars)
    <3> DEFINE s == Spend(ask[x])
    <3>1. PICK n \in 1..3, case \in BOOLEAN :
            ask' = [y \in Asks |-> IF y = x THEN Answered(s, n, case, "lost")
                                            ELSE LostUnlessOver(ask[y])]
      BY <2>11 DEF CrashWhileStoring
    <3>2. Working(ask[x])
      BY <2>11 DEF CrashWhileStoring, Working
    <3>3. LostIs(ask[x], Answered(s, n, case, "lost"))
      <4>1. s \in AskType /\ s.late = ask[x].late
        BY <2>0, SpendIs DEF SameTimes
      <4> HIDE DEF s
      <4>2. Answered(s, n, case, "lost").pc = "over" /\ Answered(s, n, case, "lost").late = s.late
        BY <4>1 DEF Answered, AskType
      <4> QED
        BY <3>2, <4>1, <4>2 DEF LostIs
    <3>4. \A y \in Asks : LostIs(ask[y], LostUnlessOver(ask[y]))
      BY <2>0, LostAre
    <3> HIDE DEF s
    <3>5. \A y \in Asks : LostIs(ask[y], ask'[y])
      BY <3>1, <3>3, <3>4
    <3> QED
      BY <1>2, <3>5, LostStep DEF LostIs
  <2>12. CASE \E c \in ConvIds : DeleteConversation(c)
    BY <2>1, <2>12 DEF DeleteConversation
  <2>13. CASE UNCHANGED vars
    BY <2>1, <2>13 DEF vars
  <2> QED
    BY <1>2, <2>2, <2>3, <2>4, <2>6, <2>7, <2>8, <2>9, <2>10, <2>11, <2>12, <2>13 DEF Next
<1> QED
  BY <1>1, <1>2, AskLoopHolds, PTL DEF Spec, Loop!RoundsSpec
=============================================================================
