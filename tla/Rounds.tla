------------------------------- MODULE Rounds -------------------------------
(***************************************************************************)
(* Why a question ends: the loop of _answer in app/api/ask.py, with all it *)
(* gathers left out.  The values of a call's arguments are without bound,  *)
(* so the selector can always ask for a call that is not a repetition; it  *)
(* may do so in every round, and a round may always be as good as any.     *)
(* What is left to end the loop is the window, ANSWER_TIME_BUDGET_S.       *)
(*                                                                         *)
(* AskLoop, which has the evidence and the writes, implements this.        *)
(***************************************************************************)
CONSTANT Asks   \* questions that may be asked

VARIABLES
  stage,  \* where each question is
  late    \* time.monotonic() >= deadline, for each question

rvars == <<stage, late>>

Stages ==
  {"idle", "selecting", "running", "compacting", "following", "synthesis", "over"}

Answering(x) == stage[x] \notin {"idle", "over"}

RoundsInit ==
  /\ stage = [x \in Asks |-> "idle"]
  /\ late = [x \in Asks |-> FALSE]

Moves(x, from, to) ==
  /\ stage[x] = from
  /\ stage' = [stage EXCEPT ![x] = to]
  /\ UNCHANGED late

-----------------------------------------------------------------------------

\* It is asked, or refused a conversation.
Begins(x) == \E to \in {"selecting", "over"} : Moves(x, "idle", to)

\* Functions are chosen; or it ends, by a refusal or a failure.
Selected(x) == \E to \in {"running", "over"} : Moves(x, "selecting", to)

\* Mutant of RoundOver: the clock is not looked at.
RoundOverNoDeadline(x) ==
  \E to \in {"compacting", "following"} : Moves(x, "running", to)

\* A round is over: past the window the answer is written from what is in hand; before it
\* the selector is asked again, after a compaction if there is much.
RoundOver(x) ==
  \E to \in IF late[x] THEN {"synthesis"} ELSE {"compacting", "following"} :
    Moves(x, "running", to)

\* A failed compaction is none; what is no GridError ends the question.
Compacted(x) == \E to \in {"following", "over"} : Moves(x, "compacting", to)

\* The selector asks for calls that are new, or for none, or fails.
Followed(x) == \E to \in {"running", "synthesis", "over"} : Moves(x, "following", to)

Written(x) == Moves(x, "synthesis", "over")

Replied(x) == Selected(x) \/ RoundOver(x) \/ Compacted(x) \/ Followed(x) \/ Written(x)

\* Questions are stopped, or die with the process.
Interrupted(X) ==
  /\ \A x \in X : Answering(x)
  /\ stage' = [x \in Asks |-> IF x \in X THEN "over" ELSE stage[x]]
  /\ UNCHANGED late

\* The window of a question closes.
Closes(x) ==
  /\ Answering(x) /\ ~late[x]
  /\ late' = [late EXCEPT ![x] = TRUE]
  /\ UNCHANGED stage

RoundsNext ==
  \/ \E x \in Asks : Begins(x) \/ Replied(x) \/ Closes(x)
  \/ \E X \in SUBSET Asks : Interrupted(X)

RoundsSpec == RoundsInit /\ [][RoundsNext]_rvars

\* What was asked of a model or an executor is answered, if by its timeout, and time passes.
FairRounds ==
  RoundsSpec /\ \A x \in Asks : WF_rvars(Replied(x)) /\ WF_rvars(Closes(x))

-----------------------------------------------------------------------------
\* Every question that was asked ends, though the selector asks for something new after
\* each round: the loop has no other limit than the window, which is looked at when a round
\* is over (ask.py:430-447).
EveryQuestionEnds == \A x \in Asks : Answering(x) ~> stage[x] = "over"
=============================================================================
