----------------------------- MODULE MCAskLoop -----------------------------
(* Instances of AskLoop for TLC, and of Rounds beside it.                  *)
EXTENDS AskLoop, TLC

CONSTANTS x1, x2, u1, u2, ca, caSwapped, cb

AsksOfOne    == (x1 :> u1) @@ (x2 :> u1)
AskOfOne     == (x1 :> u1)

\* caSwapped is ca with its argument keys in another order.
SameFunction == (ca :> ca) @@ (caSwapped :> ca) @@ (cb :> cb)

\* ca returns a long output, cb a short one.
Sizes        == (ca :> 4) @@ (caSwapped :> 4) @@ (cb :> 1)
SizeOfOne    == (ca :> 1)
KeyOfOne     == (ca :> ca)

\* Two questions in rounds that may never run out of calls.
VARIABLES stage, late
RoundsOfTwo == INSTANCE Rounds WITH Asks <- {x1, x2}

AllOver == stage = [x \in {x1, x2} |-> "over"] /\ late = [x \in {x1, x2} |-> FALSE]

\* Of the two parts only one moves.
InitLoop == Init /\ (AllOver \/ RoundsOfTwo!RoundsInit)

NextLoop ==
  \/ AllOver /\ Next /\ UNCHANGED <<stage, late>>
  \/ RoundsOfTwo!RoundsNext /\ UNCHANGED vars

LoopSpec ==
  /\ InitLoop /\ [][NextLoop]_<<vars, stage, late>>
  /\ \A x \in Asks : WF_vars(Replies(x)) /\ WF_vars(WindowCloses(x))
  /\ \A x \in {x1, x2} : /\ WF_<<stage, late>>(RoundsOfTwo!Replied(x))
                         /\ WF_<<stage, late>>(RoundsOfTwo!Closes(x))

InitPair == Init /\ AllOver

NextPair == Next /\ UNCHANGED <<stage, late>>

PairSpec == InitPair /\ [][NextPair]_<<vars, stage, late>>

EveryQuestionEnds == RoundsOfTwo!EveryQuestionEnds
=============================================================================
