-------------------------------- MODULE Feed --------------------------------
(***************************************************************************)
(* What a person watching a question is promised, whatever connections,    *)
(* reloads and buffers are between them and the work (the module docstring *)
(* of app/runs.py): a run's feed only grows and ends once, with a final    *)
(* event; a viewer is shown the feed's events from the first one, in order *)
(* and without gap or repetition.                                          *)
(***************************************************************************)
EXTENDS Integers, Sequences

CONSTANTS Runs, Viewers, Nothing

VARIABLES
  feed,    \* feed[r]: events published by run r, and whether it is over
  view     \* view[v]: the run v watches and the events v has been shown

vars == <<feed, view>>

Closed == [run |-> Nothing, shown |-> <<>>]

Init ==
  /\ feed = [r \in Runs |-> [len |-> 0, over |-> FALSE]]
  /\ view = [v \in Viewers |-> Closed]

\* One event more, possibly the last one; or the run is lost.
FeedStep(r) ==
  /\ ~feed[r].over
  /\ \/ feed'[r].len = feed[r].len + 1
     \/ feed'[r].len = feed[r].len /\ feed'[r].over

ShowNext(v) ==
  /\ view[v].run # Nothing
  /\ Len(view[v].shown) < feed[view[v].run].len
  /\ view'[v] = [view[v] EXCEPT !.shown = Append(@, Len(@) + 1)]

Open(v) == \E r \in Runs : view'[v] = [Closed EXCEPT !.run = r]

Close(v) == view'[v] = Closed

\* Several feeds may move in one step (a sweep ends every overdue run).
Next ==
  /\ \A r \in Runs : feed'[r] = feed[r] \/ FeedStep(r)
  /\ \A v \in Viewers : view'[v] = view[v] \/ ShowNext(v) \/ Open(v) \/ Close(v)

Spec == Init /\ [][Next]_vars
=============================================================================
