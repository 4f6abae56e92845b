----------------------------- MODULE RunStream -----------------------------
(***************************************************************************)
(* Questions that outlive the connection that asked them.                  *)
(*                                                                         *)
(* A run is a background task plus a bounded buffer of the events it has   *)
(* published (app/runs.py).  HTTP streams attach to a run, replay the      *)
(* buffer from an index and then follow it live; a stream may die at any   *)
(* time and the page re-attaches with the number of events it already has  *)
(* (app/api/ask.py, followRun in chat.html).  Runs end by answering,       *)
(* failing, being stopped by their owner, or being swept once overdue.     *)
(*                                                                         *)
(* Everything runs on one asyncio loop: an action below is the code        *)
(* between two awaits (or yields) of one coroutine, so it is atomic.       *)
(*                                                                         *)
(* An event is represented by its position in everything the run ever      *)
(* published (1, 2, ...); its payload is irrelevant here, except that the  *)
(* last event of an ended run is the answer, error or stopped event.       *)
(***************************************************************************)
EXTENDS Integers, Sequences

CONSTANTS
  RunIds,             \* identities runs may be given
  Tabs,               \* browser pages (or CLI clients) following runs
  Users,              \* people who own runs
  UserOf,             \* the signed-in user of each tab
  NoRun,              \* "not watching anything"
  NoUser,             \* owner of a run id not handed out yet
  MaxBufferedEvents,  \* MAX_BUFFERED_EVENTS
  MaxRunSeconds,      \* MAX_RUN_SECONDS
  KeepFinishedSeconds,\* KEEP_FINISHED_SECONDS
  MaxProgress,        \* bound: progress events a run publishes
  MaxTime,            \* bound: the clock
  MaxDrops,           \* bound: connections that die
  MaxRestarts         \* bound: process restarts

ASSUME UsersAssumption ==
  /\ UserOf \in [Tabs -> Users]
  /\ NoRun \notin RunIds
  /\ NoUser \notin Users

ASSUME LimitsAssumption ==
  /\ MaxBufferedEvents \in Nat \ {0}
  /\ MaxRunSeconds \in Nat
  /\ KeepFinishedSeconds \in Nat
  /\ {MaxProgress, MaxTime, MaxDrops, MaxRestarts} \subseteq Nat

VARIABLES
  now,       \* time.monotonic(), in ticks, starting at 1
  run,       \* run[r]: the Run object with id r
  tab,       \* tab[c]: what page c watches, its stream and what it has shown
  drops,     \* connections that have died so far
  restarts   \* process restarts so far

vars == <<now, run, tab, drops, restarts>>

-----------------------------------------------------------------------------
(* The Run object.                                                         *)

Ended == {"done", "error", "stopped"}

RunType ==
  [owner     : Users \cup {NoUser},
   status    : {"new", "running", "lost"} \cup Ended,
   kept      : BOOLEAN,        \* is it in RunRegistry._runs?
   events    : Seq(Nat),       \* the buffer
   published : Nat,            \* how many events were ever published
   dropped   : Nat,
   started   : Nat,
   finished  : Nat,            \* 0 is None
   task      : {"none", "active", "cancelling", "over"}]

\* A run id that create() has not handed out yet.
UnusedRun ==
  [owner |-> NoUser, status |-> "new", kept |-> FALSE, events |-> <<>>,
   published |-> 0, dropped |-> 0, started |-> 0, finished |-> 0,
   task |-> "none"]

\* Run(...) in create(), plus run.task = create_task(work()) which follows it
\* with no await in between.
NewRun(u) ==
  [UnusedRun EXCEPT !.owner = u, !.status = "running", !.kept = TRUE,
                    !.started = now, !.task = "active"]

Live(R) == R.status = "running"

\* Mutant of Published: forgets to count what it drops.
PublishedUncounted(R) ==
  LET all    == Append(R.events, R.published + 1)
      excess == IF Len(all) > MaxBufferedEvents
                  THEN Len(all) - MaxBufferedEvents ELSE 0
  IN  [R EXCEPT !.events    = SubSeq(all, excess + 1, Len(all)),
                !.published = @ + 1]

\* Run.publish: append, then drop from the front what exceeds the cap.
Published(R) ==
  LET all    == Append(R.events, R.published + 1)
      excess == IF Len(all) > MaxBufferedEvents
                  THEN Len(all) - MaxBufferedEvents ELSE 0
  IN  [R EXCEPT !.events    = SubSeq(all, excess + 1, Len(all)),
                !.dropped   = @ + excess,
                !.published = @ + 1]

\* Run.finish.
Finished(R, status) == [R EXCEPT !.status = status, !.finished = now]

\* RunRegistry.stop: cancel the task unless it is done, publish, finish.
StopRun(R) ==
  Finished(Published([R EXCEPT !.task = IF @ = "active" THEN "cancelling"
                                                        ELSE @]),
           "stopped")

Overdue(R) == R.kept /\ Live(R) /\ now - R.started > MaxRunSeconds

Expired(R) == /\ R.kept /\ ~Live(R)
              /\ R.finished # 0 /\ now - R.finished > KeepFinishedSeconds

\* RunRegistry._sweep, for one run of the registry.
Swept(R) ==
  IF Overdue(R) THEN StopRun(R)
  ELSE IF Expired(R) THEN [R EXCEPT !.kept = FALSE]
  ELSE R

-----------------------------------------------------------------------------
(* The page and its stream.                                                *)

TabType ==
  [run  : RunIds \cup {NoRun},
   pc   : {"off", "starting", "reading", "waiting", "ended"},
   i    : Nat,                \* the generator's index into run.events
   seen : Seq(Nat)]           \* events shown; its length is evIndex

IdleTab == [run |-> NoRun, pc |-> "off", i |-> 0, seen |-> <<>>]

\* handle.done: the page has been shown the event that ended the run.
HandleDone(T) ==
  /\ T.run # NoRun
  /\ run[T.run].status \in Ended
  /\ \E k \in 1..Len(T.seen) : T.seen[k] = run[T.run].published

\* Event.set() in publish and finish: every waiting subscriber of these runs
\* becomes runnable.  A subscriber clears the event and starts waiting in one
\* step, so the event itself carries no more state than the set of waiters.
Rung(runs) ==
  [c \in Tabs |-> IF tab[c].run \in runs /\ tab[c].pc = "waiting"
                    THEN [tab[c] EXCEPT !.pc = "reading"] ELSE tab[c]]

OverdueRuns == {r \in RunIds : Overdue(run[r])}

SweptRuns == [r \in RunIds |-> Swept(run[r])]

-----------------------------------------------------------------------------
Init ==
  /\ now = 1
  /\ run = [r \in RunIds |-> UnusedRun]
  /\ tab = [c \in Tabs |-> IdleTab]
  /\ drops = 0
  /\ restarts = 0

Tick ==
  /\ now < MaxTime
  /\ now' = now + 1
  /\ UNCHANGED <<run, tab, drops, restarts>>

(* --- the work task ----------------------------------------------------- *)

\* emit() inside _answer: one progress event.
Progress(r) ==
  /\ run[r].task = "active"
  /\ run[r].published < MaxProgress
  /\ run' = [run EXCEPT ![r] = Published(@)]
  /\ tab' = Rung({r})
  /\ UNCHANGED <<now, drops, restarts>>

\* Mutant of WorkEnds: finishes without ringing the bell.
WorkEndsSilent(r) ==
  /\ run[r].task = "active"
  /\ \E s \in {"done", "error"} :
       run' = [run EXCEPT ![r] = [Finished(Published(@), s)
                                    EXCEPT !.task = "over"]]
  /\ UNCHANGED <<now, tab, drops, restarts>>

\* The tail of work(): publish the answer or the error, then finish, with no
\* await in between.
WorkEnds(r) ==
  /\ run[r].task = "active"
  /\ \E s \in {"done", "error"} :
       run' = [run EXCEPT ![r] = [Finished(Published(@), s)
                                    EXCEPT !.task = "over"]]
  /\ tab' = Rung({r})
  /\ UNCHANGED <<now, drops, restarts>>

\* A cancelled task meets CancelledError at the await it is suspended in and
\* re-raises it; it publishes nothing more.
Unwind(r) ==
  /\ run[r].task = "cancelling"
  /\ run' = [run EXCEPT ![r].task = "over"]
  /\ UNCHANGED <<now, tab, drops, restarts>>

(* --- requests ---------------------------------------------------------- *)

\* POST /ask/stream from an idle page, or one whose last question ended
\* (the send button is disabled in between): sweep, create, start, attach.
Ask(c, r) ==
  /\ tab[c].run = NoRun \/ HandleDone(tab[c])
  /\ run[r].status = "new"
  /\ run' = [SweptRuns EXCEPT ![r] = NewRun(UserOf[c])]
  /\ tab' = [Rung(OverdueRuns) EXCEPT ![c] =
               [IdleTab EXCEPT !.run = r, !.pc = "starting"]]
  /\ UNCHANGED <<now, drops, restarts>>

\* GET /ask/runs on page load: sweep, then rejoin one of the user's live runs.
\* The page takes the first it is sent; which one that is is left open.
ResumeRuns(c) ==
  /\ tab[c].run = NoRun
  /\ run' = SweptRuns
  /\ LET mine == {r \in RunIds : /\ SweptRuns[r].kept /\ Live(SweptRuns[r])
                                 /\ SweptRuns[r].owner = UserOf[c]}
     IN  \/ mine = {} /\ tab' = Rung(OverdueRuns)
         \/ \E r \in mine :
              tab' = [Rung(OverdueRuns) EXCEPT ![c] = [IdleTab EXCEPT !.run = r]]
  /\ UNCHANGED <<now, drops, restarts>>

\* RunRegistry.get: the registry's run, for its owner only.
Accessible(c, r) == run[r].kept /\ run[r].owner = UserOf[c]

\* Mutant of Reattach: rejoins only a stream the server ended.
ReattachCleanOnly(c) ==
  /\ tab[c].run # NoRun /\ tab[c].pc = "ended"
  /\ ~HandleDone(tab[c])
  /\ Accessible(c, tab[c].run)
  /\ tab' = [tab EXCEPT ![c].pc = "starting"]
  /\ UNCHANGED <<now, run, drops, restarts>>

\* GET /ask/runs/{id}/stream?after=evIndex: followRun rejoins until done.
Reattach(c) ==
  /\ tab[c].run # NoRun /\ tab[c].pc \in {"off", "ended"}
  /\ ~HandleDone(tab[c])
  /\ Accessible(c, tab[c].run)
  /\ tab' = [tab EXCEPT ![c].pc = "starting"]
  /\ UNCHANGED <<now, run, drops, restarts>>

\* The same request answered 404 (five times over): the page gives up.
GiveUp(c) ==
  /\ tab[c].run # NoRun /\ tab[c].pc \in {"off", "ended"}
  /\ ~HandleDone(tab[c])
  /\ ~Accessible(c, tab[c].run)
  /\ tab' = [tab EXCEPT ![c] = IdleTab]
  /\ UNCHANGED <<now, run, drops, restarts>>

\* Mutant of Stop: does not look whether the run is still live.
StopAnyRun(c) ==
  /\ tab[c].run # NoRun
  /\ Accessible(c, tab[c].run)
  /\ run' = [run EXCEPT ![tab[c].run] = StopRun(@)]
  /\ tab' = Rung({tab[c].run})
  /\ UNCHANGED <<now, drops, restarts>>

\* POST /ask/runs/{id}/stop.  A run that is no longer live is left alone.
Stop(c) ==
  /\ tab[c].run # NoRun
  /\ Accessible(c, tab[c].run)
  /\ Live(run[tab[c].run])
  /\ run' = [run EXCEPT ![tab[c].run] = StopRun(@)]
  /\ tab' = Rung({tab[c].run})
  /\ UNCHANGED <<now, drops, restarts>>

(* --- one attached stream ------------------------------------------------ *)

\* Mutant of StartStream: a rejoin starts over from the first event.
StartStreamOver(c) ==
  /\ tab[c].pc = "starting"
  /\ tab' = [tab EXCEPT ![c].pc = "reading", ![c].i = 0]
  /\ UNCHANGED <<now, run, drops, restarts>>

\* The body of subscribe() begins when the response task first asks for an
\* event, some time after the request attached.
StartStream(c) ==
  /\ tab[c].pc = "starting"
  /\ LET behind == Len(tab[c].seen) - run[tab[c].run].dropped
     IN  tab' = [tab EXCEPT ![c].pc = "reading",
                            ![c].i  = IF behind > 0 THEN behind ELSE 0]
  /\ UNCHANGED <<now, run, drops, restarts>>

\* yield self.events[i]; i += 1 -- and the page shows it.
ReadEvent(c) ==
  /\ tab[c].pc = "reading"
  /\ tab[c].i < Len(run[tab[c].run].events)
  /\ tab' = [tab EXCEPT ![c].i = @ + 1,
                        ![c].seen = Append(@, run[tab[c].run].events[tab[c].i + 1])]
  /\ UNCHANGED <<now, run, drops, restarts>>

\* Nothing left to replay: return if the run is over, else clear and wait.
Drained(c) ==
  /\ tab[c].pc = "reading"
  /\ tab[c].i >= Len(run[tab[c].run].events)
  /\ tab' = [tab EXCEPT ![c].pc = IF Live(run[tab[c].run]) THEN "waiting"
                                                           ELSE "ended"]
  /\ UNCHANGED <<now, run, drops, restarts>>

\* wait_for(..., timeout=15) expires and the loop rechecks.
WaitTimesOut(c) ==
  /\ tab[c].pc = "waiting"
  /\ tab' = [tab EXCEPT ![c].pc = "reading"]
  /\ UNCHANGED <<now, run, drops, restarts>>

(* --- failures ----------------------------------------------------------- *)

\* The load balancer, the proxy or the network cuts the stream: the generator
\* is closed, an event it had yielded may be lost with it, the run goes on.
ConnectionDies(c) ==
  /\ tab[c].pc \in {"starting", "reading", "waiting"}
  /\ drops < MaxDrops
  /\ drops' = drops + 1
  /\ tab' = [tab EXCEPT ![c].pc = "off"]
  /\ UNCHANGED <<now, run, restarts>>

\* The page is reloaded or closed.
Reload(c) ==
  /\ tab[c].run # NoRun
  /\ tab' = [tab EXCEPT ![c] = IdleTab]
  /\ UNCHANGED <<now, run, drops, restarts>>

\* The process restarts: the registry and the tasks are gone, and so is every
\* connection.
Restart ==
  /\ restarts < MaxRestarts
  /\ restarts' = restarts + 1
  /\ run' = [r \in RunIds |->
               IF run[r].status = "new" THEN run[r]
               ELSE [run[r] EXCEPT !.kept = FALSE, !.task = "over",
                                   !.status = IF @ = "running" THEN "lost" ELSE @]]
  /\ tab' = [c \in Tabs |-> IF tab[c].pc = "ended" THEN tab[c]
                            ELSE [tab[c] EXCEPT !.pc = "off"]]
  /\ UNCHANGED <<now, drops>>

-----------------------------------------------------------------------------
Work(r) == Progress(r) \/ WorkEnds(r) \/ Unwind(r)

Stream(c) == StartStream(c) \/ ReadEvent(c) \/ Drained(c) \/ WaitTimesOut(c)

Page(c) == Reattach(c) \/ GiveUp(c)

Next ==
  \/ Tick
  \/ \E r \in RunIds : Work(r)
  \/ \E c \in Tabs : \/ \E r \in RunIds : Ask(c, r)
                     \/ ResumeRuns(c) \/ Stop(c) \/ Page(c) \/ Stream(c)
                     \/ ConnectionDies(c) \/ Reload(c)
  \/ Restart

Spec == Init /\ [][Next]_vars

\* The event loop runs every ready coroutine, and followRun keeps rejoining.
\* Nothing is assumed of people (Ask, Stop, ResumeRuns, Reload), of time, of
\* the network, or of the work.
Fairness ==
  \A c \in Tabs : /\ WF_vars(StartStream(c)) /\ WF_vars(ReadEvent(c))
                  /\ WF_vars(Drained(c)) /\ WF_vars(Page(c))

FairSpec == Spec /\ Fairness

\* The same, and time passes, and every task that is not hung ends: the rounds
\* of _answer stop at ANSWER_TIME_BUDGET_S and each of its awaits has a timeout.
WorkFairSpec ==
  /\ FairSpec
  /\ WF_vars(Tick)
  /\ \A r \in RunIds : WF_vars(WorkEnds(r)) /\ WF_vars(Unwind(r))

-----------------------------------------------------------------------------
(* Properties.                                                             *)

TypeOK ==
  /\ now \in Nat \ {0}
  /\ run \in [RunIds -> RunType]
  /\ tab \in [Tabs -> TabType]
  /\ drops \in Nat
  /\ restarts \in Nat
  /\ \A c \in Tabs : tab[c].pc # "off" => tab[c].run # NoRun

\* The buffer is always the newest events, in order, at most the cap of them,
\* and `dropped` is exactly the position of the one before the first: the
\* absolute index a client counts and the index into the buffer agree.
BufferIsTheTail ==
  \A r \in RunIds :
    LET R == run[r] IN
    /\ Len(R.events) <= MaxBufferedEvents
    /\ Len(R.events) + R.dropped = R.published
    /\ \A k \in 1..Len(R.events) : R.events[k] = R.dropped + k

\* "A client that counted N events and reattaches with after=N misses nothing
\* and repeats nothing" (test_runs.py): as long as the buffer has never
\* overflowed, what a page has shown is exactly events 1, 2, ..., n of its run,
\* however many connections died and were rejoined on the way.
ReplayIsExact ==
  \A c \in Tabs :
    tab[c].run # NoRun /\ run[tab[c].run].dropped = 0
      => \A k \in 1..Len(tab[c].seen) : tab[c].seen[k] = k

\* Even after an overflow a page never counts more events than were published
\* up to the place its stream has read to: re-attaching with that count resumes
\* at or before this place.  It may repeat events, but loses none that the live
\* stream had not already passed over.
CountNeverAhead ==
  \A c \in Tabs :
    tab[c].run # NoRun =>
      /\ Len(tab[c].seen) <= run[tab[c].run].published
      /\ tab[c].pc \in {"reading", "waiting"} =>
           /\ tab[c].i <= Len(run[tab[c].run].events)
           /\ Len(tab[c].seen) <= run[tab[c].run].dropped + tab[c].i

\* The three indices agree: what the buffer holds, where a stream reads and what
\* a page has counted, through every overflow, dead connection and rejoin.
StreamsAreExact == BufferIsTheTail /\ ReplayIsExact /\ CountNeverAhead

\* No lost wake-up: a subscriber is only ever asleep when the run is live and
\* there is nothing at its index to read.
NoLostWakeup ==
  \A c \in Tabs :
    tab[c].pc = "waiting" =>
      /\ Live(run[tab[c].run])
      /\ tab[c].i >= Len(run[tab[c].run].events)

\* How a run ended is decided once, and nothing is published after the event
\* that says so: a stop racing the last step of the work, a second stop and a
\* sweep never overwrite a result or add to it.
EndedRunsAreFrozen ==
  [][\A r \in RunIds :
       run[r].status \in Ended =>
         /\ run'[r].status = run[r].status
         /\ run'[r].published = run[r].published]_vars

\* A page keeps following until the run ends: it is shown the final event, or
\* learns that the run is gone, or is reloaded -- it never spins for ever.
FollowersLearnTheEnd ==
  \A c \in Tabs : tab[c].run # NoRun ~> (tab[c].run = NoRun \/ HandleDone(tab[c]))

\* Refinement: as long as no buffer overflows, the registry, the buffers, the
\* streams and the rejoining page together implement the feed of module Feed.
AbstractFeed ==
  INSTANCE Feed WITH
    Runs <- RunIds, Viewers <- Tabs, Nothing <- NoRun,
    feed <- [r \in RunIds |-> [len  |-> run[r].published,
                               over |-> run[r].status \in Ended \cup {"lost"}]],
    view <- [c \in Tabs |-> [run |-> tab[c].run, shown |-> tab[c].seen]]

\* Every step of the code is a step of the feed, or changes nothing of it.
ImplementsFeed == AbstractFeed!Spec

\* runs.py, subscribe: "Replay from `from_index`, then follow live until the
\* run ends."  A stream with nothing left to deliver has delivered the newest
\* event there is.
FollowsLive ==
  \A c \in Tabs :
    tab[c].pc = "waiting" /\ tab[c].seen # <<>>
      => tab[c].seen[Len(tab[c].seen)] = run[tab[c].run].published
=============================================================================
