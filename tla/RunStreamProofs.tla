-------------------------- MODULE RunStreamProofs --------------------------
(***************************************************************************)
(* For every number of runs, tabs and users and every value of the limits: *)
(* RunStream is type correct, a buffer always holds the newest events at   *)
(* the positions its drop count says, a page's event count never runs      *)
(* ahead of its stream, while nothing was dropped every page has been      *)
(* shown exactly the first events of its run, no subscriber sleeps through *)
(* an event, an ended run never changes, and while nothing is dropped the  *)
(* whole implements module Feed.                                           *)
(*                                                                         *)
(* The argument: every way a run object changes (publish, finish, stop,    *)
(* sweep, restart) keeps its window well-formed and only grows `published` *)
(* and `dropped`; a stream's index and its page's count then move in step  *)
(* (IInv).  Only a live run moves, one event at a time, and whatever moves *)
(* it rings those who wait for it (TaskInv).                               *)
(***************************************************************************)
EXTENDS RunStream, SequenceTheorems, TLAPS

\* The buffer of one run object: BufferIsTheTail for it.
WindowOK(R) ==
  /\ Len(R.events) <= MaxBufferedEvents
  /\ Len(R.events) + R.dropped = R.published
  /\ \A k \in 1..Len(R.events) : R.events[k] = R.dropped + k

\* One run object may only change this way while somebody watches it.
Grows(R, S) ==
  /\ S.owner = R.owner
  /\ R.published <= S.published
  /\ R.dropped <= S.dropped
  /\ Len(R.events) <= Len(S.events)
  /\ R.status # "new" => S.status # "new"

\* What relates one page to the run it watches.
FollowOK(T, R) ==
  /\ R.status # "new"
  /\ Len(T.seen) <= R.published
  /\ T.pc \in {"reading", "waiting"} =>
       /\ T.i <= Len(R.events)
       /\ Len(T.seen) <= R.dropped + T.i
  /\ R.dropped = 0 =>
       /\ \A k \in 1..Len(T.seen) : T.seen[k] = k
       /\ T.pc \in {"reading", "waiting"} => T.i = Len(T.seen)

\* The inductive invariant: BufferIsTheTail, CountNeverAhead and ReplayIsExact
\* are not inductive alone, because what a re-attached stream reads next
\* depends on the index and the count agreeing with the drop count.
IInv ==
  /\ TypeOK
  /\ \A r \in RunIds : WindowOK(run[r])
  /\ \A c \in Tabs : tab[c].run # NoRun => FollowOK(tab[c], run[tab[c].run])

-----------------------------------------------------------------------------
(* Run objects.                                                            *)

\* Publishing keeps the window, appends one event and never loses the count.
LEMMA PublishedKeepsWindow ==
  ASSUME NEW R \in RunType, WindowOK(R)
  PROVE  /\ Published(R) \in RunType
         /\ WindowOK(Published(R))
         /\ Grows(R, Published(R))
         /\ Published(R).published = R.published + 1
         /\ Published(R).status = R.status
<1> DEFINE all == Append(R.events, R.published + 1)
           excess == IF Len(all) > MaxBufferedEvents
                       THEN Len(all) - MaxBufferedEvents ELSE 0
           kept == SubSeq(all, excess + 1, Len(all))
<1>1. /\ R.events \in Seq(Nat) /\ R.published \in Nat /\ R.dropped \in Nat
      /\ R.owner \in Users \cup {NoUser}
      /\ Len(R.events) \in Nat
  BY DEF RunType
<1>2. MaxBufferedEvents \in Nat \ {0}
  BY LimitsAssumption
<1>3. Len(all) = Len(R.events) + 1
  BY <1>1
<1>4. /\ excess \in {0, 1} /\ excess <= Len(R.events)
      /\ Len(R.events) + 1 - excess <= MaxBufferedEvents
      /\ Len(R.events) <= Len(R.events) + 1 - excess
  <2> HIDE DEF all
  <2> QED
    BY <1>1, <1>2, <1>3 DEF WindowOK
<1>5. /\ kept \in Seq(Nat) /\ Len(kept) = Len(R.events) + 1 - excess
      /\ \A k \in 1..Len(kept) : kept[k] = (R.dropped + excess) + k
  <2>1. /\ all \in Seq(Nat) /\ Len(all) = Len(R.events) + 1
        /\ \A k \in 1..Len(R.events) : all[k] = R.events[k]
        /\ all[Len(R.events) + 1] = R.published + 1
    BY <1>1, AppendProperties
  <2> HIDE DEF all, excess
  <2>2. ASSUME NEW k \in 1..Len(all)
        PROVE  all[k] = R.dropped + k /\ all[k] \in Nat
    <3>a. Len(R.events) + R.dropped = R.published
      BY DEF WindowOK
    <3>b. \A j \in 1..Len(R.events) : R.events[j] = R.dropped + j
      BY DEF WindowOK
    <3>1. CASE k = Len(R.events) + 1
      <4>1. all[k] = R.published + 1
        BY <2>1, <3>1
      <4>2. R.published + 1 = R.dropped + (Len(R.events) + 1)
        BY <1>1, <3>a
      <4> QED
        BY <1>1, <3>1, <4>1, <4>2
    <3>2. CASE k \in 1..Len(R.events)
      <4>1. all[k] = R.events[k] /\ R.events[k] = R.dropped + k
        BY <2>1, <3>b, <3>2
      <4> QED
        BY <1>1, <3>2, <4>1
    <3> QED
      BY <1>1, <2>1, <3>1, <3>2
  <2>3. excess + 1 \in Int /\ Len(all) \in Int /\ excess + 1 <= Len(all)
    BY <1>1, <1>4, <2>1
  <2>4. /\ kept \in Seq(Nat)
        /\ Len(kept) = IF excess + 1 <= Len(all)
                         THEN Len(all) - (excess + 1) + 1 ELSE 0
        /\ \A i \in 1 .. Len(all) - (excess + 1) + 1 :
             kept[i] = all[(excess + 1) + i - 1]
    <3>1. \A i \in excess + 1 .. Len(all) : all[i] \in Nat
      BY <1>4, <2>2, <2>3
    <3> QED
      BY <2>3, <3>1, SubSeqProperties
  <2> HIDE DEF kept
  <2>5. Len(kept) = Len(R.events) + 1 - excess
    BY <1>1, <1>4, <2>1, <2>3, <2>4
  <2>6. ASSUME NEW k \in 1..Len(kept) PROVE kept[k] = (R.dropped + excess) + k
    <3>1. /\ k \in 1 .. Len(all) - (excess + 1) + 1
          /\ (excess + 1) + k - 1 = excess + k
          /\ excess + k \in 1..Len(all)
      BY <1>1, <1>4, <2>1, <2>3, <2>5
    <3>2. kept[k] = all[excess + k] /\ all[excess + k] = R.dropped + (excess + k)
      BY <2>2, <2>4, <3>1
    <3> QED
      BY <1>1, <1>4, <3>1, <3>2
  <2> QED
    BY <2>4, <2>5, <2>6
<1> DEFINE P == [R EXCEPT !.events = kept, !.dropped = @ + excess,
                          !.published = @ + 1]
<1>6. P = Published(R)
  BY DEF Published
<1> HIDE DEF all, excess, kept
<1>7. /\ P \in RunType
      /\ P.events = kept /\ P.dropped = R.dropped + excess
      /\ P.published = R.published + 1 /\ P.owner = R.owner
      /\ P.status = R.status
  <2>1. R.dropped + excess \in Nat /\ R.published + 1 \in Nat
    BY <1>1, <1>4
  <2> QED
    BY <1>1, <1>5, <2>1 DEF RunType
<1> HIDE DEF P
<1>8. WindowOK(P)
  <2>1. Len(kept) + (R.dropped + excess) = R.published + 1
    <3>1. Len(R.events) + R.dropped = R.published
      BY DEF WindowOK
    <3> QED
      BY <1>1, <1>4, <1>5, <3>1
  <2> QED
    BY <1>4, <1>5, <1>7, <2>1 DEF WindowOK
<1>9. Grows(R, P)
  <2>1. /\ R.published <= R.published + 1
        /\ R.dropped <= R.dropped + excess
        /\ Len(R.events) <= Len(kept)
    BY <1>1, <1>4, <1>5
  <2> QED
    BY <1>7, <2>1 DEF Grows
<1> QED
  BY <1>6, <1>7, <1>8, <1>9

\* The fields that neither the window nor the counts depend on may change.
LEMMA SameWindow ==
  ASSUME NEW R \in RunType, NEW S \in RunType, WindowOK(R),
         S.owner = R.owner, S.events = R.events, S.dropped = R.dropped,
         S.published = R.published, R.status # "new" => S.status # "new"
  PROVE  WindowOK(S) /\ Grows(R, S)
<1>1. Len(R.events) \in Nat /\ R.published \in Nat /\ R.dropped \in Nat
  BY DEF RunType
<1> QED
  BY <1>1 DEF WindowOK, Grows

\* Growing is transitive.
LEMMA GrowsTransitive ==
  ASSUME NEW R \in RunType, NEW S \in RunType, NEW T \in RunType,
         Grows(R, S), Grows(S, T)
  PROVE  Grows(R, T)
<1>1. /\ {R.published, S.published, T.published} \subseteq Nat
      /\ {R.dropped, S.dropped, T.dropped} \subseteq Nat
      /\ {Len(R.events), Len(S.events), Len(T.events)} \subseteq Nat
  BY DEF RunType
<1> QED
  BY <1>1 DEF Grows

\* Finishing touches neither the window nor the counts.
LEMMA FinishedKeepsWindow ==
  ASSUME NEW R \in RunType, WindowOK(R), NEW s \in Ended, now \in Nat
  PROVE  /\ Finished(R, s) \in RunType
         /\ WindowOK(Finished(R, s))
         /\ Grows(R, Finished(R, s))
<1>1. Finished(R, s) \in RunType
  BY DEF RunType, Finished
<1>2. /\ Finished(R, s).owner = R.owner /\ Finished(R, s).events = R.events
      /\ Finished(R, s).dropped = R.dropped
      /\ Finished(R, s).published = R.published
      /\ Finished(R, s).status = s
  BY DEF RunType, Finished
<1>3. s # "new"
  BY DEF Ended
<1> QED
  BY <1>1, <1>2, <1>3, SameWindow

\* Neither does stopping, beyond the one event it publishes.
LEMMA StopKeepsWindow ==
  ASSUME NEW R \in RunType, WindowOK(R), now \in Nat
  PROVE  /\ StopRun(R) \in RunType
         /\ WindowOK(StopRun(R))
         /\ Grows(R, StopRun(R))
<1> DEFINE C == [R EXCEPT !.task = IF @ = "active" THEN "cancelling" ELSE @]
           F == Finished(Published(C), "stopped")
<1>1. /\ C \in RunType
      /\ C.owner = R.owner /\ C.events = R.events /\ C.dropped = R.dropped
      /\ C.published = R.published /\ C.status = R.status
  BY DEF RunType
<1>2. F = StopRun(R)
  BY DEF StopRun
<1> HIDE DEF C
<1>3. WindowOK(C) /\ Grows(R, C)
  BY <1>1, SameWindow
<1>4. /\ Published(C) \in RunType /\ WindowOK(Published(C))
      /\ Grows(C, Published(C))
  BY <1>1, <1>3, PublishedKeepsWindow
<1>5. F \in RunType /\ WindowOK(F) /\ Grows(Published(C), F)
  <2>1. "stopped" \in Ended
    BY DEF Ended
  <2> QED
    BY <1>4, <2>1, FinishedKeepsWindow
<1> HIDE DEF F
<1>6. Grows(R, Published(C))
  BY <1>1, <1>3, <1>4, GrowsTransitive
<1>7. Grows(R, F)
  BY <1>4, <1>5, <1>6, GrowsTransitive
<1> QED
  BY <1>2, <1>5, <1>7

\* Nor does a sweep.
LEMMA SweptKeepsWindow ==
  ASSUME NEW R \in RunType, WindowOK(R), now \in Nat
  PROVE  /\ Swept(R) \in RunType
         /\ WindowOK(Swept(R))
         /\ Grows(R, Swept(R))
<1> DEFINE E == [R EXCEPT !.kept = FALSE]
<1>1. /\ E \in RunType
      /\ E.owner = R.owner /\ E.events = R.events /\ E.dropped = R.dropped
      /\ E.published = R.published /\ E.status = R.status
  BY DEF RunType
<1>2. CASE Overdue(R)
  BY <1>2, StopKeepsWindow DEF Swept
<1>3. CASE ~Overdue(R) /\ Expired(R)
  <2>1. Swept(R) = E
    BY <1>3 DEF Swept
  <2> HIDE DEF E
  <2> QED
    BY <1>1, <2>1, SameWindow
<1>4. CASE ~Overdue(R) /\ ~Expired(R)
  <2>1. Swept(R) = R
    BY <1>4 DEF Swept
  <2> QED
    BY <2>1, SameWindow
<1> QED
  BY <1>2, <1>3, <1>4

-----------------------------------------------------------------------------
(* Pages.                                                                  *)

\* A page stays consistent with its run while the run grows.
LEMMA FollowSurvivesGrowth ==
  ASSUME NEW T \in TabType, NEW R \in RunType, NEW S \in RunType,
         FollowOK(T, R), Grows(R, S)
  PROVE  FollowOK(T, S)
<1>1. /\ R.published \in Nat /\ S.published \in Nat
      /\ R.dropped \in Nat /\ S.dropped \in Nat
      /\ Len(R.events) \in Nat /\ Len(S.events) \in Nat
      /\ T.i \in Nat /\ Len(T.seen) \in Nat
  BY DEF RunType, TabType
<1> QED
  BY <1>1 DEF FollowOK, Grows

\* A page that shows nothing new and starts reading nothing.
Undisturbed(T, U) ==
  /\ U.run = T.run /\ U.i = T.i /\ U.seen = T.seen
  /\ U.pc \in {"reading", "waiting"} => T.pc \in {"reading", "waiting"}
  /\ U.pc # "off" => T.pc # "off"

\* A page that is left alone still follows a run that grew.
LEMMA UndisturbedFollows ==
  ASSUME NEW T, NEW U, NEW R, FollowOK(T, R), Undisturbed(T, U)
  PROVE  FollowOK(U, R)
  BY DEF FollowOK, Undisturbed

\* Waking subscribers disturbs no page.
LEMMA RungUndisturbed ==
  ASSUME NEW runs, tab \in [Tabs -> TabType]
  PROVE  /\ Rung(runs) \in [Tabs -> TabType]
         /\ \A c \in Tabs : Undisturbed(tab[c], Rung(runs)[c])
<1> SUFFICES ASSUME NEW c \in Tabs
             PROVE  Rung(runs)[c] \in TabType /\ Undisturbed(tab[c], Rung(runs)[c])
  BY DEF Rung
<1>1. Rung(runs)[c] = IF tab[c].run \in runs /\ tab[c].pc = "waiting"
                        THEN [tab[c] EXCEPT !.pc = "reading"] ELSE tab[c]
  BY DEF Rung
<1>2. tab[c] \in TabType
  OBVIOUS
<1>3. CASE tab[c].run \in runs /\ tab[c].pc = "waiting"
  BY <1>1, <1>2, <1>3 DEF TabType, Undisturbed
<1>4. CASE ~(tab[c].run \in runs /\ tab[c].pc = "waiting")
  BY <1>1, <1>2, <1>4 DEF Undisturbed
<1> QED
  BY <1>3, <1>4

\* A step in which every run object grows and no page is disturbed.
LEMMA GrowthStep ==
  ASSUME IInv, now' \in Nat \ {0}, drops' \in Nat, restarts' \in Nat,
         run' \in [RunIds -> RunType],
         \A r \in RunIds : WindowOK(run'[r]) /\ Grows(run[r], run'[r]),
         tab' \in [Tabs -> TabType],
         \A c \in Tabs : Undisturbed(tab[c], tab'[c])
  PROVE  IInv'
<1>1. ASSUME NEW c \in Tabs, tab'[c].run # NoRun
      PROVE  FollowOK(tab'[c], run'[tab'[c].run])
  <2>1. tab'[c].run = tab[c].run /\ tab[c].run \in RunIds
    BY <1>1 DEF IInv, TypeOK, Undisturbed, TabType
  <2>2. FollowOK(tab[c], run[tab[c].run])
    BY <1>1, <2>1 DEF IInv
  <2>3. FollowOK(tab[c], run'[tab[c].run])
    BY <2>1, <2>2, FollowSurvivesGrowth DEF IInv, TypeOK
  <2> QED
    BY <2>1, <2>3, UndisturbedFollows
<1>2. \A c \in Tabs : tab'[c].pc # "off" => tab'[c].run # NoRun
  BY DEF IInv, TypeOK, Undisturbed
<1> QED
  BY <1>1, <1>2 DEF IInv, TypeOK

\* A step of one page, in which no run object changes.
LEMMA PageStep ==
  ASSUME IInv, NEW c \in Tabs, UNCHANGED <<now, run, restarts>>,
         drops' \in Nat, NEW T \in TabType,
         tab' = [tab EXCEPT ![c] = T],
         T.pc # "off" => T.run # NoRun,
         T.run # NoRun => FollowOK(T, run[T.run])
  PROVE  IInv'
<1>1. tab' \in [Tabs -> TabType]
  BY DEF IInv, TypeOK
<1>2. \A d \in Tabs : tab'[d] = IF d = c THEN T ELSE tab[d]
  BY DEF IInv, TypeOK
<1>3. ASSUME NEW d \in Tabs
      PROVE  /\ tab'[d].run # NoRun => FollowOK(tab'[d], run[tab'[d].run])
             /\ tab'[d].pc # "off" => tab'[d].run # NoRun
  BY <1>2 DEF IInv, TypeOK
<1> QED
  BY <1>1, <1>3 DEF IInv, TypeOK

-----------------------------------------------------------------------------
(* The invariant holds initially and every action keeps it.                *)

\* Unused and new runs, and idle pages, are well formed.
LEMMA FreshObjects ==
  /\ UnusedRun \in RunType /\ WindowOK(UnusedRun)
  /\ UnusedRun.published = 0 /\ UnusedRun.dropped = 0
  /\ IdleTab \in TabType
  /\ IdleTab.run = NoRun /\ IdleTab.pc = "off" /\ IdleTab.seen = <<>>
<1>1. UnusedRun \in RunType /\ IdleTab \in TabType
  BY DEF UnusedRun, IdleTab, RunType, TabType, Ended
<1>2. WindowOK(UnusedRun)
  BY LimitsAssumption DEF WindowOK, UnusedRun
<1>3. UnusedRun.published = 0 /\ UnusedRun.dropped = 0
  BY DEF UnusedRun
<1>4. IdleTab.run = NoRun /\ IdleTab.pc = "off" /\ IdleTab.seen = <<>>
  BY DEF IdleTab
<1> QED
  BY <1>1, <1>2, <1>3, <1>4

\* The first state satisfies the invariant.
LEMMA InitIInv == Init => IInv
<1> SUFFICES ASSUME Init PROVE IInv
  OBVIOUS
<1> QED
  BY FreshObjects DEF Init, IInv, TypeOK

\* One run object changes and some of its waiters wake up.
LEMMA OneRunStep ==
  ASSUME IInv, NEW r \in RunIds, NEW S \in RunType,
         WindowOK(S), Grows(run[r], S), UNCHANGED <<now, drops, restarts>>,
         run' = [run EXCEPT ![r] = S],
         tab' = tab \/ \E runs \in SUBSET RunIds : tab' = Rung(runs)
  PROVE  IInv'
<1>1. /\ run \in [RunIds -> RunType] /\ tab \in [Tabs -> TabType]
      /\ \A q \in RunIds : WindowOK(run[q])
  BY DEF IInv, TypeOK
<1>2. run' \in [RunIds -> RunType]
  BY <1>1
<1>3. \A q \in RunIds : WindowOK(run'[q]) /\ Grows(run[q], run'[q])
  <2> SUFFICES ASSUME NEW q \in RunIds
               PROVE  WindowOK(run'[q]) /\ Grows(run[q], run'[q])
    OBVIOUS
  <2>1. CASE q = r
    BY <1>1, <2>1
  <2>2. CASE q # r
    <3>1. run'[q] = run[q]
      BY <1>1, <2>2
    <3> QED
      BY <1>1, <3>1, SameWindow
  <2> QED
    BY <2>1, <2>2
<1>4. tab' \in [Tabs -> TabType] /\ \A c \in Tabs : Undisturbed(tab[c], tab'[c])
  BY <1>1, RungUndisturbed DEF Undisturbed
<1> QED
  BY <1>2, <1>3, <1>4, GrowthStep DEF IInv, TypeOK

\* The steps of the work task keep the invariant.
LEMMA WorkKeepsIInv ==
  ASSUME IInv, NEW r \in RunIds, Work(r)
  PROVE  IInv'
<1>1. run[r] \in RunType /\ WindowOK(run[r]) /\ now \in Nat
      /\ run \in [RunIds -> RunType]
  BY DEF IInv, TypeOK
<1>2. CASE Progress(r)
  <2>1. /\ run' = [run EXCEPT ![r] = Published(run[r])]
        /\ tab' = Rung({r}) /\ UNCHANGED <<now, drops, restarts>>
    BY <1>2 DEF Progress
  <2> QED
    BY <1>1, <2>1, PublishedKeepsWindow, OneRunStep
<1>3. CASE WorkEnds(r)
  <2>1. PICK s \in {"done", "error"} :
          run' = [run EXCEPT ![r] = [Finished(Published(run[r]), s)
                                       EXCEPT !.task = "over"]]
    BY <1>3 DEF WorkEnds
  <2>2. tab' = Rung({r}) /\ UNCHANGED <<now, drops, restarts>>
    BY <1>3 DEF WorkEnds
  <2> DEFINE P == Published(run[r])
             F == Finished(P, s)
             S == [F EXCEPT !.task = "over"]
  <2>3. P \in RunType /\ WindowOK(P) /\ Grows(run[r], P)
    BY <1>1, PublishedKeepsWindow
  <2> HIDE DEF P
  <2>4. F \in RunType /\ WindowOK(F) /\ Grows(P, F)
    <3>1. s \in Ended
      BY DEF Ended
    <3> QED
      BY <1>1, <2>3, <3>1, FinishedKeepsWindow
  <2> HIDE DEF F
  <2>5. /\ S \in RunType
        /\ S.owner = F.owner /\ S.events = F.events /\ S.dropped = F.dropped
        /\ S.published = F.published /\ S.status = F.status
    BY <2>4 DEF RunType
  <2>6. run' = [run EXCEPT ![r] = S]
    BY <2>1 DEF F, P
  <2> HIDE DEF S
  <2>7. WindowOK(S) /\ Grows(F, S)
    BY <2>4, <2>5, SameWindow
  <2>8. Grows(run[r], S)
    <3>1. Grows(run[r], F)
      BY <1>1, <2>3, <2>4, GrowsTransitive
    <3> QED
      BY <1>1, <2>4, <2>5, <2>7, <3>1, GrowsTransitive
  <2> QED
    BY <2>2, <2>5, <2>6, <2>7, <2>8, OneRunStep
<1>4. CASE Unwind(r)
  <2> DEFINE S == [run[r] EXCEPT !.task = "over"]
  <2>1. /\ S \in RunType
        /\ S.owner = run[r].owner /\ S.events = run[r].events
        /\ S.dropped = run[r].dropped /\ S.published = run[r].published
        /\ S.status = run[r].status
    BY <1>1 DEF RunType
  <2>2. run' = [run EXCEPT ![r] = S] /\ UNCHANGED <<now, tab, drops, restarts>>
    BY <1>4 DEF Unwind
  <2> HIDE DEF S
  <2>3. WindowOK(S) /\ Grows(run[r], S)
    BY <1>1, <2>1, SameWindow
  <2> QED
    BY <2>1, <2>2, <2>3, OneRunStep
<1> QED
  BY <1>2, <1>3, <1>4 DEF Work

\* A sweep only grows or forgets runs.
LEMMA SweepGrows ==
  ASSUME IInv
  PROVE  /\ SweptRuns \in [RunIds -> RunType]
         /\ \A r \in RunIds : /\ WindowOK(SweptRuns[r])
                              /\ Grows(run[r], SweptRuns[r])
<1> SUFFICES ASSUME NEW r \in RunIds
             PROVE  /\ SweptRuns[r] \in RunType
                    /\ WindowOK(SweptRuns[r]) /\ Grows(run[r], SweptRuns[r])
  BY DEF SweptRuns
<1>1. SweptRuns[r] = Swept(run[r])
  BY DEF SweptRuns
<1>2. run[r] \in RunType /\ WindowOK(run[r]) /\ now \in Nat
  BY DEF IInv, TypeOK
<1> QED
  BY <1>1, <1>2, SweptKeepsWindow

\* Asking: a new run, watched from its first event, while others are swept.
LEMMA AskKeepsIInv ==
  ASSUME IInv, NEW c \in Tabs, NEW r \in RunIds, Ask(c, r)
  PROVE  IInv'
<1> DEFINE N == NewRun(UserOf[c])
           T == [IdleTab EXCEPT !.run = r, !.pc = "starting"]
           W == Rung(OverdueRuns)
<1>1. /\ run[r].status = "new"
      /\ run' = [SweptRuns EXCEPT ![r] = N] /\ tab' = [W EXCEPT ![c] = T]
      /\ UNCHANGED <<now, drops, restarts>>
  BY DEF Ask
<1>2. /\ N \in RunType /\ WindowOK(N) /\ N.status = "running"
      /\ N.dropped = 0 /\ N.published = 0
  <2>1. UserOf[c] \in Users /\ now \in Nat
    BY UsersAssumption DEF IInv, TypeOK
  <2>2. /\ N \in RunType /\ N.status = "running"
        /\ N.events = UnusedRun.events /\ N.dropped = UnusedRun.dropped
        /\ N.published = UnusedRun.published
    BY <2>1, FreshObjects DEF NewRun, RunType
  <2> QED
    BY <2>2, FreshObjects DEF WindowOK
<1>3. T \in TabType /\ T.run = r /\ T.pc = "starting" /\ T.seen = <<>>
  BY FreshObjects DEF TabType
<1>4. /\ W \in [Tabs -> TabType]
      /\ \A d \in Tabs : Undisturbed(tab[d], W[d])
  BY RungUndisturbed DEF IInv, TypeOK
<1> HIDE DEF N, T, W
<1>5. /\ run' \in [RunIds -> RunType] /\ tab' \in [Tabs -> TabType]
      /\ \A q \in RunIds : WindowOK(run'[q])
      /\ \A q \in RunIds \ {r} : Grows(run[q], run'[q])
      /\ run'[r] = N /\ tab'[c] = T
      /\ \A d \in Tabs \ {c} : tab'[d] = W[d]
  BY <1>1, <1>2, <1>3, <1>4, SweepGrows
<1>6. FollowOK(T, N)
  BY <1>2, <1>3 DEF FollowOK
<1>7. ASSUME NEW d \in Tabs
      PROVE  /\ tab'[d].pc # "off" => tab'[d].run # NoRun
             /\ tab'[d].run # NoRun => FollowOK(tab'[d], run'[tab'[d].run])
  <2>1. CASE d = c
    BY <1>3, <1>5, <1>6, <2>1, UsersAssumption
  <2>2. CASE d # c
    <3>1. tab'[d] = W[d] /\ Undisturbed(tab[d], W[d]) /\ tab[d] \in TabType
      BY <1>4, <1>5, <2>2 DEF IInv, TypeOK
    <3>2. tab'[d].run = tab[d].run
      BY <3>1 DEF Undisturbed
    <3>3. tab'[d].pc # "off" => tab'[d].run # NoRun
      BY <3>1, <3>2 DEF IInv, TypeOK, Undisturbed
    <3>4. ASSUME tab[d].run # NoRun
          PROVE  FollowOK(tab'[d], run'[tab'[d].run])
      <4>1. tab[d].run \in RunIds /\ FollowOK(tab[d], run[tab[d].run])
        BY <3>1, <3>4 DEF TabType, IInv
      <4>2. tab[d].run # r
        BY <1>1, <4>1 DEF FollowOK
      <4>3. FollowOK(tab[d], run'[tab[d].run])
        BY <1>5, <3>1, <4>1, <4>2, FollowSurvivesGrowth DEF IInv, TypeOK
      <4> QED
        BY <3>1, <3>2, <4>3, UndisturbedFollows
    <3> QED
      BY <3>2, <3>3, <3>4
  <2> QED
    BY <2>1, <2>2
<1> QED
  BY <1>1, <1>5, <1>7 DEF IInv, TypeOK

\* Listing: the sweep, then perhaps a page that starts over on a live run.
LEMMA ResumeKeepsIInv ==
  ASSUME IInv, NEW c \in Tabs, ResumeRuns(c)
  PROVE  IInv'
<1> DEFINE W == Rung(OverdueRuns)
<1>1. /\ run' = SweptRuns /\ UNCHANGED <<now, drops, restarts>>
      /\ \/ tab' = W
         \/ \E r \in RunIds :
              /\ Live(SweptRuns[r])
              /\ tab' = [W EXCEPT ![c] = [IdleTab EXCEPT !.run = r]]
  BY DEF ResumeRuns
<1>2. /\ W \in [Tabs -> TabType]
      /\ \A d \in Tabs : Undisturbed(tab[d], W[d])
  BY RungUndisturbed DEF IInv, TypeOK
<1> HIDE DEF W
<1>3. /\ run' \in [RunIds -> RunType]
      /\ \A r \in RunIds : WindowOK(run'[r]) /\ Grows(run[r], run'[r])
  BY <1>1, SweepGrows
<1>4. CASE tab' = W
  BY <1>1, <1>2, <1>3, <1>4, GrowthStep DEF IInv, TypeOK
<1>5. ASSUME NEW r \in RunIds, Live(SweptRuns[r]),
             tab' = [W EXCEPT ![c] = [IdleTab EXCEPT !.run = r]]
      PROVE  IInv'
  <2> DEFINE T == [IdleTab EXCEPT !.run = r]
  <2>1. T \in TabType /\ T.run = r /\ T.pc = "off" /\ T.seen = <<>>
    BY FreshObjects DEF TabType
  <2>2. tab' = [W EXCEPT ![c] = T]
    BY <1>5
  <2> HIDE DEF T
  <2>3. FollowOK(T, run'[r])
    <3>1. run'[r].published \in Nat
      BY <1>3 DEF RunType
    <3>2. run'[r].status = "running"
      BY <1>1, <1>5 DEF Live
    <3> QED
      BY <2>1, <3>1, <3>2 DEF FollowOK
  <2>4. /\ tab' \in [Tabs -> TabType] /\ tab'[c] = T
        /\ \A d \in Tabs \ {c} : tab'[d] = W[d]
    BY <1>2, <2>1, <2>2
  <2>5. ASSUME NEW d \in Tabs
        PROVE  /\ tab'[d].pc # "off" => tab'[d].run # NoRun
               /\ tab'[d].run # NoRun => FollowOK(tab'[d], run'[tab'[d].run])
    <3>1. CASE d = c
      BY <2>1, <2>3, <2>4, <3>1
    <3>2. CASE d # c
      <4>1. tab'[d] = W[d] /\ Undisturbed(tab[d], W[d]) /\ tab[d] \in TabType
        BY <1>2, <2>4, <3>2 DEF IInv, TypeOK
      <4>2. tab'[d].run = tab[d].run
        BY <4>1 DEF Undisturbed
      <4>3. tab'[d].pc # "off" => tab'[d].run # NoRun
        BY <4>1, <4>2 DEF IInv, TypeOK, Undisturbed
      <4>4. ASSUME tab[d].run # NoRun
            PROVE  FollowOK(tab'[d], run'[tab'[d].run])
        <5>1. tab[d].run \in RunIds /\ FollowOK(tab[d], run[tab[d].run])
          BY <4>1, <4>4 DEF TabType, IInv
        <5>2. FollowOK(tab[d], run'[tab[d].run])
          BY <1>3, <4>1, <5>1, FollowSurvivesGrowth DEF IInv, TypeOK
        <5> QED
          BY <4>1, <4>2, <5>2, UndisturbedFollows
      <4> QED
        BY <4>2, <4>3, <4>4
    <3> QED
      BY <3>1, <3>2
  <2> QED
    BY <1>1, <1>3, <2>4, <2>5 DEF IInv, TypeOK
<1> QED
  BY <1>1, <1>4, <1>5

\* Stopping a run keeps the invariant.
LEMMA StopKeepsIInv ==
  ASSUME IInv, NEW c \in Tabs, Stop(c)
  PROVE  IInv'
<1> DEFINE r == tab[c].run
<1>1. r \in RunIds
  BY DEF Stop, IInv, TypeOK, TabType
<1>2. /\ run' = [run EXCEPT ![r] = StopRun(run[r])]
      /\ tab' = Rung({r}) /\ UNCHANGED <<now, drops, restarts>>
  BY DEF Stop
<1>3. run[r] \in RunType /\ WindowOK(run[r]) /\ now \in Nat
  BY <1>1 DEF IInv, TypeOK
<1> HIDE DEF r
<1> QED
  BY <1>1, <1>2, <1>3, StopKeepsWindow, OneRunStep

\* The steps of one page and its stream.
LEMMA PageKeepsIInv ==
  ASSUME IInv, NEW c \in Tabs,
         Page(c) \/ Stream(c) \/ ConnectionDies(c) \/ Reload(c)
  PROVE  IInv'
<1> DEFINE t == tab[c]
           R == run[t.run]
<1>1. /\ t \in TabType /\ tab \in [Tabs -> TabType]
      /\ now \in Nat /\ drops \in Nat /\ restarts \in Nat
      /\ t.pc # "off" => t.run # NoRun
  BY DEF IInv, TypeOK
<1>2. ASSUME t.run # NoRun
      PROVE  /\ R \in RunType /\ FollowOK(t, R)
             /\ R.dropped \in Nat /\ Len(R.events) \in Nat /\ R.published \in Nat
             /\ Len(R.events) + R.dropped = R.published
             /\ \A k \in 1..Len(R.events) : R.events[k] = R.dropped + k
  <2>1. t.run \in RunIds
    BY <1>1, <1>2 DEF TabType
  <2>2. R \in RunType /\ WindowOK(R) /\ FollowOK(t, R)
    BY <1>2, <2>1 DEF IInv, TypeOK
  <2> HIDE DEF R
  <2>3. R.dropped \in Nat /\ Len(R.events) \in Nat /\ R.published \in Nat
    BY <2>2 DEF RunType
  <2> QED
    BY <2>2, <2>3 DEF WindowOK
<1>3. t.i \in Nat /\ Len(t.seen) \in Nat
  BY <1>1 DEF TabType
<1>9. t.seen \in Seq(Nat)
  BY <1>1 DEF TabType
<1>4. CASE Reattach(c)
  <2> DEFINE U == [t EXCEPT !.pc = "starting"]
  <2>1. tab' = [tab EXCEPT ![c] = U] /\ UNCHANGED <<now, run, drops, restarts>>
        /\ t.run # NoRun
    BY <1>4 DEF Reattach
  <2>2. U \in TabType /\ U.run = t.run /\ U.seen = t.seen /\ U.pc = "starting"
    BY <1>1 DEF TabType
  <2> HIDE DEF U
  <2>3. FollowOK(U, R)
    BY <1>2, <2>1, <2>2 DEF FollowOK
  <2> QED
    BY <1>1, <2>1, <2>2, <2>3, PageStep
<1>5. CASE GiveUp(c) \/ Reload(c)
  <2>1. tab' = [tab EXCEPT ![c] = IdleTab] /\ UNCHANGED <<now, run, drops, restarts>>
    BY <1>5 DEF GiveUp, Reload
  <2> QED
    BY <1>1, <2>1, FreshObjects, PageStep
<1>6. CASE StartStream(c)
  <2> DEFINE behind == Len(t.seen) - R.dropped
             j == IF behind > 0 THEN behind ELSE 0
             U == [t EXCEPT !.pc = "reading", !.i = j]
  <2>1. tab' = [tab EXCEPT ![c] = U] /\ UNCHANGED <<now, run, drops, restarts>>
        /\ t.run # NoRun
    BY <1>1, <1>6 DEF StartStream
  <2>2. j \in Nat /\ (R.dropped = 0 => j = Len(t.seen))
        /\ Len(t.seen) <= R.dropped + j /\ j <= Len(R.events)
    <3>1. Len(t.seen) <= R.published /\ Len(R.events) + R.dropped = R.published
          /\ R.dropped \in Nat /\ Len(R.events) \in Nat /\ R.published \in Nat
      BY <1>2, <2>1 DEF FollowOK
    <3> HIDE DEF R
    <3> QED
      BY <1>3, <3>1
  <2> HIDE DEF behind, j
  <2>3. U \in TabType /\ U.run = t.run /\ U.seen = t.seen /\ U.pc = "reading"
        /\ U.i = j
    BY <1>1, <2>2 DEF TabType
  <2> HIDE DEF U
  <2>4. FollowOK(U, R)
    BY <1>2, <2>1, <2>2, <2>3 DEF FollowOK
  <2> QED
    BY <1>1, <2>1, <2>3, <2>4, PageStep
<1>7. CASE ReadEvent(c)
  <2> DEFINE e == R.events[t.i + 1]
             s == Append(t.seen, e)
             U == [t EXCEPT !.i = @ + 1, !.seen = s]
  <2>1. /\ tab' = [tab EXCEPT ![c] = U] /\ UNCHANGED <<now, run, drops, restarts>>
        /\ t.run # NoRun /\ t.pc = "reading" /\ t.i < Len(R.events)
    BY <1>1, <1>7 DEF ReadEvent
  <2>2. e = R.dropped + (t.i + 1) /\ e \in Nat
    <3>1. /\ Len(R.events) \in Nat /\ R.dropped \in Nat /\ t.i < Len(R.events)
          /\ \A k \in 1..Len(R.events) : R.events[k] = R.dropped + k
      BY <1>2, <2>1
    <3> HIDE DEF R
    <3>2. t.i + 1 \in 1..Len(R.events)
      BY <1>3, <3>1
    <3>3. e = R.dropped + (t.i + 1)
      BY <3>1, <3>2
    <3> QED
      BY <1>3, <3>1, <3>3
  <2> HIDE DEF e
  <2>3. /\ s \in Seq(Nat) /\ Len(s) = Len(t.seen) + 1
        /\ \A k \in 1..Len(t.seen) : s[k] = t.seen[k]
        /\ s[Len(t.seen) + 1] = e
    BY <1>3, <1>9, <2>2, AppendProperties
  <2> HIDE DEF s
  <2>4. U \in TabType /\ U.run = t.run /\ U.seen = s /\ U.pc = "reading"
        /\ U.i = t.i + 1
    <3>1. t.i + 1 \in Nat
      BY <1>3
    <3> QED
      BY <1>1, <2>1, <2>3, <3>1 DEF TabType
  <2> HIDE DEF U
  <2>5. /\ Len(s) <= R.published /\ U.i <= Len(R.events)
        /\ Len(s) <= R.dropped + U.i
        /\ R.dropped = 0 => U.i = Len(s)
    <3>1. /\ Len(t.seen) <= R.dropped + t.i
          /\ R.dropped = 0 => t.i = Len(t.seen)
          /\ Len(R.events) + R.dropped = R.published
          /\ R.dropped \in Nat /\ Len(R.events) \in Nat /\ R.published \in Nat
          /\ t.i < Len(R.events)
      BY <1>2, <2>1 DEF FollowOK
    <3>2. Len(s) = Len(t.seen) + 1 /\ U.i = t.i + 1
      BY <2>3, <2>4
    <3> HIDE DEF R, U, s
    <3>3. Len(s) <= R.dropped + U.i /\ U.i <= Len(R.events)
      BY <1>3, <3>1, <3>2
    <3>4. Len(s) <= R.published
      BY <1>3, <3>1, <3>2
    <3>5. R.dropped = 0 => U.i = Len(s)
      BY <3>1, <3>2
    <3> QED
      BY <3>3, <3>4, <3>5
  <2>6. ASSUME R.dropped = 0, NEW k \in 1..Len(s) PROVE s[k] = k
    <3>1. CASE k \in 1..Len(t.seen)
      BY <1>2, <2>1, <2>3, <2>6, <3>1 DEF FollowOK
    <3>2. CASE k = Len(t.seen) + 1
      <4>1. t.i = Len(t.seen)
        BY <1>2, <2>1, <2>6 DEF FollowOK
      <4>2. s[k] = R.dropped + (t.i + 1)
        BY <2>2, <2>3, <3>2
      <4> HIDE DEF R
      <4> QED
        BY <1>3, <2>6, <3>2, <4>1, <4>2
    <3> QED
      BY <1>3, <2>3, <3>1, <3>2
  <2>7. FollowOK(U, R)
    BY <1>2, <2>1, <2>4, <2>5, <2>6 DEF FollowOK
  <2> QED
    BY <1>1, <2>1, <2>4, <2>7, PageStep
<1>8. CASE Drained(c) \/ WaitTimesOut(c) \/ ConnectionDies(c)
  <2>1. PICK p \in {"waiting", "ended", "reading", "off"} :
          /\ tab' = [tab EXCEPT ![c] = [t EXCEPT !.pc = p]]
          /\ UNCHANGED <<now, run, restarts>> /\ drops' \in Nat
          /\ p \in {"waiting", "reading"} => t.pc \in {"waiting", "reading"}
          /\ t.pc # "off"
    BY <1>1, <1>8 DEF Drained, WaitTimesOut, ConnectionDies
  <2> DEFINE U == [t EXCEPT !.pc = p]
  <2>2. U \in TabType /\ Undisturbed(t, U) /\ U.run = t.run
    BY <1>1, <2>1 DEF TabType, Undisturbed
  <2>3. tab' = [tab EXCEPT ![c] = U]
    BY <2>1
  <2> HIDE DEF U
  <2>4. t.run # NoRun /\ FollowOK(U, R)
    BY <1>1, <1>2, <2>1, <2>2, UndisturbedFollows
  <2> QED
    BY <1>1, <2>1, <2>2, <2>3, <2>4, PageStep
<1> QED
  BY <1>4, <1>5, <1>6, <1>7, <1>8 DEF Page, Stream

\* A restart changes no window and leaves every page not reading.
LEMMA RestartKeepsIInv ==
  ASSUME IInv, Restart
  PROVE  IInv'
<1>1. /\ run \in [RunIds -> RunType] /\ tab \in [Tabs -> TabType]
      /\ now \in Nat \ {0} /\ drops \in Nat /\ restarts \in Nat
  BY DEF IInv, TypeOK
<1>2. ASSUME NEW r \in RunIds
      PROVE  /\ run'[r] \in RunType
             /\ WindowOK(run'[r]) /\ Grows(run[r], run'[r])
  <2> DEFINE S == [run[r] EXCEPT !.kept = FALSE, !.task = "over",
                     !.status = IF @ = "running" THEN "lost" ELSE @]
  <2>1. run'[r] = IF run[r].status = "new" THEN run[r] ELSE S
    BY DEF Restart
  <2>2. run[r] \in RunType /\ WindowOK(run[r])
    BY <1>1 DEF IInv
  <2>3. /\ S \in RunType
        /\ S.owner = run[r].owner /\ S.events = run[r].events
        /\ S.dropped = run[r].dropped /\ S.published = run[r].published
        /\ S.status = IF run[r].status = "running" THEN "lost" ELSE run[r].status
    BY <2>2 DEF RunType
  <2> HIDE DEF S
  <2> QED
    BY <2>1, <2>2, <2>3, SameWindow
<1>3. run' \in [RunIds -> RunType]
  BY <1>2 DEF Restart
<1>4. ASSUME NEW c \in Tabs
      PROVE  tab'[c] \in TabType /\ Undisturbed(tab[c], tab'[c])
  <2>1. tab'[c] = IF tab[c].pc = "ended" THEN tab[c]
                  ELSE [tab[c] EXCEPT !.pc = "off"]
    BY DEF Restart
  <2>2. tab[c] \in TabType
    BY <1>1
  <2> QED
    BY <2>1, <2>2 DEF TabType, Undisturbed
<1>5. tab' \in [Tabs -> TabType]
  BY <1>4 DEF Restart
<1>6. now' \in Nat \ {0} /\ drops' \in Nat /\ restarts' \in Nat
  <2>1. now' = now /\ drops' = drops /\ restarts' = restarts + 1
    BY DEF Restart
  <2> QED
    BY <1>1, <2>1
<1> QED
  BY <1>2, <1>3, <1>4, <1>5, <1>6, GrowthStep

\* Every step keeps the invariant.
LEMMA NextIInv == IInv /\ [Next]_vars => IInv'
<1> SUFFICES ASSUME IInv, [Next]_vars PROVE IInv'
  OBVIOUS
<1>1. CASE Tick
  BY <1>1 DEF Tick, IInv, TypeOK
<1>2. CASE \E r \in RunIds : Work(r)
  BY <1>2, WorkKeepsIInv
<1>3. ASSUME NEW c \in Tabs,
             \/ \E r \in RunIds : Ask(c, r)
             \/ ResumeRuns(c) \/ Stop(c) \/ Page(c) \/ Stream(c)
             \/ ConnectionDies(c) \/ Reload(c)
      PROVE  IInv'
  BY <1>3, AskKeepsIInv, ResumeKeepsIInv, StopKeepsIInv, PageKeepsIInv
<1>4. CASE Restart
  BY <1>4, RestartKeepsIInv
<1>5. CASE UNCHANGED vars
  BY <1>5 DEF vars, IInv, TypeOK
<1> QED
  BY <1>1, <1>2, <1>3, <1>4, <1>5 DEF Next

\* So it holds throughout.
LEMMA Invariance == Spec => []IInv
  BY InitIInv, NextIInv, PTL DEF Spec

-----------------------------------------------------------------------------
(* The theorems.                                                           *)

\* Every reachable state is well typed: indices and counts stay natural
\* numbers (the clamp in subscribe) and only watched runs have streams.
THEOREM TypeCorrect == Spec => []TypeOK
<1>1. IInv => TypeOK
  BY DEF IInv
<1> QED
  BY <1>1, Invariance, PTL

\* publish keeps exactly the newest MAX_BUFFERED_EVENTS events, and `dropped`
\* is always the absolute position of the one before the first of them.
THEOREM BufferTheorem == Spec => []BufferIsTheTail
<1>1. IInv => BufferIsTheTail
  BY DEF IInv, BufferIsTheTail, WindowOK
<1> QED
  BY <1>1, Invariance, PTL

\* A page's event count never runs ahead of its stream.
THEOREM CountTheorem == Spec => []CountNeverAhead
<1>1. IInv => CountNeverAhead
  BY DEF IInv, CountNeverAhead, FollowOK
<1> QED
  BY <1>1, Invariance, PTL

\* While nothing was dropped, what a page has shown is events 1..n of its run,
\* through any number of dead connections, rejoins, stops and sweeps.
THEOREM ReplayTheorem == Spec => []ReplayIsExact
<1>1. IInv => ReplayIsExact
  BY DEF IInv, ReplayIsExact, FollowOK
<1> QED
  BY <1>1, Invariance, PTL

\* Buffer, streams and pages agree on where they are in a run, always.
THEOREM StreamsTheorem == Spec => []StreamsAreExact
<1>1. BufferIsTheTail /\ ReplayIsExact /\ CountNeverAhead => StreamsAreExact
  BY DEF StreamsAreExact
<1> QED
  BY <1>1, BufferTheorem, ReplayTheorem, CountTheorem, PTL

-----------------------------------------------------------------------------
(* How runs end, who is woken, and the feed.                               *)

\* Live runs are exactly those with a task to end them; what is still running
\* has only published progress; and a buffer drops nothing before it is full.
RunOK(R) ==
  /\ R.task = "active" <=> Live(R)
  /\ R.status = "new" => R.published = 0
  /\ R.published <= MaxProgress + 1
  /\ Live(R) => R.published <= MaxProgress
  /\ R.dropped > 0 => Len(R.events) = MaxBufferedEvents

\* The second inductive invariant, beside IInv: EndedRunsAreFrozen and the
\* refinement follow from its first part, and NoLostWakeup is inductive with it.
TaskInv ==
  /\ \A r \in RunIds : RunOK(run[r])
  /\ NoLostWakeup

\* What a step may do to one run, seen from outside: nothing, start it, publish
\* one more event of it while it is live, or lose it.
Moves(R, S) ==
  \/ S.status = R.status /\ S.published = R.published
  \/ R.status = "new" /\ S.status = "running" /\ S.published = R.published
  \/ Live(R) /\ S.published = R.published + 1
  \/ Live(R) /\ S.published = R.published /\ S.status = "lost"

\* A step that neither ends a run nor adds an event to it wakes nobody.
SameToReaders(R, S) == S.status = R.status /\ S.events = R.events

\* Publishing adds one event, keeps status and task, and drops only when full.
LEMMA PublishedRun ==
  ASSUME NEW R \in RunType, WindowOK(R), RunOK(R)
  PROVE  /\ Published(R).published = R.published + 1
         /\ Published(R).status = R.status
         /\ Published(R).task = R.task
         /\ Published(R).dropped > 0
              => Len(Published(R).events) = MaxBufferedEvents
<1> DEFINE all == Append(R.events, R.published + 1)
           excess == IF Len(all) > MaxBufferedEvents
                       THEN Len(all) - MaxBufferedEvents ELSE 0
           kept == SubSeq(all, excess + 1, Len(all))
           P == [R EXCEPT !.events = kept, !.dropped = @ + excess,
                          !.published = @ + 1]
<1>1. P = Published(R)
  BY DEF Published
<1>2. /\ R.events \in Seq(Nat) /\ R.published \in Nat /\ R.dropped \in Nat
      /\ Len(R.events) \in Nat /\ MaxBufferedEvents \in Nat \ {0}
  BY LimitsAssumption DEF RunType
<1>3. Len(all) = Len(R.events) + 1
  BY <1>2
<1> HIDE DEF all
<1>4. /\ P.dropped = R.dropped + excess /\ P.published = R.published + 1
      /\ P.status = R.status /\ P.task = R.task /\ P.events = kept
  BY DEF RunType
<1> HIDE DEF P
<1>5. P \in RunType /\ WindowOK(P)
  BY <1>1, PublishedKeepsWindow
<1>6. ASSUME P.dropped > 0
      PROVE  Len(P.events) = MaxBufferedEvents
  <2>1. /\ Len(P.events) + P.dropped = P.published
        /\ Len(R.events) + R.dropped = R.published
        /\ Len(R.events) <= MaxBufferedEvents
        /\ R.dropped > 0 => Len(R.events) = MaxBufferedEvents
    BY <1>5 DEF WindowOK, RunOK
  <2>2. Len(P.events) \in Nat
    BY <1>5 DEF RunType
  <2>3. excess = IF Len(R.events) + 1 > MaxBufferedEvents
                   THEN Len(R.events) + 1 - MaxBufferedEvents ELSE 0
    BY <1>2, <1>3
  <2> HIDE DEF excess
  <2>a. P.dropped = R.dropped + excess /\ P.published = R.published + 1
    BY <1>4
  <2>4. CASE Len(R.events) + 1 > MaxBufferedEvents
    <3>1. excess = Len(R.events) + 1 - MaxBufferedEvents
      BY <2>3, <2>4
    <3>2. Len(P.events) + (R.dropped + excess) = Len(R.events) + R.dropped + 1
      BY <2>1, <2>a
    <3> QED
      BY <1>2, <2>2, <3>1, <3>2
  <2>5. CASE ~(Len(R.events) + 1 > MaxBufferedEvents)
    <3>1. excess = 0 /\ R.dropped > 0
      BY <1>2, <1>6, <2>3, <2>5, <2>a
    <3> QED
      BY <1>2, <2>1, <2>5, <3>1
  <2> QED
    BY <2>4, <2>5
<1> QED
  BY <1>1, <1>4, <1>6

\* Stopping a live run publishes its last event and ends it.
LEMMA StopRunMoves ==
  ASSUME NEW R \in RunType, WindowOK(R), RunOK(R), Live(R), now \in Nat
  PROVE  RunOK(StopRun(R)) /\ Moves(R, StopRun(R))
<1> DEFINE C == [R EXCEPT !.task = IF @ = "active" THEN "cancelling" ELSE @]
           P == Published(C)
           F == Finished(P, "stopped")
<1>1. /\ C \in RunType /\ C.task = "cancelling"
      /\ C.owner = R.owner /\ C.events = R.events /\ C.dropped = R.dropped
      /\ C.published = R.published /\ C.status = R.status
  BY DEF RunType, RunOK
<1>2. F = StopRun(R)
  BY DEF StopRun
<1> HIDE DEF C
<1>3. WindowOK(C)
  BY <1>1, SameWindow
<1>4. MaxProgress \in Nat /\ R.published \in Nat
  BY LimitsAssumption DEF RunType
<1>a. R.published <= MaxProgress /\ R.status = "running"
  BY DEF RunOK, Live
<1>5. /\ P \in RunType /\ P.published = R.published + 1
      /\ P.status = "running" /\ P.task = "cancelling"
      /\ P.dropped > 0 => Len(P.events) = MaxBufferedEvents
  <2> DEFINE A == [R EXCEPT !.task = "cancelling"]
  <2>1. P \in RunType
    BY <1>1, <1>3, PublishedKeepsWindow
  <2>2. /\ Published(R).published = R.published + 1
        /\ Published(R).dropped > 0
             => Len(Published(R).events) = MaxBufferedEvents
    BY PublishedRun
  <2>3. /\ P.published = Published(R).published
        /\ P.dropped = Published(R).dropped
        /\ P.events = Published(R).events
        /\ P.status = C.status /\ P.task = C.task
    BY <1>1 DEF Published, RunType
  <2> HIDE DEF P
  <2> QED
    BY <1>1, <1>a, <2>1, <2>2, <2>3
<1> HIDE DEF P
<1>6. /\ F.published = R.published + 1 /\ F.status = "stopped"
      /\ F.task = "cancelling" /\ F.events = P.events /\ F.dropped = P.dropped
  BY <1>5 DEF Finished, RunType
<1> HIDE DEF F
<1>7. F.published <= MaxProgress + 1
  BY <1>4, <1>a, <1>6
<1>8. RunOK(F)
  BY <1>5, <1>6, <1>7 DEF RunOK, Live
<1>9. Moves(R, F)
  BY <1>6 DEF Moves
<1> QED
  BY <1>2, <1>8, <1>9

\* A sweep only moves live runs; the others it keeps or forgets.
LEMMA SweptMoves ==
  ASSUME NEW R \in RunType, WindowOK(R), RunOK(R), now \in Nat
  PROVE  /\ RunOK(Swept(R)) /\ Moves(R, Swept(R))
         /\ ~Overdue(R) => SameToReaders(R, Swept(R))
<1>1. CASE Overdue(R)
  BY <1>1, StopRunMoves DEF Swept, Overdue
<1>2. CASE ~Overdue(R)
  <2> DEFINE E == [R EXCEPT !.kept = FALSE]
  <2>1. /\ E.task = R.task /\ E.status = R.status /\ E.events = R.events
        /\ E.dropped = R.dropped /\ E.published = R.published
    BY DEF RunType
  <2>2. Swept(R) = E \/ Swept(R) = R
    BY <1>2 DEF Swept
  <2> HIDE DEF E
  <2> QED
    BY <1>2, <2>1, <2>2 DEF RunOK, Moves, SameToReaders, Live
<1> QED
  BY <1>1, <1>2

\* The tail of work(): one event more, the end, and the task is over.
LEMMA WorkEndsMoves ==
  ASSUME NEW R \in RunType, WindowOK(R), RunOK(R), Live(R), now \in Nat,
         NEW s \in {"done", "error"}
  PROVE  LET S == [Finished(Published(R), s) EXCEPT !.task = "over"]
         IN  RunOK(S) /\ Moves(R, S)
<1> DEFINE P == Published(R)
           S == [Finished(P, s) EXCEPT !.task = "over"]
<1>1. /\ P \in RunType /\ P.published = R.published + 1
      /\ P.dropped > 0 => Len(P.events) = MaxBufferedEvents
  BY PublishedKeepsWindow, PublishedRun
<1> HIDE DEF P
<1>2. /\ S.published = R.published + 1 /\ S.status = s
      /\ S.task = "over" /\ S.events = P.events /\ S.dropped = P.dropped
  BY <1>1 DEF Finished, RunType
<1> HIDE DEF S
<1>3. R.published \in Nat /\ MaxProgress \in Nat /\ R.published <= MaxProgress
  BY LimitsAssumption DEF RunType, RunOK
<1>4. S.published <= MaxProgress + 1
  BY <1>2, <1>3
<1>5. RunOK(S)
  BY <1>1, <1>2, <1>4 DEF RunOK, Live
<1>6. Moves(R, S)
  BY <1>2 DEF Moves
<1> QED
  BY <1>5, <1>6 DEF S, P

\* A page that is asleep after a step was asleep before it, on the same run and
\* at the same place, and its run neither ended nor grew.
SleepsOn(T, U, R, S) ==
  U.pc = "waiting" =>
    /\ T.pc = "waiting" /\ U.run = T.run /\ U.i = T.i
    /\ SameToReaders(R, S)

\* Whoever watches one of the rung runs is awake; the others did not move.
LEMMA RungSleepers ==
  ASSUME NEW runs, NEW c \in Tabs, tab \in [Tabs -> TabType],
         tab[c].run \notin runs => SameToReaders(run[tab[c].run], run'[tab[c].run])
  PROVE  SleepsOn(tab[c], Rung(runs)[c], run[tab[c].run], run'[tab[c].run])
<1>1. Rung(runs)[c] = IF tab[c].run \in runs /\ tab[c].pc = "waiting"
                        THEN [tab[c] EXCEPT !.pc = "reading"] ELSE tab[c]
  BY DEF Rung
<1>2. tab[c] \in TabType
  OBVIOUS
<1>3. CASE tab[c].run \in runs /\ tab[c].pc = "waiting"
  BY <1>1, <1>2, <1>3 DEF TabType, SleepsOn
<1>4. CASE ~(tab[c].run \in runs /\ tab[c].pc = "waiting")
  BY <1>1, <1>2, <1>4 DEF SleepsOn
<1> QED
  BY <1>3, <1>4

\* A step whose runs move as they may and whose sleepers sleep on.
LEMMA SleepStep ==
  ASSUME TaskInv, \A r \in RunIds : RunOK(run'[r]),
         \A c \in Tabs : SleepsOn(tab[c], tab'[c], run[tab[c].run], run'[tab[c].run])
  PROVE  TaskInv'
<1>1. ASSUME NEW c \in Tabs, tab'[c].pc = "waiting"
      PROVE  Live(run'[tab'[c].run]) /\ tab'[c].i >= Len(run'[tab'[c].run].events)
  BY <1>1 DEF TaskInv, NoLostWakeup, SleepsOn, SameToReaders, Live
<1>2. NoLostWakeup'
  BY <1>1 DEF NoLostWakeup, Live
<1>3. (\A r \in RunIds : RunOK(run[r]))'
  BY DEF RunOK, Live
<1> QED
  BY <1>2, <1>3 DEF TaskInv

\* One run moves, and its waiters are rung.
LEMMA OneRunMoves ==
  ASSUME IInv, TaskInv, NEW r \in RunIds, NEW S, RunOK(S), Moves(run[r], S),
         run' = [run EXCEPT ![r] = S],
         \/ tab' = Rung({r})
         \/ tab' = tab /\ SameToReaders(run[r], S)
  PROVE  TaskInv' /\ \A q \in RunIds : Moves(run[q], run'[q])
<1>1. /\ run \in [RunIds -> RunType] /\ tab \in [Tabs -> TabType]
  BY DEF IInv, TypeOK
<1>2. /\ run'[r] = S
      /\ \A q \in RunIds \ {r} : run'[q] = run[q]
  BY <1>1
<1>3. \A q \in RunIds : RunOK(run'[q]) /\ Moves(run[q], run'[q])
  BY <1>2 DEF TaskInv, Moves
<1>4. ASSUME NEW c \in Tabs
      PROVE  SleepsOn(tab[c], tab'[c], run[tab[c].run], run'[tab[c].run])
  <2>0. CASE tab[c].pc = "off"
    <3>1. tab'[c].pc = "off"
      BY <1>1, <2>0 DEF Rung
    <3> QED
      BY <3>1 DEF SleepsOn
  <2>1. ASSUME tab[c].pc # "off"
        PROVE  tab[c].run \in RunIds
    BY <1>1, <2>1 DEF IInv, TypeOK, TabType
  <2>2. CASE tab[c].pc # "off" /\ tab' = Rung({r})
    <3>1. tab[c].run \notin {r}
            => SameToReaders(run[tab[c].run], run'[tab[c].run])
      BY <1>2, <2>1, <2>2 DEF SameToReaders
    <3> QED
      BY <1>1, <2>2, <3>1, RungSleepers
  <2>3. CASE tab[c].pc # "off" /\ tab' = tab /\ SameToReaders(run[r], S)
    <3>1. SameToReaders(run[tab[c].run], run'[tab[c].run])
      BY <1>2, <2>1, <2>3 DEF SameToReaders
    <3> QED
      BY <2>3, <3>1 DEF SleepsOn
  <2> QED
    BY <2>0, <2>2, <2>3
<1> QED
  BY <1>3, <1>4, SleepStep

\* The work task moves its run, and rings when there is something to see.
LEMMA WorkMoves ==
  ASSUME IInv, TaskInv, NEW r \in RunIds, Work(r)
  PROVE  TaskInv' /\ \A q \in RunIds : Moves(run[q], run'[q])
<1>1. run[r] \in RunType /\ WindowOK(run[r]) /\ RunOK(run[r]) /\ now \in Nat
  BY DEF IInv, TypeOK, TaskInv
<1>2. CASE Progress(r)
  <2> DEFINE P == Published(run[r])
  <2>1. /\ run' = [run EXCEPT ![r] = P] /\ tab' = Rung({r})
        /\ run[r].task = "active" /\ run[r].published < MaxProgress
    BY <1>2 DEF Progress
  <2>2. /\ P.published = run[r].published + 1 /\ P.status = run[r].status
        /\ P.task = run[r].task
        /\ P.dropped > 0 => Len(P.events) = MaxBufferedEvents
    BY <1>1, PublishedRun
  <2>3. P.published <= MaxProgress
    <3>1. run[r].published \in Nat /\ MaxProgress \in Nat
      BY <1>1, LimitsAssumption DEF RunType
    <3> QED
      BY <2>1, <2>2, <3>1
  <2>4. P.published <= MaxProgress + 1
    <3>1. run[r].published \in Nat /\ MaxProgress \in Nat
      BY <1>1, LimitsAssumption DEF RunType
    <3> QED
      BY <2>1, <2>2, <3>1
  <2> HIDE DEF P
  <2>5. Live(run[r]) /\ run[r].status = "running"
    BY <1>1, <2>1 DEF RunOK, Live
  <2>6. RunOK(P) /\ Moves(run[r], P)
    BY <2>1, <2>2, <2>3, <2>4, <2>5 DEF RunOK, Moves, Live
  <2> QED
    BY <2>1, <2>6, OneRunMoves
<1>3. CASE WorkEnds(r)
  <2>1. PICK s \in {"done", "error"} :
          run' = [run EXCEPT ![r] = [Finished(Published(run[r]), s)
                                       EXCEPT !.task = "over"]]
    BY <1>3 DEF WorkEnds
  <2>2. tab' = Rung({r}) /\ run[r].task = "active"
    BY <1>3 DEF WorkEnds
  <2> DEFINE S == [Finished(Published(run[r]), s) EXCEPT !.task = "over"]
  <2>3. RunOK(S) /\ Moves(run[r], S)
    <3>1. Live(run[r])
      BY <1>1, <2>2 DEF RunOK
    <3> QED
      BY <1>1, <3>1, WorkEndsMoves
  <2>4. run' = [run EXCEPT ![r] = S]
    BY <2>1
  <2> HIDE DEF S
  <2> QED
    BY <2>2, <2>3, <2>4, OneRunMoves
<1>4. CASE Unwind(r)
  <2> DEFINE S == [run[r] EXCEPT !.task = "over"]
  <2>1. /\ S.events = run[r].events /\ S.dropped = run[r].dropped
        /\ S.published = run[r].published /\ S.status = run[r].status
        /\ S.task = "over" /\ run[r].task = "cancelling"
    BY <1>1, <1>4 DEF RunType, Unwind
  <2>2. run' = [run EXCEPT ![r] = S] /\ tab' = tab
    BY <1>4 DEF Unwind
  <2> HIDE DEF S
  <2>3. RunOK(S) /\ Moves(run[r], S) /\ SameToReaders(run[r], S)
    BY <1>1, <2>1 DEF RunOK, Moves, SameToReaders, Live
  <2> QED
    BY <2>2, <2>3, OneRunMoves
<1> QED
  BY <1>2, <1>3, <1>4 DEF Work

\* A sweep moves only runs whose waiters it rings.
LEMMA SweepMoves ==
  ASSUME IInv, TaskInv, NEW r \in RunIds
  PROVE  /\ RunOK(SweptRuns[r])
         /\ Moves(run[r], SweptRuns[r])
         /\ r \notin OverdueRuns => SameToReaders(run[r], SweptRuns[r])
<1>1. SweptRuns[r] = Swept(run[r])
  BY DEF SweptRuns
<1>2. run[r] \in RunType /\ WindowOK(run[r]) /\ RunOK(run[r]) /\ now \in Nat
  BY DEF IInv, TypeOK, TaskInv
<1>3. r \notin OverdueRuns => ~Overdue(run[r])
  BY DEF OverdueRuns
<1>4. /\ RunOK(Swept(run[r])) /\ Moves(run[r], Swept(run[r]))
      /\ ~Overdue(run[r]) => SameToReaders(run[r], Swept(run[r]))
  BY <1>2, SweptMoves
<1> QED
  BY <1>1, <1>3, <1>4

\* Asking sweeps, starts a run and puts one page on it.
LEMMA AskMoves ==
  ASSUME IInv, TaskInv, NEW c \in Tabs, NEW r \in RunIds, Ask(c, r)
  PROVE  TaskInv' /\ \A q \in RunIds : Moves(run[q], run'[q])
<1> DEFINE N == NewRun(UserOf[c])
           T == [IdleTab EXCEPT !.run = r, !.pc = "starting"]
           W == Rung(OverdueRuns)
<1>1. /\ run[r].status = "new"
      /\ run' = [SweptRuns EXCEPT ![r] = N] /\ tab' = [W EXCEPT ![c] = T]
  BY DEF Ask
<1>2. /\ N.status = "running" /\ N.task = "active" /\ N.published = 0
      /\ N.dropped = 0
  BY DEF NewRun, UnusedRun
<1>3. T.pc = "starting"
  BY DEF IdleTab
<1>4. W \in [Tabs -> TabType] /\ tab \in [Tabs -> TabType]
      /\ SweptRuns \in [RunIds -> RunType]
  BY RungUndisturbed, SweepGrows DEF IInv, TypeOK
<1>5. W = Rung(OverdueRuns)
  OBVIOUS
<1> HIDE DEF N, T, W
<1>6. run'[r] = N /\ \A q \in RunIds \ {r} : run'[q] = SweptRuns[q]
  BY <1>1, <1>4
<1>7. RunOK(N) /\ Moves(run[r], N)
  <2>1. MaxProgress \in Nat /\ 0 <= MaxProgress /\ 0 <= MaxProgress + 1
    BY LimitsAssumption
  <2>2. run[r].published = 0
    BY <1>1 DEF TaskInv, RunOK
  <2> QED
    BY <1>1, <1>2, <2>1, <2>2 DEF RunOK, Moves, Live
<1>8. \A q \in RunIds : RunOK(run'[q]) /\ Moves(run[q], run'[q])
  BY <1>6, <1>7, SweepMoves
<1>9. ASSUME NEW d \in Tabs
      PROVE  SleepsOn(tab[d], tab'[d], run[tab[d].run], run'[tab[d].run])
  <2>1. CASE d = c
    BY <1>1, <1>3, <1>4, <2>1 DEF SleepsOn
  <2>2. CASE d # c /\ tab[d].pc # "waiting"
    <3>1. tab'[d] = W[d] /\ Undisturbed(tab[d], W[d])
      BY <1>1, <1>4, <1>5, <2>2, RungUndisturbed
    <3>2. tab'[d].pc # "waiting"
      BY <1>1, <1>4, <1>5, <2>2 DEF Rung
    <3> QED
      BY <3>2 DEF SleepsOn
  <2>3. CASE d # c /\ tab[d].pc = "waiting"
    <3>1. tab'[d] = W[d]
      BY <1>1, <1>4, <2>3
    <3>2. tab[d].run \in RunIds /\ Live(run[tab[d].run])
      BY <2>3 DEF TaskInv, NoLostWakeup, IInv, TypeOK, TabType
    <3>3. tab[d].run # r
      BY <1>1, <3>2 DEF Live
    <3>4. tab[d].run \notin OverdueRuns
            => SameToReaders(run[tab[d].run], run'[tab[d].run])
      BY <1>6, <3>2, <3>3, SweepMoves
    <3> QED
      BY <1>4, <1>5, <3>1, <3>4, RungSleepers
  <2> QED
    BY <2>1, <2>2, <2>3
<1> QED
  BY <1>8, <1>9, SleepStep

\* Listing sweeps, and perhaps puts a page on a run it does not read yet.
LEMMA ResumeMoves ==
  ASSUME IInv, TaskInv, NEW c \in Tabs, ResumeRuns(c)
  PROVE  TaskInv' /\ \A q \in RunIds : Moves(run[q], run'[q])
<1> DEFINE W == Rung(OverdueRuns)
<1>1. /\ run' = SweptRuns
      /\ \/ tab' = W
         \/ \E r \in RunIds : tab' = [W EXCEPT ![c] = [IdleTab EXCEPT !.run = r]]
  BY DEF ResumeRuns
<1>2. W \in [Tabs -> TabType] /\ tab \in [Tabs -> TabType]
  BY RungUndisturbed DEF IInv, TypeOK
<1>3. W = Rung(OverdueRuns)
  OBVIOUS
<1> HIDE DEF W
<1>4. ASSUME NEW d \in Tabs
      PROVE  SleepsOn(tab[d], W[d], run[tab[d].run], run'[tab[d].run])
  <2>1. CASE tab[d].pc # "waiting"
    <3>1. W[d].pc # "waiting"
      BY <1>2, <1>3, <2>1 DEF Rung
    <3> QED
      BY <3>1 DEF SleepsOn
  <2>2. CASE tab[d].pc = "waiting"
    <3>1. tab[d].run \in RunIds
      BY <2>2 DEF IInv, TypeOK, TabType
    <3>2. tab[d].run \notin OverdueRuns
            => SameToReaders(run[tab[d].run], run'[tab[d].run])
      BY <1>1, <3>1, SweepMoves
    <3> QED
      BY <1>2, <1>3, <3>2, RungSleepers
  <2> QED
    BY <2>1, <2>2
<1>5. ASSUME NEW d \in Tabs
      PROVE  tab'[d] = W[d] \/ tab'[d].pc = "off"
  BY <1>1, <1>2 DEF IdleTab
<1>6. \A d \in Tabs : SleepsOn(tab[d], tab'[d], run[tab[d].run], run'[tab[d].run])
  BY <1>4, <1>5 DEF SleepsOn
<1> QED
  BY <1>1, <1>6, SweepMoves, SleepStep

\* Stopping moves one live run and rings its waiters.
LEMMA StopMoves ==
  ASSUME IInv, TaskInv, NEW c \in Tabs, Stop(c)
  PROVE  TaskInv' /\ \A q \in RunIds : Moves(run[q], run'[q])
<1> DEFINE r == tab[c].run
<1>1. r \in RunIds /\ Live(run[r])
  BY DEF Stop, IInv, TypeOK, TabType
<1>2. run' = [run EXCEPT ![r] = StopRun(run[r])] /\ tab' = Rung({r})
  BY DEF Stop
<1>3. /\ run[r] \in RunType /\ WindowOK(run[r]) /\ now \in Nat
      /\ RunOK(run[r])
  BY <1>1 DEF IInv, TypeOK, TaskInv
<1> HIDE DEF r
<1>4. RunOK(StopRun(run[r])) /\ Moves(run[r], StopRun(run[r]))
  BY <1>1, <1>3, StopRunMoves
<1> QED
  BY <1>1, <1>2, <1>4, OneRunMoves

\* A page's own step moves no run; it falls asleep only with nothing to read.
LEMMA PageMoves ==
  ASSUME IInv, TaskInv, NEW c \in Tabs,
         Page(c) \/ Stream(c) \/ ConnectionDies(c) \/ Reload(c)
  PROVE  TaskInv' /\ \A q \in RunIds : Moves(run[q], run'[q])
<1>1. run' = run /\ tab \in [Tabs -> TabType]
  BY DEF Page, Reattach, GiveUp, Stream, StartStream, ReadEvent, Drained,
         WaitTimesOut, ConnectionDies, Reload, IInv, TypeOK
<1>2. \A d \in Tabs \ {c} : tab'[d] = tab[d]
  BY <1>1 DEF Page, Reattach, GiveUp, Stream, StartStream, ReadEvent, Drained,
         WaitTimesOut, ConnectionDies, Reload
<1>3. ASSUME tab'[c].pc = "waiting"
      PROVE  Live(run[tab'[c].run]) /\ tab'[c].i >= Len(run[tab'[c].run].events)
  <2>1. CASE Drained(c)
    <3>1. tab[c] \in TabType
      BY <1>1
    <3>2. tab' = [tab EXCEPT ![c] = [tab[c] EXCEPT !.pc =
                    IF Live(run[tab[c].run]) THEN "waiting" ELSE "ended"]]
      BY <2>1 DEF Drained
    <3>3. tab'[c].run = tab[c].run /\ tab'[c].i = tab[c].i
          /\ Live(run[tab[c].run])
      BY <1>1, <1>3, <3>1, <3>2 DEF TabType
    <3> QED
      BY <2>1, <3>3 DEF Drained
  <2>2. CASE ~Drained(c)
    <3>1. tab'[c].pc # "waiting"
      <4>1. CASE Reattach(c)
        BY <1>1, <4>1 DEF Reattach, TabType
      <4>2. CASE GiveUp(c) \/ Reload(c)
        BY <1>1, <4>2 DEF GiveUp, Reload, IdleTab
      <4>3. CASE StartStream(c)
        BY <1>1, <4>3 DEF StartStream, TabType
      <4>4. CASE ReadEvent(c)
        BY <1>1, <4>4 DEF ReadEvent, TabType
      <4>5. CASE WaitTimesOut(c) \/ ConnectionDies(c)
        BY <1>1, <4>5 DEF WaitTimesOut, ConnectionDies, TabType
      <4> QED
        BY <2>2, <4>1, <4>2, <4>3, <4>4, <4>5 DEF Page, Stream
    <3> QED
      BY <1>3, <3>1
  <2> QED
    BY <2>1, <2>2
<1>4. ASSUME NEW d \in Tabs, tab'[d].pc = "waiting"
      PROVE  Live(run[tab'[d].run]) /\ tab'[d].i >= Len(run[tab'[d].run].events)
  <2>1. CASE d = c
    BY <1>3, <1>4, <2>1
  <2>2. CASE d # c
    BY <1>2, <1>4, <2>2 DEF TaskInv, NoLostWakeup
  <2> QED
    BY <2>1, <2>2
<1>5. NoLostWakeup'
  BY <1>1, <1>4 DEF NoLostWakeup, Live
<1>6. (\A q \in RunIds : RunOK(run[q]))'
  BY <1>1 DEF TaskInv, RunOK, Live
<1> QED
  BY <1>1, <1>5, <1>6 DEF TaskInv, Moves

\* A restart loses every live run; nobody is left asleep.
LEMMA RestartMoves ==
  ASSUME IInv, TaskInv, Restart
  PROVE  TaskInv' /\ \A q \in RunIds : Moves(run[q], run'[q])
<1>1. ASSUME NEW r \in RunIds
      PROVE  RunOK(run'[r]) /\ Moves(run[r], run'[r])
  <2> DEFINE S == [run[r] EXCEPT !.kept = FALSE, !.task = "over",
                     !.status = IF @ = "running" THEN "lost" ELSE @]
  <2>1. run'[r] = IF run[r].status = "new" THEN run[r] ELSE S
    BY DEF Restart
  <2>2. run[r] \in RunType /\ RunOK(run[r])
    BY DEF IInv, TypeOK, TaskInv
  <2>3. /\ S.events = run[r].events /\ S.dropped = run[r].dropped
        /\ S.published = run[r].published /\ S.task = "over"
        /\ S.status = IF run[r].status = "running" THEN "lost" ELSE run[r].status
    BY <2>2 DEF RunType
  <2> HIDE DEF S
  <2>4. CASE run[r].status = "new"
    BY <2>1, <2>2, <2>4 DEF Moves
  <2>5. CASE run[r].status # "new"
    BY <2>1, <2>2, <2>3, <2>5 DEF RunOK, Moves, Live
  <2> QED
    BY <2>4, <2>5
<1>2. ASSUME NEW c \in Tabs
      PROVE  SleepsOn(tab[c], tab'[c], run[tab[c].run], run'[tab[c].run])
  <2>1. tab'[c] = IF tab[c].pc = "ended" THEN tab[c]
                  ELSE [tab[c] EXCEPT !.pc = "off"]
    BY DEF Restart
  <2>2. tab[c] \in TabType
    BY DEF IInv, TypeOK
  <2>3. tab'[c].pc # "waiting"
    BY <2>1, <2>2 DEF TabType
  <2> QED
    BY <2>3 DEF SleepsOn
<1> QED
  BY <1>1, <1>2, SleepStep

\* Every step moves every run as it may, and keeps the second invariant.
LEMMA NextMoves ==
  ASSUME IInv, TaskInv, [Next]_vars
  PROVE  TaskInv' /\ \A q \in RunIds : Moves(run[q], run'[q])
<1>1. CASE Tick \/ UNCHANGED vars
  BY <1>1 DEF Tick, vars, TaskInv, NoLostWakeup, RunOK, Live, Moves
<1>2. CASE \E r \in RunIds : Work(r)
  BY <1>2, WorkMoves
<1>3. ASSUME NEW c \in Tabs,
             \/ \E r \in RunIds : Ask(c, r)
             \/ ResumeRuns(c) \/ Stop(c) \/ Page(c) \/ Stream(c)
             \/ ConnectionDies(c) \/ Reload(c)
      PROVE  TaskInv' /\ \A q \in RunIds : Moves(run[q], run'[q])
  BY <1>3, AskMoves, ResumeMoves, StopMoves, PageMoves
<1>4. CASE Restart
  BY <1>4, RestartMoves
<1> QED
  BY <1>1, <1>2, <1>3, <1>4 DEF Next

\* No run exists at first and nobody waits.
LEMMA InitTaskInv == Init => TaskInv
<1> SUFFICES ASSUME Init PROVE TaskInv
  OBVIOUS
<1>1. 0 <= MaxProgress /\ 0 <= MaxProgress + 1
  BY LimitsAssumption
<1>2. RunOK(UnusedRun)
  BY <1>1 DEF RunOK, UnusedRun, Live
<1> QED
  BY <1>2, FreshObjects DEF Init, TaskInv, NoLostWakeup

\* So the second invariant holds throughout.
LEMMA TaskInvariance == Spec => []TaskInv
<1>1. IInv /\ TaskInv /\ [Next]_vars => TaskInv'
  BY NextMoves
<1> QED
  BY <1>1, InitTaskInv, Invariance, PTL DEF Spec

\* No subscriber ever sleeps through an event or the end of its run: whatever
\* publishes or finishes rings the waiters it has at that moment.
THEOREM WakeupTheorem == Spec => []NoLostWakeup
<1>1. TaskInv => NoLostWakeup
  BY DEF TaskInv
<1> QED
  BY <1>1, TaskInvariance, PTL

\* How a run ended is decided once, and nothing is published after it: not by
\* the task that was cancelled, a second stop, a sweep or a restart.
THEOREM FrozenTheorem == Spec => EndedRunsAreFrozen
<1>1. IInv /\ TaskInv /\ [Next]_vars
        => [\A r \in RunIds :
              run[r].status \in Ended =>
                /\ run'[r].status = run[r].status
                /\ run'[r].published = run[r].published]_vars
  <2> SUFFICES ASSUME IInv, TaskInv, [Next]_vars,
                      NEW r \in RunIds, run[r].status \in Ended
               PROVE  /\ run'[r].status = run[r].status
                      /\ run'[r].published = run[r].published
    OBVIOUS
  <2>1. Moves(run[r], run'[r])
    BY NextMoves
  <2> QED
    BY <2>1 DEF Moves, Live, Ended
<1> QED
  BY <1>1, Invariance, TaskInvariance, PTL DEF Spec, EndedRunsAreFrozen

-----------------------------------------------------------------------------
(* The refinement: RunStream implements Feed while no buffer overflows.    *)

NothingDropped == \A r \in RunIds : run[r].dropped = 0

\* The feed of a run and what a page shows of it: the refinement mapping.
FeedOf(R) == [len |-> R.published, over |-> R.status \in Ended \cup {"lost"}]
ViewOf(T) == [run |-> T.run, shown |-> T.seen]

\* The empty registry and idle pages are the empty feed.
LEMMA RefinesInit == Init => AbstractFeed!Init
<1> SUFFICES ASSUME Init PROVE AbstractFeed!Init
  OBVIOUS
<1>1. UnusedRun.published = 0 /\ UnusedRun.status = "new"
  BY DEF UnusedRun
<1>2. "new" \notin Ended \cup {"lost"}
  BY DEF Ended
<1>3. IdleTab.run = NoRun /\ IdleTab.seen = <<>>
  BY DEF IdleTab
<1>4. \A r \in RunIds : run[r] = UnusedRun
  BY DEF Init
<1>5. \A c \in Tabs : tab[c] = IdleTab
  BY DEF Init
<1>6. ASSUME NEW r \in RunIds
      PROVE  /\ run[r].published = 0
             /\ (run[r].status \in Ended \cup {"lost"}) = FALSE
  <2>1. run[r].published = 0 /\ run[r].status \notin Ended \cup {"lost"}
    BY <1>1, <1>2, <1>4
  <2>2. ASSUME NEW x, NEW S, x \notin S PROVE (x \in S) = FALSE
    BY <2>2
  <2>3. (run[r].status \in Ended \cup {"lost"}) = FALSE
    BY <2>1, <2>2
  <2> QED
    BY <2>1, <2>3
<1>7. [r \in RunIds |-> [len  |-> run[r].published,
                         over |-> run[r].status \in Ended \cup {"lost"}]]
        = [r \in RunIds |-> [len |-> 0, over |-> FALSE]]
  BY <1>6
<1>8. [c \in Tabs |-> [run |-> tab[c].run, shown |-> tab[c].seen]]
        = [c \in Tabs |-> [run |-> NoRun, shown |-> <<>>]]
  BY <1>3, <1>5
<1> QED
  BY <1>7, <1>8 DEF AbstractFeed!Init, AbstractFeed!Closed

\* A run that moves as it may makes a step of its feed, or none.
LEMMA FeedMoves ==
  ASSUME NEW R, NEW S, Moves(R, S)
  PROVE  \/ FeedOf(S) = FeedOf(R)
         \/ /\ ~FeedOf(R).over
            /\ \/ FeedOf(S).len = FeedOf(R).len + 1
               \/ FeedOf(S).len = FeedOf(R).len /\ FeedOf(S).over
<1>1. /\ FeedOf(R).len = R.published /\ FeedOf(S).len = S.published
      /\ FeedOf(R).over <=> R.status \in Ended \cup {"lost"}
      /\ FeedOf(S).over <=> S.status \in Ended \cup {"lost"}
  BY DEF FeedOf
<1>2. CASE S.status = R.status /\ S.published = R.published
  BY <1>2 DEF FeedOf
<1>3. CASE R.status = "new" /\ S.status = "running" /\ S.published = R.published
  BY <1>3 DEF FeedOf, Ended
<1>4. CASE Live(R) /\ S.published = R.published + 1
  BY <1>1, <1>4 DEF Live, Ended
<1>5. CASE Live(R) /\ S.published = R.published /\ S.status = "lost"
  BY <1>1, <1>5 DEF Live, Ended
<1> QED
  BY <1>2, <1>3, <1>4, <1>5 DEF Moves

\* What a step may do to what one page shows.
Shows(T, U, R) ==
  \/ ViewOf(U) = ViewOf(T)
  \/ /\ T.run # NoRun /\ Len(T.seen) < R.published
     /\ ViewOf(U) = [run |-> T.run, shown |-> Append(T.seen, Len(T.seen) + 1)]
  \/ \E r \in RunIds : ViewOf(U) = [run |-> r, shown |-> <<>>]
  \/ ViewOf(U) = [run |-> NoRun, shown |-> <<>>]

\* Waking and cutting streams shows nothing.
LEMMA UndisturbedShows ==
  ASSUME NEW T, NEW U, NEW R, Undisturbed(T, U)
  PROVE  Shows(T, U, R)
  BY DEF Undisturbed, Shows, ViewOf

\* Reading shows the next event and no other, while nothing was dropped.
LEMMA ReadShows ==
  ASSUME IInv, NothingDropped, NEW c \in Tabs, ReadEvent(c)
  PROVE  Shows(tab[c], tab'[c], run[tab[c].run])
<1> DEFINE t == tab[c]
           R == run[t.run]
           e == R.events[t.i + 1]
           U == [t EXCEPT !.i = @ + 1, !.seen = Append(t.seen, e)]
<1>1. t \in TabType /\ tab \in [Tabs -> TabType]
  BY DEF IInv, TypeOK
<1>2. /\ t.pc = "reading" /\ t.i < Len(R.events) /\ t.run # NoRun
      /\ tab' = [tab EXCEPT ![c] = U]
  BY DEF ReadEvent, IInv, TypeOK
<1>3. t.run \in RunIds
  BY <1>1, <1>2 DEF TabType
<1>4. /\ R \in RunType /\ WindowOK(R) /\ FollowOK(t, R) /\ R.dropped = 0
  BY <1>2, <1>3 DEF IInv, TypeOK, NothingDropped
<1>5. t.i \in Nat /\ Len(t.seen) \in Nat /\ t.seen \in Seq(Nat)
  BY <1>1 DEF TabType
<1>6. tab'[c] = U /\ U.run = t.run /\ U.seen = Append(t.seen, e)
  BY <1>1, <1>2 DEF TabType
<1> HIDE DEF U, t, R
<1>7. t.i = Len(t.seen)
  BY <1>2, <1>4 DEF FollowOK
<1>8. Len(R.events) \in Nat /\ R.published \in Nat
  BY <1>4 DEF RunType
<1>9. e = Len(t.seen) + 1 /\ Len(t.seen) < R.published
  <2>1. /\ Len(R.events) + R.dropped = R.published
        /\ \A k \in 1..Len(R.events) : R.events[k] = R.dropped + k
    BY <1>4 DEF WindowOK
  <2>2. t.i + 1 \in 1..Len(R.events)
    BY <1>2, <1>5, <1>8
  <2>3. e = R.dropped + (t.i + 1)
    BY <2>1, <2>2
  <2>4. Len(R.events) = R.published
    BY <1>4, <1>8, <2>1
  <2> QED
    BY <1>2, <1>4, <1>5, <1>7, <1>8, <2>3, <2>4
<1> HIDE DEF e
<1>10. ViewOf(U) = [run   |-> t.run,
                    shown |-> Append(t.seen, Len(t.seen) + 1)]
  <2>1. U.seen = Append(t.seen, Len(t.seen) + 1) /\ U.run = t.run
    BY <1>6, <1>9
  <2> QED
    BY <2>1 DEF ViewOf
<1>11. Shows(t, U, R)
  BY <1>2, <1>9, <1>10 DEF Shows
<1> QED
  BY <1>6, <1>11 DEF t, R

\* Every step shows every page what it may.
LEMMA NextShows ==
  ASSUME IInv, NothingDropped, [Next]_vars, NEW d \in Tabs
  PROVE  Shows(tab[d], tab'[d], run[tab[d].run])
<1>0. tab \in [Tabs -> TabType] /\ ViewOf(IdleTab) = [run |-> NoRun, shown |-> <<>>]
  BY DEF IInv, TypeOK, ViewOf, IdleTab
<1>1. CASE UNCHANGED tab
  BY <1>1 DEF Shows
<1>2. CASE \E runs \in SUBSET RunIds : tab' = Rung(runs)
  BY <1>0, <1>2, RungUndisturbed, UndisturbedShows
<1>3. ASSUME NEW c \in Tabs, NEW r \in RunIds, NEW T,
             T.run = r, T.seen = <<>>,
             tab' = [Rung(OverdueRuns) EXCEPT ![c] = T]
      PROVE  Shows(tab[d], tab'[d], run[tab[d].run])
  <2> DEFINE W == Rung(OverdueRuns)
  <2>1. W \in [Tabs -> TabType] /\ Undisturbed(tab[d], W[d])
    BY <1>0, RungUndisturbed
  <2>2. ViewOf(T) = [run |-> r, shown |-> <<>>]
    BY <1>3 DEF ViewOf
  <2>3. tab' = [W EXCEPT ![c] = T]
    BY <1>3
  <2> HIDE DEF W
  <2>4. CASE d = c
    <3>1. tab'[d] = T
      BY <2>1, <2>3, <2>4
    <3> QED
      BY <2>2, <3>1 DEF Shows
  <2>5. CASE d # c
    <3>1. tab'[d] = W[d]
      BY <2>1, <2>3, <2>5
    <3> QED
      BY <2>1, <3>1, UndisturbedShows
  <2> QED
    BY <2>4, <2>5
<1>4. ASSUME NEW c \in Tabs,
             Page(c) \/ Stream(c) \/ ConnectionDies(c) \/ Reload(c)
      PROVE  Shows(tab[d], tab'[d], run[tab[d].run])
  <2>1. CASE ReadEvent(c)
    <3>1. CASE d = c
      BY <2>1, <3>1, ReadShows
    <3>2. CASE d # c
      <4>1. tab'[d] = tab[d]
        BY <1>0, <2>1, <3>2 DEF ReadEvent
      <4> QED
        BY <4>1 DEF Shows
    <3> QED
      BY <3>1, <3>2
  <2>2. CASE GiveUp(c) \/ Reload(c)
    <3>1. tab'[d] = IF d = c THEN IdleTab ELSE tab[d]
      BY <1>0, <2>2 DEF GiveUp, Reload
    <3> QED
      BY <1>0, <3>1 DEF Shows
  <2>3. CASE Reattach(c) \/ StartStream(c)
    <3>1. PICK p, j : \/ tab' = [tab EXCEPT ![c].pc = p]
                      \/ tab' = [tab EXCEPT ![c] = [tab[c] EXCEPT !.pc = p, !.i = j]]
      BY <2>3 DEF Reattach, StartStream
    <3>2. CASE d # c
      <4>1. tab'[d] = tab[d]
        BY <1>0, <3>1, <3>2
      <4> QED
        BY <4>1 DEF Shows
    <3>3. CASE d = c
      <4>1. tab[c] \in TabType
        BY <1>0
      <4>2. \/ tab'[c] = [tab[c] EXCEPT !.pc = p]
            \/ tab'[c] = [tab[c] EXCEPT !.pc = p, !.i = j]
        BY <1>0, <3>1
      <4>3. tab'[c].run = tab[c].run /\ tab'[c].seen = tab[c].seen
        BY <4>1, <4>2 DEF TabType
      <4> QED
        BY <3>3, <4>3 DEF Shows, ViewOf
    <3> QED
      BY <3>2, <3>3
  <2>4. CASE Drained(c) \/ WaitTimesOut(c) \/ ConnectionDies(c)
    <3>1. PICK p : tab' = [tab EXCEPT ![c].pc = p]
      BY <2>4 DEF Drained, WaitTimesOut, ConnectionDies
    <3>2. tab'[d].run = tab[d].run /\ tab'[d].seen = tab[d].seen
      BY <1>0, <3>1 DEF TabType
    <3> QED
      BY <3>2 DEF Shows, ViewOf
  <2> QED
    BY <1>4, <2>1, <2>2, <2>3, <2>4 DEF Page, Stream
<1>5. CASE Restart
  <2>1. tab'[d] = IF tab[d].pc = "ended" THEN tab[d]
                  ELSE [tab[d] EXCEPT !.pc = "off"]
    BY <1>5 DEF Restart
  <2>2. tab'[d].run = tab[d].run /\ tab'[d].seen = tab[d].seen
    BY <1>0, <2>1 DEF TabType
  <2> QED
    BY <2>2 DEF Shows, ViewOf
<1>6. CASE Tick \/ UNCHANGED vars
  BY <1>1, <1>6 DEF Tick, vars
<1>7. ASSUME NEW r \in RunIds, Work(r)
      PROVE  Shows(tab[d], tab'[d], run[tab[d].run])
  <2>1. tab' = tab \/ tab' = Rung({r})
    BY <1>7 DEF Work, Progress, WorkEnds, Unwind
  <2> QED
    BY <1>1, <1>2, <2>1
<1>8. ASSUME NEW c \in Tabs, NEW r \in RunIds, Ask(c, r)
      PROVE  Shows(tab[d], tab'[d], run[tab[d].run])
  <2> DEFINE T == [IdleTab EXCEPT !.run = r, !.pc = "starting"]
  <2>1. T.run = r /\ T.seen = <<>>
    BY DEF IdleTab
  <2>2. tab' = [Rung(OverdueRuns) EXCEPT ![c] = T]
    BY <1>8 DEF Ask
  <2> HIDE DEF T
  <2> QED
    BY <1>3, <2>1, <2>2
<1>9. ASSUME NEW c \in Tabs, ResumeRuns(c)
      PROVE  Shows(tab[d], tab'[d], run[tab[d].run])
  <2>1. \/ tab' = Rung(OverdueRuns)
        \/ \E r \in RunIds :
             tab' = [Rung(OverdueRuns) EXCEPT ![c] = [IdleTab EXCEPT !.run = r]]
    BY <1>9 DEF ResumeRuns
  <2>2. OverdueRuns \in SUBSET RunIds
    BY DEF OverdueRuns
  <2>3. \A r \in RunIds : /\ [IdleTab EXCEPT !.run = r].run = r
                          /\ [IdleTab EXCEPT !.run = r].seen = <<>>
    BY DEF IdleTab
  <2>4. CASE tab' = Rung(OverdueRuns)
    BY <1>2, <2>2, <2>4
  <2>5. ASSUME NEW r \in RunIds,
               tab' = [Rung(OverdueRuns) EXCEPT ![c] = [IdleTab EXCEPT !.run = r]]
        PROVE  Shows(tab[d], tab'[d], run[tab[d].run])
    <3> DEFINE T == [IdleTab EXCEPT !.run = r]
    <3>1. T.run = r /\ T.seen = <<>>
      BY <2>3
    <3>2. tab' = [Rung(OverdueRuns) EXCEPT ![c] = T]
      BY <2>5
    <3> HIDE DEF T
    <3> QED
      BY <1>3, <3>1, <3>2
  <2> QED
    BY <2>1, <2>4, <2>5
<1>10. ASSUME NEW c \in Tabs, Stop(c)
       PROVE  Shows(tab[d], tab'[d], run[tab[d].run])
  <2>1. tab' = Rung({tab[c].run}) /\ tab[c].run \in RunIds
    BY <1>0, <1>10 DEF Stop, TabType
  <2> QED
    BY <1>2, <2>1
<1> QED
  BY <1>4, <1>5, <1>6, <1>7, <1>8, <1>9, <1>10 DEF Next

\* Every step of the code, while nothing is dropped, is one of the feed.
LEMMA RefinesNext ==
  ASSUME IInv, TaskInv, NothingDropped, [Next]_vars
  PROVE  [AbstractFeed!Next]_AbstractFeed!vars
<1> DEFINE feed == [r \in RunIds |-> FeedOf(run[r])]
           view == [c \in Tabs |-> ViewOf(tab[c])]
           feedNext == [r \in RunIds |-> FeedOf(run'[r])]
           viewNext == [c \in Tabs |-> ViewOf(tab'[c])]
<1>1. ASSUME NEW r \in RunIds
      PROVE  \/ feedNext[r] = feed[r]
             \/ /\ ~feed[r].over
                /\ \/ feedNext[r].len = feed[r].len + 1
                   \/ feedNext[r].len = feed[r].len /\ feedNext[r].over
  <2>1. feedNext[r] = FeedOf(run'[r]) /\ feed[r] = FeedOf(run[r])
    OBVIOUS
  <2>2. Moves(run[r], run'[r])
    BY NextMoves
  <2> HIDE DEF feed, feedNext
  <2> QED
    BY <2>1, <2>2, FeedMoves
<1>2. ASSUME NEW c \in Tabs
      PROVE  \/ viewNext[c] = view[c]
             \/ /\ view[c].run # NoRun
                /\ Len(view[c].shown) < feed[view[c].run].len
                /\ viewNext[c] = [view[c] EXCEPT !.shown = Append(@, Len(@) + 1)]
             \/ \E r \in RunIds : viewNext[c] = [run |-> r, shown |-> <<>>]
             \/ viewNext[c] = [run |-> NoRun, shown |-> <<>>]
  <2>1. Shows(tab[c], tab'[c], run[tab[c].run])
    BY NextShows
  <2>2. viewNext[c] = ViewOf(tab'[c]) /\ view[c] = ViewOf(tab[c])
    OBVIOUS
  <2>3. /\ view[c].run = tab[c].run /\ view[c].shown = tab[c].seen
    BY DEF ViewOf
  <2>6. [view[c] EXCEPT !.shown = Append(@, Len(@) + 1)]
             = [run |-> tab[c].run,
                shown |-> Append(tab[c].seen, Len(tab[c].seen) + 1)]
    <3> DEFINE n == Append(tab[c].seen, Len(tab[c].seen) + 1)
    <3>1. view[c] = [run |-> tab[c].run, shown |-> tab[c].seen]
      BY DEF ViewOf
    <3>2. [view[c] EXCEPT !.shown = n] = [run |-> tab[c].run, shown |-> n]
      BY <3>1
    <3>3. Append(view[c].shown, Len(view[c].shown) + 1) = n
      BY <2>3
    <3> HIDE DEF n, view
    <3> QED
      BY <3>2, <3>3 DEF n
  <2>4. tab[c].run # NoRun => tab[c].run \in RunIds
    BY DEF IInv, TypeOK, TabType
  <2>5. tab[c].run # NoRun => feed[tab[c].run].len = run[tab[c].run].published
    BY <2>4 DEF FeedOf
  <2> HIDE DEF view, viewNext, feed
  <2> QED
    BY <2>1, <2>2, <2>3, <2>5, <2>6 DEF Shows
<1>3. \A r \in RunIds :
        \/ feedNext[r] = feed[r]
        \/ /\ ~feed[r].over
           /\ \/ feedNext[r].len = feed[r].len + 1
              \/ feedNext[r].len = feed[r].len /\ feedNext[r].over
  BY <1>1
<1>4. \A c \in Tabs :
        \/ viewNext[c] = view[c]
        \/ /\ view[c].run # NoRun
           /\ Len(view[c].shown) < feed[view[c].run].len
           /\ viewNext[c] = [view[c] EXCEPT !.shown = Append(@, Len(@) + 1)]
        \/ \E r \in RunIds :
             viewNext[c] = [[run |-> NoRun, shown |-> <<>>] EXCEPT !.run = r]
        \/ viewNext[c] = [run |-> NoRun, shown |-> <<>>]
  <2>1. \A r : [[run |-> NoRun, shown |-> <<>>] EXCEPT !.run = r]
                 = [run |-> r, shown |-> <<>>]
    OBVIOUS
  <2> HIDE DEF feed, feedNext, view, viewNext
  <2> QED
    BY <1>2, <2>1
<1>5. AbstractFeed!Next
  BY <1>3, <1>4, Zenon
  DEF AbstractFeed!Next, AbstractFeed!FeedStep, AbstractFeed!ShowNext,
      AbstractFeed!Open, AbstractFeed!Close, AbstractFeed!Closed, FeedOf, ViewOf
<1> QED
  BY <1>5

\* As long as no buffer overflows, the registry, the buffers, the streams and
\* the rejoining page implement the feed: it only grows and ends once, and a
\* viewer is shown its events from the first, without gap or repetition.
THEOREM FeedTheorem == Spec /\ []NothingDropped => ImplementsFeed
<1>1. IInv /\ TaskInv /\ NothingDropped /\ [Next]_vars
        => [AbstractFeed!Next]_AbstractFeed!vars
  BY RefinesNext
<1> QED
  BY <1>1, RefinesInit, Invariance, TaskInvariance, PTL
  DEF Spec, ImplementsFeed, AbstractFeed!Spec

\* A buffer that may hold every event of a run never drops one.
LEMMA RoomyBuffers ==
  ASSUME MaxProgress < MaxBufferedEvents
  PROVE  Spec => []NothingDropped
<1>1. ASSUME IInv, TaskInv PROVE NothingDropped
  <2> SUFFICES ASSUME NEW r \in RunIds PROVE run[r].dropped = 0
    BY DEF NothingDropped
  <2> DEFINE R == run[r]
             n == Len(R.events)
  <2>1. R \in RunType /\ WindowOK(R) /\ RunOK(R)
    BY <1>1 DEF IInv, TypeOK, TaskInv
  <2>2. R.published \in Nat /\ R.dropped \in Nat /\ n \in Nat
    BY <2>1 DEF RunType
  <2>3. /\ n + R.dropped = R.published /\ R.published <= MaxProgress + 1
        /\ R.dropped > 0 => n = MaxBufferedEvents
    BY <2>1 DEF WindowOK, RunOK
  <2>4. MaxProgress \in Nat /\ MaxBufferedEvents \in Nat
    BY LimitsAssumption
  <2> HIDE DEF R, n
  <2>5. R.dropped = 0
    BY <2>2, <2>3, <2>4
  <2> QED
    BY <2>5 DEF R
<1>2. IInv /\ TaskInv => NothingDropped
  BY <1>1
<1> QED
  BY <1>2, Invariance, TaskInvariance, PTL

\* In particular when the buffer has room for all the work can publish and for
\* the final event, which is the instance TLC checks.
THEOREM RoomyFeedTheorem ==
  ASSUME MaxProgress < MaxBufferedEvents
  PROVE  Spec => ImplementsFeed
<1> QED
  BY RoomyBuffers, FeedTheorem, PTL
==============================================================================
