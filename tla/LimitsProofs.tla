----------------------------- MODULE LimitsProofs ---------------------------
(***************************************************************************)
(* Proofs about module Limits, for every window, quota, budget and clock.  *)
(*                                                                         *)
(* The inductive invariant has three parts.  The table and the history     *)
(* agree in the window (RowsAgree).  A refusal is remembered with the      *)
(* event it waits for, the oldest of the Limit events that filled the      *)
(* window then (WaitIsDue): nothing is admitted until another verdict, so  *)
(* this stays true, and says of any later time what the window holds.  And *)
(* no tokens are spent on days to come (SpendIsBounded).                   *)
(***************************************************************************)
EXTENDS Limits, FiniteSetTheorems, WellFoundedInduction, TLAPS

(***************************************************************************)
(* Numbers.                                                                *)
(***************************************************************************)

\* A nonempty set of naturals has a least member, and Min is it.
LEMMA HasMin ==
  ASSUME NEW S \in SUBSET Nat, S # {}
  PROVE  /\ Min(S) \in S
         /\ \A y \in S : Min(S) <= y
<1> DEFINE R == OpToRel(<, Nat)
<1>1. \A x, y \in Nat : x < y => <<x, y>> \in R
  BY DEF OpToRel
<1>2. IsWellFoundedOn(R, Nat)
  BY NatLessThanWellFounded
<1> HIDE DEF R
<1>3. PICK x \in S : \A y \in S : <<y, x>> \notin R
  BY <1>2, WFMin, Zenon
<1>4. \A y \in S : x <= y
  <2>1. ASSUME NEW y \in S PROVE ~(y < x)
    BY <1>3, <1>1, Zenon
  <2> QED BY <2>1
<1> QED BY <1>4 DEF Min

\* What the integer quotient is.
LEMMA DivBounds ==
  ASSUME NEW a \in Nat, NEW d \in Nat \ {0}
  PROVE  /\ a \div d \in Nat
         /\ (a \div d) * d <= a
         /\ a < (a \div d + 1) * d
BY SMT

\* Later ticks are on the same day or a later one.
LEMMA DivMono ==
  ASSUME NEW a \in Nat, NEW b \in Nat, NEW d \in Nat \ {0}, a <= b
  PROVE  a \div d <= b \div d /\ a \div d \in Nat /\ b \div d \in Nat
BY SMT

\* The constants are numbers, and the table is kept for at least a window.
LEMMA Bounds ==
  /\ Sec \in Nat \ {0} /\ Day \in Nat \ {0} /\ Window \in Nat \ {0}
  /\ Retention \in Nat \ {0} /\ Window <= Retention
  /\ Limit \in Nat /\ Budget \in Nat /\ MaxCost \in Nat /\ MaxOpen \in Nat
  /\ MaxAsks \in Nat /\ MaxClock \in Nat
BY LimitsAssumption DEF LimitsAssumption

(***************************************************************************)
(* The inductive invariant for the rate.                                   *)
(***************************************************************************)

RowsAgree ==
  /\ IsFiniteSet(admitted)
  /\ rows \subseteq admitted
  /\ \A e \in admitted : e.ts <= clock
  /\ QuotaIsExact

Since(t) == {e \in admitted : e.ts >= t}

WaitIsDue ==
  told # 0 =>
    /\ Limit > 0
    /\ \E m \in admitted : /\ told - Sec <= m.ts + Window
                           /\ m.ts + Window < told
                           /\ Cardinality(Since(m.ts)) = Limit

RateInv == LimitsTypeOK /\ RowsAgree /\ RateIsBounded /\ WaitIsDue

\* The clock and the time of an event are naturals.
LEMMA Times ==
  ASSUME LimitsTypeOK
  PROVE  clock \in Nat /\ told \in Nat /\ \A e \in admitted : e.ts \in Nat
BY Bounds DEF LimitsTypeOK, Event

\* The window holds finitely many events.
LEMMA WindowFinite ==
  ASSUME RowsAgree
  PROVE  /\ IsFiniteSet(InWindow(admitted))
         /\ Cardinality(InWindow(admitted)) \in Nat
         /\ Used = Cardinality(InWindow(admitted))
<1>1. InWindow(admitted) \in SUBSET admitted
  BY DEF InWindow
<1>2. IsFiniteSet(InWindow(admitted))
  BY <1>1, FS_Subset DEF RowsAgree
<1> QED BY <1>2, FS_CardinalityType DEF Used, RowsAgree, QuotaIsExact

\* Admitting a question adds one event to a window that had room for it.
LEMMA ConsumeKeeps ==
  ASSUME RateInv, RateAllows, Consume, clock' = clock, open' \in 0..MaxOpen,
         spent' \in [Days -> Nat]
  PROVE  RateInv'
<1> USE Bounds
<1>t. /\ clock \in Nat /\ clock \in 0..MaxClock
      /\ rows \subseteq Event /\ admitted \subseteq Event
  BY Times DEF RateInv, LimitsTypeOK
<1>1. Cardinality(admitted) \in Nat
  BY FS_CardinalityType DEF RateInv, RowsAgree
<1>2. NewEvent \in Event /\ NewEvent.ts = clock
  BY <1>1, <1>t DEF Consume, NewEvent, Event
<1>3. LimitsTypeOK'
  BY <1>2, <1>t DEF Consume, LimitsTypeOK, Event
<1>4. InWindow(rows)' = InWindow(rows) \cup {NewEvent}
  BY <1>2, <1>t DEF Consume, InWindow
<1>5. InWindow(admitted)' = InWindow(admitted) \cup {NewEvent}
  BY <1>2, <1>t DEF Consume, InWindow
<1>6. IsFiniteSet(admitted')
  BY FS_AddElement DEF Consume, RateInv, RowsAgree
<1>7. QuotaIsExact'
  BY <1>4, <1>5 DEF QuotaIsExact, RateInv, RowsAgree
<1>8. RowsAgree'
  <2>1. \A e \in admitted' : e.ts <= clock'
    BY <1>2, <1>t DEF Consume, RateInv, RowsAgree
  <2>2. rows' \subseteq admitted'
    BY DEF Consume, RateInv, RowsAgree
  <2> QED BY <1>6, <1>7, <2>1, <2>2 DEF RowsAgree
<1>9. RateIsBounded'
  <2> SUFFICES ASSUME Limit > 0
               PROVE  Cardinality(InWindow(admitted)') <= Limit
    BY DEF RateIsBounded
  <2>1. /\ IsFiniteSet(InWindow(admitted))
        /\ Cardinality(InWindow(admitted)) \in Nat
        /\ Cardinality(InWindow(admitted)) < Limit
    BY WindowFinite DEF RateAllows, RateInv
  <2>2. Cardinality(InWindow(admitted)') <= Cardinality(InWindow(admitted)) + 1
    <3>1. Cardinality(InWindow(admitted) \cup {NewEvent})
            <= Cardinality(InWindow(admitted)) + 1
      BY <2>1, FS_AddElement
    <3> QED BY <3>1, <1>5
  <2>3. Cardinality(InWindow(admitted)') \in Nat
    BY <1>8, WindowFinite, <2>1, <1>5, FS_AddElement, FS_CardinalityType
  <2> QED BY <2>1, <2>2, <2>3
<1>10. WaitIsDue'
  BY DEF Consume, WaitIsDue
<1> QED BY <1>3, <1>8, <1>9, <1>10 DEF RateInv

\* A refusal names the moment the oldest event of the full window leaves it.
LEMMA RefusalKeeps ==
  ASSUME RateInv, RefusedOverRate
  PROVE  RateInv'
<1> USE Bounds
<1>t. /\ clock \in Nat /\ \A e \in admitted : e.ts \in Nat
      /\ rows \subseteq admitted /\ QuotaIsExact
  BY Times DEF RateInv, RowsAgree
<1>1. /\ Limit > 0 /\ Used >= Limit
      /\ Cardinality(InWindow(admitted)) = Used /\ Used \in Nat
  BY WindowFinite DEF RefusedOverRate, RateAllows, RateInv
<1>2. Cardinality(InWindow(admitted)) = Limit
  BY <1>1 DEF RateInv, RateIsBounded
<1> DEFINE T == {e.ts : e \in InWindow(rows)}
           first == Min(T)
           wait == first + Window - clock
<1>3. T \in SUBSET Nat /\ T # {}
  <2>1. InWindow(rows) # {}
    BY <1>1, FS_EmptySet DEF Used
  <2> QED BY <2>1, <1>t DEF InWindow
<1>4. first \in T /\ \A y \in T : first <= y
  BY <1>3, HasMin
<1>5. PICK m \in InWindow(rows) : m.ts = first
  BY <1>4
<1>6. m \in admitted /\ m.ts \in Nat /\ m.ts > clock - Window
  BY <1>5, <1>t DEF InWindow
<1>7. RetryAfter = Max({1, wait \div Sec + 1})
  BY DEF RetryAfter
<1>8. wait \in Nat /\ wait >= 1 /\ wait = m.ts + Window - clock
  BY <1>5, <1>6, <1>t
<1> HIDE DEF wait, first, T
<1>9. /\ wait \div Sec \in Nat
      /\ (wait \div Sec) * Sec <= wait
      /\ wait < (wait \div Sec + 1) * Sec
  BY <1>8, Bounds, DivBounds, Zenon
<1> DEFINE q == wait \div Sec
<1>10. RetryAfter = q + 1
  <2>1. q \in Nat
    BY <1>9
  <2> HIDE DEF q
  <2>2. Max({1, q + 1}) = q + 1
    BY <2>1 DEF Max
  <2> QED BY <2>2, <1>7 DEF q
<1>11. /\ q \in Nat /\ q * Sec <= wait /\ wait < (q + 1) * Sec
       /\ told' = clock + (q + 1) * Sec
  BY <1>9, <1>10 DEF RefusedOverRate
<1> HIDE DEF q
<1>12. (q + 1) * Sec = q * Sec + Sec /\ q * Sec \in Nat
  BY <1>11
<1>13. told' \in Nat /\ told' - Sec <= m.ts + Window /\ m.ts + Window < told'
  <2> DEFINE p == q * Sec
  <2>1. p \in Nat /\ p <= wait /\ wait < p + Sec /\ told' = clock + p + Sec
    BY <1>11, <1>12, <1>t
  <2> HIDE DEF p
  <2> QED BY <2>1, <1>8, <1>t, <1>6
<1>14. Since(m.ts) = InWindow(admitted)
  <2>1. ASSUME NEW e \in InWindow(admitted) PROVE e \in Since(m.ts)
    <3>1. e \in InWindow(rows)
      BY <1>t DEF QuotaIsExact
    <3>2. e.ts \in T
      BY <3>1 DEF T
    <3>3. m.ts <= e.ts
      BY <3>2, <1>4, <1>5
    <3> QED BY <3>1, <3>3, <1>t DEF Since, InWindow
  <2>2. ASSUME NEW e \in Since(m.ts) PROVE e \in InWindow(admitted)
    BY <1>6, <1>t DEF Since, InWindow
  <2> QED BY <2>1, <2>2
<1>15. /\ UNCHANGED <<clock, rows, open, spent, admitted>>
       /\ Since(m.ts)' = Since(m.ts) /\ InWindow(admitted)' = InWindow(admitted)
       /\ InWindow(rows)' = InWindow(rows)
  BY DEF RefusedOverRate, Since, InWindow
<1>16. LimitsTypeOK'
  BY <1>13, <1>15 DEF RateInv, LimitsTypeOK
<1>17. RowsAgree' /\ RateIsBounded'
  BY <1>15 DEF RateInv, RowsAgree, RateIsBounded, QuotaIsExact
<1>18. WaitIsDue'
  <2>1. Cardinality(Since(m.ts)') = Limit
    BY <1>15, <1>14, <1>2
  <2> QED BY <1>1, <1>6, <1>13, <1>15, <2>1 DEF WaitIsDue, Since
<1> QED BY <1>16, <1>17, <1>18 DEF RateInv

\* Time, and a prune, only ever empty the window, and both sides alike.
LEMMA WindowShrinks ==
  ASSUME RateInv, clock' \in {clock, clock + 1}, clock' \in 0..MaxClock,
         rows' \in {rows, {e \in rows : e.ts > clock - Retention}},
         rows' = rows \/ clock' = clock,
         UNCHANGED <<admitted, told>>,
         open' \in 0..MaxOpen, spent' \in [Days -> Nat]
  PROVE  RateInv'
<1> USE Bounds
<1>t. /\ clock \in Nat /\ \A e \in admitted : e.ts \in Nat
      /\ rows \subseteq admitted /\ QuotaIsExact /\ IsFiniteSet(admitted)
  BY Times DEF RateInv, RowsAgree
<1>1. InWindow(admitted)' \subseteq InWindow(admitted)
  BY <1>t DEF InWindow
<1>2. QuotaIsExact'
  BY <1>t DEF QuotaIsExact, InWindow
<1>3. RowsAgree'
  BY <1>2, <1>t DEF RateInv, RowsAgree
<1>4. RateIsBounded'
  <2> SUFFICES ASSUME Limit > 0
               PROVE  Cardinality(InWindow(admitted)') <= Limit
    BY DEF RateIsBounded
  <2>1. /\ IsFiniteSet(InWindow(admitted))
        /\ Cardinality(InWindow(admitted)) \in Nat
        /\ Cardinality(InWindow(admitted)) <= Limit
    BY WindowFinite DEF RateInv, RateIsBounded
  <2>2. /\ IsFiniteSet(InWindow(admitted)')
        /\ Cardinality(InWindow(admitted)') <= Cardinality(InWindow(admitted))
    BY <2>1, <1>1, FS_Subset
  <2>3. Cardinality(InWindow(admitted)') \in Nat
    BY <2>2, FS_CardinalityType
  <2> QED BY <2>1, <2>2, <2>3
<1>5. WaitIsDue'
  BY DEF RateInv, WaitIsDue, Since
<1>6. LimitsTypeOK'
  BY DEF RateInv, LimitsTypeOK
<1> QED BY <1>3, <1>4, <1>5, <1>6 DEF RateInv

\* Nothing has been asked yet.
LEMMA RateInit == LimitsInit => RateInv
<1> SUFFICES ASSUME LimitsInit PROVE RateInv
  OBVIOUS
<1>1. LimitsTypeOK
  BY Bounds DEF LimitsInit, LimitsTypeOK
<1>2. RowsAgree
  BY FS_EmptySet DEF LimitsInit, RowsAgree, QuotaIsExact
<1>3. RateIsBounded
  <2>1. InWindow(admitted) = {}
    BY DEF LimitsInit, InWindow
  <2> QED BY <2>1, Bounds, FS_EmptySet DEF RateIsBounded
<1>4. WaitIsDue
  BY DEF LimitsInit, WaitIsDue
<1> QED BY <1>1, <1>2, <1>3, <1>4 DEF RateInv

\* The current day is a day.
LEMMA TodayIsADay ==
  ASSUME LimitsTypeOK
  PROVE  Today \in Days
BY Bounds, DivMono DEF LimitsTypeOK, Today, Days

\* Every step keeps the invariant for the rate.
LEMMA RateNext == RateInv /\ [LimitsNext]_limitVars => RateInv'
<1> SUFFICES ASSUME RateInv, [LimitsNext]_limitVars PROVE RateInv'
  OBVIOUS
<1> USE Bounds
<1>t. open \in 0..MaxOpen /\ spent \in [Days -> Nat] /\ clock \in 0..MaxClock
  BY DEF RateInv, LimitsTypeOK
<1>0. CASE UNCHANGED limitVars
  BY <1>0, <1>t, WindowShrinks DEF limitVars
<1>1. CASE RefusedOverBudget
  BY <1>1, <1>0 DEF RefusedOverBudget
<1>2. CASE RefusedOverRate
  BY <1>2, RefusalKeeps
<1>3. CASE Ask
  BY <1>3, <1>t, ConsumeKeeps DEF Ask
<1>4. CASE AskMissing
  BY <1>4, <1>t, ConsumeKeeps DEF AskMissing
<1>5. ASSUME NEW cost \in 0..MaxCost, Charge(cost) PROVE RateInv'
  <2>1. open' \in 0..MaxOpen
    BY <1>5, <1>t DEF Charge
  <2>2. spent' \in [Days -> Nat]
    <3>1. Today \in Days
      BY TodayIsADay DEF RateInv
    <3>2. spent[Today] + cost \in Nat
      BY <1>t, <3>1
    <3> QED BY <1>5, <1>t, <3>2 DEF Charge
  <2> QED BY <1>5, <1>t, <2>1, <2>2, WindowShrinks DEF Charge
<1>6. CASE EndUncharged
  BY <1>6, <1>t, WindowShrinks DEF EndUncharged
<1>7. CASE Prune
  BY <1>7, <1>t, WindowShrinks DEF Prune
<1>8. CASE LimitsRestart
  BY <1>8, <1>t, WindowShrinks DEF LimitsRestart
<1>9. CASE Advances
  BY <1>9, <1>t, WindowShrinks DEF Advances
<1> QED BY <1>0, <1>1, <1>2, <1>3, <1>4, <1>5, <1>6, <1>7, <1>8, <1>9 DEF LimitsNext

\* So it holds throughout.
LEMMA RateInvariant == LimitsSpec => []RateInv
<1>1. LimitsInit => RateInv
  BY RateInit
<1>2. RateInv /\ [LimitsNext]_limitVars => RateInv'
  BY RateNext
<1> QED BY <1>1, <1>2, PTL DEF LimitsSpec

\* In every reachable state the table, the clock and the counters have their
\* types.
THEOREM TypeCorrect == LimitsSpec => []LimitsTypeOK
<1>1. RateInv => LimitsTypeOK
  BY DEF RateInv
<1> QED BY <1>1, RateInvariant, PTL

\* What the rate limit counts is exactly what was admitted in the window, after
\* any refusals, prunes and restarts.
THEOREM QuotaTheorem == LimitsSpec => []QuotaIsExact
<1>1. RateInv => QuotaIsExact
  BY DEF RateInv, RowsAgree
<1> QED BY <1>1, RateInvariant, PTL

\* No window of any length ever holds more admitted questions than the limit.
THEOREM RateTheorem == LimitsSpec => []RateIsBounded
<1>1. RateInv => RateIsBounded
  BY DEF RateInv
<1> QED BY <1>1, RateInvariant, PTL

\* While the wait that was told is due, it is right both ways.
LEMMA WaitIsHonest == RateInv => RetryAfterIsHonest
<1> SUFFICES ASSUME RateInv, told # 0
             PROVE  /\ clock >= told => RateAllows
                    /\ clock < told - Sec => ~RateAllows
  BY DEF RetryAfterIsHonest
<1> USE Bounds
<1>t. /\ clock \in Nat /\ told \in Nat /\ \A e \in admitted : e.ts \in Nat
      /\ IsFiniteSet(admitted)
  BY Times DEF RateInv, RowsAgree
<1>1. Used = Cardinality(InWindow(admitted)) /\ Used \in Nat
  BY WindowFinite DEF RateInv
<1>2. Limit > 0
  BY DEF RateInv, WaitIsDue
<1>3. PICK m \in admitted : /\ told - Sec <= m.ts + Window
                            /\ m.ts + Window < told
                            /\ Cardinality(Since(m.ts)) = Limit
  BY DEF RateInv, WaitIsDue
<1>4. m.ts \in Nat /\ m \in Since(m.ts)
  BY <1>t DEF Since
<1>5. IsFiniteSet(Since(m.ts))
  <2>1. Since(m.ts) \in SUBSET admitted
    BY DEF Since
  <2> QED BY <2>1, <1>t, FS_Subset
<1>6. ASSUME clock >= told PROVE RateAllows
  <2>1. InWindow(admitted) \subseteq Since(m.ts) \ {m}
    BY <1>6, <1>t, <1>3, <1>4 DEF InWindow, Since
  <2>2. /\ IsFiniteSet(Since(m.ts) \ {m})
        /\ Cardinality(Since(m.ts) \ {m}) = Limit - 1
    BY <1>3, <1>4, <1>5, FS_RemoveElement
  <2>3. Cardinality(InWindow(admitted)) <= Limit - 1
    BY <2>1, <2>2, FS_Subset
  <2>4. Used < Limit
    BY <2>3, <1>1
  <2> QED BY <2>4 DEF RateAllows
<1>7. ASSUME clock < told - Sec PROVE ~RateAllows
  <2>1. Since(m.ts) \subseteq InWindow(admitted)
    BY <1>7, <1>t, <1>3, <1>4 DEF InWindow, Since
  <2>2. IsFiniteSet(InWindow(admitted))
    BY WindowFinite DEF RateInv
  <2>3. Limit <= Cardinality(InWindow(admitted))
    BY <2>1, <2>2, <1>3, FS_Subset
  <2>4. ~(Used < Limit)
    BY <2>3, <1>1
  <2> QED BY <2>4, <1>2 DEF RateAllows
<1> QED BY <1>6, <1>7

\* Who waits for as long as Retry-After said is admitted, and who comes a second
\* sooner is not, whatever is pruned or restarted meanwhile.
THEOREM RetryAfterTheorem == LimitsSpec => []RetryAfterIsHonest
<1> QED BY WaitIsHonest, RateInvariant, PTL

(***************************************************************************)
(* The budget.                                                             *)
(***************************************************************************)

\* The most that can be spent on a day.
Ceiling == Budget - 1 + MaxCost * MaxOpen

\* What the questions that run may still cost.
Pending(n) == MaxCost * n

SpendIsBounded ==
  /\ \A d \in Days : d > Today => spent[d] = 0
  /\ OvershootIsBounded

\* The questions that run cost no more than as many as may run, and one less
\* costs MaxCost less.
LEMMA PendingBounds ==
  ASSUME NEW n \in 0..MaxOpen
  PROVE  /\ Pending(n) \in Nat /\ Pending(MaxOpen) \in Nat
         /\ Pending(n) <= Pending(MaxOpen)
         /\ n > 0 => Pending(n - 1) = Pending(n) - MaxCost
         /\ n > 0 => Pending(n - 1) \in Nat
<1>1. /\ MaxCost * n \in Nat /\ MaxCost * MaxOpen \in Nat
      /\ MaxCost * n <= MaxCost * MaxOpen
  BY Bounds
<1>2. n > 0 => MaxCost * (n - 1) = MaxCost * n - MaxCost /\ MaxCost * (n - 1) \in Nat
  BY Bounds
<1> QED BY <1>1, <1>2 DEF Pending

\* The current day only moves on.
LEMMA DayMovesOn ==
  ASSUME LimitsTypeOK, clock' \in 0..MaxClock, clock' >= clock
  PROVE  /\ Today \in Days /\ Today' \in Days /\ Today \in Nat
         /\ Today <= Today'
         /\ Days \subseteq Nat
<1>1. clock \in 0..MaxClock
  BY DEF LimitsTypeOK
<1>2. clock \in Nat /\ clock' \in Nat /\ MaxClock \in Nat /\ Day \in Nat \ {0}
  BY <1>1, Bounds
<1>3. /\ clock \div Day \in Nat /\ clock' \div Day \in Nat
      /\ MaxClock \div Day \in Nat
      /\ clock \div Day <= clock' \div Day /\ clock' \div Day <= MaxClock \div Day
  <2>1. clock' <= MaxClock
    BY Bounds
  <2> QED BY <1>2, <2>1, DivMono
<1>4. Today = clock \div Day /\ Today' = clock' \div Day
  BY DEF Today
<1> QED BY <1>3, <1>4 DEF Days

\* The properties of the sums that the steps need, without products.
LEMMA CeilingIs ==
  ASSUME Budget > 0
  PROVE  Ceiling \in Nat /\ Ceiling = Budget - 1 + Pending(MaxOpen)
<1>1. Pending(MaxOpen) \in Nat
  BY Bounds, PendingBounds
<1> QED BY <1>1, Bounds DEF Ceiling, Pending

\* OvershootIsBounded, day by day.
LEMMA Overshoot ==
  ASSUME LimitsTypeOK
  PROVE  OvershootIsBounded <=>
           (Budget > 0 =>
              \A d \in Days :
                spent[d] + (IF d = Today THEN Pending(open) ELSE 0) <= Ceiling)
BY DEF OvershootIsBounded, Pending, Ceiling

\* Questions that end, charged or not, and time, keep the bound.
LEMMA SpendKeeps ==
  ASSUME LimitsTypeOK, SpendIsBounded, NEW cost \in 0..MaxCost,
         LimitsTypeOK', clock' >= clock,
         \/ UNCHANGED <<open, spent>>
         \/ open' = 0 /\ UNCHANGED <<clock, spent>>
         \/ open > 0 /\ open' = open - 1 /\ UNCHANGED <<clock, spent>>
         \/ /\ open > 0 /\ open' = open - 1 /\ clock' = clock
            /\ spent' = [spent EXCEPT ![Today] = @ + cost]
  PROVE  SpendIsBounded'
<1>t. /\ open \in 0..MaxOpen /\ open' \in 0..MaxOpen
      /\ spent \in [Days -> Nat] /\ spent' \in [Days -> Nat]
  BY DEF LimitsTypeOK
<1>d. /\ Today \in Days /\ Today' \in Days /\ Today \in Nat /\ Today' \in Nat
      /\ Today <= Today' /\ Days \subseteq Nat
  <2>1. clock' \in 0..MaxClock
    BY DEF LimitsTypeOK
  <2> QED BY <2>1, DayMovesOn
<1>0. clock' = clock => Today' = Today
  BY DEF Today
<1>1. ASSUME NEW d \in Days, d > Today' PROVE spent'[d] = 0
  <2>1. d > Today /\ d # Today /\ spent[d] = 0
    BY <1>1, <1>d DEF SpendIsBounded
  <2> QED BY <2>1, <1>t
<1>2. ASSUME Budget > 0, NEW d \in Days
      PROVE  spent'[d] + (IF d = Today' THEN Pending(open') ELSE 0) <= Ceiling
  <2>1. /\ Pending(open) \in Nat /\ Pending(open') \in Nat
        /\ Pending(MaxOpen) \in Nat /\ Pending(open') <= Pending(MaxOpen)
        /\ open > 0 => Pending(open - 1) = Pending(open) - MaxCost
        /\ MaxCost \in Nat /\ Budget \in Nat
        /\ Ceiling \in Nat /\ Pending(MaxOpen) <= Ceiling
    BY <1>t, <1>2, PendingBounds, CeilingIs, Bounds
  <2>2. Pending(0) = 0
    BY Bounds DEF Pending
  <2>3. spent[d] + (IF d = Today THEN Pending(open) ELSE 0) <= Ceiling
    BY <1>2, Overshoot DEF SpendIsBounded
  <2>4. spent[d] \in Nat /\ spent'[d] \in Nat
    BY <1>t
  <2>5. CASE d = Today' /\ Today' # Today
    <3>1. spent[d] = 0
      BY <2>5, <1>d DEF SpendIsBounded
    <3>2. clock' # clock /\ open' = open /\ spent' = spent
      BY <2>5, <1>0
    <3> QED BY <3>1, <3>2, <2>1, <2>5
  <2>6. CASE d = Today' /\ Today' = Today
    <3>1. spent[d] + Pending(open) <= Ceiling
      BY <2>3, <2>6
    <3>2. CASE UNCHANGED <<open, spent>>
      BY <3>1, <3>2, <2>6
    <3>3. CASE open' = 0 /\ UNCHANGED <<clock, spent>>
      BY <3>1, <3>3, <2>1, <2>2, <2>4, <2>6
    <3>4. CASE open > 0 /\ open' = open - 1 /\ UNCHANGED <<clock, spent>>
      BY <3>1, <3>4, <2>1, <2>4, <2>6
    <3>5. CASE /\ open > 0 /\ open' = open - 1 /\ clock' = clock
               /\ spent' = [spent EXCEPT ![Today] = @ + cost]
      <4>1. spent'[d] = spent[d] + cost
        BY <3>5, <2>6, <1>t
      <4>2. Pending(open') = Pending(open) - MaxCost
        BY <3>5, <2>1
      <4>3. cost <= MaxCost /\ cost \in Nat
        BY Bounds
      <4> QED BY <4>1, <4>2, <4>3, <3>1, <2>1, <2>4, <2>6
    <3> QED BY <3>2, <3>3, <3>4, <3>5
  <2>7. CASE d # Today'
    <3>1. spent'[d] = spent[d]
      <4>1. spent' = spent \/ (clock' = clock /\ spent' = [spent EXCEPT ![Today] = @ + cost])
        OBVIOUS
      <4> QED BY <4>1, <2>7, <1>0, <1>t
    <3>2. spent[d] <= Ceiling
      BY <2>3, <2>1, <2>4
    <3> QED BY <3>1, <3>2, <2>4, <2>7
  <2> QED BY <2>5, <2>6, <2>7
<1>3. OvershootIsBounded'
  BY <1>2, Zenon DEF OvershootIsBounded, Pending, Ceiling
<1> QED BY <1>1, <1>3 DEF SpendIsBounded

\* Every step keeps the bound on what is spent.
LEMMA SpendNext ==
  LimitsTypeOK /\ LimitsTypeOK' /\ SpendIsBounded /\ [LimitsNext]_limitVars => SpendIsBounded'
<1> SUFFICES ASSUME LimitsTypeOK, LimitsTypeOK', SpendIsBounded, [LimitsNext]_limitVars
             PROVE  SpendIsBounded'
  OBVIOUS
<1>n. clock \in Nat /\ clock <= clock /\ 0 \in 0..MaxCost /\ clock <= clock + 1
  BY Bounds, Times
<1>s. ASSUME UNCHANGED <<open, spent>>, clock' >= clock PROVE SpendIsBounded'
  BY <1>s, <1>n, SpendKeeps
<1>0. CASE UNCHANGED limitVars
  BY <1>0, <1>n, <1>s DEF limitVars
<1>1. CASE RefusedOverBudget \/ RefusedOverRate \/ AskMissing \/ Prune
  <2>1. UNCHANGED <<clock, open, spent>>
    BY <1>1 DEF RefusedOverBudget, RefusedOverRate, AskMissing, Prune, limitVars
  <2> QED BY <2>1, <1>n, <1>s
<1>2. CASE Ask
  <2>1. /\ UNCHANGED <<clock, spent>> /\ Today' = Today
        /\ open \in 0..MaxOpen /\ open' \in 0..MaxOpen
        /\ spent \in [Days -> Nat] /\ Today \in Days
    BY <1>2, TodayIsADay DEF Ask, LimitsTypeOK, Today
  <2>2. ASSUME Budget > 0, NEW d \in Days
        PROVE  spent'[d] + (IF d = Today' THEN Pending(open') ELSE 0) <= Ceiling
    <3>1. /\ Ceiling = Budget - 1 + Pending(MaxOpen) /\ Ceiling \in Nat
          /\ Pending(open') <= Pending(MaxOpen) /\ Pending(open') \in Nat
          /\ Pending(MaxOpen) \in Nat /\ spent[d] \in Nat /\ Budget \in Nat
      BY <2>1, <2>2, CeilingIs, PendingBounds, Bounds
    <3>2. CASE d = Today
      <4>1. spent[d] < Budget
        BY <1>2, <2>2, <3>2 DEF Ask, BudgetAllows
      <4> QED BY <4>1, <3>1, <3>2, <2>1
    <3>3. CASE d # Today
      <4>1. spent[d] + 0 <= Ceiling
        BY <2>2, <3>3, Overshoot DEF SpendIsBounded
      <4> QED BY <4>1, <3>3, <2>1
    <3> QED BY <3>2, <3>3
  <2>3. OvershootIsBounded'
    BY <2>2, Zenon DEF OvershootIsBounded, Pending, Ceiling
  <2> QED BY <2>1, <2>3 DEF SpendIsBounded
<1>3. ASSUME NEW cost \in 0..MaxCost, Charge(cost) PROVE SpendIsBounded'
  BY <1>3, <1>n, SpendKeeps DEF Charge
<1>4. CASE EndUncharged
  BY <1>4, <1>n, SpendKeeps DEF EndUncharged
<1>5. CASE LimitsRestart
  BY <1>5, <1>n, SpendKeeps DEF LimitsRestart
<1>6. CASE Advances
  BY <1>6, <1>n, <1>s DEF Advances
<1> QED BY <1>0, <1>1, <1>2, <1>3, <1>4, <1>5, <1>6 DEF LimitsNext

\* Nothing is spent yet.
LEMMA SpendInit == LimitsInit => SpendIsBounded
<1> SUFFICES ASSUME LimitsInit PROVE SpendIsBounded
  OBVIOUS
<1>1. LimitsTypeOK
  BY RateInit DEF RateInv
<1>2. ASSUME NEW d \in Days PROVE spent[d] = 0
  BY DEF LimitsInit
<1>3. Pending(open) = 0
  BY Bounds DEF LimitsInit, Pending
<1>4. OvershootIsBounded
  BY <1>1, <1>2, <1>3, CeilingIs, Overshoot
<1> QED BY <1>2, <1>4 DEF SpendIsBounded

\* On no day is the budget passed by more than one question's cost for each that
\* runs at once, those that were begun the day before included.
THEOREM OvershootTheorem == LimitsSpec => []OvershootIsBounded
<1>1. LimitsInit => SpendIsBounded
  BY SpendInit
<1>2. LimitsTypeOK /\ LimitsTypeOK' /\ SpendIsBounded /\ [LimitsNext]_limitVars => SpendIsBounded'
  BY SpendNext
<1>3. LimitsSpec => []LimitsTypeOK
  BY TypeCorrect
<1>4. SpendIsBounded => OvershootIsBounded
  BY DEF SpendIsBounded
<1> QED BY <1>1, <1>2, <1>3, <1>4, PTL DEF LimitsSpec
=============================================================================
