------------------------------- MODULE Limits ------------------------------
(***************************************************************************)
(* The two limits on a user's questions: the sliding window over admitted  *)
(* questions (app/limits/rate.py) and the daily token budget               *)
(* (app/limits/budget.py), as the dependencies of /ask apply them          *)
(* (app/limits/deps.py, app/api/ask.py).  Nothing is shared between users, *)
(* so the module is about one of them.                                     *)
(*                                                                         *)
(* The bodies of check_token_budget, enforce_question_rate and the start   *)
(* of _answer run without an await between them, so asking is one step.    *)
(* Questions that were admitted run side by side, for any time.            *)
(***************************************************************************)
EXTENDS Integers, FiniteSets, FiniteSetsExt

CONSTANTS
  Sec,         \* ticks in a second
  Window,      \* _HOUR, in ticks
  Limit,       \* QUESTIONS_PER_HOUR, 0 for unlimited
  Retention,   \* older_than_s of prune, in ticks
  Day,         \* ticks in a UTC day
  Budget,      \* DEFAULT_DAILY_TOKEN_BUDGET, 0 for unlimited
  MaxCost,     \* bound: the tokens of a question
  MaxOpen,     \* bound: questions of the user that run side by side
  MaxAsks,     \* bound: questions that are admitted
  MaxClock     \* bound: the clock

ASSUME LimitsAssumption ==
  /\ {Sec, Day, Window, Retention} \subseteq Nat \ {0}
  /\ {Limit, Budget, MaxCost, MaxOpen, MaxAsks, MaxClock} \subseteq Nat
  /\ Window <= Retention     \* app/limits/__init__.py, RATE_EVENT_RETENTION_S

VARIABLES
  clock,
  rows,       \* the rate_events table
  open,       \* questions that were admitted and run
  spent,      \* spent[d]: the tokens of day d in token_usage
  admitted,   \* history: every event that was ever recorded
  told        \* history: when the last refusal said to try again, 0 if none

limitVars == <<clock, rows, open, spent, admitted, told>>

Days == 0..(MaxClock \div Day)

Today == clock \div Day

Event == [id : 1..MaxAsks, ts : 0..MaxClock]

InWindow(E) == {e \in E : e.ts > clock - Window}

LimitsInit ==
  /\ clock = 0 /\ rows = {} /\ open = 0 /\ spent = [d \in Days |-> 0]
  /\ admitted = {} /\ told = 0

-----------------------------------------------------------------------------
(* The two verdicts.                                                       *)

Used == Cardinality(InWindow(rows))

\* Mutant of RateAllows: one more than the limit.
RateAllowsAtLimit == Limit = 0 \/ Used <= Limit

RateAllows == Limit = 0 \/ Used < Limit

\* Mutant of RetryAfter: the fraction of a second is dropped.
RetryAfterFloor ==
  Max({1, (Min({e.ts : e \in InWindow(rows)}) + Window - clock) \div Sec})

\* _retry_after, in seconds: when the oldest event leaves the window.
RetryAfter ==
  Max({1, (Min({e.ts : e \in InWindow(rows)}) + Window - clock) \div Sec + 1})

\* Mutant of BudgetAllows: the limit itself may be passed.
BudgetAllowsAtLimit == Budget = 0 \/ spent[Today] <= Budget

BudgetAllows == Budget = 0 \/ spent[Today] < Budget

-----------------------------------------------------------------------------

NewEvent == [id |-> Cardinality(admitted) + 1, ts |-> clock]

\* record: the event is in the table, and the wait of an earlier refusal over.
Consume ==
  /\ Cardinality(admitted) < MaxAsks
  /\ rows' = rows \cup {NewEvent} /\ admitted' = admitted \cup {NewEvent}
  /\ told' = 0

\* Mutant of RefusedOverBudget: the rate limit is consumed first.
RefusedAfterConsuming ==
  /\ ~BudgetAllows /\ RateAllows /\ Cardinality(admitted) < MaxAsks
  /\ rows' = rows \cup {NewEvent}
  /\ UNCHANGED <<clock, open, spent, admitted, told>>

\* check_token_budget refuses, before any quota is consumed.
RefusedOverBudget ==
  /\ ~BudgetAllows
  /\ UNCHANGED limitVars

\* enforce_question_rate refuses, and says when to try again.
RefusedOverRate ==
  /\ BudgetAllows /\ ~RateAllows
  /\ told' = clock + RetryAfter * Sec
  /\ UNCHANGED <<clock, rows, open, spent, admitted>>

Ask ==
  /\ BudgetAllows /\ RateAllows /\ open < MaxOpen
  /\ Consume
  /\ open' = open + 1
  /\ UNCHANGED <<clock, spent>>

\* The conversation does not exist: _answer raises 404 before it does anything,
\* and after the request has taken its unit of the quota.
AskMissing ==
  /\ BudgetAllows /\ RateAllows
  /\ Consume
  /\ UNCHANGED <<clock, open, spent>>

\* record_question_tokens, on the day the question ends.
Charge(cost) ==
  /\ open > 0
  /\ open' = open - 1
  /\ spent' = [spent EXCEPT ![Today] = @ + cost]
  /\ UNCHANGED <<clock, rows, admitted, told>>

\* A question that fails or is stopped is not charged.
EndUncharged ==
  /\ open > 0
  /\ open' = open - 1
  /\ UNCHANGED <<clock, rows, spent, admitted, told>>

\* prune(RATE_EVENT_RETENTION_S)
Prune ==
  /\ rows' = {e \in rows : e.ts > clock - Retention}
  /\ UNCHANGED <<clock, open, spent, admitted, told>>

\* The process dies and another starts: what was running is gone.
LimitsRestart ==
  /\ open' = 0
  /\ UNCHANGED <<clock, rows, spent, admitted, told>>

Advances ==
  /\ clock < MaxClock
  /\ clock' = clock + 1
  /\ UNCHANGED <<rows, open, spent, admitted, told>>

LimitsNext ==
  \/ RefusedOverBudget \/ RefusedOverRate \/ Ask \/ AskMissing
  \/ (\E cost \in 0..MaxCost : Charge(cost)) \/ EndUncharged
  \/ Prune \/ LimitsRestart \/ Advances

LimitsSpec == LimitsInit /\ [][LimitsNext]_limitVars

-----------------------------------------------------------------------------
(* Properties.                                                             *)

LimitsTypeOK ==
  /\ clock \in 0..MaxClock
  /\ rows \subseteq Event /\ admitted \subseteq Event
  /\ open \in 0..MaxOpen
  /\ spent \in [Days -> Nat]
  /\ told \in Nat

\* What the table says of the window is exactly what was admitted in it: no
\* refusal takes quota, and neither a prune nor a restart gives any back.
QuotaIsExact == InWindow(rows) = InWindow(admitted)

\* In every window there ever is, at most Limit questions were admitted,
\* across restarts and however the table is pruned.
RateIsBounded == Limit > 0 => Cardinality(InWindow(admitted)) <= Limit

\* Retry-After is honest and tight: a caller that waits for as long as it was
\* told is admitted, and one that comes a second sooner is not.
RetryAfterIsHonest ==
  told # 0 =>
    /\ clock >= told => RateAllows
    /\ clock < told - Sec => ~RateAllows

\* The budget of a day is passed by at most one question for each that runs
\* at once, those of the day before that end after midnight included.
OvershootIsBounded ==
  Budget > 0 =>
    \A d \in Days : spent[d] + (IF d = Today THEN MaxCost * open ELSE 0)
                      <= Budget - 1 + MaxCost * MaxOpen
=============================================================================
