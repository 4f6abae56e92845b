# InfraGPT in TLA+

InfraGPT answers questions about infrastructure in a chat.  A selector model
picks read-only functions of a registry, the service runs them against
clusters, databases and clouds, and a synthesis model writes an answer from
what came back.  This directory models the service's control: what it does
between two awaits of the event loop, what survives a crash, and what two
users, two pages, or two questions can do to one another.  The modules are
written from `src/`; comments name the function an action models, and
`PROJECT.json` maps every definition to its lines.

The service is one Python process with one event loop and one SQLite
connection (`app/storage/__init__.py`, `deploy/04-deployment.yaml`: one
replica, strategy Recreate, because the volume has one writer).  So the unit
of atomicity is the code between two `await`s, and what is committed is what
the next process finds.  Both are used throughout.  The exceptions are
modelled as such: the shell scripts, which may be killed between any two
commands and in the middle of a removal or an extraction, and the processes and
servers that the executors talk to.

## 1. The system

| Part | State it keeps | Operations | What is hard, and what makes it correct |
|---|---|---|---|
| Runs and streams (`app/runs.py`, the stream endpoints of `app/api/ask.py`, the loop of `chat.html`) | a registry of runs in memory: buffer of events, count of dropped ones, a bell, status, task; a page's count | create, publish, finish, stop, sweep, subscribe, attach, resume | a subscriber is suspended with an index while the buffer loses its front; connections die between an event and its receipt; a bell shared by all readers; a stop races the last step.  A page is shown its run's events once each, in order, and learns the end |
| Ask loop (`_answer`, `_run_calls`) | the locals of a question: calls, evidence, digest, usage; rows of its conversation; audit, case file, backlog, charge | select, run a round, compact, follow up, stream, write, store | rounds of concurrent calls, a failed compaction, a deadline that passes anywhere, a stop, a write that raises or a crash at the end.  An answer is whole in its conversation before a case file, an audit record or a charge says that there is one |
| Accounts, grants, roles (`app/api/admin.py`, `app/storage/repo.py`, `app/main.py`) | user rows, grant rows with an expiry | register, approve, set a role, activate, enable, disable, grant, revoke, bootstrap | several commits per decision, so a crash in the middle; expiry; a start that elevates; a question that holds its grants.  Nobody has access that no one answers for, nor more than the role given |
| Sign-in and sessions (`app/api/auth.py`, `app/auth/`, the login of `cli/main.py`) | tokens, device codes | password form, device flow, poll, logout, revoke | two actors and a poll race an expiry, a purge, a disable, a lost answer.  A code gives one token, an ended session stays dead, a CLI stops waiting |
| Throttles (`app/auth/throttle.py`, the forms of `app/api/auth.py`) | attempts per address and source, in memory | check, record, reset | windows and limits at their edges; one table for both, and a source that is what the client says.  Passwords tried in a window are bounded, and the wait told is enough |
| Identity proxy (`app/auth/pomerium.py`) | a key set with its age | verify, fetch, fetch again | fetches that overtake one another around a rotation.  An old key is accepted for a bounded time, the new one at once |
| Limits (`app/limits/`) | a table of admitted questions, tokens per day | refuse over budget, refuse over rate, record, charge, prune | a sliding window, midnight, questions that run side by side and are charged at the end.  The quota is exact, the wait told is right |
| Storage (`app/storage/`) | SQLite rows, schema version | connect, migrate | a statement at a time, with DDL that commits by itself.  A process serves the schema it was written for |
| Registry (`app/registry/`, `registry/*.yaml`) | a catalogue, loaded once | load, validate, gate, offer, validate a call | what is offered, what dispatch lets through and what an executor accepts are decided in three places.  Only what was declared and offered runs |
| Dispatch (`app/executors/dispatch.py`) | a cache of results | execute: refuse, hit, run, grep, truncate, redact | runs of one key that overlap, entries that age.  A hit is honest, and what passes the redaction is only what the cuts before it took apart |
| MCP client (`app/executors/mcpapi.py`) | a session and resolved names for the life of the process | handshake, call, list the tools, retry under an alias | the server restarts, forgets and renames while calls are under way.  Only a declared tool runs, no name twice for one call |
| SQL pool (`app/executors/pg.py`) | a pool per connection, a lock | open, wait, run, diagnose | first calls race, calls queue at the limit, the cause of a wait is probed after it.  The pool keeps its cap and its diagnosis is true |
| Processes (`shell_exec.py`, `k8s.py`, `code.py`) | a child per call | refuse, start, judge, time out, kill | the timeout races the end of the process; a stop leaves it running |
| Cloud credentials (`gcpapi.py`, `awsapi.py`, `ekstoken.py`, `k8s.py`) | tokens, cluster details, one CA file | fetch, keep, use, rewrite | a credential that ends under way, a file that another call rewrites |
| Model gateway (`app/grid/`) | an HTTP pool | select, stream, complete | a stream that breaks after some of it was shown.  What is stored is what was shown |
| Redactor (`app/redactor/`) | none | mask | string rewriting |
| Journals (`app/audit.py`, `experience.py`, `coverage.py`) | JSONL files, one per day | append, read, count | a cut in the middle of a line, a window of days.  A cut costs two records, or a day, a hint is earned |
| Case files (`app/casefiles.py`) | a table of investigations | record, find alike | age and the query's limit.  What is shown is recent, alike and the best of them |
| Runbooks (`app/runbooks/`, its pages, the image's start) | files on the volume, a store parsed from all of them | save, delete, load, seed | titles with one slug, a file that does not parse, a store that is older than the files |
| Backups (`scripts/backup.sh`, `restore.sh`) | directories, a bucket, the volume | back up, prune, restore | killed between any two steps and in the middle of some, beside a service that writes.  The newest success can be restored, and leaves what it holds |
| Evaluation, web pages, configuration, CLI commands | none, none, environment, a token file | scoring, rendering | no state that other parts race for |
| Deployment | manifests | - | the single replica everything above relies on |

How they interact: the chat page calls `/ask/stream`, which passes the limits
and the principal's checks, creates a run and starts a task; the task is the
ask loop, which calls the gateway, and dispatch for every function, which
checks the grants the question *began* with, looks in its cache and awaits an
executor.  The task publishes events into the run's buffer; any number of
subscribers follow it.  At the end the ask loop writes, in this order, answer,
case file, audit record and charge.  Admin decisions and logouts only write
rows; everything else reads those rows at its next request.

### What is hard to test here

`PROJECT.json` lists each hazard at its line with the properties that cover
it.  By kind: indices into a buffer that moves (`runs.py:96`), steps of a
stop and of a finishing task in either order, several commits where the
comment thinks of one, DDL that is not in the transaction, time windows at
their edges, refusals that must not consume, work charged only at its end,
results of overlapping runs stored out of order, sessions, names, tokens and
key sets that are kept for the process while their source changes, timeouts
that race the end of a process, streams that break half way, half-written
lines, and scripts that are cut between two moves.

Five hazards have no property.  A question holds surfaces that were revoked
since (`ask.py:602`) and a hung run waits for somebody to look
(`runs.py:145`): the code means it so, and any property would restate it.  An
expiry without a time zone raises wherever it is compared (`repo.py:46`):
Accounts has that expiry, and such an account can be managed by nobody.  The
registry is loaded by the first question (`loader.py:482`), which is one guard,
and the lists of the gate and of the executors differ (`readonly.py:9`): see
section 5.

## 2. The modules

Each module names its functions in comments; here is how its state and its
actions correspond to the code.

### What a question goes through

**RunStream** (with **Feed**).  `run[r]` is the `Run` object: `events`,
`published`, `dropped`, `status`, `started`, `finished`, the task, and whether
the registry still holds it.  An event is its position in everything the run
published.  `tab[c]` is a page: what it watches, the index of its subscriber,
what it has shown.  The `asyncio.Event` carries no more than the set of
waiters, because a subscriber clears it and waits in one step, so ringing it
makes those readable.  `Ask`, `ResumeRuns`, `Reattach`, `Stop` are the
endpoints, with the sweep inside the two that sweep; `StartStream`,
`ReadEvent`, `Drained`, `WaitTimesOut` are `subscribe`, one action per yield
or await; `Progress`, `WorkEnds`, `Unwind` are the task; `ConnectionDies`,
`Reload`, `Restart` the world.  Feed is the promise: a feed that grows and
ends once, and viewers that see a prefix of it, one event after another.

**AskLoop**.  `ask[x]` holds the locals of `_answer` and what it has written.
A call is a value; `KeyOf` tells which calls are one to
`json.dumps(sort_keys=True)`, `Chars` how large their outputs are.  One action
per await that comes back: a selection, a call of a round (`CallReturns`, any
order), the gather, a compaction, a follow-up, the stream, the plain call;
`BodyEscapes` is a reply of the gateway that is no reply and no `GridError`.
The tail (message, case file, audit, charge) has no await, so it is one
action, `Finish`; any of its writes may raise, of which only the case file's is
caught, and `CrashWhileStoring` cuts it after each.  A refusal has the same tail.
`WindowCloses` may happen at any time, `Stop` at every await, and
`DeleteConversation` whatever is being answered in it.

**Rounds** is the loop alone: where a question is, and whether its window has
closed.  The arguments of a call have values without bound, so the selector can
always ask for something new, which the finite `Calls` of AskLoop do not allow;
in Rounds it may do so for ever.  AskLoop implements it (`LoopIsRounds`).

**Gateway**.  The client of `app/grid/client.py` as one question uses it:
the selection with its parsing of tool calls, the stream line by line, and the
plain call behind it.  `page` is what `on_token` has shown since the last
reset.  AskLoop takes any answer; Gateway says which answers there are.

**Registry** and **Acceptors**.  `directory` is what the YAML says, `registry`
what the process has loaded of it.  Acceptors translates the gate
(`readonly.py`), the executors' own looks (`pg.py`, `clickhouse.py`,
`redis.py`, `k8s.py`) and the shell guard (`guard.py`) as predicates over the
shape of a statement, an argv or a command: which verb, what follows it, which
functions and relations it names.  `Call` is `dispatch` before the run:
parameters, grant, connection, executor, in that order.

**Dispatch**.  The checks and the lookup are one step, the executor's run is
the await, the store and the tail (filter, cap, redact) another step.  A
result is a set of lines with the time it was read, and the cache holds the
object that the tail changes in place.  A secret is a line, or it spans several
(`PRIVATE_KEY_RE`), of which redaction needs the first and the last (`Block`,
`BlockEnds`); filter and cap come before it and may cut both kinds (`Greps`,
`Cuts`).  The message of a failure is `error`, which redaction does not look at.

**Mcp**.  `kept` is what the process caches of a connection, `mcp` the server,
`mcall[c]` a call between its requests: handshake, notification, tool call,
and, after an error, the listing and the one more call.  Whether there is one
more is the wording's, not the server's (`_UNKNOWN_TOOL_RE`): the error of a
tool that ran may read like that of an unknown one, and the other way round
(`Raises`).  A session is the life of the server that gave it.

**Pool**.  `pools` are the pools that were opened, each a function of slots;
`plock` is `_lock`.  `GetPool`, `OpenPool`, `Take`, `RunStatement`, `WaitEnds`,
`Probe` are the awaits of `run`; how `psycopg_pool` grows and retries is
external.

**Commands**.  `command[c]` is a call of one of the three executors that start
a process, `child[c]` the process.  The end of the child, the timeout and the
stop of the question come in any order.

**Credentials**.  `held` are the two token caches, `details` the cluster that
was described, `caFile` the one file.  `looping` is the call that blocks the
event loop: the fetches are synchronous, and while one runs nothing else does,
which is why two fetches never overlap and why they delay everybody.

### Who may ask, and how much

**Accounts**.  `user[u]` and `held[u][s]` are the rows, with an expiry that is
absent, never, a time, or a text without a time zone (which raises where it is
compared).  An action is a handler, which has no await between its checks and
its writes; `ApproveInterrupted` and `SetRoleInterrupted` are the handlers of
several commits when the process dies in them.  `asking[u]` is the copy of the
surfaces that a question carries.  `assigned` is history: the roles last set.

**Sessions** extends Accounts and composes with its actions: tokens, device
codes and the CLI that polls one.  `DisableUser` is the whole of
`disable_user`, the part of Accounts and the tokens; `DisableCutShort` and
`ClaimCutShort` are it and `device_token` when the process dies between their
two commits.  `cut` and `spared` are history: the tokens some logout or disable
was to end, and those that a disable which was cut short left.

**Door**.  The sign-in and registration forms behind the two throttles:
`loginHits` and `registerHits` are their tables, time is in fractions of a
second.  A password is right or wrong.  A source is what the first hop of a
header says, so it may be nothing, which the throttle does not count, or be
spelled like an address, whose attempts it then shares and whose counter a
success of its own clears.

**Assertions**.  `verify` with its cache of signing keys.  `keySet` is the
generation of keys that is kept; a fetch is an await, and `reply` is what its
answer held when the proxy sent it.

**Limits**.  One user: the `rate_events` table, the questions that run, the
tokens of each day.  `admitted` is history, what was ever recorded, and `told`
the moment the last refusal named.  `AskMissing` is the request that is
admitted and then answered 404.

### What is kept

**Migrations**.  The loop of `migrate` a statement at a time, with sqlite3's
rule for implicit transactions: DDL that comes before the first INSERT of a
connection is committed by itself.  `conn` is what the connection sees, `disk`
what survives.  Any release may be deployed over any file.

**Journal**.  The audit file of each day is the sequence of its writes; a
write is whole, or cut in its text or before its newline, and what follows a
cut is on the same line.  A cut inside a character leaves a file that is not
UTF-8: `Readable`, what `read_audit` gives back, is then nothing of that day,
as it decodes strictly, while `Collected` and `Hint`, what `experience.py`
counts, replace what does not decode.

**CaseFiles**.  The table of investigations in the order of time; a text is
the set of its distinctive words.  `Similar` is the query with its cutoff and
limit, the two words in common, the ranking by overlap and age.

**Runbooks**.  `volume` are the files by slug, `shelf` the store, which is
loaded as a whole or not at all.  A title is what was typed; `Clipped`,
`Unreadable` and `Blanked` are the titles that come back changed, or make the
file unreadable.  `ContainerStarts` copies the image's runbooks.

**Backups**.  `data` is the database file and the log beside it: the log is
of the file only if it was begun on what the file holds.  One action per
command of the two scripts that changes something, each may be the last, and a
service starts, writes and stops beside them.  The upload, the removal of a copy
(`Prunes`, file by file, the directory last), the copy of the database and the
extraction of the days (`ExtractBegins`, `ExtractEnds`) take several steps and
may be cut in between; SUCCESS is a step after the removals.

### Composition

Modules share no state except where one extends another, because the parts
meet through rows and through calls that are each a step of both: a question's
grants are those of Accounts at `BeginQuestion`, its limits are checked before
`AskNew`, its progress events are RunStream's `Progress`, a `Call` of Registry
that passes is one of Dispatch, and what that awaits is Mcp, Pool, Commands or
Credentials.  **MCServices** and **MCExecutors** therefore check several
components in one run: `part` is chosen at the start, that component moves,
and the others stay as they begin.  The states are the sum of the
components', not their product, and an invariant speaks of one component
throughout.  The `MC*` modules give TLC its values; the eight `*Proofs` hold the
theorems (section 4).

## 3. What is checked

Twelve runs.  All allow TLC to stop at the bounds (`CHECK_DEADLOCK FALSE`): the
clock, the crashes and the identities run out, and a finished system has
nothing left to do.  Every property has a mutant in `PROJECT.json`, a plausible
bug of the code in a mapped definition that violates it.  Where a component
has several promises they are conjuncts of one property with a name of its own
(`ToolCallsHold == OnlyDeclaredToolsRun /\ FirstRenameHeals`), each stated with
a comment.

| Run | Instance | What it shows |
|---|---|---|
| `run_stream` | one run, two pages of one user, three progress events in a buffer of two, a cut connection, a restart | The buffer is the newest events and `dropped` the position before them; without overflow a page was shown 1..n; its count never passes what its stream has read (`StreamsAreExact`); nobody sleeps while there is something to read; an ended run is frozen; a page that follows is shown the final event or learns that the run is gone |
| `run_feed` | two runs of two users, no overflow | The implementation refines Feed |
| `run_follow` | as `run_stream`, one page | *Refuted:* "then follow live until the run ends".  A subscriber that is caught up when the buffer overflows waits past the end; its stream gives it nothing more, the answer included, and the page gets that by rejoining when the run is over |
| `ask_loop` | one streamed question, rounds of two calls out of three, two of them one key; beside it two questions of Rounds | The models are shown every call exactly once; a question that is done has its answer, evidence, audit record and charge; whichever write raises, a charge has an audit record, and that, like a case file, has an answer (`AnswersHold`); the window is overshot by one selection and one round; half an answer is never left on the page; the question goes through the rounds of Rounds, and as fairly (`LoopIsRounds`); and in Rounds every question ends, though the selector never runs out of calls (`EveryQuestionEnds`) |
| `ask_pair` | two questions of one person, one streamed, two conversations that may be deleted, a crash at any write | `AnswersHold` between questions and over a crash |
| `sessions` | two people, two tokens, one code and others that purge it, two starts | A code gives one token; a session that was ended stays dead when the account is enabled again; a disabled account has a session by a device code only, or as its disable was cut short; a CLI stops waiting |
| `services` | nine components, one at a time (below) | see below |
| `executors` | seven components, one at a time (below) | see below |
| `dispatch_grep` | three calls of one key, a needle or none | *Refuted:* "a later hit with a different grep filters the full result" |
| `migrations_fails` | six statements, the last two ALTERs, three releases, four crashes | *Refuted:* "startup is idempotent" |
| `runbook_seed` | six titles of four slugs, two starts | *Refuted:* "nothing writes runbooks at runtime ... overwriting is correct" |
| `restore_repeats` | one backup, two restores, one commit | *Refuted:* "restoring the same backup twice leaves the same state" |

The parts of `services`:

| Part | Instance | Properties |
|---|---|---|
| Accounts | a bootstrap administrator, another person, two disjoint roles, every kind of expiry, two starts | `AccessIsAccountable`: an active account has somebody who answers for it.  `RoleIsNotExceeded`: a role change, even cut short, leaves nothing beyond the role |
| Limits | two questions in two and a half seconds, a budget of two, two days | `QuotaIsExact`, `RateIsBounded`, `RetryAfterIsHonest` (the wait told is enough and a second less is not), `OvershootIsBounded` (a day's budget is passed by one question for each that runs) |
| Migrations | as `migrations_fails` | `VersionIsApplied`, `ServesItsSchema`, and `GetsUp`: without a crash in its one gap the service gets up |
| Journal | three days, three records, one cut, two observations | `CutsAreContained`: a cut costs the reader of hints the record it cut and at most the next, the admin's view no more, or that day if a character was cut.  `HintsAreEarned`: no function is called failing or empty on fewer calls than promised, nor against a readable one |
| CaseFiles | three words, four rows of which three are looked at, five days | `PrecedentsAreFair` |
| Runbooks | as `runbook_seed` | `AnsweredIsServed`: what a save or delete was answered for is what questions are given |
| Door | two people, three sources of which one has no name and one is spelled like an address, half seconds | `ThrottleHolds`: what is tried in a window, for an address or from a source, is bounded between two successes that name it, the wait told is enough |
| Assertions | two requests, a rotation, a fetch of one tick | `KeysFollowTheProxy`: an old key is accepted no longer than a kept set and a fetch last, the new one is not refused for the old set |
| Backups | one copy kept, two backups, two restores, one commit, two days | `BackupsHold`: the newest backup that reported SUCCESS is whole in the bucket, and here there is a whole one that is not older; a restore leaves what it holds but for the case of `restore_repeats`; audit records are lost only of a day whose archive was extracted, or whose file was half extracted |

The parts of `executors`:

| Part | Instance | Properties |
|---|---|---|
| Registry | nine directories of two to four entries, sound and unsound, two clouds | `RunsAreCovered`: what reaches a backend was declared, default values included, was offered to its caller, and no flag took the next word as its value |
| Dispatch | three calls of one key, one at least without a filter, granted or not; a secret of one line and one of two | `AnswersAreHonest`: a reply was really read, and a hit is as old as it says and younger than its TTL, however runs overlap.  `OnlyCutSecretsPass`: no secret of one line is in a reply, and a part of one only where a filter or the cap, which come before the redaction, cut it; what is of the backend is for who may ask |
| Mcp | three calls of two entries, two restarts of the server with other tools, one of the service | `ToolCallsHold`: only declared tools run, none twice for one call, and a second name only after an error that was taken for a missing tool's; the first rename fails nobody, if the server's words are understood |
| Pool | three calls, a pool of two, one change of the database | `PoolHolds`: no more connections than the cap, none lost; a diagnosis is true unless the database changed |
| Commands | two calls of three kinds, one end of the service | `CommandsAreAccountable`: what outlives its call is a search that timed out or was stopped; ok is earned |
| Credentials | two calls, lives of a few ticks, a cluster that is replaced | `RefusalsHaveACause`: no kept credential ends under a call, and a certificate is unreadable only beside another call |
| Gateway | a stream of three lines, three tool calls of which two are taken | `RepliesAreTakenWhole`: what is stored is what was shown, a selection is taken whole up to its cap or not at all |

**Bounds.**  Each is small because the hazard needs few actors, and large
enough that it happens.  A buffer of two with four events overflows twice, by a
progress event and by the final one, with readers before, at and behind the
front.  Two pages are all that can interfere through one bell; a third adds a
copy.  Three calls give a round of two, a duplicate under another spelling, a
second round, and a compaction with an older digest.  The secret of two lines
is the least that a cut can part.  Two users separate the person an admin
decision is about from everybody else.  In `Limits` the second
has two ticks, so that the fraction the code rounds is there, and the clock
passes a midnight while questions run.  `MaxRun` makes runs of one key overlap
and finish in the other order.  Three calls on a pool of two make one wait;
one change of the database falls between any wait and its probe.  Two restarts
of an MCP server give a second rename.  The lives of credentials are shorter
than the real ones but in the same order to the margin, the fetch and the
request, which is what the property depends on.  Two backups with one copy
kept prune, and a failed one comes between; the commit between them makes the
database, its log and the backup differ.  A second restore, which finds what
the first left, is explored on the first day, and the second day with one
restore (`DayOfRetries`); `BackupsTheorem` has no such bound.  `RunSymmetry` and `CallSymmetry` are
used where no liveness property is checked and the constants are
interchangeable.

**Fairness.**  Nothing is assumed of people (asking, stopping, reloading,
logging in, deciding), of the network, or of crashes.

* `RunStream!WorkFairSpec`: the event loop runs every ready coroutine, so a
  subscriber's steps are weakly fair; the page's loop rejoins for as long as it
  is open; the clock moves; and the task ends, because the rounds of `_answer`
  stop at the time budget and every await in it has a timeout.  That of the
  subscriber's wait is not needed.
* `AskLoop!FairSpec`: every await is answered (the gateway's client and the
  executors have timeouts), nothing of how: always failing is fair; and the
  window closes, as time passes.  `Rounds!FairRounds` asks the same of the loop
  alone, and `LoopIsRounds` checks that AskLoop gives it.
* `Sessions!FairSpec`: the clock moves and the CLI's loop looks at it.
* `MCServices!ServicesFairSpec`: that of `Migrations!MigrationsFairSpec`; the
  deployment starts the process again, and a start runs on until it serves,
  fails or is killed.

The other modules state no liveness: nothing in them waits for ever on
another, or what it waits for is AskLoop's to bound.

## 4. What is proved

Every safety invariant and every action property that a passing run checks is
a theorem: it holds for every value of the constants, under the assumptions
named below.  Eight modules hold the proofs, one or several components each;
`PROJECT.json` lists the theorems with the property each one states.  Seldom
is a property inductive as it stands, so each component has an invariant of
its own, checked by TLC before it was proved.

**What a question goes through**

* **RunStreamProofs**: `TypeCorrect`, `BufferTheorem`, `CountTheorem`,
  `ReplayTheorem`, and `StreamsTheorem`, which is the three together as
  `run_stream` checks them; `WakeupTheorem`, `FrozenTheorem`, and the
  refinement of Feed.  The first invariant adds to the window of the buffer
  (`WindowOK`) what ties a subscriber to its run (`FollowOK`): its index and
  count against `dropped`, and that everything at or before the index was shown
  if nothing was dropped.  A run object only ever *grows* (`Grows`), and a page
  that a step leaves alone keeps following a run that grew, so each action
  needs only its own page or run.  The second, `TaskInv`, says that a run is
  live exactly as long as there is a task to end it, hence a second stop or a
  sweep adds nothing to a run that ended; `NoLostWakeup` is inductive with it.
  `FeedTheorem` is the refinement of module Feed, step by step, for behaviours
  in which no buffer overflows (`[]NothingDropped`: after an
  overflow a page may be shown an event twice, section 5);
  `RoomyFeedTheorem` has the same of every behaviour if the buffer has room
  for all that is published (`MaxProgress < MaxBufferedEvents`), which is the
  instance `run_feed` checks.
* **AskLoopProofs**: `AskLoopTypeCorrect`, `EvidenceTheorem`, `AuditedTheorem`,
  `OvershootTheorem`, `AnswerTheorem`, `FinalTheorem`, and `RoundsTheorem`, that
  every step is one of Rounds or none of the loop's.  The invariant says of a
  question that its books are right at any time (`BooksOK`: the digest stands
  for a beginning of the evidence that ends before the last round), of a round
  under way which positions its calls will fill (`RoundOK`), of one that ended
  that its writes were made in their order, up to the last or to the one that
  failed or was cut (`Ended`), and of its
  conversation what is stored of it (`Stored`), where a number is not given
  twice: this is what keeps a deleted conversation from getting an answer.
* **ExecutorsProofs**, six components:
  * Dispatch (`DispatchTypeCorrect`, `HonestyTheorem`, `DisclosureTheorem`): what
    is kept was read at most a run before its store and went through the tail, a
    run is granted; what the tail leaves of a text of which nothing is cut and
    nobody filtered is free of secrets (`CleanText`), and a hit's tail starts
    from what an earlier one left;
  * Commands (`AccountabilityTheorem`): a process that runs has a call that
    awaits it, or is one of the two exceptions;
  * Gateway (`WholeRepliesTheorem`): the page has what the stream has so far,
    and nothing while the plain call is made;
  * Mcp (`ToolCallsTheorem`): the name a call is sent under is one its entry
    declares; what a call has run is at most its first name, and when it is made
    again, under another, at most the two (`RanOK`); and what a call of the
    server's present life was led to by a listing is a tool it has in that life;
  * Credentials (`CausesTheorem`, if `Timely`): a token that is kept is believed
    for no longer than it lives and a fetch takes, and a file that is half
    written has its writer;
  * Registry (`CoverTheorem`, if `FlagsAreFollowed`): what is loaded is sound, and
    what ran passed the checks of a sound entry.
* **PoolProofs**: `PoolTheorem`.  While somebody holds the lock there is no pool,
  so that there is never a second; a slot that is held is held by the call that
  runs on it (`HeldOK`); and as long as the database has not changed since a
  call began, a wait that runs out found all connections held (`SteadyOK`).

**Who may ask, and how much**

* **AccountsProofs**: `TypeCorrect`, `AccountableTheorem`, `RoleTheorem`.  With
  the types both are inductive: time only takes grants away (`OthersKeep`), and
  the rows a decision writes give what it names and nothing else (`RowsGiven`).
* **SessionsProofs**: `SessionsImplementAccounts`, every step of Sessions is one
  of Accounts or leaves the accounts alone, so that the two theorems above hold
  while people sign in and out (`AccountableSessions`, `RoleSessions`);
  `SessionsTypeCorrect`, `SingleUseTheorem`, `EndingsTheorem`.  An ended session
  is a row that was revoked (`CutIsRevoked`), not one that expired, and the
  invariant speaks of issued rows whether or not they expired; it leaves out those
  that were there when a disable was cut short (`spared`).
* **LimitsProofs**: `TypeCorrect`, `QuotaTheorem`, `RateTheorem`,
  `RetryAfterTheorem`, `OvershootTheorem`.  That a wait is honest is a claim on
  the future, so the invariant remembers which event is waited for (`WaitIsDue`):
  the oldest of the `Limit` that filled the window at the refusal.  For the
  budget it says that nothing is spent on days to come, so that midnight starts
  a day with only what runs (`SpendIsBounded`).
* **ServicesProofs**, Assertions (`KeysTheorem`): a key set that is kept was
  published no longer before its fetch than a fetch takes, and a reply under
  way has a key of a moment since it was asked for.  Door (`ThrottleTheorem`):
  the table of sign-ins has for every address and source the times the history
  has, whatever they are called, and that of registrations at least as many young
  ones (`Covered`), since a wrong form is counted without a password being hashed.

**What is kept** (all in **ServicesProofs**)

* Migrations (`MigrationsTypeCorrect`, `VersionTheorem`, `SchemaTheorem`,
  `FailureTheorem`): the invariant follows the transaction (`Loop`): what the
  connection has recorded is applied, and what is on disk differs from it by at
  most the first statement of the start (`NearlyAtomic`), the one gap that a
  crash can leave.
* Journal (`CutsTheorem`, `HintsTheorem`): a file's writes are its records in
  order, a record that was kept is in the file of its day, and a file that ends
  in a cut ends in the last record.  A lost record is then mapped to the cut
  before it, one to one, and the counting is that of finite sets; a day that does
  not decode has the cut that made it so.
* CaseFiles (`PrecedentsTheorem`): the rows are in the order of their days; the
  ranking is a strict total order, so that the number of rows before a row
  tells whether it is shown.
* Runbooks (`ServedTheorem`): the store was parsed from the files at some time
  since, and what an answer left is parsed as it is.
* Backups (`BackupsTheorem`): of a run that succeeded and of the one under way,
  what its steps have written (`SavedOK`) and that it is not written again; of a
  restore, what is in the directory at each of its steps unless an attempt was
  cut (`RestoreOK`, `ExtractOK`); of an archive, that it lacks nothing of any day
  before its own but what an older archive took, or an extraction that was cut
  (`AuditOK`).

**Under which assumptions.**  Each module names the assumption on its
constants (`UsersAssumption`, `LimitsAssumption`, `DispatchAssumption` and so
on); TLC evaluates it in the runs of that module.  Most are types, and what the
code relies on (a cap of at least one, a retention of at least a window, statements numbered
from one).  Others keep values of the model apart, as they are in the code:
the notes that dispatch adds are no lines of a result (Dispatch), no
surface is the absence of one (Registry), an executor's call is not
`0` (Credentials), no title is empty, which `save_runbook` refuses, and none of
the image's runbooks has a `---` in its front matter (Runbooks).  Two theorems
have a hypothesis besides, that the code's numbers or data satisfy:

* `Timely` (Credentials): the margin before a token's end covers a fetch and the
  way of a request to who reads it, a role's keys live for at least as long as
  they are kept, and an EKS token for longer than a request is on its way.  The
  code has a margin of 60 s, fetches with timeouts of 3 and 10 s, keeps for 3000 s
  the keys of an hour, and signs for 60 s.
* `FlagsAreFollowed` (Registry): in an argv of the directory, a flag that takes a
  value is followed by one.  It is so in every entry of `registry/k8s.yaml`;
  the loader does not look.

**Induction over data** needs a theorem with an operator parameter, which the
provers cannot instantiate.  Where a proof cannot do without (`Rendered` of
an argv; the stale prefix of `Pruned`; the newest success), it takes the
least counterexample instead: natural numbers are well founded (`WFMin`), and
the contradiction is derived at that number.  What the folds of AskLoop compute
(`Dedupe`, `EvidenceSize`) is not proved; its theorems hold whatever they
return within their types.

**Only model-checked:** the liveness properties, as fairness and ENABLED are
out of the prover's reach (`FollowersLearnTheEnd`, `EveryQuestionEnds`,
`LoginEnds`, `GetsUp`), and the five refutations, which are counterexamples.

## 5. Where the documents and the code part

Five runs refute a claim (section 3; `PROJECT.json`, findings).  These were
met while modelling, and are in the modules as the code has them:

*Questions.*

* An answer that was stored may be left without its audit record, or without its
  charge, and its asker told of an error: the message is committed before
  either, and both may raise (`ask.py:522`, `:539`, `:551`; `audit.py:50`).
* A question that is stopped leaves no question record (`README.md:171` says
  each is logged), nor does the call that a stop cuts short (`ask.py:578`).
* `README.md:171` says that every admin action lands in the audit log;
  `admin.py` writes none.
* The filter of calls already made compares `str(params)` (`ask.py:468`), the
  one inside a round the sorted JSON: keys in another order run again.
* The deadline is not read again after a compaction (`ask.py:448`), so one
  selection and one round may start past it.
* `coverage.py:1-8` says that every refusal is appended to its log, but
  `_log_uncovered` looks for a name that it does not define (`ask.py:177`),
  and nothing calls the one it does: the log is never written.
* A question keeps surfaces that are revoked while it runs (`ask.py:602`).
* After an overflow a page that rejoins may be shown an event twice, since its
  count is of events shown, not a position (`runs.py:75`).
* A hung run ends only when somebody creates or lists runs (`runs.py:145`).
* A reply of another shape escapes as no `GridError` (`client.py:130`, `:240`):
  "failure to compact is never failure to answer" (`ask.py:408`) does not hold
  of it, and the question ends unaudited.  The plain answer may be empty; a
  stream that ends without `[DONE]` is taken as whole; tool calls past
  `max_calls` are dropped silently; failed calls are not charged.

*People and limits.*

* A start elevates a bootstrap account that was disabled (`main.py:43`).
* `set_role` keeps a row that is held and wanted, with its expiry
  (`admin.py:223`): what is given that way lapses.
* The budget may be passed by a question for each that runs (`budget.py:12`
  speaks of one), and a request that is answered 404 has used its quota.
* `limits/__init__.py:59` says that rate limiting remains on, while
  `QUESTIONS_PER_HOUR` is 0 by default; `enforce_call_rate`, `prune` and
  `set_limit` have no caller in the service.
* An account that is disabled gets a session by a code (`auth.py:169`); a code
  that expired while pending is still answered `authorization_pending`
  (`auth.py:164`).
* `disable_user` "must lose its CLI sessions immediately" (`admin.py:96`), and
  commits twice: if the process dies in between, the account is disabled and its
  tokens live on, and work again when it is enabled.  `device_token` claims the
  code before it issues the token: dying there costs the login (`auth.py:168`).
* The wait a throttle tells is rounded down, by less than a second; replies of
  the key server may overtake one another and put an older set back.
* The source a throttle counts is the first hop of a header (`throttle.py:105`):
  if it is empty nothing is counted for it, and addresses share its table, so a
  sign-in that succeeds clears the attempts of both of its names.

*Executors.*

* The registry is loaded by the first question (`loader.py:480`, `ask.py:267`),
  while `loader.py:5`, `readonly.py:15` and `get_registry` itself call it a gate of
  the start, and a bad one fatal.
* The gate and the executors differ: `hget` and others of redis, kubectl
  `explain` and `api-resources`, SQL `show` and `describe`, ClickHouse `table`,
  `FORMAT` and `readonly =`, and the two patterns of MCP names.  Such an entry
  loads and is refused on every call; an optional hole without a default fails
  when it is resolved.
* Filter and cap come before the redaction (`dispatch.py:299`), so a secret of
  several lines may pass in part, and a line in which the cap cuts, by a piece
  that no pattern knows.  The message of a failure is "redacted like any other"
  (`dispatch.py:111`): it is in `error`, which `redact_result` does not look at.
* The mark of a hit is a line like any other, so a filter takes it out
  (`dispatch.py:300`), and so does the cap.
* Whether a tool is looked up under its other names is decided by the wording
  of the error, that of a tool that ran included (`mcpapi.py:99`): such a call may
  run a second name, and a server with other words is never asked for its list.
* The session and the name found for an entry are never dropped
  (`mcpapi.py:304`, `:404`): a server that restarts or renames a second time
  fails its calls until the service starts again.
* "All pooled connections were busy ... proves" (`pg.py:380`) can be said when
  there were none; the probe connects beside the pool, past its "hard cap".
* A search that times out leaves its grep running (`code.py:197`), no executor
  ends its process when the question is stopped, and the search takes grep's
  errors for matches, as it looks at no exit code.
* One file holds the certificate of the EKS cluster and is rewritten by every
  call while another kubectl may read it (`k8s.py:127`); the cluster's address
  is kept for the process.  The fetches of credentials block the event loop.

*What is kept.*

* An audit line that is cut without its newline costs the next one too
  (`audit.py:8`, `:54` speak of the record in flight; `:183` of a torn record that
  is "skipped, never fatal"), and one that is cut inside a character makes the
  admin's view of the whole day fail (`audit.py:173`).  `experience.py` splits
  lines where Unicode does, and reads another setting for the directory.
* A `---` in a runbook's name or keyword cuts its front matter; if the text is
  quoted as well, the file no longer parses: the save fails after it wrote, and
  after the next start every question fails (`ask.py:270`).  Titles with one
  slug overwrite one another, and a slug cut at 80 characters after a `-` cannot
  be deleted.
* `restore.sh` never reads the manifest's checksums, takes the partial
  directory of a run that failed, and lays an older audit file over a day's
  newer one; killed while it extracts, it leaves a day's file half of it.
  `backup.sh` counts the directories of failed runs among those it keeps, and
  removes the older ones before it reports SUCCESS, so that with KEEP=1 a kill in
  between leaves the copy that reported it half removed (the new one is whole).
  Backups is `backup.sh` with KEEP above 0 and without `--dry-run`, which uploads
  nothing.  Nothing runs it (`deploy/README.md:59`).

## 6. The plan

Done, in this order: RunStream with Feed, AskLoop, Accounts and Sessions,
Limits, Migrations, Dispatch, and the proofs of four of them; then Registry
with Acceptors, Mcp, Pool, Commands, Credentials, Gateway, Journal, CaseFiles,
Runbooks, Door, Assertions and Backups, with the two runs that hold them; then
the proofs of what the passing runs check, liveness excepted.

What is left:

1. **step properties that bear on several components**: of Accounts, that no
   step but a decision of somebody adds to what is held; of Sessions, that a
   claimed code changes no more; of Mcp, that what is executed only grows;
2. **what the prefixes of a run guarantee after an overflow**: RunStream refines
   Feed only until a buffer drops something; a weaker feed, in which a viewer
   may be shown an event twice but in order between two attachments, would hold
   of every behaviour;
3. **abstract specifications of the small ones**: the pool as a counter of
   permits, the throttles as a log of attempts with a window, each implemented
   by its module as Feed and Accounts are by theirs.

**Not modelled, and why.**  The prompts, the redactor's patterns, page
templates and the evaluation harness are text in, text out: AskLoop and
Dispatch take any result of them.  `promql.py`, `gcpinsights.py`, `vmmeta.py`
and what the cloud executors make of an API's answer are a request each and
formatting, with no state.  Ranking runbooks orders a prompt.  Hashing a
password is a library's.  The report of `coverage.py` groups records that
nothing writes.  Of the deployment, the manifests and the scripts that ship,
bootstrap, verify and clone the sources are assumed: one replica, a volume that
survives.  Configuration is the constants.  Registration and password change
are in Door as attempts, not in Sessions as accounts.
