-------------------------------- MODULE Pool --------------------------------
(***************************************************************************)
(* Statements against one database (PgExecutor of app/executors/pg.py):    *)
(* the pool that the first call makes under a lock, the wait for one of    *)
(* its connections, the statement, and, when the wait runs out, the probes *)
(* that tell why.                                                          *)
(*                                                                         *)
(* psycopg_pool is not part of the code: a pool starts empty, grows by one *)
(* connection at a time while calls wait, and tries a failed connect again *)
(* after a pause that grows, whatever becomes of the database meanwhile.   *)
(* A connect is taken to be much shorter than the wait, and a statement    *)
(* may be longer than it.                                                  *)
(***************************************************************************)
EXTENDS Integers, FiniteSets, Sequences

CONSTANTS
  PgCalls,       \* bound: the calls
  MaxPool,       \* max_pool of the connection
  MaxChanges,    \* bound: how often the database changes
  Nobody

ASSUME PoolAssumption == MaxPool \in Nat \ {0} /\ MaxChanges \in Nat /\ Nobody \notin PgCalls

VARIABLES
  db,       \* the database: [is, changes]
  pools,    \* the pools that were opened, each [1..MaxPool -> slot], a slot [is, by, dead]
  plock,    \* who holds _lock
  pgcall    \* the calls: [pc, pool, slot, began, clear, busy, said]

pvars == <<db, pools, plock, pgcall>>

Database == {"up", "unroutable", "refusing"}

Slots == 1..MaxPool
Slot(is, by, dead) == [is |-> is, by |-> by, dead |-> dead]
Connected == {"idle", "held"}
HasSlot(p, is) == \E s \in Slots : pools[p][s].is \in is
AllHeld(p) == \A s \in Slots : pools[p][s].is = "held"

PoolInit ==
  /\ db \in [is : Database, changes : {0}]
  /\ pools = <<>>
  /\ plock = Nobody
  /\ pgcall = [c \in PgCalls |-> [pc |-> "new", pool |-> 0, slot |-> 0, began |-> 0,
                                  clear |-> TRUE, busy |-> FALSE, said |-> "nothing"]]

Says(c, what) == pgcall' = [pgcall EXCEPT ![c].pc = "done", ![c].said = what]

\* No connect of the pool has failed and is yet to be tried again.
Clear(p) == p = 0 \/ ~HasSlot(p, {"paused"})

-----------------------------------------------------------------------------
\* Mutant of GetPool: without the lock.
GetPoolUnlocked(c) ==
  /\ pgcall[c].pc = "new"
  /\ pgcall' = [pgcall EXCEPT ![c].pc = IF pools = <<>> THEN "opening" ELSE "waiting",
                              ![c].pool = Len(pools), ![c].began = db.changes,
                              ![c].clear = Clear(Len(pools))]
  /\ UNCHANGED <<db, pools, plock>>

\* _pool: the pool of the connection if there is one, and the lock is held for as long as
\* it takes to open it.
GetPool(c) ==
  /\ pgcall[c].pc = "new" /\ plock = Nobody
  /\ pgcall' = [pgcall EXCEPT ![c].pc = IF pools = <<>> THEN "opening" ELSE "waiting",
                              ![c].pool = Len(pools), ![c].began = db.changes,
                              ![c].clear = Clear(Len(pools))]
  /\ plock' = IF pools = <<>> THEN c ELSE Nobody
  /\ UNCHANGED <<db, pools>>

OpenPool(c) ==
  /\ pgcall[c].pc = "opening"
  /\ pools' = Append(pools, [s \in Slots |-> Slot("none", Nobody, FALSE)])
  /\ pgcall' = [pgcall EXCEPT ![c].pc = "waiting", ![c].pool = Len(pools')]
  /\ plock' = Nobody
  /\ UNCHANGED db

\* pool.connection gives a connection out, one that the server has dropped too.
Take(c, s) ==
  /\ pgcall[c].pc = "waiting" /\ pools[pgcall[c].pool][s].is = "idle"
  /\ pools' = [pools EXCEPT ![pgcall[c].pool][s] = [@ EXCEPT !.is = "held", !.by = c]]
  /\ pgcall' = [pgcall EXCEPT ![c].pc = "running", ![c].slot = s]
  /\ UNCHANGED <<db, plock>>

\* The connection goes back, or, if the server has dropped it, is made anew.
GiveBack(c) ==
  LET p == pgcall[c].pool  s == pgcall[c].slot IN
  pools' = [pools EXCEPT ![p][s] =
              Slot(IF pools[p][s].dead THEN "connecting" ELSE "idle", Nobody, FALSE)]

\* _prepare_session, _assert_relation_exists and the statement: rows, no such relation, an
\* error, or a statement that outlives its timeout.
RunStatement(c) ==
  /\ pgcall[c].pc = "running"
  /\ \/ ~pools[pgcall[c].pool][pgcall[c].slot].dead
        /\ \E what \in {"rows", "no relation", "timed out", "error"} : Says(c, what)
     \/ pools[pgcall[c].pool][pgcall[c].slot].dead /\ Says(c, "error")
  /\ GiveBack(c)
  /\ UNCHANGED <<db, plock>>

\* Nothing that the pool has can serve the call before the wait is over.
Starved(p) ==
  /\ ~HasSlot(p, {"idle"})
  /\ ~(db.is = "up" /\ HasSlot(p, {"connecting"}))
  /\ ~(HasSlot(p, {"none"}) /\ ~HasSlot(p, {"connecting", "paused"}))

\* PoolTimeout, after min(10, timeout_s).
WaitEnds(c) ==
  /\ pgcall[c].pc = "waiting" /\ Starved(pgcall[c].pool)
  /\ pgcall' = [pgcall EXCEPT ![c].pc = "probing", ![c].busy = AllHeld(pgcall[c].pool)]
  /\ UNCHANGED <<db, pools, plock>>

\* _tcp_reachable.
Probe(c) ==
  /\ pgcall[c].pc = "probing"
  /\ IF db.is = "unroutable" THEN Says(c, "no route")
     ELSE pgcall' = [pgcall EXCEPT ![c].pc = "connecting"]
  /\ UNCHANGED <<db, pools, plock>>

\* _direct_connect_error, and what is said when there is none.
Connect(c) ==
  /\ pgcall[c].pc = "connecting"
  /\ Says(c, IF db.is = "up" THEN "saturated" ELSE "real error")
  /\ UNCHANGED <<db, pools, plock>>

\* The question is stopped: the lock and the connection are released.
Stopped(c) ==
  /\ pgcall[c].pc \notin {"new", "done"}
  /\ Says(c, "nothing")
  /\ plock' = IF plock = c THEN Nobody ELSE plock
  /\ IF pgcall[c].pc = "running" THEN GiveBack(c) ELSE UNCHANGED pools
  /\ UNCHANGED db

-----------------------------------------------------------------------------
(* psycopg_pool, and the database.                                         *)

Becomes(p, s, is) ==
  /\ pools' = [pools EXCEPT ![p][s].is = is]
  /\ UNCHANGED <<db, plock, pgcall>>

Grows(p, s) ==
  /\ \E c \in PgCalls : pgcall[c].pc = "waiting" /\ pgcall[c].pool = p
  /\ ~HasSlot(p, {"idle", "connecting", "paused"})
  /\ pools[p][s].is = "none" /\ Becomes(p, s, "connecting")

Connects(p, s) ==
  /\ pools[p][s].is = "connecting"
  /\ Becomes(p, s, IF db.is = "up" THEN "idle" ELSE "paused")

\* The pause is over: another try, or, after five minutes of them, none.
PauseEnds(p, s) ==
  /\ pools[p][s].is = "paused"
  /\ \E is \in {"connecting", "none"} : Becomes(p, s, is)

\* A change of the database ends the connections it had.
Changes ==
  /\ db.changes < MaxChanges
  /\ \E is \in Database \ {db.is} : db' = [is |-> is, changes |-> db.changes + 1]
  /\ pools' = [p \in DOMAIN pools |-> [s \in Slots |->
                 [pools[p][s] EXCEPT !.dead = pools[p][s].is \in Connected]]]
  /\ UNCHANGED <<plock, pgcall>>

PoolNext ==
  \/ \E c \in PgCalls :
       \/ GetPool(c) \/ OpenPool(c) \/ RunStatement(c) \/ WaitEnds(c) \/ Probe(c)
       \/ Connect(c) \/ Stopped(c)
       \/ \E s \in Slots : Take(c, s)
  \/ \E p \in DOMAIN pools, s \in Slots : Grows(p, s) \/ Connects(p, s) \/ PauseEnds(p, s)
  \/ Changes

PoolSpec == PoolInit /\ [][PoolNext]_pvars

-----------------------------------------------------------------------------
Pooled == {at \in (DOMAIN pools) \X Slots : pools[at[1]][at[2]].is \in Connected}

\* The pools have no more connections to the reader than max_pool, whoever calls first and
\* whoever is stopped meanwhile, and none is lost to a call that has ended (pg.py:20-22,
\* 238-252).  A call that asks why its wait ran out makes one more, of its own.
ReaderIsCapped ==
  /\ Cardinality(Pooled) <= MaxPool
  /\ \A p \in DOMAIN pools, s \in Slots :
       pools[p][s].is = "held" => pgcall[pools[p][s].by].pc = "running"

Diagnosis(c) ==
  CASE pgcall[c].said = "saturated" -> db.is = "up" /\ pgcall[c].busy
    [] pgcall[c].said = "no route" -> db.is = "unroutable"
    [] pgcall[c].said = "real error" -> db.is = "refusing"
    [] OTHER -> TRUE

\* A wait that ran out is told from its cause, as long as the database has not changed since
\* the call began and no failed connect was still paused then (pg.py:343-371).
SteadyDiagnosisIsTrue ==
  \A c \in PgCalls :
    pgcall[c].clear /\ pgcall[c].began = db.changes => Diagnosis(c)

\* The pool keeps to its cap, whoever waits and whoever is stopped, and says why it is full
\* only where that is so.
PoolHolds == ReaderIsCapped /\ SteadyDiagnosisIsTrue
=============================================================================
