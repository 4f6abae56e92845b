---------------------------- MODULE PoolProofs ----------------------------
(***************************************************************************)
(* Proofs about Pool, for any number of calls and of connections.  The     *)
(* lock makes the first call that comes open the pool and the others wait, *)
(* so there is one; a connection that is held is held by the call that     *)
(* runs on it.  What a wait that ran out is told is true of the database   *)
(* as it was when the call began, because a failed connect leaves a pause  *)
(* only while the database is not up.                                      *)
(***************************************************************************)
EXTENDS Pool, SequenceTheorems, FiniteSetTheorems, TLAPS

SlotType ==
  [is : {"none", "connecting", "idle", "held", "paused"}, by : PgCalls \cup {Nobody},
   dead : BOOLEAN]

PgStages == {"new", "opening", "waiting", "running", "probing", "connecting", "done"}
AtPool == {"waiting", "running", "probing", "connecting"}
Sayings ==
  {"nothing", "rows", "no relation", "timed out", "error", "no route", "saturated", "real error"}

\* What is said of a statement, or when the question is stopped.
Outcomes == {"nothing", "rows", "no relation", "timed out", "error"}

PgCallType ==
  [pc : PgStages, pool : Nat, slot : Nat, began : Nat, clear : BOOLEAN, busy : BOOLEAN,
   said : Sayings]

\* The database is as it was when the call began, and no connect was paused then.
Steady(c) ==
  pgcall[c].pc # "new" /\ pgcall[c].clear /\ pgcall[c].began = db.changes

\* Of a call that is steady: a pause is seen only while the database is not up, so a wait that
\* runs out while it is up runs out because all of the pool is held.
SteadyOK(c) ==
  /\ db.is = "up" /\ pools # <<>> => \A s \in Slots : pools[1][s].is # "paused"
  /\ pgcall[c].pc \in {"probing", "connecting"} /\ db.is = "up" => pgcall[c].busy
  /\ pgcall[c].pc = "connecting" => db.is # "unroutable"
  /\ Diagnosis(c)

PgOK(c) ==
  /\ pgcall[c].began <= db.changes
  /\ pgcall[c].pc = "opening" => plock = c
  /\ pgcall[c].pc \in AtPool => pgcall[c].pool = 1 /\ pools # <<>>
  /\ pgcall[c].pc = "running" =>
       /\ pgcall[c].slot \in Slots
       /\ pools[1][pgcall[c].slot].is = "held" /\ pools[1][pgcall[c].slot].by = c
  /\ pgcall[c].pc # "done" => pgcall[c].said = "nothing"
  /\ Steady(c) => SteadyOK(c)

\* A connection that is held is held by the call that runs on it.
HeldOK(s) ==
  pools # <<>> /\ pools[1][s].is = "held" =>
    /\ pools[1][s].by \in PgCalls
    /\ pgcall[pools[1][s].by].pc = "running" /\ pgcall[pools[1][s].by].slot = s

\* There is one pool at most, and while somebody opens it there is none.
PoolInv ==
  /\ db \in [is : Database, changes : Nat]
  /\ pools \in Seq([Slots -> SlotType]) /\ Len(pools) <= 1
  /\ plock \in PgCalls \cup {Nobody}
  /\ plock # Nobody => pgcall[plock].pc = "opening" /\ pools = <<>>
  /\ pgcall \in [PgCalls -> PgCallType]
  /\ \A s \in Slots : HeldOK(s)
  /\ \A c \in PgCalls : PgOK(c)

\* The one pool, where there is one.
LEMMA OnePool ==
  ASSUME PoolInv, pools # <<>>
  PROVE  /\ Len(pools) = 1 /\ DOMAIN pools = {1} /\ pools[1] \in [Slots -> SlotType]
<1>1. pools \in Seq([Slots -> SlotType]) /\ Len(pools) <= 1 /\ pools # <<>>
  BY DEF PoolInv
<1> DEFINE T == [Slots -> SlotType]
<1> HIDE DEF T
<1>2. Len(pools) \in Nat /\ Len(pools) # 0 /\ DOMAIN pools = 1..Len(pools)
  BY <1>1, EmptySeq DEF T
<1>3. Len(pools) = 1 /\ DOMAIN pools = {1}
  BY <1>1, <1>2
<1> QED
  BY <1>1, <1>3

\* A change of the one member of a sequence.
LEMMA OneChanges ==
  ASSUME NEW T, NEW seq \in Seq(T), Len(seq) = 1, NEW new \in T
  PROVE  /\ [seq EXCEPT ![1] = new] \in Seq(T) /\ Len([seq EXCEPT ![1] = new]) = 1
         /\ [seq EXCEPT ![1] = new][1] = new /\ [seq EXCEPT ![1] = new] # <<>>
OBVIOUS

\* The bounds of the pool.
LEMMA SlotsAre == MaxPool \in Nat \ {0} /\ Nobody \notin PgCalls /\ Slots = 1..MaxPool /\ 1 \in Slots
BY PoolAssumption DEF Slots

\* At the start no pool is open, nobody holds the lock and no call has begun.
LEMMA PoolInitial == PoolInit => PoolInv
<1> SUFFICES ASSUME PoolInit
             PROVE  PoolInv
  OBVIOUS
<1>1. \A c \in PgCalls :
        /\ pgcall[c] \in PgCallType /\ pgcall[c].pc = "new" /\ pgcall[c].said = "nothing"
        /\ pgcall[c].began = 0
  BY DEF PoolInit, PgCallType, PgStages, Sayings
<1>2. pgcall \in [PgCalls -> PgCallType]
  BY <1>1 DEF PoolInit
<1>3. pools = <<>> /\ plock = Nobody /\ db \in [is : Database, changes : {0}]
  BY DEF PoolInit
<1> QED
  BY <1>1, <1>2, <1>3 DEF PoolInv, HeldOK, PgOK, AtPool, Steady

\* A call goes on by itself, and the pool is as it was.
LEMMA CallStep ==
  ASSUME PoolInv, NEW c \in PgCalls, NEW new \in PgCallType,
         pgcall' = [pgcall EXCEPT ![c] = new], UNCHANGED <<db, pools>>,
         pgcall[c].pc # "running",
         plock' \in PgCalls \cup {Nobody},
         plock' # Nobody => pools = <<>> /\ pgcall'[plock'].pc = "opening",
         \A q \in PgCalls : q # c /\ pgcall[q].pc = "opening" => plock' = q,
         PgOK(c)'
  PROVE  PoolInv'
<1>1. /\ pgcall' \in [PgCalls -> PgCallType]
      /\ \A q \in PgCalls : q # c => pgcall'[q] = pgcall[q]
  BY DEF PoolInv
<1>2. \A s \in Slots : HeldOK(s)'
  <2> TAKE s \in Slots
  <2>1. HeldOK(s)
    BY DEF PoolInv
  <2> QED
    BY <1>1, <2>1 DEF HeldOK
<1>3. \A q \in PgCalls : PgOK(q)'
  <2> TAKE q \in PgCalls
  <2>1. CASE q = c
    BY <2>1
  <2>2. CASE q # c
    <3>1. PgOK(q) /\ pgcall'[q] = pgcall[q]
      BY <1>1, <2>2 DEF PoolInv
    <3> QED
      BY <2>2, <3>1 DEF PgOK, Steady, SteadyOK, Diagnosis
  <2> QED
    BY <2>1, <2>2
<1> QED
  BY <1>1, <1>2, <1>3 DEF PoolInv

\* A connection of the pool changes that no call holds.
LEMMA SlotStep ==
  ASSUME PoolInv, pools # <<>>, NEW s \in Slots,
         NEW is \in {"none", "connecting", "idle", "paused"},
         pools[1][s].is # "held", is = "paused" => db.is # "up",
         pools' = [pools EXCEPT ![1][s].is = is], UNCHANGED <<db, plock, pgcall>>
  PROVE  PoolInv'
<1> DEFINE old == pools[1]
           new == [old EXCEPT ![s].is = is]
<1>1. Len(pools) = 1 /\ DOMAIN pools = {1} /\ old \in [Slots -> SlotType]
      /\ pools \in Seq([Slots -> SlotType])
  BY OnePool DEF PoolInv
<1>2. pools' = [pools EXCEPT ![1] = new]
  OBVIOUS
<1>3. /\ new \in [Slots -> SlotType] /\ new[s].is = is
      /\ \A r \in Slots : r # s => new[r] = old[r]
  BY <1>1 DEF SlotType
<1> HIDE DEF new
<1>4. /\ pools' \in Seq([Slots -> SlotType]) /\ Len(pools') = 1 /\ pools'[1] = new /\ pools' # <<>>
  BY <1>1, <1>2, <1>3
<1>5. \A r \in Slots : HeldOK(r)'
  <2> TAKE r \in Slots
  <2>1. HeldOK(r)
    BY DEF PoolInv
  <2>2. CASE r = s
    BY <1>3, <1>4, <2>2 DEF HeldOK
  <2>3. CASE r # s
    BY <1>3, <1>4, <2>1, <2>3 DEF HeldOK
  <2> QED
    BY <2>2, <2>3
<1>6. \A c \in PgCalls : PgOK(c)'
  <2> TAKE c \in PgCalls
  <2>1. PgOK(c)
    BY DEF PoolInv
  <2>2. pgcall[c].pc = "running" => pgcall[c].slot # s
    BY <2>1 DEF PgOK
  <2>3. Steady(c) => /\ db.is = "up" => \A r \in Slots : new[r].is # "paused"
                     /\ pgcall[c].pc \in {"probing", "connecting"} /\ db.is = "up" => pgcall[c].busy
                     /\ pgcall[c].pc = "connecting" => db.is # "unroutable"
                     /\ Diagnosis(c)
    <3> SUFFICES ASSUME Steady(c)
                 PROVE  db.is = "up" => \A r \in Slots : new[r].is # "paused"
      BY <2>1 DEF PgOK, SteadyOK
    <3> QED
      BY <1>3, <2>1 DEF PgOK, SteadyOK
  <2>4. Steady(c)' => SteadyOK(c)'
    BY <1>4, <2>3 DEF Steady, SteadyOK, Diagnosis
  <2> QED
    BY <1>3, <1>4, <2>1, <2>2, <2>4 DEF PgOK
<1> QED
  BY <1>4, <1>5, <1>6 DEF PoolInv

\* A call ends that ran on a connection, which goes back to the pool.
LEMMA LeaveStep ==
  ASSUME PoolInv, NEW c \in PgCalls, pgcall[c].pc = "running", GiveBack(c),
         NEW what \in Outcomes, Says(c, what),
         UNCHANGED <<db, plock>>
  PROVE  PoolInv'
<1> DEFINE s == pgcall[c].slot
           old == pools[1]
           slot == Slot(IF old[s].dead THEN "connecting" ELSE "idle", Nobody, FALSE)
           new == [old EXCEPT ![s] = slot]
           said == [pgcall[c] EXCEPT !.pc = "done", !.said = what]
<1>13. db' = db /\ plock' = plock
  OBVIOUS
<1>0. /\ pgcall[c].pool = 1 /\ pools # <<>> /\ s \in Slots
      /\ old[s].is = "held" /\ old[s].by = c
  BY DEF PoolInv, PgOK, AtPool
<1>1. Len(pools) = 1 /\ DOMAIN pools = {1} /\ old \in [Slots -> SlotType]
      /\ pools \in Seq([Slots -> SlotType])
  BY <1>0, OnePool DEF PoolInv
<1>2. pools' = [pools EXCEPT ![1] = new]
  BY <1>0 DEF GiveBack
<1>3. /\ slot \in SlotType /\ slot.is \in {"connecting", "idle"}
  BY DEF Slot, SlotType
<1> HIDE DEF slot
<1>4. /\ new \in [Slots -> SlotType] /\ new[s] = slot
      /\ \A r \in Slots : r # s => new[r] = old[r]
  BY <1>0, <1>1, <1>3
<1> HIDE DEF new
<1>5. /\ pools' \in Seq([Slots -> SlotType]) /\ Len(pools') = 1 /\ pools'[1] = new /\ pools' # <<>>
  BY <1>1, <1>2, <1>4, OneChanges
<1>6. pgcall[c] \in PgCallType /\ pgcall \in [PgCalls -> PgCallType]
  BY DEF PoolInv
<1>7. /\ said \in PgCallType /\ said.pc = "done" /\ said.said = what
      /\ said.began = pgcall[c].began /\ said.clear = pgcall[c].clear
  BY <1>6 DEF PgCallType, PgStages, Sayings, Outcomes
<1>8. pgcall' = [pgcall EXCEPT ![c] = said]
  BY DEF Says
<1> HIDE DEF said
<1>9. /\ pgcall' \in [PgCalls -> PgCallType] /\ pgcall'[c] = said
      /\ \A q \in PgCalls : q # c => pgcall'[q] = pgcall[q]
  BY <1>6, <1>7, <1>8
<1>10. \A r \in Slots : HeldOK(r)'
  <2> TAKE r \in Slots
  <2>1. HeldOK(r)
    BY DEF PoolInv
  <2>2. CASE r = s
    BY <1>3, <1>4, <1>5, <2>2 DEF HeldOK
  <2>3. CASE r # s
    <3>1. new[r] = old[r]
      BY <1>4, <2>3
    <3>2. new[r].is = "held" => /\ old[r].by \in PgCalls /\ pgcall[old[r].by].pc = "running"
                                /\ pgcall[old[r].by].slot = r
      BY <1>0, <2>1, <3>1 DEF HeldOK
    <3>3. new[r].is = "held" => old[r].by # c
      BY <2>3, <3>2
    <3> QED
      BY <1>5, <1>9, <3>1, <3>2, <3>3 DEF HeldOK
  <2> QED
    BY <2>2, <2>3
<1>11. \A q \in PgCalls : PgOK(q)'
  <2> TAKE q \in PgCalls
  <2>0. PgOK(q)
    BY DEF PoolInv
  <2>3. Steady(q) /\ db.is = "up" => \A r \in Slots : new[r].is # "paused"
    <3> SUFFICES ASSUME Steady(q), db.is = "up", NEW r \in Slots
                 PROVE  new[r].is # "paused"
      OBVIOUS
    <3>1. old[r].is # "paused"
      BY <1>0, <2>0 DEF PgOK, SteadyOK
    <3> QED
      BY <1>3, <1>4, <3>1
  <2>1. CASE q = c
    <3>1. Steady(c)' => Steady(c)
      BY <1>7, <1>9, <1>13 DEF Steady
    <3>2. Diagnosis(c)'
      BY <1>7, <1>9 DEF Diagnosis, Outcomes
    <3>3. Steady(c)' => SteadyOK(c)'
      BY <1>5, <1>7, <1>9, <2>1, <2>3, <3>1, <3>2 DEF SteadyOK
    <3>4. pgcall[c].began <= db.changes
      BY <2>0, <2>1 DEF PgOK
    <3> QED
      BY <1>7, <1>9, <2>1, <3>3, <3>4 DEF PgOK, AtPool
  <2>2. CASE q # c
    <3>1. pgcall'[q] = pgcall[q]
      BY <1>9, <2>2
    <3>2. Steady(q)' => SteadyOK(q)'
      <4> SUFFICES ASSUME Steady(q)'
                   PROVE  SteadyOK(q)'
        OBVIOUS
      <4>1. Steady(q)
        BY <1>13, <3>1 DEF Steady
      <4>2. SteadyOK(q)
        BY <2>0, <4>1 DEF PgOK
      <4>3. Diagnosis(q)'
        BY <3>1, <4>2 DEF SteadyOK, Diagnosis
      <4> QED
        BY <1>5, <2>3, <3>1, <4>1, <4>2, <4>3 DEF SteadyOK
    <3>3. pgcall[q].pc = "running" => pgcall[q].slot # s
      BY <1>0, <2>0, <2>2 DEF PgOK
    <3> QED
      BY <1>4, <1>5, <2>0, <3>1, <3>2, <3>3 DEF PgOK
  <2> QED
    BY <2>1, <2>2
<1>12. plock' # Nobody => pgcall'[plock'].pc = "opening" /\ pools' = <<>>
  BY <1>0 DEF PoolInv
<1> QED
  BY <1>5, <1>9, <1>10, <1>11, <1>12, <1>13 DEF PoolInv

\* A call takes a connection.
LEMMA TakeStep == ASSUME PoolInv, NEW c \in PgCalls, NEW s \in Slots, Take(c, s) PROVE PoolInv'
<1> DEFINE old == pools[1]
           slot == [old[s] EXCEPT !.is = "held", !.by = c]
           new == [old EXCEPT ![s] = slot]
           taken == [pgcall[c] EXCEPT !.pc = "running", !.slot = s]
<1>0. /\ pgcall[c].pc = "waiting" /\ pgcall[c].pool = 1 /\ pools # <<>> /\ old[s].is = "idle"
      /\ pgcall[c].said = "nothing" /\ pgcall[c].began <= db.changes
  BY DEF Take, PoolInv, PgOK, AtPool
<1>1. Len(pools) = 1 /\ DOMAIN pools = {1} /\ old \in [Slots -> SlotType]
      /\ pools \in Seq([Slots -> SlotType])
  BY <1>0, OnePool DEF PoolInv
<1>2. pools' = [pools EXCEPT ![1] = new] /\ UNCHANGED <<db, plock>>
  BY <1>0, <1>1 DEF Take
<1>3. /\ slot \in SlotType /\ slot.is = "held" /\ slot.by = c
  BY <1>1 DEF SlotType
<1> HIDE DEF slot
<1>4. /\ new \in [Slots -> SlotType] /\ new[s] = slot
      /\ \A r \in Slots : r # s => new[r] = old[r]
  BY <1>0, <1>1, <1>3
<1> HIDE DEF new
<1>5. /\ pools' \in Seq([Slots -> SlotType]) /\ Len(pools') = 1 /\ pools'[1] = new /\ pools' # <<>>
  BY <1>1, <1>2, <1>4, OneChanges
<1>6. pgcall[c] \in PgCallType /\ pgcall \in [PgCalls -> PgCallType] /\ s \in Nat
  BY SlotsAre DEF PoolInv
<1>7. /\ taken \in PgCallType /\ taken.pc = "running" /\ taken.said = "nothing" /\ taken.pool = 1
      /\ taken.began = pgcall[c].began /\ taken.clear = pgcall[c].clear /\ taken.slot = s
  BY <1>0, <1>6 DEF PgCallType, PgStages
<1>8. pgcall' = [pgcall EXCEPT ![c] = taken]
  BY DEF Take
<1> HIDE DEF taken
<1>9. /\ pgcall' \in [PgCalls -> PgCallType] /\ pgcall'[c] = taken
      /\ \A q \in PgCalls : q # c => pgcall'[q] = pgcall[q]
  BY <1>6, <1>7, <1>8
<1>10. \A r \in Slots : HeldOK(r)'
  <2> TAKE r \in Slots
  <2>1. HeldOK(r)
    BY DEF PoolInv
  <2>2. CASE r = s
    BY <1>3, <1>4, <1>5, <1>7, <1>9, <2>2 DEF HeldOK
  <2>3. CASE r # s
    <3>1. new[r] = old[r]
      BY <1>4, <2>3
    <3>2. new[r].is = "held" => /\ old[r].by \in PgCalls /\ pgcall[old[r].by].pc = "running"
                                /\ pgcall[old[r].by].slot = r
      BY <1>0, <2>1, <3>1 DEF HeldOK
    <3>3. new[r].is = "held" => old[r].by # c
      BY <1>0, <3>2
    <3> QED
      BY <1>5, <1>9, <3>1, <3>2, <3>3 DEF HeldOK
  <2> QED
    BY <2>2, <2>3
<1>11. \A q \in PgCalls : PgOK(q)'
  <2> TAKE q \in PgCalls
  <2>0. PgOK(q)
    BY DEF PoolInv
  <2>3. Steady(q) /\ db.is = "up" => \A r \in Slots : new[r].is # "paused"
    <3> SUFFICES ASSUME Steady(q), db.is = "up", NEW r \in Slots
                 PROVE  new[r].is # "paused"
      OBVIOUS
    <3>1. old[r].is # "paused"
      BY <1>0, <2>0 DEF PgOK, SteadyOK
    <3> QED
      BY <1>3, <1>4, <3>1
  <2>1. CASE q = c
    <3>1. Steady(c)' => Steady(c)
      BY <1>0, <1>2, <1>7, <1>9 DEF Steady
    <3>2. Diagnosis(c)'
      BY <1>7, <1>9 DEF Diagnosis
    <3>3. Steady(c)' => SteadyOK(c)'
      BY <1>2, <1>5, <1>7, <1>9, <2>1, <2>3, <3>1, <3>2 DEF SteadyOK
    <3> QED
      BY <1>0, <1>2, <1>3, <1>4, <1>5, <1>7, <1>9, <2>1, <3>3 DEF PgOK, AtPool
  <2>2. CASE q # c
    <3>1. pgcall'[q] = pgcall[q]
      BY <1>9, <2>2
    <3>2. Steady(q)' => SteadyOK(q)'
      <4> SUFFICES ASSUME Steady(q)'
                   PROVE  SteadyOK(q)'
        OBVIOUS
      <4>1. Steady(q)
        BY <1>2, <3>1 DEF Steady
      <4>2. SteadyOK(q)
        BY <2>0, <4>1 DEF PgOK
      <4>3. Diagnosis(q)'
        BY <1>2, <3>1, <4>2 DEF SteadyOK, Diagnosis
      <4> QED
        BY <1>2, <1>5, <2>3, <3>1, <4>1, <4>2, <4>3 DEF SteadyOK
    <3>3. pgcall[q].pc = "running" => pgcall[q].slot # s
      BY <1>0, <2>0, <2>2 DEF PgOK
    <3> QED
      BY <1>2, <1>4, <1>5, <2>0, <3>1, <3>2, <3>3 DEF PgOK
  <2> QED
    BY <2>1, <2>2
<1>12. plock' # Nobody => pgcall'[plock'].pc = "opening" /\ pools' = <<>>
  BY <1>0, <1>2 DEF PoolInv
<1> QED
  BY <1>2, <1>5, <1>9, <1>10, <1>11, <1>12 DEF PoolInv

\* A call comes, when nobody opens the pool.
LEMMA GetPoolStep == ASSUME PoolInv, NEW c \in PgCalls, GetPool(c) PROVE PoolInv'
<1> DEFINE n == Len(pools)
           clear == Clear(n)
           new == [pgcall[c] EXCEPT !.pc = IF pools = <<>> THEN "opening" ELSE "waiting",
                                    !.pool = n, !.began = db.changes, !.clear = clear]
<1>0. /\ pgcall[c].pc = "new" /\ plock = Nobody /\ pgcall[c].said = "nothing"
      /\ pgcall[c] \in PgCallType /\ db \in [is : Database, changes : Nat]
  BY DEF GetPool, PoolInv, PgOK
<1>1. pgcall' = [pgcall EXCEPT ![c] = new] /\ UNCHANGED <<db, pools>>
  BY DEF GetPool
<1>2. plock' = IF pools = <<>> THEN c ELSE Nobody
  BY DEF GetPool
<1>3. n \in Nat /\ (pools # <<>> => n = 1)
  BY OnePool DEF PoolInv
<1>4. clear \in BOOLEAN
  BY DEF Clear, HasSlot
<1>5. clear /\ pools # <<>> => \A s \in Slots : pools[1][s].is # "paused"
  <2> SUFFICES ASSUME Clear(n), pools # <<>>
               PROVE  \A s \in Slots : pools[1][s].is # "paused"
    OBVIOUS
  <2>1. n = 1
    BY <1>3
  <2> HIDE DEF n
  <2> QED
    BY <2>1 DEF Clear, HasSlot
<1> HIDE DEF n, clear
<1>6. /\ new \in PgCallType /\ new.pc = (IF pools = <<>> THEN "opening" ELSE "waiting")
      /\ new.pool = n /\ new.began = db.changes /\ new.clear = clear /\ new.said = "nothing"
  BY <1>0, <1>3, <1>4 DEF PgCallType, PgStages
<1> HIDE DEF new
<1>7. pgcall'[c] = new
  BY <1>1 DEF PoolInv
<1>8. PgOK(c)'
  <2>1. Diagnosis(c)'
    BY <1>6, <1>7 DEF Diagnosis
  <2>2. Steady(c)' => SteadyOK(c)'
    BY <1>1, <1>5, <1>6, <1>7, <2>1 DEF Steady, SteadyOK
  <2>3. db'.changes = db.changes /\ db.changes <= db.changes
    BY <1>0, <1>1
  <2> QED
    BY <1>1, <1>2, <1>3, <1>6, <1>7, <2>2, <2>3 DEF PgOK, AtPool
<1>9. \A q \in PgCalls : pgcall[q].pc # "opening"
  BY <1>0, SlotsAre DEF PoolInv, PgOK
<1>10. plock' # Nobody => pools = <<>> /\ pgcall'[plock'].pc = "opening"
  BY <1>2, <1>6, <1>7
<1> QED
  BY <1>0, <1>1, <1>2, <1>6, <1>8, <1>9, <1>10, CallStep

\* The pool is open, and empty.
LEMMA OpenPoolStep == ASSUME PoolInv, NEW c \in PgCalls, OpenPool(c) PROVE PoolInv'
<1> DEFINE fresh == [s \in Slots |-> Slot("none", Nobody, FALSE)]
           k == Len(pools')
           new == [pgcall[c] EXCEPT !.pc = "waiting", !.pool = k]
<1>0. /\ pgcall[c].pc = "opening" /\ plock = c /\ plock # Nobody /\ pools = <<>>
      /\ pgcall[c].said = "nothing" /\ pgcall[c].began <= db.changes
      /\ pgcall[c] \in PgCallType
  BY SlotsAre DEF OpenPool, PoolInv, PgOK
<1>1. /\ pools' = <<fresh>> /\ plock' = Nobody /\ db' = db
      /\ pgcall' = [pgcall EXCEPT ![c] = new]
  <2>1. pools' = Append(pools, fresh) /\ plock' = Nobody /\ db' = db
        /\ pgcall' = [pgcall EXCEPT ![c] = new]
    BY DEF OpenPool
  <2> HIDE DEF fresh
  <2>2. Append(<<>>, fresh) = <<fresh>>
    OBVIOUS
  <2> QED
    BY <1>0, <2>1, <2>2
<1>2. fresh \in [Slots -> SlotType] /\ \A s \in Slots : fresh[s].is = "none"
  BY DEF Slot, SlotType
<1> HIDE DEF fresh
<1>3. pools' \in Seq([Slots -> SlotType]) /\ Len(pools') = 1 /\ pools'[1] = fresh /\ pools' # <<>>
  BY <1>1, <1>2
<1>4. /\ new \in PgCallType /\ new.pc = "waiting" /\ new.pool = 1 /\ new.said = "nothing"
      /\ new.began = pgcall[c].began /\ new.clear = pgcall[c].clear
  <2>1. k = 1
    BY <1>3
  <2> HIDE DEF k
  <2> QED
    BY <1>0, <2>1 DEF PgCallType, PgStages
<1> HIDE DEF new
<1>5. /\ pgcall' \in [PgCalls -> PgCallType] /\ pgcall'[c] = new
      /\ \A q \in PgCalls : q # c => pgcall'[q] = pgcall[q]
  BY <1>1, <1>4 DEF PoolInv
<1>6. \A s \in Slots : HeldOK(s)'
  BY <1>2, <1>3 DEF HeldOK
<1>7. \A q \in PgCalls : PgOK(q)'
  <2> TAKE q \in PgCalls
  <2>1. CASE q = c
    <3>1. Diagnosis(c)'
      BY <1>4, <1>5 DEF Diagnosis
    <3>2. SteadyOK(c)'
      BY <1>2, <1>3, <1>4, <1>5, <3>1 DEF SteadyOK
    <3> QED
      BY <1>0, <1>1, <1>3, <1>4, <1>5, <2>1, <3>2 DEF PgOK, AtPool
  <2>2. CASE q # c
    <3>1. pgcall'[q] = pgcall[q] /\ PgOK(q) /\ pgcall[q].pc \notin AtPool /\ pgcall[q].pc # "opening"
      BY <1>0, <1>5, <2>2 DEF PoolInv, PgOK
    <3>2. Steady(q)' => Steady(q)
      BY <1>1, <3>1 DEF Steady
    <3>3. Steady(q)' => SteadyOK(q)'
      BY <1>1, <1>2, <1>3, <3>1, <3>2 DEF PgOK, SteadyOK, Diagnosis
    <3> QED
      BY <1>1, <3>1, <3>3 DEF PgOK, AtPool
  <2> QED
    BY <2>1, <2>2
<1> QED
  BY <1>1, <1>3, <1>5, <1>6, <1>7 DEF PoolInv

\* A call that waits, probes or connects goes on, with what it says being true where it is steady.
LEMMA OnStep ==
  ASSUME PoolInv, NEW c \in PgCalls, pgcall[c].pc \in {"waiting", "probing", "connecting"},
         NEW new \in PgCallType, pgcall' = [pgcall EXCEPT ![c] = new],
         new.began = pgcall[c].began, new.clear = pgcall[c].clear, new.pool = pgcall[c].pool,
         new.pc \in {"probing", "connecting", "done"}, new.pc # "done" => new.said = "nothing",
         UNCHANGED <<db, pools, plock>>,
         Steady(c) =>
           /\ new.pc # "done" /\ db.is = "up" => new.busy
           /\ new.pc = "connecting" => db.is # "unroutable"
           /\ Diagnosis(c)'
  PROVE  PoolInv'
<1>1. pgcall'[c] = new /\ PgOK(c) /\ db' = db /\ pools' = pools /\ plock' = plock
  BY DEF PoolInv
<1>2. Steady(c)' => Steady(c)
  BY <1>1 DEF Steady
<1>3. Steady(c)' => SteadyOK(c)'
  <2>1. Steady(c) => SteadyOK(c)
    BY <1>1 DEF PgOK
  <2> QED
    BY <1>1, <1>2, <2>1 DEF SteadyOK
<1>4. PgOK(c)'
  BY <1>1, <1>3 DEF PgOK, AtPool
<1>5. /\ plock' \in PgCalls \cup {Nobody}
      /\ plock' # Nobody => pools = <<>> /\ pgcall'[plock'].pc = "opening"
      /\ \A q \in PgCalls : q # c /\ pgcall[q].pc = "opening" => plock' = q
  <2>1. plock # Nobody => plock # c /\ plock \in PgCalls
    BY DEF PoolInv
  <2>2. \A q \in PgCalls : pgcall[q].pc = "opening" => plock = q
    BY DEF PoolInv, PgOK
  <2> QED
    BY <1>1, <2>1, <2>2 DEF PoolInv
<1> QED
  BY <1>1, <1>4, <1>5, CallStep

\* A wait runs out: what the pool looked like then is remembered for the diagnosis (pg.py:343).
LEMMA WaitEndsStep == ASSUME PoolInv, NEW c \in PgCalls, WaitEnds(c) PROVE PoolInv'
<1> DEFINE busy == AllHeld(pgcall[c].pool)
           new == [pgcall[c] EXCEPT !.pc = "probing", !.busy = busy]
<1>0. /\ pgcall[c].pc = "waiting" /\ Starved(pgcall[c].pool) /\ PgOK(c) /\ pgcall[c] \in PgCallType
      /\ pgcall' = [pgcall EXCEPT ![c] = new] /\ UNCHANGED <<db, pools, plock>>
  BY DEF WaitEnds, PoolInv
<1>1. pgcall[c].pool = 1 /\ pools # <<>> /\ pgcall[c].said = "nothing"
  BY <1>0 DEF PgOK, AtPool
<1>2. busy \in BOOLEAN
  BY DEF AllHeld
<1>3. Steady(c) /\ db.is = "up" => busy
  <2> SUFFICES ASSUME Steady(c), db.is = "up", NEW s \in Slots
               PROVE  pools[1][s].is = "held"
    BY <1>1 DEF AllHeld
  <2>1. pools[1][s].is # "paused" /\ \A r \in Slots : pools[1][r].is # "paused"
    BY <1>0, <1>1 DEF PgOK, SteadyOK
  <2>2. pools[1][s].is # "idle" /\ \A r \in Slots : pools[1][r].is # "connecting"
    BY <1>0, <1>1 DEF Starved, HasSlot
  <2>3. pools[1][s].is # "none"
    BY <1>0, <1>1, <2>1, <2>2 DEF Starved, HasSlot
  <2>4. pools[1][s].is \in {"none", "connecting", "idle", "held", "paused"}
    BY <1>1, OnePool DEF SlotType
  <2> QED
    BY <2>1, <2>2, <2>3, <2>4
<1> HIDE DEF busy
<1>4. /\ new \in PgCallType /\ new.pc = "probing" /\ new.busy = busy /\ new.said = "nothing"
      /\ new.began = pgcall[c].began /\ new.clear = pgcall[c].clear
      /\ new.pool = pgcall[c].pool
  BY <1>0, <1>1, <1>2 DEF PgCallType, PgStages
<1> HIDE DEF new
<1>5. pgcall'[c] = new
  BY <1>0 DEF PoolInv
<1>6. Diagnosis(c)'
  BY <1>4, <1>5 DEF Diagnosis
<1> QED
  BY <1>0, <1>3, <1>4, <1>6, OnStep

\* The probe of the route comes back (pg.py:343-362).
LEMMA ProbeStep == ASSUME PoolInv, NEW c \in PgCalls, Probe(c) PROVE PoolInv'
<1>0. /\ pgcall[c].pc = "probing" /\ PgOK(c) /\ pgcall[c] \in PgCallType
      /\ UNCHANGED <<db, pools, plock>> /\ pgcall[c].said = "nothing"
  BY DEF Probe, PoolInv, PgOK
<1>1. CASE db.is = "unroutable"
  <2> DEFINE new == [pgcall[c] EXCEPT !.pc = "done", !.said = "no route"]
  <2>1. pgcall' = [pgcall EXCEPT ![c] = new]
    BY <1>1 DEF Probe, Says
  <2>2. /\ new \in PgCallType /\ new.pc = "done" /\ new.said = "no route"
        /\ new.began = pgcall[c].began /\ new.clear = pgcall[c].clear
        /\ new.pool = pgcall[c].pool
    BY <1>0 DEF PgCallType, PgStages, Sayings
  <2> HIDE DEF new
  <2>3. pgcall'[c] = new
    BY <2>1 DEF PoolInv
  <2>4. Diagnosis(c)'
    BY <1>0, <1>1, <2>2, <2>3 DEF Diagnosis
  <2> QED
    BY <1>0, <2>1, <2>2, <2>4, OnStep
<1>2. CASE db.is # "unroutable"
  <2> DEFINE new == [pgcall[c] EXCEPT !.pc = "connecting"]
  <2>1. pgcall' = [pgcall EXCEPT ![c] = new]
    BY <1>2 DEF Probe
  <2>2. /\ new \in PgCallType /\ new.pc = "connecting" /\ new.said = "nothing"
        /\ new.began = pgcall[c].began /\ new.clear = pgcall[c].clear
        /\ new.pool = pgcall[c].pool /\ new.busy = pgcall[c].busy
    BY <1>0 DEF PgCallType, PgStages
  <2> HIDE DEF new
  <2>3. pgcall'[c] = new
    BY <2>1 DEF PoolInv
  <2>4. Diagnosis(c)'
    BY <2>2, <2>3 DEF Diagnosis
  <2>5. Steady(c) /\ db.is = "up" => pgcall[c].busy
    BY <1>0 DEF PgOK, SteadyOK
  <2> QED
    BY <1>0, <1>2, <2>1, <2>2, <2>4, <2>5, OnStep
<1> QED
  BY <1>1, <1>2

\* The probe's own connection comes back (pg.py:363-385).
LEMMA ConnectStep == ASSUME PoolInv, NEW c \in PgCalls, Connect(c) PROVE PoolInv'
<1> DEFINE what == IF db.is = "up" THEN "saturated" ELSE "real error"
           new == [pgcall[c] EXCEPT !.pc = "done", !.said = what]
<1>0. /\ pgcall[c].pc = "connecting" /\ PgOK(c) /\ pgcall[c] \in PgCallType
      /\ UNCHANGED <<db, pools, plock>> /\ pgcall' = [pgcall EXCEPT ![c] = new]
      /\ db.is \in Database
  BY DEF Connect, Says, PoolInv
<1>1. what \in Sayings
  BY DEF Sayings
<1>2. /\ new \in PgCallType /\ new.pc = "done" /\ new.said = what
      /\ new.began = pgcall[c].began /\ new.clear = pgcall[c].clear
      /\ new.pool = pgcall[c].pool /\ new.busy = pgcall[c].busy
  <2> HIDE DEF what
  <2> QED
    BY <1>0, <1>1 DEF PgCallType, PgStages
<1> HIDE DEF new
<1>3. pgcall'[c] = new
  BY <1>0 DEF PoolInv
<1>4. Steady(c) => Diagnosis(c)'
  <2> SUFFICES ASSUME Steady(c)
               PROVE  Diagnosis(c)'
    OBVIOUS
  <2>1. (db.is = "up" => pgcall[c].busy) /\ db.is # "unroutable"
    BY <1>0 DEF PgOK, SteadyOK
  <2>2. db.is # "up" => db.is = "refusing"
    BY <1>0, <2>1 DEF Database
  <2> QED
    BY <1>0, <1>2, <1>3, <2>1, <2>2 DEF Diagnosis
<1> QED
  BY <1>0, <1>2, <1>4, OnStep

\* A statement ends, however it ends, and its slot is given back.
LEMMA RunStatementStep == ASSUME PoolInv, NEW c \in PgCalls, RunStatement(c) PROVE PoolInv'
<1>1. \E what \in Outcomes : Says(c, what)
  BY DEF RunStatement, Outcomes
<1>2. pgcall[c].pc = "running" /\ GiveBack(c) /\ UNCHANGED <<db, plock>>
  BY DEF RunStatement
<1> QED
  BY <1>1, <1>2, LeaveStep

\* The question is stopped, wherever its call is.
LEMMA StoppedStep == ASSUME PoolInv, NEW c \in PgCalls, Stopped(c) PROVE PoolInv'
<1> DEFINE new == [pgcall[c] EXCEPT !.pc = "done", !.said = "nothing"]
<1>0. /\ pgcall[c].pc \notin {"new", "done"} /\ PgOK(c) /\ pgcall[c] \in PgCallType
      /\ db' = db /\ pgcall' = [pgcall EXCEPT ![c] = new]
      /\ plock' = (IF plock = c THEN Nobody ELSE plock)
      /\ plock \in PgCalls \cup {Nobody}
      /\ plock # Nobody => pgcall[plock].pc = "opening" /\ pools = <<>>
  BY DEF Stopped, Says, PoolInv
<1>1. CASE pgcall[c].pc = "running"
  <2>1. GiveBack(c) /\ Says(c, "nothing") /\ "nothing" \in Outcomes
    BY <1>1 DEF Stopped, Outcomes
  <2>2. plock # c
    BY <1>0, <1>1, SlotsAre
  <2> QED
    BY <1>0, <1>1, <2>1, <2>2, LeaveStep
<1>2. CASE pgcall[c].pc # "running"
  <2>1. pools' = pools
    BY <1>2 DEF Stopped
  <2>2. /\ new \in PgCallType /\ new.pc = "done" /\ new.said = "nothing"
        /\ new.began = pgcall[c].began /\ new.clear = pgcall[c].clear
    BY <1>0 DEF PgCallType, PgStages, Sayings
  <2> HIDE DEF new
  <2>3. pgcall'[c] = new /\ \A q \in PgCalls : q # c => pgcall'[q] = pgcall[q]
    BY <1>0 DEF PoolInv
  <2>4. Diagnosis(c)'
    BY <2>2, <2>3 DEF Diagnosis
  <2>5. Steady(c)' => Steady(c)
    BY <1>0, <2>2, <2>3 DEF Steady
  <2>6. Steady(c)' => SteadyOK(c)'
    BY <1>0, <2>1, <2>2, <2>3, <2>4, <2>5 DEF PgOK, SteadyOK
  <2>7. PgOK(c)'
    BY <1>0, <2>1, <2>2, <2>3, <2>6 DEF PgOK, AtPool
  <2>8. \A q \in PgCalls : q # c /\ pgcall[q].pc = "opening" => plock' = q
    BY <1>0 DEF PoolInv, PgOK
  <2>9. plock' # Nobody => pools = <<>> /\ pgcall'[plock'].pc = "opening"
    BY <1>0, <2>3
  <2>10. plock' \in PgCalls \cup {Nobody}
    BY <1>0
  <2> QED
    BY <1>0, <1>2, <2>1, <2>2, <2>7, <2>8, <2>9, <2>10, CallStep
<1> QED
  BY <1>1, <1>2

\* A change of the database ends what the calls could know of it.
LEMMA ChangesStep == ASSUME PoolInv, Changes PROVE PoolInv'
<1> DEFINE seen(p) == [s \in Slots |-> [pools[p][s] EXCEPT !.dead = pools[p][s].is \in Connected]]
<1>0. /\ db.changes \in Nat /\ db' \in [is : Database, changes : Nat]
      /\ db'.changes = db.changes + 1 /\ UNCHANGED <<plock, pgcall>>
      /\ pools' = [p \in DOMAIN pools |-> seen(p)]
  BY DEF Changes, PoolInv
<1>1. \A c \in PgCalls : PgOK(c) /\ pgcall[c].began \in Nat
  BY DEF PoolInv, PgCallType
<1>2. \A c \in PgCalls : ~Steady(c)' /\ pgcall'[c].began <= db'.changes
  BY <1>0, <1>1 DEF PgOK, Steady
<1>3. CASE pools = <<>>
  <2>1. pools' = <<>>
    BY <1>0, <1>3
  <2>2. \A s \in Slots : HeldOK(s)'
    BY <2>1 DEF HeldOK
  <2>3. \A c \in PgCalls : PgOK(c)'
    BY <1>0, <1>1, <1>2, <1>3, <2>1 DEF PgOK, AtPool
  <2> QED
    BY <1>0, <1>3, <2>1, <2>2, <2>3 DEF PoolInv
<1>4. CASE pools # <<>>
  <2>1. Len(pools) = 1 /\ DOMAIN pools = {1} /\ pools[1] \in [Slots -> SlotType]
    BY <1>4, OnePool
  <2>2. /\ seen(1) \in [Slots -> SlotType]
        /\ \A s \in Slots : seen(1)[s].is = pools[1][s].is /\ seen(1)[s].by = pools[1][s].by
    <3> DEFINE old == pools[1]
               one == [s \in Slots |-> [old[s] EXCEPT !.dead = old[s].is \in Connected]]
    <3>1. \A s \in Slots : old[s] \in SlotType /\ (old[s].is \in Connected) \in BOOLEAN
      BY <2>1 DEF Connected
    <3> HIDE DEF old
    <3>2. \A s \in Slots : /\ one[s] \in SlotType /\ one[s].is = old[s].is
                            /\ one[s].by = old[s].by
      <4> TAKE s \in Slots
      <4> DEFINE dropped == old[s].is \in Connected
      <4>1. old[s] \in SlotType /\ dropped \in BOOLEAN /\ one[s] = [old[s] EXCEPT !.dead = dropped]
        BY <3>1
      <4> HIDE DEF dropped, one
      <4> QED
        BY <4>1 DEF SlotType
    <3>3. one \in [Slots -> SlotType]
      BY <3>2
    <3> QED
      BY <3>2, <3>3 DEF old
  <2>3. pools' = <<seen(1)>>
    BY <1>0, <2>1
  <2> HIDE DEF seen
  <2>4. pools' \in Seq([Slots -> SlotType]) /\ Len(pools') = 1 /\ pools'[1] = seen(1) /\ pools' # <<>>
    BY <2>2, <2>3
  <2>5. \A s \in Slots : HeldOK(s)'
    <3> TAKE s \in Slots
    <3>1. HeldOK(s)
      BY DEF PoolInv
    <3> QED
      BY <1>0, <1>4, <2>2, <2>4, <3>1 DEF HeldOK
  <2>6. \A c \in PgCalls : PgOK(c)'
    <3> TAKE c \in PgCalls
    <3>1. PgOK(c) /\ ~Steady(c)' /\ pgcall'[c].began <= db'.changes
      BY <1>1, <1>2
    <3> QED
      BY <1>0, <1>4, <2>2, <2>4, <3>1 DEF PgOK
  <2>7. plock' = Nobody
    BY <1>0, <1>4 DEF PoolInv
  <2> QED
    BY <1>0, <2>4, <2>5, <2>6, <2>7 DEF PoolInv
<1> QED
  BY <1>3, <1>4

\* Every step keeps the invariant.
LEMMA PoolStep == PoolInv /\ [PoolNext]_pvars => PoolInv'
<1> SUFFICES ASSUME PoolInv, [PoolNext]_pvars
             PROVE  PoolInv'
  OBVIOUS
<1>1. ASSUME NEW c \in PgCalls,
             \/ GetPool(c) \/ OpenPool(c) \/ RunStatement(c) \/ WaitEnds(c) \/ Probe(c)
             \/ Connect(c) \/ Stopped(c)
      PROVE  PoolInv'
  BY <1>1, GetPoolStep, OpenPoolStep, RunStatementStep, WaitEndsStep, ProbeStep, ConnectStep,
     StoppedStep
<1>2. ASSUME NEW c \in PgCalls, NEW s \in Slots, Take(c, s)
      PROVE  PoolInv'
  BY <1>2, TakeStep
<1>3. ASSUME NEW p \in DOMAIN pools, NEW s \in Slots, Grows(p, s) \/ Connects(p, s) \/ PauseEnds(p, s)
      PROVE  PoolInv'
  <2>1. pools # <<>> /\ p = 1
    <3>1. pools # <<>>
      OBVIOUS
    <3> QED
      BY <3>1, OnePool
  <2>2. /\ pools[1][s].is # "held"
        /\ \E is \in {"none", "connecting", "idle", "paused"} :
             Becomes(1, s, is) /\ (is = "paused" => db.is # "up")
    BY <1>3, <2>1 DEF Grows, Connects, PauseEnds
  <2> QED
    BY <2>1, <2>2, SlotStep DEF Becomes
<1>4. CASE Changes
  BY <1>4, ChangesStep
<1>5. CASE UNCHANGED pvars
  BY <1>5 DEF pvars, PoolInv, HeldOK, PgOK, Steady, SteadyOK, Diagnosis
<1> QED
  BY <1>1, <1>2, <1>3, <1>4, <1>5 DEF PoolNext

\* The pool keeps to its cap (pg.py:20-22, 238-252) and a wait that ran out is told from its cause
\* (pg.py:343-371), for any number of calls and of connections and however often the database
\* changes.
THEOREM PoolTheorem == PoolSpec => []PoolHolds
<1>1. ASSUME PoolInv
      PROVE  ReaderIsCapped
  <2>1. Cardinality(Pooled) <= MaxPool
    <3> DEFINE f == [at \in Pooled |-> at[2]]
    <3>1. \A at \in Pooled : at = <<1, at[2]>> /\ at[2] \in Slots
      <4> TAKE at \in Pooled
      <4>1. at \in (DOMAIN pools) \X Slots
        BY DEF Pooled
      <4>2. at[1] \in DOMAIN pools /\ at[2] \in Slots /\ at = <<at[1], at[2]>>
        BY <4>1
      <4>3. pools # <<>>
        BY <4>2
      <4> QED
        BY <1>1, <4>2, <4>3, OnePool
    <3>2. f \in Injection(Pooled, Slots)
      BY <3>1 DEF Injection, IsInjective
    <3>3. IsFiniteSet(Slots) /\ Cardinality(Slots) = MaxPool
      BY SlotsAre, FS_Interval
    <3> HIDE DEF f
    <3> QED
      BY <3>2, <3>3, FS_Injection DEF ExistsInjection
  <2>2. ASSUME NEW p \in DOMAIN pools, NEW s \in Slots, pools[p][s].is = "held"
        PROVE  pgcall[pools[p][s].by].pc = "running"
    <3>1. pools # <<>> /\ p = 1
      <4>1. pools # <<>>
        OBVIOUS
      <4> QED
        BY <1>1, <4>1, OnePool
    <3> QED
      BY <1>1, <2>2, <3>1 DEF PoolInv, HeldOK
  <2> QED
    BY <2>1, <2>2 DEF ReaderIsCapped
<1>2. ASSUME PoolInv
      PROVE  SteadyDiagnosisIsTrue
  <2> SUFFICES ASSUME NEW c \in PgCalls, pgcall[c].clear, pgcall[c].began = db.changes
               PROVE  Diagnosis(c)
    BY DEF SteadyDiagnosisIsTrue
  <2>1. PgOK(c)
    BY <1>2 DEF PoolInv
  <2>2. CASE pgcall[c].pc = "new"
    <3>1. pgcall[c].said = "nothing"
      BY <2>1, <2>2 DEF PgOK
    <3> QED
      BY <3>1 DEF Diagnosis
  <2>3. CASE pgcall[c].pc # "new"
    BY <2>1, <2>3 DEF PgOK, Steady, SteadyOK
  <2> QED
    BY <2>2, <2>3
<1> QED
  BY PoolInitial, PoolStep, <1>1, <1>2, PTL DEF PoolSpec, PoolHolds
=============================================================================
