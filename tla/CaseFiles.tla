----------------------------- MODULE CaseFiles -----------------------------
(***************************************************************************)
(* The case files (app/casefiles.py): an investigation is remembered when  *)
(* it is answered, and a later question is shown the few that resemble it. *)
(*                                                                         *)
(* A text is the set of its distinctive words.  A row is written at the    *)
(* time it is recorded, so a later row is a newer one.                     *)
(***************************************************************************)
EXTENDS Integers, Sequences, FiniteSets

CONSTANTS
  CaseWords,      \* distinctive words
  CaseRuns,       \* what investigations ran, sequences of functions
  MaxCases,       \* MAX_CASES
  MaxAge,         \* MAX_AGE_DAYS
  HalfAge,        \* the age at which a case counts half (30 days)
  MaxRows,        \* rows that are looked at (400)
  MaxCaseDay,     \* bound: days
  MaxKept         \* bound: investigations

ASSUME CaseFilesAssumption ==
  /\ {MaxCases, MaxAge, MaxCaseDay, MaxKept} \subseteq Nat
  /\ {HalfAge, MaxRows} \subseteq Nat \ {0}
  /\ IsFiniteSet(CaseWords)
  /\ \A run \in CaseRuns : run \in Seq({run[i] : i \in DOMAIN run})

VARIABLES
  caseDay,   \* the day
  cases      \* the table, in the order of ts: [day, words, functions]

cvars == <<caseDay, cases>>

CaseFilesInit == caseDay = 0 /\ cases = <<>>

-----------------------------------------------------------------------------
(* similar.                                                                *)

Age(id) == caseDay - cases[id].day

\* Mutant of Rows: the order of the query is left out, so the limit takes the oldest.
RowsOldest ==
  {id \in DOMAIN cases : Age(id) <= MaxAge
     /\ Cardinality({o \in DOMAIN cases : o < id /\ Age(o) <= MaxAge}) < MaxRows}

\* WHERE ts >= cutoff ORDER BY ts DESC LIMIT 400.
Rows ==
  {id \in DOMAIN cases : Age(id) <= MaxAge /\ Len(cases) - id < MaxRows}

Overlap(id, question) == Cardinality(question \cap cases[id].words)

Eligible(question) == {id \in Rows : Overlap(id, question) >= 2}

\* The sort is by overlap / (1 + age / 30), the greatest first; it is stable, over rows that
\* come newest first.
Better(a, b, question) ==
  LET worth == Overlap(a, question) * (HalfAge + Age(b))
      other == Overlap(b, question) * (HalfAge + Age(a))
  IN worth > other \/ (worth = other /\ a > b)

Similar(question) ==
  {id \in Eligible(question) :
     Cardinality({o \in Eligible(question) : Better(o, id, question)}) < MaxCases}

-----------------------------------------------------------------------------
(* An answered question records itself, if anything was run for it: the functions are kept *)
(* once each, in the order of their first use.                             *)

Investigated(answered, functions) == answered /\ functions # <<>>

Distinct(functions) ==
  LET first == {i \in DOMAIN functions : functions[i] \notin {functions[j] : j \in 1..i - 1}}
      nth(k) == CHOOSE i \in first : Cardinality({j \in first : j <= i}) = k
  IN [k \in 1..Cardinality(first) |-> functions[nth(k)]]

RecordCase(words, functions, answered) ==
  /\ Investigated(answered, functions) /\ Len(cases) < MaxKept
  /\ cases' = Append(cases, [day |-> caseDay, words |-> words, functions |-> Distinct(functions)])
  /\ UNCHANGED caseDay

CaseDayPasses == caseDay < MaxCaseDay /\ caseDay' = caseDay + 1 /\ UNCHANGED cases

CaseFilesNext ==
  \/ \E words \in {w \in SUBSET CaseWords : Cardinality(w) >= 2},
        functions \in CaseRuns, answered \in BOOLEAN :
       RecordCase(words, functions, answered)
  \/ CaseDayPasses

CaseFilesSpec == CaseFilesInit /\ [][CaseFilesNext]_cvars

-----------------------------------------------------------------------------
\* A question is shown at most MAX_CASES cases, each with the functions that were run for it,
\* recent enough and about two of its words; and no case that is left out is both newer than
\* one that is shown and about at least as many of its words (casefiles.py:112-151).
PrecedentsAreFair ==
  \A question \in SUBSET CaseWords :
    LET shown == Similar(question)
    IN /\ Cardinality(shown) <= MaxCases
       /\ \A id \in shown :
            Age(id) <= MaxAge /\ Overlap(id, question) >= 2 /\ cases[id].functions # <<>>
       /\ \A id \in shown, o \in DOMAIN cases \ shown :
            o > id => Overlap(o, question) < Overlap(id, question)
=============================================================================
