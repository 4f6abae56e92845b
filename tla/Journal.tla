------------------------------ MODULE Journal ------------------------------
(***************************************************************************)
(* The append-only journals and what is read back of them: the audit log   *)
(* of a day (app/audit.py), and what the selector is told of an entry from *)
(* the last days of it (app/experience.py).                                *)
(*                                                                         *)
(* A file is the sequence of its writes.  A write ends with its newline,   *)
(* or was cut (by a full disk, or by the end of the process) in its text,  *)
(* inside one of the characters of its text that take several bytes        *)
(* (ensure_ascii=False), or just before the newline; what follows a cut is *)
(* on the same line.                                                       *)
(* The handlers run on one thread and await nothing here, so a write and   *)
(* a reading of a whole file are one step each.                            *)
(***************************************************************************)
EXTENDS Integers, Sequences, FiniteSets, FiniteSetsExt

CONSTANTS
  MaxDay,           \* bound: days
  MaxRecords,       \* bound: records of any kind
  MaxCuts,          \* bound: writes that are cut
  Lookback,         \* LOOKBACK_DAYS
  MinObservations   \* MIN_OBSERVATIONS

ASSUME JournalAssumption ==
  /\ {MaxDay, MaxRecords, MaxCuts, Lookback} \subseteq Nat
  /\ MinObservations \in Nat \ {0}

VARIABLES
  day,         \* the day, in UTC
  serving,     \* is the process up?
  auditLog,    \* the file of each day, a sequence of writes [id, cut]
  records      \* history: the records that were ever begun, [day, kind, split, kept]

jvars == <<day, serving, auditLog, records>>

JDays == 0..MaxDay

\* What a record says: of a question, or of a call of the entry, which failed, returned
\* nothing, returned something, or succeeded before rows and chars were recorded.
CallKinds == {"failed", "empty", "data", "uncounted"}
Kinds == CallKinds \cup {"question"}

Cuts == {"none", "text", "character", "newline"}

JournalInit ==
  /\ day = 0 /\ serving = TRUE
  /\ auditLog = [d \in JDays |-> <<>>]
  /\ records = <<>>

-----------------------------------------------------------------------------
(* Reading.                                                                *)

\* The write is a line of its own, and the line is JSON.
Parses(file, i) ==
  /\ i > 1 => file[i - 1].cut = "none"
  /\ file[i].cut = "none" \/ (file[i].cut = "newline" /\ i = Len(file))

\* The records on the lines that parse.
Lines(file) == {file[i].id : i \in {i \in DOMAIN file : Parses(file, i)}}

\* Half a character is not UTF-8, wherever it stands in the file.
Decodes(file) == \A i \in DOMAIN file : file[i].cut # "character"

\* read_audit, all of whose lines fit into the view: the file is decoded, strictly, before a
\* line is looked at, and the error is the caller's.
Readable(file) == IF Decodes(file) THEN Lines(file) ELSE {}

\* collect: what cannot be decoded is replaced (errors="replace"), and str.splitlines also ends a
\* line at the line separators of Unicode, which json.dumps leaves in a record's text.
Collected ==
  {id \in UNION {Lines(auditLog[d]) : d \in {d \in JDays : d \in day - Lookback..day}} :
     ~records[id].split /\ records[id].kind \in CallKinds}

Counted(kinds) == Cardinality({id \in Collected : records[id].kind \in kinds})

AlwaysFails ==
  Counted(CallKinds) >= MinObservations /\ Counted({"failed"}) = Counted(CallKinds)

\* Mutant of AlwaysEmpty: what was not counted is empty.
AlwaysEmptyUncounted ==
  /\ Counted({"empty", "data", "uncounted"}) >= MinObservations
  /\ Counted({"failed", "data"}) = 0

AlwaysEmpty ==
  /\ Counted({"empty", "data"}) >= MinObservations
  /\ Counted({"failed", "data"}) = 0

\* hints: what the selector is told of the entry.
Hint == IF AlwaysFails THEN "always fails" ELSE IF AlwaysEmpty THEN "returns nothing" ELSE "none"

-----------------------------------------------------------------------------
(* Writing.                                                                *)

NextId == Len(records) + 1
CutsSoFar == {i \in DOMAIN records : ~records[i].kept}

\* Mutant of Written: no newline is written after the record.
WrittenBare(file, cut) ==
  Append(file, [id |-> NextId, cut |-> IF cut = "none" THEN "newline" ELSE cut])

Written(file, cut) == Append(file, [id |-> NextId, cut |-> cut])

Begun(kind, split, kept) ==
  records' = Append(records, [day |-> day, kind |-> kind, split |-> split, kept |-> kept])

\* audit_call and audit_question, through _write.
WriteRecord(kind, split) ==
  /\ serving /\ Len(records) < MaxRecords
  /\ auditLog' = [auditLog EXCEPT ![day] = Written(@, "none")]
  /\ Begun(kind, split, TRUE)
  /\ UNCHANGED <<day, serving>>

\* The disk is full, or the process ends, before the write is done.
Cut(kind, up) ==
  /\ serving /\ Len(records) < MaxRecords /\ Cardinality(CutsSoFar) < MaxCuts
  /\ \/ \E cut \in Cuts \ {"none"} : auditLog' = [auditLog EXCEPT ![day] = Written(@, cut)]
     \/ UNCHANGED auditLog
  /\ Begun(kind, FALSE, FALSE)
  /\ serving' = up
  /\ UNCHANGED day

JournalRestarts == ~serving /\ serving' = TRUE /\ UNCHANGED <<day, auditLog, records>>

NextDay ==
  /\ day < MaxDay /\ day' = day + 1
  /\ UNCHANGED <<serving, auditLog, records>>

JournalNext ==
  \/ \E kind \in Kinds, split \in BOOLEAN : WriteRecord(kind, split)
  \/ \E kind \in Kinds, up \in BOOLEAN : Cut(kind, up)
  \/ JournalRestarts \/ NextDay

JournalSpec == JournalInit /\ [][JournalNext]_jvars

-----------------------------------------------------------------------------
AuditView == UNION {Readable(auditLog[d]) : d \in JDays}
KeptRecords == {id \in DOMAIN records : records[id].kept}

\* A write that was cut costs the reader of hints the record it cut and at most the one after
\* it, which is appended to its half: whatever is written later, by this process or the next,
\* can be read back, and so can what was there before (audit.py:5-10, 56-59).  The admin's view
\* loses no more, unless a character was cut: then it loses that day, and no other
\* (audit.py:172-183).
CutsAreContained ==
  LET lost == KeptRecords \ UNION {Lines(auditLog[d]) : d \in JDays}
  IN /\ Cardinality(lost) <= Cardinality(CutsSoFar)
     /\ \A id \in lost : id - 1 \in CutsSoFar
     /\ \A id \in KeptRecords \ AuditView :
          \/ id \in lost
          \/ /\ ~Decodes(auditLog[records[id].day])
             /\ \E c \in CutsSoFar : records[c].day = records[id].day

\* A hint is never more than what happened: "always fails" stands on MIN_OBSERVATIONS
\* failures of the last days and on no success that its readers can see, "returns nothing" on
\* as many calls that are known to have returned nothing (experience.py:66-99).
HintsAreEarned ==
  LET Recent(kinds) ==
        {id \in KeptRecords : records[id].day \in day - Lookback..day /\ records[id].kind \in kinds}
      Hidden == {id \in KeptRecords : records[id].split \/ id - 1 \in CutsSoFar}
  IN /\ Hint = "always fails" =>
          /\ Cardinality({id \in DOMAIN records : records[id].kind = "failed"}) >= MinObservations
          /\ Recent({"empty", "data", "uncounted"}) \subseteq Hidden
     /\ Hint = "returns nothing" =>
          /\ Cardinality({id \in DOMAIN records : records[id].kind = "empty"}) >= MinObservations
          /\ Recent({"failed", "data"}) \subseteq Hidden
=============================================================================
