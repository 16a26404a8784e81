--------------------------- MODULE LegacyTransfer ---------------------------
(***************************************************************************)
(* The transfer of the legacy SQLite database to PostgreSQL                *)
(* (lorcana/db/transfer_sqlite.py): preflight, transfer and validation,    *)
(* run by operators while the old program may still write its file and     *)
(* Play Hub imports may already write the new database.                    *)
(*                                                                         *)
(* Three of the ten tables stand for all: events, the import attempts that *)
(* refer to them, and the sync states derived from both.  A file is told   *)
(* apart by its version, and so is its SHA-256.  A table is read at one    *)
(* version of those since the file was opened: it is opened as immutable,  *)
(* and SQLite may read any pages of it.  Left out: columns that are copied *)
(* as they are, batches, and the counts that preflight prints.             *)
(***************************************************************************)
EXTENDS Naturals, FiniteSets, Sequences

CONSTANTS
    LegacyEvents,   \* event ids
    Operators,      \* processes that run one of the three commands
    MaxVersions,    \* bound on the versions of the file
    MaxImports      \* bound on imports into the new database

ASSUME TransferAssumption ==
    /\ LegacyEvents \subseteq Nat /\ IsFiniteSet(Operators)
    /\ MaxVersions \in Nat \ {0} /\ MaxImports \in Nat

VARIABLES
    versions,       \* of the file, the last one is its content
    target,         \* committed rows, by table
    written,        \* rows of the transaction of each operator
    importCount,    \* how many imports there were
    command         \* what each operator runs

transferVars == <<versions, target, written, importCount, command>>

\* TRANSFER_TARGETS, in the order of _specs.
Tables == <<"events", "attempts", "states">>
Empty == [t \in {"events", "attempts", "states"} |-> {}]
TableNames == DOMAIN Empty

Modes == {"preflight", "transfer", "validate"}
CommandPC == {"idle", "open", "empty", "copy", "digest", "orphans", "rehash", "done"}
NoCommand == [pc |-> "idle", mode |-> "preflight", hash |-> 0, opened |-> 0, n |-> 1,
              expected |-> Empty, found |-> Empty]

TransferTypeOK ==
    /\ Len(versions) \in 1..MaxVersions
    /\ \A t \in TableNames, o \in Operators :
          \A r, s \in target[t] \cup written[o][t] : r.key = s.key => r = s
    /\ importCount \in 0..MaxImports
    /\ \A o \in Operators :
          /\ command[o].pc \in CommandPC /\ command[o].mode \in Modes
          /\ command[o].hash \in 0..MaxVersions /\ command[o].n \in 1..4

-----------------------------------------------------------------------------
(* The file: results_status of each event, and import_log.                 *)

Logged(e, s) == [event |-> e, status |-> s, error |-> s # "SUCCESS"]
File(form, statuses, log) == [form |-> form, statuses |-> statuses, log |-> log]
Current == versions[Len(versions)]
Hash == Len(versions)

Known(file) == {e \in LegacyEvents : file.statuses[e] # "none"}

\* Tables or columns are missing, or a timestamp or flag cannot be parsed.
HasSchema(file) == file.form # "tables"
Parses(file) == file.form # "values"

\* An event may have a status, or a log entry an event, that is not there.
Files == {File(f, s, l) :
            f \in {"good", "tables", "values"},
            s \in [LegacyEvents -> {"none", "NOT_ATTEMPTED", "ODD"}],
            l \in {<<>>} \cup {<<Logged(e, "FAILED")>> : e \in LegacyEvents}}

TransferInit ==
    /\ \E f \in Files : versions = <<f>>
    /\ target = Empty
    /\ written = [o \in Operators |-> Empty]
    /\ importCount = 0
    /\ command = [o \in Operators |-> NoCommand]

\* The old program discovers an event, or imports one.
OldProgramWrites ==
    /\ Len(versions) < MaxVersions
    /\ \E e \in LegacyEvents, s \in {"NOT_ATTEMPTED", "SUCCESS", "PARTIAL"} :
          /\ (s = "NOT_ATTEMPTED") = (e \notin Known(Current))
          /\ versions' = Append(versions,
                File(Current.form, [Current.statuses EXCEPT ![e] = s],
                     IF s = "NOT_ATTEMPTED" THEN Current.log
                     ELSE Append(Current.log, Logged(e, s))))
    /\ UNCHANGED <<target, written, importCount, command>>

-----------------------------------------------------------------------------
(* What the rows of a file become.  The keys of attempts are uuid5 of      *)
(* their place in the log.                                                 *)

Entry(key, e, data) == [key |-> key, event |-> e, data |-> data]

\* _normalize_import_status and _normalize_sync_state: other values raise.
Normalized == [NOT_ATTEMPTED |-> "pending", SUCCESS |-> "complete", FAILED |-> "failed",
               NO_RESULTS |-> "no_results", PARTIAL |-> "partial"]

\* The error of the newest entry, and only if the state is "failed".
LatestError(file, e) ==
    LET of == {i \in DOMAIN file.log : file.log[i].event = e}
    IN  /\ of # {} /\ file.statuses[e] = "FAILED"
        /\ file.log[CHOOSE i \in of : \A j \in of : j <= i].error

\* The tables that are copied column by column.
EventRow(e) == Entry(<<"event", e>>, e, "legacy")

StateRow(file, e) ==
    Entry(<<"event", e>>, e, <<Normalized[file.statuses[e]], LatestError(file, e)>>)

AttemptRow(file, i) ==
    Entry(<<"log", i>>, file.log[i].event, <<Normalized[file.log[i].status], file.log[i].error>>)

Transformable(file, t) ==
    CASE t = "events" -> Parses(file)
      [] t = "attempts" -> \A i \in DOMAIN file.log : file.log[i].status \in DOMAIN Normalized
      [] t = "states" -> \A e \in Known(file) : file.statuses[e] \in DOMAIN Normalized

Transformed(file, t) ==
    CASE t = "events" -> {EventRow(e) : e \in Known(file)}
      [] t = "attempts" -> {AttemptRow(file, i) : i \in DOMAIN file.log}
      [] t = "states" -> {StateRow(file, e) : e \in Known(file)}

-----------------------------------------------------------------------------
(* The new database.                                                       *)

Keys(rows) == {r.key : r \in rows}
Visible(o, t) == target[t] \cup written[o][t]

\* One import of an event by a worker: it waits for the rows of a transaction
\* that is not committed.
ImportCommits(e) ==
    /\ importCount < MaxImports
    /\ \A o \in Operators : <<"event", e>> \notin Keys(written[o]["events"])
    /\ importCount' = importCount + 1
    /\ target' =
          [events |-> {r \in target["events"] : r.event # e} \cup {Entry(<<"event", e>>, e, "imported")},
           attempts |-> target["attempts"] \cup
                           {Entry(<<"import", importCount>>, e, <<"complete", FALSE>>)},
           states |-> {r \in target["states"] : r.event # e} \cup
                         {Entry(<<"event", e>>, e, <<"complete", FALSE>>)}]
    /\ UNCHANGED <<versions, written, command>>

-----------------------------------------------------------------------------
(* The commands.                                                           *)

Goes(o, pc) == command' = [command EXCEPT ![o].pc = pc]

\* Any error: the transaction is rolled back.
Raises(o) ==
    /\ command' = [command EXCEPT ![o] = NoCommand]
    /\ written' = [written EXCEPT ![o] = Empty]
    /\ UNCHANGED <<versions, target, importCount>>

StartCommand(o, mode) ==
    /\ command[o].pc \in {"idle", "done"}
    /\ command' = [command EXCEPT ![o] = [NoCommand EXCEPT !.pc = "open", !.mode = mode,
                                                           !.hash = Hash]]
    /\ UNCHANGED <<versions, target, written, importCount>>

\* LegacySQLiteSource.preflight, with its foreign_key_check.
OrphanFree(file) == \A i \in DOMAIN file.log : file.log[i].event \in Known(file)

OpenSource(o) ==
    /\ command[o].pc = "open"
    /\ IF HasSchema(Current) /\ OrphanFree(Current)
       THEN /\ command' = [command EXCEPT ![o].opened = Hash, ![o].pc =
                             IF command[o].mode = "transfer" THEN "empty" ELSE "copy"]
            /\ UNCHANGED <<versions, target, written, importCount>>
       ELSE Raises(o)

\* _ensure_empty_target, a statement for each table.
EnsureEmpty(o) ==
    LET c == command[o]
    IN  /\ c.pc = "empty"
        /\ IF target[Tables[c.n]] # {} THEN Raises(o)
           ELSE /\ command' = [command EXCEPT
                     ![o].n = IF c.n = 3 THEN 1 ELSE c.n + 1,
                     ![o].pc = IF c.n = 3 THEN "copy" ELSE "empty"]
                /\ UNCHANGED <<versions, target, written, importCount>>

\* A row with a key that is there, or without its event.
Violates(o, t, rows) ==
    \/ Keys(rows) \cap Keys(Visible(o, t)) # {}
    \/ t # "events" /\ \E r \in rows : <<"event", r.event>> \notin Keys(Visible(o, "events"))

\* Rows of a transaction that is not committed are waited for.
MustWait(o, t, rows) ==
    \E p \in Operators \ {o} : Keys(rows) \cap Keys(written[p][t]) # {}

\* Preflight only reads and transforms; validate compares without inserting.
AfterCopy(mode) == IF mode = "preflight" THEN "rehash" ELSE "digest"
Inserts(o) == command[o].mode = "transfer"

\* The next table is read and transformed, and inserted by a transfer.
CopyTable(o, rows) ==
    LET c == command[o]
        t == Tables[c.n]
    IN  /\ command' = [command EXCEPT
               ![o].expected[t] = rows,
               ![o].n = IF c.n = 3 THEN 1 ELSE c.n + 1,
               ![o].pc = IF c.n < 3 THEN "copy" ELSE AfterCopy(c.mode)]
        /\ written' = IF Inserts(o) THEN [written EXCEPT ![o][t] = rows] ELSE written
        /\ UNCHANGED <<versions, target, importCount>>

Copy(o) ==
    LET c == command[o]
        t == Tables[c.n]
    IN  /\ c.pc = "copy"
        /\ \E v \in c.opened..Hash :
              IF ~Transformable(versions[v], t) THEN Raises(o)
              ELSE LET rows == Transformed(versions[v], t)
                   IN  IF ~Inserts(o) THEN CopyTable(o, rows)
                       ELSE /\ ~MustWait(o, t, rows)
                            /\ IF Violates(o, t, rows) THEN Raises(o) ELSE CopyTable(o, rows)

\* Row counts, and SHA-256 over the sorted hashes of the rows: the order in
\* which the two databases return them does not matter.
SameDigest(rows, others) == rows = others

\* _validate_against_expected: count and digest of each table.
Digest(o) ==
    LET c == command[o]
        t == Tables[c.n]
    IN  /\ c.pc = "digest"
        /\ IF ~SameDigest(Visible(o, t), c.expected[t]) THEN Raises(o)
           ELSE /\ command' = [command EXCEPT
                     ![o].found[t] = Visible(o, t),
                     ![o].n = IF c.n = 3 THEN 1 ELSE c.n + 1,
                     ![o].pc = IF c.n = 3 THEN "orphans" ELSE "digest"]
                /\ UNCHANGED <<versions, target, written, importCount>>

\* _foreign_key_violations
Orphans(o) ==
    {r \in Visible(o, "attempts") \cup Visible(o, "states") :
        <<"event", r.event>> \notin Keys(Visible(o, "events"))}

CheckOrphans(o) ==
    /\ command[o].pc = "orphans"
    /\ IF Orphans(o) # {} THEN Raises(o)
       ELSE Goes(o, "rehash") /\ UNCHANGED <<versions, target, written, importCount>>

\* Mutant: the checksum is not taken again.
UnchangedAnyhow(o) == TRUE
Unchanged(o) == Hash = command[o].hash

\* The commit follows the second checksum, and the report the commit.
Report(o) ==
    /\ command[o].pc = "rehash"
    /\ IF ~Unchanged(o) THEN Raises(o)
       ELSE /\ target' = [t \in TableNames |-> Visible(o, t)]
            /\ written' = [written EXCEPT ![o] = Empty]
            /\ Goes(o, "done")
            /\ UNCHANGED <<versions, importCount>>

\* The file cannot be read, a statement fails, the process dies.
Stops(o) == command[o].pc # "idle" /\ Raises(o)

TransferNext ==
    \/ OldProgramWrites
    \/ \E e \in LegacyEvents : ImportCommits(e)
    \/ \E o \in Operators :
          \/ \E mode \in Modes : StartCommand(o, mode)
          \/ OpenSource(o) \/ EnsureEmpty(o) \/ Copy(o) \/ Digest(o)
          \/ CheckOrphans(o) \/ Report(o) \/ Stops(o)

-----------------------------------------------------------------------------
\* "No target rows are committed until row digests and FK checks pass", "the
\* source file hash must be unchanged": a report tells of one version of the
\* file, the one whose checksum it names, and each table held the rows of that
\* version, all of them and no others, when it was compared - whatever the old
\* program, imports and other operators did meanwhile.
ReportsAreExact ==
    \A o \in Operators :
        LET c == command[o]
        IN  c.pc = "done" =>
              \A t \in TableNames :
                  /\ c.expected[t] = Transformed(versions[c.hash], t)
                  /\ c.mode # "preflight" => c.found[t] = c.expected[t]
=============================================================================
