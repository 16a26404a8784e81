------------------------- MODULE RatingPublication -------------------------
(***************************************************************************)
(* Building, publishing and pruning of rating runs by several processes    *)
(* at once (lorcana/ratings/service.py, lorcana/ratings/repository.py).    *)
(*                                                                         *)
(* Here transactions overlap, so a step is one SQL statement of one of     *)
(* them.  runs and publications hold what is committed; what a transaction *)
(* has written, in tx, is applied when it commits.  Rows are locked the    *)
(* way PostgreSQL locks them: SELECT FOR UPDATE, UPDATE, DELETE and INSERT *)
(* take a row for themselves; a foreign key that is written shares the row *)
(* it refers to with other references; a reader waits for nobody.          *)
(***************************************************************************)
EXTENDS Naturals

CONSTANTS
    Process,        \* workers and command lines
    Run,            \* identifiers of rating runs
    Name,           \* publication names
    NoRun, NoFacts,
    MaxChanges,     \* bound on changes of the source facts
    MaxCrashes,     \* bound on crashes
    MaxRaises,      \* bound on builds that raise
    MaxManual       \* bound on publications by hand

ASSUME NullAssumption ==
    /\ NoRun \notin Run
    /\ NoFacts \notin Nat
    /\ Run \cap Name = {} /\ Name # {}
ASSUME LimitAssumption ==
    {MaxChanges, MaxCrashes, MaxRaises, MaxManual} \subseteq Nat

VARIABLES
    source,         \* the eligible facts now in the Play Hub tables
    runs,           \* the table rating_runs; an unused identifier is "absent"
    publications,   \* the table rating_publications
    pc,             \* where each process is in RatingService
    tx,             \* its local variables, and what its transaction has written
    locks,          \* rows its transaction has locked for itself
    shares,         \* runs its transaction holds a reference to
    used            \* crashes, raises and publications by hand so far

vars == <<source, runs, publications, pc, tx, locks, shares, used>>

\* Successive states of the source facts, told apart by their digests.
Facts == 0..MaxChanges

Status == {"absent", "building", "validated", "published", "failed"}
Completed == {"validated", "published", "failed"}
RunRow == [status : Status, digest : Facts \cup {NoFacts}]
NoRunRow == [status |-> "absent", digest |-> NoFacts]

Publication == [current : Run \cup {NoRun}, previous : Run \cup {NoRun}]
\* No row under that name.
NoPublication == [current |-> NoRun, previous |-> NoRun]

\* kind says which transaction ends with the pruning: that of publish, that
\* of _record_failure, or the one of a refresh that found nothing new.
Kind == {"publish", "failure", "sweep"}
Control == {"idle", "comparing", "creating", "snapshotting", "validating",
            "publishing", "locating", "rotating", "failing",
            "retaining", "choosing", "deleting"}
Local ==
    [kind : Kind, name : Name, run : Run \cup {NoRun},
     digest : Facts \cup {NoFacts}, seen : Publication,
     retained : SUBSET Run, doomed : SUBSET Run, gone : SUBSET Run]
Fresh(name) ==
    [kind |-> "publish", name |-> name, run |-> NoRun, digest |-> NoFacts,
     seen |-> NoPublication, retained |-> {}, doomed |-> {}, gone |-> {}]
\* A process between calls remembers nothing.
Blank == Fresh(CHOOSE n \in Name : TRUE)

Init ==
    /\ source = 0
    /\ runs = [r \in Run |-> NoRunRow]
    /\ publications = [n \in Name |-> NoPublication]
    /\ pc = [p \in Process |-> "idle"]
    /\ tx = [p \in Process |-> Blank]
    /\ locks = [p \in Process |-> {}]
    /\ shares = [p \in Process |-> {}]
    /\ used = [crashes |-> 0, raises |-> 0, manual |-> 0]

-----------------------------------------------------------------------------
Goto(p, label) == pc' = [pc EXCEPT ![p] = label]

\* Back to the caller: the transaction, if one is open, is over.
Return(p) ==
    /\ Goto(p, "idle")
    /\ tx' = [tx EXCEPT ![p] = Blank]
    /\ locks' = [locks EXCEPT ![p] = {}]
    /\ shares' = [shares EXCEPT ![p] = {}]

\* An exception in a transaction: rolled back, and the caller gets an error.
Abort(p) == Return(p) /\ UNCHANGED <<source, runs, publications, used>>

Use(what, bound) ==
    /\ used[what] < bound
    /\ used' = [used EXCEPT ![what] = @ + 1]

Others(p) == Process \ {p}
LockedByOther(p, row) == \E q \in Others(p) : row \in locks[q]
\* A run can be taken only if nobody else has it, or a reference to it.
Takeable(p, r) ==
    ~LockedByOther(p, r) /\ \A q \in Others(p) : r \notin shares[q]

\* The publications as the transaction sees them: its own write, and of the
\* others what was committed when the statement began.
Rotated(p) ==
    IF tx[p].seen.current = tx[p].run THEN tx[p].seen
    ELSE [current |-> tx[p].run, previous |-> tx[p].seen.current]
Seen(p, n) ==
    IF tx[p].kind = "publish" /\ n = tx[p].name THEN Rotated(p)
    ELSE publications[n]

\* Mutant: a generation that is not there is listed as well.
RefersOrNull(publication) == {publication.current, publication.previous}
Refers(publication) == {publication.current, publication.previous} \ {NoRun}

\* The runs as the transaction sees them.
SeenStatus(p, r) ==
    IF tx[p].kind = "sweep" \/ r # tx[p].run THEN runs[r].status
    ELSE IF tx[p].kind = "publish" THEN "published" ELSE "failed"

-----------------------------------------------------------------------------
(***************************************************************************)
(* build_and_publish_if_changed, and publish called by hand                *)
(***************************************************************************)
\* preview_source: read the facts, write nothing.
Preview(p, n) ==
    /\ pc[p] = "idle"
    /\ Goto(p, "comparing")
    /\ tx' = [tx EXCEPT ![p] = [Fresh(n) EXCEPT !.digest = source]]
    /\ UNCHANGED <<source, runs, publications, locks, shares, used>>

PublishedFacts(n) ==
    IF publications[n] = NoPublication THEN NoFacts
    ELSE runs[publications[n].current].digest

\* Mutant: any run with these facts will do.
CompareWithAnyRun(p) ==
    /\ pc[p] = "comparing"
    /\ IF \E r \in Run : runs[r].digest = tx[p].digest
       THEN /\ Goto(p, "retaining")
            /\ tx' = [tx EXCEPT ![p] = [Fresh(tx[p].name) EXCEPT !.kind = "sweep"]]
       ELSE /\ Goto(p, "creating")
            /\ tx' = [tx EXCEPT ![p] = Fresh(tx[p].name)]
    /\ UNCHANGED <<source, runs, publications, locks, shares, used>>
Compare(p) ==
    /\ pc[p] = "comparing"
    /\ IF PublishedFacts(tx[p].name) = tx[p].digest
       THEN /\ Goto(p, "retaining")
            /\ tx' = [tx EXCEPT ![p] = [Fresh(tx[p].name) EXCEPT !.kind = "sweep"]]
       ELSE /\ Goto(p, "creating")
            /\ tx' = [tx EXCEPT ![p] = Fresh(tx[p].name)]
    /\ UNCHANGED <<source, runs, publications, locks, shares, used>>

Retained == UNION {Refers(publications[n]) : n \in Name}

\* Some process has the run in hand, or in a list.
Remembered(r) ==
    \E q \in Process : r \in {tx[q].run} \cup tx[q].retained \cup tx[q].doomed

\* Not published, and nobody works on it any more.
Leftover(r) ==
    runs[r].status # "absent" /\ r \notin Retained /\ ~Remembered(r)

\* Leftovers of one status are treated alike for ever.  One of them stands for
\* all, so that a finite set of identifiers never runs out.
Redundant(r) ==
    /\ Leftover(r)
    /\ \E s \in Run \ {r} : Leftover(s) /\ runs[s].status = runs[r].status

\* The identifier is new.  Names for new runs are interchangeable, so it does
\* not matter which one is taken.
Unused(r) == (runs[r].status = "absent" /\ ~Remembered(r)) \/ Redundant(r)

Create(p) ==
    /\ pc[p] = "creating"
    /\ \E r \in Run : Unused(r)
    /\ LET r == CHOOSE r \in Run : Unused(r)
       IN  /\ runs' = [runs EXCEPT ![r].status = "building"]
           /\ tx' = [tx EXCEPT ![p].run = r]
    /\ Goto(p, "snapshotting")
    /\ UNCHANGED <<source, publications, locks, shares, used>>

\* The facts are read again: they may have changed since the preview.
Snapshot(p) ==
    /\ pc[p] = "snapshotting"
    /\ runs' = [runs EXCEPT ![tx[p].run].digest = source]
    /\ Goto(p, "validating")
    /\ UNCHANGED <<source, publications, tx, locks, shares, used>>

CalculateAndValidate(p) ==
    /\ pc[p] = "validating"
    /\ runs' = [runs EXCEPT ![tx[p].run].status = "validated"]
    /\ Goto(p, "publishing")
    /\ UNCHANGED <<source, publications, tx, locks, shares, used>>

BuildRaises(p) ==
    /\ pc[p] \in {"snapshotting", "validating"}
    /\ Use("raises", MaxRaises)
    /\ Goto(p, "failing")
    /\ UNCHANGED <<source, runs, publications, tx, locks, shares>>

PublishByHand(p, n, r) ==
    /\ pc[p] = "idle"
    /\ runs[r].status # "absent"
    /\ Use("manual", MaxManual)
    /\ Goto(p, "publishing")
    /\ tx' = [tx EXCEPT ![p] = [Fresh(n) EXCEPT !.run = r]]
    /\ UNCHANGED <<source, runs, publications, locks, shares>>

-----------------------------------------------------------------------------
(***************************************************************************)
(* The transaction of publish, up to the pruning                           *)
(***************************************************************************)
Publishable(r) == runs[r].status \in {"validated", "published"}

LockRun(p) ==
    /\ pc[p] = "publishing"
    /\ Takeable(p, tx[p].run)
    /\ Publishable(tx[p].run)
    /\ locks' = [locks EXCEPT ![p] = {tx[p].run}]
    /\ Goto(p, "locating")
    /\ UNCHANGED <<source, runs, publications, tx, shares, used>>

\* Mutant: a run that may not be published is waited for.
RefuseNever(p) ==
    /\ pc[p] = "publishing"
    /\ Takeable(p, tx[p].run)
    /\ ~Publishable(tx[p].run)
    /\ UNCHANGED vars
\* The run was deleted, or is not one that may be published.
Refuse(p) ==
    /\ pc[p] = "publishing"
    /\ Takeable(p, tx[p].run)
    /\ ~Publishable(tx[p].run)
    /\ Abort(p)

\* Mutant: the row is read without FOR UPDATE.
LockPublicationUnlocked(p) ==
    /\ pc[p] = "locating"
    /\ tx' = [tx EXCEPT ![p].seen = publications[tx[p].name]]
    /\ Goto(p, "rotating")
    /\ UNCHANGED <<source, runs, publications, locks, shares, used>>
\* A row that another transaction has inserted but not committed is not there.
LockPublication(p) ==
    LET n == tx[p].name IN
    /\ pc[p] = "locating"
    /\ IF publications[n] = NoPublication THEN UNCHANGED locks
       ELSE /\ ~LockedByOther(p, n)
            /\ locks' = [locks EXCEPT ![p] = @ \cup {n}]
    /\ tx' = [tx EXCEPT ![p].seen = publications[n]]
    /\ Goto(p, "rotating")
    /\ UNCHANGED <<source, runs, publications, shares, used>>

\* INSERT, if no row was found: it waits for another such insertion, and fails
\* if that one committed.
Insert(p) ==
    LET n == tx[p].name IN
    /\ pc[p] = "rotating"
    /\ tx[p].seen = NoPublication
    /\ ~LockedByOther(p, n)
    /\ IF publications[n] = NoPublication
       THEN /\ locks' = [locks EXCEPT ![p] = @ \cup {n}]
            /\ Goto(p, "retaining")
            /\ UNCHANGED <<source, runs, publications, tx, shares, used>>
       ELSE Abort(p)

\* UPDATE, which refers to the old current run from now on.
Rotate(p) ==
    LET old == tx[p].seen.current IN
    /\ pc[p] = "rotating"
    /\ tx[p].seen # NoPublication
    /\ IF old = tx[p].run THEN UNCHANGED shares
       ELSE /\ ~LockedByOther(p, old)
            /\ shares' = [shares EXCEPT ![p] = {old}]
    /\ Goto(p, "retaining")
    /\ UNCHANGED <<source, runs, publications, tx, locks, used>>

\* _record_failure: the run is this process's own, and nobody waits for it.
MarkFailed(p) ==
    /\ pc[p] = "failing"
    /\ Takeable(p, tx[p].run)
    /\ locks' = [locks EXCEPT ![p] = {tx[p].run}]
    /\ tx' = [tx EXCEPT ![p].kind = "failure"]
    /\ Goto(p, "retaining")
    /\ UNCHANGED <<source, runs, publications, shares, used>>

-----------------------------------------------------------------------------
(***************************************************************************)
(* prune_unretained_runs, which ends all three transactions                *)
(***************************************************************************)
Retain(p) ==
    /\ pc[p] = "retaining"
    /\ tx' = [tx EXCEPT ![p].retained =
                UNION {Refers(Seen(p, n)) : n \in Name}]
    /\ Goto(p, "choosing")
    /\ UNCHANGED <<source, runs, publications, locks, shares, used>>

\* Mutant: runs that are being built are chosen like any other.
ChooseAlsoBuilding(p) ==
    /\ pc[p] = "choosing"
    /\ tx' = [tx EXCEPT ![p].retained = {}, ![p].doomed =
                {r \in Run : SeenStatus(p, r) # "absent"} \ tx[p].retained]
    /\ Goto(p, "deleting")
    /\ UNCHANGED <<source, runs, publications, locks, shares, used>>
\* Mutant: a run that was validated and never published is not chosen.
ChooseSuperseded(p) ==
    /\ pc[p] = "choosing"
    /\ tx' = [tx EXCEPT ![p].retained = {}, ![p].doomed =
                {r \in Run : SeenStatus(p, r) \in {"published", "failed"}}
                    \ tx[p].retained]
    /\ Goto(p, "deleting")
    /\ UNCHANGED <<source, runs, publications, locks, shares, used>>
Choose(p) ==
    /\ pc[p] = "choosing"
    /\ tx' = [tx EXCEPT ![p].retained = {}, ![p].doomed =
                {r \in Run : SeenStatus(p, r) \in Completed} \ tx[p].retained]
    /\ Goto(p, "deleting")
    /\ UNCHANGED <<source, runs, publications, locks, shares, used>>

Remaining(p) == tx[p].doomed \ tx[p].gone

\* The rows of one chosen run and its inputs and ratings, in any order.  Only
\* the identifier is looked at again, never the status; a run that another
\* transaction deleted meanwhile is passed over.
Delete(p, r) ==
    /\ pc[p] = "deleting"
    /\ r \in Remaining(p)
    /\ Takeable(p, r)
    /\ IF runs[r].status = "absent"
       THEN tx' = [tx EXCEPT ![p].doomed = @ \ {r}] /\ UNCHANGED locks
       ELSE /\ tx' = [tx EXCEPT ![p].gone = @ \cup {r}]
            /\ locks' = [locks EXCEPT ![p] = @ \cup {r}]
    /\ UNCHANGED <<source, runs, publications, pc, shares, used>>

\* Publications that refer to a run this transaction has deleted.
Orphaned(p) == {n \in Name : Refers(Seen(p, n)) \cap tx[p].gone # {}}

\* A foreign key is checked once all rows are gone.
ForeignKeyFails(p) ==
    /\ pc[p] = "deleting"
    /\ Remaining(p) = {}
    /\ \E n \in Orphaned(p) : ~LockedByOther(p, n)
    /\ Abort(p)

Committed(p) ==
    [r \in Run |-> IF r \in tx[p].gone THEN NoRunRow
                   ELSE [runs[r] EXCEPT !.status = SeenStatus(p, r)]]

\* Mutant: the schema has no foreign keys.
CommitUnchecked(p) ==
    /\ pc[p] = "deleting"
    /\ Remaining(p) = {}
    /\ runs' = Committed(p)
    /\ publications' = [n \in Name |-> Seen(p, n)]
    /\ Return(p)
    /\ UNCHANGED <<source, used>>
Commit(p) ==
    /\ pc[p] = "deleting"
    /\ Remaining(p) = {}
    /\ Orphaned(p) = {}
    /\ runs' = Committed(p)
    /\ publications' = [n \in Name |-> Seen(p, n)]
    /\ Return(p)
    /\ UNCHANGED <<source, used>>

-----------------------------------------------------------------------------
(***************************************************************************)
(* The database's deadlock detector, crashes, and the rest of the system   *)
(***************************************************************************)
Holders(rows) ==
    {q \in Process : (locks[q] \cup shares[q]) \cap rows # {}}

\* Whom a process waits for; none of them can be itself.
WaitsFor(p) ==
    LET awaited ==
          CASE pc[p] \in {"publishing", "failing"} -> Holders({tx[p].run})
            [] pc[p] = "locating" -> Holders(
                  IF publications[tx[p].name] = NoPublication THEN {}
                  ELSE {tx[p].name})
            [] pc[p] = "rotating" ->
                  IF tx[p].seen = NoPublication THEN Holders({tx[p].name})
                  ELSE {q \in Process : tx[p].seen.current \in locks[q]}
            [] pc[p] = "deleting" ->
                  IF \E r \in Remaining(p) : Takeable(p, r) THEN {}
                  ELSE IF Remaining(p) # {} THEN Holders(Remaining(p))
                  ELSE Holders(Orphaned(p))
            [] OTHER -> {}
    IN  awaited \ {p}

Deadlocked(p) ==
    \E circle \in SUBSET Process :
        p \in circle /\ \A q \in circle : WaitsFor(q) \cap circle # {}

\* Any of those in the circle is chosen; the others go on.
DeadlockVictim(p) == Deadlocked(p) /\ Abort(p)

\* A process dies or loses its connection; its work is rolled back.
Crash(p) ==
    /\ pc[p] # "idle"
    /\ Use("crashes", MaxCrashes)
    /\ Return(p)
    /\ UNCHANGED <<source, runs, publications>>

SourceChanges ==
    /\ source < MaxChanges
    /\ source' = source + 1
    /\ UNCHANGED <<runs, publications, pc, tx, locks, shares, used>>

\* Statements that may have to wait for a row.
TakeRow(p) ==
    \/ LockRun(p) \/ Refuse(p) \/ LockPublication(p) \/ Insert(p) \/ Rotate(p)
    \/ MarkFailed(p)
    \/ \E r \in Run : Delete(p, r)
    \/ ForeignKeyFails(p)

Proceed(p) ==
    \/ \E n \in Name : Preview(p, n)
    \/ Compare(p) \/ Create(p) \/ Snapshot(p) \/ CalculateAndValidate(p)
    \/ Retain(p) \/ Choose(p) \/ Commit(p)
    \/ DeadlockVictim(p)

Next ==
    \/ SourceChanges
    \/ \E p \in Process :
          \/ Proceed(p) \/ TakeRow(p)
          \/ BuildRaises(p) \/ Crash(p)
          \/ \E n \in Name, r \in Run : PublishByHand(p, n, r)

Spec == Init /\ [][Next]_vars

\* A refresh that began goes on, and the schedule keeps starting new ones.  A
\* row goes to whoever has waited longest for it: nobody waits for ever while
\* others come and go.
FairSpec ==
    /\ Spec
    /\ \A p \in Process : WF_vars(Proceed(p)) /\ SF_vars(TakeRow(p))

-----------------------------------------------------------------------------
TypeOK ==
    /\ source \in Facts
    /\ runs \in [Run -> RunRow]
    /\ publications \in [Name -> Publication]
    /\ pc \in [Process -> Control]
    /\ tx \in [Process -> Local]
    /\ locks \in [Process -> SUBSET (Run \cup Name)]
    /\ shares \in [Process -> SUBSET Run]
    /\ used \in [crashes : 0..MaxCrashes, raises : 0..MaxRaises, manual : 0..MaxManual]

\* What is published is there, is complete, and stays so: both generations of
\* a publication are finished runs over known facts, whoever deletes runs at
\* the same moment.
PublicationsAreComplete ==
    \A n \in Name : \A r \in Refers(publications[n]) :
        runs[r].status = "published" /\ runs[r].digest # NoFacts

\* A publication moves forward one generation at a time, even if two processes
\* publish at once: what was current becomes the previous one.
PointersRotate ==
    [][\A n \in Name :
          publications'[n] # publications[n] =>
              /\ publications'[n].previous = publications[n].current
              /\ publications'[n].current # publications[n].current
      ]_vars

\* "A run currently being calculated ... must never be deleted by another
\* publisher": only the process that builds a run makes it vanish.
BuildsAreLeftAlone ==
    [][\A r \in Run :
          runs[r].status = "building" /\ runs'[r].status = "absent" =>
              \E p \in Process : tx[p].run = r /\ pc[p] # pc'[p]
      ]_vars

\* "Failed transient builds are pruned immediately": a build that raised is
\* not left behind half done.
NoAbandonedBuilds ==
    \A r \in Run : ~(Leftover(r) /\ runs[r].status = "building")

\* Every refresh and every publication ends, with or without an error.
EveryRefreshEnds == \A p \in Process : pc[p] # "idle" ~> pc[p] = "idle"

\* Two refreshes that start together may deadlock, and so may their retries, the
\* victim being now one and now the other: the rest assumes this has an end.
DeadlocksCease == <>[](\A p \in Process : ~Deadlocked(p))

\* No archive builds up: in the end nothing finished is left over, whatever
\* was superseded, refused or cut short by a deadlock on the way.
LeftoversArePruned ==
    DeadlocksCease =>
        <>[](\A r \in Run : ~(Leftover(r) /\ runs[r].status \in Completed))

\* Once the facts stay as they are, they are what is published, for good.
FactsArePublished ==
    DeadlocksCease => \A n \in Name : <>[](PublishedFacts(n) = source)
=============================================================================
