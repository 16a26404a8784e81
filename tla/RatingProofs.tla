---------------------------- MODULE RatingProofs ----------------------------
(***************************************************************************)
(* The builds and publications of RatingPublication, for any number of     *)
(* processes, runs and names: the types, that what is published stays      *)
(* there and complete, that no generation of a publication is lost, and    *)
(* that nobody deletes a run another process is building.                  *)
(***************************************************************************)
EXTENDS RatingPublication, TLAPS

Pruning == {"retaining", "choosing", "deleting"}
Outside == {"idle", "comparing", "creating"}

\* A process at label l with local data t works on a run that nobody else may
\* touch yet: it calculates it, or records that it failed.
BuildingAt(l, t) ==
    \/ l \in {"snapshotting", "validating", "failing"}
    \/ l \in Pruning /\ t.kind = "failure"
Building(p) == BuildingAt(pc[p], tx[p])

\* It is in the transaction of publish, with the row of its run locked.
PublishingAt(l, t) ==
    \/ l \in {"locating", "rotating"}
    \/ l \in Pruning /\ t.kind = "publish"

\* It has locked the row of the publication, or has inserted it.
HoldsNameAt(l, t) ==
    \/ l = "rotating" /\ t.seen # NoPublication
    \/ l \in Pruning /\ t.kind = "publish"

\* What a process with these locks remembers at each label.
StageOf(l, t, rows) ==
    /\ l \in Outside => t.run = NoRun
    /\ l \notin Outside /\ t.kind # "sweep" => t.run \in Run
    /\ t.kind = "sweep" => t.run = NoRun
    /\ t.kind # "publish" => l \in Pruning
    /\ l # "deleting" => t.doomed = {} /\ t.gone = {}
    /\ t.gone \subseteq t.doomed
    /\ t.gone \subseteq rows
StageInv == \A p \in Process : StageOf(pc[p], tx[p], locks[p])

\* A run that is being built is known to other processes only from a call by
\* hand, and those have not been let past their first statement.
Alone(p) ==
    /\ runs[tx[p].run].status = "building"
    /\ \A q \in Others(p) : tx[q].run = tx[p].run => pc[q] = "publishing"
BuildInv == \A p \in Process : Building(p) => Alone(p)

\* The facts of a run are there from the snapshot on.
FactsInv ==
    /\ \A p \in Process : pc[p] = "validating" => runs[tx[p].run].digest # NoFacts
    /\ \A r \in Run : Publishable(r) => runs[r].digest # NoFacts

\* A row has one owner.
ExclusiveInv == \A p \in Process : \A q \in Others(p) : locks[p] \cap locks[q] = {}

\* What publish has looked at stays as it was: the run may be published, and
\* the publication is the one it read.
LooksAt(l, t, rows) ==
    /\ PublishingAt(l, t) => t.run \in rows /\ Publishable(t.run)
    /\ HoldsNameAt(l, t) => t.name \in rows /\ publications[t.name] = t.seen
PublishInv == \A p \in Process : LooksAt(pc[p], tx[p], locks[p])

\* A list of doomed runs holds a run in building only if it is the failed
\* one of the process itself.
DoomOf(t) == \A r \in t.doomed : runs[r].status = "building" => t.run = r
DoomInv == \A p \in Process : DoomOf(tx[p])

\* Only a publication that is not there is without a current run.
CurrentInv ==
    \A n \in Name : publications[n].current = NoRun => publications[n] = NoPublication

RatingInv ==
    /\ TypeOK
    /\ StageInv
    /\ BuildInv
    /\ FactsInv
    /\ ExclusiveInv
    /\ PublishInv
    /\ DoomInv
    /\ CurrentInv
    /\ PublicationsAreComplete

-----------------------------------------------------------------------------
(***************************************************************************)
(* Rows and local data.                                                    *)
(***************************************************************************)
Used == [crashes : 0..MaxCrashes, raises : 0..MaxRaises, manual : 0..MaxManual]

LEMMA UseFacts ==
    ASSUME used \in Used,
           \/ Use("crashes", MaxCrashes)
           \/ Use("raises", MaxRaises)
           \/ Use("manual", MaxManual)
    PROVE  used' \in Used
<1>1. MaxCrashes \in Nat /\ MaxRaises \in Nat /\ MaxManual \in Nat
  BY LimitAssumption
<1>2. used.crashes \in Nat /\ used.raises \in Nat /\ used.manual \in Nat
  BY <1>1 DEF Used
<1>3. CASE Use("crashes", MaxCrashes)
  <2>1. used.crashes + 1 \in 0..MaxCrashes
    BY <1>1, <1>2, <1>3 DEF Use
  <2>2. PICK n \in 0..MaxCrashes : n = used.crashes + 1
    BY <2>1
  <2>3. used' = [used EXCEPT !.crashes = n]
    BY <1>3, <2>2 DEF Use
  <2>4. QED
    BY <2>3 DEF Used
<1>4. CASE Use("raises", MaxRaises)
  <2>1. used.raises + 1 \in 0..MaxRaises
    BY <1>1, <1>2, <1>4 DEF Use
  <2>2. PICK n \in 0..MaxRaises : n = used.raises + 1
    BY <2>1
  <2>3. used' = [used EXCEPT !.raises = n]
    BY <1>4, <2>2 DEF Use
  <2>4. QED
    BY <2>3 DEF Used
<1>5. CASE Use("manual", MaxManual)
  <2>1. used.manual + 1 \in 0..MaxManual
    BY <1>1, <1>2, <1>5 DEF Use
  <2>2. PICK n \in 0..MaxManual : n = used.manual + 1
    BY <2>1
  <2>3. used' = [used EXCEPT !.manual = n]
    BY <1>5, <2>2 DEF Use
  <2>4. QED
    BY <2>3 DEF Used
<1>6. QED
  BY <1>3, <1>4, <1>5

LEMMA TypeFacts ==
    ASSUME TypeOK
    PROVE  /\ used \in Used
           /\ source \in Facts
           /\ runs \in [Run -> RunRow] /\ publications \in [Name -> Publication]
           /\ pc \in [Process -> Control] /\ tx \in [Process -> Local]
           /\ locks \in [Process -> SUBSET (Run \cup Name)]
           /\ shares \in [Process -> SUBSET Run]
  BY DEF TypeOK, Used

LEMMA LocalFacts ==
    ASSUME NEW t \in Local
    PROVE  /\ t.kind \in Kind /\ t.name \in Name /\ t.run \in Run \cup {NoRun}
           /\ t.digest \in Facts \cup {NoFacts} /\ t.seen \in Publication
           /\ t.retained \in SUBSET Run /\ t.doomed \in SUBSET Run
           /\ t.gone \in SUBSET Run
  BY DEF Local

LEMMA RowFacts ==
    ASSUME NEW r \in RunRow
    PROVE  r.status \in Status /\ r.digest \in Facts \cup {NoFacts}
  BY DEF RunRow

LEMMA PublicationFacts ==
    ASSUME NEW x \in Publication
    PROVE  x.current \in Run \cup {NoRun} /\ x.previous \in Run \cup {NoRun}
  BY DEF Publication

LEMMA NullFacts ==
    /\ NoPublication \in Publication
    /\ NoPublication.current = NoRun /\ NoPublication.previous = NoRun
    /\ NoRunRow \in RunRow
    /\ NoRunRow.status = "absent" /\ NoRunRow.digest = NoFacts
  BY DEF NoPublication, Publication, NoRunRow, RunRow, Status

LEMMA FreshFacts ==
    ASSUME NEW n \in Name
    PROVE  /\ Fresh(n) \in Local /\ Fresh(n).kind = "publish" /\ Fresh(n).run = NoRun
           /\ Fresh(n).name = n /\ Fresh(n).doomed = {} /\ Fresh(n).gone = {}
  BY NullFacts DEF Fresh, Local, Kind

LEMMA BlankFacts ==
    /\ Blank \in Local /\ Blank.kind = "publish" /\ Blank.run = NoRun
    /\ Blank.doomed = {} /\ Blank.gone = {}
<1>1. (CHOOSE n \in Name : TRUE) \in Name
  BY NullAssumption
<1>2. QED
  BY <1>1, FreshFacts DEF Blank

LEMMA LabelFacts ==
    ASSUME NEW l \in Control
    PROVE  l \in {"idle", "comparing", "creating", "snapshotting", "validating",
                  "publishing", "locating", "rotating", "failing", "retaining",
                  "choosing", "deleting"}
  BY DEF Control

\* A builder's run is not in anybody else's hand, but for those who wait in
\* vain for permission to publish it.
LEMMA BuilderAlone ==
    ASSUME RatingInv, NEW p \in Process, NEW q \in Others(p), Building(q)
    PROVE  /\ tx[q].run \in Run /\ q \in Process
           /\ runs[tx[q].run].status = "building"
           /\ ~Publishable(tx[q].run)
           /\ tx[p].run = tx[q].run => pc[p] = "publishing"
<1>1. q \in Process /\ p \in Others(q)
  BY DEF Others
<1>2. Alone(q) /\ StageOf(pc[q], tx[q], locks[q])
  BY <1>1 DEF RatingInv, BuildInv, StageInv
<1>3. tx[q].run \in Run
  BY <1>2 DEF Building, BuildingAt, StageOf, Outside, Pruning
<1>4. QED
  BY <1>1, <1>2, <1>3 DEF Alone, Publishable

\* A statement that changes nothing but the local data and the locks of its
\* process keeps the invariant if it keeps the part about this process.
LEMMA Moves ==
    ASSUME RatingInv, NEW p \in Process, NEW l \in Control, NEW t \in Local,
           NEW k \in SUBSET (Run \cup Name), NEW s \in SUBSET Run,
           source' = source, runs' = runs, publications' = publications,
           used' \in Used,
           pc' = [pc EXCEPT ![p] = l], tx' = [tx EXCEPT ![p] = t],
           locks' = [locks EXCEPT ![p] = k], shares' = [shares EXCEPT ![p] = s],
           StageOf(l, t, k),
           BuildingAt(l, t) => Building(p) /\ t.run = tx[p].run,
           t.run = NoRun \/ l = "publishing" \/ (t.run = tx[p].run /\ pc[p] # "publishing")
               \/ Publishable(t.run),
           l = "validating" => runs[t.run].digest # NoFacts,
           \A q \in Others(p) : k \cap locks[q] = {},
           LooksAt(l, t, k),
           DoomOf(t)
    PROVE  RatingInv'
<1>1. TypeOK /\ StageInv /\ BuildInv /\ FactsInv /\ ExclusiveInv /\ PublishInv
      /\ DoomInv /\ CurrentInv /\ PublicationsAreComplete
  BY DEF RatingInv
<1>2. /\ pc' \in [Process -> Control] /\ tx' \in [Process -> Local]
      /\ locks' \in [Process -> SUBSET (Run \cup Name)]
      /\ shares' \in [Process -> SUBSET Run]
  BY <1>1, TypeFacts
<1>3. /\ pc'[p] = l /\ tx'[p] = t /\ locks'[p] = k
      /\ \A q \in Process : q # p => pc'[q] = pc[q] /\ tx'[q] = tx[q] /\ locks'[q] = locks[q]
  BY <1>1, TypeFacts
<1>4. TypeOK'
  BY <1>1, <1>2 DEF TypeOK, Used
<1>5. StageInv'
  BY <1>1, <1>3 DEF StageInv
<1>6. BuildInv'
  <2> SUFFICES ASSUME NEW q \in Process, Building(q)' PROVE Alone(q)'
    BY DEF BuildInv
  <2>1. CASE q = p
    <3>1. Alone(p) /\ t.run = tx[p].run
      BY <1>1, <1>3, <2>1 DEF Building, BuildInv
    <3>2. \A z \in Others(p) : tx'[z] = tx[z] /\ pc'[z] = pc[z]
      BY <1>3 DEF Others
    <3>3. Others(p)' = Others(p)
      BY DEF Others
    <3>4. QED
      BY <1>3, <2>1, <3>1, <3>2, <3>3 DEF Alone, Others
  <2>2. CASE q # p
    <3>1. Building(q) /\ q \in Others(p)
      BY <1>3, <2>2 DEF Building, Others
    <3>2. /\ tx[q].run \in Run /\ ~Publishable(tx[q].run)
          /\ tx[p].run = tx[q].run => pc[p] = "publishing"
      BY <3>1, BuilderAlone
    <3>3. t.run = tx[q].run => l = "publishing"
      BY <3>2, NullAssumption
    <3>4. Alone(q)
      BY <1>1, <3>1 DEF BuildInv
    <3>5. QED
      BY <1>3, <2>2, <3>3, <3>4 DEF Alone, Others
  <2>3. QED
    BY <2>1, <2>2
<1>7. FactsInv'
  BY <1>1, <1>3 DEF FactsInv, Publishable
<1>8. ExclusiveInv'
  BY <1>1, <1>3 DEF ExclusiveInv, Others
<1>9. PublishInv'
  <2>1. LooksAt(l, t, k)'
    BY DEF LooksAt, Publishable
  <2>2. \A q \in Process : LooksAt(pc[q], tx[q], locks[q])
    BY <1>1 DEF PublishInv
  <2> SUFFICES ASSUME NEW q \in Process PROVE LooksAt(pc[q], tx[q], locks[q])'
    BY DEF PublishInv
  <2>3. CASE q = p
    BY <1>3, <2>1, <2>3 DEF LooksAt, Publishable
  <2>4. CASE q # p
    BY <1>3, <2>2, <2>4 DEF LooksAt, Publishable
  <2>5. QED
    BY <2>3, <2>4
<1>10. DoomInv'
  BY <1>1, <1>3 DEF DoomInv, DoomOf
<1>11. CurrentInv' /\ PublicationsAreComplete'
  BY <1>1 DEF CurrentInv, PublicationsAreComplete
<1>12. QED
  BY <1>4, <1>5, <1>6, <1>7, <1>8, <1>9, <1>10, <1>11 DEF RatingInv

LEMMA Same ==
    ASSUME TypeOK, NEW p \in Process
    PROVE  /\ pc = [pc EXCEPT ![p] = pc[p]] /\ tx = [tx EXCEPT ![p] = tx[p]]
           /\ locks = [locks EXCEPT ![p] = locks[p]]
           /\ shares = [shares EXCEPT ![p] = shares[p]]
           /\ pc[p] \in Control /\ tx[p] \in Local
           /\ locks[p] \in SUBSET (Run \cup Name) /\ shares[p] \in SUBSET Run
<1>1. /\ pc \in [Process -> Control] /\ tx \in [Process -> Local]
      /\ locks \in [Process -> SUBSET (Run \cup Name)]
      /\ shares \in [Process -> SUBSET Run]
  BY TypeFacts
<1>2. QED
  BY <1>1

\* What the invariant says of one process.
LEMMA Own ==
    ASSUME RatingInv, NEW p \in Process
    PROVE  /\ TypeOK /\ used \in Used
           /\ StageOf(pc[p], tx[p], locks[p]) /\ LooksAt(pc[p], tx[p], locks[p])
           /\ DoomOf(tx[p])
           /\ \A q \in Others(p) : locks[p] \cap locks[q] = {}
  BY TypeFacts DEF RatingInv, StageInv, PublishInv, DoomInv, ExclusiveInv

-----------------------------------------------------------------------------
(***************************************************************************)
(* The statements that leave the tables as they are.                       *)
(***************************************************************************)
LEMMA ReturnInv ==
    ASSUME RatingInv, NEW p \in Process, Return(p),
           source' = source, runs' = runs, publications' = publications,
           used' \in Used
    PROVE  RatingInv'
<1>1. /\ StageOf("idle", Blank, {}) /\ ~BuildingAt("idle", Blank)
      /\ LooksAt("idle", Blank, {}) /\ DoomOf(Blank)
  BY BlankFacts DEF StageOf, BuildingAt, LooksAt, PublishingAt, HoldsNameAt, DoomOf,
                    Outside, Pruning
<1>2. /\ "idle" \in Control /\ "idle" # "validating"
      /\ {} \in SUBSET (Run \cup Name) /\ {} \in SUBSET Run
  BY DEF Control
<1>3. /\ pc' = [pc EXCEPT ![p] = "idle"] /\ tx' = [tx EXCEPT ![p] = Blank]
      /\ locks' = [locks EXCEPT ![p] = {}] /\ shares' = [shares EXCEPT ![p] = {}]
  BY DEF Return, Goto
<1>4. \A q \in Others(p) : {} \cap locks[q] = {}
  OBVIOUS
<1>5. QED
  BY <1>1, <1>2, <1>3, <1>4, BlankFacts, Moves

LEMMA AbortInv ==
    ASSUME RatingInv, NEW p \in Process, Abort(p)
    PROVE  RatingInv'
<1>1. used' \in Used
  BY Own DEF Abort
<1>2. QED
  BY <1>1, ReturnInv DEF Abort

LEMMA CrashInv ==
    ASSUME RatingInv, NEW p \in Process, Crash(p)
    PROVE  RatingInv'
<1>1. used' \in Used
  BY Own, UseFacts DEF Crash
<1>2. QED
  BY <1>1, ReturnInv DEF Crash

\* Outside the transactions: the process takes up another call, or another
\* part of it, with local data of its own.
LEMMA OutsideInv ==
    ASSUME RatingInv, NEW p \in Process, NEW l \in Control, NEW t \in Local,
           source' = source, runs' = runs, publications' = publications,
           locks' = locks, shares' = shares, used' \in Used,
           pc' = [pc EXCEPT ![p] = l], tx' = [tx EXCEPT ![p] = t],
           pc[p] # "deleting", t.doomed = {}, t.gone = {},
           \/ l \in Outside /\ t.run = NoRun /\ t.kind = "publish"
           \/ l = "retaining" /\ t.run = NoRun /\ t.kind = "sweep"
           \/ l = "publishing" /\ t.run \in Run /\ t.kind = "publish"
    PROVE  RatingInv'
<1>1. /\ StageOf(l, t, locks[p]) /\ ~BuildingAt(l, t)
      /\ LooksAt(l, t, locks[p]) /\ DoomOf(t)
  BY DEF StageOf, BuildingAt, LooksAt, PublishingAt, HoldsNameAt, DoomOf, Outside, Pruning
<1>2. l # "validating" /\ (t.run = NoRun \/ l = "publishing")
  BY DEF Outside
<1>3. /\ locks' = [locks EXCEPT ![p] = locks[p]] /\ shares' = [shares EXCEPT ![p] = shares[p]]
      /\ locks[p] \in SUBSET (Run \cup Name) /\ shares[p] \in SUBSET Run
      /\ \A q \in Others(p) : locks[p] \cap locks[q] = {}
  BY Own, Same
<1>4. QED
  BY <1>1, <1>2, <1>3, Moves

LEMMA CallInv ==
    ASSUME RatingInv, NEW p \in Process, NEW n \in Name,
           Preview(p, n) \/ \E r \in Run : PublishByHand(p, n, r)
    PROVE  RatingInv'
<1>1. CASE Preview(p, n)
  <2>1. PICK t : t = [Fresh(n) EXCEPT !.digest = source]
    OBVIOUS
  <2>2. source \in Facts
    BY Own, TypeFacts
  <2>3. t \in Local /\ t.kind = "publish" /\ t.run = NoRun /\ t.doomed = {} /\ t.gone = {}
    BY <2>1, <2>2, NullFacts DEF Fresh, Local, Kind
  <2>4. pc[p] # "deleting" /\ "comparing" \in Outside /\ "comparing" \in Control
    BY <1>1 DEF Preview, Outside, Control
  <2>5. pc' = [pc EXCEPT ![p] = "comparing"] /\ tx' = [tx EXCEPT ![p] = t]
    BY <1>1, <2>1 DEF Preview, Goto
  <2>6. used' \in Used
    BY <1>1, Own DEF Preview
  <2>7. UNCHANGED <<source, runs, publications, locks, shares>>
    BY <1>1 DEF Preview
  <2>8. QED
    BY <2>3, <2>4, <2>5, <2>6, <2>7, OutsideInv
<1>2. ASSUME NEW r \in Run, PublishByHand(p, n, r) PROVE RatingInv'
  <2>1. PICK t : t = [Fresh(n) EXCEPT !.run = r]
    OBVIOUS
  <2>3. t \in Local /\ t.kind = "publish" /\ t.run = r /\ t.doomed = {} /\ t.gone = {}
    BY <2>1, NullFacts DEF Fresh, Local, Kind
  <2>4. pc[p] # "deleting" /\ "publishing" \in Control
    BY <1>2 DEF PublishByHand, Control
  <2>5. pc' = [pc EXCEPT ![p] = "publishing"] /\ tx' = [tx EXCEPT ![p] = t]
    BY <1>2, <2>1 DEF PublishByHand, Goto
  <2>6. used' \in Used
    BY <1>2, Own, UseFacts DEF PublishByHand
  <2>7. UNCHANGED <<source, runs, publications, locks, shares>>
    BY <1>2 DEF PublishByHand
  <2>8. QED
    BY <2>3, <2>4, <2>5, <2>6, <2>7, OutsideInv
<1>3. QED
  BY <1>1, <1>2

LEMMA CompareInv ==
    ASSUME RatingInv, NEW p \in Process, Compare(p)
    PROVE  RatingInv'
<1>1. PICK n \in Name : n = tx[p].name
  BY Own, Same, LocalFacts
<1>2. PICK t : t = [Fresh(n) EXCEPT !.kind = "sweep"]
  OBVIOUS
<1>3. t \in Local /\ t.kind = "sweep" /\ t.run = NoRun /\ t.doomed = {} /\ t.gone = {}
  BY <1>2, NullFacts DEF Fresh, Local, Kind
<1>4. /\ pc[p] # "deleting" /\ "creating" \in Outside
      /\ "creating" \in Control /\ "retaining" \in Control
  BY DEF Compare, Outside, Control
<1>5. /\ used' \in Used /\ UNCHANGED <<source, runs, publications, locks, shares>>
  BY Own DEF Compare
<1>6. \/ pc' = [pc EXCEPT ![p] = "retaining"] /\ tx' = [tx EXCEPT ![p] = t]
      \/ pc' = [pc EXCEPT ![p] = "creating"] /\ tx' = [tx EXCEPT ![p] = Fresh(n)]
  BY <1>1, <1>2 DEF Compare, Goto
<1>7. QED
  BY <1>3, <1>4, <1>5, <1>6, FreshFacts, OutsideInv

LEMMA BuildRaisesInv ==
    ASSUME RatingInv, NEW p \in Process, BuildRaises(p)
    PROVE  RatingInv'
<1>1. /\ pc[p] \in {"snapshotting", "validating"} /\ used' \in Used
      /\ pc' = [pc EXCEPT ![p] = "failing"]
      /\ UNCHANGED <<source, runs, publications, tx, locks, shares>>
  BY Own, UseFacts DEF BuildRaises, Goto
<1>2. /\ StageOf("failing", tx[p], locks[p]) /\ LooksAt("failing", tx[p], locks[p])
      /\ "failing" \in Control
  BY <1>1, Own DEF StageOf, LooksAt, PublishingAt, HoldsNameAt, Outside, Pruning, Control
<1>3. Building(p)
  BY <1>1 DEF Building, BuildingAt
<1>4. /\ DoomOf(tx[p]) /\ \A q \in Others(p) : locks[p] \cap locks[q] = {}
  BY Own
<1>5. /\ tx' = [tx EXCEPT ![p] = tx[p]] /\ locks' = [locks EXCEPT ![p] = locks[p]]
      /\ shares' = [shares EXCEPT ![p] = shares[p]]
      /\ tx[p] \in Local /\ locks[p] \in SUBSET (Run \cup Name) /\ shares[p] \in SUBSET Run
  BY <1>1, Own, Same
<1>6. pc[p] # "publishing" /\ "failing" # "validating"
  BY <1>1
<1>7. QED
  BY <1>1, <1>2, <1>3, <1>4, <1>5, <1>6, Moves

-----------------------------------------------------------------------------
(***************************************************************************)
(* The statements of a transaction that wait for rows, or only look.       *)
(***************************************************************************)
LEMMA FreeRow ==
    ASSUME NEW p \in Process, NEW row, ~LockedByOther(p, row),
           \A q \in Others(p) : locks[p] \cap locks[q] = {}
    PROVE  \A q \in Others(p) : {row} \cap locks[q] = {} /\ (locks[p] \cup {row}) \cap locks[q] = {}
  BY DEF LockedByOther

LEMMA LockRunInv ==
    ASSUME RatingInv, NEW p \in Process, LockRun(p)
    PROVE  RatingInv'
<1>1. /\ pc[p] = "publishing" /\ ~LockedByOther(p, tx[p].run) /\ Publishable(tx[p].run)
      /\ locks' = [locks EXCEPT ![p] = {tx[p].run}] /\ pc' = [pc EXCEPT ![p] = "locating"]
      /\ UNCHANGED <<source, runs, publications, tx, shares, used>>
  BY DEF LockRun, Goto, Takeable
<1>2. StageOf(pc[p], tx[p], locks[p]) /\ DoomOf(tx[p]) /\ used' \in Used
  BY <1>1, Own
<1>3. tx[p].run \in Run /\ tx[p].kind = "publish"
  BY <1>1, <1>2 DEF StageOf, Outside, Pruning
<1>4. /\ StageOf("locating", tx[p], {tx[p].run}) /\ LooksAt("locating", tx[p], {tx[p].run})
      /\ ~BuildingAt("locating", tx[p]) /\ "locating" \in Control
  BY <1>1, <1>2, <1>3 DEF StageOf, LooksAt, PublishingAt, HoldsNameAt, BuildingAt, Outside,
                          Pruning, Control
<1>5. \A q \in Others(p) : {tx[p].run} \cap locks[q] = {}
  BY <1>1 DEF LockedByOther
<1>6. /\ tx' = [tx EXCEPT ![p] = tx[p]] /\ shares' = [shares EXCEPT ![p] = shares[p]]
      /\ tx[p] \in Local /\ shares[p] \in SUBSET Run
      /\ {tx[p].run} \in SUBSET (Run \cup Name)
  BY <1>1, <1>3, Own, Same
<1>7. QED
  BY <1>1, <1>2, <1>4, <1>5, <1>6, Moves

LEMMA LockPublicationInv ==
    ASSUME RatingInv, NEW p \in Process, LockPublication(p)
    PROVE  RatingInv'
<1>1. PICK n \in Name : n = tx[p].name
  BY Own, Same, LocalFacts
<1>2. PICK x \in Publication : x = publications[n]
  BY Own, TypeFacts
<1>3. PICK k : k = IF x = NoPublication THEN locks[p] ELSE locks[p] \cup {n}
  OBVIOUS
<1>4. PICK t : t = [tx[p] EXCEPT !.seen = x]
  OBVIOUS
<1>5. /\ pc[p] = "locating" /\ pc' = [pc EXCEPT ![p] = "rotating"]
      /\ tx' = [tx EXCEPT ![p] = t] /\ locks' = [locks EXCEPT ![p] = k]
      /\ x # NoPublication => ~LockedByOther(p, n)
      /\ UNCHANGED <<source, runs, publications, shares, used>>
  <2>1. locks = [locks EXCEPT ![p] = locks[p]]
    BY Own, Same
  <2>2. QED
    BY <1>1, <1>2, <1>3, <1>4, <2>1 DEF LockPublication, Goto
<1>6. /\ StageOf(pc[p], tx[p], locks[p]) /\ DoomOf(tx[p]) /\ used' \in Used
      /\ LooksAt(pc[p], tx[p], locks[p])
      /\ \A q \in Others(p) : locks[p] \cap locks[q] = {}
  BY <1>5, Own
<1>7. tx[p] \in Local
  BY Own, Same
<1>8. /\ t \in Local /\ t.kind = tx[p].kind /\ t.run = tx[p].run /\ t.name = n
      /\ t.seen = x /\ t.doomed = tx[p].doomed /\ t.gone = tx[p].gone
  BY <1>1, <1>4, <1>7 DEF Local
<1>9. /\ StageOf("rotating", t, k) /\ LooksAt("rotating", t, k) /\ DoomOf(t)
      /\ ~BuildingAt("rotating", t) /\ "rotating" \in Control
  BY <1>2, <1>3, <1>5, <1>6, <1>8 DEF StageOf, LooksAt, PublishingAt, HoldsNameAt,
     BuildingAt, DoomOf, Outside, Pruning, Control
<1>10. \A q \in Others(p) : k \cap locks[q] = {}
  BY <1>3, <1>5, <1>6, FreeRow
<1>11. k \in SUBSET (Run \cup Name) /\ shares[p] \in SUBSET Run
       /\ shares' = [shares EXCEPT ![p] = shares[p]]
  BY <1>3, <1>5, Own, Same
<1>12. t.run = tx[p].run /\ pc[p] # "publishing"
  BY <1>5, <1>8
<1>13. QED
  BY <1>5, <1>6, <1>8, <1>9, <1>10, <1>11, <1>12, Moves

LEMMA InsertInv ==
    ASSUME RatingInv, NEW p \in Process, Insert(p)
    PROVE  RatingInv'
<1>1. PICK n \in Name : n = tx[p].name
  BY Own, Same, LocalFacts
<1>2. CASE publications[n] # NoPublication
  BY <1>1, <1>2, AbortInv DEF Insert
<1>3. CASE publications[n] = NoPublication
  <2>1. /\ pc[p] = "rotating" /\ tx[p].seen = NoPublication /\ ~LockedByOther(p, n)
        /\ pc' = [pc EXCEPT ![p] = "retaining"]
        /\ locks' = [locks EXCEPT ![p] = locks[p] \cup {n}]
        /\ UNCHANGED <<source, runs, publications, tx, shares, used>>
    BY <1>1, <1>3 DEF Insert, Goto
  <2>2. /\ StageOf(pc[p], tx[p], locks[p]) /\ DoomOf(tx[p]) /\ used' \in Used
        /\ LooksAt(pc[p], tx[p], locks[p])
        /\ \A q \in Others(p) : locks[p] \cap locks[q] = {}
    BY <2>1, Own
  <2>3. tx[p].kind = "publish"
    BY <2>1, <2>2 DEF StageOf, Pruning
  <2>4. PICK k : k = locks[p] \cup {n}
    OBVIOUS
  <2>5. /\ StageOf("retaining", tx[p], k) /\ LooksAt("retaining", tx[p], k)
        /\ ~BuildingAt("retaining", tx[p]) /\ "retaining" \in Control
    BY <1>1, <1>3, <2>1, <2>2, <2>3, <2>4 DEF StageOf, LooksAt, PublishingAt, HoldsNameAt,
       BuildingAt, Outside, Pruning, Control
  <2>6. \A q \in Others(p) : k \cap locks[q] = {}
    BY <2>1, <2>2, <2>4, FreeRow
  <2>7. /\ tx' = [tx EXCEPT ![p] = tx[p]] /\ shares' = [shares EXCEPT ![p] = shares[p]]
        /\ tx[p] \in Local /\ shares[p] \in SUBSET Run /\ k \in SUBSET (Run \cup Name)
    BY <2>1, <2>4, Own, Same
  <2>8. /\ locks' = [locks EXCEPT ![p] = k] /\ pc' = [pc EXCEPT ![p] = "retaining"]
        /\ pc[p] # "publishing" /\ DoomOf(tx[p]) /\ used' \in Used
        /\ UNCHANGED <<source, runs, publications>>
    BY <2>1, <2>2, <2>4
  <2>9. QED
    BY <2>5, <2>6, <2>7, <2>8, Moves
<1>4. QED
  BY <1>2, <1>3

LEMMA RotateInv ==
    ASSUME RatingInv, NEW p \in Process, Rotate(p)
    PROVE  RatingInv'
<1>1. /\ pc[p] = "rotating" /\ tx[p].seen # NoPublication
      /\ pc' = [pc EXCEPT ![p] = "retaining"]
      /\ UNCHANGED <<source, runs, publications, tx, locks, used>>
  BY DEF Rotate, Goto
<1>2. /\ StageOf(pc[p], tx[p], locks[p]) /\ DoomOf(tx[p]) /\ used' \in Used
      /\ LooksAt(pc[p], tx[p], locks[p])
      /\ \A q \in Others(p) : locks[p] \cap locks[q] = {}
  BY <1>1, Own
<1>3. tx[p].kind = "publish"
  BY <1>1, <1>2 DEF StageOf, Pruning
<1>4. /\ tx' = [tx EXCEPT ![p] = tx[p]] /\ locks' = [locks EXCEPT ![p] = locks[p]]
      /\ tx[p] \in Local /\ locks[p] \in SUBSET (Run \cup Name)
      /\ shares = [shares EXCEPT ![p] = shares[p]] /\ shares[p] \in SUBSET Run
  BY <1>1, Own, Same
<1>5. tx[p].seen.current \in Run
  <2>1. tx[p].name \in Name /\ publications[tx[p].name] = tx[p].seen
    BY <1>1, <1>2, <1>4, LocalFacts DEF LooksAt, HoldsNameAt
  <2>2. tx[p].seen.current # NoRun
    BY <1>1, <2>1 DEF RatingInv, CurrentInv
  <2>3. tx[p].seen \in Publication
    BY <1>4, LocalFacts
  <2>4. QED
    BY <2>2, <2>3, PublicationFacts
<1>6. PICK s : s = IF tx[p].seen.current = tx[p].run THEN shares[p] ELSE {tx[p].seen.current}
  OBVIOUS
<1>7. shares' = [shares EXCEPT ![p] = s] /\ s \in SUBSET Run
  BY <1>4, <1>5, <1>6 DEF Rotate
<1>8. /\ StageOf("retaining", tx[p], locks[p]) /\ LooksAt("retaining", tx[p], locks[p])
      /\ ~BuildingAt("retaining", tx[p]) /\ "retaining" \in Control
  BY <1>1, <1>2, <1>3 DEF StageOf, LooksAt, PublishingAt, HoldsNameAt,
     BuildingAt, Outside, Pruning, Control
<1>9. QED
  BY <1>1, <1>2, <1>4, <1>7, <1>8, Moves

LEMMA MarkFailedInv ==
    ASSUME RatingInv, NEW p \in Process, MarkFailed(p)
    PROVE  RatingInv'
<1>1. PICK t : t = [tx[p] EXCEPT !.kind = "failure"]
  OBVIOUS
<1>2. /\ pc[p] = "failing" /\ ~LockedByOther(p, tx[p].run)
      /\ pc' = [pc EXCEPT ![p] = "retaining"] /\ tx' = [tx EXCEPT ![p] = t]
      /\ locks' = [locks EXCEPT ![p] = {tx[p].run}]
      /\ UNCHANGED <<source, runs, publications, shares, used>>
  BY <1>1 DEF MarkFailed, Goto, Takeable
<1>3. /\ StageOf(pc[p], tx[p], locks[p]) /\ DoomOf(tx[p]) /\ used' \in Used
  BY <1>2, Own
<1>4. tx[p] \in Local
  BY Own, Same
<1>5. tx[p].run \in Run
  BY <1>2, <1>3 DEF StageOf, Outside, Pruning
<1>6. /\ t \in Local /\ t.kind = "failure" /\ t.run = tx[p].run
      /\ t.doomed = tx[p].doomed /\ t.gone = tx[p].gone
  BY <1>1, <1>4 DEF Local, Kind
<1>7. PICK k : k = {tx[p].run}
  OBVIOUS
<1>8. /\ StageOf("retaining", t, k) /\ LooksAt("retaining", t, k) /\ DoomOf(t)
      /\ "retaining" \in Control
  BY <1>2, <1>3, <1>5, <1>6, <1>7 DEF StageOf, LooksAt, PublishingAt, HoldsNameAt,
     DoomOf, Outside, Pruning, Control
<1>9. Building(p) /\ t.run = tx[p].run /\ pc[p] # "publishing"
  BY <1>2, <1>6 DEF Building, BuildingAt
<1>10. \A q \in Others(p) : k \cap locks[q] = {}
  BY <1>2, <1>7 DEF LockedByOther
<1>11. /\ k \in SUBSET (Run \cup Name) /\ shares[p] \in SUBSET Run
       /\ shares' = [shares EXCEPT ![p] = shares[p]]
  BY <1>2, <1>5, <1>7, Own, Same
<1>12. QED
  BY <1>2, <1>3, <1>6, <1>7, <1>8, <1>9, <1>10, <1>11, Moves

-----------------------------------------------------------------------------
(***************************************************************************)
(* The pruning, up to the commit.                                          *)
(***************************************************************************)
LEMMA SeenPublication ==
    ASSUME TypeOK, NEW p \in Process, NEW n \in Name
    PROVE  Seen(p, n) \in Publication /\ Refers(Seen(p, n)) \subseteq Run
<1>1. tx[p].seen \in Publication /\ tx[p].run \in Run \cup {NoRun}
  BY Same, LocalFacts
<1>2. publications[n] \in Publication
  BY TypeFacts
<1>3. Rotated(p) \in Publication
  BY <1>1, PublicationFacts DEF Rotated, Publication
<1>4. Seen(p, n) \in Publication
  BY <1>2, <1>3 DEF Seen
<1>5. QED
  BY <1>4, PublicationFacts DEF Refers

\* The part of Moves for a step of the pruning that keeps kind, run and seen.
LEMMA PruningMoves ==
    ASSUME RatingInv, NEW p \in Process, NEW l \in Pruning, NEW t \in Local,
           NEW k \in SUBSET (Run \cup Name),
           pc[p] \in Pruning,
           UNCHANGED <<source, runs, publications, shares, used>>,
           pc' = [pc EXCEPT ![p] = l], tx' = [tx EXCEPT ![p] = t],
           locks' = [locks EXCEPT ![p] = k],
           t.kind = tx[p].kind, t.run = tx[p].run, t.name = tx[p].name, t.seen = tx[p].seen,
           l # "deleting" => t.doomed = {} /\ t.gone = {},
           t.gone \subseteq t.doomed, t.gone \subseteq k, locks[p] \subseteq k,
           \A q \in Others(p) : k \cap locks[q] = {},
           DoomOf(t)
    PROVE  RatingInv'
<1>1. /\ StageOf(pc[p], tx[p], locks[p]) /\ LooksAt(pc[p], tx[p], locks[p]) /\ used' \in Used
  BY Own
<1>2. StageOf(l, t, k)
  BY <1>1 DEF StageOf, Outside, Pruning
<1>3. LooksAt(l, t, k)
  BY <1>1 DEF LooksAt, PublishingAt, HoldsNameAt, Pruning
<1>4. BuildingAt(l, t) => Building(p)
  BY DEF Building, BuildingAt, Pruning
<1>5. l \in Control /\ l # "validating" /\ pc[p] # "publishing"
  BY DEF Control, Pruning
<1>6. shares' = [shares EXCEPT ![p] = shares[p]] /\ shares[p] \in SUBSET Run
  BY Own, Same
<1>7. QED
  BY <1>1, <1>2, <1>3, <1>4, <1>5, <1>6, Moves

LEMMA RetainInv ==
    ASSUME RatingInv, NEW p \in Process, Retain(p)
    PROVE  RatingInv'
<1>1. PICK kept : kept = UNION {Refers(Seen(p, n)) : n \in Name}
  OBVIOUS
<1>2. kept \subseteq Run
  BY <1>1, Own, SeenPublication
<1>3. PICK t : t = [tx[p] EXCEPT !.retained = kept]
  OBVIOUS
<1>4. /\ pc[p] = "retaining" /\ pc' = [pc EXCEPT ![p] = "choosing"]
      /\ tx' = [tx EXCEPT ![p] = t]
      /\ UNCHANGED <<source, runs, publications, locks, shares, used>>
  BY <1>1, <1>3 DEF Retain, Goto
<1>5. tx[p] \in Local /\ locks[p] \in SUBSET (Run \cup Name)
      /\ locks' = [locks EXCEPT ![p] = locks[p]]
  BY <1>4, Own, Same
<1>6. /\ t \in Local /\ t.kind = tx[p].kind /\ t.run = tx[p].run /\ t.name = tx[p].name
      /\ t.seen = tx[p].seen /\ t.doomed = tx[p].doomed /\ t.gone = tx[p].gone
  BY <1>2, <1>3, <1>5 DEF Local
<1>7. tx[p].doomed = {} /\ tx[p].gone = {}
  BY <1>4, Own DEF StageOf
<1>8. DoomOf(t) /\ \A q \in Others(p) : locks[p] \cap locks[q] = {}
  BY <1>6, <1>7, Own DEF DoomOf
<1>9. "choosing" \in Pruning /\ pc[p] \in Pruning
  BY <1>4 DEF Pruning
<1>10. t.doomed = {} /\ t.gone = {} /\ t.gone \subseteq locks[p]
  BY <1>6, <1>7
<1>11. QED
  BY <1>4, <1>5, <1>6, <1>8, <1>9, <1>10, PruningMoves

LEMMA ChooseInv ==
    ASSUME RatingInv, NEW p \in Process, Choose(p)
    PROVE  RatingInv'
<1>1. PICK chosen \in SUBSET Run :
         chosen = {r \in Run : SeenStatus(p, r) \in Completed} \ tx[p].retained
  OBVIOUS
<1>2. PICK t : t = [tx[p] EXCEPT !.retained = {}, !.doomed = chosen]
  OBVIOUS
<1>3. /\ pc[p] = "choosing" /\ pc' = [pc EXCEPT ![p] = "deleting"]
      /\ tx' = [tx EXCEPT ![p] = t]
      /\ UNCHANGED <<source, runs, publications, locks, shares, used>>
  BY <1>1, <1>2 DEF Choose, Goto
<1>4. tx[p] \in Local /\ locks[p] \in SUBSET (Run \cup Name)
      /\ locks' = [locks EXCEPT ![p] = locks[p]]
  BY <1>3, Own, Same
<1>5. /\ t \in Local /\ t.kind = tx[p].kind /\ t.run = tx[p].run /\ t.name = tx[p].name
      /\ t.seen = tx[p].seen /\ t.doomed = chosen /\ t.gone = tx[p].gone
  BY <1>1, <1>2, <1>4 DEF Local
<1>6. t.gone = {} /\ t.gone \subseteq t.doomed /\ t.gone \subseteq locks[p]
  BY <1>3, <1>5, Own DEF StageOf
<1>7. DoomOf(t)
  <2> SUFFICES ASSUME NEW r \in chosen, runs[r].status = "building" PROVE tx[p].run = r
    BY <1>5 DEF DoomOf
  <2>1. SeenStatus(p, r) # runs[r].status
    BY <1>1 DEF Completed
  <2>2. QED
    BY <2>1 DEF SeenStatus
<1>8. \A q \in Others(p) : locks[p] \cap locks[q] = {}
  BY Own
<1>9. "deleting" \in Pruning /\ pc[p] \in Pruning
  BY <1>3 DEF Pruning
<1>10. QED
  BY <1>3, <1>4, <1>5, <1>6, <1>7, <1>8, <1>9, PruningMoves

LEMMA DeleteInv ==
    ASSUME RatingInv, NEW p \in Process, NEW r \in Run, Delete(p, r)
    PROVE  RatingInv'
<1>1. /\ pc[p] = "deleting" /\ r \in tx[p].doomed /\ r \notin tx[p].gone
      /\ ~LockedByOther(p, r)
      /\ UNCHANGED <<source, runs, publications, pc, shares, used>>
  BY DEF Delete, Remaining, Takeable
<1>2. /\ StageOf(pc[p], tx[p], locks[p]) /\ DoomOf(tx[p])
      /\ \A q \in Others(p) : locks[p] \cap locks[q] = {}
  BY Own
<1>3. /\ tx[p] \in Local /\ locks[p] \in SUBSET (Run \cup Name)
      /\ pc' = [pc EXCEPT ![p] = "deleting"] /\ locks = [locks EXCEPT ![p] = locks[p]]
  BY <1>1, Own, Same
<1>4. /\ tx[p].gone \subseteq tx[p].doomed /\ tx[p].gone \subseteq locks[p]
      /\ tx[p].doomed \in SUBSET Run /\ tx[p].gone \in SUBSET Run
  BY <1>2, <1>3, LocalFacts DEF StageOf
<1>5. "deleting" \in Pruning /\ pc[p] \in Pruning
  BY <1>1 DEF Pruning
<1>6. CASE runs[r].status = "absent"
  <2>1. PICK left : left = tx[p].doomed \ {r}
    OBVIOUS
  <2>2. PICK t : t = [tx[p] EXCEPT !.doomed = left]
    OBVIOUS
  <2>3. /\ t \in Local /\ t.kind = tx[p].kind /\ t.run = tx[p].run /\ t.name = tx[p].name
        /\ t.seen = tx[p].seen /\ t.doomed = left /\ t.gone = tx[p].gone
    BY <1>3, <1>4, <2>1, <2>2 DEF Local
  <2>4. tx' = [tx EXCEPT ![p] = t] /\ locks' = [locks EXCEPT ![p] = locks[p]]
    BY <1>3, <1>6, <2>1, <2>2 DEF Delete
  <2>5. DoomOf(t) /\ t.gone \subseteq t.doomed /\ t.gone \subseteq locks[p]
    BY <1>1, <1>2, <1>4, <2>1, <2>3 DEF DoomOf
  <2>6. QED
    BY <1>1, <1>2, <1>3, <1>5, <2>3, <2>4, <2>5, PruningMoves
<1>7. CASE runs[r].status # "absent"
  <2>1. PICK dead : dead = tx[p].gone \cup {r}
    OBVIOUS
  <2>2. PICK t : t = [tx[p] EXCEPT !.gone = dead]
    OBVIOUS
  <2>3. PICK k : k = locks[p] \cup {r}
    OBVIOUS
  <2>4. /\ t \in Local /\ t.kind = tx[p].kind /\ t.run = tx[p].run /\ t.name = tx[p].name
        /\ t.seen = tx[p].seen /\ t.doomed = tx[p].doomed /\ t.gone = dead
    BY <1>3, <1>4, <2>1, <2>2 DEF Local
  <2>5. tx' = [tx EXCEPT ![p] = t] /\ locks' = [locks EXCEPT ![p] = k]
    BY <1>3, <1>7, <2>1, <2>2, <2>3 DEF Delete
  <2>6. DoomOf(t) /\ t.gone \subseteq t.doomed /\ t.gone \subseteq k
    BY <1>1, <1>2, <1>4, <2>1, <2>3, <2>4 DEF DoomOf
  <2>7. \A q \in Others(p) : k \cap locks[q] = {}
    BY <1>1, <1>2, <2>3, FreeRow
  <2>8. k \in SUBSET (Run \cup Name) /\ locks[p] \subseteq k
    BY <1>3, <2>3
  <2>9. QED
    BY <1>1, <1>3, <1>5, <2>4, <2>5, <2>6, <2>7, <2>8, PruningMoves
<1>8. QED
  BY <1>6, <1>7

-----------------------------------------------------------------------------
(***************************************************************************)
(* The statements of a build, which change the row of its run at once.     *)
(***************************************************************************)
\* A run that nobody remembers gets a builder, and the others see no
\* difference: it is in nobody's hand or list, and in no publication.
LEMMA UnusedFacts ==
    ASSUME RatingInv, NEW r \in Run, Unused(r)
    PROVE  /\ \A q \in Process : tx[q].run # r /\ r \notin tx[q].doomed
           /\ \A n \in Name : r \notin Refers(publications[n])
<1>1. ~Remembered(r) /\ (runs[r].status = "absent" \/ r \notin Retained)
  BY DEF Unused, Redundant, Leftover
<1>2. \A n \in Name : r \notin Refers(publications[n])
  BY <1>1 DEF RatingInv, PublicationsAreComplete, Retained
<1>3. QED
  BY <1>1, <1>2 DEF Remembered

LEMMA CreateInv ==
    ASSUME RatingInv, NEW p \in Process, Create(p)
    PROVE  RatingInv'
<1>1. PICK r \in Run : /\ Unused(r)
                       /\ runs' = [runs EXCEPT ![r].status = "building"]
                       /\ tx' = [tx EXCEPT ![p].run = r]
  BY DEF Create
<1>2. /\ \A q \in Process : tx[q].run # r /\ r \notin tx[q].doomed
      /\ \A n \in Name : r \notin Refers(publications[n])
  BY <1>1, UnusedFacts
<1>3. /\ pc[p] = "creating" /\ pc' = [pc EXCEPT ![p] = "snapshotting"]
      /\ UNCHANGED <<source, publications, locks, shares, used>>
  BY DEF Create, Goto
<1>4. /\ TypeOK /\ StageInv /\ BuildInv /\ FactsInv /\ ExclusiveInv /\ PublishInv
      /\ DoomInv /\ CurrentInv /\ PublicationsAreComplete
  BY DEF RatingInv
<1>5. /\ tx \in [Process -> Local] /\ runs \in [Run -> RunRow]
      /\ pc \in [Process -> Control]
  BY <1>4, TypeFacts
<1>6. PICK row : row = [runs[r] EXCEPT !.status = "building"]
  OBVIOUS
<1>7. row \in RunRow /\ row.status = "building" /\ row.digest = runs[r].digest
  BY <1>5, <1>6 DEF RunRow, Status
<1>8. /\ runs' \in [Run -> RunRow] /\ runs'[r] = row
      /\ \A s \in Run : s # r => runs'[s] = runs[s]
  BY <1>1, <1>5, <1>6, <1>7
<1>9. PICK t : t = [tx[p] EXCEPT !.run = r]
  OBVIOUS
<1>10. /\ t \in Local /\ t.run = r /\ t.kind = tx[p].kind /\ t.name = tx[p].name
       /\ t.seen = tx[p].seen /\ t.doomed = tx[p].doomed /\ t.gone = tx[p].gone
  BY <1>5, <1>9 DEF Local
<1>11. /\ tx' \in [Process -> Local] /\ tx'[p] = t /\ pc'[p] = "snapshotting"
       /\ pc' \in [Process -> Control]
       /\ \A q \in Process : q # p => tx'[q] = tx[q] /\ pc'[q] = pc[q]
  BY <1>1, <1>3, <1>5, <1>9, <1>10 DEF Control
<1>12. StageOf(pc[p], tx[p], locks[p]) /\ tx[p].kind = "publish"
       /\ tx[p].doomed = {} /\ tx[p].gone = {}
  BY <1>3, <1>4 DEF StageInv, StageOf, Pruning
<1>13. TypeOK'
  BY <1>3, <1>4, <1>8, <1>11 DEF TypeOK
<1>14. StageInv'
  <2>1. StageOf("snapshotting", t, locks[p])
    BY <1>10, <1>12 DEF StageOf, Outside, Pruning
  <2>2. QED
    BY <1>3, <1>4, <1>11, <2>1 DEF StageInv
<1>15. BuildInv'
  <2> SUFFICES ASSUME NEW q \in Process, Building(q)' PROVE Alone(q)'
    BY DEF BuildInv
  <2>1. CASE q = p
    BY <1>2, <1>7, <1>8, <1>10, <1>11, <2>1 DEF Alone, Others
  <2>2. CASE q # p
    <3>1. Building(q) /\ q \in Others(p)
      BY <1>11, <2>2 DEF Building, Others
    <3>2. tx[q].run \in Run /\ Alone(q)
      BY <1>4, <3>1, BuilderAlone DEF BuildInv
    <3>3. QED
      BY <1>2, <1>8, <1>10, <1>11, <2>2, <3>2 DEF Alone, Others
  <2>3. QED
    BY <2>1, <2>2
<1>16. FactsInv'
  <2>1. ASSUME NEW q \in Process, pc'[q] = "validating" PROVE runs'[tx'[q].run].digest # NoFacts
    <3>1. q # p /\ pc[q] = "validating" /\ tx'[q] = tx[q]
      BY <1>11, <2>1
    <3>2. tx[q].run \in Run
      BY <1>4, <3>1 DEF StageInv, StageOf, Outside, Pruning
    <3>3. QED
      BY <1>2, <1>4, <1>8, <3>1, <3>2 DEF FactsInv
  <2>2. \A s \in Run : Publishable(s)' => runs'[s].digest # NoFacts
    BY <1>4, <1>7, <1>8 DEF FactsInv, Publishable
  <2>3. QED
    BY <2>1, <2>2 DEF FactsInv
<1>17. ExclusiveInv'
  BY <1>3, <1>4 DEF ExclusiveInv, Others
<1>18. PublishInv'
  <2> SUFFICES ASSUME NEW q \in Process PROVE LooksAt(pc[q], tx[q], locks[q])'
    BY DEF PublishInv
  <2>1. CASE q = p
    BY <1>11, <2>1 DEF LooksAt, PublishingAt, HoldsNameAt, Pruning
  <2>2. CASE q # p
    <3>1. LooksAt(pc[q], tx[q], locks[q]) /\ StageOf(pc[q], tx[q], locks[q]) /\ tx[q].run # r
      BY <1>2, <1>4 DEF PublishInv, StageInv
    <3>2. PublishingAt(pc[q], tx[q]) => tx[q].run \in Run
      BY <3>1 DEF StageOf, PublishingAt, Outside, Pruning
    <3>3. QED
      BY <1>3, <1>8, <1>11, <2>2, <3>1, <3>2 DEF LooksAt, Publishable
  <2>3. QED
    BY <2>1, <2>2
<1>19. DoomInv'
  <2>1. \A q \in Process : tx'[q].doomed = tx[q].doomed
    BY <1>10, <1>11
  <2>2. ASSUME NEW q \in Process, NEW s \in tx[q].doomed, runs'[s].status = "building"
        PROVE  tx'[q].run = s
    <3>1. s # r /\ s \in Run
      BY <1>2, <1>5, LocalFacts
    <3>2. tx[q].run = s /\ q # p
      BY <1>4, <1>8, <1>12, <2>2, <3>1 DEF DoomInv, DoomOf
    <3>3. QED
      BY <1>11, <3>2
  <2>3. QED
    BY <2>1, <2>2 DEF DoomInv, DoomOf
<1>20. CurrentInv'
  BY <1>3, <1>4 DEF CurrentInv
<1>21. PublicationsAreComplete'
  <2>1. publications \in [Name -> Publication]
    BY <1>4, TypeFacts
  <2>2. \A n \in Name : Refers(publications[n]) \subseteq Run
    BY <2>1, PublicationFacts DEF Refers
  <2>3. QED
    BY <1>2, <1>3, <1>4, <1>8, <2>2 DEF PublicationsAreComplete, Refers
<1>22. QED
  BY <1>13, <1>14, <1>15, <1>16, <1>17, <1>18, <1>19, <1>20, <1>21 DEF RatingInv

LEMMA SnapshotInv ==
    ASSUME RatingInv, NEW p \in Process, Snapshot(p)
    PROVE  RatingInv'
<1>1. /\ TypeOK /\ StageInv /\ BuildInv /\ FactsInv /\ ExclusiveInv /\ PublishInv
      /\ DoomInv /\ CurrentInv /\ PublicationsAreComplete
  BY DEF RatingInv
<1>2. /\ pc[p] = "snapshotting" /\ pc' = [pc EXCEPT ![p] = "validating"]
      /\ UNCHANGED <<source, publications, tx, locks, shares, used>>
  BY DEF Snapshot, Goto
<1>3. PICK r \in Run : r = tx[p].run
  BY <1>1, <1>2 DEF StageInv, StageOf, Outside, Pruning
<1>4. /\ runs \in [Run -> RunRow] /\ pc \in [Process -> Control] /\ source \in Facts
      /\ publications \in [Name -> Publication]
  BY <1>1, TypeFacts
<1>5. PICK row : row = [runs[r] EXCEPT !.digest = source]
  OBVIOUS
<1>6. /\ row \in RunRow /\ row.status = runs[r].status /\ row.digest # NoFacts
  BY <1>4, <1>5, NullAssumption, LimitAssumption DEF RunRow, Facts
<1>7. runs' = [runs EXCEPT ![r] = row]
  BY <1>3, <1>5 DEF Snapshot
<1>8. /\ runs' \in [Run -> RunRow] /\ runs'[r] = row
      /\ \A s \in Run : s # r => runs'[s] = runs[s]
      /\ \A s \in Run : /\ runs'[s].status = runs[s].status
                        /\ runs[s].digest # NoFacts => runs'[s].digest # NoFacts
  BY <1>4, <1>6, <1>7
<1>9. /\ pc' \in [Process -> Control] /\ pc'[p] = "validating"
      /\ \A q \in Process : q # p => pc'[q] = pc[q]
  BY <1>2, <1>4 DEF Control
<1>10. TypeOK'
  BY <1>1, <1>2, <1>8, <1>9 DEF TypeOK
<1>11. StageInv'
  <2>1. StageOf("validating", tx[p], locks[p])
    BY <1>1, <1>2 DEF StageInv, StageOf, Outside, Pruning
  <2>2. QED
    BY <1>1, <1>2, <1>9, <2>1 DEF StageInv
<1>12. BuildInv'
  <2> SUFFICES ASSUME NEW q \in Process, Building(q)' PROVE Alone(q)'
    BY DEF BuildInv
  <2>1. Building(q)
    BY <1>2, <1>9 DEF Building, BuildingAt
  <2>2. Alone(q)
    BY <1>1, <2>1 DEF BuildInv
  <2>3. tx[q].run \in Run
    BY <1>1, <2>1 DEF StageInv, StageOf, Building, BuildingAt, Outside, Pruning
  <2>4. \A z \in Process : pc'[z] = "publishing" \/ pc[z] # "publishing"
    BY <1>2, <1>9
  <2>5. QED
    BY <1>2, <1>8, <2>2, <2>3, <2>4 DEF Alone, Others
<1>13. FactsInv'
  <2>1. ASSUME NEW q \in Process, pc'[q] = "validating" PROVE runs'[tx'[q].run].digest # NoFacts
    <3>1. CASE q = p
      BY <1>2, <1>3, <1>6, <1>8, <3>1
    <3>2. CASE q # p
      <4>1. pc[q] = "validating"
        BY <1>9, <2>1, <3>2
      <4>2. tx[q].run \in Run
        BY <1>1, <4>1 DEF StageInv, StageOf, Outside, Pruning
      <4>3. QED
        BY <1>1, <1>2, <1>8, <4>1, <4>2 DEF FactsInv
    <3>3. QED
      BY <3>1, <3>2
  <2>2. \A s \in Run : Publishable(s)' => runs'[s].digest # NoFacts
    BY <1>1, <1>8 DEF FactsInv, Publishable
  <2>3. QED
    BY <2>1, <2>2 DEF FactsInv
<1>14. ExclusiveInv' /\ CurrentInv'
  BY <1>1, <1>2 DEF ExclusiveInv, Others, CurrentInv
<1>15. PublishInv'
  <2> SUFFICES ASSUME NEW q \in Process PROVE LooksAt(pc[q], tx[q], locks[q])'
    BY DEF PublishInv
  <2>1. CASE q = p
    BY <1>9, <2>1 DEF LooksAt, PublishingAt, HoldsNameAt, Pruning
  <2>2. CASE q # p
    <3>1. LooksAt(pc[q], tx[q], locks[q]) /\ StageOf(pc[q], tx[q], locks[q])
      BY <1>1 DEF PublishInv, StageInv
    <3>2. PublishingAt(pc[q], tx[q]) => tx[q].run \in Run
      BY <3>1 DEF StageOf, PublishingAt, Outside, Pruning
    <3>3. QED
      BY <1>2, <1>8, <1>9, <2>2, <3>1, <3>2 DEF LooksAt, Publishable
  <2>3. QED
    BY <2>1, <2>2
<1>16. DoomInv'
  <2>1. \A q \in Process : tx[q].doomed \subseteq Run
    BY <1>1, Same, LocalFacts
  <2>2. QED
    BY <1>1, <1>2, <1>8, <2>1 DEF DoomInv, DoomOf
<1>17. PublicationsAreComplete'
  <2>1. \A n \in Name : Refers(publications[n]) \subseteq Run
    BY <1>4, PublicationFacts DEF Refers
  <2>2. QED
    BY <1>1, <1>2, <1>8, <2>1 DEF PublicationsAreComplete, Refers
<1>18. QED
  BY <1>10, <1>11, <1>12, <1>13, <1>14, <1>15, <1>16, <1>17 DEF RatingInv

LEMMA ValidateInv ==
    ASSUME RatingInv, NEW p \in Process, CalculateAndValidate(p)
    PROVE  RatingInv'
<1>1. /\ TypeOK /\ StageInv /\ BuildInv /\ FactsInv /\ ExclusiveInv /\ PublishInv
      /\ DoomInv /\ CurrentInv /\ PublicationsAreComplete
  BY DEF RatingInv
<1>2. /\ pc[p] = "validating" /\ pc' = [pc EXCEPT ![p] = "publishing"]
      /\ UNCHANGED <<source, publications, tx, locks, shares, used>>
  BY DEF CalculateAndValidate, Goto
<1>3. PICK r \in Run : r = tx[p].run
  BY <1>1, <1>2 DEF StageInv, StageOf, Outside, Pruning
<1>4. /\ runs \in [Run -> RunRow] /\ pc \in [Process -> Control]
      /\ publications \in [Name -> Publication]
  BY <1>1, TypeFacts
<1>5. PICK row : row = [runs[r] EXCEPT !.status = "validated"]
  OBVIOUS
<1>6. /\ row \in RunRow /\ row.status = "validated" /\ row.digest = runs[r].digest
  BY <1>4, <1>5 DEF RunRow, Status
<1>7. runs' = [runs EXCEPT ![r] = row]
  BY <1>3, <1>5 DEF CalculateAndValidate
<1>8. /\ runs' \in [Run -> RunRow] /\ runs'[r] = row
      /\ \A s \in Run : s # r => runs'[s] = runs[s]
      /\ \A s \in Run : runs'[s].digest = runs[s].digest
  BY <1>4, <1>6, <1>7
<1>9. /\ pc' \in [Process -> Control] /\ pc'[p] = "publishing"
      /\ \A q \in Process : q # p => pc'[q] = pc[q]
  BY <1>2, <1>4 DEF Control
<1>10. /\ runs[r].status = "building" /\ runs[r].digest # NoFacts
       /\ \A q \in Others(p) : tx[q].run = r => pc[q] = "publishing"
  BY <1>1, <1>2, <1>3 DEF BuildInv, Building, BuildingAt, Alone, FactsInv
<1>11. TypeOK'
  BY <1>1, <1>2, <1>8, <1>9 DEF TypeOK
<1>12. StageInv'
  <2>1. StageOf("publishing", tx[p], locks[p])
    BY <1>1, <1>2 DEF StageInv, StageOf, Outside, Pruning
  <2>2. QED
    BY <1>1, <1>2, <1>9, <2>1 DEF StageInv
<1>13. BuildInv'
  <2> SUFFICES ASSUME NEW q \in Process, Building(q)' PROVE Alone(q)'
    BY DEF BuildInv
  <2>1. q # p
    BY <1>9 DEF Building, BuildingAt, Pruning
  <2>2. Building(q) /\ q \in Others(p)
    BY <1>2, <1>9, <2>1 DEF Building, Others
  <2>3. Alone(q) /\ tx[q].run \in Run
    BY <1>1, <2>2, BuilderAlone DEF BuildInv
  <2>4. tx[q].run # r
    BY <1>10, <2>2 DEF Building, BuildingAt, Pruning
  <2>5. \A z \in Process : pc'[z] = "publishing" \/ pc[z] # "publishing"
    BY <1>9
  <2>6. QED
    BY <1>2, <1>8, <2>3, <2>4, <2>5 DEF Alone, Others
<1>14. FactsInv'
  <2>1. ASSUME NEW q \in Process, pc'[q] = "validating" PROVE runs'[tx'[q].run].digest # NoFacts
    <3>1. pc[q] = "validating"
      BY <1>9, <2>1
    <3>2. tx[q].run \in Run
      BY <1>1, <3>1 DEF StageInv, StageOf, Outside, Pruning
    <3>3. QED
      BY <1>1, <1>2, <1>8, <3>1, <3>2 DEF FactsInv
  <2>2. \A s \in Run : Publishable(s)' => runs'[s].digest # NoFacts
    BY <1>1, <1>8, <1>10 DEF FactsInv, Publishable
  <2>3. QED
    BY <2>1, <2>2 DEF FactsInv
<1>15. ExclusiveInv' /\ CurrentInv'
  BY <1>1, <1>2 DEF ExclusiveInv, Others, CurrentInv
<1>16. PublishInv'
  <2> SUFFICES ASSUME NEW q \in Process PROVE LooksAt(pc[q], tx[q], locks[q])'
    BY DEF PublishInv
  <2>1. CASE q = p
    BY <1>9, <2>1 DEF LooksAt, PublishingAt, HoldsNameAt, Pruning
  <2>2. CASE q # p
    <3>1. LooksAt(pc[q], tx[q], locks[q]) /\ StageOf(pc[q], tx[q], locks[q])
      BY <1>1 DEF PublishInv, StageInv
    <3>2. PublishingAt(pc[q], tx[q]) => tx[q].run \in Run
      BY <3>1 DEF StageOf, PublishingAt, Outside, Pruning
    <3>3. QED
      BY <1>2, <1>6, <1>8, <1>9, <2>2, <3>1, <3>2 DEF LooksAt, Publishable
  <2>3. QED
    BY <2>1, <2>2
<1>17. DoomInv'
  <2>1. \A q \in Process : tx[q].doomed \subseteq Run
    BY <1>1, Same, LocalFacts
  <2>2. \A s \in Run : runs'[s].status = "building" => runs[s].status = "building"
    BY <1>6, <1>8
  <2>3. QED
    BY <1>1, <1>2, <2>1, <2>2 DEF DoomInv, DoomOf
<1>18. PublicationsAreComplete'
  <2>1. \A n \in Name : Refers(publications[n]) \subseteq Run
    BY <1>4, PublicationFacts DEF Refers
  <2>2. \A n \in Name : r \notin Refers(publications[n])
    BY <1>1, <1>10 DEF PublicationsAreComplete
  <2>3. QED
    BY <1>1, <1>2, <1>8, <2>1, <2>2 DEF PublicationsAreComplete, Refers
<1>19. QED
  BY <1>11, <1>12, <1>13, <1>14, <1>15, <1>16, <1>17, <1>18 DEF RatingInv

-----------------------------------------------------------------------------
(***************************************************************************)
(* The commit.                                                             *)
(***************************************************************************)
\* What the commit of a transaction does to the runs: those it has deleted
\* vanish, its own becomes published or failed, the others stay.
LEMMA CommitRuns ==
    ASSUME RatingInv, NEW p \in Process, pc[p] = "deleting", runs' = Committed(p)
    PROVE  /\ runs' \in [Run -> RunRow]
           /\ \A r \in tx[p].gone : r \in Run /\ runs'[r] = NoRunRow
           /\ \A r \in Run : r \notin tx[p].gone => runs'[r].digest = runs[r].digest
           /\ \A r \in Run : r \notin tx[p].gone /\ r # tx[p].run
                                => runs'[r].status = runs[r].status
           /\ tx[p].run \in Run /\ tx[p].run \notin tx[p].gone =>
                 /\ tx[p].kind = "publish" => runs'[tx[p].run].status = "published"
                 /\ tx[p].kind = "failure" => runs'[tx[p].run].status = "failed"
           /\ tx[p].run \in Run => tx[p].kind \in {"publish", "failure"}
<1>1. /\ StageOf(pc[p], tx[p], locks[p]) /\ tx[p] \in Local /\ runs \in [Run -> RunRow]
  BY Own, Same, TypeFacts
<1>2. /\ tx[p].kind \in Kind /\ tx[p].gone \in SUBSET Run
      /\ tx[p].run \in Run => tx[p].kind \in {"publish", "failure"}
  BY <1>1, LocalFacts, NullAssumption DEF StageOf, Kind
<1>3. \A r \in Run : SeenStatus(p, r) \in Status
  BY <1>1, RowFacts DEF SeenStatus, Status
<1>4. \A r \in Run : [runs[r] EXCEPT !.status = SeenStatus(p, r)] \in RunRow
  BY <1>1, <1>3 DEF RunRow
<1>5. runs' \in [Run -> RunRow]
  BY <1>4, NullFacts DEF Committed
<1>6. \A r \in tx[p].gone : r \in Run /\ runs'[r] = NoRunRow
  BY <1>2 DEF Committed
<1>7. ASSUME NEW r \in Run, r \notin tx[p].gone
      PROVE  runs'[r].digest = runs[r].digest /\ runs'[r].status = SeenStatus(p, r)
  <2>1. runs'[r] = [runs[r] EXCEPT !.status = SeenStatus(p, r)]
    BY <1>7 DEF Committed
  <2>2. runs[r] \in RunRow
    BY <1>1
  <2>3. QED
    BY <2>1, <2>2 DEF RunRow
<1>8. QED
  BY <1>2, <1>5, <1>6, <1>7 DEF SeenStatus

\* And what it does to the publications: at most one moves on, by one
\* generation, to the run that was published; none refers to a deleted run.
LEMMA CommitPublications ==
    ASSUME RatingInv, NEW p \in Process, pc[p] = "deleting", Orphaned(p) = {},
           publications' = [n \in Name |-> Seen(p, n)], NEW n \in Name
    PROVE  /\ publications'[n] \in Publication
           /\ Refers(publications'[n]) \cap tx[p].gone = {}
           /\ Refers(publications'[n]) \subseteq Run
           /\ \/ publications'[n] = publications[n]
              \/ /\ tx[p].kind = "publish" /\ n = tx[p].name
                 /\ tx[p].run \in Run
                 /\ publications'[n].current = tx[p].run
                 /\ publications'[n].previous = publications[n].current
                 /\ publications[n].current # tx[p].run
<1>1. publications'[n] = Seen(p, n)
  OBVIOUS
<1>2. Refers(publications'[n]) \cap tx[p].gone = {}
  BY <1>1 DEF Orphaned
<1>3. publications'[n] \in Publication /\ Refers(publications'[n]) \subseteq Run
  BY <1>1, Own, SeenPublication
<1>4. CASE tx[p].kind = "publish" /\ n = tx[p].name
  <2>1. publications[n] = tx[p].seen /\ tx[p].run \in Run
    BY <1>4, Own DEF LooksAt, HoldsNameAt, StageOf, Outside, Pruning
  <2>2. QED
    BY <1>1, <1>2, <1>3, <1>4, <2>1 DEF Seen, Rotated
<1>5. QED
  BY <1>1, <1>2, <1>3, <1>4 DEF Seen

LEMMA CommitInv ==
    ASSUME RatingInv, NEW p \in Process, Commit(p)
    PROVE  RatingInv'
<1>1. /\ TypeOK /\ StageInv /\ BuildInv /\ FactsInv /\ ExclusiveInv /\ PublishInv
      /\ DoomInv /\ CurrentInv /\ PublicationsAreComplete
  BY DEF RatingInv
<1>2. /\ pc[p] = "deleting" /\ Orphaned(p) = {} /\ runs' = Committed(p)
      /\ publications' = [n \in Name |-> Seen(p, n)]
      /\ pc' = [pc EXCEPT ![p] = "idle"] /\ tx' = [tx EXCEPT ![p] = Blank]
      /\ locks' = [locks EXCEPT ![p] = {}] /\ shares' = [shares EXCEPT ![p] = {}]
      /\ UNCHANGED <<source, used>>
  BY DEF Commit, Return, Goto
<1>3. DEFINE own == tx[p].run
             gone == tx[p].gone
<1>4. /\ runs' \in [Run -> RunRow]
      /\ \A r \in gone : r \in Run /\ runs'[r] = NoRunRow
      /\ \A r \in Run : r \notin gone => runs'[r].digest = runs[r].digest
      /\ \A r \in Run : r \notin gone /\ r # own => runs'[r].status = runs[r].status
      /\ own \in Run /\ own \notin gone =>
            /\ tx[p].kind = "publish" => runs'[own].status = "published"
            /\ tx[p].kind = "failure" => runs'[own].status = "failed"
      /\ own \in Run => tx[p].kind \in {"publish", "failure"}
  BY <1>2, CommitRuns
<1>5. /\ gone \subseteq tx[p].doomed /\ gone \subseteq locks[p]
      /\ tx[p].kind = "publish" => own \in locks[p] /\ Publishable(own)
      /\ tx[p].kind = "publish" => tx[p].name \in locks[p]
      /\ tx[p].kind = "failure" => Alone(p)
  BY <1>1, <1>2 DEF StageInv, StageOf, PublishInv, LooksAt, PublishingAt, HoldsNameAt,
                    BuildInv, Building, BuildingAt, Pruning
<1>6. /\ pc' \in [Process -> Control] /\ tx' \in [Process -> Local]
      /\ locks' \in [Process -> SUBSET (Run \cup Name)] /\ shares' \in [Process -> SUBSET Run]
      /\ pc'[p] = "idle" /\ tx'[p] = Blank /\ locks'[p] = {}
      /\ \A q \in Process : q # p => pc'[q] = pc[q] /\ tx'[q] = tx[q] /\ locks'[q] = locks[q]
  BY <1>1, <1>2, TypeFacts, BlankFacts DEF Control
<1>7. \A n \in Name :
        /\ publications'[n] \in Publication
        /\ Refers(publications'[n]) \cap gone = {} /\ Refers(publications'[n]) \subseteq Run
        /\ \/ publications'[n] = publications[n]
           \/ /\ tx[p].kind = "publish" /\ n = tx[p].name /\ own \in Run
              /\ publications'[n].current = own
              /\ publications'[n].previous = publications[n].current
              /\ publications[n].current # own
  BY <1>2, CommitPublications
<1>8. publications' \in [Name -> Publication]
  BY <1>2, <1>7
<1> HIDE DEF own, gone
<1>9. TypeOK'
  BY <1>1, <1>2, <1>4, <1>6, <1>8 DEF TypeOK
<1>10. StageInv'
  <2>1. StageOf("idle", Blank, {})
    BY BlankFacts DEF StageOf, Pruning, Outside
  <2>2. QED
    BY <1>1, <1>6, <2>1 DEF StageInv
<1>11. ASSUME NEW q \in Process, q # p, Building(q)
       PROVE  /\ tx[q].run \in Run /\ tx[q].run \notin gone /\ tx[q].run # own
              /\ Alone(q)
  <2>1. q \in Others(p) /\ pc[p] # "publishing"
    BY <1>2, <1>11 DEF Others
  <2>2. tx[q].run \in Run /\ runs[tx[q].run].status = "building" /\ tx[q].run # own
    BY <1>11, <2>1, BuilderAlone DEF own
  <2>3. tx[q].run \notin tx[p].doomed
    BY <1>1, <2>2 DEF DoomInv, DoomOf, own
  <2>4. QED
    BY <1>1, <1>5, <1>11, <2>2, <2>3 DEF BuildInv
<1>12. BuildInv'
  <2> SUFFICES ASSUME NEW q \in Process, Building(q)' PROVE Alone(q)'
    BY DEF BuildInv
  <2>1. q # p
    BY <1>6 DEF Building, BuildingAt, Pruning
  <2>2. Building(q)
    BY <1>6, <2>1 DEF Building
  <2>3. tx[q].run \in Run /\ runs'[tx[q].run].status = runs[tx[q].run].status /\ Alone(q)
    BY <1>4, <1>11, <2>1, <2>2
  <2>4. Blank.run # tx[q].run
    BY <2>3, BlankFacts, NullAssumption
  <2>5. QED
    BY <1>6, <2>1, <2>3, <2>4 DEF Alone, Others
<1>13. FactsInv'
  <2>1. ASSUME NEW q \in Process, pc'[q] = "validating" PROVE runs'[tx'[q].run].digest # NoFacts
    <3>1. q # p /\ pc[q] = "validating" /\ tx'[q] = tx[q]
      BY <1>6, <2>1
    <3>2. Building(q)
      BY <3>1 DEF Building, BuildingAt
    <3>3. QED
      BY <1>1, <1>4, <1>11, <3>1, <3>2 DEF FactsInv
  <2>2. ASSUME NEW r \in Run, Publishable(r)' PROVE runs'[r].digest # NoFacts
    <3>1. r \notin gone
      BY <1>4, <2>2, NullFacts DEF Publishable
    <3>2. Publishable(r)
      BY <1>4, <1>5, <2>2, <3>1 DEF Publishable
    <3>3. QED
      BY <1>1, <1>4, <3>1, <3>2 DEF FactsInv
  <2>3. QED
    BY <2>1, <2>2 DEF FactsInv
<1>14. ExclusiveInv'
  BY <1>1, <1>6 DEF ExclusiveInv, Others
<1>15. PublishInv'
  <2> SUFFICES ASSUME NEW q \in Process PROVE LooksAt(pc[q], tx[q], locks[q])'
    BY DEF PublishInv
  <2>1. CASE q = p
    BY <1>6, <2>1 DEF LooksAt, PublishingAt, HoldsNameAt, Pruning
  <2>2. CASE q # p
    <3>1. /\ LooksAt(pc[q], tx[q], locks[q]) /\ StageOf(pc[q], tx[q], locks[q])
          /\ locks[p] \cap locks[q] = {} /\ tx[q].name \in Name
      BY <1>1, <2>2, Same, LocalFacts DEF PublishInv, StageInv, ExclusiveInv, Others
    <3>2. ASSUME PublishingAt(pc[q], tx[q])
          PROVE  tx[q].run \in locks[q] /\ runs'[tx[q].run].status \in {"validated", "published"}
      <4>1. tx[q].run \in Run /\ tx[q].run \in locks[q] /\ Publishable(tx[q].run)
        BY <3>1, <3>2 DEF StageOf, LooksAt, PublishingAt, Outside, Pruning
      <4>2. tx[q].run \notin gone
        BY <1>5, <3>1, <4>1
      <4>3. tx[q].run = own => tx[p].kind = "publish"
        BY <1>4, <1>5, <4>1 DEF Alone, Publishable, own
      <4>4. QED
        BY <1>4, <4>1, <4>2, <4>3 DEF Publishable
    <3>3. ASSUME HoldsNameAt(pc[q], tx[q])
          PROVE  tx[q].name \in locks[q] /\ publications'[tx[q].name] = tx[q].seen
      <4>1. tx[q].name \in locks[q] /\ publications[tx[q].name] = tx[q].seen
        BY <3>1, <3>3 DEF LooksAt
      <4>2. tx[p].kind = "publish" => tx[q].name # tx[p].name
        BY <1>5, <3>1, <4>1
      <4>3. QED
        BY <1>7, <3>1, <4>1, <4>2
    <3>4. QED
      BY <1>6, <2>2, <3>2, <3>3 DEF LooksAt, Publishable
  <2>3. QED
    BY <2>1, <2>2
<1>16. DoomInv'
  <2> SUFFICES ASSUME NEW q \in Process, NEW r \in tx'[q].doomed, runs'[r].status = "building"
               PROVE  tx'[q].run = r
    BY DEF DoomInv, DoomOf
  <2>1. q # p /\ tx'[q] = tx[q]
    BY <1>6, BlankFacts
  <2>2. r \in Run
    BY <1>1, <2>1, Same, LocalFacts
  <2>3. r \notin gone
    BY <1>4, NullFacts
  <2>4. runs[r].status = "building"
    BY <1>4, <2>2, <2>3
  <2>5. QED
    BY <1>1, <2>1, <2>4 DEF DoomInv, DoomOf
<1>17. CurrentInv'
  <2> SUFFICES ASSUME NEW n \in Name, publications'[n].current = NoRun
               PROVE  publications'[n] = NoPublication
    BY DEF CurrentInv
  <2>1. publications'[n] = publications[n]
    BY <1>7, NullAssumption
  <2>2. QED
    BY <1>1, <2>1 DEF CurrentInv
<1>18. PublicationsAreComplete'
  <2> SUFFICES ASSUME NEW n \in Name, NEW r \in Refers(publications'[n])
               PROVE  runs'[r].status = "published" /\ runs'[r].digest # NoFacts
    BY DEF PublicationsAreComplete, Refers
  <2>1. r \in Run /\ r \notin gone
    BY <1>7
  <2>2. CASE r \in Refers(publications[n])
    <3>1. runs[r].status = "published" /\ runs[r].digest # NoFacts
      BY <1>1, <2>2 DEF PublicationsAreComplete
    <3>2. r = own => tx[p].kind = "publish"
      BY <1>4, <1>5, <2>1, <3>1 DEF Alone, own
    <3>3. QED
      BY <1>4, <2>1, <3>1, <3>2
  <2>3. CASE r \notin Refers(publications[n])
    <3>1. tx[p].kind = "publish" /\ r = own
      BY <1>7, <2>3 DEF Refers
    <3>2. runs[r].digest # NoFacts
      BY <1>1, <1>5, <2>1, <3>1 DEF FactsInv
    <3>3. QED
      BY <1>4, <2>1, <3>1, <3>2
  <2>4. QED
    BY <2>2, <2>3
<1>19. QED
  BY <1>9, <1>10, <1>12, <1>13, <1>14, <1>15, <1>16, <1>17, <1>18 DEF RatingInv

-----------------------------------------------------------------------------
(***************************************************************************)
(* The whole system.                                                       *)
(***************************************************************************)
LEMMA RatingInitially == Init => RatingInv
<1> SUFFICES ASSUME Init PROVE RatingInv
  OBVIOUS
<1>1. /\ source = 0 /\ runs = [r \in Run |-> NoRunRow]
      /\ publications = [n \in Name |-> NoPublication]
      /\ pc = [p \in Process |-> "idle"] /\ tx = [p \in Process |-> Blank]
      /\ locks = [p \in Process |-> {}] /\ shares = [p \in Process |-> {}]
      /\ used = [crashes |-> 0, raises |-> 0, manual |-> 0]
  BY DEF Init
<1>2. used \in Used /\ source \in Facts
  BY <1>1, LimitAssumption DEF Used, Facts
<1>3. TypeOK
  BY <1>1, <1>2, NullFacts, BlankFacts DEF TypeOK, Used, Control
<1>4. StageInv /\ DoomInv /\ PublishInv
  BY <1>1, BlankFacts DEF StageInv, StageOf, DoomInv, DoomOf, PublishInv, LooksAt,
                          PublishingAt, HoldsNameAt, Outside, Pruning
<1>5. BuildInv /\ FactsInv /\ ExclusiveInv
  BY <1>1, NullFacts DEF BuildInv, Building, BuildingAt, FactsInv, Publishable,
                         ExclusiveInv, Others, Pruning
<1>6. CurrentInv /\ PublicationsAreComplete
  BY <1>1, NullFacts DEF CurrentInv, PublicationsAreComplete, Refers
<1>7. QED
  BY <1>3, <1>4, <1>5, <1>6 DEF RatingInv

LEMMA SourceInv ==
    ASSUME RatingInv, SourceChanges
    PROVE  RatingInv'
<1>1. source \in Facts /\ MaxChanges \in Nat
  BY LimitAssumption, TypeFacts DEF RatingInv
<1>2. source' \in Facts
  BY <1>1 DEF SourceChanges, Facts
<1>3. UNCHANGED <<runs, publications, pc, tx, locks, shares, used>>
  BY DEF SourceChanges
<1>4. QED
  BY <1>2, <1>3 DEF RatingInv, TypeOK, StageInv, BuildInv, Building, Alone, FactsInv,
     Publishable, ExclusiveInv, PublishInv, LooksAt, DoomInv, DoomOf, CurrentInv,
     PublicationsAreComplete

(* The processes, their locks and the two tables agree in this way in      *)
(* every state (RatingService, RatingRepository).                          *)
THEOREM RatingInvariance == Spec => []RatingInv
<1>1. RatingInv /\ [Next]_vars => RatingInv'
  <2> SUFFICES ASSUME RatingInv, [Next]_vars PROVE RatingInv'
    OBVIOUS
  <2>1. CASE SourceChanges
    BY <2>1, SourceInv
  <2>2. ASSUME NEW p \in Process, Proceed(p) PROVE RatingInv'
    BY <2>2, CallInv, CompareInv, CreateInv, SnapshotInv, ValidateInv, RetainInv,
       ChooseInv, CommitInv, AbortInv DEF Proceed, DeadlockVictim
  <2>3. ASSUME NEW p \in Process, TakeRow(p) PROVE RatingInv'
    BY <2>3, LockRunInv, LockPublicationInv, InsertInv, RotateInv, MarkFailedInv,
       DeleteInv, AbortInv DEF TakeRow, Refuse, ForeignKeyFails
  <2>4. ASSUME NEW p \in Process,
               BuildRaises(p) \/ Crash(p) \/ \E n \in Name, r \in Run : PublishByHand(p, n, r)
        PROVE  RatingInv'
    BY <2>4, BuildRaisesInv, CrashInv, CallInv
  <2>5. CASE UNCHANGED vars
    BY <2>5 DEF vars, RatingInv, TypeOK, StageInv, BuildInv, Building, Alone, FactsInv,
       Publishable, ExclusiveInv, PublishInv, LooksAt, DoomInv, DoomOf, CurrentInv,
       PublicationsAreComplete
  <2>6. QED
    BY <2>1, <2>2, <2>3, <2>4, <2>5 DEF Next
<1>2. QED
  BY <1>1, RatingInitially, PTL DEF Spec

(* The tables, the local data and the locks keep their types.              *)
THEOREM RatingTypeCorrect == Spec => []TypeOK
  BY RatingInvariance, PTL DEF RatingInv

(* Both generations of a publication are runs that are there, published    *)
(* and with known facts, whoever prunes, publishes, crashes or is rolled   *)
(* back at the same moment (publish, prune_unretained_runs).               *)
THEOREM PublishedIsComplete == Spec => []PublicationsAreComplete
  BY RatingInvariance, PTL DEF RatingInv

\* Only a commit writes publications, and only it makes a run vanish.
LEMMA OnlyCommitsPublish ==
    ASSUME RatingInv, [Next]_vars, \A p \in Process : ~Commit(p)
    PROVE  /\ publications' = publications
           /\ \A r \in Run : runs[r].status = "building" => runs'[r].status # "absent"
<1>1. runs \in [Run -> RunRow]
  BY TypeFacts DEF RatingInv
<1>2. CASE \E p \in Process : Create(p)
  <2>1. PICK r \in Run : /\ runs' = [runs EXCEPT ![r].status = "building"]
                         /\ publications' = publications
    BY <1>2 DEF Create
  <2>2. runs'[r].status = "building" /\ \A s \in Run : s # r => runs'[s] = runs[s]
    BY <1>1, <2>1 DEF RunRow
  <2>3. QED
    BY <2>1, <2>2
<1>3. CASE \E p \in Process : Snapshot(p)
  <2>1. PICK r : /\ runs' = [runs EXCEPT ![r].digest = source]
                 /\ publications' = publications
    BY <1>3 DEF Snapshot
  <2>2. \A s \in Run : runs'[s].status = runs[s].status
    BY <1>1, <2>1 DEF RunRow
  <2>3. QED
    BY <2>1, <2>2
<1>4. CASE \E p \in Process : CalculateAndValidate(p)
  <2>1. PICK r : /\ runs' = [runs EXCEPT ![r].status = "validated"]
                 /\ publications' = publications
    BY <1>4 DEF CalculateAndValidate
  <2>2. \A s \in Run : runs'[s].status = runs[s].status \/ runs'[s].status = "validated"
    BY <1>1, <2>1 DEF RunRow
  <2>3. QED
    BY <2>1, <2>2
<1>5. ASSUME NEW p \in Process, Proceed(p),
             ~Create(p), ~Snapshot(p), ~CalculateAndValidate(p)
      PROVE  runs' = runs /\ publications' = publications
  BY <1>5 DEF Proceed, Preview, Compare, Retain, Choose, DeadlockVictim, Abort
<1>6. ASSUME NEW p \in Process, TakeRow(p)
      PROVE  runs' = runs /\ publications' = publications
  BY <1>6 DEF TakeRow, LockRun, Refuse, LockPublication, Insert, Rotate, MarkFailed,
              Delete, ForeignKeyFails, Abort
<1>7. ASSUME NEW p \in Process,
             BuildRaises(p) \/ Crash(p) \/ \E n \in Name, r \in Run : PublishByHand(p, n, r)
      PROVE  runs' = runs /\ publications' = publications
  BY <1>7 DEF BuildRaises, Crash, PublishByHand
<1>8. CASE SourceChanges \/ UNCHANGED vars
  BY <1>8 DEF SourceChanges, vars
<1>9. QED
  BY <1>2, <1>3, <1>4, <1>5, <1>6, <1>7, <1>8 DEF Next

(* A publication moves forward one generation at a time, also when two     *)
(* processes publish under one name at once: none is lost and none is      *)
(* recorded twice (RatingService.publish, RatingRepository.publish).       *)
THEOREM NoGenerationIsLost == Spec => PointersRotate
<1>1. ASSUME RatingInv, [Next]_vars, NEW n \in Name, publications'[n] # publications[n]
      PROVE  /\ publications'[n].previous = publications[n].current
             /\ publications'[n].current # publications[n].current
  <2>1. PICK p \in Process : Commit(p)
    BY <1>1, OnlyCommitsPublish
  <2>2. /\ pc[p] = "deleting" /\ Orphaned(p) = {}
        /\ publications' = [m \in Name |-> Seen(p, m)]
    BY <2>1 DEF Commit
  <2>3. QED
    BY <1>1, <2>2, CommitPublications
<1>2. RatingInv /\ [Next]_vars =>
        [\A n \in Name :
            publications'[n] # publications[n] =>
                /\ publications'[n].previous = publications[n].current
                /\ publications'[n].current # publications[n].current]_vars
  BY <1>1
<1>3. QED
  BY <1>2, RatingInvariance, PTL DEF Spec, PointersRotate

(* A run that is being calculated is deleted by nobody but the process     *)
(* that calculates it (prune_unretained_runs).                             *)
THEOREM BuildsSurviveOthers == Spec => BuildsAreLeftAlone
<1>1. ASSUME RatingInv, [Next]_vars, NEW r \in Run,
             runs[r].status = "building", runs'[r].status = "absent"
      PROVE  \E p \in Process : tx[p].run = r /\ pc[p] # pc'[p]
  <2>1. PICK p \in Process : Commit(p)
    BY <1>1, OnlyCommitsPublish
  <2>2. /\ pc[p] = "deleting" /\ runs' = Committed(p)
        /\ pc' = [pc EXCEPT ![p] = "idle"] /\ pc \in [Process -> Control]
    BY <1>1, <2>1, TypeFacts DEF Commit, Return, Goto, RatingInv
  <2>3. r \in tx[p].gone \/ r = tx[p].run
    BY <1>1, <2>2, CommitRuns
  <2>4. tx[p].gone \subseteq tx[p].doomed /\ DoomOf(tx[p])
    BY <1>1, Own DEF StageOf
  <2>5. tx[p].run = r
    BY <1>1, <2>3, <2>4 DEF DoomOf
  <2>6. pc'[p] = "idle"
    BY <2>2
  <2>7. QED
    BY <2>2, <2>5, <2>6
<1>2. RatingInv /\ [Next]_vars =>
        [\A r \in Run :
            runs[r].status = "building" /\ runs'[r].status = "absent" =>
                \E p \in Process : tx[p].run = r /\ pc[p] # pc'[p]]_vars
  BY <1>1
<1>3. QED
  BY <1>2, RatingInvariance, PTL DEF Spec, BuildsAreLeftAlone
=============================================================================
