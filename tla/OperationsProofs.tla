-------------------------- MODULE OperationsProofs --------------------------
(***************************************************************************)
(* Four parts of the operation that share only the database, for any       *)
(* values of their constants: recurring schedules run every occurrence     *)
(* once; the transfer's reports are exact; teams are as their files say;   *)
(* answers are of one published run.                                       *)
(***************************************************************************)
EXTENDS MCOperations, FiniteSetTheorems, TLAPS

-----------------------------------------------------------------------------
(* Schedules.  First the arithmetic of occurrences.                        *)

Hours == 0 .. Day - 1

\* What the zone's assumption says of each constant.
LEMMA ZoneFacts ==
    /\ Day \in Nat /\ Day > 0 /\ Shift \in Nat /\ Before \in Nat /\ After \in Nat
    /\ Before < Day /\ After < Day /\ Before <= Shift + After
    /\ Later(Before, After) = IF Before < After THEN After ELSE Before
  BY ZoneAssumption DEF Later

LEMMA CallFacts ==
    /\ CallTime \in Nat /\ Retention \in Nat /\ Horizon \in Nat /\ Reach \in Nat
    /\ CallTime < Retention /\ Before + CallTime <= After + Retention
    /\ LastTime \in Nat /\ Time = 0 .. LastTime /\ LastTime = Horizon + Reach
  BY CallAssumption DEF LastTime, Time

LEMMA WholeDays ==
    ASSUME NEW x \in Nat
    PROVE  /\ x \div Day \in Nat /\ (x \div Day) * Day \in Nat
           /\ (x \div Day) * Day <= x /\ x < (x \div Day) * Day + Day
           /\ (x \div Day + 1) * Day = (x \div Day) * Day + Day
  BY ZoneFacts

LEMMA DaysApart ==
    ASSUME NEW d \in Nat, NEW e \in Nat, d < e
    PROVE  d * Day + Day <= e * Day
  BY ZoneFacts

LEMMA DayCount ==
    ASSUME NEW d \in Nat
    PROVE  d * Day \in Nat /\ (d + 1) * Day = d * Day + Day
  BY ZoneFacts

\* The first wall-clock time of an hour that is later than the one given.
LEMMA NextWallIs ==
    ASSUME NEW hour \in Hours, NEW wall \in Nat
    PROVE  \E d \in Nat : /\ NextWall(hour, wall) = d * Day + hour
                          /\ wall < d * Day + hour /\ d * Day + hour <= wall + Day
<1> DEFINE e == wall \div Day
           c == e * Day + hour
<1>1. /\ e \in Nat /\ c \in Nat /\ e * Day <= wall /\ wall < e * Day + Day /\ hour \in Nat /\ hour < Day
      /\ (e + 1) * Day + hour = c + Day
  BY WholeDays, ZoneFacts DEF Hours
<1>2. NextWall(hour, wall) = IF c <= wall THEN c + Day ELSE c
  BY DEF NextWall
<1> HIDE DEF e
<1>3. CASE c <= wall
  <2>1. NextWall(hour, wall) = (e + 1) * Day + hour /\ e + 1 \in Nat
    BY <1>1, <1>2, <1>3
  <2>2. wall < (e + 1) * Day + hour /\ (e + 1) * Day + hour <= wall + Day
    BY <1>1, <1>3, ZoneFacts
  <2>3. QED
    BY <2>1, <2>2
<1>4. CASE ~(c <= wall)
  <2>1. NextWall(hour, wall) = e * Day + hour
    BY <1>2, <1>4
  <2>2. wall < e * Day + hour /\ e * Day + hour <= wall + Day
    BY <1>1, <1>4, ZoneFacts
  <2>3. QED
    BY <1>1, <2>1, <2>2
<1>5. QED
  BY <1>3, <1>4

LEMMA NextWallAt ==
    ASSUME NEW hour \in Hours, NEW wall \in Nat, NEW d \in Nat,
           d * Day + hour <= wall, wall < d * Day + hour + Day
    PROVE  NextWall(hour, wall) = (d + 1) * Day + hour
<1>1. PICK e \in Nat : /\ NextWall(hour, wall) = e * Day + hour
                       /\ wall < e * Day + hour /\ e * Day + hour <= wall + Day
  BY NextWallIs
<1>2. d * Day \in Nat /\ e * Day \in Nat /\ (d + 1) * Day = d * Day + Day /\ hour \in Nat
  BY DayCount DEF Hours
<1>3. ~(e < d) /\ e # d
  <2>1. CASE e < d
    BY <1>1, <1>2, <2>1, DaysApart, ZoneFacts
  <2>2. CASE e = d
    <3>1. wall < d * Day + hour
      BY <1>1, <2>2
    <3>2. QED
      BY <1>2, <3>1
  <2>3. QED
    BY <2>1, <2>2
<1>4. ~(d + 1 < e)
  <2>1. CASE d + 1 < e
    <3>1. d + 1 \in Nat /\ (d + 1) * Day + Day <= e * Day
      BY <2>1, DaysApart
    <3>2. QED
      BY <1>1, <1>2, <3>1, ZoneFacts
  <2>2. QED
    BY <2>1
<1>5. QED
  BY <1>1, <1>3, <1>4

\* A wall-clock time and what the clocks show at its instant differ by less
\* than a day, and later days are later instants.
LEMMA LocalOfUtc ==
    ASSUME NEW wall \in Nat
    PROVE  /\ UtcOf(wall) \in Int /\ UtcOf(wall) <= wall
           /\ wall <= Local(UtcOf(wall)) /\ Local(UtcOf(wall)) < wall + Day
  BY ZoneFacts DEF UtcOf, Local

LEMMA UtcOfGrows ==
    ASSUME NEW wall \in Nat, NEW later \in Nat, wall + Day <= later
    PROVE  UtcOf(wall) < UtcOf(later)
  BY ZoneFacts DEF UtcOf

LEMMA LocalThenUtc ==
    ASSUME NEW t \in Nat, NEW wall \in Nat, Local(t) < wall, wall <= Local(t) + Day
    PROVE  /\ UtcOf(wall) \in Nat
           /\ t + After < UtcOf(wall) + Later(Before, After)
           /\ UtcOf(wall) <= t + Day + Later(Before, After) - After
  BY ZoneFacts DEF UtcOf, Local

-----------------------------------------------------------------------------
LEMMA SpecFacts ==
    ASSUME NEW spec \in Specs
    PROVE  IF IsDaily(spec)
           THEN spec[2] \in Hours /\ Day + Later(Before, After) - After <= Reach
           ELSE spec[2] \in Nat /\ 0 < spec[2] /\ spec[2] <= Reach
<1>1. CASE spec = Interval(spec[2]) /\ spec[2] \in Nat \ {0}
  BY <1>1, ReachAssumption DEF Interval, IsDaily
<1>2. CASE spec = Daily(spec[2]) /\ spec[2] \in 0..Day - 1
  BY <1>2, ReachAssumption DEF Daily, IsDaily, Hours
<1>3. QED
  BY <1>1, <1>2, SpecAssumption

\* What a daily schedule is next due at, and how far back or ahead that is.
LEMMA NextIsRun ==
    ASSUME NEW spec \in Specs, IsDaily(spec), NEW t \in Nat
    PROVE  \E d \in Nat : /\ NextOccurrence(spec, t) = UtcOf(d * Day + spec[2])
                          /\ Local(t) < d * Day + spec[2]
                          /\ d * Day + spec[2] <= Local(t) + Day
<1>1. Local(t) \in Nat /\ spec[2] \in Hours
  BY SpecFacts, ZoneFacts DEF Local
<1>2. QED
  BY <1>1, NextWallIs DEF NextOccurrence

LEMMA NextIsNear ==
    ASSUME NEW spec \in Specs, NEW t \in Nat
    PROVE  /\ NextOccurrence(spec, t) \in Nat
           /\ t + After < NextOccurrence(spec, t) + Later(Before, After)
           /\ NextOccurrence(spec, t) <= t + Reach
<1>1. CASE IsDaily(spec)
  <2>1. PICK d \in Nat : /\ NextOccurrence(spec, t) = UtcOf(d * Day + spec[2])
                         /\ Local(t) < d * Day + spec[2]
                         /\ d * Day + spec[2] <= Local(t) + Day
    BY <1>1, NextIsRun
  <2>2. d * Day + spec[2] \in Nat /\ Day + Later(Before, After) - After <= Reach
    BY <1>1, SpecFacts, DayCount DEF Hours
  <2>3. /\ UtcOf(d * Day + spec[2]) \in Nat
        /\ t + After < UtcOf(d * Day + spec[2]) + Later(Before, After)
        /\ UtcOf(d * Day + spec[2]) <= t + Day + Later(Before, After) - After
    BY <2>1, <2>2, LocalThenUtc
  <2>4. QED
    BY <2>1, <2>2, <2>3, ZoneFacts, CallFacts
<1>2. CASE ~IsDaily(spec)
  BY <1>2, SpecFacts, ZoneFacts, CallFacts DEF NextOccurrence
<1>3. QED
  BY <1>1, <1>2

\* From one daily run the next is that of the following day.
LEMMA RunAfterRun ==
    ASSUME NEW spec \in Specs, IsDaily(spec), NEW d \in Nat, UtcOf(d * Day + spec[2]) \in Nat
    PROVE  /\ NextOccurrence(spec, UtcOf(d * Day + spec[2])) = UtcOf((d + 1) * Day + spec[2])
           /\ UtcOf(d * Day + spec[2]) < UtcOf((d + 1) * Day + spec[2])
<1> DEFINE wall == d * Day + spec[2]
<1>1. spec[2] \in Hours /\ wall \in Nat /\ (d + 1) * Day + spec[2] = wall + Day
  BY SpecFacts, DayCount, ZoneFacts DEF Hours
<1>2. wall <= Local(UtcOf(wall)) /\ Local(UtcOf(wall)) < wall + Day
  BY <1>1, LocalOfUtc
<1>3. Local(UtcOf(wall)) \in Nat
  BY ZoneFacts DEF Local
<1>4. NextWall(spec[2], Local(UtcOf(wall))) = (d + 1) * Day + spec[2]
  BY <1>1, <1>2, <1>3, NextWallAt
<1>5. wall + Day \in Nat
  BY <1>1, ZoneFacts
<1>6. QED
  BY <1>1, <1>4, <1>5, UtcOfGrows, ZoneFacts DEF NextOccurrence

-----------------------------------------------------------------------------
\* An occurrence that ran and was pruned is behind the clock and the schedule.
Accounted(o) ==
    /\ created[o] <= 1
    /\ o \in kept => created[o] = 1
    /\ created[o] = 1 /\ o \notin kept =>
          /\ o[2] + Retention < clock
          /\ rows[o[1]].enabled => o[2] < rows[o[1]].next

SchedInv ==
    /\ TypeOK
    /\ NothingSkipped
    /\ \A o \in Occurrences : Accounted(o)

LEMMA RowFields ==
    ASSUME NEW row \in Row
    PROVE  row.spec \in Specs /\ row.enabled \in BOOLEAN /\ row.next \in Time /\ row.next \in Nat
  BY CallFacts DEF Row

\* Where an upsert sets a schedule is an occurrence of it.
LEMMA FirstOccurrence ==
    ASSUME NEW spec \in Specs, NEW t \in Nat, t <= Horizon
    PROVE  /\ NextOccurrence(spec, t) \in Time
           /\ IsOccurrence(spec, NextOccurrence(spec, t), NextOccurrence(spec, t))
<1> DEFINE u == NextOccurrence(spec, t)
<1>1. u \in Nat /\ u \in Time /\ u <= LastTime
  <2>1. u \in Nat /\ u <= t + Reach
    BY NextIsNear
  <2> HIDE DEF u
  <2>2. u <= LastTime
    BY <2>1, CallFacts
  <2>3. QED
    BY <2>1, <2>2, CallFacts
<1>2. CASE IsDaily(spec)
  <2>1. PICK d \in Nat : u = UtcOf(d * Day + spec[2])
    BY <1>2, NextIsRun
  <2>2. d \in 0 .. LastTime \div Day + 1
    <3>1. d * Day + spec[2] \in Nat /\ spec[2] \in Nat /\ d * Day \in Nat
      BY <1>2, SpecFacts, DayCount DEF Hours
    <3>2. d * Day <= LastTime + Day
      BY <1>1, <2>1, <3>1, ZoneFacts, CallFacts DEF UtcOf
    <3>3. LastTime < (LastTime \div Day) * Day + Day /\ LastTime \div Day \in Nat
      BY WholeDays, CallFacts
    <3>4. ~(LastTime \div Day + 1 < d)
      <4> DEFINE k == LastTime \div Day
      <4>1. k + 1 \in Nat /\ (k + 1) * Day = k * Day + Day /\ k * Day \in Nat
        BY <3>3, DayCount
      <4>2. k + 1 < d => (k + 1) * Day + Day <= d * Day
        BY <4>1, DaysApart
      <4> HIDE DEF k
      <4>3. LastTime < k * Day + Day
        BY <3>3 DEF k
      <4>4. ~(k + 1 < d)
        BY <3>1, <3>2, <4>1, <4>2, <4>3, ZoneFacts, CallFacts
      <4>5. QED
        BY <4>4 DEF k
    <3>5. QED
      BY <3>3, <3>4
  <2>3. QED
    BY <1>1, <1>2, <2>1, <2>2 DEF IsOccurrence
<1>3. CASE ~IsDaily(spec)
  <2>1. u = u + 0 * spec[2] /\ 0 \in Time
    BY <1>1, <1>3, SpecFacts, CallFacts
  <2>2. QED
    BY <1>1, <1>3, <2>1 DEF IsOccurrence
<1>4. QED
  BY <1>1, <1>2, <1>3

\* The next occurrence after an occurrence is one, and there is none between.
LEMMA FollowingOccurrence ==
    ASSUME NEW spec \in Specs, NEW start \in Nat, NEW t \in Nat, t <= Horizon,
           IsOccurrence(spec, start, t)
    PROVE  /\ t < NextOccurrence(spec, t)
           /\ NextOccurrence(spec, t) \in Time
           /\ IsOccurrence(spec, start, NextOccurrence(spec, t))
           /\ \A v \in Nat : t < v /\ v < NextOccurrence(spec, t) => ~IsOccurrence(spec, start, v)
<1> DEFINE u == NextOccurrence(spec, t)
<1>1. u \in Nat /\ u \in Time /\ u <= LastTime /\ start <= t
  <2>1. u \in Time
    BY FirstOccurrence
  <2>2. start <= t
    BY DEF IsOccurrence
  <2> HIDE DEF u
  <2>3. QED
    BY <2>1, <2>2, CallFacts
<1>2. CASE IsDaily(spec)
  <2> DEFINE At(d) == UtcOf(d * Day + spec[2])
  <2>1. PICK d \in Nat : t = At(d)
    BY <1>2 DEF IsOccurrence
  <2>2. u = At(d + 1) /\ t < u
    BY <1>2, <2>1, RunAfterRun
  <2>3. IsOccurrence(spec, u, u)
    BY FirstOccurrence
  <2>4. IsOccurrence(spec, start, u)
    BY <1>1, <1>2, <2>2, <2>3 DEF IsOccurrence
  <2>5. ASSUME NEW v \in Nat, t < v, v < u, IsOccurrence(spec, start, v)
        PROVE  FALSE
    <3>1. PICK e \in Nat : v = At(e)
      BY <1>2, <2>5 DEF IsOccurrence
    <3>2. \A x, y \in Nat : x < y => At(x) < At(y)
      <4> TAKE x, y \in Nat
      <4> HAVE x < y
      <4>1. x * Day + Day <= y * Day /\ x * Day \in Nat /\ y * Day \in Nat /\ spec[2] \in Nat
        BY <1>2, DaysApart, DayCount, SpecFacts DEF Hours
      <4>2. (x * Day + spec[2]) + Day <= y * Day + spec[2]
        BY <4>1, ZoneFacts
      <4>3. x * Day + spec[2] \in Nat /\ y * Day + spec[2] \in Nat
        BY <4>1
      <4>4. QED
        BY <4>2, <4>3, UtcOfGrows
    <3>3. \A x \in Nat : At(x) \in Int
      <4> TAKE x \in Nat
      <4>1. x * Day + spec[2] \in Nat
        BY <1>2, DayCount, SpecFacts DEF Hours
      <4>2. QED
        BY <4>1, LocalOfUtc
    <3> HIDE DEF At
    <3>4. d < e
      BY <2>1, <2>5, <3>1, <3>2, <3>3
    <3>5. e < d + 1
      BY <2>2, <2>5, <3>1, <3>2, <3>3
    <3>6. QED
      BY <3>4, <3>5
  <2>6. QED
    BY <1>1, <2>2, <2>4, <2>5
<1>3. CASE ~IsDaily(spec)
  <2>1. spec[2] \in Nat /\ 0 < spec[2] /\ u = t + spec[2]
    BY <1>3, SpecFacts DEF NextOccurrence
  <2>2. PICK k \in Nat : t = start + k * spec[2]
    BY <1>3, CallFacts DEF IsOccurrence
  <2>3. (k + 1) * spec[2] = k * spec[2] + spec[2] /\ k + 1 <= (k + 1) * spec[2]
        /\ k * spec[2] \in Nat
    BY <2>1
  <2> DEFINE next == (k + 1) * spec[2]
  <2>4. u = start + next /\ k + 1 \in Time
    <3>1. next = k * spec[2] + spec[2] /\ k + 1 <= next /\ k * spec[2] \in Nat
      BY <2>3
    <3> HIDE DEF next, u
    <3>2. u = start + next
      BY <2>1, <2>2, <3>1
    <3>3. k + 1 <= LastTime
      BY <1>1, <2>1, <3>1, <3>2, CallFacts
    <3>4. k + 1 \in Time
      BY <3>3, CallFacts
    <3>5. QED
      BY <3>2, <3>4
  <2>5. IsOccurrence(spec, start, u)
    BY <1>1, <1>3, <2>1, <2>4 DEF IsOccurrence
  <2>6. ASSUME NEW v \in Nat, t < v, v < u, IsOccurrence(spec, start, v)
        PROVE  FALSE
    <3>1. PICK j \in Nat : v = start + j * spec[2]
      BY <1>3, <2>6, CallFacts DEF IsOccurrence
    <3>2. j <= k => j * spec[2] <= k * spec[2]
      BY <2>1
    <3>3. k + 1 <= j => (k + 1) * spec[2] <= j * spec[2]
      BY <2>1
    <3>4. j * spec[2] \in Nat /\ (k + 1) * spec[2] \in Nat
      BY <2>1
    <3>5. QED
      BY <2>2, <2>3, <2>4, <2>6, <3>1, <3>2, <3>3, <3>4
  <2>7. QED
    BY <1>1, <2>1, <2>5, <2>6
<1>4. QED
  BY <1>2, <1>3

-----------------------------------------------------------------------------
LEMMA ScheduleStarts ==
    ASSUME Init
    PROVE  SchedInv
<1>1. TypeOK
  BY CallFacts DEF Init, TypeOK
<1>2. NothingSkipped
  BY DEF Init, NothingSkipped, Scheduled
<1>3. \A o \in Occurrences : Accounted(o)
  BY DEF Init, Accounted
<1>4. QED
  BY <1>1, <1>2, <1>3 DEF SchedInv

\* A clock reading, and what it was taken of.
LEMMA ReadingFacts ==
    ASSUME TypeOK, NEW now \in Readings
    PROVE  /\ clock \in Nat /\ clock <= Horizon
           /\ now \in Nat /\ now <= clock /\ now <= Horizon /\ clock <= now + CallTime
  BY CallFacts DEF TypeOK, Readings

LEMMA UpsertKeeps ==
    ASSUME SchedInv, NEW n \in Name, NEW spec \in Specs, NEW enabled \in BOOLEAN,
           NEW now \in Readings, Upsert(n, spec, enabled, now)
    PROVE  SchedInv'
<1> DEFINE u == NextOccurrence(spec, now)
           row == [spec |-> spec, enabled |-> enabled, next |-> u]
<1>1. TypeOK /\ NothingSkipped /\ \A o \in Occurrences : Accounted(o)
  BY DEF SchedInv
<1>2. /\ rows' = [rows EXCEPT ![n] = row] /\ first' = [first EXCEPT ![n] = u]
      /\ UNCHANGED <<clock, kept, created>>
  BY DEF Upsert
<1>3. /\ clock \in Nat /\ clock <= Horizon
      /\ now \in Nat /\ now <= clock /\ now <= Horizon /\ clock <= now + CallTime
  BY <1>1, ReadingFacts
<1>4. u \in Time /\ IsOccurrence(spec, u, u)
  BY <1>3, FirstOccurrence
<1>5. u \in Nat /\ now + After < u + Later(Before, After)
  BY <1>3, NextIsNear
<1> HIDE DEF u
<1>6. row \in Row /\ row.spec = spec /\ row.next = u
  BY <1>4 DEF Row
<1> HIDE DEF row
<1>7. /\ rows \in [Name -> Row \cup {NoRow}] /\ first \in [Name -> Time]
      /\ rows' \in [Name -> Row \cup {NoRow}] /\ first' \in [Name -> Time]
      /\ \A m \in Name : /\ rows'[m] = IF m = n THEN row ELSE rows[m]
                         /\ first'[m] = IF m = n THEN u ELSE first[m]
  BY <1>1, <1>2, <1>4, <1>6 DEF TypeOK
<1>8. TypeOK'
  BY <1>1, <1>2, <1>7 DEF TypeOK
<1>9. NothingSkipped'
  <2>1. ASSUME NEW m \in Name, rows'[m] # NoRow
        PROVE  /\ IsOccurrence(rows'[m].spec, first'[m], rows'[m].next)
               /\ \A t \in first'[m] .. rows'[m].next - 1 :
                     IsOccurrence(rows'[m].spec, first'[m], t) => created'[<<m, t>>] > 0
    <3>1. CASE m = n
      <4>1. rows'[m] = row /\ first'[m] = u
        BY <1>7, <3>1
      <4>2. \A t \in u .. u - 1 : FALSE
        BY <1>5
      <4>3. QED
        BY <1>4, <1>6, <4>1, <4>2
    <3>2. CASE m # n
      <4>1. rows'[m] = rows[m] /\ first'[m] = first[m] /\ created' = created
        BY <1>2, <1>7, <3>2
      <4>2. rows[m] # NoRow
        BY <2>1, <4>1
      <4>3. QED
        BY <1>1, <4>1, <4>2 DEF NothingSkipped, Scheduled
    <3>3. QED
      BY <3>1, <3>2
  <2>2. QED
    BY <2>1 DEF NothingSkipped, Scheduled
<1>10. \A o \in Occurrences : Accounted(o)'
  <2> TAKE o \in Occurrences
  <2>1. o[1] \in Name /\ o[2] \in Nat /\ Accounted(o)
    BY <1>1, CallFacts DEF Occurrences
  <2>2. CASE o[1] = n
    <3>1. rows'[o[1]] = row
      BY <1>7, <2>2
    <3>2. o[2] + Retention < clock => o[2] < u
      BY <1>3, <1>5, <2>1, CallFacts, ZoneFacts
    <3>3. QED
      BY <1>2, <1>6, <2>1, <3>1, <3>2 DEF Accounted
  <2>3. CASE o[1] # n
    <3>1. rows'[o[1]] = rows[o[1]]
      BY <1>7, <2>1, <2>3
    <3>2. QED
      BY <1>2, <2>1, <3>1 DEF Accounted
  <2>4. QED
    BY <2>2, <2>3
<1>11. QED
  BY <1>8, <1>9, <1>10 DEF SchedInv

LEMMA MaterializeKeeps ==
    ASSUME SchedInv, NEW n \in Name, NEW now \in Readings, Materialize(n, now)
    PROVE  SchedInv'
<1> DEFINE t == rows[n].next
           o0 == <<n, t>>
           u == NextOccurrence(rows[n].spec, t)
<1>1. TypeOK /\ NothingSkipped /\ \A o \in Occurrences : Accounted(o)
  BY DEF SchedInv
<1>2. rows[n] # NoRow /\ rows[n].enabled /\ t <= now
  BY DEF Materialize, Due, Scheduled
<1>3. /\ rows' = [rows EXCEPT ![n].next = u]
      /\ created' = [created EXCEPT ![o0] = IF o0 \in kept THEN @ ELSE @ + 1]
      /\ kept' = kept \cup {o0} /\ clock' = clock /\ first' = first
  BY DEF Materialize, EnqueueOccurrence, Advanced
<1>4. /\ rows \in [Name -> Row \cup {NoRow}] /\ rows[n] \in Row
      /\ created \in [Occurrences -> Nat] /\ kept \subseteq Occurrences
      /\ first \in [Name -> Time]
  BY <1>1, <1>2 DEF TypeOK
<1>5. rows[n].spec \in Specs /\ t \in Time /\ t \in Nat /\ first[n] \in Nat /\ o0 \in Occurrences
  BY <1>4, RowFields, CallFacts DEF Occurrences
<1>6. t <= Horizon /\ IsOccurrence(rows[n].spec, first[n], t)
  <2>1. IsOccurrence(rows[n].spec, first[n], t)
    BY <1>1, <1>2 DEF NothingSkipped, Scheduled
  <2>2. QED
    BY <1>1, <1>2, <1>5, <2>1, ReadingFacts, CallFacts
<1>7. /\ t < u /\ u \in Time /\ IsOccurrence(rows[n].spec, first[n], u)
      /\ \A v \in Nat : t < v /\ v < u => ~IsOccurrence(rows[n].spec, first[n], v)
  BY <1>5, <1>6, FollowingOccurrence
<1>8. u \in Nat
  BY <1>7, CallFacts
<1> HIDE DEF u
<1>9. /\ rows'[n].spec = rows[n].spec /\ rows'[n].enabled = rows[n].enabled /\ rows'[n].next = u
      /\ rows'[n] \in Row
      /\ \A m \in Name : m # n => rows'[m] = rows[m]
      /\ rows' \in [Name -> Row \cup {NoRow}]
  BY <1>3, <1>4, <1>7 DEF Row
<1>10. created'[o0] = 1
  <2>1. Accounted(o0) /\ created[o0] \in Nat
    BY <1>1, <1>4, <1>5
  <2>2. created'[o0] = IF o0 \in kept THEN created[o0] ELSE created[o0] + 1
    BY <1>3, <1>4, <1>5
  <2>3. o0[1] = n /\ o0[2] = t
    OBVIOUS
  <2> HIDE DEF o0
  <2>4. CASE o0 \in kept
    BY <2>1, <2>2, <2>4 DEF Accounted
  <2>5. CASE o0 \notin kept
    <3>1. created[o0] # 1
      BY <1>2, <1>5, <2>1, <2>3, <2>5 DEF Accounted
    <3>2. QED
      BY <2>1, <2>2, <2>5, <3>1 DEF Accounted
  <2>6. QED
    BY <2>4, <2>5
<1>11. \A o \in Occurrences : o # o0 => created'[o] = created[o]
  BY <1>3, <1>4
<1>12. TypeOK'
  <2>1. created' \in [Occurrences -> Nat] /\ kept' \subseteq Occurrences
    BY <1>3, <1>4, <1>5
  <2>2. QED
    BY <1>1, <1>3, <1>9, <2>1 DEF TypeOK
<1>13. NothingSkipped'
  <2>1. ASSUME NEW m \in Name, rows'[m] # NoRow
        PROVE  /\ IsOccurrence(rows'[m].spec, first'[m], rows'[m].next)
               /\ \A v \in first'[m] .. rows'[m].next - 1 :
                     IsOccurrence(rows'[m].spec, first'[m], v) => created'[<<m, v>>] > 0
    <3>1. CASE m = n
      <4>1. IsOccurrence(rows'[m].spec, first'[m], rows'[m].next)
        BY <1>3, <1>7, <1>9, <3>1
      <4>2. ASSUME NEW v \in first[n] .. u - 1, IsOccurrence(rows[n].spec, first[n], v)
            PROVE  created'[<<n, v>>] > 0
        <5>1. v \in Nat /\ first[n] <= v /\ v < u
          BY <1>5, <1>8
        <5>2. ~(t < v)
          BY <1>7, <4>2, <5>1
        <5>3. CASE v = t
          BY <1>10, <5>3
        <5>4. CASE v < t
          <6>1. v \in first[n] .. t - 1
            BY <1>5, <5>1, <5>4
          <6>2. created[<<n, v>>] > 0
            BY <1>1, <1>2, <4>2, <6>1 DEF NothingSkipped, Scheduled
          <6>3. <<n, v>> \in Occurrences /\ <<n, v>> # o0
            BY <1>5, <5>1, <5>4, CallFacts DEF Occurrences
          <6>4. QED
            BY <1>11, <6>2, <6>3
        <5>5. QED
          BY <1>5, <5>1, <5>2, <5>3, <5>4
      <4>3. QED
        BY <1>3, <1>9, <3>1, <4>1, <4>2
    <3>2. CASE m # n
      <4>1. rows'[m] = rows[m] /\ first'[m] = first[m]
        BY <1>3, <1>9, <3>2
      <4>2. /\ IsOccurrence(rows[m].spec, first[m], rows[m].next)
            /\ \A v \in first[m] .. rows[m].next - 1 :
                  IsOccurrence(rows[m].spec, first[m], v) => created[<<m, v>>] > 0
        BY <1>1, <2>1, <4>1 DEF NothingSkipped, Scheduled
      <4>3. rows[m] \in Row
        BY <1>4, <2>1, <4>1
      <4>4. first[m] \in Nat /\ rows[m].next \in Nat /\ rows[m].next <= LastTime
        BY <1>4, <4>3, RowFields, CallFacts
      <4>5. \A v \in first[m] .. rows[m].next - 1 : created'[<<m, v>>] = created[<<m, v>>]
        <5> TAKE v \in first[m] .. rows[m].next - 1
        <5>1. v \in Time
          BY <4>4, CallFacts
        <5>2. <<m, v>> \in Occurrences /\ <<m, v>> # o0
          BY <3>2, <5>1 DEF Occurrences
        <5>3. QED
          BY <1>11, <5>2
      <4>6. QED
        BY <4>1, <4>2, <4>5
    <3>3. QED
      BY <3>1, <3>2
  <2>2. QED
    BY <2>1 DEF NothingSkipped, Scheduled
<1>14. \A o \in Occurrences : Accounted(o)'
  <2> TAKE o \in Occurrences
  <2>1. o[1] \in Name /\ o[2] \in Nat /\ Accounted(o)
    BY <1>1, CallFacts DEF Occurrences
  <2>2. CASE o = o0
    BY <1>3, <1>10, <2>2 DEF Accounted
  <2>3. CASE o # o0
    <3>1. /\ created'[o] = created[o] /\ (o \in kept' <=> o \in kept) /\ clock' = clock
          /\ rows'[o[1]].enabled = rows[o[1]].enabled
      BY <1>3, <1>9, <1>11, <2>1, <2>3
    <3>2. o[2] < rows[o[1]].next => o[2] < rows'[o[1]].next
      BY <1>5, <1>7, <1>8, <1>9, <2>1
    <3>3. QED
      BY <2>1, <3>1, <3>2 DEF Accounted
  <2>4. QED
    BY <2>2, <2>3
<1>15. QED
  BY <1>12, <1>13, <1>14 DEF SchedInv

LEMMA PruneKeeps ==
    ASSUME SchedInv, NEW o \in kept, Prune(o)
    PROVE  SchedInv'
<1>1. /\ TypeOK /\ NothingSkipped /\ \A x \in Occurrences : Accounted(x)
      /\ o[2] + Retention < clock /\ Attended /\ kept' = kept \ {o}
      /\ UNCHANGED <<clock, rows, created, first>>
  BY DEF SchedInv, Prune
<1>2. TypeOK' /\ NothingSkipped'
  BY <1>1 DEF TypeOK, NothingSkipped, Scheduled
<1>3. \A x \in Occurrences : Accounted(x)'
  <2> TAKE x \in Occurrences
  <2>1. Accounted(x) /\ x[1] \in Name /\ x[2] \in Nat /\ clock \in Nat
    BY <1>1, CallFacts DEF Occurrences, TypeOK
  <2>2. CASE x = o
    <3>1. rows[x[1]].enabled => x[2] < rows[x[1]].next
      <4>1. CASE rows[x[1]] = NoRow
        BY <4>1 DEF NoRow
      <4>2. CASE rows[x[1]] # NoRow
        <5>1. rows[x[1]] \in Row
          BY <1>1, <2>1, <4>2 DEF TypeOK
        <5>2. rows[x[1]].next \in Nat
          BY <5>1, RowFields
        <5>3. rows[x[1]].enabled => clock < rows[x[1]].next + Retention
          BY <1>1, <2>1 DEF Attended
        <5>4. QED
          BY <1>1, <2>1, <2>2, <5>2, <5>3, CallFacts
      <4>3. QED
        BY <4>1, <4>2
    <3>2. QED
      BY <1>1, <2>1, <2>2, <3>1 DEF Accounted
  <2>3. CASE x # o
    BY <1>1, <2>1, <2>3 DEF Accounted
  <2>4. QED
    BY <2>2, <2>3
<1>4. QED
  BY <1>2, <1>3 DEF SchedInv

LEMMA TickKeeps ==
    ASSUME SchedInv, Tick
    PROVE  SchedInv'
<1>1. /\ TypeOK /\ NothingSkipped /\ \A x \in Occurrences : Accounted(x)
      /\ clock < Horizon /\ clock' = clock + 1
      /\ UNCHANGED <<rows, kept, created, first>>
  BY DEF SchedInv, Tick
<1>2. clock \in Nat /\ clock' \in 0 .. Horizon
  BY <1>1, CallFacts DEF TypeOK
<1>3. TypeOK' /\ NothingSkipped'
  BY <1>1, <1>2 DEF TypeOK, NothingSkipped, Scheduled
<1>4. \A x \in Occurrences : Accounted(x)'
  <2> TAKE x \in Occurrences
  <2>1. Accounted(x) /\ x[2] \in Nat
    BY <1>1, CallFacts DEF Occurrences
  <2>2. x[2] + Retention < clock => x[2] + Retention < clock'
    BY <1>1, <1>2, <2>1, CallFacts
  <2>3. QED
    BY <1>1, <2>1, <2>2 DEF Accounted
<1>5. QED
  BY <1>3, <1>4 DEF SchedInv

LEMMA ScheduleSteps ==
    ASSUME SchedInv, [Next]_vars
    PROVE  SchedInv'
<1>1. CASE \E n \in Name, spec \in Specs, enabled \in BOOLEAN, now \in Readings :
              Upsert(n, spec, enabled, now)
  BY <1>1, UpsertKeeps
<1>2. CASE \E n \in Name : Poll(n)
  BY <1>2, MaterializeKeeps DEF Poll
<1>3. CASE \E o \in kept : Prune(o)
  BY <1>3, PruneKeeps
<1>4. CASE Tick
  BY <1>4, TickKeeps
<1>5. CASE UNCHANGED vars
  BY <1>5 DEF vars, SchedInv, TypeOK, NothingSkipped, Scheduled, Accounted
<1>6. QED
  BY <1>1, <1>2, <1>3, <1>4, <1>5 DEF Next

\* SchedInv holds of the schedules always.
THEOREM ScheduleInvariance == Spec => []SchedInv
<1>1. Init => SchedInv
  BY ScheduleStarts
<1>2. SchedInv /\ [Next]_vars => SchedInv'
  BY ScheduleSteps
<1>3. QED
  BY <1>1, <1>2, PTL DEF Spec

\* No occurrence is given a second job.
THEOREM OccurrencesRunOnce == Spec => []RunsOnce
<1>1. SchedInv => RunsOnce
  BY DEF SchedInv, RunsOnce, Accounted
<1>2. QED
  BY <1>1, ScheduleInvariance, PTL

\* No occurrence is skipped, however long no worker polled.
THEOREM OccurrencesAreNotSkipped == Spec => []NothingSkipped
<1>1. SchedInv => NothingSkipped
  BY DEF SchedInv
<1>2. QED
  BY <1>1, ScheduleInvariance, PTL

\* The schedules' variables keep their types.
THEOREM ScheduleTypeCorrect == Spec => []TypeOK
<1>1. SchedInv => TypeOK
  BY DEF SchedInv
<1>2. QED
  BY <1>1, ScheduleInvariance, PTL

\* Where the clocks never go back, an upsert never sets a schedule to run at once
\* or in the past.
THEOREM UpsertsAreLater ==
    ASSUME Before <= After
    PROVE  Spec => []NextIsLater
<1>1. SchedInv => NextIsLater
  <2> SUFFICES ASSUME SchedInv, NEW spec \in Specs
               PROVE  clock < NextOccurrence(spec, clock)
    BY DEF NextIsLater
  <2>1. clock \in Nat
    BY CallFacts DEF SchedInv, TypeOK
  <2>2. QED
    BY <2>1, NextIsNear, ZoneFacts
<1>2. QED
  BY <1>1, ScheduleInvariance, PTL

-----------------------------------------------------------------------------
(* The legacy transfer.                                                    *)

TransferSpec == TransferInit /\ [][TransferNext]_transferVars

Statuses == {"none", "NOT_ATTEMPTED", "ODD", "SUCCESS", "PARTIAL", "FAILED"}
LogEntry == [event : LegacyEvents, status : Statuses, error : BOOLEAN]
FileType == [form : {"good", "tables", "values"}, statuses : [LegacyEvents -> Statuses],
             log : Seq(LogEntry)]

EventKeys == {"event"} \X LegacyEvents
SyncStates == {"pending", "complete", "failed", "no_results", "partial"}
RowType == [key : EventKeys \cup ({"log", "import"} \X Nat), event : LegacyEvents,
            data : {"legacy", "imported"} \cup (SyncStates \X BOOLEAN)]
TableRows == [TableNames -> SUBSET RowType]

Command == [pc : CommandPC, mode : Modes, hash : Nat, opened : Nat, n : 1..3,
            expected : TableRows, found : TableRows]

TransferTyped ==
    /\ versions \in Seq(FileType) /\ Len(versions) \in 1..MaxVersions
    /\ target \in TableRows
    /\ written \in [Operators -> TableRows]
    /\ importCount \in 0..MaxImports
    /\ command \in [Operators -> Command]

Copied(c, i) == \/ c.pc \in {"digest", "orphans", "rehash", "done"}
                \/ c.pc = "copy" /\ i < c.n
Compared(c, i) == /\ c.mode # "preflight"
                  /\ \/ c.pc \in {"orphans", "rehash", "done"}
                     \/ c.pc = "digest" /\ i < c.n

Hashed(c) == c.pc \notin {"idle"}
Opened(c) == c.pc \in {"empty", "copy", "digest", "orphans", "rehash", "done"}

\* What was copied is some version of the file since it was opened.
CopiedOK(c, vs) ==
    \A i \in 1..3 : Copied(c, i) =>
        \E v \in c.opened .. Len(vs) :
            /\ Transformable(vs[v], Tables[i])
            /\ c.expected[Tables[i]] = Transformed(vs[v], Tables[i])

CommandOK(c, vs) ==
    /\ c.pc = "idle" => c.hash = 0
    /\ Hashed(c) => c.hash \in 1 .. Len(vs)
    /\ Opened(c) => c.opened \in c.hash .. Len(vs)
    /\ c.pc \notin {"empty", "copy", "digest"} => c.n = 1
    /\ CopiedOK(c, vs)
    /\ \A i \in 1..3 : Compared(c, i) => c.found[Tables[i]] = c.expected[Tables[i]]
    /\ c.pc = "done" =>
          \A t \in TableNames : c.expected[t] = Transformed(vs[c.hash], t)

\* What a transfer has written is what it has copied.
WrittenOK(c, w) ==
    \A i \in 1..3 :
        w[Tables[i]] = IF c.mode = "transfer" /\ c.pc # "done" /\ Copied(c, i)
                       THEN c.expected[Tables[i]] ELSE {}

TransferProgress ==
    /\ TransferTyped
    /\ \A o \in Operators : CommandOK(command[o], versions) /\ WrittenOK(command[o], written[o])

Unique(table) == \A r, s \in table : r.key = s.key => r = s
HasKey(key, table) == \E s \in table : s.key = key
Apart(table, others) == \A r \in table : ~HasKey(r.key, others)

\* An event of the new database has its state, and attempts of imports are
\* numbered.
TargetOK ==
    /\ \A t \in TableNames : Unique(target[t])
    /\ \A r \in target["events"] : /\ r.key = <<"event", r.event>>
                                   /\ HasKey(r.key, target["states"])
    /\ \A r \in target["states"] : r.key = <<"event", r.event>>
    /\ \A r \in target["attempts"], i \in Nat : r.key = <<"import", i>> => i < importCount

\* What a transfer has written collides with nothing, and with nobody: while
\* the event of a state it wrote is its own, imports of that event wait.
WrittenApart ==
    \A o \in Operators :
        /\ \A r \in written[o]["states"] : HasKey(r.key, written[o]["events"])
        /\ \A t \in TableNames :
              /\ Apart(written[o][t], target[t])
              /\ \A p \in Operators \ {o} : Apart(written[o][t], written[p][t])

TransferInv == TransferProgress /\ TargetOK /\ WrittenApart

-----------------------------------------------------------------------------
LEMMA TableFacts ==
    /\ TableNames = {"events", "attempts", "states"}
    /\ Tables[1] = "events" /\ Tables[2] = "attempts" /\ Tables[3] = "states"
    /\ \A i \in 1..3 : Tables[i] \in TableNames
    /\ \A t \in TableNames : \E i \in 1..3 : t = Tables[i]
    /\ \A i, j \in 1..3 : Tables[i] = Tables[j] => i = j
    /\ Empty \in TableRows
    /\ \A t \in TableNames : Empty[t] = {}
<1>1. TableNames = {"events", "attempts", "states"}
  BY DEF TableNames, Empty
<1>2. /\ Tables[1] = "events" /\ Tables[2] = "attempts" /\ Tables[3] = "states"
      /\ \A i \in 1..3 : i = 1 \/ i = 2 \/ i = 3
  BY DEF Tables
<1>3. /\ \A i \in 1..3 : Tables[i] \in TableNames
      /\ \A t \in TableNames : \E i \in 1..3 : t = Tables[i]
      /\ \A i, j \in 1..3 : Tables[i] = Tables[j] => i = j
  BY <1>1, <1>2
<1>4. Empty \in TableRows /\ \A t \in TableNames : Empty[t] = {}
  BY <1>1 DEF Empty, TableRows
<1>5. QED
  BY <1>1, <1>2, <1>3, <1>4

\* What a file becomes are rows, told apart by their keys, and the keys of
\* events and of states are those of the events the file knows.
LEMMA RowsOfFile ==
    ASSUME NEW f \in FileType, NEW t \in TableNames, Transformable(f, t)
    PROVE  /\ Transformed(f, t) \subseteq RowType
           /\ \A r, s \in Transformed(f, t) : r.key = s.key => r = s
           /\ t # "attempts" => \A r \in Transformed(f, t) : r.key = <<"event", r.event>>
           /\ t = "attempts" => \A r \in Transformed(f, t) : r.key \in {"log"} \X Nat
           /\ t # "attempts" =>
                 /\ \A r \in Transformed(f, t) : r.event \in Known(f)
                 /\ \A e \in Known(f) : \E r \in Transformed(f, t) : r.key = <<"event", e>>
<1>0. /\ Known(f) \subseteq LegacyEvents
      /\ f.log \in Seq(LogEntry)
      /\ \A i \in DOMAIN f.log : i \in Nat /\ f.log[i] \in LogEntry
  <2>1. f.log \in Seq(LogEntry)
    BY DEF FileType
  <2>2. QED
    BY <2>1 DEF Known
<1>1. CASE t = "events"
  <2>1. Transformed(f, t) = {EventRow(e) : e \in Known(f)}
    BY <1>1 DEF Transformed
  <2>2. \A e \in Known(f) : EventRow(e).key = <<"event", e>> /\ EventRow(e).event = e
    BY DEF EventRow, Entry
  <2>3. \A e \in Known(f) : EventRow(e) \in RowType
    BY <1>0 DEF EventRow, Entry, RowType, EventKeys
  <2>4. Transformed(f, t) \subseteq RowType
    BY <2>1, <2>3
  <2>5. \A r, s \in Transformed(f, t) : r.key = s.key => r = s
    BY <2>1, <2>2
  <2>6. /\ \A r \in Transformed(f, t) : r.key = <<"event", r.event>> /\ r.event \in Known(f)
        /\ \A e \in Known(f) : \E r \in Transformed(f, t) : r.key = <<"event", e>>
    BY <2>1, <2>2
  <2>7. QED
    BY <1>1, <2>4, <2>5, <2>6
<1>2. CASE t = "attempts"
  <2>1. \A i \in DOMAIN f.log :
           /\ Normalized[f.log[i].status] \in SyncStates
           /\ f.log[i].event \in LegacyEvents /\ f.log[i].error \in BOOLEAN
    BY <1>0, <1>2 DEF Transformable, Normalized, SyncStates, LogEntry
  <2>2. Transformed(f, t) = {AttemptRow(f, i) : i \in DOMAIN f.log}
    BY <1>2 DEF Transformed
  <2>3. \A i \in DOMAIN f.log : AttemptRow(f, i).key = <<"log", i>>
    BY DEF AttemptRow, Entry
  <2>4. \A i \in DOMAIN f.log : AttemptRow(f, i) \in RowType
    BY <1>0, <2>1 DEF AttemptRow, Entry, RowType
  <2>5. Transformed(f, t) \subseteq RowType
    BY <2>2, <2>4
  <2>6. \A r, s \in Transformed(f, t) : r.key = s.key => r = s
    BY <2>2, <2>3
  <2>7. \A r \in Transformed(f, t) : r.key \in {"log"} \X Nat
    <3>1. ASSUME NEW i \in DOMAIN f.log PROVE AttemptRow(f, i).key \in {"log"} \X Nat
      <4>1. i \in Nat /\ AttemptRow(f, i).key = <<"log", i>>
        BY <1>0, <2>3
      <4>2. QED
        BY <4>1
    <3>2. QED
      BY <2>2, <3>1
  <2>8. QED
    BY <1>2, <2>5, <2>6, <2>7
<1>3. CASE t = "states"
  <2>1. \A e \in Known(f) : Normalized[f.statuses[e]] \in SyncStates
    BY <1>3 DEF Transformable, Normalized, SyncStates
  <2>2. \A e \in Known(f) : LatestError(f, e) \in BOOLEAN
    BY DEF LatestError
  <2>3. Transformed(f, t) = {StateRow(f, e) : e \in Known(f)}
    BY <1>3 DEF Transformed
  <2>4. \A e \in Known(f) : /\ StateRow(f, e).key = <<"event", e>>
                            /\ StateRow(f, e).event = e
    BY DEF StateRow, Entry
  <2>5. \A e \in Known(f) : StateRow(f, e) \in RowType
    BY <1>0, <2>1, <2>2 DEF StateRow, Entry, RowType, EventKeys
  <2>6. Transformed(f, t) \subseteq RowType
    BY <2>3, <2>5
  <2>7. \A r, s \in Transformed(f, t) : r.key = s.key => r = s
    BY <2>3, <2>4
  <2>8. /\ \A r \in Transformed(f, t) : r.key = <<"event", r.event>> /\ r.event \in Known(f)
        /\ \A e \in Known(f) : \E r \in Transformed(f, t) : r.key = <<"event", e>>
    BY <2>3, <2>4
  <2>9. QED
    BY <1>3, <2>6, <2>7, <2>8
<1>4. QED
  BY <1>1, <1>2, <1>3, TableFacts

-----------------------------------------------------------------------------
(***************************************************************************)
(* The file only grows versions, and what was copied of them stays so.     *)
(***************************************************************************)
LEMMA VersionsGrow ==
    ASSUME TransferTyped, OldProgramWrites
    PROVE  /\ versions' \in Seq(FileType) /\ Len(versions') \in 1..MaxVersions
           /\ Len(versions') = Len(versions) + 1
           /\ \A v \in 1 .. Len(versions) : versions'[v] = versions[v]
<1>1. PICK e \in LegacyEvents, s \in {"NOT_ATTEMPTED", "SUCCESS", "PARTIAL"} :
         versions' = Append(versions,
            File(Current.form, [Current.statuses EXCEPT ![e] = s],
                 IF s = "NOT_ATTEMPTED" THEN Current.log
                 ELSE Append(Current.log, Logged(e, s))))
  BY DEF OldProgramWrites
<1> DEFINE log == IF s = "NOT_ATTEMPTED" THEN Current.log
                  ELSE Append(Current.log, Logged(e, s))
           statuses == [Current.statuses EXCEPT ![e] = s]
<1>2. Current \in FileType
  BY DEF Current, TransferTyped
<1>3. statuses \in [LegacyEvents -> Statuses]
  BY <1>2 DEF FileType, Statuses
<1>4. log \in Seq(LogEntry)
  <2>1. Logged(e, s) \in LogEntry
    BY DEF Logged, LogEntry, Statuses
  <2>2. Current.log \in Seq(LogEntry)
    BY <1>2 DEF FileType
  <2>3. QED
    BY <2>1, <2>2
<1>5. File(Current.form, statuses, log) \in FileType
  BY <1>2, <1>3, <1>4 DEF File, FileType
<1> HIDE DEF log, statuses
<1>6. versions' = Append(versions, File(Current.form, statuses, log))
  BY <1>1 DEF log, statuses
<1>7. Len(versions) < MaxVersions
  BY DEF OldProgramWrites
<1>8. QED
  BY <1>5, <1>6, <1>7, TransferAssumption DEF TransferTyped

LEMMA CommandStays ==
    ASSUME NEW vs \in Seq(FileType), NEW ws \in Seq(FileType), Len(vs) <= Len(ws),
           \A v \in 1 .. Len(vs) : ws[v] = vs[v],
           NEW c \in Command, CommandOK(c, vs)
    PROVE  CommandOK(c, ws)
<1>0. Len(vs) \in Nat /\ Len(ws) \in Nat /\ c.hash \in Nat /\ c.opened \in Nat
  BY DEF Command
<1>1. /\ Hashed(c) => c.hash \in 1 .. Len(ws)
      /\ Opened(c) => c.opened \in c.hash .. Len(ws)
  BY <1>0 DEF CommandOK
<1>2. CopiedOK(c, ws)
  <2> SUFFICES ASSUME NEW i \in 1..3, Copied(c, i)
               PROVE  \E v \in c.opened .. Len(ws) :
                         /\ Transformable(ws[v], Tables[i])
                         /\ c.expected[Tables[i]] = Transformed(ws[v], Tables[i])
    BY DEF CopiedOK
  <2>1. PICK v \in c.opened .. Len(vs) :
           /\ Transformable(vs[v], Tables[i])
           /\ c.expected[Tables[i]] = Transformed(vs[v], Tables[i])
    BY DEF CommandOK, CopiedOK
  <2>2. v \in 1 .. Len(vs) /\ v \in c.opened .. Len(ws)
    BY <1>0 DEF CommandOK, Copied, Opened, Hashed
  <2>3. ws[v] = vs[v]
    BY <2>2
  <2>4. QED
    BY <2>1, <2>2, <2>3
<1>3. c.pc = "done" => \A t \in TableNames : c.expected[t] = Transformed(ws[c.hash], t)
  BY <1>0 DEF CommandOK, Hashed
<1>4. QED
  BY <1>1, <1>2, <1>3 DEF CommandOK

\* One operator moves on, and leaves the file alone.
LEMMA OperatorMoves ==
    ASSUME TransferProgress, NEW o \in Operators,
           NEW d \in Command, CommandOK(d, versions),
           NEW w \in TableRows, WrittenOK(d, w),
           command' = [command EXCEPT ![o] = d],
           written' = [written EXCEPT ![o] = w],
           UNCHANGED <<versions, importCount>>, target' \in TableRows
    PROVE  TransferProgress'
<1>1. /\ command \in [Operators -> Command] /\ written \in [Operators -> TableRows]
      /\ versions \in Seq(FileType) /\ Len(versions) \in 1..MaxVersions
      /\ importCount \in 0..MaxImports
  BY DEF TransferProgress, TransferTyped
<1>2. \A p \in Operators : command'[p] = IF p = o THEN d ELSE command[p]
  BY <1>1
<1>3. \A p \in Operators : written'[p] = IF p = o THEN w ELSE written[p]
  BY <1>1
<1>4. command' \in [Operators -> Command] /\ written' \in [Operators -> TableRows]
  BY <1>1
<1>5. TransferTyped'
  BY <1>1, <1>4 DEF TransferTyped
<1>6. \A p \in Operators : CommandOK(command'[p], versions')
  BY <1>2 DEF TransferProgress
<1>7. \A p \in Operators : WrittenOK(command'[p], written'[p])
  BY <1>2, <1>3 DEF TransferProgress
<1>8. QED
  BY <1>5, <1>6, <1>7 DEF TransferProgress

\* What the steps below use of the operator that moves.
AtCommand(o) ==
    /\ command \in [Operators -> Command] /\ command[o] \in Command
    /\ CommandOK(command[o], versions)
    /\ written[o] \in TableRows /\ WrittenOK(command[o], written[o])
    /\ written' = written => written' = [written EXCEPT ![o] = written[o]]
    /\ versions \in Seq(FileType) /\ Len(versions) \in Nat \ {0}
    /\ target \in TableRows
    /\ command[o].pc \in CommandPC /\ command[o].mode \in Modes
    /\ command[o].n \in 1..3 /\ command[o].hash \in Nat /\ command[o].opened \in Nat
    /\ command[o].expected \in TableRows /\ command[o].found \in TableRows

LEMMA CommandType ==
    ASSUME TransferProgress, NEW o \in Operators
    PROVE  AtCommand(o)
<1>1. command[o] \in Command /\ written[o] \in TableRows /\ written \in [Operators -> TableRows]
  BY DEF TransferProgress, TransferTyped
<1>2. QED
  BY <1>1 DEF TransferProgress, TransferTyped, Command, AtCommand

LEMMA NoCommandOK ==
    /\ NoCommand \in Command /\ NoCommand.n = 1
    /\ \A vs : CommandOK(NoCommand, vs)
    /\ WrittenOK(NoCommand, Empty)
<1>1. NoCommand \in Command
  BY TableFacts DEF NoCommand, Command, CommandPC, Modes
<1>2. NoCommand.pc = "idle" /\ NoCommand.n = 1 /\ NoCommand.hash = 0 /\ NoCommand.mode = "preflight"
  BY DEF NoCommand
<1>3. \A vs : CommandOK(NoCommand, vs)
  BY <1>2 DEF CommandOK, CopiedOK, Hashed, Opened, Copied, Compared
<1>4. WrittenOK(NoCommand, Empty)
  BY <1>2, TableFacts DEF WrittenOK
<1>5. QED
  BY <1>1, <1>2, <1>3, <1>4

LEMMA RaiseStep ==
    ASSUME TransferProgress, NEW o \in Operators, Raises(o)
    PROVE  TransferProgress'
<1>1. target' \in TableRows
  BY DEF Raises, TransferProgress, TransferTyped
<1>2. QED
  BY <1>1, NoCommandOK, TableFacts, OperatorMoves DEF Raises

LEMMA StartStep ==
    ASSUME TransferProgress, NEW o \in Operators, NEW mode \in Modes, StartCommand(o, mode)
    PROVE  TransferProgress'
<1>0. AtCommand(o)
  BY CommandType
<1> USE <1>0 DEF AtCommand
<1>1. PICK d : /\ d = [NoCommand EXCEPT !.pc = "open", !.mode = mode, !.hash = Hash]
               /\ command' = [command EXCEPT ![o] = d]
  BY DEF StartCommand
<1>2. d \in Command /\ d.pc = "open" /\ d.n = 1 /\ d.hash = Len(versions)
  BY <1>1, NoCommandOK DEF Command, CommandPC, Hash
<1>3. CommandOK(d, versions)
  BY <1>2 DEF CommandOK, CopiedOK, Hashed, Opened, Copied, Compared
<1>4. WrittenOK(d, written[o])
  BY <1>2, TableFacts DEF WrittenOK, Copied, StartCommand
<1>5. QED
  BY <1>1, <1>2, <1>3, <1>4, OperatorMoves DEF StartCommand

LEMMA OpenStep ==
    ASSUME TransferProgress, NEW o \in Operators, OpenSource(o)
    PROVE  TransferProgress'
<1>0. AtCommand(o)
  BY CommandType
<1> USE <1>0 DEF AtCommand
<1>1. CASE Raises(o)
  BY <1>1, RaiseStep
<1>2. CASE ~Raises(o)
  <2> DEFINE pc1 == IF command[o].mode = "transfer" THEN "empty" ELSE "copy"
  <2>1. PICK d : /\ d = [command[o] EXCEPT !.opened = Hash, !.pc = pc1]
                 /\ command' = [command EXCEPT ![o] = d]
    <3>1. command' = [command EXCEPT ![o].opened = Hash, ![o].pc = pc1]
      BY <1>2 DEF OpenSource
    <3>2. QED
      BY <3>1
  <2>2. /\ d \in Command /\ d.pc \in {"empty", "copy"} /\ d.opened = Len(versions)
        /\ d.hash = command[o].hash /\ d.n = command[o].n
        /\ d.mode = command[o].mode
    BY <2>1 DEF Command, CommandPC, Hash
  <2>3. command[o].pc = "open" /\ UNCHANGED <<versions, target, written, importCount>>
    BY <1>2 DEF OpenSource
  <2>4. command[o].n = 1
    BY <2>3 DEF CommandOK
  <2>5. CommandOK(d, versions)
    BY <2>2, <2>3, <2>4 DEF CommandOK, CopiedOK, Hashed, Opened, Copied, Compared
  <2>6. WrittenOK(d, written[o])
    <3>1. \A i \in 1..3 : written[o][Tables[i]] = {}
      BY <2>3 DEF WrittenOK, Copied
    <3>2. \A i \in 1..3 : ~Copied(d, i)
      BY <2>2, <2>4 DEF Copied
    <3>3. QED
      BY <3>1, <3>2 DEF WrittenOK
  <2>7. QED
    BY <2>1, <2>2, <2>3, <2>5, <2>6, OperatorMoves
<1>3. QED
  BY <1>1, <1>2

LEMMA EmptyStep ==
    ASSUME TransferProgress, NEW o \in Operators, EnsureEmpty(o)
    PROVE  TransferProgress'
<1>0. AtCommand(o)
  BY CommandType
<1> USE <1>0 DEF AtCommand
<1>1. CASE Raises(o)
  BY <1>1, RaiseStep
<1>2. CASE ~Raises(o)
  <2> DEFINE c == command[o]
             n1 == IF c.n = 3 THEN 1 ELSE c.n + 1
             pc1 == IF c.n = 3 THEN "copy" ELSE "empty"
  <2>1. PICK d : /\ d = [c EXCEPT !.n = n1, !.pc = pc1]
                 /\ command' = [command EXCEPT ![o] = d]
    <3>1. command' = [command EXCEPT ![o].n = n1, ![o].pc = pc1]
      BY <1>2 DEF EnsureEmpty
    <3>2. QED
      BY <3>1
  <2>0. n1 \in 1..3 /\ pc1 \in CommandPC
    BY DEF CommandPC
  <2> HIDE DEF n1, pc1
  <2>2. /\ d \in Command /\ d.pc = pc1 /\ d.n = n1 /\ d.opened = c.opened
        /\ d.hash = c.hash /\ d.mode = c.mode
    BY <2>0, <2>1 DEF Command
  <2>3. c.pc = "empty" /\ UNCHANGED <<versions, target, written, importCount>>
    BY <1>2 DEF EnsureEmpty
  <2>4. d.pc \in {"copy", "empty"} /\ (d.pc = "copy" => d.n = 1)
    BY <2>2 DEF n1, pc1
  <2>5. CommandOK(d, versions)
    <3>1. \A i \in 1..3 : ~Copied(d, i) /\ ~Compared(d, i)
      BY <2>4 DEF Copied, Compared
    <3>2. QED
      BY <2>2, <2>3, <2>4, <3>1 DEF CommandOK, CopiedOK, Hashed, Opened
  <2>6. WrittenOK(d, written[o])
    <3>1. \A i \in 1..3 : written[o][Tables[i]] = {}
      BY <2>3 DEF WrittenOK, Copied
    <3>2. \A i \in 1..3 : ~Copied(d, i)
      BY <2>4 DEF Copied
    <3>3. QED
      BY <3>1, <3>2 DEF WrittenOK
  <2>7. QED
    BY <2>1, <2>2, <2>3, <2>5, <2>6, OperatorMoves
<1>3. QED
  BY <1>1, <1>2

LEMMA DigestStep ==
    ASSUME TransferProgress, NEW o \in Operators, Digest(o)
    PROVE  TransferProgress'
<1>0. AtCommand(o)
  BY CommandType
<1> USE <1>0 DEF AtCommand
<1>1. CASE Raises(o)
  BY <1>1, RaiseStep
<1>2. CASE ~Raises(o)
  <2> DEFINE c == command[o]
             t == Tables[c.n]
             n1 == IF c.n = 3 THEN 1 ELSE c.n + 1
             pc1 == IF c.n = 3 THEN "orphans" ELSE "digest"
             found1 == [c.found EXCEPT ![t] = Visible(o, t)]
  <2>1. PICK d : /\ d = [c EXCEPT !.found = found1, !.n = n1, !.pc = pc1]
                 /\ command' = [command EXCEPT ![o] = d]
    <3>1. command' = [command EXCEPT ![o].found[t] = Visible(o, t), ![o].n = n1, ![o].pc = pc1]
      BY <1>2 DEF Digest
    <3>2. QED
      BY <3>1
  <2>0. n1 \in 1..3 /\ pc1 \in CommandPC
    BY DEF CommandPC
  <2>10. \A i \in 1..3 : pc1 = "orphans" \/ i < n1 => i < c.n \/ i = c.n
    OBVIOUS
  <2>11. pc1 \in {"digest", "orphans"} /\ (pc1 = "orphans" => n1 = 1)
    OBVIOUS
  <2> HIDE DEF n1, pc1, found1
  <2>2. t \in TableNames
    BY TableFacts
  <2>3. c.pc = "digest" /\ UNCHANGED <<versions, target, written, importCount>>
        /\ Visible(o, t) = c.expected[t]
    BY <1>2 DEF Digest, SameDigest
  <2>4. found1 \in TableRows /\ found1[t] = c.expected[t]
        /\ \A i \in 1..3 : i # c.n => found1[Tables[i]] = c.found[Tables[i]]
    BY <2>2, <2>3, TableFacts DEF TableRows, found1
  <2>5. /\ d \in Command /\ d.pc = pc1 /\ d.n = n1 /\ d.opened = c.opened
        /\ d.hash = c.hash /\ d.mode = c.mode /\ d.expected = c.expected /\ d.found = found1
    BY <2>0, <2>1, <2>4 DEF Command
  <2>6. \A i \in 1..3 : /\ Copied(d, i) /\ Copied(c, i)
                        /\ Compared(d, i) => Compared(c, i) \/ i = c.n
    BY <2>3, <2>5, <2>10, <2>11 DEF Copied, Compared
  <2>7. CommandOK(d, versions)
    <3>1. CopiedOK(d, versions)
      BY <2>5, <2>6 DEF CommandOK, CopiedOK
    <3>2. \A i \in 1..3 : Compared(d, i) => d.found[Tables[i]] = d.expected[Tables[i]]
      BY <2>4, <2>5, <2>6 DEF CommandOK
    <3>3. QED
      BY <2>3, <2>5, <2>11, <3>1, <3>2 DEF CommandOK, Hashed, Opened
  <2>8. WrittenOK(d, written[o])
    BY <2>3, <2>5, <2>6, <2>11 DEF WrittenOK
  <2>9. QED
    BY <2>1, <2>3, <2>5, <2>7, <2>8, OperatorMoves
<1>3. QED
  BY <1>1, <1>2

LEMMA OrphanStep ==
    ASSUME TransferProgress, NEW o \in Operators, CheckOrphans(o)
    PROVE  TransferProgress'
<1>0. AtCommand(o)
  BY CommandType
<1> USE <1>0 DEF AtCommand
<1>1. CASE Raises(o)
  BY <1>1, RaiseStep
<1>2. CASE ~Raises(o)
  <2> DEFINE c == command[o]
  <2>1. PICK d : /\ d = [c EXCEPT !.pc = "rehash"]
                 /\ command' = [command EXCEPT ![o] = d]
    <3>1. command' = [command EXCEPT ![o].pc = "rehash"]
      BY <1>2 DEF CheckOrphans, Goes
    <3>2. QED
      BY <3>1
  <2>2. /\ d \in Command /\ d.pc = "rehash" /\ d.n = c.n /\ d.opened = c.opened
        /\ d.hash = c.hash /\ d.mode = c.mode /\ d.expected = c.expected /\ d.found = c.found
    BY <2>1 DEF Command, CommandPC
  <2>3. c.pc = "orphans" /\ UNCHANGED <<versions, target, written, importCount>>
    BY <1>2 DEF CheckOrphans
  <2>4. \A i \in 1..3 : /\ Copied(d, i) /\ Copied(c, i)
                        /\ Compared(d, i) <=> Compared(c, i)
    BY <2>2, <2>3 DEF Copied, Compared
  <2>5. CommandOK(d, versions)
    BY <2>2, <2>3, <2>4 DEF CommandOK, CopiedOK, Hashed, Opened
  <2>6. WrittenOK(d, written[o])
    BY <2>2, <2>3, <2>4 DEF WrittenOK
  <2>7. QED
    BY <2>1, <2>2, <2>3, <2>5, <2>6, OperatorMoves
<1>3. QED
  BY <1>1, <1>2

\* The second checksum is the first: what was copied since is of that version.
LEMMA ReportStep ==
    ASSUME TransferProgress, NEW o \in Operators, Report(o)
    PROVE  TransferProgress'
<1>0. AtCommand(o)
  BY CommandType
<1> USE <1>0 DEF AtCommand
<1>1. CASE Raises(o)
  BY <1>1, RaiseStep
<1>2. CASE ~Raises(o)
  <2> DEFINE c == command[o]
  <2>1. PICK d : /\ d = [c EXCEPT !.pc = "done"]
                 /\ command' = [command EXCEPT ![o] = d]
    <3>1. command' = [command EXCEPT ![o].pc = "done"]
      BY <1>2 DEF Report, Goes
    <3>2. QED
      BY <3>1
  <2>2. /\ d \in Command /\ d.pc = "done" /\ d.n = c.n /\ d.opened = c.opened
        /\ d.hash = c.hash /\ d.mode = c.mode /\ d.expected = c.expected /\ d.found = c.found
    BY <2>1 DEF Command, CommandPC
  <2>3. /\ c.pc = "rehash" /\ UNCHANGED <<versions, importCount>>
        /\ c.hash = Len(versions)
        /\ target' = [t \in TableNames |-> Visible(o, t)]
        /\ written' = [written EXCEPT ![o] = Empty]
    BY <1>2 DEF Report, Unchanged, Hash
  <2>4. \A i \in 1..3 : /\ Copied(d, i) /\ Copied(c, i)
                        /\ Compared(d, i) <=> Compared(c, i)
    BY <2>2, <2>3 DEF Copied, Compared
  <2>5. c.opened = c.hash
    BY <2>3 DEF CommandOK, Opened
  <2>6. \A t \in TableNames : c.expected[t] = Transformed(versions[c.hash], t)
    <3>1. \A i \in 1..3 : c.expected[Tables[i]] = Transformed(versions[c.hash], Tables[i])
      <4> TAKE i \in 1..3
      <4>1. PICK v \in c.opened .. Len(versions) :
               c.expected[Tables[i]] = Transformed(versions[v], Tables[i])
        BY <2>4 DEF CommandOK, CopiedOK
      <4>2. v = c.hash
        BY <2>3, <2>5
      <4>3. QED
        BY <4>1, <4>2
    <3>2. QED
      BY <3>1, TableFacts
  <2>7. CommandOK(d, versions)
    BY <2>2, <2>3, <2>4, <2>6 DEF CommandOK, CopiedOK, Hashed, Opened
  <2>8. WrittenOK(d, Empty)
    BY <2>2, TableFacts DEF WrittenOK
  <2>9. target' \in TableRows
    BY <2>3 DEF Visible, TableRows
  <2>10. QED
    BY <2>1, <2>2, <2>3, <2>7, <2>8, <2>9, TableFacts, OperatorMoves
<1>3. QED
  BY <1>1, <1>2

\* A table is read at some version since the file was opened.
LEMMA CopyStep ==
    ASSUME TransferProgress, NEW o \in Operators, Copy(o)
    PROVE  TransferProgress'
<1>0. AtCommand(o)
  BY CommandType
<1> USE <1>0 DEF AtCommand
<1>1. CASE Raises(o)
  BY <1>1, RaiseStep
<1>2. CASE ~Raises(o)
  <2> DEFINE c == command[o]
             t == Tables[c.n]
             n1 == IF c.n = 3 THEN 1 ELSE c.n + 1
             pc1 == IF c.n < 3 THEN "copy" ELSE AfterCopy(c.mode)
  <2>1. PICK v \in c.opened .. Len(versions) :
           Transformable(versions[v], t) /\ CopyTable(o, Transformed(versions[v], t))
    BY <1>2 DEF Copy, Hash
  <2> DEFINE made == Transformed(versions[v], t)
             expected1 == [c.expected EXCEPT ![t] = made]
             w == IF c.mode = "transfer" THEN [written[o] EXCEPT ![t] = made] ELSE written[o]
  <2>2. PICK d : /\ d = [c EXCEPT !.expected = expected1, !.n = n1, !.pc = pc1]
                 /\ command' = [command EXCEPT ![o] = d]
    <3>1. command' = [command EXCEPT ![o].expected[t] = made, ![o].n = n1, ![o].pc = pc1]
      BY <2>1 DEF CopyTable
    <3>2. QED
      BY <3>1
  <2>3. t \in TableNames /\ c.pc = "copy" /\ UNCHANGED <<versions, target, importCount>>
    BY <2>1, TableFacts DEF CopyTable, Copy
  <2>4. made \subseteq RowType
    <3>1. c.opened \in 1 .. Len(versions)
      BY <2>3 DEF CommandOK, Hashed, Opened
    <3>2. versions[v] \in FileType
      BY <3>1
    <3>3. QED
      BY <2>1, <2>3, <3>2, RowsOfFile
  <2>5. n1 \in 1..3 /\ pc1 \in CommandPC
    BY DEF CommandPC, AfterCopy
  <2>6. \A i \in 1..3 : (pc1 = "copy" => i < n1) => i < c.n \/ i = c.n
    OBVIOUS
  <2>7. /\ pc1 \in {"copy", "digest", "rehash"} /\ (pc1 = "rehash" => n1 = 1)
        /\ pc1 = "digest" => n1 = 1
        /\ pc1 = "rehash" => c.mode = "preflight"
        /\ \A i \in 1..3 : pc1 = "copy" /\ i < c.n => i < n1
        /\ pc1 = "copy" => c.n < n1
    BY DEF AfterCopy
  <2>8. expected1 \in TableRows /\ expected1[t] = made
        /\ \A i \in 1..3 : i # c.n => expected1[Tables[i]] = c.expected[Tables[i]]
    BY <2>3, <2>4, TableFacts DEF TableRows
  <2>9. written' = [written EXCEPT ![o] = w]
    <3>1. CASE c.mode = "transfer"
      BY <2>1, <3>1 DEF CopyTable, Inserts
    <3>2. CASE c.mode # "transfer"
      BY <2>1, <3>2 DEF CopyTable, Inserts
    <3>3. QED
      BY <3>1, <3>2
  <2>10. /\ w \in TableRows
         /\ \A i \in 1..3 : i # c.n => w[Tables[i]] = written[o][Tables[i]]
         /\ c.mode = "transfer" => w[t] = made
         /\ c.mode # "transfer" => w = written[o]
    BY <2>3, <2>4, TableFacts DEF TableRows
  <2> HIDE DEF n1, pc1, made, expected1, w
  <2>11. /\ d \in Command /\ d.pc = pc1 /\ d.n = n1 /\ d.opened = c.opened
         /\ d.hash = c.hash /\ d.mode = c.mode /\ d.expected = expected1 /\ d.found = c.found
    BY <2>2, <2>5, <2>8 DEF Command
  <2>12. \A i \in 1..3 : Copied(d, i) <=> Copied(c, i) \/ i = c.n
    BY <2>3, <2>5, <2>6, <2>7, <2>11 DEF Copied
  <2>13. \A i \in 1..3 : ~Compared(d, i)
    BY <2>7, <2>11 DEF Compared
  <2>14. CommandOK(d, versions)
    <3>1. CopiedOK(d, versions)
      <4> SUFFICES ASSUME NEW i \in 1..3, Copied(d, i)
                   PROVE  \E u \in c.opened .. Len(versions) :
                             /\ Transformable(versions[u], Tables[i])
                             /\ d.expected[Tables[i]] = Transformed(versions[u], Tables[i])
        BY <2>11 DEF CopiedOK
      <4>1. CASE i = c.n
        BY <2>1, <2>8, <2>11, <4>1 DEF made
      <4>2. CASE i # c.n
        BY <2>8, <2>11, <2>12, <4>2 DEF CommandOK, CopiedOK
      <4>3. QED
        BY <4>1, <4>2
    <3>2. QED
      BY <2>3, <2>7, <2>11, <2>13, <3>1 DEF CommandOK, Hashed, Opened
  <2>15. WrittenOK(d, w)
    <3> SUFFICES ASSUME NEW i \in 1..3
                 PROVE  w[Tables[i]] = IF d.mode = "transfer" /\ Copied(d, i)
                                       THEN d.expected[Tables[i]] ELSE {}
      BY <2>7, <2>11 DEF WrittenOK
    <3>1. written[o][Tables[i]] = IF c.mode = "transfer" /\ Copied(c, i)
                                  THEN c.expected[Tables[i]] ELSE {}
      BY <2>3 DEF WrittenOK
    <3>2. CASE i = c.n
      <4>1. ~Copied(c, i)
        BY <2>3, <3>2 DEF Copied
      <4>2. QED
        BY <2>8, <2>10, <2>11, <2>12, <3>1, <3>2, <4>1
    <3>3. CASE i # c.n
      BY <2>8, <2>10, <2>11, <2>12, <3>1, <3>3
    <3>4. QED
      BY <3>2, <3>3
  <2>16. QED
    BY <2>2, <2>3, <2>9, <2>10, <2>11, <2>14, <2>15, OperatorMoves
<1>3. QED
  BY <1>1, <1>2

LEMMA FileStep ==
    ASSUME TransferProgress, OldProgramWrites
    PROVE  TransferProgress'
<1>1. TransferTyped /\ versions \in Seq(FileType)
  BY DEF TransferProgress, TransferTyped
<1>2. UNCHANGED <<target, written, importCount, command>>
  BY DEF OldProgramWrites
<1>3. /\ versions' \in Seq(FileType) /\ Len(versions') \in 1..MaxVersions
      /\ Len(versions) <= Len(versions')
      /\ \A v \in 1 .. Len(versions) : versions'[v] = versions[v]
  BY <1>1, VersionsGrow
<1>4. \A o \in Operators : CommandOK(command'[o], versions') /\ WrittenOK(command'[o], written'[o])
  <2> TAKE o \in Operators
  <2>1. command[o] \in Command /\ CommandOK(command[o], versions) /\ WrittenOK(command[o], written[o])
    BY DEF TransferProgress, TransferTyped
  <2>2. QED
    BY <1>1, <1>2, <1>3, <2>1, CommandStays
<1>5. TransferTyped'
  BY <1>1, <1>2, <1>3 DEF TransferTyped
<1>6. QED
  BY <1>4, <1>5 DEF TransferProgress

LEMMA ImportStep ==
    ASSUME TransferProgress, NEW e \in LegacyEvents, ImportCommits(e)
    PROVE  TransferProgress'
<1>1. /\ importCount < MaxImports /\ importCount' = importCount + 1
      /\ UNCHANGED <<versions, written, command>>
  BY DEF ImportCommits
<1>2. target' \in TableRows
  <2>1. target["events"] \subseteq RowType /\ target["attempts"] \subseteq RowType
        /\ target["states"] \subseteq RowType /\ importCount \in Nat
    BY TableFacts, TransferAssumption DEF TransferProgress, TransferTyped, TableRows
  <2>2. /\ Entry(<<"event", e>>, e, "imported") \in RowType
        /\ Entry(<<"event", e>>, e, <<"complete", FALSE>>) \in RowType
        /\ Entry(<<"import", importCount>>, e, <<"complete", FALSE>>) \in RowType
    BY <2>1 DEF Entry, RowType, EventKeys, SyncStates
  <2>3. QED
    BY <2>1, <2>2, TableFacts DEF ImportCommits, TableRows
<1>3. QED
  BY <1>1, <1>2, TransferAssumption DEF TransferProgress, TransferTyped

LEMMA TransferProgresses ==
    ASSUME TransferProgress, [TransferNext]_transferVars
    PROVE  TransferProgress'
<1>1. CASE OldProgramWrites
  BY <1>1, FileStep
<1>2. CASE \E e \in LegacyEvents : ImportCommits(e)
  BY <1>2, ImportStep
<1>3. ASSUME NEW o \in Operators,
             \/ \E mode \in Modes : StartCommand(o, mode)
             \/ OpenSource(o) \/ EnsureEmpty(o) \/ Copy(o) \/ Digest(o)
             \/ CheckOrphans(o) \/ Report(o) \/ Stops(o)
      PROVE  TransferProgress'
  <2>1. CASE \E mode \in Modes : StartCommand(o, mode)
    BY <2>1, StartStep
  <2>2. CASE OpenSource(o)
    BY <2>2, OpenStep
  <2>3. CASE EnsureEmpty(o)
    BY <2>3, EmptyStep
  <2>4. CASE Copy(o)
    BY <2>4, CopyStep
  <2>5. CASE Digest(o)
    BY <2>5, DigestStep
  <2>6. CASE CheckOrphans(o)
    BY <2>6, OrphanStep
  <2>7. CASE Report(o)
    BY <2>7, ReportStep
  <2>8. CASE Stops(o)
    BY <2>8, RaiseStep DEF Stops
  <2>9. QED
    BY <1>3, <2>1, <2>2, <2>3, <2>4, <2>5, <2>6, <2>7, <2>8
<1>4. CASE UNCHANGED transferVars
  BY <1>4 DEF transferVars, TransferProgress, TransferTyped
<1>5. QED
  BY <1>1, <1>2, <1>3, <1>4 DEF TransferNext

LEMMA TransferStarts == TransferInit => TransferProgress
<1> SUFFICES ASSUME TransferInit PROVE TransferProgress
  OBVIOUS
<1>1. PICK f \in Files : versions = <<f>>
  BY DEF TransferInit
<1>2. f \in FileType
  <2>1. PICK form \in {"good", "tables", "values"},
             s \in [LegacyEvents -> {"none", "NOT_ATTEMPTED", "ODD"}],
             l \in {<<>>} \cup {<<Logged(e, "FAILED")>> : e \in LegacyEvents} :
             f = File(form, s, l)
    BY <1>1 DEF Files
  <2>2. l \in Seq(LogEntry)
    <3>1. \A e \in LegacyEvents : Logged(e, "FAILED") \in LogEntry
      BY DEF Logged, LogEntry, Statuses
    <3>2. <<>> \in Seq(LogEntry) /\ \A x \in LogEntry : <<x>> \in Seq(LogEntry)
      OBVIOUS
    <3>3. QED
      BY <3>1, <3>2
  <2>3. QED
    BY <2>1, <2>2 DEF File, FileType, Statuses
<1>3. versions \in Seq(FileType) /\ Len(versions) = 1
  BY <1>1, <1>2
<1>4. TransferTyped
  BY <1>3, TableFacts, NoCommandOK, TransferAssumption DEF TransferInit, TransferTyped
<1>5. \A o \in Operators : CommandOK(command[o], versions) /\ WrittenOK(command[o], written[o])
  BY NoCommandOK DEF TransferInit
<1>6. QED
  BY <1>4, <1>5 DEF TransferProgress

LEMMA ProgressIsExact == TransferProgress => ReportsAreExact
<1> SUFFICES ASSUME TransferProgress, NEW o \in Operators, command[o].pc = "done",
                    NEW t \in TableNames
             PROVE  /\ command[o].expected[t] = Transformed(versions[command[o].hash], t)
                    /\ command[o].mode # "preflight" =>
                          command[o].found[t] = command[o].expected[t]
  BY DEF ReportsAreExact
<1>1. CommandOK(command[o], versions)
  BY DEF TransferProgress
<1>2. PICK i \in 1..3 : t = Tables[i]
  BY TableFacts
<1>3. QED
  BY <1>1, <1>2 DEF CommandOK, Compared

\* At every step, each table an operator has copied is that of some version of the
\* file since it was opened, and each one it has compared was found as copied.
THEOREM TransferProgressInvariance == TransferSpec => []TransferProgress
  BY TransferStarts, TransferProgresses, PTL DEF TransferSpec

\* A report tells of the version of the file whose checksum it names, and each
\* table held that version's rows and no others when it was compared
\* (transfer_legacy_sqlite, validate_transfer).
THEOREM ReportsExact == TransferSpec => []ReportsAreExact
  BY TransferProgressInvariance, ProgressIsExact, PTL

-----------------------------------------------------------------------------
(* Keys stay unique, in the new database and in what each transfer has     *)
(* written of it.                                                          *)

LEMMA WrittenRows ==
    ASSUME TransferProgress, NEW o \in Operators, NEW t \in TableNames
    PROVE  /\ written[o][t] \subseteq RowType
           /\ Unique(written[o][t])
           /\ t # "attempts" => \A r \in written[o][t] : r.key = <<"event", r.event>>
           /\ t = "attempts" => \A r \in written[o][t] : r.key \in {"log"} \X Nat
<1>0. AtCommand(o)
  BY CommandType
<1>1. PICK i \in 1..3 : t = Tables[i]
  BY TableFacts
<1>2. CASE written[o][t] = {}
  BY <1>2 DEF Unique
<1>3. CASE written[o][t] # {}
  <2>1. /\ Copied(command[o], i) /\ command[o].pc # "done"
        /\ written[o][t] = command[o].expected[t]
    BY <1>0, <1>1, <1>3 DEF AtCommand, WrittenOK
  <2>2. PICK v \in command[o].opened .. Len(versions) :
           /\ Transformable(versions[v], t)
           /\ command[o].expected[t] = Transformed(versions[v], t)
    BY <1>0, <1>1, <2>1 DEF AtCommand, CommandOK, CopiedOK
  <2>3. versions[v] \in FileType
    <3>1. command[o].opened \in 1 .. Len(versions)
      BY <1>0, <2>1 DEF AtCommand, CommandOK, Copied, Opened, Hashed
    <3>2. QED
      BY <1>0, <3>1 DEF AtCommand
  <2>4. QED
    BY <2>1, <2>2, <2>3, RowsOfFile DEF Unique
<1>4. QED
  BY <1>2, <1>3

\* Once a transfer may commit, the events and the states it has written are of
\* the same version.
LEMMA WrittenTogether ==
    ASSUME TransferProgress, NEW o \in Operators, Report(o), ~Raises(o)
    PROVE  \A r \in written[o]["events"] : HasKey(r.key, written[o]["states"])
<1>0. AtCommand(o)
  BY CommandType
<1> USE <1>0 DEF AtCommand
<1> DEFINE c == command[o]  f == versions[Len(versions)]
<1>1. c.pc = "rehash" /\ c.hash = Len(versions)
  BY DEF Report, Unchanged, Hash
<1>2. c.opened = Len(versions)
  BY <1>1 DEF CommandOK, Opened
<1>3. \A i \in 1..3 : /\ Transformable(f, Tables[i])
                      /\ c.expected[Tables[i]] = Transformed(f, Tables[i])
  <2> TAKE i \in 1..3
  <2>1. PICK v \in c.opened .. Len(versions) :
           /\ Transformable(versions[v], Tables[i])
           /\ c.expected[Tables[i]] = Transformed(versions[v], Tables[i])
    BY <1>1 DEF CommandOK, CopiedOK, Copied
  <2>2. v = Len(versions)
    BY <1>2
  <2>3. QED
    BY <2>1, <2>2
<1>4. f \in FileType
  OBVIOUS
<1>5. CASE c.mode = "transfer"
  <2>1. \A i \in 1..3 : written[o][Tables[i]] = Transformed(f, Tables[i])
    BY <1>1, <1>3, <1>5 DEF WrittenOK, Copied
  <2>2. /\ written[o]["events"] = Transformed(f, "events") /\ Transformable(f, "events")
        /\ written[o]["states"] = Transformed(f, "states") /\ Transformable(f, "states")
    BY <1>3, <2>1, TableFacts
  <2>3. \A r \in written[o]["events"] : r.key = <<"event", r.event>> /\ r.event \in Known(f)
    BY <1>4, <2>2, TableFacts, RowsOfFile
  <2>4. \A e \in Known(f) : \E r \in written[o]["states"] : r.key = <<"event", e>>
    BY <1>4, <2>2, TableFacts, RowsOfFile
  <2>5. QED
    BY <2>3, <2>4 DEF HasKey
<1>6. CASE c.mode # "transfer"
  BY <1>6, TableFacts DEF WrittenOK
<1>7. QED
  BY <1>5, <1>6

LEMMA RaiseKeeps ==
    ASSUME TransferInv, NEW o \in Operators, Raises(o)
    PROVE  TargetOK' /\ WrittenApart'
<1>1. written \in [Operators -> TableRows] /\ UNCHANGED <<target, importCount>>
  BY DEF TransferInv, TransferProgress, TransferTyped, Raises
<1>2. \A p \in Operators : written'[p] = IF p = o THEN Empty ELSE written[p]
  BY <1>1 DEF Raises
<1>3. TargetOK'
  BY <1>1 DEF TransferInv, TargetOK
<1>4. WrittenApart'
  BY <1>1, <1>2, TableFacts DEF TransferInv, WrittenApart, Apart, HasKey
<1>5. QED
  BY <1>3, <1>4

LEMMA ImportKeeps ==
    ASSUME TransferInv, NEW e \in LegacyEvents, ImportCommits(e)
    PROVE  TargetOK' /\ WrittenApart'
<1> DEFINE event == Entry(<<"event", e>>, e, "imported")
           attempt == Entry(<<"import", importCount>>, e, <<"complete", FALSE>>)
           state == Entry(<<"event", e>>, e, <<"complete", FALSE>>)
<1>1. /\ importCount \in Nat /\ importCount' = importCount + 1 /\ written' = written
      /\ \A o \in Operators : <<"event", e>> \notin Keys(written[o]["events"])
      /\ target'["events"] = {r \in target["events"] : r.event # e} \cup {event}
      /\ target'["attempts"] = target["attempts"] \cup {attempt}
      /\ target'["states"] = {r \in target["states"] : r.event # e} \cup {state}
  <2>1. importCount \in Nat
    BY TransferAssumption DEF TransferInv, TransferProgress, TransferTyped
  <2>2. /\ importCount' = importCount + 1 /\ written' = written
        /\ \A o \in Operators : <<"event", e>> \notin Keys(written[o]["events"])
    BY DEF ImportCommits
  <2>3. target' = [events |-> {r \in target["events"] : r.event # e} \cup {event},
                   attempts |-> target["attempts"] \cup {attempt},
                   states |-> {r \in target["states"] : r.event # e} \cup {state}]
    BY DEF ImportCommits
  <2> HIDE DEF event, attempt, state
  <2>4. QED
    BY <2>1, <2>2, <2>3
<1>2. /\ event.key = <<"event", e>> /\ event.event = e
      /\ state.key = <<"event", e>> /\ state.event = e
      /\ attempt.key = <<"import", importCount>>
  BY DEF Entry
<1> HIDE DEF event, attempt, state
<1>3. TransferProgress /\ TargetOK /\ WrittenApart
  BY DEF TransferInv
<1>4. TargetOK'
  <2>1. Unique(target'["events"]) /\ Unique(target'["states"]) /\ Unique(target'["attempts"])
    <3>1. Unique(target'["events"])
      BY <1>1, <1>2, <1>3, TableFacts DEF TargetOK, Unique
    <3>2. Unique(target'["states"])
      BY <1>1, <1>2, <1>3, TableFacts DEF TargetOK, Unique
    <3>3. Unique(target'["attempts"])
      BY <1>1, <1>2, <1>3, TableFacts DEF TargetOK, Unique
    <3>4. QED
      BY <3>1, <3>2, <3>3
  <2>2. ASSUME NEW r \in target'["events"]
        PROVE  r.key = <<"event", r.event>> /\ HasKey(r.key, target'["states"])
    <3>1. CASE r = event
      BY <1>1, <1>2, <3>1 DEF HasKey
    <3>2. CASE r # event
      <4>1. r \in target["events"] /\ r.event # e /\ r.key = <<"event", r.event>>
        BY <1>1, <1>3, <3>2 DEF TargetOK
      <4>2. PICK s \in target["states"] : s.key = r.key
        BY <1>3, <4>1 DEF TargetOK, HasKey
      <4>3. s.key = <<"event", s.event>>
        BY <1>3 DEF TargetOK
      <4>4. s \in target'["states"]
        BY <1>1, <4>1, <4>2, <4>3
      <4>5. QED
        BY <4>1, <4>2, <4>4 DEF HasKey
    <3>3. QED
      BY <3>1, <3>2
  <2>3. \A r \in target'["states"] : r.key = <<"event", r.event>>
    BY <1>1, <1>2, <1>3 DEF TargetOK
  <2>4. \A r \in target'["attempts"], i \in Nat : r.key = <<"import", i>> => i < importCount'
    BY <1>1, <1>2, <1>3 DEF TargetOK
  <2>5. QED
    BY <2>1, <2>2, <2>3, <2>4, TableFacts DEF TargetOK
<1>5. WrittenApart'
  <2>1. ASSUME NEW o \in Operators
        PROVE  /\ Apart(written[o]["events"], target'["events"])
               /\ Apart(written[o]["attempts"], target'["attempts"])
               /\ Apart(written[o]["states"], target'["states"])
    <3>1. ~HasKey(<<"event", e>>, written[o]["events"])
      BY <1>1 DEF Keys, HasKey
    <3>2. ~HasKey(<<"event", e>>, written[o]["states"])
      BY <1>3, <3>1 DEF WrittenApart, HasKey
    <3>3. \A r \in written[o]["attempts"] : r.key # <<"import", importCount>>
      <4>1. \A r \in written[o]["attempts"] : r.key \in {"log"} \X Nat
        BY <1>3, WrittenRows, TableFacts
      <4>2. QED
        BY <4>1
    <3>4. Apart(written[o]["events"], target["events"]) /\ Apart(written[o]["states"], target["states"])
          /\ Apart(written[o]["attempts"], target["attempts"])
      BY <1>3, TableFacts DEF WrittenApart
    <3>5. Apart(written[o]["events"], target'["events"])
      BY <1>1, <1>2, <3>1, <3>4 DEF Apart, HasKey
    <3>6. Apart(written[o]["states"], target'["states"])
      BY <1>1, <1>2, <3>2, <3>4 DEF Apart, HasKey
    <3>7. Apart(written[o]["attempts"], target'["attempts"])
      BY <1>1, <1>2, <3>3, <3>4 DEF Apart, HasKey
    <3>8. QED
      BY <3>5, <3>6, <3>7
  <2>2. \A o \in Operators, t \in TableNames : Apart(written[o][t], target'[t])
    BY <2>1, TableFacts
  <2>3. QED
    BY <1>1, <1>3, <2>2 DEF WrittenApart
<1>6. QED
  BY <1>4, <1>5

LEMMA CopyKeeps ==
    ASSUME TransferInv, NEW o \in Operators, Copy(o), ~Raises(o)
    PROVE  TargetOK' /\ WrittenApart'
<1>0. AtCommand(o) /\ written \in [Operators -> TableRows]
  BY CommandType DEF TransferInv, TransferProgress, TransferTyped
<1> USE <1>0 DEF AtCommand
<1> DEFINE c == command[o]
           t == Tables[c.n]
<1>1. PICK v \in c.opened .. Len(versions) :
         /\ Transformable(versions[v], t) /\ CopyTable(o, Transformed(versions[v], t))
         /\ Inserts(o) => /\ ~MustWait(o, t, Transformed(versions[v], t))
                          /\ ~Violates(o, t, Transformed(versions[v], t))
  BY DEF Copy, Hash
<1> DEFINE made == Transformed(versions[v], t)
<1>2. t \in TableNames /\ UNCHANGED <<target, importCount>>
  BY <1>1, TableFacts DEF CopyTable
<1>3. TargetOK'
  BY <1>2 DEF TransferInv, TargetOK
<1>4. CASE ~Inserts(o)
  <2>1. written' = written
    BY <1>1, <1>4 DEF CopyTable
  <2>2. WrittenApart'
    BY <1>2, <2>1 DEF TransferInv, WrittenApart
  <2>3. QED
    BY <1>3, <2>2
<1>5. CASE Inserts(o)
  <2>1. \A p \in Operators, u \in TableNames :
           written'[p][u] = IF p = o /\ u = t THEN made ELSE written[p][u]
    <3>1. written' = [written EXCEPT ![o][t] = made]
      BY <1>1, <1>5 DEF CopyTable
    <3>2. QED
      BY <1>2, <3>1 DEF TableRows
  <2>2. ~MustWait(o, t, made) /\ ~Violates(o, t, made)
    BY <1>1, <1>5
  <2> HIDE DEF made
  <2>3. \A r \in made : /\ ~HasKey(r.key, target[t]) /\ ~HasKey(r.key, written[o][t])
                        /\ t # "events" => \/ HasKey(<<"event", r.event>>, target["events"])
                                           \/ HasKey(<<"event", r.event>>, written[o]["events"])
    <3>1. Keys(made) \cap Keys(target[t] \cup written[o][t]) = {}
      BY <2>2 DEF Violates, Visible
    <3>2. t # "events" => \A r \in made :
             <<"event", r.event>> \in Keys(target["events"] \cup written[o]["events"])
      BY <2>2 DEF Violates, Visible
    <3>3. \A k, table, others : k \in Keys(table \cup others) <=>
                                  HasKey(k, table) \/ HasKey(k, others)
      BY DEF Keys, HasKey
    <3>4. \A r \in made : r.key \in Keys(made)
      BY DEF Keys
    <3>5. \A r \in made : ~HasKey(r.key, target[t]) /\ ~HasKey(r.key, written[o][t])
      BY <3>1, <3>3, <3>4
    <3>6. QED
      BY <3>2, <3>3, <3>5
  <2>4. \A r \in made, p \in Operators \ {o} : ~HasKey(r.key, written[p][t])
    BY <2>2 DEF MustWait, Keys, HasKey
  <2>5. WrittenApart /\ TargetOK
    BY DEF TransferInv
  <2>6. ASSUME NEW p \in Operators, NEW u \in TableNames
        PROVE  Apart(written'[p][u], target'[u])
    BY <1>2, <2>1, <2>3, <2>5 DEF Apart, WrittenApart
  <2>7. ASSUME NEW p \in Operators, NEW u \in TableNames, NEW q \in Operators \ {p}
        PROVE  Apart(written'[p][u], written'[q][u])
    <3>1. Apart(written[p][u], written[q][u])
      BY <2>5 DEF WrittenApart
    <3>2. CASE p = o /\ u = t
      BY <2>1, <2>4, <3>2 DEF Apart
    <3>3. CASE q = o /\ u = t
      BY <2>1, <2>4, <3>3 DEF Apart, HasKey
    <3>4. CASE u # t \/ (p # o /\ q # o)
      BY <2>1, <3>1, <3>4
    <3>5. QED
      BY <3>2, <3>3, <3>4
  <2>8. ASSUME NEW p \in Operators, NEW r \in written'[p]["states"]
        PROVE  HasKey(r.key, written'[p]["events"])
    <3>1. CASE p # o
      BY <2>1, <2>5, <3>1, TableFacts DEF WrittenApart
    <3>2. CASE p = o /\ t = "attempts"
      BY <2>1, <2>5, <3>2, TableFacts DEF WrittenApart
    <3>3. CASE p = o /\ t = "events"
      <4>1. c.n = 1 /\ c.pc = "copy"
        BY <3>3, TableFacts DEF Copy
      <4>2. written[o]["states"] = {}
        BY <4>1, TableFacts DEF WrittenOK, Copied
      <4>3. QED
        BY <2>1, <3>3, <4>2, TableFacts
    <3>4. CASE p = o /\ t = "states"
      <4>1. r \in made /\ written'[o]["events"] = written[o]["events"]
        BY <2>1, <3>4, TableFacts
      <4>2. r.key = <<"event", r.event>>
        <5>1. c.opened \in 1 .. Len(versions)
          BY DEF Copy, CommandOK, Hashed, Opened
        <5>2. versions[v] \in FileType
          BY <5>1
        <5>3. QED
          BY <1>1, <1>2, <3>4, <4>1, <5>2, RowsOfFile DEF made
      <4>3. ~HasKey(r.key, target["events"])
        <5>1. ~HasKey(r.key, target["states"])
          BY <2>3, <3>4, <4>1
        <5>2. QED
          BY <2>5, <5>1 DEF TargetOK, HasKey
      <4>4. QED
        BY <2>3, <3>4, <4>1, <4>2, <4>3
    <3>5. QED
      BY <1>2, <3>1, <3>2, <3>3, <3>4, TableFacts
  <2>9. WrittenApart'
    BY <2>6, <2>7, <2>8 DEF WrittenApart
  <2>10. QED
    BY <1>3, <2>9
<1>6. QED
  BY <1>3, <1>4, <1>5

LEMMA ReportKeeps ==
    ASSUME TransferInv, NEW o \in Operators, Report(o), ~Raises(o)
    PROVE  TargetOK' /\ WrittenApart'
<1>0. TransferProgress /\ TargetOK /\ WrittenApart /\ written \in [Operators -> TableRows]
  BY DEF TransferInv, TransferProgress, TransferTyped
<1>1. /\ \A t \in TableNames : target'[t] = target[t] \cup written[o][t]
      /\ written' = [written EXCEPT ![o] = Empty] /\ importCount' = importCount
  BY DEF Report, Visible
<1>2. \A p \in Operators : written'[p] = IF p = o THEN Empty ELSE written[p]
  BY <1>0, <1>1
<1>3. TargetOK'
  <2>1. ASSUME NEW t \in TableNames PROVE Unique(target'[t])
    <3>1. Unique(target[t]) /\ Unique(written[o][t]) /\ Apart(written[o][t], target[t])
      BY <1>0, WrittenRows DEF TargetOK, WrittenApart
    <3>2. QED
      BY <1>1, <3>1 DEF Unique, Apart, HasKey
  <2>2. ASSUME NEW r \in target'["events"]
        PROVE  r.key = <<"event", r.event>> /\ HasKey(r.key, target'["states"])
    <3>1. \A x \in target["events"] : x.key = <<"event", x.event>> /\ HasKey(x.key, target["states"])
      BY <1>0 DEF TargetOK
    <3>2. \A x \in written[o]["events"] :
             x.key = <<"event", x.event>> /\ HasKey(x.key, written[o]["states"])
      BY <1>0, WrittenRows, WrittenTogether, TableFacts
    <3>3. QED
      BY <1>1, <3>1, <3>2, TableFacts DEF HasKey
  <2>3. \A r \in target'["states"] : r.key = <<"event", r.event>>
    BY <1>0, <1>1, WrittenRows, TableFacts DEF TargetOK
  <2>4. \A r \in target'["attempts"], i \in Nat : r.key = <<"import", i>> => i < importCount'
    <3>1. \A r \in written[o]["attempts"] : r.key \in {"log"} \X Nat
      BY <1>0, WrittenRows, TableFacts
    <3>2. \A r \in written[o]["attempts"], i \in Nat : r.key # <<"import", i>>
      BY <3>1
    <3>3. QED
      BY <1>0, <1>1, <3>2, TableFacts DEF TargetOK
  <2>5. QED
    BY <2>1, <2>2, <2>3, <2>4 DEF TargetOK
<1>4. WrittenApart'
  <2>1. ASSUME NEW p \in Operators, NEW t \in TableNames
        PROVE  Apart(written'[p][t], target'[t])
    <3>1. CASE p = o
      BY <1>2, <3>1, TableFacts DEF Apart
    <3>2. CASE p # o
      <4>1. Apart(written[p][t], target[t]) /\ Apart(written[p][t], written[o][t])
        BY <1>0, <3>2 DEF WrittenApart
      <4>2. QED
        BY <1>1, <1>2, <3>2, <4>1 DEF Apart, HasKey
    <3>3. QED
      BY <3>1, <3>2
  <2>2. ASSUME NEW p \in Operators, NEW t \in TableNames, NEW q \in Operators \ {p}
        PROVE  Apart(written'[p][t], written'[q][t])
    BY <1>0, <1>2, TableFacts DEF WrittenApart, Apart, HasKey
  <2>3. ASSUME NEW p \in Operators, NEW r \in written'[p]["states"]
        PROVE  HasKey(r.key, written'[p]["events"])
    BY <1>0, <1>2, TableFacts DEF WrittenApart
  <2>4. QED
    BY <2>1, <2>2, <2>3 DEF WrittenApart
<1>5. QED
  BY <1>3, <1>4

LEMMA TransferKeeps ==
    ASSUME TransferInv, [TransferNext]_transferVars
    PROVE  TransferInv'
<1>1. TransferProgress'
  BY TransferProgresses DEF TransferInv
<1>2. ASSUME UNCHANGED <<target, written, importCount>>
      PROVE  TargetOK' /\ WrittenApart'
  BY <1>2 DEF TransferInv, TargetOK, WrittenApart
<1>3. CASE \E e \in LegacyEvents : ImportCommits(e)
  BY <1>1, <1>3, ImportKeeps DEF TransferInv
<1>4. ASSUME NEW o \in Operators,
             \/ \E mode \in Modes : StartCommand(o, mode)
             \/ OpenSource(o) \/ EnsureEmpty(o) \/ Copy(o) \/ Digest(o)
             \/ CheckOrphans(o) \/ Report(o) \/ Stops(o)
      PROVE  TargetOK' /\ WrittenApart'
  <2>1. CASE Raises(o)
    BY <2>1, RaiseKeeps
  <2>2. CASE Copy(o) /\ ~Raises(o)
    BY <2>2, CopyKeeps
  <2>3. CASE Report(o) /\ ~Raises(o)
    BY <2>3, ReportKeeps
  <2>4. CASE UNCHANGED <<target, written, importCount>>
    BY <1>2, <2>4 DEF TransferInv
  <2>5. CASE \E mode \in Modes : StartCommand(o, mode)
    BY <2>4, <2>5 DEF StartCommand
  <2>6. CASE (OpenSource(o) \/ EnsureEmpty(o) \/ Digest(o) \/ CheckOrphans(o)) /\ ~Raises(o)
    BY <2>4, <2>6 DEF OpenSource, EnsureEmpty, Digest, CheckOrphans
  <2>7. QED
    BY <1>4, <2>1, <2>2, <2>3, <2>5, <2>6 DEF Stops
<1>5. CASE OldProgramWrites \/ UNCHANGED transferVars
  <2>1. UNCHANGED <<target, written, importCount>>
    BY <1>5 DEF OldProgramWrites, transferVars
  <2>2. QED
    BY <1>1, <1>2, <2>1 DEF TransferInv
<1>6. QED
  BY <1>1, <1>3, <1>4, <1>5 DEF TransferNext, TransferInv

LEMMA TransferInvStarts == TransferInit => TransferInv
  BY TransferStarts, TableFacts DEF TransferInit, TransferInv, TargetOK, WrittenApart, Apart, Unique

\* Keys are unique, also between what is committed and what two operators are
\* writing; events have their states.
THEOREM TransferInvariance == TransferSpec => []TransferInv
  BY TransferInvStarts, TransferKeeps, PTL DEF TransferSpec

LEMMA InvImpliesType == TransferInv => TransferTypeOK
<1> SUFFICES ASSUME TransferInv PROVE TransferTypeOK
  OBVIOUS
<1>1. \A t \in TableNames, o \in Operators :
         \A r, s \in target[t] \cup written[o][t] : r.key = s.key => r = s
  BY WrittenRows DEF TransferInv, TargetOK, WrittenApart, Apart, HasKey, Unique
<1>2. \A o \in Operators :
         /\ command[o].pc \in CommandPC /\ command[o].mode \in Modes
         /\ command[o].hash \in 0..MaxVersions /\ command[o].n \in 1..4
  <2> TAKE o \in Operators
  <2>1. AtCommand(o) /\ Len(versions) \in 1..MaxVersions
    BY CommandType DEF TransferInv, TransferProgress, TransferTyped
  <2>2. command[o].hash \in 0..MaxVersions
    BY <2>1, TransferAssumption DEF AtCommand, CommandOK, Hashed
  <2>3. QED
    BY <2>1, <2>2 DEF AtCommand
<1>3. QED
  BY <1>1, <1>2 DEF TransferInv, TransferProgress, TransferTyped, TransferTypeOK

\* The file, the new database and the operators' local data keep their types.
THEOREM TransferTypeCorrect == TransferSpec => []TransferTypeOK
  BY TransferInvariance, InvImpliesType, PTL

-----------------------------------------------------------------------------
(* Teams and Discord links.                                                *)

RosterSpec == RosterInit /\ [][RosterNext]_rosterVars

Listed == [player : Players, role : Roles]
RoleMaps == UNION {[M -> Roles] : M \in SUBSET Nat}
Task == [pc : RosterPC, slug : Slugs \cup {NoTask.slug}, list : Seq(Listed), n : Nat,
         member : Nat, links : [Players -> Nat], roles : RoleMaps]

RosterTyped ==
    /\ teams \subseteq Slugs
    /\ links \in [Players -> Nat]
    /\ roles \in [Slugs -> RoleMaps]
    /\ discord \in [Accounts -> Nat]
    /\ drawn \in Nat
    /\ admin \in [Admins -> Task]
    /\ installed \in [Slugs -> Seq(Listed)]
    /\ claimed \in [player : [Accounts -> Players \cup {Nobody}], times : Nat]
    /\ started \in Nat

\* What a transaction sees of a player's link, its own first.
Sees(task, ls, p) == IF task.links[p] # Nobody THEN task.links[p] ELSE ls[p]

\* A listed player has a member, in the role the list gives.
Enrolled(m, map, entry) == m # Nobody /\ m \in DOMAIN map /\ map[m] = entry.role

Walking == {"find", "create", "check", "link", "name", "join"}
Handled(task, i) == i < task.n \/ task.pc = "commit"

TaskOK(task, ls, top) ==
    /\ task.member <= top /\ \A p \in Players : task.links[p] <= top
    /\ DOMAIN task.roles \subseteq 1 .. top
    /\ task.pc # "idle" => Loads(task.list) /\ task.slug \in Slugs
    /\ task.pc \in {"idle", "team"} => task.n = 0
    /\ task.pc \in Walking => task.n \in DOMAIN task.list
    /\ task.pc \in {"check", "link"} => task.member # Nobody
    /\ task.pc \in {"name", "join"} =>
          /\ task.member = Sees(task, ls, task.list[task.n].player)
          /\ task.member # Nobody
    /\ \A i \in DOMAIN task.list : Handled(task, i) =>
          Enrolled(Sees(task, ls, task.list[i].player), task.roles, task.list[i])

\* A member that was created and is not linked yet.
Fresh(task) == task.pc \in {"check", "link"}

\* The links of a transaction are of players without one, to members of nobody else.
LinksOwn(task, ls) ==
    /\ \A p \in Players : task.links[p] # Nobody =>
          /\ ls[p] = Nobody
          /\ \A q \in Players : ls[q] # task.links[p]
          /\ \A q \in Players : task.links[q] = task.links[p] => q = p
    /\ Fresh(task) => \A q \in Players : task.links[q] # task.member /\ ls[q] # task.member

LinksApart(task, other) ==
    /\ \A p \in Players : task.links[p] # Nobody =>
          /\ other.links[p] = Nobody
          /\ \A q \in Players : other.links[q] # task.links[p]
    /\ Fresh(task) => \A q \in Players : other.links[q] # task.member
    /\ Fresh(task) /\ Fresh(other) => other.member # task.member

\* What is committed.
TeamsOK ==
    /\ \A p \in Players : links[p] <= drawn
    /\ \A p, q \in Players : links[p] # Nobody /\ links[q] = links[p] => q = p
    /\ \A s \in Slugs : /\ DOMAIN roles[s] \subseteq 1 .. drawn
                        /\ roles[s] # NoRoles => s \in teams
                        /\ \A i \in DOMAIN installed[s] :
                              Enrolled(links[installed[s][i].player], roles[s], installed[s][i])
    /\ \A u \in Accounts : /\ discord[u] <= drawn
                           /\ discord[u] # Nobody => /\ claimed.player[u] \in Players
                                                     /\ discord[u] = links[claimed.player[u]]

RosterInv ==
    /\ RosterTyped
    /\ \A a \in Admins : TaskOK(admin[a], links, drawn) /\ LinksOwn(admin[a], links)
    /\ \A a \in Admins, b \in Admins : a # b => LinksApart(admin[a], admin[b])
    /\ TeamsOK

-----------------------------------------------------------------------------
LEMMA TaskFields ==
    ASSUME NEW task \in Task
    PROVE  /\ task.pc \in RosterPC /\ task.n \in Nat /\ task.member \in Nat
           /\ task.links \in [Players -> Nat] /\ \A p \in Players : task.links[p] \in Nat
           /\ task.roles \in RoleMaps /\ task.list \in Seq(Listed)
           /\ \A i \in DOMAIN task.list :
                 /\ i \in Nat /\ task.list[i] \in Listed
                 /\ task.list[i].player \in Players /\ task.list[i].role \in Roles
<1>1. /\ task.pc \in RosterPC /\ task.n \in Nat /\ task.member \in Nat
      /\ task.links \in [Players -> Nat]
      /\ task.roles \in RoleMaps /\ task.list \in Seq(Listed)
  BY DEF Task
<1>2. \A i \in DOMAIN task.list : i \in Nat /\ task.list[i] \in Listed
  BY <1>1
<1>3. \A entry \in Listed : entry.player \in Players /\ entry.role \in Roles
  BY DEF Listed
<1>4. QED
  BY <1>1, <1>2, <1>3

LEMMA NoTaskOK ==
    /\ NoTask \in Task /\ NoTask.pc = "idle" /\ NoTask.n = 0 /\ NoTask.list = <<>>
    /\ NoTask.member = Nobody /\ NoTask.links = NoLinks /\ NoTask.roles = NoRoles
    /\ \A p \in Players : NoLinks[p] = Nobody
    /\ DOMAIN NoRoles = {} /\ NoRoles \in RoleMaps
<1>1. /\ NoTask.pc = "idle" /\ NoTask.n = 0 /\ NoTask.list = <<>>
      /\ NoTask.member = Nobody /\ NoTask.links = NoLinks /\ NoTask.roles = NoRoles
      /\ \A p \in Players : NoLinks[p] = Nobody
  BY DEF NoTask, NoLinks
<1>2. DOMAIN NoRoles = {} /\ NoRoles \in RoleMaps
  <2>1. NoRoles \in [{} -> Roles] /\ {} \in SUBSET Nat
    BY DEF NoRoles
  <2>2. QED
    BY <2>1 DEF RoleMaps
<1>3. NoLinks \in [Players -> Nat] /\ <<>> \in Seq(Listed)
  BY DEF NoLinks, Nobody
<1>4. NoTask \in Task
  <2>1. NoTask.slug \in Slugs \cup {NoTask.slug}
    OBVIOUS
  <2>2. NoTask = [pc |-> NoTask.pc, slug |-> NoTask.slug, list |-> NoTask.list, n |-> NoTask.n,
                  member |-> NoTask.member, links |-> NoTask.links, roles |-> NoTask.roles]
    BY DEF NoTask
  <2>3. "idle" \in RosterPC
    BY DEF RosterPC
  <2>4. /\ NoTask.pc \in RosterPC /\ NoTask.list \in Seq(Listed) /\ NoTask.n \in Nat
        /\ NoTask.member \in Nat /\ NoTask.links \in [Players -> Nat]
        /\ NoTask.roles \in RoleMaps
    BY <1>1, <1>2, <1>3, <2>3 DEF Nobody
  <2>5. QED
    BY <2>1, <2>2, <2>4 DEF Task
<1>5. QED
  BY <1>1, <1>2, <1>4

LEMMA NoTaskIsSafe ==
    ASSUME NEW ls \in [Players -> Nat], NEW top \in Nat
    PROVE  /\ TaskOK(NoTask, ls, top) /\ LinksOwn(NoTask, ls)
           /\ \A u \in Task : LinksApart(NoTask, u)
<1>1. TaskOK(NoTask, ls, top)
  BY NoTaskOK DEF TaskOK, Walking, Nobody
<1>2. LinksOwn(NoTask, ls) /\ \A u \in Task : LinksApart(NoTask, u)
  BY NoTaskOK DEF LinksOwn, LinksApart, Fresh
<1>3. QED
  BY <1>1, <1>2

LEMMA MoreDrawn ==
    ASSUME NEW task \in Task, NEW ls, NEW top \in Nat, NEW more \in Nat, top <= more,
           TaskOK(task, ls, top)
    PROVE  TaskOK(task, ls, more)
<1>1. /\ task.member <= more /\ \A p \in Players : task.links[p] <= more
      /\ 1 .. top \subseteq 1 .. more
  BY TaskFields DEF TaskOK
<1>2. QED
  BY <1>1 DEF TaskOK

\* One transaction moves on, and nothing is committed.
LEMMA AdminMoves ==
    ASSUME RosterInv, NEW a \in Admins, NEW d \in Task, admin' = [admin EXCEPT ![a] = d],
           UNCHANGED <<teams, links, roles, discord, installed, claimed>>,
           drawn' \in Nat, drawn <= drawn', started' \in Nat,
           TaskOK(d, links, drawn'), LinksOwn(d, links),
           \A b \in Admins : b # a => LinksApart(d, admin[b]) /\ LinksApart(admin[b], d)
    PROVE  RosterInv'
<1>1. RosterTyped /\ admin \in [Admins -> Task] /\ drawn \in Nat
  BY DEF RosterInv, RosterTyped
<1>2. \A b \in Admins : admin'[b] = IF b = a THEN d ELSE admin[b]
  BY <1>1
<1>3. RosterTyped'
  <2>1. admin' \in [Admins -> Task]
    BY <1>1
  <2>2. QED
    BY <1>1, <2>1 DEF RosterTyped
<1>4. \A b \in Admins : TaskOK(admin'[b], links', drawn') /\ LinksOwn(admin'[b], links')
  <2> TAKE b \in Admins
  <2>1. admin[b] \in Task /\ TaskOK(admin[b], links, drawn) /\ LinksOwn(admin[b], links)
    BY <1>1 DEF RosterInv
  <2>2. TaskOK(admin[b], links, drawn')
    BY <1>1, <2>1, MoreDrawn
  <2>3. QED
    BY <1>2, <2>1, <2>2
<1>5. \A b \in Admins, c \in Admins : b # c => LinksApart(admin'[b], admin'[c])
  BY <1>2 DEF RosterInv
<1>6. TeamsOK'
  <2>1. TeamsOK /\ 1 .. drawn \subseteq 1 .. drawn'
    BY <1>1 DEF RosterInv
  <2>2. \A p \in Players : links[p] <= drawn'
    BY <1>1, <2>1 DEF TeamsOK, RosterTyped
  <2>3. \A u \in Accounts : discord[u] <= drawn'
    BY <1>1, <2>1 DEF TeamsOK, RosterTyped
  <2>4. QED
    BY <2>1, <2>2, <2>3 DEF TeamsOK
<1>7. QED
  BY <1>3, <1>4, <1>5, <1>6 DEF RosterInv

\* The same, when the transaction links nobody and creates no member.
LEMMA AdminWalks ==
    ASSUME RosterInv, NEW a \in Admins, NEW d \in Task, admin' = [admin EXCEPT ![a] = d],
           UNCHANGED <<teams, links, roles, discord, installed, claimed, drawn>>,
           started' \in Nat,
           d.links = admin[a].links, Fresh(d) => Fresh(admin[a]) /\ d.member = admin[a].member,
           TaskOK(d, links, drawn)
    PROVE  RosterInv'
<1>1. drawn \in Nat /\ LinksOwn(admin[a], links)
  BY DEF RosterInv, RosterTyped
<1>2. LinksOwn(d, links)
  BY <1>1 DEF LinksOwn
<1>3. ASSUME NEW b \in Admins, b # a
      PROVE  LinksApart(d, admin[b]) /\ LinksApart(admin[b], d)
  <2>1. LinksApart(admin[a], admin[b]) /\ LinksApart(admin[b], admin[a])
    BY <1>3 DEF RosterInv
  <2>2. LinksApart(d, admin[b])
    BY <2>1 DEF LinksApart
  <2>3. LinksApart(admin[b], d)
    BY <2>1 DEF LinksApart
  <2>4. QED
    BY <2>2, <2>3
<1>4. drawn' = drawn /\ drawn' \in Nat /\ drawn <= drawn'
  BY <1>1
<1>5. UNCHANGED <<teams, links, roles, discord, installed, claimed>> /\ TaskOK(d, links, drawn')
  BY <1>4
<1>6. QED
  BY <1>2, <1>3, <1>4, <1>5, AdminMoves

\* What the steps below use of the transaction that moves.
AtTask(a) ==
    /\ admin \in [Admins -> Task] /\ admin[a] \in Task
    /\ TaskOK(admin[a], links, drawn) /\ LinksOwn(admin[a], links)
    /\ links \in [Players -> Nat] /\ drawn \in Nat /\ started \in Nat
    /\ \A p \in Players : links[p] <= drawn /\ links[p] \in Nat
    /\ \A p \in Players : LinkSeen(a, p) = Sees(admin[a], links, p)
    /\ \A p \in Players : LinkSeen(a, p) \in Nat /\ LinkSeen(a, p) <= drawn

LEMMA TaskType ==
    ASSUME RosterInv, NEW a \in Admins
    PROVE  AtTask(a)
<1>1. /\ admin \in [Admins -> Task] /\ admin[a] \in Task
      /\ TaskOK(admin[a], links, drawn) /\ LinksOwn(admin[a], links)
      /\ links \in [Players -> Nat] /\ drawn \in Nat /\ started \in Nat
      /\ \A p \in Players : links[p] <= drawn /\ links[p] \in Nat
  BY DEF RosterInv, RosterTyped, TeamsOK
<1>2. \A p \in Players : LinkSeen(a, p) = Sees(admin[a], links, p)
  BY DEF LinkSeen, Sees
<1>3. \A p \in Players : LinkSeen(a, p) \in Nat /\ LinkSeen(a, p) <= drawn
  BY <1>1, TaskFields DEF LinkSeen, TaskOK
<1>4. QED
  BY <1>1, <1>2, <1>3 DEF AtTask

-----------------------------------------------------------------------------
LEMMA FailKeeps ==
    ASSUME RosterInv, NEW a \in Admins, admin' = [admin EXCEPT ![a] = NoTask],
           UNCHANGED <<teams, links, roles, discord, installed, claimed, drawn, started>>
    PROVE  RosterInv'
<1>1. AtTask(a)
  BY TaskType
<1>2. \A b \in Admins : b # a => LinksApart(NoTask, admin[b]) /\ LinksApart(admin[b], NoTask)
  <2> TAKE b \in Admins
  <2> HAVE b # a
  <2>1. admin[b] \in Task /\ TaskOK(admin[b], links, drawn)
    BY <1>1 DEF AtTask, RosterInv
  <2>2. LinksApart(admin[b], NoTask)
    <3>1. Fresh(admin[b]) => admin[b].member # Nobody
      BY <2>1 DEF Fresh, TaskOK
    <3>2. QED
      BY <3>1, NoTaskOK DEF LinksApart, Fresh
  <2>3. QED
    BY <1>1, <2>1, <2>2, NoTaskIsSafe DEF AtTask
<1>3. /\ drawn' \in Nat /\ drawn <= drawn' /\ started' \in Nat
      /\ UNCHANGED <<teams, links, roles, discord, installed, claimed>>
  BY <1>1 DEF AtTask
<1>4. NoTask \in Task /\ TaskOK(NoTask, links, drawn') /\ LinksOwn(NoTask, links)
  BY <1>1, NoTaskOK, NoTaskIsSafe DEF AtTask
<1>5. QED
  BY <1>2, <1>3, <1>4, AdminMoves

LEMMA BeginKeeps ==
    ASSUME RosterInv, NEW a \in Admins, NEW s \in Slugs, NEW list \in Lists, Begin(a, s, list)
    PROVE  RosterInv'
<1>0. AtTask(a)
  BY TaskType
<1>1. PICK d : /\ d = [NoTask EXCEPT !.pc = "team", !.slug = s, !.list = list]
               /\ admin' = [admin EXCEPT ![a] = d]
  BY DEF Begin, Continues
<1>2. list \in Seq(Listed)
  BY RosterAssumption DEF Listed
<1>3. /\ d \in Task /\ d.pc = "team" /\ d.slug = s /\ d.list = list /\ d.n = 0
      /\ d.member = Nobody /\ d.links = NoLinks /\ d.roles = NoRoles
  BY <1>1, <1>2, NoTaskOK DEF Task, RosterPC
<1>4. TaskOK(d, links, drawn)
  <2>1. \A i \in DOMAIN d.list : ~Handled(d, i)
    BY <1>2, <1>3 DEF Handled
  <2>2. QED
    BY <1>0, <1>3, <2>1, NoTaskOK DEF AtTask, TaskOK, Begin, Walking, Nobody
<1>5. UNCHANGED <<teams, links, roles, discord, installed, claimed, drawn>> /\ started' \in Nat
  BY <1>0 DEF Begin, Continues, AtTask
<1>6. LinksOwn(d, links)
  BY <1>3, NoTaskOK DEF LinksOwn, Fresh
<1>7. \A b \in Admins : b # a => LinksApart(d, admin[b]) /\ LinksApart(admin[b], d)
  <2> TAKE b \in Admins
  <2> HAVE b # a
  <2>1. admin[b] \in Task /\ TaskOK(admin[b], links, drawn)
    BY <1>0 DEF AtTask, RosterInv
  <2>2. LinksApart(admin[b], d)
    <3>1. Fresh(admin[b]) => admin[b].member # Nobody
      BY <2>1 DEF Fresh, TaskOK
    <3>2. QED
      BY <1>3, <3>1, NoTaskOK DEF LinksApart, Fresh
  <2>3. LinksApart(d, admin[b])
    BY <1>3, NoTaskOK DEF LinksApart, Fresh
  <2>4. QED
    BY <2>2, <2>3
<1>8. /\ drawn' \in Nat /\ drawn <= drawn' /\ TaskOK(d, links, drawn')
      /\ UNCHANGED <<teams, links, roles, discord, installed, claimed>>
  BY <1>0, <1>4, <1>5 DEF AtTask
<1>9. d \in Task /\ admin' = [admin EXCEPT ![a] = d] /\ started' \in Nat
  BY <1>1, <1>3, <1>5
<1>10. QED
  BY <1>6, <1>7, <1>8, <1>9, AdminMoves

\* The players' members are still apart when a transaction adds its links.
LEMMA SeesApart ==
    ASSUME RosterInv, NEW a \in Admins, NEW p \in Players, NEW q \in Players,
           Sees(admin[a], links, p) # Nobody,
           Sees(admin[a], links, q) = Sees(admin[a], links, p)
    PROVE  q = p
<1>1. /\ LinksOwn(admin[a], links)
      /\ \A x, y \in Players : links[x] # Nobody /\ links[y] = links[x] => y = x
  BY DEF RosterInv, TeamsOK
<1>2. QED
  BY <1>1 DEF LinksOwn, Sees

\* One that is still open, or none, in the place of another's.
LEMMA NoTaskApart ==
    ASSUME RosterInv, NEW b \in Admins
    PROVE  LinksApart(NoTask, admin[b]) /\ LinksApart(admin[b], NoTask)
<1>1. admin[b] \in Task /\ TaskOK(admin[b], links, drawn)
  BY DEF RosterInv, RosterTyped
<1>2. Fresh(admin[b]) => admin[b].member # Nobody
  BY <1>1 DEF Fresh, TaskOK
<1>3. QED
  BY <1>1, <1>2, NoTaskOK DEF LinksApart, Fresh

LEMMA UpsertTeamKeeps ==
    ASSUME RosterInv, NEW a \in Admins, UpsertTeam(a)
    PROVE  RosterInv'
<1>0. AtTask(a)
  BY TaskType
<1>1. PICK d : /\ d = [admin[a] EXCEPT !.pc = "find", !.n = 1]
               /\ admin' = [admin EXCEPT ![a] = d]
  BY DEF UpsertTeam, Continues
<1>2. /\ d \in Task /\ d.pc = "find" /\ d.n = 1
      /\ d.slug = admin[a].slug /\ d.list = admin[a].list /\ d.member = admin[a].member
      /\ d.links = admin[a].links /\ d.roles = admin[a].roles
  BY <1>0, <1>1 DEF AtTask, Task, RosterPC
<1>3. admin[a].list \in Seq(Listed) /\ admin[a].list # <<>>
  BY <1>0, TaskFields DEF AtTask, TaskOK, Loads, UpsertTeam
<1>4. 1 \in DOMAIN d.list /\ \A i \in DOMAIN d.list : ~Handled(d, i)
  BY <1>2, <1>3 DEF Handled
<1>5. TaskOK(d, links, drawn)
  BY <1>0, <1>2, <1>4 DEF AtTask, TaskOK, Walking, UpsertTeam
<1>6. /\ UNCHANGED <<teams, links, roles, discord, installed, claimed, drawn>>
      /\ started' \in Nat /\ ~Fresh(d)
  BY <1>0, <1>2 DEF AtTask, UpsertTeam, Continues, Fresh
<1>7. QED
  BY <1>1, <1>2, <1>5, <1>6, AdminWalks

LEMMA FindMemberKeeps ==
    ASSUME RosterInv, NEW a \in Admins, FindMember(a)
    PROVE  RosterInv'
<1>0. AtTask(a)
  BY TaskType
<1> DEFINE m == LinkSeen(a, Player(a))
           pc1 == IF m = Nobody THEN "create" ELSE "name"
<1>1. PICK d : /\ d = [admin[a] EXCEPT !.member = m, !.pc = pc1]
               /\ admin' = [admin EXCEPT ![a] = d]
  BY DEF FindMember, Continues
<1>2. admin[a].n \in DOMAIN admin[a].list /\ Player(a) \in Players
  BY <1>0, TaskFields DEF AtTask, TaskOK, FindMember, Walking, Player
<1>3. m \in Nat /\ m <= drawn /\ m = Sees(admin[a], links, Player(a)) /\ pc1 \in {"create", "name"}
  BY <1>0, <1>2 DEF AtTask
<1>4. pc1 = "name" => m # Nobody
  OBVIOUS
<1> HIDE DEF m, pc1
<1>5. /\ d \in Task /\ d.pc = pc1 /\ d.n = admin[a].n
      /\ d.slug = admin[a].slug /\ d.list = admin[a].list /\ d.member = m
      /\ d.links = admin[a].links /\ d.roles = admin[a].roles
  BY <1>0, <1>1, <1>3 DEF AtTask, Task, RosterPC
<1>6. \A i \in DOMAIN d.list : Handled(d, i) =>
         Enrolled(Sees(d, links, d.list[i].player), d.roles, d.list[i])
  BY <1>0, <1>3, <1>5 DEF AtTask, TaskOK, Handled, Sees
<1>7. d.pc \in {"name", "join"} =>
         d.member = Sees(d, links, d.list[d.n].player) /\ d.member # Nobody
  BY <1>3, <1>4, <1>5 DEF Sees, Player
<1>8. TaskOK(d, links, drawn)
  BY <1>0, <1>2, <1>3, <1>5, <1>6, <1>7 DEF AtTask, TaskOK, Walking, FindMember
<1>9. /\ UNCHANGED <<teams, links, roles, discord, installed, claimed, drawn>>
      /\ started' \in Nat /\ ~Fresh(d)
  BY <1>0, <1>3, <1>5 DEF AtTask, FindMember, Continues, Fresh
<1>10. QED
  BY <1>1, <1>5, <1>8, <1>9, AdminWalks

LEMMA CreateMemberKeeps ==
    ASSUME RosterInv, NEW a \in Admins, CreateMember(a)
    PROVE  RosterInv'
<1>0. AtTask(a)
  BY TaskType
<1>1. PICK d : /\ d = [admin[a] EXCEPT !.member = drawn + 1, !.pc = "check"]
               /\ admin' = [admin EXCEPT ![a] = d]
  BY DEF CreateMember, Continues
<1>11. admin[a] \in Task /\ drawn + 1 \in Nat
  BY <1>0 DEF AtTask
<1>2. /\ d \in Task /\ d.pc = "check" /\ d.n = admin[a].n
      /\ d.slug = admin[a].slug /\ d.list = admin[a].list /\ d.member = drawn + 1
      /\ d.links = admin[a].links /\ d.roles = admin[a].roles
  BY <1>1, <1>11 DEF Task, RosterPC
<1>3. /\ drawn' = drawn + 1 /\ drawn' \in Nat /\ drawn <= drawn' /\ started' \in Nat
      /\ UNCHANGED <<teams, links, roles, discord, installed, claimed>>
  BY <1>0 DEF AtTask, CreateMember, Continues
<1>4. TaskOK(d, links, drawn')
  <2>1. TaskOK(admin[a], links, drawn')
    BY <1>0, <1>3, MoreDrawn DEF AtTask
  <2>2. \A i \in DOMAIN d.list : Handled(d, i) =>
           Enrolled(Sees(d, links, d.list[i].player), d.roles, d.list[i])
    BY <1>2, <2>1 DEF TaskOK, Handled, Sees
  <2>3. d.member <= drawn' /\ d.member # Nobody
    BY <1>0, <1>2, <1>3 DEF AtTask, Nobody
  <2>4. QED
    BY <1>2, <2>1, <2>2, <2>3 DEF TaskOK, Walking, CreateMember
<1>5. \A p \in Players : links[p] # drawn + 1 /\ admin[a].links[p] # drawn + 1
  BY <1>0, TaskFields DEF AtTask, TaskOK
<1>6. LinksOwn(d, links)
  BY <1>0, <1>2, <1>5 DEF AtTask, LinksOwn
<1>7. ASSUME NEW b \in Admins, b # a
      PROVE  LinksApart(d, admin[b]) /\ LinksApart(admin[b], d)
  <2>1. admin[b] \in Task /\ TaskOK(admin[b], links, drawn)
    BY <1>0 DEF AtTask, RosterInv
  <2>2. admin[b].member # drawn + 1 /\ \A p \in Players : admin[b].links[p] # drawn + 1
    BY <1>0, <2>1, TaskFields DEF AtTask, TaskOK
  <2>3. LinksApart(admin[a], admin[b]) /\ LinksApart(admin[b], admin[a])
    BY <1>7 DEF RosterInv
  <2>4. LinksApart(d, admin[b])
    BY <1>2, <2>2, <2>3 DEF LinksApart
  <2>5. LinksApart(admin[b], d)
    BY <1>2, <2>2, <2>3 DEF LinksApart
  <2>6. QED
    BY <2>4, <2>5
<1>8. QED
  BY <1>1, <1>2, <1>3, <1>4, <1>6, <1>7, AdminMoves

LEMMA LinkIsFreeKeeps ==
    ASSUME RosterInv, NEW a \in Admins, LinkIsFree(a)
    PROVE  RosterInv'
<1>0. AtTask(a)
  BY TaskType
<1>1. UNCHANGED <<teams, links, roles, discord, installed, claimed, drawn, started>>
  BY DEF LinkIsFree, Continues
<1>2. CASE admin' = [admin EXCEPT ![a] = NoTask]
  BY <1>1, <1>2, FailKeeps
<1>3. CASE admin' = [admin EXCEPT ![a] = [admin[a] EXCEPT !.pc = "link"]]
  <2>1. PICK d : d = [admin[a] EXCEPT !.pc = "link"] /\ admin' = [admin EXCEPT ![a] = d]
    BY <1>3
  <2>2. /\ d \in Task /\ d.pc = "link" /\ d.n = admin[a].n
        /\ d.slug = admin[a].slug /\ d.list = admin[a].list /\ d.member = admin[a].member
        /\ d.links = admin[a].links /\ d.roles = admin[a].roles
    BY <1>0, <2>1 DEF AtTask, Task, RosterPC
  <2>3. \A i \in DOMAIN d.list : Handled(d, i) =>
           Enrolled(Sees(d, links, d.list[i].player), d.roles, d.list[i])
    BY <1>0, <2>2 DEF AtTask, TaskOK, Handled, Sees
  <2>4. TaskOK(d, links, drawn)
    BY <1>0, <2>2, <2>3 DEF AtTask, TaskOK, Walking, LinkIsFree
  <2>5. started' \in Nat /\ Fresh(admin[a])
    BY <1>0, <1>1 DEF AtTask, LinkIsFree, Fresh
  <2>6. UNCHANGED <<teams, links, roles, discord, installed, claimed, drawn>>
    BY <1>1
  <2>7. QED
    BY <2>1, <2>2, <2>4, <2>5, <2>6, AdminWalks
<1>4. QED
  BY <1>2, <1>3 DEF LinkIsFree, Continues

LEMMA UpdateNameKeeps ==
    ASSUME RosterInv, NEW a \in Admins, UpdateName(a)
    PROVE  RosterInv'
<1>0. AtTask(a)
  BY TaskType
<1>1. PICK d : d = [admin[a] EXCEPT !.pc = "join"] /\ admin' = [admin EXCEPT ![a] = d]
  BY DEF UpdateName, Continues
<1>2. /\ d \in Task /\ d.pc = "join" /\ d.n = admin[a].n
      /\ d.slug = admin[a].slug /\ d.list = admin[a].list /\ d.member = admin[a].member
      /\ d.links = admin[a].links /\ d.roles = admin[a].roles
  BY <1>0, <1>1 DEF AtTask, Task, RosterPC
<1>3. \A i \in DOMAIN d.list : Handled(d, i) =>
         Enrolled(Sees(d, links, d.list[i].player), d.roles, d.list[i])
  BY <1>0, <1>2 DEF AtTask, TaskOK, Handled, Sees, UpdateName
<1>4. d.member = Sees(d, links, d.list[d.n].player) /\ d.member # Nobody
  BY <1>0, <1>2 DEF AtTask, TaskOK, Sees, UpdateName
<1>5. TaskOK(d, links, drawn)
  BY <1>0, <1>2, <1>3, <1>4 DEF AtTask, TaskOK, Walking, UpdateName
<1>6. /\ UNCHANGED <<teams, links, roles, discord, installed, claimed, drawn>>
      /\ started' \in Nat /\ ~Fresh(d)
  BY <1>0, <1>2 DEF AtTask, UpdateName, Continues, Fresh
<1>7. QED
  BY <1>1, <1>2, <1>5, <1>6, AdminWalks

LEMMA LinkInsertKeeps ==
    ASSUME RosterInv, NEW a \in Admins, LinkInsert(a)
    PROVE  RosterInv'
<1>0. AtTask(a)
  BY TaskType
<1> DEFINE x == Player(a)
           m == admin[a].member
           l1 == [admin[a].links EXCEPT ![x] = m]
<1>1. UNCHANGED <<teams, links, roles, discord, installed, claimed, drawn, started>>
  BY DEF LinkInsert, Continues
<1>2. CASE admin' = [admin EXCEPT ![a] = NoTask]
  BY <1>1, <1>2, FailKeeps
<1>3. CASE /\ LinkSeen(a, x) = Nobody
           /\ admin' = [admin EXCEPT ![a] = [admin[a] EXCEPT !.links[x] = m, !.pc = "join"]]
  <2>1. PICK d : d = [admin[a] EXCEPT !.links[x] = m, !.pc = "join"]
                 /\ admin' = [admin EXCEPT ![a] = d]
    BY <1>3
  <2>2. /\ admin[a] \in Task /\ admin[a].n \in DOMAIN admin[a].list /\ x \in Players
        /\ x = admin[a].list[admin[a].n].player
        /\ m \in Nat /\ m # Nobody /\ m <= drawn /\ admin[a].pc = "link" /\ Fresh(admin[a])
        /\ admin[a].n \in Nat /\ admin[a].links \in [Players -> Nat]
    BY <1>0, TaskFields DEF AtTask, TaskOK, LinkInsert, Walking, Player, Fresh
  <2>3. l1 \in [Players -> Nat] /\ \A q \in Players : l1[q] = IF q = x THEN m ELSE admin[a].links[q]
    BY <2>2
  <2>4. d = [admin[a] EXCEPT !.links = l1, !.pc = "join"]
    BY <2>1, <2>2 DEF Task
  <2>5. links[x] = Nobody /\ admin[a].links[x] = Nobody
    BY <1>3 DEF LinkSeen
  <2>6. LinkIsOurs(a)
    BY DEF LinkInsert
  <2>7. \A b \in Admins : b # a => admin[b].links[x] = Nobody
    BY <2>6 DEF LinkIsOurs
  <2> HIDE DEF x, m, l1
  <2>8. /\ d \in Task /\ d.pc = "join" /\ d.n = admin[a].n
        /\ d.slug = admin[a].slug /\ d.list = admin[a].list /\ d.member = m
        /\ d.links = l1 /\ d.roles = admin[a].roles
    BY <2>2, <2>3, <2>4 DEF Task, RosterPC, m
  <2>9. Sees(d, links, x) = m /\ \A q \in Players : q # x => Sees(d, links, q) = Sees(admin[a], links, q)
    BY <2>2, <2>3, <2>8 DEF Sees
  <2>10. TaskOK(d, links, drawn)
    <3>1. \A q \in Players : d.links[q] <= drawn
      BY <1>0, <2>2, <2>3, <2>8, TaskFields DEF AtTask, TaskOK
    <3>2. ASSUME NEW i \in DOMAIN d.list, Handled(d, i)
          PROVE  Enrolled(Sees(d, links, d.list[i].player), d.roles, d.list[i])
      <4>1. i < admin[a].n /\ i \in DOMAIN admin[a].list /\ i \in Nat
        BY <2>2, <2>8, <3>2, TaskFields DEF Handled
      <4>2. d.list[i].player # x /\ d.list[i].player \in Players
        <5>1. Loads(admin[a].list)
          BY <1>0, <2>2 DEF AtTask, TaskOK
        <5>2. QED
          BY <2>2, <2>8, <4>1, <5>1, TaskFields DEF Loads
      <4>3. Enrolled(Sees(admin[a], links, admin[a].list[i].player), admin[a].roles, admin[a].list[i])
        BY <1>0, <4>1 DEF AtTask, TaskOK, Handled
      <4>4. QED
        BY <2>8, <2>9, <4>2, <4>3
    <3>3. d.member = Sees(d, links, d.list[d.n].player) /\ d.member # Nobody
      BY <2>2, <2>8, <2>9
    <3>4. QED
      BY <1>0, <2>2, <2>8, <3>1, <3>2, <3>3 DEF AtTask, TaskOK, Walking
  <2>11. LinksOwn(d, links)
    <3>1. \A q \in Players : admin[a].links[q] # m /\ links[q] # m
      BY <1>0, <2>2 DEF AtTask, LinksOwn, m
    <3>2. ~Fresh(d)
      BY <2>8 DEF Fresh
    <3>3. QED
      BY <1>0, <2>2, <2>3, <2>5, <2>8, <3>1, <3>2 DEF AtTask, LinksOwn
  <2>12. ASSUME NEW b \in Admins, b # a
         PROVE  LinksApart(d, admin[b]) /\ LinksApart(admin[b], d)
    <3>1. LinksApart(admin[a], admin[b]) /\ LinksApart(admin[b], admin[a]) /\ ~Fresh(d)
      BY <2>8, <2>12 DEF RosterInv, Fresh
    <3>2. /\ \A q \in Players : admin[b].links[q] # m
          /\ Fresh(admin[b]) => admin[b].member # m
      BY <2>2, <3>1 DEF LinksApart, m
    <3>3. LinksApart(d, admin[b])
      BY <2>3, <2>7, <2>8, <2>12, <3>1, <3>2 DEF LinksApart
    <3>4. LinksApart(admin[b], d)
      BY <2>2, <2>3, <2>7, <2>8, <2>12, <3>1, <3>2 DEF LinksApart
    <3>5. QED
      BY <3>3, <3>4
  <2>13. /\ drawn' \in Nat /\ drawn <= drawn' /\ started' \in Nat /\ TaskOK(d, links, drawn')
         /\ UNCHANGED <<teams, links, roles, discord, installed, claimed>>
    BY <1>0, <1>1, <2>10 DEF AtTask
  <2>14. QED
    BY <2>1, <2>8, <2>11, <2>12, <2>13, AdminMoves
<1>4. QED
  BY <1>2, <1>3 DEF LinkInsert, Continues

LEMMA EnsureMembershipKeeps ==
    ASSUME RosterInv, NEW a \in Admins, EnsureMembership(a)
    PROVE  RosterInv'
<1>0. AtTask(a)
  BY TaskType
<1> DEFINE k == admin[a].n
           list == admin[a].list
           last == k = Len(list)
           r1 == Joined(admin[a])
           n1 == IF last THEN k ELSE k + 1
           pc1 == IF last THEN "commit" ELSE "find"
<1>1. PICK d : /\ d = [admin[a] EXCEPT !.roles = r1, !.n = n1, !.pc = pc1]
               /\ admin' = [admin EXCEPT ![a] = d]
  BY DEF EnsureMembership, Continues
<1>2. /\ admin[a] \in Task /\ admin[a].pc = "join" /\ k \in DOMAIN list /\ k \in Nat
      /\ list \in Seq(Listed) /\ list[k] \in Listed /\ Loads(list) /\ admin[a].slug \in Slugs
      /\ list[k].role \in Roles /\ list[k].player \in Players
      /\ admin[a].member \in Nat /\ admin[a].member # Nobody /\ admin[a].member <= drawn
      /\ admin[a].member = Sees(admin[a], links, list[k].player)
      /\ DOMAIN admin[a].roles \subseteq 1 .. drawn /\ drawn \in Nat
      /\ admin[a].roles \in RoleMaps
  BY <1>0, TaskFields DEF AtTask, TaskOK, EnsureMembership, Walking
<1>3. /\ r1 \in RoleMaps
      /\ DOMAIN r1 = DOMAIN admin[a].roles \cup {admin[a].member}
      /\ \A y \in DOMAIN r1 : r1[y] = IF y = admin[a].member THEN list[k].role ELSE admin[a].roles[y]
  <2>1. PICK M \in SUBSET Nat : admin[a].roles \in [M -> Roles]
    BY <1>2 DEF RoleMaps
  <2>2. r1 \in [M \cup {admin[a].member} -> Roles] /\ M \cup {admin[a].member} \in SUBSET Nat
    BY <1>2, <2>1 DEF Joined
  <2>3. r1 \in RoleMaps
    BY <2>2 DEF RoleMaps
  <2>4. QED
    BY <2>3 DEF Joined
<1>4. n1 \in Nat /\ pc1 \in {"commit", "find"}
  BY <1>2
<1>5. /\ \A i \in DOMAIN list : i < n1 \/ pc1 = "commit" => i < k \/ i = k
      /\ pc1 = "find" => n1 \in DOMAIN list
  BY <1>2
<1> HIDE DEF r1, n1, pc1, last
<1>6. /\ d \in Task /\ d.pc = pc1 /\ d.n = n1
      /\ d.slug = admin[a].slug /\ d.list = list /\ d.member = admin[a].member
      /\ d.links = admin[a].links /\ d.roles = r1
  BY <1>1, <1>2, <1>3, <1>4 DEF Task, RosterPC
<1>7. ASSUME NEW i \in DOMAIN d.list, Handled(d, i)
      PROVE  Enrolled(Sees(d, links, d.list[i].player), d.roles, d.list[i])
  <2>1. Sees(d, links, d.list[i].player) = Sees(admin[a], links, list[i].player)
    BY <1>6 DEF Sees
  <2>2. i < k \/ i = k
    BY <1>5, <1>6, <1>7 DEF Handled
  <2>3. CASE i = k
    BY <1>2, <1>3, <1>6, <2>1, <2>3 DEF Enrolled
  <2>4. CASE i < k
    <3>1. Enrolled(Sees(admin[a], links, list[i].player), admin[a].roles, list[i])
      BY <1>0, <1>6, <2>4 DEF AtTask, TaskOK, Handled
    <3>2. list[i].player # list[k].player /\ list[i].player \in Players
      BY <1>2, <1>6, <2>4, TaskFields DEF Loads
    <3>3. Sees(admin[a], links, list[i].player) # admin[a].member
      BY <1>2, <3>1, <3>2, SeesApart DEF Enrolled
    <3>4. QED
      BY <1>3, <1>6, <2>1, <3>1, <3>3 DEF Enrolled
  <2>5. QED
    BY <2>2, <2>3, <2>4
<1>8. DOMAIN d.roles \subseteq 1 .. drawn
  <2>1. admin[a].member \in 1 .. drawn
    BY <1>2 DEF Nobody
  <2>2. DOMAIN d.roles = DOMAIN admin[a].roles \cup {admin[a].member}
    BY <1>3, <1>6
  <2>3. DOMAIN admin[a].roles \subseteq 1 .. drawn
    BY <1>2
  <2>4. QED
    BY <2>1, <2>2, <2>3
<1>9. TaskOK(d, links, drawn)
  BY <1>0, <1>2, <1>4, <1>5, <1>6, <1>7, <1>8 DEF AtTask, TaskOK, Walking
<1>10. /\ UNCHANGED <<teams, links, roles, discord, installed, claimed, drawn>>
       /\ started' \in Nat /\ ~Fresh(d)
  BY <1>0, <1>4, <1>6 DEF AtTask, EnsureMembership, Continues, Fresh
<1>11. QED
  BY <1>1, <1>6, <1>9, <1>10, AdminWalks

LEMMA CommitKeeps ==
    ASSUME RosterInv, NEW a \in Admins, Commit(a)
    PROVE  RosterInv'
<1>0. AtTask(a)
  BY TaskType
<1> DEFINE task == admin[a]
           s0 == task.slug
           old == roles[s0]
           r1 == [m \in DOMAIN task.roles \cup DOMAIN old |->
                     IF m \in DOMAIN task.roles THEN task.roles[m] ELSE old[m]]
<1>1. /\ RosterTyped /\ TeamsOK /\ task \in Task /\ task.pc = "commit" /\ s0 \in Slugs
      /\ task.list \in Seq(Listed) /\ task.roles \in RoleMaps
      /\ TaskOK(task, links, drawn) /\ LinksOwn(task, links)
  BY <1>0, TaskFields DEF RosterInv, AtTask, TaskOK, Commit
<1>2. /\ teams' = teams \cup {s0} /\ links' = [p \in Players |-> LinkSeen(a, p)]
      /\ roles' = [roles EXCEPT ![s0] = r1] /\ installed' = [installed EXCEPT ![s0] = task.list]
      /\ admin' = [admin EXCEPT ![a] = NoTask]
      /\ UNCHANGED <<discord, drawn, claimed, started>>
  BY DEF Commit
<1>3. \A p \in Players : links'[p] = Sees(task, links, p) /\ links'[p] \in Nat /\ links'[p] <= drawn
  BY <1>0, <1>2 DEF AtTask
<1>4. \A p \in Players : links[p] # Nobody => links'[p] = links[p]
  BY <1>1, <1>3 DEF LinksOwn, Sees
<1>5. r1 \in RoleMaps
  <2>1. PICK M \in SUBSET Nat : task.roles \in [M -> Roles]
    BY <1>1 DEF RoleMaps
  <2>2. old \in RoleMaps
    BY <1>1 DEF RosterTyped
  <2>3. PICK N \in SUBSET Nat : old \in [N -> Roles]
    BY <2>2 DEF RoleMaps
  <2>4. r1 \in [M \cup N -> Roles] /\ M \cup N \in SUBSET Nat
    BY <2>1, <2>3
  <2>5. QED
    BY <2>4 DEF RoleMaps
<1>6. /\ DOMAIN r1 = DOMAIN task.roles \cup DOMAIN old
      /\ \A m \in DOMAIN task.roles : m \in DOMAIN r1 /\ r1[m] = task.roles[m]
  OBVIOUS
<1> HIDE DEF r1
<1>7. RosterTyped'
  <2>1. teams' \subseteq Slugs /\ links' \in [Players -> Nat] /\ roles' \in [Slugs -> RoleMaps]
    BY <1>1, <1>2, <1>3, <1>5 DEF RosterTyped
  <2>2. admin' \in [Admins -> Task] /\ installed' \in [Slugs -> Seq(Listed)]
    BY <1>1, <1>2, NoTaskOK DEF RosterTyped
  <2>3. QED
    BY <1>1, <1>2, <2>1, <2>2 DEF RosterTyped
<1>8. ASSUME NEW b \in Admins
      PROVE  TaskOK(admin'[b], links', drawn') /\ LinksOwn(admin'[b], links')
  <2>1. CASE b = a
    <3>1. admin'[b] = NoTask /\ links' \in [Players -> Nat] /\ drawn' \in Nat
      BY <1>1, <1>2, <1>7, <2>1 DEF RosterTyped
    <3>2. QED
      BY <3>1, NoTaskIsSafe
  <2>2. CASE b # a
    <3> DEFINE o == admin[b]
    <3>1. /\ admin'[b] = o /\ o \in Task /\ TaskOK(o, links, drawn) /\ LinksOwn(o, links)
          /\ LinksApart(task, o) /\ LinksApart(o, task) /\ drawn' = drawn
      BY <1>1, <1>2, <2>2 DEF RosterInv, RosterTyped
    <3>2. \A p \in Players : Sees(o, links, p) # Nobody => Sees(o, links', p) = Sees(o, links, p)
      BY <1>4 DEF Sees
    <3>3. /\ o.pc \in {"name", "join"} =>
                o.member = Sees(o, links', o.list[o.n].player) /\ o.member # Nobody
          /\ \A i \in DOMAIN o.list : Handled(o, i) =>
                Enrolled(Sees(o, links', o.list[i].player), o.roles, o.list[i])
      <4>1. o.pc \in {"name", "join"} => o.list[o.n].player \in Players
        BY <3>1, TaskFields DEF TaskOK, Walking
      <4>2. \A i \in DOMAIN o.list : o.list[i].player \in Players
        BY <3>1, TaskFields
      <4>3. QED
        BY <3>1, <3>2, <4>1, <4>2 DEF TaskOK, Enrolled
    <3>4. TaskOK(o, links', drawn)
      BY <3>1, <3>3 DEF TaskOK
    <3>5. \A p \in Players : links'[p] = IF task.links[p] # Nobody THEN task.links[p] ELSE links[p]
      BY <1>3 DEF Sees
    <3>6. LinksOwn(o, links')
      <4>1. \A p \in Players : o.links[p] # Nobody =>
               links'[p] = Nobody /\ \A q \in Players : links'[q] # o.links[p]
        BY <3>1, <3>5 DEF LinksOwn, LinksApart
      <4>2. Fresh(o) => \A q \in Players : links'[q] # o.member
        BY <3>1, <3>5 DEF LinksOwn, LinksApart
      <4>3. QED
        BY <3>1, <4>1, <4>2 DEF LinksOwn
    <3>7. QED
      BY <3>1, <3>4, <3>6
  <2>3. QED
    BY <2>1, <2>2
<1>9. ASSUME NEW b \in Admins, NEW c \in Admins, b # c
      PROVE  LinksApart(admin'[b], admin'[c])
  <2>1. /\ \A x \in Admins : admin'[x] = IF x = a THEN NoTask ELSE admin[x]
        /\ LinksApart(admin[b], admin[c])
    BY <1>1, <1>2, <1>9 DEF RosterInv, RosterTyped
  <2>2. QED
    BY <1>9, <2>1, NoTaskApart
<1>10. TeamsOK'
  <2>1. \A p, q \in Players : links'[p] # Nobody /\ links'[q] = links'[p] => q = p
    BY <1>3, SeesApart
  <2>2. ASSUME NEW s \in Slugs
        PROVE  /\ DOMAIN roles'[s] \subseteq 1 .. drawn
               /\ roles'[s] # NoRoles => s \in teams'
               /\ \A i \in DOMAIN installed'[s] :
                     Enrolled(links'[installed'[s][i].player], roles'[s], installed'[s][i])
    <3>1. /\ DOMAIN roles[s] \subseteq 1 .. drawn
          /\ roles[s] # NoRoles => s \in teams
          /\ \A i \in DOMAIN installed[s] :
                Enrolled(links[installed[s][i].player], roles[s], installed[s][i])
      BY <1>1 DEF TeamsOK
    <3>2. CASE s = s0
      <4>1. roles'[s] = r1 /\ installed'[s] = task.list /\ s \in teams'
        BY <1>1, <1>2, <3>2 DEF RosterTyped
      <4>2. DOMAIN r1 \subseteq 1 .. drawn
        BY <1>1, <1>6, <3>1, <3>2 DEF TaskOK
      <4>3. ASSUME NEW i \in DOMAIN task.list
            PROVE  Enrolled(links'[task.list[i].player], r1, task.list[i])
        <5>1. Enrolled(Sees(task, links, task.list[i].player), task.roles, task.list[i])
          BY <1>1 DEF TaskOK, Handled
        <5>2. task.list[i].player \in Players
          BY <1>1, TaskFields
        <5>3. QED
          BY <1>3, <1>6, <5>1, <5>2 DEF Enrolled
      <4>4. QED
        BY <4>1, <4>2, <4>3
    <3>3. CASE s # s0
      <4>1. roles'[s] = roles[s] /\ installed'[s] = installed[s] /\ installed[s] \in Seq(Listed)
        BY <1>1, <1>2, <3>3 DEF RosterTyped
      <4>2. \A i \in DOMAIN installed[s] : installed[s][i].player \in Players
        <5>1. \A e \in Listed : e.player \in Players
          BY DEF Listed
        <5>2. QED
          BY <4>1, <5>1
      <4>3. QED
        BY <1>2, <1>4, <3>1, <4>1, <4>2 DEF Enrolled
    <3>4. QED
      BY <3>2, <3>3
  <2>3. \A u \in Accounts :
           /\ discord'[u] <= drawn'
           /\ discord'[u] # Nobody => /\ claimed'.player[u] \in Players
                                      /\ discord'[u] = links'[claimed'.player[u]]
    BY <1>1, <1>2, <1>4 DEF TeamsOK
  <2>4. QED
    BY <1>2, <1>3, <2>1, <2>2, <2>3 DEF TeamsOK
<1>11. QED
  BY <1>7, <1>8, <1>9, <1>10 DEF RosterInv

LEMMA LinkDiscordKeeps ==
    ASSUME RosterInv, NEW u \in Accounts, NEW p \in Players, LinkDiscord(u, p)
    PROVE  RosterInv'
<1>1. /\ RosterTyped /\ TeamsOK /\ links[p] # Nobody
      /\ discord' = [discord EXCEPT ![u] = links[p]]
      /\ claimed' = [player |-> [claimed.player EXCEPT ![u] = p], times |-> claimed.times + 1]
      /\ UNCHANGED <<teams, links, roles, drawn, admin, installed, started>>
  BY DEF RosterInv, LinkDiscord, MemberOf
<1>2. /\ claimed.player \in [Accounts -> Players \cup {Nobody}] /\ claimed.times \in Nat
      /\ discord \in [Accounts -> Nat] /\ links[p] \in Nat
  BY <1>1 DEF RosterTyped
<1>3. /\ claimed'.player = [claimed.player EXCEPT ![u] = p] /\ claimed'.times = claimed.times + 1
      /\ claimed' \in [player : [Accounts -> Players \cup {Nobody}], times : Nat]
  BY <1>1, <1>2
<1>4. RosterTyped'
  BY <1>1, <1>2, <1>3 DEF RosterTyped
<1>5. TeamsOK'
  <2>1. ASSUME NEW v \in Accounts
        PROVE  /\ discord'[v] <= drawn
               /\ discord'[v] # Nobody => /\ claimed'.player[v] \in Players
                                          /\ discord'[v] = links[claimed'.player[v]]
    BY <1>1, <1>2, <1>3 DEF TeamsOK
  <2>2. QED
    BY <1>1, <2>1 DEF TeamsOK
<1>6. QED
  BY <1>1, <1>4, <1>5 DEF RosterInv

-----------------------------------------------------------------------------
LEMMA RosterStarts ==
    ASSUME RosterInit
    PROVE  RosterInv
<1>1. /\ teams = {} /\ links = NoLinks /\ drawn = 0
      /\ roles = [s \in Slugs |-> NoRoles] /\ discord = [u \in Accounts |-> Nobody]
      /\ admin = [a \in Admins |-> NoTask] /\ installed = [s \in Slugs |-> <<>>]
      /\ started = 0 /\ claimed = [player |-> [u \in Accounts |-> Nobody], times |-> 0]
  BY DEF RosterInit
<1>2. NoLinks \in [Players -> Nat]
  BY DEF NoLinks, Nobody
<1>3. RosterTyped
  <2>1. claimed \in [player : [Accounts -> Players \cup {Nobody}], times : Nat]
    BY <1>1
  <2>2. roles \in [Slugs -> RoleMaps] /\ admin \in [Admins -> Task]
    BY <1>1, NoTaskOK
  <2>3. installed \in [Slugs -> Seq(Listed)] /\ discord \in [Accounts -> Nat]
    BY <1>1 DEF Nobody
  <2>4. QED
    BY <1>1, <1>2, <2>1, <2>2, <2>3 DEF RosterTyped
<1>4. \A a \in Admins : TaskOK(admin[a], links, drawn) /\ LinksOwn(admin[a], links)
  <2>1. drawn \in Nat /\ links \in [Players -> Nat] /\ \A a \in Admins : admin[a] = NoTask
    BY <1>1, <1>2
  <2>2. TaskOK(NoTask, links, drawn) /\ LinksOwn(NoTask, links)
    BY <2>1, NoTaskIsSafe
  <2>3. QED
    BY <2>1, <2>2
<1>5. \A a \in Admins, b \in Admins : a # b => LinksApart(admin[a], admin[b])
  <2>1. LinksApart(NoTask, NoTask)
    BY NoTaskOK DEF LinksApart, Fresh
  <2>2. QED
    BY <1>1, <2>1
<1>6. TeamsOK
  BY <1>1, NoTaskOK DEF TeamsOK, Nobody
<1>7. QED
  BY <1>3, <1>4, <1>5, <1>6 DEF RosterInv

LEMMA RosterSteps ==
    ASSUME RosterInv, [RosterNext]_rosterVars
    PROVE  RosterInv'
<1>1. ASSUME NEW a \in Admins, NEW s \in Slugs, NEW list \in Lists, Begin(a, s, list)
      PROVE  RosterInv'
  BY <1>1, BeginKeeps
<1>2. ASSUME NEW a \in Admins, UpsertTeam(a)
      PROVE  RosterInv'
  BY <1>2, UpsertTeamKeeps
<1>3. ASSUME NEW a \in Admins, FindMember(a)
      PROVE  RosterInv'
  BY <1>3, FindMemberKeeps
<1>4. ASSUME NEW a \in Admins, CreateMember(a)
      PROVE  RosterInv'
  BY <1>4, CreateMemberKeeps
<1>5. ASSUME NEW a \in Admins, LinkIsFree(a)
      PROVE  RosterInv'
  BY <1>5, LinkIsFreeKeeps
<1>6. ASSUME NEW a \in Admins, LinkInsert(a)
      PROVE  RosterInv'
  BY <1>6, LinkInsertKeeps
<1>7. ASSUME NEW a \in Admins, UpdateName(a)
      PROVE  RosterInv'
  BY <1>7, UpdateNameKeeps
<1>8. ASSUME NEW a \in Admins, EnsureMembership(a)
      PROVE  RosterInv'
  BY <1>8, EnsureMembershipKeeps
<1>9. ASSUME NEW a \in Admins, Commit(a)
      PROVE  RosterInv'
  BY <1>9, CommitKeeps
<1>10. ASSUME NEW a \in Admins, Fails(a)
       PROVE  RosterInv'
  <2>1. /\ admin' = [admin EXCEPT ![a] = NoTask]
        /\ UNCHANGED <<teams, links, roles, discord, installed, claimed, drawn, started>>
    BY <1>10 DEF Fails, Continues
  <2>2. QED
    BY <2>1, FailKeeps
<1>11. ASSUME NEW u \in Accounts, NEW p \in Players, LinkDiscord(u, p)
       PROVE  RosterInv'
  BY <1>11, LinkDiscordKeeps
<1>12. CASE UNCHANGED rosterVars
  BY <1>12 DEF rosterVars, RosterInv, RosterTyped, TeamsOK
<1>13. QED
  BY <1>1, <1>2, <1>3, <1>4, <1>5, <1>6, <1>7, <1>8, <1>9, <1>10, <1>11, <1>12 DEF RosterNext

\* RosterInv holds of the roster always.
THEOREM RosterInvariance == RosterSpec => []RosterInv
<1>1. RosterInit => RosterInv
  BY RosterStarts
<1>2. RosterInv /\ [RosterNext]_rosterVars => RosterInv'
  BY RosterSteps
<1>3. QED
  BY <1>1, <1>2, PTL DEF RosterSpec

\* Every team is as the file last installed for it says, and every Discord
\* account is of the player it was linked for.
THEOREM TeamsAsInstalled == RosterSpec => []RosterAsInstalled
<1>1. ASSUME RosterInv
      PROVE  RosterAsInstalled
  <2>1. RosterTyped /\ TeamsOK
    BY <1>1 DEF RosterInv
  <2>2. ASSUME NEW s \in Slugs, NEW i \in DOMAIN installed[s]
        PROVE  installed[s][i] \in ActiveMembers(s)
    <3>1. installed[s] \in Seq(Listed) /\ installed[s][i] \in Listed
      BY <2>1 DEF RosterTyped
    <3>2. PICK e \in Listed : e = installed[s][i]
      BY <3>1
    <3>3. e.player \in Players /\ e = [player |-> e.player, role |-> e.role]
      BY <3>2 DEF Listed
    <3>4. links[e.player] \in DOMAIN roles[s] /\ roles[s][links[e.player]] = e.role
      BY <2>1, <3>2 DEF TeamsOK, Enrolled
    <3>5. QED
      BY <3>2, <3>3, <3>4 DEF ActiveMembers
  <2>3. \A u \in Accounts : discord[u] # Nobody => discord[u] = links[claimed.player[u]]
    BY <2>1 DEF TeamsOK
  <2>4. QED
    BY <2>2, <2>3 DEF RosterAsInstalled, MemberOfAccount, MemberOf
<1>2. QED
  BY <1>1, RosterInvariance, PTL

\* The roster's variables keep their types.
THEOREM RosterTypeCorrect == RosterSpec => []RosterTypeOK
<1>1. ASSUME RosterInv
      PROVE  RosterTypeOK
  <2>1. RosterTyped /\ TeamsOK /\ \A a \in Admins : TaskOK(admin[a], links, drawn)
    BY <1>1 DEF RosterInv
  <2>2. links \in [Players -> 0 .. drawn] /\ discord \in [Accounts -> 0 .. drawn]
    BY <2>1 DEF RosterTyped, TeamsOK
  <2>3. \A a \in Admins : admin[a].pc \in RosterPC /\ admin[a].member \in 0 .. drawn
    <3> TAKE a \in Admins
    <3>1. admin[a] \in Task /\ drawn \in Nat /\ TaskOK(admin[a], links, drawn)
      BY <2>1 DEF RosterTyped
    <3>2. QED
      BY <3>1, TaskFields DEF TaskOK
  <2>4. QED
    BY <2>1, <2>2, <2>3 DEF RosterTypeOK, RosterTyped, TeamsOK
<1>2. QED
  BY <1>1, RosterInvariance, PTL

-----------------------------------------------------------------------------
(* Questions while publications turn over.                                 *)

QuerySpec == QueryInit /\ [][QueryNext]_queryVars

\* What a statement about a run answers, whatever else is stored.
RunValue(statement, seen, p, rating) ==
    CASE statement = "page" -> LeaderboardPage(seen)
      [] statement = "filtered" -> Filtered(seen)
      [] statement = "eligible" -> Cardinality(Eligible(seen))
      [] statement = "ranked" -> PlayerRating(seen, p)
      [] statement = "current" -> CurrentRaw(seen, p)
      [] statement = "stats" -> RankStats(seen, rating)
      [] statement = "history" -> RatedHistory(seen, p)
      [] statement = "best" -> BestWin(seen, p)
      [] statement = "tournaments" -> RatedMatches(seen, p)
      [] statement = "several" -> CurrentForPlayers(seen)

Shaped(q) ==
    q = [pc |-> q.pc, kind |-> q.kind, player |-> q.player, run |-> q.run,
         answer |-> q.answer, turnovers |-> q.turnovers]

Told(q) == Cardinality(DOMAIN q.answer)

\* The answers so far are those of the first statements of the plan.
InOrder(q) ==
    /\ IsFiniteSet(DOMAIN q.answer)
    /\ Told(q) <= Len(Plan[q.kind])
    /\ DOMAIN q.answer = {Plan[q.kind][i] : i \in 1 .. Told(q)}

Asking(q) == q.pc \in {"ask", "answered"}

QuestionTyped(q, b) ==
    /\ Shaped(q)
    /\ q.pc \in {"idle", "resolve", "ask", "answered", "missing"}
    /\ q.kind \in Kinds
    /\ q.pc # "idle" => q.player \in PlayerIds
    /\ q.run \in 0 .. Len(b)
    /\ q.turnovers \in 0 .. 2
    /\ Asking(q) => q.run # 0 /\ InOrder(q)
    /\ q.pc = "resolve" => q.run = 0 /\ q.turnovers = 0 /\ q.answer = NoAnswer
    /\ q.pc = "ask" =>
          /\ Told(q) < Len(Plan[q.kind])
          /\ "source" \in DOMAIN q.answer => q.answer["source"] # {}
          /\ "current" \in DOMAIN q.answer => q.answer["current"] # {}

\* The run a question is about is there until a second publication.
RunIsHeld(q, publication) ==
    q.run # 0 =>
        /\ q.turnovers = 0 => q.run = publication.current
        /\ q.turnovers <= 1 => q.run \in {publication.current, publication.previous}

\* Its answers are those of that run.
TrueTo(q, seen) ==
    /\ \A s \in DOMAIN q.answer \cap OfRun :
          q.answer[s] = RunValue(s, seen, q.player, seen[q.player].rating)
    /\ "found" \in DOMAIN q.answer => \A e \in q.answer["found"] : e.standing = seen[e.player]
    /\ q.pc = "answered" => DOMAIN q.answer = Needed(q.kind, seen, q.player, q.answer)

QueryInv ==
    /\ built \in Seq(Contents) /\ Len(built) <= MaxRuns
    /\ shown = [current |-> shown.current, previous |-> shown.previous]
    /\ {shown.current, shown.previous} \subseteq 0 .. Len(built)
    /\ held = Retains(shown)
    /\ known \subseteq PlayerIds
    /\ asker = [a \in Askers |-> asker[a]]
    /\ \A a \in Askers :
          /\ QuestionTyped(asker[a], built)
          /\ RunIsHeld(asker[a], shown)
          /\ Asking(asker[a]) /\ asker[a].turnovers <= 1 => TrueTo(asker[a], built[asker[a].run])

-----------------------------------------------------------------------------
LEMMA QueryFacts ==
    /\ MaxRuns \in Nat /\ Contents \subseteq [PlayerIds -> Standing]
    /\ \A seen \in Contents, p \in PlayerIds :
          /\ seen[p] \in Standing /\ seen[p].matches \in Nat
          /\ seen[p] = NoRows[p] <=> seen[p].matches = 0
<1>1. MaxRuns \in Nat /\ Contents \subseteq [PlayerIds -> Standing]
  BY QueryAssumption
<1>2. ASSUME NEW seen \in Contents, NEW p \in PlayerIds
      PROVE  /\ seen[p] \in Standing /\ seen[p].matches \in Nat
             /\ seen[p] = NoRows[p] <=> seen[p].matches = 0
  <2>1. seen[p] \in Standing
    BY <1>1
  <2>2. seen[p].matches \in Nat
    BY <2>1 DEF Standing
  <2>3. NoRows[p].matches = 0
    BY DEF NoRows
  <2>4. seen[p].matches = 0 => seen[p] = NoRows[p]
    BY QueryAssumption
  <2>5. QED
    BY <2>1, <2>2, <2>3, <2>4
<1>3. QED
  BY <1>1, <1>2

LEMMA PlanFacts ==
    /\ Kinds = {"leaderboard", "competitive", "rating", "search", "profile", "history", "team"}
    /\ Plan["leaderboard"] = <<"page">> /\ Plan["competitive"] = <<"filtered", "eligible">>
    /\ Plan["rating"] = <<"ranked">> /\ Plan["search"] = <<"found">>
    /\ Plan["profile"] = <<"source", "current", "stats", "history", "best">>
    /\ Plan["history"] = <<"source", "tournaments">> /\ Plan["team"] = <<"several">>
  BY DEF Kinds, Plan

LEMMA PlansAreWalked ==
    ASSUME NEW kind \in Kinds
    PROVE  /\ Len(Plan[kind]) \in Nat \ {0} /\ DOMAIN Plan[kind] = 1 .. Len(Plan[kind])
           /\ \A i, j \in 1 .. Len(Plan[kind]) : Plan[kind][i] = Plan[kind][j] => i = j
           /\ \A i \in 1 .. Len(Plan[kind]) :
                 /\ Plan[kind][i] \in OfRun \cup {"source", "found"}
                 /\ Plan[kind][i] = "source" => i = 1 /\ i < Len(Plan[kind])
                 /\ Plan[kind][i] = "current" => kind = "profile" /\ i = 2
                 /\ Plan[kind][i] = "stats" => kind = "profile" /\ i = 3
           /\ kind = "profile" => /\ Len(Plan[kind]) = 5
                                  /\ Plan[kind][1] = "source" /\ Plan[kind][2] = "current"
<1>1. CASE kind = "leaderboard"
  BY <1>1, PlanFacts DEF OfRun
<1>2. CASE kind = "competitive"
  BY <1>2, PlanFacts DEF OfRun
<1>3. CASE kind = "rating"
  BY <1>3, PlanFacts DEF OfRun
<1>4. CASE kind = "search"
  BY <1>4, PlanFacts DEF OfRun
<1>5. CASE kind = "profile"
  BY <1>5, PlanFacts DEF OfRun
<1>6. CASE kind = "history"
  BY <1>6, PlanFacts DEF OfRun
<1>7. CASE kind = "team"
  BY <1>7, PlanFacts DEF OfRun
<1>8. QED
  BY <1>1, <1>2, <1>3, <1>4, <1>5, <1>6, <1>7, PlanFacts

\* The statements about runs ask nothing else, and only one uses the rating.
LEMMA ValueIsOfRun ==
    ASSUME NEW s \in OfRun, NEW seen, NEW p, NEW rating
    PROVE  Value(s, seen, p, rating) = RunValue(s, seen, p, rating)
  BY DEF OfRun, Value, RunValue

LEMMA ValueNeedsNoRating ==
    ASSUME NEW s \in OfRun, s # "stats", NEW seen, NEW p, NEW rating, NEW other
    PROVE  RunValue(s, seen, p, rating) = RunValue(s, seen, p, other)
  BY DEF OfRun, RunValue

LEMMA NoQuestionTyped ==
    ASSUME NEW b \in Seq(Contents), NEW publication
    PROVE  /\ QuestionTyped(NoQuestion, b) /\ RunIsHeld(NoQuestion, publication)
           /\ ~Asking(NoQuestion)
  BY PlanFacts DEF NoQuestion, QuestionTyped, Shaped, RunIsHeld, Asking

LEMMA QueryStarts ==
    ASSUME QueryInit
    PROVE  QueryInv
<1>1. /\ built = <<>> /\ built \in Seq(Contents) /\ Len(built) = 0 /\ held = {}
      /\ known \subseteq PlayerIds /\ shown = [current |-> 0, previous |-> 0]
      /\ asker = [a \in Askers |-> NoQuestion]
  BY DEF QueryInit, Unpublished
<1>2. \A a \in Askers : /\ QuestionTyped(asker[a], built) /\ RunIsHeld(asker[a], shown)
                        /\ ~Asking(asker[a])
  BY <1>1, NoQuestionTyped
<1>3. held = Retains(shown) /\ asker = [a \in Askers |-> asker[a]]
  BY <1>1 DEF Retains, Unpublished
<1>4. QED
  BY <1>1, <1>2, <1>3, QueryFacts DEF QueryInv

\* One question moves on, and the tables stay.
LEMMA AsksKeeps ==
    ASSUME QueryInv, NEW a \in Askers, NEW q, asker' = [asker EXCEPT ![a] = q],
           UNCHANGED <<built, held, shown, known>>,
           QuestionTyped(q, built), RunIsHeld(q, shown),
           Asking(q) /\ q.turnovers <= 1 => TrueTo(q, built[q.run])
    PROVE  QueryInv'
<1>1. asker = [x \in Askers |-> asker[x]]
  BY DEF QueryInv
<1>2. \A x \in Askers : asker'[x] = IF x = a THEN q ELSE asker[x]
  BY <1>1
<1>3. asker' = [x \in Askers |-> asker'[x]]
  BY <1>1
<1>4. \A x \in Askers :
          /\ QuestionTyped(asker'[x], built)
          /\ RunIsHeld(asker'[x], shown)
          /\ Asking(asker'[x]) /\ asker'[x].turnovers <= 1 => TrueTo(asker'[x], built[asker'[x].run])
  BY <1>2 DEF QueryInv
<1>5. QED
  BY <1>3, <1>4 DEF QueryInv

LEMMA StartQuestionKeeps ==
    ASSUME QueryInv, NEW a \in Askers, NEW kind \in Kinds, NEW p \in PlayerIds,
           StartQuestion(a, kind, p)
    PROVE  QueryInv'
<1>1. PICK q : /\ q = [NoQuestion EXCEPT !.pc = "resolve", !.kind = kind, !.player = p]
               /\ asker' = [asker EXCEPT ![a] = q] /\ UNCHANGED <<built, held, shown, known>>
  BY DEF StartQuestion, Asks
<1>2. q = [pc |-> "resolve", kind |-> kind, player |-> p, run |-> 0,
           answer |-> NoAnswer, turnovers |-> 0]
  BY <1>1 DEF NoQuestion
<1>3. built \in Seq(Contents)
  BY DEF QueryInv
<1>4. QuestionTyped(q, built) /\ RunIsHeld(q, shown) /\ ~Asking(q)
  BY <1>2, <1>3 DEF QuestionTyped, Shaped, RunIsHeld, Asking
<1>5. QED
  BY <1>1, <1>4, AsksKeeps

LEMMA ResolveKeeps ==
    ASSUME QueryInv, NEW a \in Askers, Resolve(a)
    PROVE  QueryInv'
<1> DEFINE q0 == asker[a]
<1>1. /\ QuestionTyped(q0, built) /\ q0.pc = "resolve" /\ built \in Seq(Contents)
      /\ shown.current \in 0 .. Len(built) /\ held = Retains(shown)
  BY DEF QueryInv, Resolve
<1>2. /\ UNCHANGED <<built, held, shown, known>>
      /\ \/ /\ shown.current \in held
            /\ asker' = [asker EXCEPT ![a] = [q0 EXCEPT !.pc = "ask", !.run = shown.current]]
         \/ asker' = [asker EXCEPT ![a] = [q0 EXCEPT !.pc = "missing"]]
  BY DEF Resolve, Asks
<1>3. /\ q0 = [pc |-> "resolve", kind |-> q0.kind, player |-> q0.player, run |-> 0,
               answer |-> NoAnswer, turnovers |-> 0]
      /\ q0.kind \in Kinds /\ q0.player \in PlayerIds
  BY <1>1 DEF QuestionTyped, Shaped
<1> HIDE DEF q0
<1>4. CASE asker' = [asker EXCEPT ![a] = [q0 EXCEPT !.pc = "missing"]]
  <2>1. PICK q : q = [q0 EXCEPT !.pc = "missing"] /\ asker' = [asker EXCEPT ![a] = q]
    BY <1>4
  <2>2. q = [pc |-> "missing", kind |-> q0.kind, player |-> q0.player, run |-> 0,
             answer |-> NoAnswer, turnovers |-> 0]
    BY <1>3, <2>1
  <2>3. QuestionTyped(q, built) /\ RunIsHeld(q, shown) /\ ~Asking(q)
    BY <1>1, <1>3, <2>2 DEF QuestionTyped, Shaped, RunIsHeld, Asking
  <2>4. QED
    BY <1>2, <2>1, <2>3, AsksKeeps
<1>5. CASE /\ shown.current \in held
           /\ asker' = [asker EXCEPT ![a] = [q0 EXCEPT !.pc = "ask", !.run = shown.current]]
  <2>1. PICK q : /\ q = [q0 EXCEPT !.pc = "ask", !.run = shown.current]
                 /\ asker' = [asker EXCEPT ![a] = q]
    BY <1>5
  <2>2. q = [pc |-> "ask", kind |-> q0.kind, player |-> q0.player, run |-> shown.current,
             answer |-> NoAnswer, turnovers |-> 0]
    <3>1. [q0 EXCEPT !.pc = "ask"] =
             [pc |-> "ask", kind |-> q0.kind, player |-> q0.player, run |-> 0,
              answer |-> NoAnswer, turnovers |-> 0]
      BY <1>3
    <3>2. QED
      BY <2>1, <3>1
  <2>3. shown.current # 0
    BY <1>1, <1>5 DEF Retains, Unpublished
  <2>4. DOMAIN NoAnswer = {}
    BY DEF NoAnswer
  <2>5. Told(q) = 0 /\ InOrder(q) /\ Told(q) < Len(Plan[q.kind])
    <3>1. IsFiniteSet({}) /\ Cardinality({}) = 0
      BY FS_EmptySet
    <3>2. Len(Plan[q0.kind]) \in Nat \ {0}
      BY <1>3, PlansAreWalked
    <3>3. QED
      BY <2>2, <2>4, <3>1, <3>2 DEF Told, InOrder
  <2>6. QuestionTyped(q, built) /\ RunIsHeld(q, shown)
    BY <1>1, <1>3, <2>2, <2>3, <2>4, <2>5 DEF QuestionTyped, Shaped, RunIsHeld, Asking
  <2>7. TrueTo(q, built[q.run])
    BY <2>2, <2>4 DEF TrueTo
  <2>8. QED
    BY <1>2, <2>1, <2>6, <2>7, AsksKeeps
<1>6. QED
  BY <1>2, <1>4, <1>5

LEMMA LearnPlayerKeeps ==
    ASSUME QueryInv, NEW p \in PlayerIds, LearnPlayer(p)
    PROVE  QueryInv'
<1>1. /\ known' = known \cup {p} /\ UNCHANGED <<built, held, shown, asker>>
  BY DEF LearnPlayer
<1>2. known' \subseteq PlayerIds
  BY <1>1 DEF QueryInv
<1>3. QED
  BY <1>1, <1>2 DEF QueryInv

\* A publication, and what it makes of the questions that are being asked.
LEMMA TurnedKeeps ==
    ASSUME QueryInv, NEW publication, NEW b \in Seq(Contents), Len(built) <= Len(b),
           \A r \in 1 .. Len(built) : b[r] = built[r],
           \/ publication.previous = shown.current
           \/ shown.current = Unpublished,
           NEW a \in Askers
    PROVE  /\ QuestionTyped(Turned[a], b) /\ RunIsHeld(Turned[a], publication)
           /\ Asking(Turned[a]) /\ Turned[a].turnovers <= 1 =>
                 TrueTo(Turned[a], b[Turned[a].run])
<1> DEFINE q == asker[a]
<1>1. /\ QuestionTyped(q, built) /\ RunIsHeld(q, shown) /\ built \in Seq(Contents)
      /\ Asking(q) /\ q.turnovers <= 1 => TrueTo(q, built[q.run])
  BY DEF QueryInv
<1>2. Turned[a] = IF q.run = 0 THEN q
                  ELSE [q EXCEPT !.turnovers = IF @ < 2 THEN @ + 1 ELSE @]
  BY DEF Turned, Unpublished
<1>3. q.run \in Nat /\ q.run <= Len(built) /\ Len(built) \in Nat /\ Len(b) \in Nat
  BY <1>1 DEF QuestionTyped
<1>4. CASE q.run = 0
  <2>1. Turned[a] = q /\ ~Asking(q)
    BY <1>1, <1>2, <1>4 DEF QuestionTyped
  <2>2. QuestionTyped(q, b) /\ RunIsHeld(q, publication)
    BY <1>1, <1>3, <1>4 DEF QuestionTyped, RunIsHeld
  <2>3. QED
    BY <2>1, <2>2
<1>5. CASE q.run # 0
  <2> DEFINE n == IF q.turnovers < 2 THEN q.turnovers + 1 ELSE q.turnovers
  <2>1. PICK q1 : q1 = [q EXCEPT !.turnovers = n] /\ Turned[a] = q1
    BY <1>2, <1>5
  <2>2. /\ q = [pc |-> q.pc, kind |-> q.kind, player |-> q.player, run |-> q.run,
                answer |-> q.answer, turnovers |-> q.turnovers]
        /\ q.turnovers \in 0 .. 2 /\ q.pc # "resolve"
    BY <1>1, <1>5 DEF QuestionTyped, Shaped
  <2>3. n \in 0 .. 2 /\ n # 0 /\ (n <= 1 => q.turnovers = 0)
    BY <2>2
  <2> HIDE DEF n, q
  <2>4. q1 = [pc |-> q.pc, kind |-> q.kind, player |-> q.player, run |-> q.run,
              answer |-> q.answer, turnovers |-> n]
    BY <2>1, <2>2
  <2>5. QuestionTyped(q1, b)
    <3>1. Told(q1) = Told(q) /\ (InOrder(q) => InOrder(q1)) /\ (Asking(q1) => Asking(q)) /\ Shaped(q1)
      BY <2>4 DEF Told, InOrder, Asking, Shaped
    <3>2. QED
      BY <1>1, <1>3, <2>2, <2>3, <2>4, <3>1 DEF QuestionTyped
  <2>6. RunIsHeld(q1, publication)
    <3>1. q.turnovers = 0 => q.run = shown.current
      BY <1>1, <1>5 DEF RunIsHeld
    <3>2. QED
      BY <1>5, <2>3, <2>4, <3>1 DEF RunIsHeld, Unpublished
  <2>7. Asking(q1) /\ q1.turnovers <= 1 => TrueTo(q1, b[q1.run])
    <3>1. b[q1.run] = built[q.run]
      BY <1>3, <1>5, <2>4
    <3>2. Asking(q1) /\ q1.turnovers <= 1 => TrueTo(q, built[q.run])
      BY <1>1, <2>2, <2>3, <2>4 DEF Asking
    <3>3. TrueTo(q, built[q.run]) => TrueTo(q1, built[q.run])
      BY <2>4 DEF TrueTo
    <3>4. QED
      BY <3>1, <3>2, <3>3
  <2>8. QED
    BY <2>1, <2>5, <2>6, <2>7
<1>6. QED
  BY <1>4, <1>5

LEMMA PublishNewKeeps ==
    ASSUME QueryInv, NEW content \in Contents, PublishNew(content)
    PROVE  QueryInv'
<1> DEFINE n == Len(built) + 1
           publication == [current |-> n, previous |-> shown.current]
<1>1. /\ Len(built) < MaxRuns /\ built' = Append(built, content)
      /\ shown' = publication /\ held' = (held \cup {n}) \cap Retains(publication)
      /\ asker' = Turned /\ known' = known
  BY DEF PublishNew, Shows
<1>2. /\ built \in Seq(Contents) /\ Len(built) \in Nat
      /\ held = Retains(shown) /\ shown.current \in 0 .. Len(built)
  BY DEF QueryInv
<1>3. /\ built' \in Seq(Contents) /\ Len(built') = n /\ n \in Nat /\ n <= MaxRuns
      /\ \A r \in 1 .. Len(built) : built'[r] = built[r]
  BY <1>1, <1>2, QueryFacts
<1>4. publication.current = n /\ publication.previous = shown.current
  OBVIOUS
<1>5. held' = Retains(publication)
  BY <1>1, <1>2, <1>4 DEF Retains
<1> HIDE DEF publication
<1>6. \A a \in Askers :
          /\ QuestionTyped(Turned[a], built') /\ RunIsHeld(Turned[a], publication)
          /\ Asking(Turned[a]) /\ Turned[a].turnovers <= 1 =>
                TrueTo(Turned[a], built'[Turned[a].run])
  <2> TAKE a \in Askers
  <2>1. Len(built) <= Len(built')
    BY <1>2, <1>3
  <2> DEFINE b == built'
  <2>2. b \in Seq(Contents) /\ Len(built) <= Len(b) /\ \A r \in 1 .. Len(built) : b[r] = built[r]
    BY <1>3, <2>1
  <2> HIDE DEF b
  <2>3. /\ QuestionTyped(Turned[a], b) /\ RunIsHeld(Turned[a], publication)
        /\ Asking(Turned[a]) /\ Turned[a].turnovers <= 1 => TrueTo(Turned[a], b[Turned[a].run])
    BY <1>4, <2>2, TurnedKeeps
  <2>4. QED
    BY <2>3 DEF b
<1>7. asker' = [a \in Askers |-> asker'[a]] /\ known' \subseteq PlayerIds
  BY <1>1 DEF Turned, QueryInv
<1>8. publication = [current |-> publication.current, previous |-> publication.previous]
  BY DEF publication
<1>9. {publication.current, publication.previous} \subseteq 0 .. Len(built')
  BY <1>2, <1>3, <1>4
<1>10. QED
  BY <1>1, <1>3, <1>5, <1>6, <1>7, <1>8, <1>9 DEF QueryInv

LEMMA PublishPreviousKeeps ==
    ASSUME QueryInv, PublishPrevious
    PROVE  QueryInv'
<1> DEFINE publication == [current |-> shown.previous, previous |-> shown.current]
<1>1. /\ built' = built /\ shown' = publication /\ held' = held \cap Retains(publication)
      /\ asker' = Turned /\ known' = known
  BY DEF PublishPrevious, Shows
<1>2. /\ built \in Seq(Contents) /\ Len(built) \in Nat /\ Len(built) <= MaxRuns
      /\ held = Retains(shown) /\ {shown.current, shown.previous} \subseteq 0 .. Len(built)
  BY DEF QueryInv
<1>3. publication.current = shown.previous /\ publication.previous = shown.current
  OBVIOUS
<1>4. held' = Retains(publication)
  BY <1>1, <1>2, <1>3 DEF Retains
<1> HIDE DEF publication
<1>5. \A a \in Askers :
          /\ QuestionTyped(Turned[a], built) /\ RunIsHeld(Turned[a], publication)
          /\ Asking(Turned[a]) /\ Turned[a].turnovers <= 1 =>
                TrueTo(Turned[a], built[Turned[a].run])
  BY <1>2, <1>3, TurnedKeeps
<1>6. asker' = [a \in Askers |-> asker'[a]] /\ known' \subseteq PlayerIds
  BY <1>1 DEF Turned, QueryInv
<1>7. publication = [current |-> publication.current, previous |-> publication.previous]
  BY DEF publication
<1>8. {publication.current, publication.previous} \subseteq 0 .. Len(built)
  BY <1>2, <1>3
<1>9. QED
  BY <1>1, <1>2, <1>4, <1>5, <1>6, <1>7, <1>8 DEF QueryInv

\* A statement is asked: the next of the plan, and about the question's run.
LEMMA AskNextKeeps ==
    ASSUME QueryInv, NEW a \in Askers, AskNext(a)
    PROVE  QueryInv'
<1> DEFINE q == asker[a]
           plan == Plan[q.kind]
           k == Told(q)
           s == plan[k + 1]
           value == Value(s, RowsSeen(q.run), q.player, RatingOf(q.answer))
           answer1 == With(q.answer, s, value)
           pc1 == IF EndsEarly(s, value) \/ k + 1 = Len(plan) THEN "answered" ELSE "ask"
           seen == built[q.run]
<1>1. /\ QuestionTyped(q, built) /\ RunIsHeld(q, shown) /\ q.pc = "ask"
      /\ Asking(q) /\ q.turnovers <= 1 => TrueTo(q, seen)
      /\ built \in Seq(Contents) /\ held = Retains(shown)
  BY DEF QueryInv, AskNext
<1>2. /\ asker' = [asker EXCEPT ![a] = [q EXCEPT !.answer = answer1, !.pc = pc1]]
      /\ UNCHANGED <<built, held, shown, known>>
  BY DEF AskNext, Asks, Told
<1>3. /\ q = [pc |-> q.pc, kind |-> q.kind, player |-> q.player, run |-> q.run,
              answer |-> q.answer, turnovers |-> q.turnovers]
      /\ q.kind \in Kinds /\ q.player \in PlayerIds /\ q.run \in 1 .. Len(built)
      /\ q.turnovers \in 0 .. 2 /\ InOrder(q) /\ k < Len(plan)
      /\ "source" \in DOMAIN q.answer => q.answer["source"] # {}
      /\ "current" \in DOMAIN q.answer => q.answer["current"] # {}
  BY <1>1 DEF QuestionTyped, Shaped, Asking
<1>4. k \in Nat /\ IsFiniteSet(DOMAIN q.answer) /\ DOMAIN q.answer = {plan[i] : i \in 1 .. k}
  <2>1. IsFiniteSet(DOMAIN q.answer) /\ DOMAIN q.answer = {plan[i] : i \in 1 .. k}
    BY <1>3 DEF InOrder
  <2>2. QED
    BY <2>1, FS_CardinalityType DEF Told
<1>5. /\ Len(plan) \in Nat /\ k + 1 \in 1 .. Len(plan)
      /\ \A i, j \in 1 .. Len(plan) : plan[i] = plan[j] => i = j
      /\ s \in OfRun \cup {"source", "found"}
      /\ s = "source" => k = 0 /\ k + 1 < Len(plan)
      /\ s = "current" => q.kind = "profile" /\ k = 1
      /\ s = "stats" => q.kind = "profile" /\ k = 2
      /\ q.kind = "profile" => Len(plan) = 5 /\ plan[1] = "source" /\ plan[2] = "current"
  <2>1. /\ Len(plan) \in Nat \ {0}
        /\ \A i, j \in 1 .. Len(plan) : plan[i] = plan[j] => i = j
        /\ \A i \in 1 .. Len(plan) :
              /\ plan[i] \in OfRun \cup {"source", "found"}
              /\ plan[i] = "source" => i = 1 /\ i < Len(plan)
              /\ plan[i] = "current" => q.kind = "profile" /\ i = 2
              /\ plan[i] = "stats" => q.kind = "profile" /\ i = 3
        /\ q.kind = "profile" => /\ Len(plan) = 5
                                 /\ plan[1] = "source" /\ plan[2] = "current"
    BY <1>3, PlansAreWalked
  <2> HIDE DEF k, plan
  <2>2. k + 1 \in 1 .. Len(plan)
    BY <1>3, <1>4, <2>1
  <2>3. QED
    BY <1>4, <2>1, <2>2
<1> HIDE DEF plan, k
<1>6. s \notin DOMAIN q.answer
  BY <1>4, <1>5
<1>7. /\ DOMAIN answer1 = DOMAIN q.answer \cup {s} /\ answer1[s] = value
      /\ \A x \in DOMAIN q.answer : answer1[x] = q.answer[x]
  BY <1>6 DEF With
<1>8. /\ IsFiniteSet(DOMAIN answer1) /\ Cardinality(DOMAIN answer1) = k + 1
      /\ DOMAIN answer1 = {plan[i] : i \in 1 .. k + 1}
  <2>1. IsFiniteSet(DOMAIN answer1) /\ Cardinality(DOMAIN answer1) = k + 1
    BY <1>4, <1>6, <1>7, FS_AddElement DEF k, Told
  <2>2. 1 .. k + 1 = (1 .. k) \cup {k + 1}
    BY <1>4
  <2>3. QED
    BY <1>4, <1>7, <2>1, <2>2
<1>9. value # {} \/ ~(s \in {"source", "current"}) \/ pc1 = "answered"
  BY DEF EndsEarly
<1>10. pc1 = "ask" => k + 1 < Len(plan)
  BY <1>5
<1>11. pc1 \in {"ask", "answered"}
  OBVIOUS
\* The statement was about the rows of the run.
<1>12. q.turnovers <= 1 => RowsSeen(q.run) = seen /\ seen \in Contents
  <2>1. q.turnovers <= 1 => q.run \in held
    BY <1>1, <1>3 DEF RunIsHeld, Retains, Unpublished
  <2>2. QED
    BY <1>1, <1>3, <2>1 DEF RowsSeen
<1>13. q.turnovers <= 1 => TrueTo(q, seen)
  BY <1>1 DEF Asking
<1>14. ASSUME q.turnovers <= 1, s \in OfRun
       PROVE  value = RunValue(s, seen, q.player, seen[q.player].rating)
  <2>1. value = RunValue(s, seen, q.player, RatingOf(q.answer))
    BY <1>12, <1>14, ValueIsOfRun
  <2>2. CASE s # "stats"
    BY <1>14, <2>1, <2>2, ValueNeedsNoRating
  <2>3. CASE s = "stats"
    <3>1. "current" \in DOMAIN q.answer
      BY <1>4, <1>5, <2>3
    <3>2. q.answer["current"] = RunValue("current", seen, q.player, seen[q.player].rating)
      BY <1>13, <1>14, <3>1 DEF TrueTo, OfRun
    <3>3. q.answer["current"] = {seen[q.player]} \ {NoRows[q.player]}
      BY <3>2 DEF RunValue, CurrentRaw
    <3>4. q.answer["current"] = {seen[q.player]}
      BY <1>3, <3>1, <3>3
    <3>5. RatingOf(q.answer) = seen[q.player].rating
      BY <3>1, <3>4 DEF RatingOf
    <3>6. QED
      BY <2>1, <3>5
  <2>4. QED
    BY <2>2, <2>3
<1>15. q.turnovers <= 1 /\ s = "found" => \A e \in value : e.standing = seen[e.player]
  BY <1>12 DEF Value, Found
<1> HIDE DEF value, answer1, pc1, seen, s
<1>16. PICK q1 : q1 = [q EXCEPT !.answer = answer1, !.pc = pc1] /\ asker' = [asker EXCEPT ![a] = q1]
  BY <1>2
<1> HIDE DEF q
<1>17. q1 = [pc |-> pc1, kind |-> q.kind, player |-> q.player, run |-> q.run,
             answer |-> answer1, turnovers |-> q.turnovers]
  <2>1. [q EXCEPT !.answer = answer1] =
           [pc |-> q.pc, kind |-> q.kind, player |-> q.player, run |-> q.run,
            answer |-> answer1, turnovers |-> q.turnovers]
    BY <1>3
  <2>2. QED
    BY <1>16, <2>1
<1>18. Told(q1) = k + 1 /\ Plan[q1.kind] = plan
  BY <1>8, <1>17 DEF Told, plan
<1>19. InOrder(q1)
  BY <1>5, <1>8, <1>17, <1>18 DEF InOrder
<1>20. QuestionTyped(q1, built)
  <2>1. q1.pc = "ask" => /\ "source" \in DOMAIN q1.answer => q1.answer["source"] # {}
                         /\ "current" \in DOMAIN q1.answer => q1.answer["current"] # {}
    BY <1>3, <1>7, <1>9, <1>17
  <2>2. Shaped(q1)
    BY <1>17 DEF Shaped
  <2>3. QED
    BY <1>1, <1>3, <1>10, <1>11, <1>17, <1>18, <1>19, <2>1, <2>2 DEF QuestionTyped, Asking
<1>21. RunIsHeld(q1, shown)
  BY <1>1, <1>17 DEF RunIsHeld
<1>22. ASSUME q.turnovers <= 1
       PROVE  TrueTo(q1, built[q1.run])
  <2>1. \A x \in DOMAIN q1.answer \cap OfRun :
           q1.answer[x] = RunValue(x, seen, q1.player, seen[q1.player].rating)
    BY <1>7, <1>13, <1>14, <1>17, <1>22 DEF TrueTo
  <2>2. "found" \in DOMAIN q1.answer => \A e \in q1.answer["found"] : e.standing = seen[e.player]
    BY <1>7, <1>13, <1>15, <1>17, <1>22 DEF TrueTo
  <2>3. ASSUME pc1 = "answered"
        PROVE  DOMAIN answer1 = Needed(q.kind, seen, q.player, answer1)
    <3>1. CASE s = "source" /\ value = {}
      <4>1. DOMAIN answer1 = {"source"} /\ answer1["source"] = {}
        BY <1>4, <1>5, <1>7, <3>1
      <4>2. QED
        BY <4>1 DEF Needed
    <3>2. CASE s = "current" /\ value = {}
      <4>1. q.kind = "profile" /\ k = 1 /\ plan[1] = "source"
        BY <1>5, <3>2
      <4>2. DOMAIN q.answer = {"source"} /\ DOMAIN answer1 = {"source", "current"}
        <5>1. 1 .. k = {1}
          BY <4>1
        <5>2. QED
          BY <1>4, <1>7, <3>2, <4>1, <5>1
      <4>3. answer1["source"] # {}
        BY <1>3, <1>7, <4>2
      <4>4. {seen[q.player]} \ {NoRows[q.player]} = {}
        BY <1>14, <1>22, <3>2 DEF OfRun, RunValue, CurrentRaw
      <4>5. seen[q.player].matches = 0
        BY <1>3, <1>12, <1>22, <4>4, QueryFacts
      <4>6. QED
        BY <4>1, <4>2, <4>3, <4>5 DEF Needed
    <3>3. CASE ~(s \in {"source", "current"} /\ value = {})
      <4>1. k + 1 = Len(plan)
        BY <2>3, <3>3 DEF pc1, EndsEarly
      <4>2. DOMAIN answer1 = {plan[i] : i \in DOMAIN plan}
        <5>1. DOMAIN plan = 1 .. Len(plan)
          BY <1>3, PlansAreWalked DEF plan
        <5>2. QED
          BY <1>8, <4>1, <5>1
      <4>3. "source" \in DOMAIN answer1 => answer1["source"] # {}
        BY <1>3, <1>7, <3>3
      <4>4. q.kind = "profile" => seen[q.player].matches # 0
        <5> SUFFICES ASSUME q.kind = "profile"
                     PROVE  seen[q.player].matches # 0
          OBVIOUS
        <5>1. k = 4 /\ plan[2] = "current"
          BY <1>4, <1>5, <4>1
        <5>2. "current" \in DOMAIN q.answer
          BY <1>4, <5>1
        <5>3. q.answer["current"] = RunValue("current", seen, q.player, seen[q.player].rating)
          BY <1>13, <1>22, <5>2 DEF TrueTo, OfRun
        <5>4. q.answer["current"] = {seen[q.player]} \ {NoRows[q.player]}
          BY <5>3 DEF RunValue, CurrentRaw
        <5>5. seen[q.player] # NoRows[q.player]
          BY <1>3, <5>2, <5>4
        <5>6. QED
          BY <1>3, <1>12, <1>22, <5>5, QueryFacts
      <4>5. QED
        BY <4>2, <4>3, <4>4 DEF Needed, plan
    <3>4. QED
      BY <3>1, <3>2, <3>3
  <2>4. QED
    BY <1>17, <2>1, <2>2, <2>3 DEF TrueTo, seen
<1>23. QED
  BY <1>2, <1>16, <1>17, <1>20, <1>21, <1>22, AsksKeeps

LEMMA QuerySteps ==
    ASSUME QueryInv, [QueryNext]_queryVars
    PROVE  QueryInv'
<1>1. CASE \E content \in Contents : PublishNew(content)
  BY <1>1, PublishNewKeeps
<1>2. CASE PublishPrevious
  BY <1>2, PublishPreviousKeeps
<1>3. CASE \E p \in PlayerIds : LearnPlayer(p)
  BY <1>3, LearnPlayerKeeps
<1>4. CASE \E a \in Askers, kind \in Kinds, p \in PlayerIds : StartQuestion(a, kind, p)
  BY <1>4, StartQuestionKeeps
<1>5. CASE \E a \in Askers : Resolve(a)
  BY <1>5, ResolveKeeps
<1>6. CASE \E a \in Askers : AskNext(a)
  BY <1>6, AskNextKeeps
<1>7. CASE UNCHANGED queryVars
  BY <1>7 DEF queryVars, QueryInv
<1>8. QED
  BY <1>1, <1>2, <1>3, <1>4, <1>5, <1>6, <1>7 DEF QueryNext

\* QueryInv holds of the publications and of all questions always.
THEOREM QueryInvariance == QuerySpec => []QueryInv
<1>1. QueryInit => QueryInv
  BY QueryStarts
<1>2. QueryInv /\ [QueryNext]_queryVars => QueryInv'
  BY QuerySteps
<1>3. QED
  BY <1>1, <1>2, PTL DEF QuerySpec

\* An answer during which at most one publication turned over is complete, and
\* all of it is of the run it names.
THEOREM AnswersOfOneRun == QuerySpec => []AnswersAreOfOneRun
<1>1. ASSUME QueryInv
      PROVE  AnswersAreOfOneRun
  <2> SUFFICES ASSUME NEW a \in Askers, asker[a].pc = "answered", asker[a].turnovers <= 1
               PROVE  /\ DOMAIN asker[a].answer =
                            Needed(asker[a].kind, built[asker[a].run], asker[a].player, asker[a].answer)
                      /\ \A s \in DOMAIN asker[a].answer \cap OfRun :
                            asker[a].answer[s] =
                               Value(s, built[asker[a].run], asker[a].player,
                                     built[asker[a].run][asker[a].player].rating)
                      /\ "found" \in DOMAIN asker[a].answer =>
                            \A e \in asker[a].answer["found"] :
                               e.standing = built[asker[a].run][e.player]
    BY DEF AnswersAreOfOneRun
  <2>1. TrueTo(asker[a], built[asker[a].run])
    BY <1>1 DEF QueryInv, Asking
  <2>2. QED
    BY <2>1, ValueIsOfRun DEF TrueTo
<1>2. QED
  BY <1>1, QueryInvariance, PTL

\* The variables of the questions keep their types.
THEOREM QueryTypeCorrect == QuerySpec => []QueryTypeOK
<1>1. ASSUME QueryInv
      PROVE  QueryTypeOK
  <2>1. built \in Seq(Contents) /\ {shown.current, shown.previous} \subseteq 0 .. Len(built)
    BY <1>1 DEF QueryInv
  <2>2. held \subseteq DOMAIN built
    BY <1>1, <2>1 DEF QueryInv, Retains, Unpublished
  <2>3. QED
    BY <1>1, <2>1, <2>2 DEF QueryInv, QueryTypeOK, QuestionTyped
<1>2. QED
  BY <1>1, QueryInvariance, PTL

-----------------------------------------------------------------------------
(* The parts side by side: each behaviour moves one of them.               *)

LEMMA PartsStart == AllInit => Init /\ TransferInit /\ RosterInit /\ QueryInit
  BY DEF AllInit

\* A step of one part leaves the variables of the others alone.
LEMMA PartsStep ==
    ASSUME [AllNext]_allVars
    PROVE  /\ [Next]_vars /\ [TransferNext]_transferVars
           /\ [RosterNext]_rosterVars /\ [QueryNext]_queryVars
  BY DEF AllNext, allVars, otherVars

\* Of whatever part a behaviour is: rows and local data have their types, no
\* occurrence of a schedule runs twice or is skipped, reports of the transfer are
\* exact, teams are as their files say, and answers are of one published run.
THEOREM OperationsAreSafe ==
    AllSpec => [](/\ AllTypeOK /\ RunsOnce /\ NothingSkipped
                  /\ ReportsAreExact /\ RosterAsInstalled /\ AnswersAreOfOneRun)
<1>1. AllSpec => Spec /\ TransferSpec /\ RosterSpec /\ QuerySpec
  BY PartsStart, PartsStep, PTL DEF AllSpec, Spec, TransferSpec, RosterSpec, QuerySpec
<1>2. TypeOK /\ TransferTypeOK /\ RosterTypeOK /\ QueryTypeOK => AllTypeOK
  BY DEF AllTypeOK
<1>3. QED
  BY <1>1, <1>2, ScheduleTypeCorrect, OccurrencesRunOnce, OccurrencesAreNotSkipped,
     TransferTypeCorrect, ReportsExact, RosterTypeCorrect, TeamsAsInstalled,
     QueryTypeCorrect, AnswersOfOneRun, PTL
=============================================================================
