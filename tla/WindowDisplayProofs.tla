------------------------- MODULE WindowDisplayProofs -------------------------
(***************************************************************************)
(* Machine-checked proofs about the display of WindowDisplay: for all      *)
(* records, every calibration, every length of the quota windows and any   *)
(* number of calls at once, what `status` makes of the cached file is what *)
(* the database would say, what is shown as fresh is the newest that was   *)
(* metered, the calls use the store as WindowStore specifies it, and where *)
(* deadlines are kept its table is that of one replay of everything.       *)
(***************************************************************************)
EXTENDS WindowDisplay, FiniteSetTheorems, WellFoundedInduction, TLAPS

\* The file is the projection, at some clock, of the tables as they are.
DisplayMatches ==
  Settled => \E now : display = ReadDisplay(windows, seen, now)

-----------------------------------------------------------------------------
\* refresh_freshness makes of what was projected at one instant what
\* read_display would project at another: the two functions decide alike.
LEMMA RefreshedIsRead ==
  ASSUME NEW rows, NEW records, NEW before, NEW now
  PROVE  LET cached == Refreshed(ReadDisplay(rows, records, before), now)
             read   == ReadDisplay(rows, records, now)
         IN  cached.status = read.status /\ cached.window = read.window
<1> DEFINE readable == {w \in Store!CurrentRows(rows) : ~Hidden(w, records)}
           window   == CHOOSE w \in readable : TRUE
           old      == ReadDisplay(rows, records, before)
           new      == ReadDisplay(rows, records, now)
<1>1. CASE readable = {}
  <2>1. old = Unknown /\ new = Unknown
    BY <1>1, Zenon DEF ReadDisplay
  <2>2. Refreshed(old, now) = Unknown
    BY <2>1 DEF Refreshed, Unknown
  <2> QED BY <2>1, <2>2
<1>2. CASE readable # {}
  <2>1. /\ old = [status |-> Freshness(window, before),
                  source |-> Source(window, before),
                  window |-> window]
        /\ new = [status |-> Freshness(window, now),
                  source |-> Source(window, now),
                  window |-> window]
    BY <1>2, Zenon DEF ReadDisplay
  <2>2. Freshness(window, before) # "unknown"
    BY DEF Freshness
  <2> HIDE DEF window
  <2>3. Refreshed(old, now) = [status |-> Freshness(window, now),
                               source |-> Source(window, before),
                               window |-> window]
    BY <2>1, <2>2 DEF Refreshed
  <2> QED BY <2>1, <2>3
<1> QED BY <1>1, <1>2

\* Steps after which the same tables are behind the same file.
LEMMA SameDisplay ==
  ASSUME DisplayMatches, windows' = windows, seen' = seen, display' = display,
         Settled' => Settled
  PROVE  DisplayMatches'
BY DEF DisplayMatches

\* A step that projects leaves the file of the tables as they are.
LEMMA Projected ==
  ASSUME NEW now, display' = ReadDisplay(windows, seen, now),
         windows' = windows, seen' = seen
  PROVE  DisplayMatches'
<1>1. display' = ReadDisplay(windows', seen', now)
  OBVIOUS
<1> QED BY <1>1 DEF DisplayMatches

LEMMA DisplayStep == DisplayMatches /\ [Next]_vars => DisplayMatches'
<1> SUFFICES ASSUME DisplayMatches, [Next]_vars PROVE DisplayMatches'
  OBVIOUS
<1>1. CASE \/ Tick \/ ReplayNext \/ Rollback
           \/ \E batch \in Batches, now \in Now : BeginCall(batch, now)
           \/ \E value \in Calibrations : ApplyCalibration(value)
           \/ UNCHANGED vars
  <2>1. windows' = windows /\ UNCHANGED <<seen, display, owed, missed>>
    BY <1>1 DEF Tick, ReplayNext, Rollback, BeginCall, ApplyCalibration, vars,
       table, shown, Store!Tick, Store!ReplayNext, Store!AbortIngest,
       Store!CrashInTransaction, Store!BeginIngest, Store!ApplyCalibration,
       Store!tables
  <2> QED BY <2>1, SameDisplay DEF Settled
<1>2. CASE Commit
  <2>1. owed' # {}
    BY <1>2 DEF Commit
  <2> QED BY <2>1 DEF DisplayMatches, Settled
<1>3. CASE \E now \in Now : Reset(now)
  <2>1. owed' # {}
    BY <1>3 DEF Reset
  <2> QED BY <2>1 DEF DisplayMatches, Settled
<1>4. CASE \E now \in owed : Project(now)
  BY <1>4, Projected DEF Project, table
<1>5. CASE \E now \in Now : Recover(now)
  BY <1>5, Projected DEF Recover, table
<1>6. CASE \E now \in owed : GiveUp(now)
  <2>1. missed'
    BY <1>6 DEF GiveUp
  <2> QED BY <2>1 DEF DisplayMatches, Settled
<1>7. CASE LoseDisplay
  <2>1. display' = None
    BY <1>7 DEF LoseDisplay
  <2> QED BY <2>1 DEF DisplayMatches, Settled
<1> QED BY <1>1, <1>2, <1>3, <1>4, <1>5, <1>6, <1>7 DEF Next

\* Whatever is ingested, reset, crashed, given up or lost: once no projection
\* is owed or was missed, `status` and the database agree on the window and on
\* whether it is fresh, stale or unknown (display.rs: refresh_freshness and
\* read_display).
THEOREM StatusAlwaysAgrees == Spec => []StatusAgrees
<1>1. Init => DisplayMatches
  BY DEF Init, DisplayMatches, Settled
<1>2. DisplayMatches => StatusAgrees
  <2> SUFFICES ASSUME DisplayMatches, Settled
               PROVE  /\ StatusAt(clock).status
                           = ReadDisplay(windows, seen, clock).status
                      /\ StatusAt(clock).window
                           = ReadDisplay(windows, seen, clock).window
    BY DEF StatusAgrees
  <2>1. PICK now : display = ReadDisplay(windows, seen, now)
    BY DEF DisplayMatches
  <2>2. StatusAt(clock) = Refreshed(ReadDisplay(windows, seen, now), clock)
    BY <2>1 DEF StatusAt, Settled
  <2> QED BY <2>2, RefreshedIsRead
<1> QED BY <1>1, <1>2, DisplayStep, PTL DEF Spec
-----------------------------------------------------------------------------
\* A batch of records gives at most as many readings.
LEMMA ReadingsOfBatch ==
  ASSUME NEW batch \in Batches, NEW accepted, accepted \subseteq batch
  PROVE  Readings(accepted) \in Store!Batches /\ IsFiniteSet(Readings(accepted))
<1> DEFINE readable == {r \in accepted : /\ r.time # None
                                         /\ r.limits = "object"
                                         /\ WindowOf(r, Week) # None}
           images   == {Reading(r) : r \in readable}
<1>1. /\ batch \subseteq Records /\ IsFiniteSet(batch)
      /\ Cardinality(batch) <= MaxBatch
  BY DEF Batches
<1>2. readable \subseteq batch
  OBVIOUS
<1>3. /\ IsFiniteSet(readable)
      /\ Cardinality(readable) <= Cardinality(batch)
  BY <1>1, <1>2, FS_Subset
<1>4. IsFiniteSet(images) /\ Cardinality(images) <= Cardinality(readable)
  <2> DEFINE f == [r \in readable |-> Reading(r)]
  <2> HIDE DEF readable
  <2>1. f \in Surjection(readable, images)
    BY Zenon DEF Surjection
  <2> HIDE DEF f, images
  <2> QED BY <1>3, <2>1, FS_Surjection
<1>5. Cardinality(images) <= MaxBatch
  <2> HIDE DEF readable, images
  <2> QED BY <1>1, <1>3, <1>4, FS_CardinalityType, DisplayAssumption
<1>6. images \subseteq Readings(Records)
  BY <1>1 DEF Readings
<1>7. images = Readings(accepted)
  BY DEF Readings
<1> HIDE DEF readable, images
<1>8. Store!Cardinality(images) = Cardinality(images)
  BY DEF Store!Cardinality, Cardinality
<1> QED BY <1>4, <1>5, <1>6, <1>7, <1>8 DEF Store!Batches

\* The composition uses the database as WindowStore describes it, whatever the
\* records are and however calls, projections and failures interleave: each of
\* its steps is one of the store's, or leaves the store alone.
THEOREM StoreUsedAsSpecified == Spec => StoreImplemented
<1>1. Init => Store!Init
  BY DEF Init
<1>2. [Next]_vars => [Store!Next]_(Store!vars)
  <2> SUFFICES ASSUME [Next]_vars PROVE Store!Next \/ UNCHANGED Store!vars
    OBVIOUS
  <2>1. CASE Tick
    BY <2>1 DEF Tick, Store!Next
  <2>2. CASE \E batch \in Batches, now \in Now : BeginCall(batch, now)
    <3>1. PICK batch \in Batches, now \in Now : BeginCall(batch, now)
      BY <2>2
    <3> DEFINE accepted == {r \in batch : Timely(r, now)}
    <3>2. Readings(accepted) \in Store!Batches
      BY ReadingsOfBatch
    <3>3. Store!BeginIngest(Readings(accepted))
      BY <3>1 DEF BeginCall
    <3> QED BY <3>2, <3>3 DEF Store!Next
  <2>3. CASE ReplayNext
    BY <2>3 DEF ReplayNext, Store!Next
  <2>4. CASE Commit
    BY <2>4 DEF Commit, Store!Next
  <2>5. CASE Rollback
    BY <2>5 DEF Rollback, Store!Next
  <2>6. CASE \E now \in Now : Reset(now)
    BY <2>6 DEF Reset, Now, Store!Next
  <2>7. CASE \E value \in Calibrations : ApplyCalibration(value)
    BY <2>7 DEF ApplyCalibration, Store!Next
  <2>8. CASE \/ \E now \in Now : Recover(now)
             \/ \E now \in owed : Project(now) \/ GiveUp(now)
             \/ LoseDisplay
             \/ UNCHANGED vars
    BY <2>8 DEF Recover, Project, GiveUp, LoseDisplay, vars, table, Store!vars
  <2> QED BY <2>1, <2>2, <2>3, <2>4, <2>5, <2>6, <2>7, <2>8 DEF Next
<1> QED BY <1>1, <1>2, PTL DEF Spec, StoreImplemented, Store!Spec
-----------------------------------------------------------------------------
(* What the replay meters, and the window it leaves current. *)

RowFields == {"start", "end", "latest", "used", "weeklyReset", "server", "points",
              "milestone", "calibration", "kind", "boundary", "lifecycle"}

\* A row as new_replay_window makes it and the later updates leave it.
IsRow(w) ==
  /\ w = [field \in RowFields |-> w[field]]
  /\ w.latest \in Int

\* The rows of an unfinished replay are archived, the last one too.
Tidy(replay) ==
  /\ replay = [closed |-> replay.closed, current |-> replay.current,
               previous |-> replay.previous, events |-> replay.events,
               metered |-> replay.metered, clash |-> replay.clash]
  /\ \A w \in replay.closed : IsRow(w) /\ w.lifecycle = "archived"
  /\ replay.current # None =>
       IsRow(replay.current) /\ replay.current.lifecycle = "archived"

LEMMA ShortenedRow ==
  ASSUME NEW w, IsRow(w), NEW b
  PROVE  IsRow(Store!Shortened(w, b)) /\ Store!Shortened(w, b).lifecycle = w.lifecycle
<1>1. CASE b = None
  BY <1>1, Zenon DEF Store!Shortened
<1>2. CASE b # None
  <2> DEFINE e == Store!Least(Store!Greatest(b, w.start), w.end)
  <2>1. Store!Shortened(w, b) = [w EXCEPT !.end = e]
    BY <1>2, Zenon DEF Store!Shortened
  <2> HIDE DEF e
  <2> QED BY <2>1 DEF IsRow, RowFields
<1> QED BY <1>1, <1>2

\* What accumulate does to a window.
Metered(w, latest, used, reset, server, points, milestone) ==
  [w EXCEPT !.latest      = latest,
            !.used        = used,
            !.weeklyReset = reset,
            !.server      = server,
            !.points      = points,
            !.milestone   = milestone]

LEMMA MeteredRow ==
  ASSUME NEW w, IsRow(w), NEW latest \in Int, NEW used, NEW reset, NEW server,
         NEW points, NEW milestone
  PROVE  LET v == Metered(w, latest, used, reset, server, points, milestone)
         IN  IsRow(v) /\ v.lifecycle = w.lifecycle /\ v.latest = latest
BY DEF IsRow, RowFields, Metered

\* One item is either metered, and the latest of the window it is metered in,
\* or leaves the windows alone.
Follows(replay, next, item) ==
  /\ Tidy(next)
  /\ \/ next.metered = replay.metered /\ next.current = replay.current
     \/ /\ next.metered = replay.metered \cup {item.id}
        /\ next.current # None => next.current.latest = item.time

LEMMA IgnoreFollows ==
  ASSUME NEW replay, Tidy(replay), NEW item
  PROVE  Follows(replay, Store!Ignore(replay, item), item)
<1> DEFINE e == Store!EventsWith(replay, item)
<1>1. Store!Ignore(replay, item) = [replay EXCEPT !.events = e]
  BY Zenon DEF Store!Ignore
<1> HIDE DEF e
<1> QED BY <1>1 DEF Tidy, Follows

LEMMA AccumulateFollows ==
  ASSUME NEW replay, Tidy(replay), NEW item, item.time \in Int, NEW delta,
         replay.current # None
  PROVE  Follows(replay, Store!Accumulate(replay, item, delta), item)
<1> DEFINE e == Store!EventsWith(replay, item)
           points == replay.current.points + delta
           server == IF item.five = None THEN replay.current.server ELSE item.time
           milestone == Store!Milestone(points, replay.current.calibration)
           row == Metered(replay.current, item.time, item.weekly.used,
                          item.weekly.reset, server, points, milestone)
<1>1. Store!Accumulate(replay, item, delta)
        = [replay EXCEPT !.current = row, !.previous = item, !.events = e,
                         !.metered = replay.metered \cup {item.id}]
  BY Zenon DEF Store!Accumulate, Metered
<1>2. IsRow(replay.current) /\ replay.current.lifecycle = "archived"
  BY DEF Tidy
<1>3. IsRow(row) /\ row.lifecycle = "archived" /\ row.latest = item.time
  <2> HIDE DEF server, points, milestone
  <2> QED BY <1>2, MeteredRow
<1> HIDE DEF e, row
<1> QED BY <1>1, <1>3 DEF Tidy, Follows

LEMMA OpenFollows ==
  ASSUME NEW replay, Tidy(replay), NEW item, item.time \in Int,
         NEW preserved, NEW value
  PROVE  Follows(replay, Store!OpenWindow(replay, item, preserved, value), item)
<1> DEFINE next == Store!OpenWindow(replay, item, preserved, value)
           closed == IF replay.current = None THEN replay.closed
                     ELSE replay.closed \cup
                            {IF Store!ServerSplit(replay, item)
                             THEN Store!Shortened(replay.current,
                                                  Store!Decision(replay, item).boundary)
                             ELSE replay.current}
<1>1. PICK window, clash :
        /\ next = [closed |-> closed, current |-> window, previous |-> item,
                   events |-> Store!EventsWith(replay, item),
                   metered |-> replay.metered \cup {item.id}, clash |-> clash]
        /\ \E kind, boundary, points :
             window = Store!NewWindow(item, kind, boundary, points, preserved, value)
  BY Zenon DEF Store!OpenWindow
<1>2. IsRow(window) /\ window.lifecycle = "archived" /\ window.latest = item.time
  <2>1. PICK kind, boundary, points :
          window = Store!NewWindow(item, kind, boundary, points, preserved, value)
    BY <1>1
  <2>2. PICK s, e, u, r, v, m, c :
          window = [start |-> s, end |-> e, latest |-> item.time, used |-> u,
                    weeklyReset |-> r, server |-> v, points |-> points,
                    milestone |-> m, calibration |-> c, kind |-> kind,
                    boundary |-> boundary, lifecycle |-> "archived"]
    BY <2>1, Zenon DEF Store!NewWindow
  <2> QED BY <2>2 DEF IsRow, RowFields
<1>3. \A w \in closed : IsRow(w) /\ w.lifecycle = "archived"
  <2>1. replay.current # None =>
          /\ IsRow(replay.current) /\ replay.current.lifecycle = "archived"
          /\ \A b : /\ IsRow(Store!Shortened(replay.current, b))
                    /\ Store!Shortened(replay.current, b).lifecycle = "archived"
    BY ShortenedRow DEF Tidy
  <2> QED BY <2>1, Zenon DEF Tidy
<1> HIDE DEF next, closed
<1>4. Follows(replay, next, item)
  BY <1>1, <1>2, <1>3 DEF Tidy, Follows
<1> QED BY <1>4 DEF next

LEMMA ReplayFollows ==
  ASSUME NEW replay, Tidy(replay), NEW item, item.time \in Int,
         NEW preserved, NEW value
  PROVE  Follows(replay, Store!ReplayItem(replay, item, preserved, value), item)
<1> DEFINE next == Store!ReplayItem(replay, item, preserved, value)
<1>1. \/ next = Store!Ignore(replay, item)
      \/ next = Store!OpenWindow(replay, item, preserved, value)
      \/ /\ replay.current # None
         /\ \E delta : next = Store!Accumulate(replay, item, delta)
  BY Zenon DEF Store!ReplayItem
<1> HIDE DEF next
<1>2. Follows(replay, next, item)
  BY <1>1, IgnoreFollows, OpenFollows, AccumulateFollows
<1> QED BY <1>2 DEF next
-----------------------------------------------------------------------------
(* The metered records are never newer than the usage that is shown. *)

RecordWithId(id, record) ==
  record \in Records /\ record.id = id /\ record.time \in Int

\* What a replay has metered comes before what it has left to do, and is no
\* newer than the window it fills.
Ordered(replay, todo) ==
  /\ \A i \in todo : \E r : RecordWithId(i.id, r) /\ r.time = i.time
  /\ \A id \in replay.metered : \E r :
       /\ RecordWithId(id, r)
       /\ \A i \in todo : r.time <= i.time
       /\ replay.current # None => r.time <= replay.current.latest

OpenTransaction ==
  /\ tx = [stored |-> tx.stored, todo |-> tx.todo, replay |-> tx.replay]
  /\ tx.stored \subseteq Readings(Records)
  /\ Tidy(tx.replay)
  /\ Ordered(tx.replay, tx.todo)
  /\ \A r \in call.records : RecordWithId(r.id, r)

MeteredInv ==
  /\ stored \subseteq Readings(Records)
  /\ \A r \in seen : RecordWithId(r.id, r)
  /\ \A w \in windows : IsRow(w)
  /\ \A w \in Store!CurrentRows(windows), id \in metered :
       \E r : RecordWithId(id, r) /\ r.time <= w.latest
  /\ tx # None => OpenTransaction

\* A reading has the instant of its record, backfilled or not.
LEMMA BackfilledReading ==
  ASSUME NEW items \in SUBSET Readings(Records), NEW o \in items
  PROVE  LET i == Store!Backfilled(o, items)
         IN  \E r : RecordWithId(i.id, r) /\ r.time = i.time
<1>1. PICK r \in Records : /\ r.time # None
                           /\ o = Reading(r)
  BY DEF Readings
<1>2. r.time \in Int /\ o = [id |-> r.id, time |-> r.time, five |-> o.five, weekly |-> o.weekly]
  BY <1>1, DisplayAssumption DEF UsageRecords, Reading
<1>3. PICK five : \/ Store!Backfilled(o, items) = o
                  \/ Store!Backfilled(o, items) = [o EXCEPT !.five = five]
  BY Zenon DEF Store!Backfilled
<1>4. /\ Store!Backfilled(o, items).id = r.id
      /\ Store!Backfilled(o, items).time = r.time
  BY <1>2, <1>3
<1> QED BY <1>1, <1>2, <1>4 DEF RecordWithId

LEMMA TimelyRecord ==
  ASSUME NEW r \in Records, NEW now, Timely(r, now)
  PROVE  RecordWithId(r.id, r)
BY DisplayAssumption DEF Timely, RecordWithId, UsageRecords

LEMMA BeginSafe ==
  ASSUME MeteredInv, NEW batch \in Batches, NEW now, BeginCall(batch, now)
  PROVE  MeteredInv'
<1> DEFINE accepted == {r \in batch : Timely(r, now)}
           all == stored \cup Readings(accepted)
<1>1. accepted \subseteq Records
  BY DEF Batches
<1>2. Readings(accepted) \subseteq Readings(Records)
  BY <1>1 DEF Readings
<1>3. /\ tx' = [stored |-> all,
                todo   |-> {Store!Backfilled(o, all) : o \in all},
                replay |-> Store!EmptyReplay]
      /\ call' = [now |-> now, records |-> accepted]
      /\ UNCHANGED <<stored, windows, metered, seen>>
  BY DEF BeginCall, Store!BeginIngest, Store!tables, shown
<1>4. all \subseteq Readings(Records)
  BY <1>2 DEF MeteredInv
<1>5. \A r \in accepted : RecordWithId(r.id, r)
  BY <1>1, TimelyRecord
<1> DEFINE todo == {Store!Backfilled(o, all) : o \in all}
<1>6. \A i \in todo : \E r : RecordWithId(i.id, r) /\ r.time = i.time
  <2> HIDE DEF all
  <2> QED BY <1>4, BackfilledReading
<1>7. Tidy(Store!EmptyReplay) /\ Ordered(Store!EmptyReplay, todo)
  <2> HIDE DEF todo
  <2> QED BY <1>6 DEF Tidy, Ordered, Store!EmptyReplay
<1>8. OpenTransaction'
  <2> HIDE DEF accepted, all, todo
  <2> QED BY <1>3, <1>4, <1>5, <1>7 DEF OpenTransaction, todo
<1> QED BY <1>3, <1>8 DEF MeteredInv, Store!CurrentRows

LEMMA ReplaySafe ==
  ASSUME MeteredInv, ReplayNext
  PROVE  MeteredInv'
<1>1. PICK item \in tx.todo :
        /\ \A other \in tx.todo : item = other \/ Store!Before(item, other)
        /\ tx' = [tx EXCEPT !.todo = @ \ {item},
                            !.replay = Store!ReplayItem(@, item, windows, profile)]
  BY DEF ReplayNext, Store!ReplayNext
<1>2. /\ tx # None /\ OpenTransaction
      /\ UNCHANGED <<stored, windows, metered, seen, call>>
  BY DEF ReplayNext, Store!ReplayNext, Store!tables, shown, MeteredInv
<1> DEFINE next == Store!ReplayItem(tx.replay, item, windows, profile)
           todo == tx.todo \ {item}
<1>3. PICK r : RecordWithId(item.id, r) /\ r.time = item.time
  BY <1>2 DEF OpenTransaction, Ordered
<1>4. Follows(tx.replay, next, item)
  BY <1>2, <1>3, ReplayFollows DEF OpenTransaction, RecordWithId
<1> HIDE DEF next
<1>5. tx' = [stored |-> tx.stored, todo |-> todo, replay |-> next]
  BY <1>1, <1>2 DEF OpenTransaction, next
<1>6. \A other \in todo : item.time <= other.time
  <2> SUFFICES ASSUME NEW other \in todo PROVE item.time <= other.time
    OBVIOUS
  <2>1. Store!Before(item, other)
    BY <1>1
  <2>2. item.time \in Int /\ other.time \in Int
    BY <1>2, <1>3 DEF OpenTransaction, Ordered, RecordWithId
  <2> QED BY <2>1, <2>2 DEF Store!Before
<1>7. Ordered(next, todo)
  <2>1. \A i \in todo : \E s : RecordWithId(i.id, s) /\ s.time = i.time
    BY <1>2 DEF OpenTransaction, Ordered
  <2>2. SUFFICES ASSUME NEW id \in next.metered
                 PROVE  \E s : /\ RecordWithId(id, s)
                               /\ \A i \in todo : s.time <= i.time
                               /\ next.current # None => s.time <= next.current.latest
    BY <2>1 DEF Ordered
  <2>3. CASE id \in tx.replay.metered
    <3>1. PICK s : /\ RecordWithId(id, s)
                   /\ \A i \in tx.todo : s.time <= i.time
                   /\ tx.replay.current # None => s.time <= tx.replay.current.latest
      BY <1>2, <2>3 DEF OpenTransaction, Ordered
    <3> QED BY <1>4, <3>1 DEF Follows
  <2>4. CASE id \notin tx.replay.metered
    <3>1. id = item.id /\ (next.current # None => next.current.latest = item.time)
      BY <1>4, <2>2, <2>4 DEF Follows
    <3>2. r.time \in Int
      BY <1>3 DEF RecordWithId
    <3> QED BY <1>3, <1>6, <3>1, <3>2
  <2> QED BY <2>3, <2>4
<1>8. OpenTransaction'
  BY <1>2, <1>4, <1>5, <1>7 DEF OpenTransaction, Follows
<1> QED BY <1>2, <1>8 DEF MeteredInv, Store!CurrentRows

LEMMA CommitSafe ==
  ASSUME MeteredInv, Commit
  PROVE  MeteredInv'
<1>1. /\ tx # None /\ OpenTransaction /\ tx' = None
      /\ stored' = tx.stored
      /\ windows' = Store!FinalRows(tx.replay)
      /\ metered' = tx.replay.metered
      /\ seen' = seen \cup call.records
  BY DEF Commit, Store!CommitIngest, Store!Replayed, MeteredInv
<1> DEFINE replay == tx.replay
           last == IF \A r \in resets : replay.current.latest > r
                   THEN [replay.current EXCEPT !.lifecycle = "current"]
                   ELSE replay.current
<1>2. windows' = IF replay.current = None THEN {} ELSE replay.closed \cup {last}
  BY <1>1, Zenon DEF Store!FinalRows
<1>3. Tidy(replay) /\ Ordered(replay, tx.todo)
  BY <1>1 DEF OpenTransaction
<1>4. replay.current # None => IsRow(last) /\ last.latest = replay.current.latest
  BY <1>3 DEF Tidy, IsRow, RowFields
<1> HIDE DEF last
<1>5. \A w \in windows' : IsRow(w)
  BY <1>2, <1>3, <1>4 DEF Tidy
<1>6. \A w \in Store!CurrentRows(windows') : replay.current # None /\ w = last
  BY <1>2, <1>3 DEF Tidy, Store!CurrentRows
<1>7. \A w \in Store!CurrentRows(windows'), id \in metered' :
        \E r : RecordWithId(id, r) /\ r.time <= w.latest
  BY <1>1, <1>3, <1>4, <1>6 DEF Ordered
<1>8. \A r \in seen' : RecordWithId(r.id, r)
  BY <1>1 DEF MeteredInv, OpenTransaction
<1> QED BY <1>1, <1>5, <1>7, <1>8 DEF MeteredInv, OpenTransaction, Store!CurrentRows

LEMMA ResetSafe ==
  ASSUME MeteredInv, NEW now, Reset(now)
  PROVE  MeteredInv'
<1>1. PICK w \in Store!CurrentRows(windows) :
        windows' = (windows \ {w}) \cup
                     {[w EXCEPT !.end = Store!Greatest(now, w.start),
                                !.lifecycle = "archived"]}
  BY DEF Reset, Store!ManualReset
<1>2. tx = None /\ UNCHANGED <<stored, metered, tx, seen, call>>
  BY DEF Reset, Store!ManualReset
<1> DEFINE e == Store!Greatest(now, w.start)
           v == [w EXCEPT !.end = e, !.lifecycle = "archived"]
<1>3. IsRow(w)
  BY DEF MeteredInv, Store!CurrentRows
<1>4. IsRow(v) /\ v.lifecycle = "archived"
  <2> HIDE DEF e
  <2> QED BY <1>3 DEF IsRow, RowFields
<1> HIDE DEF v
<1>5. windows' = (windows \ {w}) \cup {v}
  BY <1>1 DEF v
<1>6. Store!CurrentRows(windows') \subseteq Store!CurrentRows(windows)
  BY <1>4, <1>5 DEF Store!CurrentRows
<1> QED BY <1>2, <1>4, <1>5, <1>6 DEF MeteredInv, Store!CurrentRows

LEMMA MeteredStep == MeteredInv /\ [Next]_vars => MeteredInv'
<1> SUFFICES ASSUME MeteredInv, [Next]_vars PROVE MeteredInv'
  OBVIOUS
<1>1. CASE \E batch \in Batches, now \in Now : BeginCall(batch, now)
  BY <1>1, BeginSafe
<1>2. CASE ReplayNext
  BY <1>2, ReplaySafe
<1>3. CASE Commit
  BY <1>3, CommitSafe
<1>4. CASE \E now \in Now : Reset(now)
  BY <1>4, ResetSafe
<1>5. CASE Rollback
  <2>1. tx' = None /\ UNCHANGED <<stored, windows, metered, seen>>
    BY <1>5 DEF Rollback, Store!AbortIngest, Store!CrashInTransaction, Store!tables, shown
  <2> QED BY <2>1 DEF MeteredInv, Store!CurrentRows
<1>6. CASE \/ Tick
           \/ \E now \in Now : Recover(now)
           \/ \E value \in Calibrations : ApplyCalibration(value)
           \/ \E now \in owed : Project(now) \/ GiveUp(now)
           \/ LoseDisplay
           \/ UNCHANGED vars
  <2>1. UNCHANGED <<stored, windows, metered, seen, tx, call>>
    BY <1>6 DEF Tick, Recover, ApplyCalibration, Project, GiveUp, LoseDisplay, vars,
       table, shown, Store!Tick, Store!ApplyCalibration, Store!tables
  <2> QED BY <2>1 DEF MeteredInv, OpenTransaction, Store!CurrentRows
<1> QED BY <1>1, <1>2, <1>3, <1>4, <1>5, <1>6 DEF Next

\* A record without a hiding diagnostic makes sense.
LEMMA HidingIsSenseless ==
  ASSUME NEW r \in Records, r.time \in Int,
         Diagnostics(r, r.time) \cap HidingCodes = {}
  PROVE  Sensible(r)
<1>1. /\ r \in UsageRecords /\ FutureTolerance \in Nat /\ None \notin Int
      /\ r.limits \in {"object", "other", "absent"}
  BY DisplayAssumption, RecordAssumption, ClassifierAssumption DEF UsageRecords
<1>2. r.time # None /\ Timely(r, r.time)
  BY <1>1 DEF Timely
<1>3. r.limits = "object"
  BY <1>1, <1>2 DEF Diagnostics, HidingCodes
<1>4. /\ SlotFault(r.primary) \cup SlotFault(r.secondary)
           \cup Missing(r, Week, "missing_weekly_window")
           \subseteq Diagnostics(r, r.time)
  BY <1>2, <1>3 DEF Diagnostics
<1>5. SlotFault(r.primary) = {} /\ SlotFault(r.secondary) = {}
  BY <1>4 DEF SlotFault, HidingCodes
<1>6. Missing(r, Week, "missing_weekly_window") = {}
  BY <1>4 DEF Missing, HidingCodes
<1>7. WindowOf(r, Week) # None
  BY <1>6 DEF Missing
<1> QED BY <1>3, <1>5, <1>7 DEF SlotFault, WindowOf, HasLength, Sensible

\* Whatever was read, in whatever order, rolled back, reset or projected late:
\* no record that makes no sense lies at or after what is shown as fresh, and
\* none after it was metered (display.rs: read_display; window_replay.rs).
THEOREM FreshAlwaysNewest == Spec => []FreshIsNewest
<1>1. Init => DisplayMatches /\ MeteredInv
  BY DEF Init, DisplayMatches, Settled, Store!Init, MeteredInv, Store!CurrentRows
<1>2. DisplayMatches /\ MeteredInv => FreshIsNewest
  <2> SUFFICES ASSUME DisplayMatches, MeteredInv, Settled,
                      StatusAt(clock).status = "fresh", NEW r \in seen,
                      r.time >= StatusAt(clock).window.latest
               PROVE  /\ Sensible(r)
                      /\ \/ r.time = StatusAt(clock).window.latest
                         \/ r.id \notin metered
    BY DEF FreshIsNewest
  <2> DEFINE readable == {w \in Store!CurrentRows(windows) : ~Hidden(w, seen)}
             window   == CHOOSE w \in readable : TRUE
  <2>1. PICK now : display = ReadDisplay(windows, seen, now)
    BY DEF DisplayMatches
  <2>2. StatusAt(clock) = Refreshed(ReadDisplay(windows, seen, now), clock)
    BY <2>1 DEF StatusAt, Settled
  <2>3. StatusAt(clock).window = ReadDisplay(windows, seen, clock).window
        /\ ReadDisplay(windows, seen, clock).status = "fresh"
    BY <2>2, RefreshedIsRead
  <2>4. readable # {} /\ StatusAt(clock).window = window
    BY <2>3 DEF ReadDisplay, Unknown
  <2>5. window \in Store!CurrentRows(windows) /\ ~Hidden(window, seen)
    BY <2>4
  <2> HIDE DEF window
  <2>6. Diagnostics(r, r.time) \cap HidingCodes = {}
    BY <2>4, <2>5 DEF Hidden
  <2>7. RecordWithId(r.id, r) /\ window.latest \in Int
    BY <2>5 DEF MeteredInv, IsRow, Store!CurrentRows
  <2>8. Sensible(r)
    BY <2>6, <2>7, HidingIsSenseless DEF RecordWithId
  <2>9. CASE r.id \in metered
    <3>1. PICK s : RecordWithId(r.id, s) /\ s.time <= window.latest
      BY <2>5, <2>9 DEF MeteredInv
    <3>2. s = r
      BY <2>7, <3>1, DisplayAssumption DEF RecordWithId
    <3> QED BY <2>4, <2>7, <2>8, <3>1, <3>2 DEF RecordWithId
  <2> QED BY <2>8, <2>9
<1> QED BY <1>1, <1>2, DisplayStep, MeteredStep, PTL DEF Spec
-----------------------------------------------------------------------------
(* Incremental ingestion and one full replay.  They differ only where a    *)
(* rebuild keeps an end or a calibration that a replay of everything would *)
(* not find; so they agree where every end is a function of the start.     *)

Items(items) == {Store!Backfilled(o, items) : o \in items}

LEMMA ReadingFacts ==
  ASSUME NEW o \in Readings(Records)
  PROVE  /\ o = [id |-> o.id, time |-> o.time, five |-> o.five, weekly |-> o.weekly]
         /\ o.id \in Int /\ o.time \in Int /\ o \in Observations
         /\ o.five # None => o.five.length = FiveHours /\ o.five.reset \in Int \cup {None}
         /\ \A p \in Readings(Records) : p.id = o.id => p = o
<1>1. PICK r \in Records : r.time # None /\ o = Reading(r)
  BY DEF Readings
<1>2. r \in UsageRecords
  BY DisplayAssumption
<1>3. r.id \in Int /\ r.time \in Int /\ r.primary \in Slots /\ r.secondary \in Slots
  BY <1>1, <1>2 DEF UsageRecords
<1>4. /\ o = [id |-> r.id, time |-> r.time, five |-> WindowOf(r, FiveHours),
              weekly |-> WindowOf(r, Week)]
  BY <1>1 DEF Reading
<1>5. WindowOf(r, FiveHours) # None =>
        /\ WindowOf(r, FiveHours).length = FiveHours
        /\ WindowOf(r, FiveHours).reset \in Int \cup {None}
  BY <1>3 DEF WindowOf, HasLength, Slots
<1>7. {WindowOf(r, FiveHours), WindowOf(r, Week)} \subseteq QuotaWindows \cup {None}
  BY <1>3, ClassifierAssumption DEF WindowOf, HasLength, Slots, QuotaWindows
<1>6. ASSUME NEW p \in Readings(Records), p.id = o.id
      PROVE  p = o
  <2>1. PICK q \in Records : p = Reading(q)
    BY DEF Readings
  <2>2. q.id = r.id
    BY <1>4, <1>6, <2>1 DEF Reading
  <2> QED BY <1>1, <2>1, <2>2, DisplayAssumption
<1> HIDE DEF WindowOf
<1>8. o \in Observations
  BY <1>3, <1>4, <1>7 DEF Observations
<1> QED BY <1>3, <1>4, <1>5, <1>6, <1>8

\* A finite set has an element that no other comes after.
LEMMA MaximalExists ==
  ASSUME NEW S, IsFiniteSet(S), S # {}, NEW R,
         \A x \in S : <<x, x>> \notin R,
         \A x, y, z \in S : <<x, y>> \in R /\ <<y, z>> \in R => <<x, z>> \in R
  PROVE  \E x \in S : \A y \in S : <<x, y>> \notin R
<1> DEFINE Above(x) == {y \in S : <<x, y>> \in R}
           counts == {Cardinality(Above(x)) : x \in S}
<1>1. \A x \in S : IsFiniteSet(Above(x)) /\ Cardinality(Above(x)) \in Nat
  <2>1. \A x \in S : Above(x) \in SUBSET S
    OBVIOUS
  <2> HIDE DEF Above
  <2> QED BY <2>1, FS_Subset, FS_CardinalityType
<1>2. PICK n \in counts : \A m \in counts : <<m, n>> \notin OpToRel(<, Nat)
  <2> HIDE DEF Above
  <2>1. counts \in SUBSET Nat /\ counts # {}
    BY <1>1
  <2> HIDE DEF counts
  <2> QED BY <2>1, NatLessThanWellFounded, WFMin
<1>3. PICK x \in S : n = Cardinality(Above(x))
  OBVIOUS
<1>4. ASSUME NEW y \in S, <<x, y>> \in R PROVE FALSE
  <2>1. Above(y) \in SUBSET Above(x) /\ y \in Above(x) /\ y \notin Above(y)
    BY <1>4
  <2>2. Cardinality(Above(y)) \in counts
    OBVIOUS
  <2> HIDE DEF Above, counts
  <2>3. /\ Cardinality(Above(y)) <= Cardinality(Above(x))
        /\ Cardinality(Above(x)) = Cardinality(Above(y)) => Above(x) = Above(y)
    BY <1>1, <2>1, FS_Subset
  <2>4. Cardinality(Above(y)) < n
    BY <1>1, <1>3, <2>1, <2>3
  <2> QED BY <1>1, <1>2, <1>3, <2>2, <2>4 DEF OpToRel
<1> QED BY <1>4

\* Items with instants, each of an id of its own: Before orders them.
Stamped(S) ==
  \A x, y \in S : x.time \in Int /\ x.id \in Int /\ (x.id = y.id => x = y)

LEMMA ExtremeItems ==
  ASSUME NEW S, IsFiniteSet(S), S # {}, Stamped(S)
  PROVE  /\ \E x \in S : \A y \in S \ {x} : Store!Before(x, y)
         /\ Store!LastOf(S) \in S
         /\ \A y \in S \ {Store!LastOf(S)} : Store!Before(y, Store!LastOf(S))
<1> DEFINE R == {e \in S \X S : Store!Before(e[1], e[2])}
           Q == {e \in S \X S : Store!Before(e[2], e[1])}
<1>1. \A x \in S : <<x, x>> \notin R /\ <<x, x>> \notin Q
  BY DEF Stamped, Store!Before
<1>2. \A x, y, z \in S :
        /\ <<x, y>> \in R /\ <<y, z>> \in R => <<x, z>> \in R
        /\ <<x, y>> \in Q /\ <<y, z>> \in Q => <<x, z>> \in Q
  BY DEF Stamped, Store!Before
<1>3. \A x \in S, y \in S : x # y => Store!Before(x, y) \/ Store!Before(y, x)
  BY DEF Stamped, Store!Before
<1>4. \A x, y \in S : /\ <<x, y>> \notin R => ~ Store!Before(x, y)
                      /\ <<x, y>> \notin Q => ~ Store!Before(y, x)
  OBVIOUS
<1> HIDE DEF R, Q
<1>5. \E x \in S : \A y \in S : <<x, y>> \notin R
  BY <1>1, <1>2, MaximalExists
<1>6. \E x \in S : \A y \in S : <<x, y>> \notin Q
  BY <1>1, <1>2, MaximalExists
<1>7. \E x \in S : \A y \in S \ {x} : Store!Before(y, x)
  BY <1>3, <1>4, <1>5
<1> QED BY <1>3, <1>4, <1>6, <1>7 DEF Store!LastOf

\* What is replayed of a record: its five-hour window, or one from after it.
LEMMA BackfilledIs ==
  ASSUME NEW items \in SUBSET Readings(Records), NEW o \in items
  PROVE  LET b == Store!Backfilled(o, items)
         IN  /\ b = [id |-> o.id, time |-> o.time, five |-> b.five, weekly |-> o.weekly]
             /\ b \in Observations
             /\ o.five # None => b = o
             /\ b.five # None => \E p \in items : /\ b.five = p.five
                                                  /\ p = o \/ Store!Before(o, p)
             /\ b.five = None => \A p \in Store!NextKnown(o, items) :
                                   ~ Store!FitsEpoch(o.time, p.five)
<1> DEFINE known == {y \in Store!NextKnown(o, items) : Store!FitsEpoch(o.time, y.five)}
           y == CHOOSE y \in known : TRUE
           b == Store!Backfilled(o, items)
<1>1. o = [id |-> o.id, time |-> o.time, five |-> o.five, weekly |-> o.weekly]
  BY ReadingFacts
<1>2. b = IF o.five # None \/ known = {} THEN o ELSE [o EXCEPT !.five = y.five]
  BY Zenon DEF Store!Backfilled
<1>3. known # {} => y \in known
  OBVIOUS
<1>4. known # {} => /\ y \in items /\ y.five # None
                    /\ Store!Before(o, y)
  <2> HIDE DEF y
  <2> QED BY <1>3 DEF Store!NextKnown
<1> HIDE DEF y, b, known
<1>5. CASE o.five # None \/ known = {}
  BY <1>1, <1>2, <1>5, ReadingFacts DEF b, known
<1>6. CASE ~ (o.five # None \/ known = {})
  <2>1. b = [id |-> o.id, time |-> o.time, five |-> y.five, weekly |-> o.weekly]
    BY <1>1, <1>2, <1>6
  <2>2. y.five \in QuotaWindows /\ o \in Observations
    BY <1>4, <1>6, ReadingFacts DEF Observations
  <2>3. b \in Observations
    BY <2>1, <2>2 DEF Observations
  <2> QED BY <1>4, <1>6, <2>1, <2>3 DEF b
<1> QED BY <1>5, <1>6

\* Where deadlines are kept, every record that comes before one with a
\* five-hour window is given one.
LEMMA KnownAhead ==
  ASSUME DeadlinesKept, NEW items \in SUBSET Readings(Records), IsFiniteSet(items),
         NEW o \in items, NEW p \in items, Store!Before(o, p), p.five # None
  PROVE  Store!Backfilled(o, items).five # None
<1> DEFINE T == {y \in items : Store!Before(o, y) /\ y.five # None}
<1>1. T \in SUBSET items /\ T # {}
  OBVIOUS
<1>2. Stamped(T)
  BY <1>1, ReadingFacts DEF Stamped
<1>3. PICK q \in T : \A y \in T \ {q} : Store!Before(q, y)
  <2> HIDE DEF T
  <2>1. IsFiniteSet(T)
    BY <1>1, FS_Subset
  <2> QED BY <1>1, <1>2, <2>1, ExtremeItems
<1>4. \A x \in items : /\ Store!Before(o, x) /\ Store!Before(x, q)
                       => x.five = None
  BY <1>3, ReadingFacts DEF Store!Before
<1>5. q \in items /\ q.five # None /\ q.five.reset \in Int /\ q.five.length = FiveHours
  BY ReadingFacts DEF DeadlinesKept
<1>6. InEpoch(q.time, q.five)
  BY <1>5, ReadingFacts, ClassifierAssumption DEF DeadlinesKept, Earlier, Store!EpochStart
<1>7. \A x \in items : x.five = None /\ Store!Before(x, q) => InEpoch(x.time, q.five)
  <2> SUFFICES ASSUME NEW x \in items, x.five = None, Store!Before(x, q)
               PROVE  InEpoch(x.time, q.five)
    OBVIOUS
  <2>1. InEpoch(x.time, q.five) \/ x.time >= q.five.reset
    BY <1>5 DEF DeadlinesKept
  <2>2. x.time <= q.time /\ x.time \in Int /\ q.time \in Int
    BY <1>5, ReadingFacts DEF Store!Before
  <2> QED BY <1>5, <1>6, <2>1, <2>2 DEF InEpoch
<1>8. \A x \in items : InEpoch(x.time, q.five) => Store!FitsEpoch(x.time, q.five)
  BY <1>5, ReadingFacts, ClassifierAssumption DEF InEpoch, Store!FitsEpoch, Store!EpochStart
<1>9. q \in Store!NextKnown(o, items)
  BY <1>4, <1>5, <1>7, <1>8 DEF Store!NextKnown
<1>10. CASE o.five = None
  <2>1. Store!FitsEpoch(o.time, q.five)
    BY <1>7, <1>8, <1>10
  <2> QED BY <1>9, <2>1, BackfilledIs
<1>11. CASE o.five # None
  BY <1>11, BackfilledIs
<1> QED BY <1>10, <1>11

\* Two items of one epoch, each read within the other's.
Alongside(b, c) == InEpoch(b.time, c.five) /\ InEpoch(c.time, b.five)

\* What DeadlinesKept says of records, for what is replayed.
OrderlyItems(S) ==
  /\ S \subseteq Observations
  /\ Stamped(S)
  /\ \A b \in S : b.five # None =>
       /\ b.five.length = FiveHours /\ b.five.reset \in Int
       /\ InEpoch(b.time, b.five)
  /\ \A b, c \in S : b.five # None /\ c.five # None =>
       \/ Alongside(b, c) /\ WithinJitter(b.five.reset, c.five.reset)
       \/ Earlier(b.five, c.five)
       \/ Earlier(c.five, b.five)
  /\ \A b, c \in S : Store!Before(b, c) /\ c.five # None => b.five # None

LEMMA ReadingsOrderly ==
  ASSUME DeadlinesKept, NEW items \in SUBSET Readings(Records)
  PROVE  /\ \A o \in items : o.five # None =>
              /\ o.five.length = FiveHours /\ o.five.reset \in Int
              /\ InEpoch(o.time, o.five)
         /\ \A o, p \in items : o.five # None /\ p.five # None =>
              \/ Alongside(o, p) /\ WithinJitter(o.five.reset, p.five.reset)
              \/ Earlier(o.five, p.five)
              \/ Earlier(p.five, o.five)
<1>1. ASSUME NEW o \in items, o.five # None
      PROVE  /\ o.five.length = FiveHours /\ o.five.reset \in Int
             /\ InEpoch(o.time, o.five)
  <2>1. o.five.length = FiveHours /\ o.five.reset \in Int
    BY <1>1, ReadingFacts DEF DeadlinesKept
  <2> QED BY <1>1, <2>1, ReadingFacts, ClassifierAssumption
          DEF DeadlinesKept, Earlier, Store!EpochStart
<1>2. ASSUME NEW o \in items, NEW p \in items, o.five # None, p.five # None,
             ~ Earlier(o.five, p.five), ~ Earlier(p.five, o.five)
      PROVE  Alongside(o, p) /\ WithinJitter(o.five.reset, p.five.reset)
  BY <1>2 DEF DeadlinesKept, Alongside
<1> QED BY <1>1, <1>2

\* b is what is replayed of o, with the five-hour window of p.
Given(b, o, p) ==
  /\ b.id = o.id /\ b.time = o.time
  /\ b.five = p.five /\ p.five # None
  /\ o.five # None => b.five = o.five
  /\ p = o \/ Store!Before(o, p)

LEMMA GivenFacts ==
  ASSUME DeadlinesKept, NEW items \in SUBSET Readings(Records),
         NEW o \in items, NEW p \in items, NEW b, Given(b, o, p)
  PROVE  /\ InEpoch(o.time, p.five) /\ o.time <= p.time
         /\ \A q \in items : q.five # None /\ Alongside(p, q) => InEpoch(o.time, q.five)
<1>1. /\ p.five.reset \in Int /\ InEpoch(p.time, p.five) /\ p.five.length = FiveHours
      /\ o.time \in Int /\ p.time \in Int
  BY ReadingsOrderly, ReadingFacts DEF Given
<1>2. o.time <= p.time
  BY <1>1 DEF Given, Store!Before
<1>3. InEpoch(o.time, p.five)
  <2>1. CASE o.five # None
    <3>1. o.five = p.five
      BY <2>1 DEF Given
    <3>2. InEpoch(o.time, o.five)
      BY <2>1, ReadingsOrderly
    <3> QED BY <3>1, <3>2
  <2>2. CASE o.five = None
    <3>1. InEpoch(o.time, p.five) \/ o.time >= p.five.reset
      BY <2>2 DEF DeadlinesKept, Given
    <3> QED BY <1>1, <1>2, <3>1 DEF InEpoch
  <2> QED BY <2>1, <2>2
<1>4. ASSUME NEW q \in items, q.five # None, Alongside(p, q)
      PROVE  InEpoch(o.time, q.five)
  <2>1. /\ q.five.reset \in Int /\ q.five.length = FiveHours
        /\ InEpoch(p.time, q.five)
    BY <1>4, ReadingsOrderly DEF Alongside
  <2>2. \/ InEpoch(o.time, q.five)
        \/ o.five # None /\ Earlier(o.five, q.five)
        \/ o.time >= q.five.reset
    BY <1>4 DEF DeadlinesKept
  <2>3. o.five # None => o.five = p.five
    BY DEF Given
  <2>4. ~ Earlier(p.five, q.five)
    BY <1>1, <1>4, <2>1, ClassifierAssumption DEF InEpoch, Earlier, Store!EpochStart
  <2>5. ~ (o.time >= q.five.reset)
    BY <1>1, <1>2, <2>1 DEF InEpoch
  <2> QED BY <2>2, <2>3, <2>4, <2>5
<1> QED BY <1>2, <1>3, <1>4

LEMMA ItemsOrderly ==
  ASSUME DeadlinesKept, NEW items \in SUBSET Readings(Records), IsFiniteSet(items)
  PROVE  OrderlyItems(Items(items)) /\ IsFiniteSet(Items(items))
<1> DEFINE made == [o \in items |-> Store!Backfilled(o, items)]
<1>1. \A o \in items : /\ made[o].id = o.id /\ made[o].time = o.time
                       /\ o.id \in Int /\ o.time \in Int
  BY BackfilledIs, ReadingFacts
<1>2. \A o \in items, p \in items : o.id = p.id => o = p
  BY ReadingFacts
<1>3. ASSUME NEW o \in items, made[o].five # None
      PROVE  \E p \in items : Given(made[o], o, p)
  BY <1>1, <1>3, BackfilledIs DEF Given
<1>4. \A o \in items, p \in items :
        Store!Before(o, p) /\ p.five # None => made[o].five # None
  BY KnownAhead
<1>5. IsFiniteSet(Items(items))
  <2>1. made \in Surjection(items, Items(items))
    BY DEF Surjection, Items
  <2> QED BY <2>1, FS_Surjection
<1>6. \A b \in Items(items) : \E o \in items : b = made[o]
  BY DEF Items
<1> HIDE DEF made
<1>7. Stamped(Items(items))
  BY <1>1, <1>2, <1>6 DEF Stamped
<1>8. ASSUME NEW b \in Items(items), b.five # None
      PROVE  \E o \in items, p \in items : Given(b, o, p)
  <2>1. PICK o \in items : b = made[o]
    BY <1>6
  <2> QED BY <1>3, <1>8, <2>1
<1>9. ASSUME NEW b \in Items(items), b.five # None
       PROVE  /\ b.five.length = FiveHours /\ b.five.reset \in Int
              /\ InEpoch(b.time, b.five)
  <2>1. PICK o \in items, p \in items : Given(b, o, p)
    BY <1>8, <1>9
  <2>2. InEpoch(o.time, p.five)
    BY <2>1, GivenFacts
  <2>3. p.five.length = FiveHours /\ p.five.reset \in Int
    BY <2>1, ReadingsOrderly DEF Given
  <2> QED BY <2>1, <2>2, <2>3 DEF Given
<1>10. ASSUME NEW b \in Items(items), NEW c \in Items(items), b.five # None, c.five # None
       PROVE  \/ Alongside(b, c) /\ WithinJitter(b.five.reset, c.five.reset)
              \/ Earlier(b.five, c.five)
              \/ Earlier(c.five, b.five)
  <2>1. PICK o \in items, p \in items : Given(b, o, p)
    BY <1>8, <1>10
  <2>2. PICK r \in items, q \in items : Given(c, r, q)
    BY <1>8, <1>10
  <2>3. /\ b.five = p.five /\ c.five = q.five /\ b.time = o.time /\ c.time = r.time
        /\ p.five # None /\ q.five # None
    BY <2>1, <2>2 DEF Given
  <2>4. CASE Earlier(p.five, q.five) \/ Earlier(q.five, p.five)
    BY <2>3, <2>4
  <2>5. CASE Alongside(p, q) /\ WithinJitter(p.five.reset, q.five.reset)
    <3>1. Alongside(q, p)
      BY <2>5 DEF Alongside
    <3>2. InEpoch(o.time, q.five)
      BY <2>1, <2>3, <2>5, GivenFacts
    <3>3. InEpoch(r.time, p.five)
      BY <2>2, <2>3, <3>1, GivenFacts
    <3> QED BY <2>3, <2>5, <3>2, <3>3 DEF Alongside
  <2> QED BY <2>3, <2>4, <2>5, ReadingsOrderly
<1>11. ASSUME NEW b \in Items(items), NEW c \in Items(items),
              Store!Before(b, c), c.five # None
       PROVE  b.five # None
  <2>1. PICK o \in items : b = made[o]
    BY <1>6
  <2>2. PICK r \in items, q \in items : Given(c, r, q)
    BY <1>8, <1>11
  <2>3. Store!Before(o, q)
    BY <1>1, <1>11, <2>1, <2>2 DEF Store!Before, Given
  <2> QED BY <1>4, <2>1, <2>2, <2>3 DEF Given
<1>12. Items(items) \subseteq Observations
  BY BackfilledIs DEF Items
<1> QED BY <1>5, <1>7, <1>9, <1>10, <1>11, <1>12 DEF OrderlyItems
-----------------------------------------------------------------------------
(* One step of a replay whose windows all end five hours after their start. *)

Standard(w) ==
  /\ w.start \in Int
  /\ w.end = w.start + FiveHours
  /\ w.calibration = InitCalibration

LEMMA BoundsStandard ==
  ASSUME Regular, NEW x, x.time \in Int, NEW kind,
         x.five # None => /\ x.five.length = FiveHours /\ x.five.reset \in Int
                          /\ InEpoch(x.time, x.five)
  PROVE  LET bounds == Store!Bounds(x, kind)
         IN  /\ bounds.start \in Int /\ bounds.end = bounds.start + FiveHours
             /\ x.five # None /\ kind # "local_expiry" => bounds.end = x.five.reset
<1>1. x.five # None =>
        Store!ServerEpochBounds(x) = [start |-> x.five.reset - FiveHours, end |-> x.five.reset]
  BY ClassifierAssumption
     DEF Store!ServerEpochBounds, Store!FitsEpoch, Store!EpochStart, InEpoch
<1>2. x.five = None => Store!ServerEpochBounds(x) = None
  BY DEF Store!ServerEpochBounds
<1>3. Store!Bounds(x, kind) =
        IF kind = "local_expiry" \/ x.five = None
        THEN [start |-> x.time, end |-> x.time + FiveHours]
        ELSE [start |-> x.five.reset - FiveHours, end |-> x.five.reset]
  <2>1. x.five # None => Store!ServerEpochBounds(x) \in [start : Int, end : Int]
    BY <1>1, ClassifierAssumption
  <2>2. x.five # None => Store!ServerEpochBounds(x) # None
    BY <2>1, DisplayAssumption
  <2> QED BY <1>1, <1>2, <2>2 DEF Regular, Store!Bounds
<1> QED BY <1>3, ClassifierAssumption

LEMMA NewWindowStandard ==
  ASSUME Regular, NEW x, x.time \in Int,
         x.five # None => /\ x.five.length = FiveHours /\ x.five.reset \in Int
                          /\ InEpoch(x.time, x.five),
         NEW kind, NEW boundary, NEW points,
         NEW preserved, \A w \in preserved : Standard(w)
  PROVE  LET w == Store!NewWindow(x, kind, boundary, points, preserved, InitCalibration)
         IN  /\ w = Store!NewWindow(x, kind, boundary, points, {}, InitCalibration)
             /\ Standard(w)
             /\ x.five # None /\ kind # "local_expiry" => w.end = x.five.reset
<1> DEFINE bounds == Store!Bounds(x, kind)
           kept(rows) == {w \in rows : w.start = bounds.start}
           old(rows) == CHOOSE w \in kept(rows) : TRUE
           server == IF x.five = None THEN None ELSE x.time
           Row(e, c) == [start       |-> bounds.start,
                         end         |-> e,
                         latest      |-> x.time,
                         used        |-> x.weekly.used,
                         weeklyReset |-> x.weekly.reset,
                         server      |-> server,
                         points      |-> points,
                         milestone   |-> Store!Milestone(points, c),
                         calibration |-> c,
                         kind        |-> kind,
                         boundary    |-> boundary,
                         lifecycle   |-> "archived"]
<1>1. ASSUME NEW rows
      PROVE  Store!NewWindow(x, kind, boundary, points, rows, InitCalibration)
               = Row(IF kept(rows) = {} THEN bounds.end ELSE old(rows).end,
                     IF kept(rows) = {} THEN InitCalibration ELSE old(rows).calibration)
  BY Zenon DEF Store!NewWindow
<1>2. /\ bounds.start \in Int /\ bounds.end = bounds.start + FiveHours
      /\ x.five # None /\ kind # "local_expiry" => bounds.end = x.five.reset
  <2> HIDE DEF bounds
  <2> QED BY BoundsStandard DEF bounds
<1>3. ASSUME NEW rows, \A w \in rows : Standard(w)
      PROVE  Store!NewWindow(x, kind, boundary, points, rows, InitCalibration)
               = Row(bounds.end, InitCalibration)
  <2>1. CASE kept(rows) = {}
    BY <1>1, <2>1
  <2>2. CASE kept(rows) # {}
    <3>1. old(rows) \in kept(rows)
      BY <2>2
    <3> HIDE DEF old
    <3>2. Standard(old(rows)) /\ old(rows).start = bounds.start
      BY <1>3, <3>1
    <3>3. old(rows).end = bounds.end /\ old(rows).calibration = InitCalibration
      BY <1>2, <3>2 DEF Standard
    <3> HIDE DEF bounds, Row
    <3> QED BY <1>1, <2>2, <3>3
  <2> QED BY <2>1, <2>2
<1>4. Standard(Row(bounds.end, InitCalibration)) /\ Row(bounds.end, InitCalibration).end = bounds.end
  <2> HIDE DEF bounds, server
  <2> QED BY <1>2 DEF Standard
<1> HIDE DEF Row, bounds, kept, old
<1> QED BY <1>2, <1>3, <1>4

\* classify_reset of two readings with known five-hour deadlines: unless the
\* reading is of an old epoch, a deadline that moved counts as a change.
LEMMA KnownDeadlines ==
  ASSUME NEW q, NEW x,
         q.five # None, q.five.length = FiveHours, q.five.reset \in Int,
         x.five # None, x.five.length = FiveHours, x.five.reset \in Int,
         Store!ClassifyReset(q, x).class # "old_epoch"
  PROVE  LET decision == Store!ClassifyReset(q, x)
         IN  /\ x.five.reset - q.five.reset >= -Jitter
             /\ ~ WithinJitter(x.five.reset, q.five.reset) =>
                  /\ decision.class \in {"natural_five_hour", "inferred_full", "ambiguous"}
                  /\ \/ decision.boundary = None
                     \/ decision.boundary
                          = Store!Least(Store!Greatest(x.five.reset - FiveHours, q.time), x.time)
<1> DEFINE five == Store!CompareWindow(q.five, x.five, FiveHours)
           weekly == Store!CompareWindow(q.weekly, x.weekly, Week)
           fiveStart == IF five = "changed" THEN Store!EpochStart(x.five) ELSE None
           weeklyStart == IF weekly = "changed" THEN Store!EpochStart(x.weekly) ELSE None
           fn == Store!ChangeIsNatural(q.five, fiveStart, x.time)
           wn == Store!ChangeIsNatural(q.weekly, weeklyStart, x.time)
           class == Store!ClassOf(five, weekly, fiveStart, weeklyStart, fn, wn)
<1>1. Store!ClassifyReset(q, x)
        = [class    |-> class[1],
           boundary |-> Store!ClampBoundary(class[2], q.time, x.time)]
  BY Zenon DEF Store!ClassifyReset
<1>2. q.five.reset # None /\ x.five.reset # None
  BY ClassifierAssumption
<1>3. five = IF x.five.reset - q.five.reset < -Jitter THEN "old"
             ELSE IF Store!WithinJitter(x.five.reset, q.five.reset) THEN "same"
             ELSE "changed"
  BY <1>2, Zenon DEF Store!CompareWindow
<1>4. five = "changed" => fiveStart = x.five.reset - FiveHours
  BY <1>2 DEF Store!EpochStart
<1> HIDE DEF fn, wn, weekly, weeklyStart, five, fiveStart
<1>5. class[1] # "old_epoch"
  <2> HIDE DEF class
  <2> QED BY <1>1
<1>6. five # "old"
  BY <1>5 DEF Store!ClassOf
<1>7. x.five.reset - q.five.reset >= -Jitter
  BY <1>3, <1>6, ClassifierAssumption
<1>8. CASE five = "changed"
  <2>1. \/ class = <<"ambiguous", None>>
        \/ \E c \in {"natural_five_hour", "inferred_full", "ambiguous"} :
             class = <<c, fiveStart>>
    BY <1>5, <1>8 DEF Store!ClassOf
  <2> HIDE DEF class
  <2>2. class[1] \in {"natural_five_hour", "inferred_full", "ambiguous"}
        /\ class[2] \in {None, fiveStart}
    BY <2>1
  <2>3. x.five.reset - FiveHours # None
    BY ClassifierAssumption
  <2>4. \/ Store!ClampBoundary(class[2], q.time, x.time) = None
        \/ Store!ClampBoundary(class[2], q.time, x.time)
             = Store!Least(Store!Greatest(x.five.reset - FiveHours, q.time), x.time)
    BY <1>4, <1>8, <2>2, <2>3, Zenon DEF Store!ClampBoundary
  <2>5. /\ Store!ClassifyReset(q, x).class = class[1]
        /\ Store!ClassifyReset(q, x).boundary
             = Store!ClampBoundary(class[2], q.time, x.time)
    BY <1>1
  <2> QED BY <1>7, <2>2, <2>4, <2>5
<1>9. CASE five # "changed"
  BY <1>3, <1>6, <1>7, <1>9 DEF Store!WithinJitter, WithinJitter
<1> QED BY <1>8, <1>9

\* The items of one epoch are alongside one another; an item of a later epoch
\* starts it no earlier than the deadline of any of them.
LEMMA SameOrLater ==
  ASSUME Jitter < FiveHours, NEW S, OrderlyItems(S),
         NEW y \in S, NEW q \in S, NEW x \in S,
         y.five # None, q.five # None, x.five # None, Alongside(y, q),
         x.five.reset - q.five.reset >= -Jitter
  PROVE  /\ WithinJitter(x.five.reset, q.five.reset) => Alongside(y, x)
         /\ ~ WithinJitter(x.five.reset, q.five.reset) => Earlier(y.five, x.five)
<1>1. ASSUME NEW b \in S, b.five # None
      PROVE  /\ b.five.reset \in Int /\ b.time \in Int
             /\ Store!EpochStart(b.five) = b.five.reset - FiveHours
             /\ InEpoch(b.time, b.five)
  BY <1>1, ClassifierAssumption DEF OrderlyItems, Stamped, Store!EpochStart
<1> DEFINE Y == y.five.reset
           Q == q.five.reset
           X == x.five.reset
<1>2. /\ Y \in Int /\ Q \in Int /\ X \in Int
      /\ y.time \in Int /\ q.time \in Int /\ x.time \in Int
      /\ Store!EpochStart(y.five) = Y - FiveHours
      /\ Store!EpochStart(q.five) = Q - FiveHours
      /\ Store!EpochStart(x.five) = X - FiveHours
  BY <1>1
<1>3. /\ Q - FiveHours <= y.time /\ y.time < Q
      /\ Y - FiveHours <= q.time /\ q.time < Y
      /\ Q - FiveHours <= q.time /\ q.time < Q
      /\ X - FiveHours <= x.time /\ x.time < X
  BY <1>1, <1>2 DEF Alongside, InEpoch
<1>4. \/ X - FiveHours <= q.time /\ q.time < X /\ X - Q <= Jitter /\ Q - X <= Jitter
      \/ Q <= X - FiveHours
      \/ X <= Q - FiveHours
  BY <1>2 DEF OrderlyItems, Alongside, InEpoch, Earlier, WithinJitter
<1>5. \/ Alongside(y, x) /\ X - FiveHours <= y.time /\ y.time < X
      \/ Y <= X - FiveHours
      \/ X <= Y - FiveHours
  BY <1>2 DEF OrderlyItems, Alongside, InEpoch, Earlier
<1>6. WithinJitter(X, Q) <=> X - Q <= Jitter /\ Q - X <= Jitter
  BY DEF WithinJitter
<1>7. Earlier(y.five, x.five) <=> Y <= X - FiveHours
  BY <1>2 DEF Earlier
<1>8. Jitter \in Nat /\ FiveHours \in Nat
  BY ClassifierAssumption
<1> HIDE DEF Y, Q, X
<1>9. /\ X - Q <= Jitter /\ Q - X <= Jitter => Alongside(y, x)
      /\ ~ (X - Q <= Jitter /\ Q - X <= Jitter) => Y <= X - FiveHours
  BY <1>2, <1>3, <1>4, <1>5, <1>8 DEF X, Q
<1> QED BY <1>6, <1>7, <1>9 DEF X, Q

\* Every window so far ends five hours after its start and, while the last
\* metered item knows its deadline, at the deadline of an item alongside it.
Steady(replay, done) ==
  /\ \A w \in replay.closed : Standard(w)
  /\ replay.current # None => Standard(replay.current) /\ replay.previous # None
  /\ replay.previous # None => replay.previous \in done
  /\ replay.current # None /\ replay.previous.five # None =>
       \E y \in done : /\ y.five # None
                       /\ Alongside(y, replay.previous)
                       /\ replay.current.end = y.five.reset

\* The next item either keeps to the deadline of the current window or splits
\* it at a boundary which lies past its end, and leaves that end alone.
LEMMA NextDeadline ==
  ASSUME Regular, NEW S, OrderlyItems(S), NEW done \in SUBSET S, NEW x \in S,
         \A y \in done : Store!Before(y, x),
         NEW replay, Tidy(replay), Steady(replay, done), replay.current # None,
         Store!Decision(replay, x).class # "old_epoch"
  PROVE  /\ Store!ServerSplit(replay, x) =>
              Standard(Store!Shortened(replay.current, Store!Decision(replay, x).boundary))
         /\ ~ Store!ServerSplit(replay, x) /\ x.five # None =>
              \E y \in done : /\ y.five # None
                              /\ Alongside(y, x)
                              /\ replay.current.end = y.five.reset
<1> DEFINE q == replay.previous
           w == replay.current
           decision == Store!Decision(replay, x)
<1>1. q # None /\ q \in done /\ Store!Before(q, x) /\ Standard(w)
  BY DEF Steady
<1>2. decision = Store!ClassifyReset(q, x)
  BY <1>1, Zenon DEF Store!Decision
<1>3. Store!FiveChanged(q, x) <=>
        /\ q.five # None /\ x.five # None
        /\ ~ Store!SameEpoch(q.five.reset, x.five.reset)
  BY <1>1 DEF Store!FiveChanged
<1>4. Store!ServerSplit(replay, x) <=>
        /\ Store!FiveChanged(q, x)
        /\ decision.class \in {"natural_five_hour", "inferred_full", "ambiguous"}
  BY DEF Store!ServerSplit
<1>5. x.five # None => q.five # None
  BY <1>1 DEF OrderlyItems
<1> HIDE DEF decision
<1>6. ASSUME x.five # None
      PROVE  \E y \in done :
               /\ y.five # None /\ w.end = y.five.reset
               /\ WithinJitter(x.five.reset, q.five.reset) => Alongside(y, x)
               /\ ~ WithinJitter(x.five.reset, q.five.reset) =>
                    /\ Earlier(y.five, x.five)
                    /\ decision.class \in {"natural_five_hour", "inferred_full", "ambiguous"}
                    /\ \/ decision.boundary = None
                       \/ decision.boundary
                            = Store!Least(Store!Greatest(x.five.reset - FiveHours, q.time), x.time)
  <2>1. PICK y \in done : /\ y.five # None /\ Alongside(y, q)
                          /\ w.end = y.five.reset
    BY <1>5, <1>6 DEF Steady
  <2>2. /\ q.five.length = FiveHours /\ q.five.reset \in Int
        /\ x.five.length = FiveHours /\ x.five.reset \in Int
    BY <1>1, <1>5, <1>6 DEF OrderlyItems
  <2>3. /\ x.five.reset - q.five.reset >= -Jitter
        /\ ~ WithinJitter(x.five.reset, q.five.reset) =>
                    /\ decision.class \in {"natural_five_hour", "inferred_full", "ambiguous"}
                    /\ \/ decision.boundary = None
                       \/ decision.boundary
                            = Store!Least(Store!Greatest(x.five.reset - FiveHours, q.time), x.time)
    <3>1. Store!ClassifyReset(q, x).class # "old_epoch"
      BY <1>2 DEF decision
    <3> HIDE DEF q
    <3> QED BY <1>2, <1>5, <1>6, <2>2, <3>1, KnownDeadlines
  <2>4. /\ WithinJitter(x.five.reset, q.five.reset) => Alongside(y, x)
        /\ ~ WithinJitter(x.five.reset, q.five.reset) => Earlier(y.five, x.five)
    <3> HIDE DEF q
    <3>1. y \in S /\ q \in S /\ Jitter < FiveHours
      BY <1>1 DEF Regular
    <3> QED BY <1>5, <1>6, <2>1, <2>3, <3>1, SameOrLater
  <2> QED BY <2>1, <2>3, <2>4
<1>7. /\ x.five # None => x.five.reset \in Int /\ q.five.reset \in Int
      /\ None \notin Int
  BY <1>1, <1>5, ClassifierAssumption DEF OrderlyItems
<1>8. x.five # None =>
        (Store!SameEpoch(q.five.reset, x.five.reset)
           <=> WithinJitter(x.five.reset, q.five.reset))
  BY <1>7 DEF Store!SameEpoch, Store!WithinJitter, WithinJitter
<1>9. ASSUME Store!ServerSplit(replay, x)
      PROVE  Standard(Store!Shortened(w, decision.boundary))
  <2>1. x.five # None /\ ~ WithinJitter(x.five.reset, q.five.reset)
    BY <1>3, <1>4, <1>8, <1>9
  <2>2. PICK y \in done :
          /\ y.five # None /\ w.end = y.five.reset
          /\ Earlier(y.five, x.five)
          /\ \/ decision.boundary = None
             \/ decision.boundary
                  = Store!Least(Store!Greatest(x.five.reset - FiveHours, q.time), x.time)
    BY <1>6, <2>1
  <2>3. /\ y.five.reset \in Int /\ x.five.reset \in Int /\ x.time \in Int /\ q.time \in Int
        /\ Store!EpochStart(x.five) = x.five.reset - FiveHours
        /\ Store!EpochStart(x.five) <= x.time
        /\ y.five.reset <= Store!EpochStart(x.five)
    BY <1>1, <2>1, <2>2, ClassifierAssumption
       DEF OrderlyItems, Stamped, InEpoch, Earlier, Store!EpochStart
  <2>4. decision.boundary # None =>
          decision.boundary \in Int /\ w.end <= decision.boundary
    BY <2>2, <2>3, ClassifierAssumption DEF Store!Least, Store!Greatest
  <2>5. w.start \in Int /\ w.end \in Int /\ w.start <= w.end
    BY <1>1, ClassifierAssumption DEF Standard
  <2>6. CASE decision.boundary = None
    BY <1>1, <2>6 DEF Store!Shortened
  <2>7. CASE decision.boundary # None
    <3> DEFINE e == Store!Least(Store!Greatest(decision.boundary, w.start), w.end)
    <3>1. e = w.end
      <4> DEFINE b == decision.boundary
                 g == Store!Greatest(b, w.start)
      <4>1. b \in Int /\ w.end <= b
        BY <2>4, <2>7
      <4>2. g = b
        BY <2>5, <4>1 DEF Store!Greatest
      <4> HIDE DEF g
      <4>3. Store!Least(g, w.end) = w.end
        BY <2>5, <4>1, <4>2 DEF Store!Least
      <4> QED BY <4>3 DEF g
    <3>2. Store!Shortened(w, decision.boundary) = [w EXCEPT !.end = e]
      BY <2>7, Zenon DEF Store!Shortened
    <3>3. IsRow(w)
      BY DEF Tidy
    <3>4. [w EXCEPT !.end = w.end] = w
      BY <3>3 DEF IsRow, RowFields
    <3> HIDE DEF e, w
    <3> QED BY <1>1, <3>1, <3>2, <3>4
  <2> QED BY <2>6, <2>7
<1>10. ASSUME ~ Store!ServerSplit(replay, x), x.five # None
       PROVE  \E y \in done : /\ y.five # None
                              /\ Alongside(y, x)
                              /\ w.end = y.five.reset
  <2>1. PICK y \in done :
          /\ y.five # None /\ w.end = y.five.reset
          /\ WithinJitter(x.five.reset, q.five.reset) => Alongside(y, x)
          /\ ~ WithinJitter(x.five.reset, q.five.reset) =>
               decision.class \in {"natural_five_hour", "inferred_full", "ambiguous"}
    BY <1>6, <1>10
  <2>2. WithinJitter(x.five.reset, q.five.reset)
    BY <1>3, <1>4, <1>5, <1>8, <1>10, <2>1
  <2> QED BY <2>1, <2>2
<1> QED BY <1>9, <1>10 DEF decision

\* One item of the replay: the rows that are in the table make no difference.
LEMMA SteadyStep ==
  ASSUME Regular, NEW S, OrderlyItems(S), NEW done \in SUBSET S, NEW x \in S,
         \A y \in done : Store!Before(y, x),
         NEW replay, Tidy(replay), Steady(replay, done),
         NEW preserved, \A w \in preserved : Standard(w)
  PROVE  LET next == Store!ReplayItem(replay, x, preserved, InitCalibration)
         IN  /\ next = Store!ReplayItem(replay, x, {}, InitCalibration)
             /\ Steady(next, done \cup {x})
<1> DEFINE After(rows) == Store!ReplayItem(replay, x, rows, InitCalibration)
           Open(rows) == Store!OpenWindow(replay, x, rows, InitCalibration)
           ignored == Store!Ignore(replay, x)
           split == Store!ServerSplit(replay, x)
           expiry == Store!LocalExpiry(replay, x)
           decision == Store!Decision(replay, x)
           delta == Store!WeeklyDelta(replay.current.used, replay.current.weeklyReset,
                                      x.weekly.used, x.weekly.reset)
<1>1. ASSUME NEW rows
      PROVE  After(rows) = IF decision.class = "old_epoch" THEN ignored
                          ELSE IF replay.current = None \/ split \/ expiry THEN Open(rows)
                          ELSE IF delta = None THEN ignored
                          ELSE Store!Accumulate(replay, x, delta)
  BY Zenon DEF Store!ReplayItem
<1>2. Steady(ignored, done \cup {x})
  <2> DEFINE e == Store!EventsWith(replay, x)
  <2>1. ignored = [replay EXCEPT !.events = e]
    BY Zenon DEF Store!Ignore
  <2> HIDE DEF e, ignored
  <2>2. /\ ignored.closed = replay.closed /\ ignored.current = replay.current
        /\ ignored.previous = replay.previous
    BY <2>1 DEF Tidy
  <2> QED BY <2>2 DEF Steady
<1>3. /\ x # None /\ x.time \in Int
      /\ x.five # None => /\ x.five.length = FiveHours /\ x.five.reset \in Int
                          /\ InEpoch(x.time, x.five)
  BY DisplayAssumption DEF OrderlyItems, Stamped
<1>4. decision.class # "old_epoch" /\ replay.current # None =>
        /\ split => Standard(Store!Shortened(replay.current, decision.boundary))
        /\ ~ split /\ x.five # None =>
             \E y \in done : /\ y.five # None
                             /\ Alongside(y, x)
                             /\ replay.current.end = y.five.reset
  BY NextDeadline
<1> HIDE DEF decision, split
<1>5. expiry <=> replay.current # None /\ ~ split /\ x.time >= replay.current.end
  BY DEF Store!LocalExpiry, split
<1>6. decision.class # "old_epoch" /\ expiry => x.five = None
  <2> SUFFICES ASSUME decision.class # "old_epoch", expiry, x.five # None PROVE FALSE
    OBVIOUS
  <2>1. PICK y \in done : y.five # None /\ Alongside(y, x) /\ replay.current.end = y.five.reset
    BY <1>4, <1>5
  <2>2. y.five.reset \in Int /\ x.time < y.five.reset
    BY <2>1 DEF OrderlyItems, Alongside, InEpoch
  <2> QED BY <1>3, <1>5, <2>1, <2>2
<1>7. ASSUME decision.class # "old_epoch"
      PROVE  Open(preserved) = Open({}) /\ Steady(Open(preserved), done \cup {x})
  <2> DEFINE kind == IF split THEN decision.class
                     ELSE IF expiry THEN "local_expiry"
                     ELSE IF x.five # None THEN "server_epoch"
                     ELSE "initial_observation"
             boundary == IF split /\ decision.boundary # None THEN decision.boundary
                         ELSE IF Store!ServerEpochBounds(x) # None
                              THEN Store!ServerEpochBounds(x).start
                         ELSE x.time
             points == IF split THEN Store!SeedAfterBoundary(replay.previous, x) ELSE 0
             closed == IF replay.current = None THEN replay.closed
                       ELSE replay.closed \cup
                              {IF split THEN Store!Shortened(replay.current, decision.boundary)
                               ELSE replay.current}
             e == Store!EventsWith(replay, x)
             Window(rows) == Store!NewWindow(x, kind, boundary, points, rows, InitCalibration)
  <2>1. ASSUME NEW rows
        PROVE  Open(rows) = [closed   |-> closed,
                             current  |-> Window(rows),
                             previous |-> x,
                             events   |-> e,
                             metered  |-> replay.metered \cup {x.id},
                             clash    |-> \/ replay.clash
                                          \/ \E w \in closed : w.start = Window(rows).start]
    BY Zenon DEF Store!OpenWindow, decision, split
  <2>2. /\ Window(preserved) = Window({})
        /\ Standard(Window(preserved))
        /\ x.five # None /\ kind # "local_expiry" => Window(preserved).end = x.five.reset
    <3> HIDE DEF kind, boundary, points
    <3> QED BY <1>3, NewWindowStandard
  <2>3. split => decision.class # "local_expiry"
    BY DEF Store!ServerSplit, split, decision
  <2>4. x.five # None => kind # "local_expiry"
    BY <1>6, <1>7, <2>3
  <2>5. \A w \in closed : Standard(w)
    BY <1>4, <1>7 DEF Steady
  <2>6. x.five # None => Alongside(x, x)
    BY <1>3 DEF Alongside
  <2> HIDE DEF kind, boundary, points, closed, e, Window, Open
  <2>7. Open(preserved) = Open({})
    BY <2>1, <2>2
  <2>8. /\ Open(preserved).closed = closed /\ Open(preserved).current = Window(preserved)
        /\ Open(preserved).previous = x
    BY <2>1
  <2>9. x.five # None => /\ x.five # None /\ Alongside(x, x)
                         /\ Open(preserved).current.end = x.five.reset
    BY <2>2, <2>4, <2>6, <2>8
  <2> QED BY <1>3, <2>2, <2>5, <2>7, <2>8, <2>9 DEF Steady
<1>8. ASSUME decision.class # "old_epoch", replay.current # None, ~ split
      PROVE  Steady(Store!Accumulate(replay, x, delta), done \cup {x})
  <2> DEFINE e == Store!EventsWith(replay, x)
             total == replay.current.points + delta
             server == IF x.five = None THEN replay.current.server ELSE x.time
             milestone == Store!Milestone(total, replay.current.calibration)
             row == Metered(replay.current, x.time, x.weekly.used,
                            x.weekly.reset, server, total, milestone)
             next == Store!Accumulate(replay, x, delta)
  <2>1. next = [replay EXCEPT !.current = row, !.previous = x, !.events = e,
                              !.metered = replay.metered \cup {x.id}]
    BY Zenon DEF Store!Accumulate, Metered
  <2>2. IsRow(replay.current) /\ Standard(replay.current)
    BY <1>8 DEF Tidy, Steady
  <2>3. Standard(row) /\ row.end = replay.current.end
    <3> HIDE DEF server, total, milestone
    <3> QED BY <2>2 DEF Metered, IsRow, RowFields, Standard
  <2>4. x.five # None => \E y \in done : /\ y.five # None
                                         /\ Alongside(y, x)
                                         /\ replay.current.end = y.five.reset
    BY <1>4, <1>8
  <2> HIDE DEF row, e, next
  <2>5. next.closed = replay.closed /\ next.current = row /\ next.previous = x
    BY <2>1 DEF Tidy
  <2>6. Steady(next, done \cup {x})
    BY <1>3, <2>3, <2>4, <2>5 DEF Steady
  <2> QED BY <2>6 DEF next
<1> HIDE DEF After, Open, ignored, expiry, delta
<1>9. After(preserved) = After({}) /\ Steady(After(preserved), done \cup {x})
  BY <1>1, <1>2, <1>7, <1>8
<1> QED BY <1>9 DEF After
-----------------------------------------------------------------------------
(* The replay of everything at once is a recursive function on finite sets. *)

FullStep(replay, x) == Store!ReplayItem(replay, x, {}, InitCalibration)

IsReplay(g, S) ==
  g = [done \in SUBSET S |->
         IF done = {} THEN Store!EmptyReplay
         ELSE FullStep(g[done \ {Store!LastOf(done)}], Store!LastOf(done))]

LEMMA LeastSubset ==
  ASSUME NEW S, IsFiniteSet(S), NEW F \in SUBSET (SUBSET S), F # {}
  PROVE  \E T \in F : \A U \in F : U \subseteq T => U = T
<1>1. IsWellFoundedOn(StrictSubsetOrdering(S), SUBSET S)
  BY FS_FiniteSubsetsOfFinite, FS_StrictSubsetOrderingWellFounded
<1>2. PICK T \in F : \A U \in F : <<U, T>> \notin StrictSubsetOrdering(S)
  BY <1>1, WFMin, Zenon
<1>3. \A U \in F : U \subseteq T => U = T
  BY <1>2 DEF StrictSubsetOrdering
<1> QED BY <1>3

LEMMA ReplayAt ==
  ASSUME NEW S, NEW g, IsReplay(g, S), NEW done \in SUBSET S
  PROVE  g[done] = IF done = {} THEN Store!EmptyReplay
                   ELSE FullStep(g[done \ {Store!LastOf(done)}], Store!LastOf(done))
BY DEF IsReplay

LEMMA LastMember ==
  ASSUME NEW S, IsFiniteSet(S), Stamped(S), NEW T \in SUBSET S, T # {}
  PROVE  Store!LastOf(T) \in T
<1>1. IsFiniteSet(T) /\ Stamped(T)
  BY FS_Subset DEF Stamped
<1> QED BY <1>1, ExtremeItems

LEMMA ReplayUnique ==
  ASSUME NEW S, IsFiniteSet(S), Stamped(S), NEW A \in SUBSET S, NEW B \in SUBSET S,
         NEW g, IsReplay(g, A), NEW h, IsReplay(h, B)
  PROVE  \A s \in SUBSET A : s \in SUBSET B => g[s] = h[s]
<1> DEFINE F == {s \in SUBSET S : s \in SUBSET A /\ s \in SUBSET B /\ g[s] # h[s]}
<1> SUFFICES ASSUME F # {} PROVE FALSE
  OBVIOUS
<1>1. PICK s \in F : \A u \in F : u \subseteq s => u = s
  <2>1. F \in SUBSET (SUBSET S)
    OBVIOUS
  <2> HIDE DEF F
  <2> QED BY <2>1, LeastSubset
<1> DEFINE last == Store!LastOf(s)
<1>2. /\ g[s] = IF s = {} THEN Store!EmptyReplay ELSE FullStep(g[s \ {last}], last)
      /\ h[s] = IF s = {} THEN Store!EmptyReplay ELSE FullStep(h[s \ {last}], last)
  BY ReplayAt
<1>3. s # {}
  BY <1>2
<1>4. last \in s
  BY <1>3, LastMember
<1> HIDE DEF last
<1>5. s \ {last} \notin F
  BY <1>1, <1>4
<1>6. g[s \ {last}] = h[s \ {last}]
  BY <1>5
<1> QED BY <1>2, <1>6

LEMMA ReplayExists ==
  ASSUME NEW S, IsFiniteSet(S), Stamped(S)
  PROVE  \E g : IsReplay(g, S)
<1> DEFINE F == {T \in SUBSET S : ~ \E g : IsReplay(g, T)}
<1> SUFFICES ASSUME F # {} PROVE FALSE
  OBVIOUS
<1>1. PICK T \in F : \A U \in F : U \subseteq T => U = T
  <2>1. F \in SUBSET (SUBSET S)
    OBVIOUS
  <2> HIDE DEF F
  <2> QED BY <2>1, LeastSubset
<1> DEFINE G(u) == CHOOSE g : IsReplay(g, u)
           Rest(u) == u \ {Store!LastOf(u)}
           h == [s \in SUBSET T |->
                   IF s = {} THEN Store!EmptyReplay
                   ELSE FullStep(G(Rest(s))[Rest(s)], Store!LastOf(s))]
<1>2. ASSUME NEW u \in SUBSET T, u # T
      PROVE  IsReplay(G(u), u)
  <2>1. u \notin F /\ u \in SUBSET S
    BY <1>1, <1>2
  <2> QED BY <2>1
<1>3. ASSUME NEW s \in SUBSET T, s # {}
      PROVE  Rest(s) \in SUBSET s /\ Rest(s) \in SUBSET T /\ Rest(s) # T
  <2>1. Store!LastOf(s) \in s
    BY <1>1, <1>3, LastMember
  <2> QED BY <2>1
<1>4. T \in SUBSET S /\ ~ \E g : IsReplay(g, T)
  OBVIOUS
<1> HIDE DEF G, F
<1>5. ASSUME NEW u \in SUBSET T, u # T
      PROVE  h[u] = G(u)[u]
  <2>1. /\ IsReplay(G(u), u)
        /\ G(u)[u] = IF u = {} THEN Store!EmptyReplay
                     ELSE FullStep(G(u)[Rest(u)], Store!LastOf(u))
    BY <1>2, <1>5, ReplayAt
  <2>2. CASE u = {}
    BY <2>1, <2>2
  <2>3. CASE u # {}
    <3> DEFINE w == Rest(u)
    <3>1. w \in SUBSET u /\ w \in SUBSET T /\ w # T
      BY <1>3, <2>3
    <3> HIDE DEF w
    <3>2. IsReplay(G(w), w) /\ u \in SUBSET S /\ w \in SUBSET S
      BY <1>2, <1>4, <1>5, <3>1
    <3>3. G(u)[w] = G(w)[w]
      <4>1. PICK a, b : a = G(u) /\ b = G(w)
        OBVIOUS
      <4>2. IsReplay(a, u) /\ IsReplay(b, w)
        BY <2>1, <3>2, <4>1
      <4>3. \A s \in SUBSET u : s \in SUBSET w => a[s] = b[s]
        BY <3>2, <4>2, ReplayUnique
      <4> QED BY <3>1, <4>1, <4>3
    <3> QED BY <2>1, <2>3, <3>3 DEF w
  <2> QED BY <2>2, <2>3
<1>6. IsReplay(h, T)
  <2>1. \A s \in SUBSET T :
          h[s] = IF s = {} THEN Store!EmptyReplay
                 ELSE FullStep(h[Rest(s)], Store!LastOf(s))
    BY <1>3, <1>5
  <2>2. h = [s \in SUBSET T |-> h[s]]
    OBVIOUS
  <2> HIDE DEF h
  <2> QED BY <2>1, <2>2 DEF IsReplay
<1> QED BY <1>4, <1>6

\* What ReplayUpTo gives for nothing, and for some of the items.
LEMMA ReplayLaws ==
  ASSUME NEW all, IsFiniteSet(all), Stamped(all)
  PROVE  LET after == Store!ReplayUpTo(all)
         IN  /\ after[{}] = Store!EmptyReplay
             /\ \A done \in SUBSET all : done # {} =>
                  after[done] = FullStep(after[done \ {Store!LastOf(done)}], Store!LastOf(done))
<1> DEFINE after == CHOOSE g : IsReplay(g, all)
<1>1. Store!ReplayUpTo(all) = after
  BY Zenon DEF Store!ReplayUpTo, IsReplay, FullStep
<1>2. IsReplay(after, all)
  BY ReplayExists
<1> HIDE DEF after
<1>3. after[{}] = Store!EmptyReplay
  BY <1>2, ReplayAt
<1>4. \A done \in SUBSET all : done # {} =>
        after[done] = FullStep(after[done \ {Store!LastOf(done)}], Store!LastOf(done))
  BY <1>2, ReplayAt
<1> QED BY <1>1, <1>3, <1>4
-----------------------------------------------------------------------------
(* Every rebuild of an untouched table is the replay of everything.         *)

LEMMA LastIs ==
  ASSUME NEW S, IsFiniteSet(S), Stamped(S), NEW x \in S,
         \A y \in S \ {x} : Store!Before(y, x)
  PROVE  Store!LastOf(S) = x
<1>1. /\ Store!LastOf(S) \in S
      /\ \A y \in S \ {Store!LastOf(S)} : Store!Before(y, Store!LastOf(S))
  BY ExtremeItems
<1> QED BY <1>1 DEF Stamped, Store!Before

\* No reset and no approval has written to the table yet.
Untouched == resets = {} /\ profile = InitCalibration

\* The rebuild has replayed the first items of those it replays, and has what
\* a replay of everything has after them.
Rebuilding ==
  LET all  == Items(tx.stored)
      done == all \ tx.todo
  IN  /\ tx.todo \subseteq all
      /\ \A x \in done, y \in tx.todo : Store!Before(x, y)
      /\ tx.replay = Store!ReplayUpTo(all)[done]
      /\ Steady(tx.replay, done)

IncrementalInv ==
  /\ IsFiniteSet(stored)
  /\ tx # None => IsFiniteSet(tx.stored)
  /\ Untouched => /\ windows = Store!FinalRows(Store!FullReplay(stored))
                  /\ \A w \in windows : Standard(w)
                  /\ tx # None => Rebuilding

LEMMA IncrementalInit ==
  ASSUME Regular, Init
  PROVE  IncrementalInv
<1>1. stored = {} /\ windows = {} /\ tx = None
  BY DEF Init, Store!Init
<1>2. IsFiniteSet({}) /\ Stamped({})
  BY FS_EmptySet DEF Stamped
<1>3. Store!ReplayUpTo({})[{}] = Store!EmptyReplay
  BY <1>2, ReplayLaws
<1>4. {Store!Backfilled(o, {}) : o \in {}} = {}
  OBVIOUS
<1>5. Store!FullReplay({}) = Store!ReplayUpTo({})[{}]
  BY <1>4, Zenon DEF Store!FullReplay
<1>6. Store!EmptyReplay.current = None
  BY DEF Store!EmptyReplay
<1>7. Store!FinalRows(Store!FullReplay(stored)) = {}
  BY <1>1, <1>3, <1>5, <1>6 DEF Store!FinalRows
<1> QED BY <1>1, <1>2, <1>7 DEF IncrementalInv

LEMMA IncrementalBegin ==
  ASSUME Regular, MeteredInv, IncrementalInv,
         NEW batch \in Batches, NEW now, BeginCall(batch, now)
  PROVE  IncrementalInv'
<1> DEFINE accepted == {r \in batch : Timely(r, now)}
           new == stored \cup Readings(accepted)
           all == Items(new)
<1>1. /\ tx' = [stored |-> new, todo |-> all, replay |-> Store!EmptyReplay]
      /\ UNCHANGED <<stored, windows, resets, profile>>
  BY DEF BeginCall, Store!BeginIngest, Store!tables, Items
<1>2. IsFiniteSet(new) /\ new \in SUBSET Readings(Records)
  <2>1. IsFiniteSet(Readings(accepted)) /\ Readings(accepted) \in Store!Batches
    BY ReadingsOfBatch
  <2>2. Readings(accepted) \subseteq Readings(Records)
    BY DEF Batches, Readings
  <2> HIDE DEF accepted
  <2> QED BY <2>1, <2>2, FS_Union DEF IncrementalInv, MeteredInv
<1> HIDE DEF new
<1>3. IsFiniteSet(all) /\ Stamped(all)
  BY <1>2, ItemsOrderly DEF OrderlyItems, Regular
<1> HIDE DEF all
<1>4. Store!ReplayUpTo(all)[{}] = Store!EmptyReplay
  BY <1>3, ReplayLaws
<1>5. Steady(Store!EmptyReplay, {})
  BY DEF Steady, Store!EmptyReplay
<1>6. all \ all = {}
  OBVIOUS
<1>7. tx'.stored = new /\ tx'.todo = all /\ tx'.replay = Store!EmptyReplay
  BY <1>1
<1>8. Rebuilding'
  BY <1>4, <1>5, <1>6, <1>7 DEF Rebuilding, all
<1>9. Untouched' => Untouched
  BY <1>1 DEF Untouched
<1>10. Store!FinalRows(Store!FullReplay(stored))'
         = Store!FinalRows(Store!FullReplay(stored))
  BY <1>1 DEF Store!FinalRows
<1> QED BY <1>1, <1>2, <1>7, <1>8, <1>9, <1>10 DEF IncrementalInv

LEMMA IncrementalReplay ==
  ASSUME Regular, MeteredInv, IncrementalInv, ReplayNext
  PROVE  IncrementalInv'
<1>1. PICK item \in tx.todo :
        /\ \A other \in tx.todo : item = other \/ Store!Before(item, other)
        /\ tx' = [tx EXCEPT !.todo = @ \ {item},
                            !.replay = Store!ReplayItem(@, item, windows, profile)]
  BY DEF ReplayNext, Store!ReplayNext
<1>2. /\ tx # None /\ OpenTransaction
      /\ UNCHANGED <<stored, windows, resets, profile>>
  BY DEF ReplayNext, Store!ReplayNext, Store!tables, MeteredInv
<1> DEFINE all  == Items(tx.stored)
           done == all \ tx.todo
           next == Store!ReplayItem(tx.replay, item, windows, profile)
<1>3. tx' = [stored |-> tx.stored, todo |-> tx.todo \ {item}, replay |-> next]
  <2> HIDE DEF next
  <2> QED BY <1>1, <1>2 DEF OpenTransaction, next
<1>4. IsFiniteSet(tx.stored) /\ Tidy(tx.replay) /\ tx.stored \in SUBSET Readings(Records)
  BY <1>2 DEF IncrementalInv, OpenTransaction
<1>5. OrderlyItems(all) /\ IsFiniteSet(all) /\ Stamped(all)
  BY <1>4, ItemsOrderly DEF OrderlyItems, Regular
<1>6. ASSUME Untouched PROVE Rebuilding'
  <2>1. /\ tx.todo \subseteq all
        /\ \A x \in done, y \in tx.todo : Store!Before(x, y)
        /\ tx.replay = Store!ReplayUpTo(all)[done]
        /\ Steady(tx.replay, done)
        /\ \A w \in windows : Standard(w)
        /\ profile = InitCalibration
    BY <1>2, <1>6 DEF IncrementalInv, Rebuilding, Untouched
  <2>2. done \in SUBSET all /\ item \in all /\ item \notin done
        /\ done \cup {item} \in SUBSET all
        /\ (done \cup {item}) \ {item} = done
        /\ all \ (tx.todo \ {item}) = done \cup {item}
        /\ \A y \in done : Store!Before(y, item)
    BY <1>1, <2>1
  <2> HIDE DEF all, done
  <2>3. /\ next = FullStep(tx.replay, item)
        /\ Steady(next, done \cup {item})
    BY <1>4, <1>5, <2>1, <2>2, SteadyStep DEF FullStep
  <2> HIDE DEF next
  <2>4. Store!LastOf(done \cup {item}) = item
    <3>1. IsFiniteSet(done \cup {item}) /\ Stamped(done \cup {item})
      BY <1>5, <2>2, FS_Subset DEF Stamped
    <3> QED BY <2>2, <3>1, LastIs
  <2>5. Store!ReplayUpTo(all)[done \cup {item}]
          = FullStep(Store!ReplayUpTo(all)[done], item)
    <3>1. done \cup {item} # {}
      OBVIOUS
    <3> QED BY <1>5, <2>2, <2>4, <3>1, ReplayLaws
  <2>6. \A x \in done \cup {item}, y \in tx.todo \ {item} : Store!Before(x, y)
    BY <1>1, <2>1
  <2>7. /\ tx'.stored = tx.stored /\ tx'.todo = tx.todo \ {item} /\ tx'.replay = next
    BY <1>3
  <2> QED BY <2>1, <2>2, <2>3, <2>5, <2>6, <2>7 DEF Rebuilding, all
<1>7. Untouched' => Untouched
  BY <1>2 DEF Untouched
<1>8. Store!FinalRows(Store!FullReplay(stored))'
        = Store!FinalRows(Store!FullReplay(stored))
  BY <1>2 DEF Store!FinalRows
<1>9. tx'.stored = tx.stored
  BY <1>3
<1> QED BY <1>2, <1>4, <1>6, <1>7, <1>8, <1>9 DEF IncrementalInv

LEMMA IncrementalCommit ==
  ASSUME Regular, MeteredInv, IncrementalInv, Commit
  PROVE  IncrementalInv'
<1>1. /\ tx # None /\ OpenTransaction /\ tx.todo = {} /\ tx' = None
      /\ stored' = tx.stored
      /\ windows' = Store!FinalRows(tx.replay)
      /\ UNCHANGED <<resets, profile>>
  BY DEF Commit, Store!CommitIngest, Store!Replayed, MeteredInv
<1>2. IsFiniteSet(stored')
  BY <1>1 DEF IncrementalInv
<1> DEFINE all == Items(tx.stored)
<1>3. ASSUME Untouched
      PROVE  /\ windows' = Store!FinalRows(Store!FullReplay(stored))'
             /\ \A w \in windows' : Standard(w)
  <2>1. tx.replay = Store!ReplayUpTo(all)[all] /\ Steady(tx.replay, all)
    BY <1>1, <1>3 DEF IncrementalInv, Rebuilding
  <2>2. Store!FullReplay(tx.stored) = Store!ReplayUpTo(all)[all]
    BY Zenon DEF Store!FullReplay, Items
  <2>3. windows' = Store!FinalRows(Store!FullReplay(stored))'
    BY <1>1, <2>1, <2>2 DEF Store!FinalRows
  <2> DEFINE replay == tx.replay
             last == [replay.current EXCEPT !.lifecycle = "current"]
  <2>4. windows' = IF replay.current = None THEN {} ELSE replay.closed \cup {last}
    BY <1>1, <1>3, Zenon DEF Store!FinalRows, Untouched
  <2>5. replay.current # None => Standard(last)
    <3>1. replay.current # None => IsRow(replay.current) /\ Standard(replay.current)
      BY <1>1, <2>1 DEF OpenTransaction, Tidy, Steady
    <3> HIDE DEF replay
    <3> QED BY <3>1 DEF IsRow, RowFields, Standard
  <2> HIDE DEF last
  <2>6. \A w \in windows' : Standard(w)
    BY <2>1, <2>4, <2>5 DEF Steady
  <2> QED BY <2>3, <2>6
<1>4. Untouched' => Untouched
  BY <1>1 DEF Untouched
<1> QED BY <1>1, <1>2, <1>3, <1>4 DEF IncrementalInv

LEMMA IncrementalStep ==
  ASSUME Regular
  PROVE  MeteredInv /\ IncrementalInv /\ [Next]_vars => IncrementalInv'
<1> SUFFICES ASSUME MeteredInv, IncrementalInv, [Next]_vars PROVE IncrementalInv'
  OBVIOUS
<1>1. CASE \E batch \in Batches, now \in Now : BeginCall(batch, now)
  BY <1>1, IncrementalBegin
<1>2. CASE ReplayNext
  BY <1>2, IncrementalReplay
<1>3. CASE Commit
  BY <1>3, IncrementalCommit
<1>4. CASE Rollback
  <2>1. tx' = None /\ UNCHANGED <<stored, windows, resets, profile>>
    BY <1>4 DEF Rollback, Store!AbortIngest, Store!CrashInTransaction, Store!tables
  <2> QED BY <2>1 DEF IncrementalInv, Untouched, Store!FinalRows
<1>5. CASE \E now \in Now : Reset(now)
  <2>1. resets' # {} /\ tx' = None /\ stored' = stored
    BY <1>5 DEF Reset, Store!ManualReset
  <2> QED BY <2>1 DEF IncrementalInv, Untouched
<1>6. CASE \E value \in Calibrations : ApplyCalibration(value)
  <2>1. profile' # InitCalibration /\ tx' = None /\ stored' = stored
    BY <1>6 DEF ApplyCalibration, Store!ApplyCalibration, Regular
  <2> QED BY <2>1 DEF IncrementalInv, Untouched
<1>7. CASE \/ Tick
           \/ \E now \in Now : Recover(now)
           \/ \E now \in owed : Project(now) \/ GiveUp(now)
           \/ LoseDisplay
           \/ UNCHANGED vars
  <2>1. UNCHANGED <<stored, windows, resets, profile, tx>>
    BY <1>7 DEF Tick, Recover, Project, GiveUp, LoseDisplay, vars, table, shown,
       Store!Tick, Store!tables
  <2> QED BY <2>1 DEF IncrementalInv, Untouched, Rebuilding, Store!FinalRows
<1> QED BY <1>1, <1>2, <1>3, <1>4, <1>5, <1>6, <1>7 DEF Next

\* However the records are split among calls, in whatever order the calls come
\* and whatever is rolled back: as long as the server keeps the deadlines it
\* gives, the local window is as long as the server's and no one has reset or
\* approved anything, the table is what one replay of everything computes
\* (tests/persistence.rs:371, of persistence/window_replay.rs).
THEOREM IncrementalIsFull == Regular => (Spec => []IncrementalEqualsFull)
<1> SUFFICES ASSUME Regular PROVE Spec => []IncrementalEqualsFull
  OBVIOUS
<1>1. Init => MeteredInv /\ IncrementalInv
  BY IncrementalInit DEF Init, Store!Init, MeteredInv, Store!CurrentRows
<1>2. MeteredInv /\ IncrementalInv /\ [Next]_vars => (MeteredInv /\ IncrementalInv)'
  BY MeteredStep, IncrementalStep
<1>3. IncrementalInv => IncrementalEqualsFull
  BY DEF IncrementalInv, Untouched, IncrementalEqualsFull, Store!IncrementalEqualsFull
<1> QED BY <1>1, <1>2, <1>3, PTL DEF Spec
=============================================================================
