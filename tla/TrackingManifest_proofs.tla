----------------------- MODULE TrackingManifest_proofs -----------------------
(***************************************************************************)
(* TLAPS proofs about TrackingManifest: its types, that no observation is  *)
(* applied twice, that a publication event comes before the video's row,   *)
(* and that a tracked video stays tracked, for every number of workers,    *)
(* discoveries, shards, videos and failures.                               *)
(***************************************************************************)
EXTENDS TrackingManifest, FiniteSetTheorems, TLAPS

-----------------------------------------------------------------------------
(* Observations up to a moment *)

CountUpTo(times, t) == Cardinality({u \in times : u <= t})

\* ObservedOnce, row by row.
Counted(times, state) == state.count <= CountUpTo(times, state.checked)

LEMMA CountFacts ==
    ASSUME NEW times \in SUBSET (1..MaxObserved), NEW t \in Int
    PROVE  /\ IsFiniteSet({u \in times : u <= t})
           /\ CountUpTo(times, t) \in 0..MaxObserved
  <1> DEFINE S == {u \in times : u <= t}
  <1>1. IsFiniteSet(1..MaxObserved) /\ Cardinality(1..MaxObserved) = MaxObserved
    BY FS_Interval, TrackingAssumption
  <1>2. S \in SUBSET (1..MaxObserved)
    OBVIOUS
  <1>3. IsFiniteSet(S) /\ Cardinality(S) <= Cardinality(1..MaxObserved)
    BY <1>1, <1>2, FS_Subset
  <1>4. Cardinality(S) \in Nat
    BY <1>3, FS_CardinalityType
  <1>5. QED
    BY <1>1, <1>3, <1>4, TrackingAssumption DEF CountUpTo

LEMMA CountRange == \A times \in SUBSET (1..MaxObserved), t \in Int : CountUpTo(times, t) \in 0..MaxObserved
  BY CountFacts

\* More observations count no less.
LEMMA CountMonotone ==
    ASSUME NEW more \in SUBSET (1..MaxObserved), NEW times \in SUBSET more, NEW t \in Int
    PROVE  CountUpTo(times, t) <= CountUpTo(more, t)
  <1>1. IsFiniteSet({u \in more : u <= t})
    BY CountFacts
  <1>2. {u \in times : u <= t} \in SUBSET {u \in more : u <= t}
    OBVIOUS
  <1>3. QED
    BY <1>1, <1>2, FS_Subset DEF CountUpTo

\* A newer observation is one more.
LEMMA CountOneMore ==
    ASSUME NEW times \in SUBSET (1..MaxObserved), NEW at \in times,
           NEW t \in Int, t < at
    PROVE  CountUpTo(times, t) + 1 <= CountUpTo(times, at)
  <1> DEFINE S == {u \in times : u <= t}
             T == {u \in times : u <= at}
  <1>1. IsFiniteSet(S) /\ Cardinality(S) \in Nat
    BY CountFacts, FS_CardinalityType
  <1>2. IsFiniteSet(T)
    BY CountFacts
  <1>3. at \notin S /\ S \cup {at} \in SUBSET T
    <2>1. at \in Int /\ \A u \in times : u \in Int
      BY TrackingAssumption
    <2>2. at \notin S
      BY <2>1
    <2>3. ASSUME NEW u \in S
          PROVE  u \in T
      BY <2>1
    <2>4. at \in T
      BY <2>1
    <2>5. QED
      BY <2>2, <2>3, <2>4
  <1>4. Cardinality(S \cup {at}) = Cardinality(S) + 1
    BY <1>1, <1>3, FS_AddElement
  <1>5. Cardinality(S \cup {at}) <= Cardinality(T)
    BY <1>2, <1>3, FS_Subset
  <1>6. QED
    BY <1>4, <1>5 DEF CountUpTo

-----------------------------------------------------------------------------
(* The inductive invariant *)

\* What a daily shard says was observed was observed.
Real(today) == \A v \in today.rows : today.at \in observed[v]

DailyReal == \A date \in Dates, s \in Shards : Real(daily[date][s])

\* What a worker is about to write is as sound as what it replaces.
RunsReal ==
    \A w \in Workers : worker[w] # Idle =>
        /\ Real(worker[w].today)
        /\ \A v \in Videos : Counted(observed[v], worker[w].updates[v])

RowsCounted == \A v \in Videos : Counted(observed[v], master[v])

\* The types are part of it: that a count stays in range follows from it being
\* a count of observations.
CountInv == TypeOK /\ DailyReal /\ RunsReal /\ RowsCounted

LEMMA RowsCountedIsObservedOnce == RowsCounted <=> ObservedOnce
  BY DEF RowsCounted, ObservedOnce, Counted, CountUpTo, Behind

LEMMA BlankStates ==
    /\ Absent \in States /\ Unobserved \in States
    /\ NoShard \in ManifestShards
    /\ NotCollected \in DailyShards
    /\ \A times \in SUBSET (1..MaxObserved) : Counted(times, Absent) /\ Counted(times, Unobserved)
  <1>1. Absent \in States /\ Unobserved \in States
    BY TrackingAssumption DEF Absent, Unobserved, States
  <1>2. NoShard \in ManifestShards
    <2>1. [v \in Videos |-> Absent] \in Entries
      BY <1>1 DEF Entries
    <2>2. QED
      BY <2>1 DEF NoShard, ManifestShards
  <1>. NotCollected \in DailyShards
    <2>1. 0 \in 0..MaxObserved /\ {} \in SUBSET Videos
      BY TrackingAssumption
    <2>2. QED
      BY <2>1 DEF NotCollected, DailyShards
  <1>3. ASSUME NEW times \in SUBSET (1..MaxObserved)
        PROVE  Counted(times, Absent) /\ Counted(times, Unobserved)
    <2>1. -1 \in Int /\ 0 \in Int
      OBVIOUS
    <2>2. CountUpTo(times, -1) \in 0..MaxObserved /\ CountUpTo(times, 0) \in 0..MaxObserved
      BY <2>1, CountRange
    <2>3. QED
      BY <2>2, TrackingAssumption DEF Counted, Absent, Unobserved
  <1>4. QED
    BY <1>1, <1>2, <1>3

LEMMA InitCount == Init => CountInv
  <1> SUFFICES ASSUME Init PROVE CountInv
    OBVIOUS
  <1> USE DEF Init
  <1>1. uploads \in Seq(Videos)
    <2>1. Cardinality(Backlog) \in Nat
      BY TrackingAssumption, FS_CardinalityType
    <2>2. uploads \in [1..Cardinality(Backlog) -> Videos]
      BY TrackingAssumption
    <2>3. QED
      BY <2>1, <2>2, SMT
  <1>2. TypeOK
    BY <1>1, BlankStates, TrackingAssumption DEF TypeOK, Entries
  <1>3. DailyReal
    BY DEF DailyReal, Real, NotCollected
  <1>4. RunsReal
    BY DEF RunsReal
  <1>5. RowsCounted
    BY BlankStates DEF RowsCounted
  <1>6. QED
    BY <1>2, <1>3, <1>4, <1>5 DEF CountInv

-----------------------------------------------------------------------------
(* Steps *)

LEMMA FaultType == TypeOK /\ Fault => faults' \in 0..MaxFaults
  BY TrackingAssumption DEF TypeOK, Fault

\* A step that leaves the workers and what they observed alone.
LEMMA SameRuns == CountInv /\ UNCHANGED <<daily, worker, observed>> => DailyReal' /\ RunsReal'
  BY DEF CountInv, DailyReal, RunsReal, Real

\* A step that only blanks rows, if it touches any.
LEMMA BlankRows ==
    ASSUME CountInv, UNCHANGED observed,
           \A v \in Videos : master'[v] = master[v] \/ master'[v] = Unobserved
    PROVE  RowsCounted'
  <1>1. \A v \in Videos : observed[v] \in SUBSET (1..MaxObserved)
    BY DEF CountInv, TypeOK
  <1>2. \A v \in Videos : Counted(observed[v], master'[v])
    BY <1>1, BlankStates DEF CountInv, RowsCounted
  <1>3. QED
    BY <1>2 DEF RowsCounted, Counted

\* The ways a run of discovery goes on are runs of discovery.
LEMMA DiscoveryTypes ==
    ASSUME TypeOK, NEW d \in Discoveries, discovery[d] \in DiscoveryRuns
    PROVE  /\ Added(discovery[d]) \in ManifestShards
           /\ HasAttempts(discovery[d]) => Retried(discovery[d]) \in DiscoveryRuns
           /\ NextShard(d) => discovery' \in [Discoveries -> DiscoveryRuns \cup {Idle}]
           /\ \A pc \in {"record", "upsert", "read", "write"} :
                 [discovery[d] EXCEPT !.pc = pc] \in DiscoveryRuns
  <1> DEFINE r == discovery[d]
  <1>1. Added(r) \in ManifestShards
    <2>1. r.seen.entries \in Entries
      BY DEF DiscoveryRuns, ManifestShards
    <2>2. [v \in Videos |-> IF v \in r.found /\ ShardOf[v] = r.shard /\ r.seen.entries[v] = Absent
                              THEN Unobserved ELSE r.seen.entries[v]] \in Entries
      BY <2>1, BlankStates DEF Entries
    <2>3. QED
      BY <2>2 DEF Added, ManifestShards
  <1>2. HasAttempts(r) => Retried(r) \in DiscoveryRuns
    <2>1. HasAttempts(r) => r.tries + 1 \in 0..(PatchAttempts - 1)
      BY TrackingAssumption DEF HasAttempts, DiscoveryRuns
    <2>2. QED
      BY <2>1 DEF Retried, DiscoveryRuns
  <1>3. ASSUME NextShard(d)
        PROVE  discovery' \in [Discoveries -> DiscoveryRuns \cup {Idle}]
    <2>1. [r EXCEPT !.pc = "read", !.todo = r.todo \ {r.shard}, !.tries = 0] \in DiscoveryRuns
      <3>1. 0 \in 0..(PatchAttempts - 1) /\ r.todo \ {r.shard} \in SUBSET Shards
        BY TrackingAssumption DEF DiscoveryRuns
      <3>2. QED
        BY <3>1 DEF DiscoveryRuns
    <2>2. QED
      BY <1>3, <2>1 DEF NextShard, TypeOK
  <1>4. \A pc \in {"record", "upsert", "read", "write"} :
           [r EXCEPT !.pc = pc] \in DiscoveryRuns
    BY DEF DiscoveryRuns
  <1>5. QED
    BY <1>1, <1>2, <1>3, <1>4

LEMMA DiscoveryStep ==
    ASSUME CountInv, NEW d \in Discoveries, Discover(d) \/ DiscoveryFails(d)
    PROVE  CountInv'
  <1> USE DEF CountInv
  <1>1. /\ UNCHANGED <<uploads, daily, worker, observed, clock>>
        /\ faults' \in 0..MaxFaults
    BY FaultType
       DEF Discover, DiscoveryFails, StartDiscovery, RecordEvents, UpsertFound, ReadForAdding,
           AddEntries, AddConflicts, RecordBreaks, UpsertFoundBreaks, AddFails, DiscoveryDies,
           stores, TypeOK
  <1>2. discovery[d] = Idle \/ discovery[d] \in DiscoveryRuns
    BY DEF TypeOK
  <1>3. ASSUME discovery[d].pc # "idle"
        PROVE  discovery[d] \in DiscoveryRuns
    BY <1>2, <1>3 DEF Idle
  <1>4. /\ discovery' \in [Discoveries -> DiscoveryRuns \cup {Idle}]
        /\ manifest' \in [Shards -> ManifestShards]
        /\ events' \subseteq Videos
        /\ master' \in Entries
        /\ \A v \in Videos : master'[v] = master[v] \/ master'[v] = Unobserved
    <2> USE <1>2, <1>3 DEF TypeOK
    <2>1. CASE StartDiscovery(d)
      <3>1. Found \subseteq Videos
        BY DEF Found
      <3>2. /\ \A v \in Found : ShardOf[v] \in Shards
            /\ ShardOf[CHOOSE v \in Found : TRUE] \in Shards
        BY <2>1, <3>1, TrackingAssumption DEF StartDiscovery
      <3>3. [pc |-> "record", found |-> Found, first |-> Known = {},
             todo |-> {ShardOf[v] : v \in Found}, shard |-> ShardOf[CHOOSE v \in Found : TRUE],
             seen |-> NoShard, tries |-> 0] \in DiscoveryRuns
        BY <3>1, <3>2, BlankStates, TrackingAssumption DEF DiscoveryRuns
      <3>4. QED
        BY <2>1, <3>3 DEF StartDiscovery, stores
    <2>2. CASE RecordEvents(d)
      BY <2>2, DiscoveryTypes DEF RecordEvents, ToNotify, DiscoveryRuns
    <2>3. CASE RecordBreaks(d)
      BY <2>3 DEF RecordBreaks, ToNotify, DiscoveryRuns
    <2>4. CASE UpsertFound(d)
      BY <2>4, DiscoveryTypes, BlankStates DEF UpsertFound, Entries
    <2>5. CASE UpsertFoundBreaks(d)
      BY <2>5, BlankStates DEF UpsertFoundBreaks, Entries
    <2>6. CASE ReadForAdding(d)
      <3>1. PICK s \in discovery[d].todo :
               discovery' = [discovery EXCEPT ![d].pc = "write", ![d].shard = s, ![d].seen = manifest[s]]
        BY <2>6 DEF ReadForAdding
      <3>2. discovery[d] \in DiscoveryRuns
        BY <2>6 DEF ReadForAdding
      <3>3. s \in Shards /\ manifest[s] \in ManifestShards
        BY <3>1, <3>2 DEF DiscoveryRuns
      <3>4. [discovery[d] EXCEPT !.pc = "write", !.shard = s, !.seen = manifest[s]] \in DiscoveryRuns
        BY <3>2, <3>3 DEF DiscoveryRuns
      <3>5. QED
        BY <2>6, <3>1, <3>4 DEF ReadForAdding, stores
    <2>7. CASE AddEntries(d)
      BY <2>7, DiscoveryTypes DEF AddEntries
    <2>8. CASE AddConflicts(d)
      BY <2>8, DiscoveryTypes DEF AddConflicts, stores
    <2>9. CASE AddFails(d)
      BY <2>9, DiscoveryTypes DEF AddFails
    <2>10. CASE DiscoveryDies(d)
      BY <2>10 DEF DiscoveryDies, stores
    <2>11. QED
      BY <2>1, <2>2, <2>3, <2>4, <2>5, <2>6, <2>7, <2>8, <2>9, <2>10
         DEF Discover, DiscoveryFails
  <1>5. TypeOK'
    BY <1>1, <1>4 DEF TypeOK
  <1>6. QED
    BY <1>1, <1>4, <1>5, SameRuns, BlankRows

\* The ways a worker run goes on are worker runs.
LEMMA WorkerTypes ==
    ASSUME TypeOK, NEW w \in Workers, worker[w] \in WorkerRuns
    PROVE  /\ Patched(worker[w]) \in ManifestShards
           /\ HasAttempts(worker[w]) => Retried(worker[w]) \in WorkerRuns
           /\ \A some \in SUBSET Videos : Updated(master, worker[w].updates, some) \in Entries
           /\ \A pc \in {"check", "put", "classify", "upsert", "read", "write", "done"} :
                 [worker[w] EXCEPT !.pc = pc] \in WorkerRuns
  <1> DEFINE r == worker[w]
  <1>1. ASSUME NEW table \in Entries, NEW some \in SUBSET Videos
        PROVE  Updated(table, r.updates, some) \in Entries
    <2>1. r.updates \in Entries
      BY DEF WorkerRuns
    <2>2. QED
      BY <2>1 DEF Updated, Entries
  <1>2. Patched(r) \in ManifestShards
    <2>1. r.seen.entries \in Entries
      BY DEF WorkerRuns, ManifestShards
    <2>2. Updated(r.seen.entries, r.updates, {v \in Videos : r.seen.entries[v] # Absent}) \in Entries
      BY <1>1, <2>1
    <2>3. QED
      BY <2>2 DEF Patched, ManifestShards
  <1>3. HasAttempts(r) => Retried(r) \in WorkerRuns
    <2>1. HasAttempts(r) => r.tries + 1 \in 0..(PatchAttempts - 1)
      BY TrackingAssumption DEF HasAttempts, WorkerRuns
    <2>2. QED
      BY <2>1 DEF Retried, WorkerRuns
  <1>4. master \in Entries
    BY DEF TypeOK
  <1>5. \A pc \in {"check", "put", "classify", "upsert", "read", "write", "done"} :
           [r EXCEPT !.pc = pc] \in WorkerRuns
    BY DEF WorkerRuns
  <1>6. QED
    BY <1>1, <1>2, <1>3, <1>4, <1>5

\* A worker whose run goes on as r, or ends, while no observation is made.
LEMMA WorkerGoesOn ==
    ASSUME CountInv, NEW w \in Workers, NEW r,
           worker' = [worker EXCEPT ![w] = r],
           r = Idle \/ (r \in WorkerRuns /\ Real(r.today)
                        /\ \A v \in Videos : Counted(observed[v], r.updates[v])),
           UNCHANGED observed
    PROVE  worker' \in [Workers -> WorkerRuns \cup {Idle}] /\ RunsReal'
  <1>1. worker' \in [Workers -> WorkerRuns \cup {Idle}]
    BY DEF CountInv, TypeOK
  <1>2. RunsReal'
    BY DEF CountInv, TypeOK, RunsReal, Real
  <1>3. QED
    BY <1>1, <1>2

\* What a worker writes to Video Master is counted.
LEMMA UpdatedCounted ==
    ASSUME CountInv, NEW w \in Workers, worker[w] # Idle, NEW some \in SUBSET Videos,
           master' = Updated(master, worker[w].updates, some), UNCHANGED observed
    PROVE  RowsCounted'
  <1>1. \A v \in Videos : Counted(observed[v], worker[w].updates[v])
    BY DEF CountInv, RunsReal
  <1>2. \A v \in Videos : Counted(observed[v], master'[v])
    BY <1>1 DEF Updated, CountInv, RowsCounted
  <1>3. QED
    BY <1>2 DEF RowsCounted, Counted

\* One more observation than the row counts, and newer than it.
LEMMA ClassifiedCounted ==
    ASSUME CountInv, NEW today \in DailyShards, Real(today), NEW v \in Videos
    PROVE  Classified(today, v) \in States /\ Counted(observed[v], Classified(today, v))
  <1>1. observed[v] \in SUBSET (1..MaxObserved) /\ master[v] \in States
    BY DEF CountInv, TypeOK, Entries
  <1>2. CASE v \in today.rows /\ master[v] # Absent /\ master[v].checked < today.at
    <2> DEFINE new == [checked |-> today.at, count |-> master[v].count + 1]
    <2>1. Classified(today, v) = new
      BY <1>2 DEF Classified
    <2>2. today.at \in observed[v] /\ today.at \in 0..MaxObserved
      BY <1>2 DEF Real, DailyShards
    <2>3. master[v].checked \in Int /\ master[v].count \in Nat
      BY <1>1 DEF States
    <2>4. master[v].count <= CountUpTo(observed[v], master[v].checked)
      BY DEF CountInv, RowsCounted, Counted
    <2>5. CountUpTo(observed[v], master[v].checked) + 1 <= CountUpTo(observed[v], today.at)
      BY <1>1, <1>2, <2>2, <2>3, CountOneMore
    <2>6. /\ CountUpTo(observed[v], today.at) \in 0..MaxObserved
          /\ CountUpTo(observed[v], master[v].checked) \in 0..MaxObserved
      BY <1>1, <2>2, <2>3, CountRange, TrackingAssumption
    <2>7. master[v].count + 1 \in 0..MaxObserved
          /\ master[v].count + 1 <= CountUpTo(observed[v], today.at)
      BY <2>3, <2>4, <2>5, <2>6, TrackingAssumption
    <2>8. today.at \in -1..MaxObserved
      BY <2>2, TrackingAssumption
    <2>9. QED
      BY <2>1, <2>7, <2>8 DEF States, Counted
  <1>3. CASE ~(v \in today.rows /\ master[v] # Absent /\ master[v].checked < today.at)
    BY <1>1, <1>3, BlankStates DEF Classified
  <1>4. QED
    BY <1>2, <1>3

LEMMA WorkerStep ==
    ASSUME CountInv, NEW w \in Workers, Observe(w) \/ WorkerFails(w)
    PROVE  CountInv'
  <1> DEFINE r == worker[w]
  <1> USE DEF CountInv
  <1>1. /\ UNCHANGED <<uploads, events, discovery, clock>>
        /\ faults' \in 0..MaxFaults
    BY FaultType
       DEF Observe, CheckDaily, PutDaily, Classify, UpsertUpdates, ReadForPatching,
           PatchEntries, PatchConflicts, WorkerReturns, WorkerFails, stores, TypeOK
  <1>2. r # Idle /\ r \in WorkerRuns
    <2>1. r = Idle \/ r \in WorkerRuns
      BY DEF TypeOK
    <2>2. r # Idle
      BY DEF Observe, CheckDaily, PutDaily, Classify, UpsertUpdates, ReadForPatching,
             PatchEntries, PatchConflicts, WorkerReturns, WorkerFails, Idle
    <2>3. QED
      BY <2>1, <2>2
  <1>3. /\ r.today \in DailyShards /\ Real(r.today)
        /\ \A v \in Videos : Counted(observed[v], r.updates[v])
        /\ r.date \in Dates /\ r.shard \in Shards /\ r.at \in 1..MaxObserved
        /\ r.tracked \subseteq Videos /\ r.seen \in ManifestShards
    BY <1>2 DEF RunsReal, WorkerRuns
  <1>4. ASSUME NEW next, next = Idle \/ (/\ next \in WorkerRuns /\ next.today = r.today
                                        /\ next.updates = r.updates),
               worker' = [worker EXCEPT ![w] = next], UNCHANGED observed
        PROVE  worker' \in [Workers -> WorkerRuns \cup {Idle}] /\ RunsReal'
    BY <1>3, <1>4, WorkerGoesOn
  <1>5. CASE CheckDaily(w)
    <2>1. UNCHANGED stores
      BY <1>5 DEF CheckDaily
    <2>2. CASE daily[r.date][r.shard] # NotCollected
      <3> DEFINE next == [r EXCEPT !.pc = "classify", !.today = daily[r.date][r.shard]]
      <3>1. worker' = [worker EXCEPT ![w] = next] /\ UNCHANGED observed
        BY <1>5, <2>2 DEF CheckDaily
      <3>2. daily[r.date][r.shard] \in DailyShards /\ Real(daily[r.date][r.shard])
        BY <1>3 DEF TypeOK, DailyReal
      <3>3. next \in WorkerRuns /\ next.today = daily[r.date][r.shard] /\ next.updates = r.updates
        BY <1>2, <3>2 DEF WorkerRuns
      <3>4. worker' \in [Workers -> WorkerRuns \cup {Idle}] /\ RunsReal'
        BY <1>3, <3>1, <3>2, <3>3, WorkerGoesOn
      <3>5. QED
        BY <1>1, <2>1, <3>1, <3>4 DEF stores, TypeOK, DailyReal, Real, RowsCounted, Counted
    <2>3. CASE daily[r.date][r.shard] = NotCollected
      <3>1. PICK rows \in SUBSET r.tracked :
               /\ worker' = [worker EXCEPT ![w].pc = "put", ![w].today = [at |-> r.at, rows |-> rows]]
               /\ observed' = [v \in Videos |-> IF v \in rows THEN observed[v] \cup {r.at} ELSE observed[v]]
        BY <1>5, <2>3 DEF CheckDaily
      <3> DEFINE next == [r EXCEPT !.pc = "put", !.today = [at |-> r.at, rows |-> rows]]
      <3>2. [at |-> r.at, rows |-> rows] \in DailyShards
        BY <1>3, TrackingAssumption DEF DailyShards
      <3>3. next \in WorkerRuns /\ next.today = [at |-> r.at, rows |-> rows] /\ next.updates = r.updates
        BY <1>2, <3>2 DEF WorkerRuns
      <3>4. worker' = [worker EXCEPT ![w] = next]
        BY <3>1
      <3>5. /\ observed' \in [Videos -> SUBSET (1..MaxObserved)]
            /\ \A v \in Videos : observed[v] \subseteq observed'[v]
            /\ \A v \in rows : r.at \in observed'[v]
        BY <1>3, <3>1 DEF TypeOK
      <3>6. ASSUME NEW v \in Videos, NEW state \in States, Counted(observed[v], state)
            PROVE  Counted(observed'[v], state)
        <4>1. state.checked \in Int /\ state.count \in Nat
          BY TrackingAssumption DEF States
        <4>2. observed'[v] \in SUBSET (1..MaxObserved) /\ observed[v] \in SUBSET observed'[v]
          BY <3>5
        <4>3. CountUpTo(observed[v], state.checked) <= CountUpTo(observed'[v], state.checked)
          BY <4>1, <4>2, CountMonotone
        <4>4. /\ CountUpTo(observed[v], state.checked) \in 0..MaxObserved
              /\ CountUpTo(observed'[v], state.checked) \in 0..MaxObserved
          BY <4>1, <4>2, CountRange
        <4>5. QED
          BY <3>6, <4>1, <4>3, <4>4, TrackingAssumption DEF Counted
      <3>7. TypeOK'
        <4>1. worker' \in [Workers -> WorkerRuns \cup {Idle}]
          BY <3>3, <3>4 DEF TypeOK
        <4>2. QED
          BY <1>1, <2>1, <3>5, <4>1 DEF stores, TypeOK
      <3>8. RunsReal'
        <4>1. ASSUME NEW x \in Workers, worker'[x] # Idle
              PROVE  /\ \A v \in worker'[x].today.rows : worker'[x].today.at \in observed'[v]
                     /\ \A v \in Videos : Counted(observed'[v], worker'[x].updates[v])
          <5>1. CASE x = w
            <6>1. worker'[x] = next
              BY <3>4, <5>1 DEF TypeOK
            <6>2. \A v \in worker'[x].today.rows : worker'[x].today.at \in observed'[v]
              BY <3>3, <3>5, <6>1 DEF Real
            <6>3. \A v \in Videos : r.updates[v] \in States
              BY <1>2 DEF WorkerRuns, Entries
            <6>4. QED
              BY <1>3, <3>3, <3>6, <6>1, <6>2, <6>3
          <5>2. CASE x # w
            <6>1. worker'[x] = worker[x] /\ worker[x] \in WorkerRuns
              BY <3>4, <4>1, <5>2 DEF TypeOK
            <6>2. /\ Real(worker[x].today)
                  /\ \A v \in Videos : Counted(observed[v], worker[x].updates[v])
              BY <4>1, <6>1 DEF RunsReal
            <6>3. /\ worker[x].today.rows \subseteq Videos
                  /\ \A v \in Videos : worker[x].updates[v] \in States
              BY <6>1 DEF WorkerRuns, DailyShards, Entries
            <6>4. QED
              BY <3>5, <3>6, <6>1, <6>2, <6>3 DEF Real
          <5>3. QED
            BY <5>1, <5>2
        <4>2. QED
          BY <4>1 DEF RunsReal, Real, Counted
      <3>9. DailyReal'
        <4>1. \A date \in Dates, s \in Shards : daily[date][s].rows \subseteq Videos
          BY DEF TypeOK, DailyShards
        <4>2. QED
          BY <2>1, <3>5, <4>1 DEF stores, DailyReal, Real
      <3>10. RowsCounted'
        <4>1. \A v \in Videos : master[v] \in States
          BY DEF TypeOK, Entries
        <4>2. \A v \in Videos : Counted(observed'[v], master[v])
          BY <3>6, <4>1 DEF RowsCounted
        <4>3. QED
          BY <2>1, <4>2 DEF stores, RowsCounted, Counted
      <3>11. QED
        BY <3>7, <3>8, <3>9, <3>10
    <2>4. QED
      BY <2>2, <2>3
  <1>6. CASE PutDaily(w)
    <2>1. [r EXCEPT !.pc = "classify"] \in WorkerRuns
      BY <1>2, WorkerTypes
    <2>2. worker' \in [Workers -> WorkerRuns \cup {Idle}] /\ RunsReal'
      BY <1>2, <1>4, <1>6, <2>1 DEF PutDaily, WorkerRuns
    <2>3. TypeOK'
      BY <1>1, <1>3, <1>6, <2>2 DEF PutDaily, TypeOK
    <2>4. DailyReal'
      BY <1>3, <1>6 DEF PutDaily, DailyReal, Real, TypeOK
    <2>5. RowsCounted'
      BY <1>6 DEF PutDaily, RowsCounted, Counted
    <2>6. QED
      BY <2>2, <2>3, <2>4, <2>5
  <1>7. CASE Classify(w)
    <2> DEFINE updates == [v \in Videos |-> Classified(r.today, v)]
               pc == IF \E v \in Videos : updates[v] # Absent THEN "upsert" ELSE "done"
               next == [r EXCEPT !.updates = updates, !.pc = pc]
    <2>1. updates \in Entries /\ \A v \in Videos : Counted(observed[v], updates[v])
      BY <1>3, ClassifiedCounted DEF Entries
    <2> HIDE DEF updates
    <2>2. pc \in {"upsert", "done"}
      OBVIOUS
    <2>3. next \in WorkerRuns /\ next.today = r.today /\ next.updates = updates
      BY <1>2, <2>1, <2>2 DEF WorkerRuns
    <2>4. worker' = [worker EXCEPT ![w] = next]
      BY <1>7 DEF Classify, updates
    <2>5. worker' \in [Workers -> WorkerRuns \cup {Idle}] /\ RunsReal'
      <3> HIDE DEF next
      <3>1. UNCHANGED observed
        BY <1>7 DEF Classify
      <3>2. QED
        BY <1>3, <2>1, <2>3, <2>4, <3>1, WorkerGoesOn
    <2>6. QED
      BY <1>1, <1>7, <2>5 DEF Classify, stores, TypeOK, DailyReal, Real, RowsCounted, Counted
  <1>8. CASE UpsertUpdates(w)
    <2>1. [r EXCEPT !.pc = "read"] \in WorkerRuns
      BY <1>2, WorkerTypes
    <2>2. worker' \in [Workers -> WorkerRuns \cup {Idle}] /\ RunsReal'
      BY <1>2, <1>4, <1>8, <2>1 DEF UpsertUpdates, WorkerRuns
    <2>3. master' \in Entries
      BY <1>2, <1>8, WorkerTypes DEF UpsertUpdates
    <2>4. RowsCounted'
      BY <1>2, <1>8, UpdatedCounted DEF UpsertUpdates
    <2>5. QED
      BY <1>1, <1>8, <2>2, <2>3, <2>4 DEF UpsertUpdates, TypeOK, DailyReal, Real
  <1>9. ASSUME UNCHANGED <<events, master, daily, observed>>,
               worker' \in [Workers -> WorkerRuns \cup {Idle}] /\ RunsReal',
               manifest' \in [Shards -> ManifestShards]
        PROVE  CountInv'
    BY <1>1, <1>9 DEF TypeOK, DailyReal, Real, RowsCounted, Counted
  <1>10. CASE ReadForPatching(w)
    <2> DEFINE next == [r EXCEPT !.pc = "write", !.seen = manifest[r.shard]]
    <2>1. manifest[r.shard] \in ManifestShards
      BY <1>3 DEF TypeOK
    <2>2. next \in WorkerRuns /\ next.today = r.today /\ next.updates = r.updates
      BY <1>2, <2>1 DEF WorkerRuns
    <2>3. worker' = [worker EXCEPT ![w] = next] /\ UNCHANGED <<observed, stores>>
      BY <1>10 DEF ReadForPatching
    <2> HIDE DEF next
    <2>4. worker' \in [Workers -> WorkerRuns \cup {Idle}] /\ RunsReal'
      BY <1>4, <2>2, <2>3
    <2>5. QED
      BY <1>9, <2>3, <2>4 DEF stores, TypeOK
  <1>11. CASE PatchEntries(w)
    <2>1. [r EXCEPT !.pc = "done"] \in WorkerRuns
      BY <1>2, WorkerTypes
    <2>2. worker' \in [Workers -> WorkerRuns \cup {Idle}] /\ RunsReal'
      BY <1>2, <1>4, <1>11, <2>1 DEF PatchEntries, WorkerRuns
    <2>3. manifest' \in [Shards -> ManifestShards]
      BY <1>2, <1>11, WorkerTypes DEF PatchEntries, TypeOK
    <2>4. QED
      BY <1>9, <1>11, <2>2, <2>3 DEF PatchEntries
  <1>12. CASE PatchConflicts(w)
    <2> DEFINE next == IF HasAttempts(r) THEN Retried(r) ELSE Idle
    <2>1. next = Idle \/ (next \in WorkerRuns /\ next.today = r.today /\ next.updates = r.updates)
      <3>1. HasAttempts(r) => Retried(r) \in WorkerRuns
        BY <1>2, WorkerTypes
      <3>2. Retried(r).today = r.today /\ Retried(r).updates = r.updates
        BY <1>2 DEF Retried, WorkerRuns
      <3>3. QED
        BY <3>1, <3>2
    <2>2. worker' = [worker EXCEPT ![w] = next] /\ UNCHANGED <<observed, stores>>
      BY <1>12 DEF PatchConflicts
    <2> HIDE DEF next
    <2>3. worker' \in [Workers -> WorkerRuns \cup {Idle}] /\ RunsReal'
      BY <1>4, <2>1, <2>2
    <2>4. QED
      BY <1>9, <2>2, <2>3 DEF stores, TypeOK
  <1>13. CASE WorkerReturns(w)
    <2>1. worker' \in [Workers -> WorkerRuns \cup {Idle}] /\ RunsReal'
      BY <1>4, <1>13 DEF WorkerReturns
    <2>2. QED
      BY <1>9, <1>13, <2>1 DEF WorkerReturns, stores, TypeOK
  <1>14. CASE WorkerFails(w)
    <2>1. worker' = [worker EXCEPT ![w] = Idle] /\ UNCHANGED <<events, observed>>
      BY <1>14 DEF WorkerFails, stores
    <2>2. worker' \in [Workers -> WorkerRuns \cup {Idle}] /\ RunsReal'
      BY <1>4, <2>1
    <2>3. CASE UNCHANGED stores
      BY <1>9, <2>1, <2>2, <2>3 DEF stores, TypeOK
    <2>4. CASE /\ daily' = [daily EXCEPT ![r.date][r.shard] = r.today]
               /\ UNCHANGED <<events, master, manifest>>
      <3>1. daily' \in [Dates -> [Shards -> DailyShards]] /\ DailyReal'
        BY <1>3, <2>1, <2>4 DEF DailyReal, Real, TypeOK
      <3>2. QED
        BY <1>1, <2>1, <2>2, <2>4, <3>1 DEF TypeOK, RowsCounted, Counted
    <2>5. CASE /\ \E some \in SUBSET Videos : master' = Updated(master, r.updates, some)
               /\ UNCHANGED <<events, manifest, daily>>
      <3>1. master' \in Entries
        BY <1>2, <2>5, WorkerTypes
      <3>2. RowsCounted'
        BY <1>2, <2>1, <2>5, UpdatedCounted
      <3>3. QED
        BY <1>1, <2>1, <2>2, <2>5, <3>1, <3>2 DEF TypeOK, DailyReal, Real
    <2>6. CASE /\ manifest' = [manifest EXCEPT ![r.shard] = Patched(r)]
               /\ UNCHANGED <<events, master, daily>>
      <3>1. manifest' \in [Shards -> ManifestShards]
        BY <1>2, <2>6, WorkerTypes DEF TypeOK
      <3>2. QED
        BY <1>9, <2>1, <2>2, <2>6, <3>1
    <2>7. QED
      BY <1>14, <2>3, <2>4, <2>5, <2>6 DEF WorkerFails
  <1>15. QED
    BY <1>5, <1>6, <1>7, <1>8, <1>10, <1>11, <1>12, <1>13, <1>14 DEF Observe

LEMMA StartStep ==
    ASSUME CountInv, NEW w \in Workers, NEW date \in Dates, NEW s \in Shards,
           StartWorker(w, date, s)
    PROVE  CountInv'
  <1> USE DEF CountInv
  <1> DEFINE next ==
        [pc |-> "check", date |-> date, shard |-> s, at |-> clock + 1,
         tracked |-> {v \in Videos : manifest[s].entries[v] # Absent},
         today |-> NotCollected, updates |-> [v \in Videos |-> Absent],
         seen |-> NoShard, tries |-> 0]
  <1>1. clock + 1 \in 1..MaxObserved /\ clock' = clock + 1
    BY TrackingAssumption DEF StartWorker, TypeOK
  <1>2. [v \in Videos |-> Absent] \in Entries /\ 0 \in 0..(PatchAttempts - 1)
    BY BlankStates, TrackingAssumption DEF Entries
  <1>3. next \in WorkerRuns
    BY <1>1, <1>2, BlankStates DEF WorkerRuns
  <1>4. Real(next.today) /\ \A v \in Videos : Counted(observed[v], next.updates[v])
    BY BlankStates DEF Real, NotCollected, TypeOK
  <1>5. worker' = [worker EXCEPT ![w] = next] /\ UNCHANGED <<uploads, stores, discovery, observed, faults>>
    BY DEF StartWorker
  <1> HIDE DEF next
  <1>6. worker' \in [Workers -> WorkerRuns \cup {Idle}] /\ RunsReal'
    BY <1>3, <1>4, <1>5, WorkerGoesOn
  <1>7. clock' \in 0..MaxObserved
    BY <1>1, TrackingAssumption
  <1>8. QED
    BY <1>5, <1>6, <1>7 DEF stores, TypeOK, DailyReal, Real, RowsCounted, Counted

LEMMA CountStep == CountInv /\ [Next]_vars => CountInv'
  <1> SUFFICES ASSUME CountInv, [Next]_vars
               PROVE  CountInv'
    OBVIOUS
  <1>1. ASSUME NEW v \in Videos, Publish(v)
        PROVE  CountInv'
    <2>1. uploads' \in Seq(Videos)
      BY <1>1 DEF Publish, CountInv, TypeOK
    <2>2. QED
      BY <1>1, <2>1
         DEF Publish, stores, CountInv, TypeOK, DailyReal, RunsReal, Real, RowsCounted, Counted
  <1>2. CASE UNCHANGED vars
    BY <1>2 DEF vars, stores, CountInv, TypeOK, DailyReal, RunsReal, Real, RowsCounted, Counted
  <1>3. QED
    BY <1>1, <1>2, DiscoveryStep, WorkerStep, StartStep DEF Next

-----------------------------------------------------------------------------
(* Theorems *)

LEMMA CountInvariant == Spec => []CountInv
  BY InitCount, CountStep, PTL DEF Spec

\* Every variable keeps its type; in particular no patch makes more than
\* PATCH_SHARD_MAX_ATTEMPTS attempts.
THEOREM TypesHold == Spec => []TypeOK
  BY CountInvariant, PTL DEF CountInv

\* _build_scheduler_updates: however shards are retried, repaired or collected
\* side by side, no row counts more observations than were made.
THEOREM NeverAppliedTwice == Spec => []ObservedOnce
  BY CountInvariant, RowsCountedIsObservedOnce, PTL DEF CountInv

-----------------------------------------------------------------------------
(* Events come first, and a tracked video stays tracked *)

\* A run that got past its events has recorded them all.
RunsAnnounced ==
    \A d \in Discoveries :
        discovery[d].pc \in {"upsert", "read", "write"} => ToNotify(discovery[d]) \subseteq events

\* A scheduler update is of a video with a row, and was made by an observation.
UpdatesKnown ==
    \A w \in Workers : worker[w] # Idle =>
        \A v \in Videos : worker[w].updates[v] # Absent =>
            master[v] # Absent /\ worker[w].updates[v].checked > 0

CatalogInv == RunsAnnounced /\ UpdatesKnown /\ EventsFirst

\* What an update writes: rows or entries that are there, or updates.
LEMMA UpdatedRows ==
    \A table, updates, videos : \A v \in Videos :
        Updated(table, updates, videos)[v] = table[v]
        \/ /\ v \in videos /\ updates[v] # Absent
           /\ Updated(table, updates, videos)[v] = updates[v]
  BY DEF Updated

\* Rows only appear, and workers keep the updates they have.
LEMMA KeptUpdates ==
    ASSUME UpdatesKnown,
           \A v \in Videos : master[v] # Absent => master'[v] # Absent,
           \A w \in Workers : \/ worker'[w] = Idle
                              \/ worker[w] # Idle /\ worker'[w].updates = worker[w].updates
                              \/ \A v \in Videos : worker'[w].updates[v] = Absent
    PROVE  UpdatesKnown'
  BY DEF UpdatesKnown

LEMMA DiscoveryKnows ==
    ASSUME CountInv, CatalogInv, NEW d \in Discoveries, Discover(d) \/ DiscoveryFails(d)
    PROVE  CatalogInv'
  <1> USE DEF CountInv, TypeOK, CatalogInv
  <1>1. worker' = worker /\ events \subseteq events'
    BY DEF Discover, DiscoveryFails, StartDiscovery, RecordEvents, UpsertFound, ReadForAdding,
       AddEntries, AddConflicts, RecordBreaks, UpsertFoundBreaks, AddFails, DiscoveryDies, stores
  <1>2. discovery[d] = Idle \/ discovery[d] \in DiscoveryRuns
    OBVIOUS
  <1>3. \/ master' = master
        \/ /\ discovery[d].pc = "upsert"
           /\ \A v \in Videos : \/ master'[v] = master[v]
                                \/ v \in discovery[d].found /\ master'[v] = Unobserved
    BY DEF Discover, DiscoveryFails, StartDiscovery, RecordEvents, UpsertFound, ReadForAdding,
       AddEntries, AddConflicts, RecordBreaks, UpsertFoundBreaks, AddFails, DiscoveryDies, stores
  <1>4. Unobserved # Absent
    BY DEF Unobserved, Absent
  <1>5. UpdatesKnown'
    BY <1>1, <1>3, <1>4, KeptUpdates
  <1>6. EventsFirst'
    <2>1. CASE master' = master
      BY <1>1, <2>1 DEF EventsFirst
    <2>2. CASE /\ discovery[d].pc = "upsert"
               /\ \A v \in Videos : \/ master'[v] = master[v]
                                    \/ v \in discovery[d].found /\ master'[v] = Unobserved
      <3>1. \A v \in discovery[d].found \ Backlog : v \in events
        BY <2>2 DEF RunsAnnounced, ToNotify
      <3>2. QED
        BY <1>1, <2>2, <3>1 DEF EventsFirst
    <2>3. QED
      BY <1>3, <2>1, <2>2
  <1>7. RunsAnnounced'
    <2>1. \A o \in Discoveries \ {d} : discovery'[o] = discovery[o]
      BY DEF Discover, DiscoveryFails, StartDiscovery, RecordEvents, UpsertFound, ReadForAdding,
         AddEntries, AddConflicts, NextShard, RecordBreaks, UpsertFoundBreaks, AddFails, DiscoveryDies
    <2>2. discovery'[d].pc \in {"upsert", "read", "write"} => ToNotify(discovery'[d]) \subseteq events'
      <3>1. CASE StartDiscovery(d)
        BY <3>1 DEF StartDiscovery
      <3>2. CASE RecordEvents(d)
        BY <1>2, <3>2 DEF RecordEvents, Idle, DiscoveryRuns, ToNotify
      <3>3. CASE UpsertFound(d)
        BY <1>1, <1>2, <3>3 DEF UpsertFound, Idle, DiscoveryRuns, ToNotify, RunsAnnounced
      <3>4. CASE ReadForAdding(d)
        BY <1>1, <1>2, <3>4 DEF ReadForAdding, Idle, DiscoveryRuns, ToNotify, RunsAnnounced
      <3>5. CASE AddEntries(d) \/ AddConflicts(d) \/ AddFails(d)
        <4>1. discovery[d] \in DiscoveryRuns /\ discovery[d].pc = "write"
          BY <1>2, <3>5 DEF AddEntries, AddConflicts, AddFails, Idle
        <4>2. \/ discovery'[d] = Idle
              \/ discovery'[d].found = discovery[d].found /\ discovery'[d].first = discovery[d].first
          <5>1. CASE NextShard(d)
            BY <4>1, <5>1 DEF NextShard, DiscoveryRuns
          <5>2. CASE discovery' = [discovery EXCEPT ![d] = Retried(@)]
            BY <4>1, <5>2 DEF Retried, DiscoveryRuns
          <5>3. QED
            BY <3>5, <5>1, <5>2 DEF AddEntries, AddConflicts, AddFails
        <4>3. QED
          BY <1>1, <4>1, <4>2 DEF RunsAnnounced, ToNotify, Idle
      <3>6. CASE RecordBreaks(d) \/ UpsertFoundBreaks(d) \/ DiscoveryDies(d)
        BY <3>6 DEF RecordBreaks, UpsertFoundBreaks, DiscoveryDies, Idle
      <3>7. QED
        BY <3>1, <3>2, <3>3, <3>4, <3>5, <3>6 DEF Discover, DiscoveryFails
    <2>3. QED
      BY <1>1, <2>1, <2>2 DEF RunsAnnounced, ToNotify
  <1>8. QED
    BY <1>5, <1>6, <1>7

\* What a worker writes to Video Master are rows that are there.
LEMMA WorkerKnows ==
    ASSUME CountInv, CatalogInv, NEW w \in Workers, Observe(w) \/ WorkerFails(w)
    PROVE  CatalogInv'
  <1> USE DEF CountInv, TypeOK, CatalogInv
  <1>1. UNCHANGED <<discovery, events>>
    BY DEF Observe, CheckDaily, PutDaily, Classify, UpsertUpdates, ReadForPatching, PatchEntries,
       PatchConflicts, WorkerReturns, WorkerFails, stores
  <1>2. worker[w] = Idle \/ worker[w] \in WorkerRuns
    OBVIOUS
  <1>3. worker[w] \in WorkerRuns
    BY <1>2 DEF Observe, CheckDaily, PutDaily, Classify, UpsertUpdates, ReadForPatching, PatchEntries,
       PatchConflicts, WorkerReturns, WorkerFails, Idle
  <1>4. worker[w] # Idle
    BY DEF Observe, CheckDaily, PutDaily, Classify, UpsertUpdates, ReadForPatching, PatchEntries,
       PatchConflicts, WorkerReturns, WorkerFails, Idle
  <1>5. \A v \in Videos : \/ master'[v] = master[v]
                          \/ worker[w].updates[v] # Absent /\ master'[v] = worker[w].updates[v]
    <2>1. \/ master' = master
          \/ \E videos \in SUBSET Videos : master' = Updated(master, worker[w].updates, videos)
      BY DEF Observe, CheckDaily, PutDaily, Classify, UpsertUpdates, ReadForPatching, PatchEntries,
         PatchConflicts, WorkerReturns, WorkerFails, stores
    <2>2. QED
      BY <2>1, UpdatedRows
  <1>6. \A v \in Videos : (master[v] # Absent) <=> (master'[v] # Absent)
    BY <1>4, <1>5 DEF UpdatesKnown
  <1>7. EventsFirst' /\ RunsAnnounced'
    BY <1>1, <1>6 DEF EventsFirst, RunsAnnounced, ToNotify
  <1>8. \A o \in Workers \ {w} : worker'[o] = worker[o]
    BY DEF Observe, CheckDaily, PutDaily, Classify, UpsertUpdates, ReadForPatching, PatchEntries,
       PatchConflicts, WorkerReturns, WorkerFails
  <1>9. CASE Classify(w)
    <2>1. /\ worker'[w].updates = [v \in Videos |-> Classified(worker[w].today, v)]
          /\ master' = master
      BY <1>3, <1>9 DEF Classify, WorkerRuns, stores
    <2>2. ASSUME NEW v \in Videos, worker'[w].updates[v] # Absent
          PROVE  master'[v] # Absent /\ worker'[w].updates[v].checked > 0
      <3>1. /\ v \in worker[w].today.rows /\ master[v] # Absent
            /\ worker'[w].updates[v].checked = worker[w].today.at
        BY <2>1, <2>2 DEF Classified
      <3>2. worker[w].today.at \in 1..MaxObserved
        BY <1>4, <3>1 DEF RunsReal, Real
      <3>3. QED
        BY <2>1, <3>1, <3>2, TrackingAssumption
    <2>3. QED
      BY <1>1, <1>7, <1>8, <2>1, <2>2 DEF UpdatesKnown
  <1>10. CASE ~Classify(w)
    <2>1. worker'[w] = Idle \/ worker'[w].updates = worker[w].updates
      <3>1. CASE CheckDaily(w) \/ PutDaily(w)
        BY <1>3, <3>1 DEF CheckDaily, PutDaily, WorkerRuns
      <3>2. CASE UpsertUpdates(w) \/ ReadForPatching(w) \/ PatchEntries(w)
        BY <1>3, <3>2 DEF UpsertUpdates, ReadForPatching, PatchEntries, WorkerRuns
      <3>3. CASE PatchConflicts(w) \/ WorkerReturns(w) \/ WorkerFails(w)
        BY <1>3, <3>3 DEF PatchConflicts, Retried, WorkerReturns, WorkerFails, WorkerRuns
      <3>4. QED
        BY <1>10, <3>1, <3>2, <3>3 DEF Observe
    <2>2. UpdatesKnown'
      BY <1>4, <1>6, <1>8, <2>1, KeptUpdates
    <2>3. QED
      BY <1>7, <2>2
  <1>11. QED
    BY <1>9, <1>10

LEMMA CatalogInvariant == Spec => []CatalogInv
  <1>1. Init => CatalogInv
    BY DEF Init, CatalogInv, RunsAnnounced, UpdatesKnown, EventsFirst, Idle
  <1>2. ASSUME CountInv, CatalogInv, [Next]_vars
        PROVE  CatalogInv'
    <2> USE DEF CatalogInv
    <2>1. ASSUME NEW w \in Workers, NEW date \in Dates, NEW s \in Shards, StartWorker(w, date, s)
          PROVE  CatalogInv'
      <3>1. UNCHANGED <<events, master, discovery>>
        BY <2>1 DEF StartWorker, stores
      <3>2. /\ \A o \in Workers \ {w} : worker'[o] = worker[o]
            /\ \A v \in Videos : worker'[w].updates[v] = Absent
        BY <1>2, <2>1 DEF StartWorker, CountInv, TypeOK
      <3>3. UpdatesKnown'
        BY <1>2, <3>1, <3>2, KeptUpdates
      <3>4. QED
        BY <1>2, <3>1, <3>3 DEF RunsAnnounced, ToNotify, EventsFirst
    <2>2. CASE (\E v \in Videos : Publish(v)) \/ UNCHANGED vars
      BY <1>2, <2>2 DEF Publish, vars, stores, RunsAnnounced, ToNotify, EventsFirst, UpdatesKnown
    <2>3. QED
      BY <1>2, <2>1, <2>2, DiscoveryKnows, WorkerKnows DEF Next
  <1>3. QED
    BY <1>1, <1>2, CountInvariant, PTL DEF Spec

\* main.py: a video that is not backlog has a row, and so is known for good,
\* only after its new-video event was recorded, whatever breaks or overlaps.
THEOREM EventsComeFirst == Spec => []EventsFirst
  BY CatalogInvariant, PTL DEF CatalogInv

\* A patch of a shard that changes it goes out from what is there.
LEMMA PatchKeeps ==
    ASSUME CountInv, CatalogInv, NEW s \in Shards, NEW new \in ManifestShards,
           manifest' = [manifest EXCEPT ![s] = new],
           \A v \in Videos : manifest[s].entries[v] # Absent =>
               /\ new.entries[v] # Absent
               /\ manifest[s].entries[v].checked > 0 => new.entries[v].checked > 0
    PROVE  \A v \in Tracked :
               /\ manifest'[ShardOf[v]].entries[v] # Absent
               /\ manifest[ShardOf[v]].entries[v].checked > 0 =>
                      manifest'[ShardOf[v]].entries[v].checked > 0
  BY TrackingAssumption DEF CountInv, TypeOK, Tracked

\* manifest_store: discovery and the workers patch the same shards, and neither
\* undoes what the other wrote: a tracked video stays tracked, and an observed
\* entry stays observed.
THEOREM TrackedForGood == Spec => TrackedStays
  <1> DEFINE Kept == \A v \in Tracked :
                        /\ manifest'[ShardOf[v]].entries[v] # Absent
                        /\ manifest[ShardOf[v]].entries[v].checked > 0 =>
                              manifest'[ShardOf[v]].entries[v].checked > 0
  <1>1. ASSUME CountInv, CatalogInv, [Next]_vars
        PROVE  [Kept]_manifest
    <2> USE DEF CountInv, TypeOK
    <2>1. ASSUME NEW d \in Discoveries, AddEntries(d) \/ AddFails(d)
          PROVE  [Kept]_manifest
      <3>1. discovery[d] \in DiscoveryRuns
        BY <1>1, <2>1 DEF AddEntries, AddFails, Idle
      <3>2. CASE UNCHANGED manifest
        BY <3>2
      <3>3. CASE /\ Unchanged(discovery[d])
                 /\ manifest' = [manifest EXCEPT ![discovery[d].shard] = Added(discovery[d])]
        <4>1. discovery[d].shard \in Shards /\ Added(discovery[d]) \in ManifestShards
          BY <1>1, <3>1, DiscoveryTypes DEF DiscoveryRuns
        <4>2. \A v \in Videos : discovery[d].seen.entries[v] # Absent =>
                  Added(discovery[d]).entries[v] = discovery[d].seen.entries[v]
          BY DEF Added
        <4>3. QED
          <5>1. \A v \in Videos : manifest[discovery[d].shard].entries[v] # Absent =>
                    Added(discovery[d]).entries[v] = manifest[discovery[d].shard].entries[v]
            BY <3>3, <4>2 DEF Unchanged
          <5> DEFINE s == discovery[d].shard
                     new == Added(discovery[d])
          <5> HIDE DEF CountInv, TypeOK, s, new
          <5>2. Kept
            <6>1. /\ s \in Shards /\ new \in ManifestShards
                  /\ manifest' = [manifest EXCEPT ![s] = new]
              BY <3>3, <4>1 DEF s, new
            <6>2. \A v \in Videos : manifest[s].entries[v] # Absent =>
                      /\ new.entries[v] # Absent
                      /\ manifest[s].entries[v].checked > 0 => new.entries[v].checked > 0
              BY <5>1 DEF s, new
            <6>3. QED
              BY <1>1, <6>1, <6>2, PatchKeeps
          <5>3. QED
            BY <5>2
      <3>4. QED
        BY <2>1, <3>2, <3>3 DEF AddEntries, AddFails
    <2>2. ASSUME NEW w \in Workers, PatchEntries(w) \/ WorkerFails(w)
          PROVE  [Kept]_manifest
      <3>1. worker[w] \in WorkerRuns /\ worker[w] # Idle
        BY <1>1, <2>2 DEF PatchEntries, WorkerFails, Idle
      <3>2. CASE UNCHANGED manifest
        BY <3>2
      <3>3. CASE /\ Unchanged(worker[w])
                 /\ manifest' = [manifest EXCEPT ![worker[w].shard] = Patched(worker[w])]
        <4>1. worker[w].shard \in Shards /\ Patched(worker[w]) \in ManifestShards
          <5>1. worker[w].shard \in Shards
            BY <3>1 DEF WorkerRuns
          <5>2. Patched(worker[w]) \in ManifestShards
            BY <1>1, <3>1, WorkerTypes DEF CountInv
          <5>3. QED
            BY <5>1, <5>2
        <4>2. \A v \in Videos :
                  \/ Patched(worker[w]).entries[v] = worker[w].seen.entries[v]
                  \/ /\ worker[w].updates[v] # Absent
                     /\ Patched(worker[w]).entries[v] = worker[w].updates[v]
          BY UpdatedRows DEF Patched
        <4>3. \A v \in Videos : worker[w].updates[v] # Absent => worker[w].updates[v].checked > 0
          BY <1>1, <3>1 DEF CatalogInv, UpdatesKnown
        <4>4. QED
          <5>1. \A v \in Videos : manifest[worker[w].shard].entries[v] # Absent =>
                    \/ Patched(worker[w]).entries[v] = manifest[worker[w].shard].entries[v]
                    \/ /\ Patched(worker[w]).entries[v] # Absent
                       /\ Patched(worker[w]).entries[v].checked > 0
            BY <3>3, <4>2, <4>3 DEF Unchanged
          <5> HIDE DEF CountInv, TypeOK
          <5>2. Kept
            BY <1>1, <3>3, <4>1, <5>1, PatchKeeps
          <5>3. QED
            BY <5>2
      <3>4. QED
        BY <2>2, <3>2, <3>3 DEF PatchEntries, WorkerFails, stores
    <2>3. ASSUME UNCHANGED manifest
          PROVE  [Kept]_manifest
      BY <2>3
    <2>4. QED
      BY <1>1, <2>1, <2>2, <2>3 DEF Next, Publish, StartWorker, Observe, Discover, DiscoveryFails,
         StartDiscovery, RecordEvents, UpsertFound, ReadForAdding, AddConflicts, RecordBreaks,
         UpsertFoundBreaks, DiscoveryDies, CheckDaily, PutDaily, Classify, UpsertUpdates,
         ReadForPatching, PatchConflicts, WorkerReturns, vars, stores
  <1>2. QED
    BY <1>1, CountInvariant, CatalogInvariant, PTL DEF Spec, TrackedStays

=============================================================================
