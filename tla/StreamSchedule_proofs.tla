------------------------ MODULE StreamSchedule_proofs ------------------------
(***************************************************************************)
(* Proofs about StreamSchedule for every set of streams, containers and    *)
(* refreshes: the stored schedule is as new as it says, never goes back to *)
(* an older refresh, and keeps every notice it announced until the notice  *)
(* is settled.                                                             *)
(***************************************************************************)
EXTENDS StreamSchedule, TLAPS

-----------------------------------------------------------------------------
(* The inductive invariant *)

Runs == [pc      : {"idle", "source", "derive", "register", "list", "write", "invalidate", "pass"},
         base    : Schedules,
         source  : 0..MaxRefreshes,
         started : 0..(2 * MaxRefreshes + 1),
         fresh   : Schedules,
         new     : SUBSET Collisions,
         late    : BOOLEAN]

\* A schedule lists its own collisions, and its entries are as new as its
\* revision says, and at most one refresh newer.
Sound(s) ==
    /\ s.pending \subseteq Detected(s.streams)
    /\ s.revision <= 2 * s.from + 1
    /\ 2 * s.from <= s.revision + 2
    /\ s.source # 0 => s.revision = 2 * s.source /\ s.source <= s.from

\* What a run knows at each step: `at` is the refresh that is shown, `memory`
\* what its container remembers.
Fits(r, at, known) ==
    /\ Sound(r.base)
    /\ r.pc \in {"source", "derive"} => r.started = IF r.late THEN 2 * at - 1 ELSE 2 * at + 1
    /\ r.pc = "derive" /\ r.source # 0 => r.source <= at /\ r.started <= 2 * r.source + 1
    /\ r.pc \in {"register", "list"} =>
          /\ r.fresh.source = r.source
          /\ r.started <= 2 * r.fresh.from + 1
          /\ 2 * r.fresh.from <= r.started + 1
          /\ r.source # 0 => r.source <= r.fresh.from /\ r.started <= 2 * r.source + 1
    /\ r.pc \in {"register", "list", "write"} => r.new = NewNotices(r.base, r.fresh.streams)
    /\ r.pc \in {"list", "write"} => r.new \cap known = {}
    /\ r.pc = "write" => r.new \subseteq r.fresh.pending
    /\ r.pc \in {"write", "invalidate", "pass"} => Sound(r.fresh)

RunsFit ==
    /\ run \in [Containers -> Runs]
    /\ \A k \in Containers : Fits(run[k], shown.at, memory[k])

DerivedInv == TypeOK /\ RunsFit /\ Sound(record)

-----------------------------------------------------------------------------
(* Runs and schedules *)

LEMMA NoRecordSound == NoRecord \in Schedules /\ Sound(NoRecord) /\ NoRecord.source = 0
  BY StreamScheduleAssumption DEF NoRecord, Schedules, Sound, Detected

LEMMA IdleFits == ASSUME NEW at, NEW known PROVE Idle \in Runs /\ Fits(Idle, at, known) /\ Idle.pc = "idle"
  BY NoRecordSound, StreamScheduleAssumption DEF Idle, Runs, Fits

LEMMA ServesFits ==
    ASSUME NEW k \in Containers, run[k] \in Runs, NEW s \in Schedules, Sound(s), NEW at, NEW known
    PROVE  Serves(k, s) \in Runs /\ Fits(Serves(k, s), at, known) /\ Serves(k, s).pc = "pass"
  <1> DEFINE r == Serves(k, s)
  <1>1. /\ r.pc = "pass" /\ r.base = NoRecord /\ r.source = 0 /\ r.started = 0
        /\ r.fresh = s /\ r.new = {} /\ r.late = run[k].late /\ r \in Runs
    <2>1. /\ Idle \in Runs /\ Idle.base = NoRecord /\ Idle.source = 0 /\ Idle.started = 0 /\ Idle.new = {}
      BY IdleFits DEF Idle
    <2>2. QED
      BY <2>1 DEF Serves, Runs
  <1> HIDE DEF r
  <1>2. Fits(r, at, known)
    BY <1>1, NoRecordSound DEF Fits
  <1>3. QED
    BY <1>1, <1>2 DEF r

LEMMA DetectedCollisions == \A streams : Detected(streams) \subseteq Collisions
  BY DEF Detected

LEMMA NewDetected ==
    ASSUME NEW base, NEW streams
    PROVE  NewNotices(base, streams) \subseteq Detected(streams) /\ NewNotices(base, streams) \subseteq Collisions
  BY DetectedCollisions DEF NewNotices

\* A step of one run, as far as the runs are concerned.
OneRun(k, r) ==
    /\ run' = [run EXCEPT ![k] = r]
    /\ shown' = shown
    /\ \A j \in Containers \ {k} : memory'[j] = memory[j]

LEMMA OneRunFits ==
    ASSUME DerivedInv, NEW k \in Containers, NEW r \in Runs, OneRun(k, r), Fits(r, shown.at, memory'[k])
    PROVE  RunsFit' /\ run'[k] = r /\ \A j \in Containers \ {k} : run'[j] = run[j]
  <1>1. run'[k] = r /\ \A j \in Containers \ {k} : run'[j] = run[j]
    BY DEF OneRun, DerivedInv, RunsFit
  <1>2. run' \in [Containers -> Runs]
    BY DEF OneRun, DerivedInv, RunsFit
  <1>3. \A j \in Containers : Fits(run'[j], shown'.at, memory'[j])
    BY <1>1 DEF OneRun, DerivedInv, RunsFit
  <1>4. QED
    BY <1>1, <1>2, <1>3 DEF RunsFit

\* The rest of the state, once the runs fit.
LEMMA TypesFromRuns ==
    ASSUME RunsFit',
           shown' \in [streams : SUBSET Streams, at : 1..MaxRefreshes],
           record' \in Schedules, Sound(record'),
           ledgers' \in [Collisions -> {"none", "pending", "settled"}],
           memory' \in [Containers -> SUBSET Collisions],
           owed' \subseteq Collisions, faults' \in 0..MaxFaults
    PROVE  DerivedInv'
  BY DEF DerivedInv, TypeOK, RunsFit, Runs, Sound

LEMMA FailsType == DerivedInv /\ Fails => faults' \in 0..MaxFaults
  BY StreamScheduleAssumption DEF DerivedInv, TypeOK, Fails

LEMMA RunFacts ==
    ASSUME DerivedInv, NEW k \in Containers
    PROVE  /\ run[k] \in Runs /\ Fits(run[k], shown.at, memory[k])
           /\ shown.at \in 1..MaxRefreshes /\ shown.streams \in SUBSET Streams
           /\ record \in Schedules /\ Sound(record)
           /\ memory[k] \subseteq Collisions
  BY DEF DerivedInv, TypeOK, RunsFit

-----------------------------------------------------------------------------
(* The steps *)

LEMMA RefreshDerived ==
    ASSUME DerivedInv, Refresh
    PROVE  DerivedInv'
  <1>1. /\ shown.at \in 1..MaxRefreshes /\ shown'.at = shown.at + 1
        /\ shown' \in [streams : SUBSET Streams, at : 1..MaxRefreshes]
        /\ UNCHANGED <<record, ledgers, memory, owed, faults>>
    BY StreamScheduleAssumption DEF Refresh, DerivedInv, TypeOK
  <1>2. ASSUME NEW k \in Containers
        PROVE  run'[k] \in Runs /\ Fits(run'[k], shown'.at, memory'[k])
    <2> DEFINE r == run'[k]
    <2>1. run[k] \in Runs /\ Fits(run[k], shown.at, memory[k]) /\ ~run[k].late
      BY RunFacts DEF Refresh
    <2>2. r = [run[k] EXCEPT !.late = (run[k].pc # "idle")]
      BY DEF Refresh
    <2>3. /\ r \in Runs /\ r.pc = run[k].pc /\ r.base = run[k].base /\ r.source = run[k].source
          /\ r.started = run[k].started /\ r.fresh = run[k].fresh /\ r.new = run[k].new
          /\ r.late = (run[k].pc # "idle")
      BY <2>1, <2>2 DEF Runs
    <2>4. r.started \in Int /\ r.source \in Int
      BY <2>3 DEF Runs
    <2> HIDE DEF r
    <2>5. r.pc \in {"source", "derive"} => r.started = IF r.late THEN 2 * shown'.at - 1 ELSE 2 * shown'.at + 1
      <3>1. ASSUME r.pc \in {"source", "derive"}
            PROVE  r.late = TRUE /\ r.started = 2 * shown.at + 1
        BY <2>1, <2>3, <3>1 DEF Fits
      <3>2. 2 * shown'.at - 1 = 2 * shown.at + 1
        BY <1>1
      <3>3. QED
        BY <3>1, <3>2
    <2>6. r.pc = "derive" /\ r.source # 0 => r.source <= shown'.at /\ r.started <= 2 * r.source + 1
      BY <1>1, <2>1, <2>3, <2>4 DEF Fits
    <2>7. Fits(r, shown'.at, memory'[k])
      BY <1>1, <2>1, <2>3, <2>5, <2>6 DEF Fits
    <2>8. QED
      BY <2>3, <2>7 DEF r
  <1>3. run' \in [Containers -> Runs]
    <2>1. run' = [k \in Containers |-> run'[k]]
      BY DEF Refresh
    <2>2. QED
      BY <1>2, <2>1
  <1>4. RunsFit'
    BY <1>2, <1>3 DEF RunsFit
  <1>5. QED
    BY <1>1, <1>4, TypesFromRuns DEF DerivedInv, TypeOK

LEMMA StartDerived ==
    ASSUME DerivedInv, NEW k \in Containers, Start(k)
    PROVE  DerivedInv'
  <1> DEFINE r == [Idle EXCEPT !.pc = "source", !.base = record, !.started = 2 * shown.at + 1]
  <1>1. /\ r \in Runs /\ r.pc = "source" /\ r.base = record /\ r.started = 2 * shown.at + 1
        /\ r.late = FALSE
    <2>1. Idle \in Runs /\ Idle.late = FALSE
      BY IdleFits DEF Idle
    <2>2. 2 * shown.at + 1 \in 0..(2 * MaxRefreshes + 1) /\ record \in Schedules
      BY RunFacts, StreamScheduleAssumption
    <2>3. QED
      BY <2>1, <2>2 DEF Runs
  <1>2. OneRun(k, r) /\ UNCHANGED <<shown, record, ledgers, memory, owed, faults>>
    BY DEF Start, OneRun
  <1> HIDE DEF r
  <1>3. Fits(r, shown.at, memory'[k])
    BY <1>1, RunFacts DEF Fits
  <1>4. RunsFit'
    BY <1>1, <1>2, <1>3, OneRunFits
  <1>5. QED
    BY <1>2, <1>4, TypesFromRuns DEF DerivedInv, TypeOK

LEMMA ReadSourceDerived ==
    ASSUME DerivedInv, NEW k \in Containers, ReadSource(k)
    PROVE  DerivedInv'
  <1>1. /\ run[k] \in Runs /\ Fits(run[k], shown.at, memory[k]) /\ run[k].pc = "source"
        /\ shown.at \in 1..MaxRefreshes
    BY RunFacts DEF ReadSource
  <1>2. /\ UNCHANGED <<shown, record, ledgers, memory, owed>>
        /\ faults' \in 0..MaxFaults
    BY FailsType DEF ReadSource, DerivedInv, TypeOK
  <1>3. PICK r :
           /\ \/ r = Serves(k, run[k].base)
              \/ \E source \in {0, shown.at} : r = [run[k] EXCEPT !.source = source, !.pc = "derive"]
           /\ run' = [run EXCEPT ![k] = r]
    <2>1. run \in [Containers -> Runs]
      BY DEF DerivedInv, RunsFit
    <2>2. PICK unknown, current :
             run' = [run EXCEPT ![k] = IF current THEN Serves(k, run[k].base)
                        ELSE [@ EXCEPT !.source = IF unknown THEN 0 ELSE shown.at, !.pc = "derive"]]
      BY Zenon DEF ReadSource
    <2>3. CASE current
      BY <2>1, <2>2, <2>3
    <2>4. CASE ~current
      BY <2>1, <2>2, <2>4
    <2>5. QED
      BY <2>3, <2>4
  <1>4. r \in Runs /\ Fits(r, shown.at, memory[k])
    <2>1. CASE r = Serves(k, run[k].base)
      <3>1. run[k].base \in Schedules /\ Sound(run[k].base)
        BY <1>1 DEF Fits, Runs
      <3>2. QED
        BY <1>1, <2>1, <3>1, ServesFits
    <2>2. ASSUME NEW source \in {0, shown.at}, r = [run[k] EXCEPT !.source = source, !.pc = "derive"]
          PROVE  r \in Runs /\ Fits(r, shown.at, memory[k])
      <3>1. source \in 0..MaxRefreshes
        BY <1>1, StreamScheduleAssumption
      <3>2. /\ r \in Runs /\ r.pc = "derive" /\ r.source = source /\ r.base = run[k].base
            /\ r.started = run[k].started /\ r.late = run[k].late
        BY <1>1, <2>2, <3>1 DEF Runs
      <3>3. r.started \in Int
        BY <3>2 DEF Runs
      <3>4. QED
        BY <1>1, <3>2, <3>3 DEF Fits
    <2>3. QED
      BY <1>3, <2>1, <2>2
  <1>5. RunsFit'
    BY <1>2, <1>3, <1>4, OneRunFits DEF OneRun
  <1>6. QED
    BY <1>2, <1>5, TypesFromRuns DEF DerivedInv, TypeOK

\* The entries may be newer than the heartbeat that was read before them.
LEMMA DeriveDerived ==
    ASSUME DerivedInv, NEW k \in Containers, Derive(k)
    PROVE  DerivedInv'
  <1>1. /\ run[k] \in Runs /\ Fits(run[k], shown.at, memory[k]) /\ run[k].pc = "derive"
        /\ shown.at \in 1..MaxRefreshes /\ shown.streams \in SUBSET Streams
    BY RunFacts DEF Derive
  <1>2. /\ UNCHANGED <<shown, record, ledgers, memory, owed>>
        /\ faults' \in 0..MaxFaults
    BY FailsType DEF Derive, DerivedInv, TypeOK
  <1> DEFINE fresh == [streams |-> shown.streams, from |-> shown.at, source |-> run[k].source,
                       revision |-> 0, pending |-> {}]
             new == NewNotices(run[k].base, fresh.streams)
             derived == [run[k] EXCEPT !.fresh = fresh, !.pc = "register", !.new = new]
  <1>3. PICK r \in {Serves(k, run[k].base), derived} : run' = [run EXCEPT ![k] = r]
    BY <1>1 DEF Derive, Runs, DerivedInv, RunsFit
  <1>4. r \in Runs /\ Fits(r, shown.at, memory[k])
    <2>1. CASE r = Serves(k, run[k].base)
      <3>1. run[k].base \in Schedules /\ Sound(run[k].base)
        BY <1>1 DEF Fits, Runs
      <3>2. QED
        BY <1>1, <2>1, <3>1, ServesFits
    <2>2. CASE r = derived
      <3>1. fresh \in Schedules /\ fresh.from = shown.at /\ fresh.source = run[k].source
        BY <1>1, StreamScheduleAssumption DEF Schedules, Runs
      <3>2. new \subseteq Collisions
        BY NewDetected
      <3> HIDE DEF fresh
      <3>3. /\ r \in Runs /\ r.pc = "register" /\ r.source = run[k].source /\ r.base = run[k].base
            /\ r.started = run[k].started /\ r.fresh = fresh
            /\ r.new = NewNotices(r.base, r.fresh.streams)
        BY <1>1, <2>2, <3>1, <3>2 DEF Runs
      <3>4. r.started \in Int /\ r.source \in Int /\ shown.at \in Int
        BY <1>1, <3>3 DEF Runs
      <3>5. /\ r.started <= 2 * shown.at + 1 /\ 2 * shown.at <= r.started + 1
            /\ r.source # 0 => r.source <= shown.at /\ r.started <= 2 * r.source + 1
            /\ Sound(r.base)
        BY <1>1, <3>3, <3>4 DEF Fits
      <3>6. QED
        BY <3>1, <3>3, <3>5 DEF Fits
    <2>3. QED
      BY <1>3, <2>1, <2>2
  <1>5. RunsFit'
    BY <1>2, <1>3, <1>4, OneRunFits DEF OneRun
  <1>6. QED
    BY <1>2, <1>5, TypesFromRuns DEF DerivedInv, TypeOK

LEMMA RegisterDerived ==
    ASSUME DerivedInv, NEW k \in Containers, Register(k)
    PROVE  DerivedInv'
  <1>1. /\ run[k] \in Runs /\ Fits(run[k], shown.at, memory[k]) /\ run[k].pc = "register"
    BY RunFacts DEF Register
  <1>2. /\ UNCHANGED <<shown, record, owed>> /\ faults' \in 0..MaxFaults
        /\ ledgers' \in [Collisions -> {"none", "pending", "settled"}]
        /\ memory' = [memory EXCEPT ![k] = memory[k] \ run[k].new]
        /\ memory' \in [Containers -> SUBSET Collisions]
    BY FailsType DEF Register, DerivedInv, TypeOK
  <1> DEFINE r == [run[k] EXCEPT !.pc = "list"]
  <1>3. run' = [run EXCEPT ![k] = r]
    BY DEF Register
  <1>4. /\ r \in Runs /\ r.pc = "list" /\ r.source = run[k].source /\ r.base = run[k].base
        /\ r.started = run[k].started /\ r.fresh = run[k].fresh /\ r.new = run[k].new
    BY <1>1 DEF Runs
  <1> HIDE DEF r
  <1>5. memory'[k] = memory[k] \ run[k].new /\ \A j \in Containers \ {k} : memory'[j] = memory[j]
    BY <1>2 DEF DerivedInv, TypeOK
  <1>6. Fits(r, shown.at, memory'[k])
    BY <1>1, <1>4, <1>5 DEF Fits
  <1>7. RunsFit'
    BY <1>2, <1>3, <1>4, <1>5, <1>6, OneRunFits DEF OneRun
  <1>8. QED
    BY <1>2, <1>7, TypesFromRuns DEF DerivedInv, TypeOK

\* The record to store says no more than its run knows.
LEMMA ListDerived ==
    ASSUME DerivedInv, NEW k \in Containers, ListPending(k)
    PROVE  DerivedInv'
  <1>1. /\ run[k] \in Runs /\ Fits(run[k], shown.at, memory[k]) /\ run[k].pc = "list"
    BY RunFacts DEF ListPending
  <1> DEFINE base == run[k].base
             streams == run[k].fresh.streams
  <1>2. PICK unread \in SUBSET (base.pending \ memory[k]) :
           /\ run' = [run EXCEPT ![k].pc = "write", ![k].fresh.revision = Revision(k),
                        ![k].fresh.pending = NextPending(k, base, streams, run[k].new, unread)]
           /\ memory' = [memory EXCEPT ![k] = @ \cup
                {S \in (base.pending \cap Detected(streams)) \ (unread \cup run[k].new) :
                    ledgers[S] = "settled"}]
           /\ faults' \in 0..MaxFaults
    BY FailsType DEF ListPending, DerivedInv, TypeOK
  <1>3. UNCHANGED <<shown, record, ledgers, owed>>
    BY DEF ListPending
  <1> DEFINE pending == NextPending(k, base, streams, run[k].new, unread)
             fresh == [run[k].fresh EXCEPT !.revision = Revision(k), !.pending = pending]
             r == [run[k] EXCEPT !.pc = "write", !.fresh = fresh]
  <1>4. pending \subseteq Detected(streams) /\ run[k].new \subseteq pending /\ pending \subseteq Collisions
    BY <1>1, NewDetected, DetectedCollisions DEF NextPending, StillPending, Fits
  <1>5. Revision(k) \in 0..(2 * MaxRefreshes + 1)
    BY <1>1, StreamScheduleAssumption DEF Revision, Runs
  <1> HIDE DEF pending
  <1>6. /\ fresh \in Schedules /\ fresh.revision = Revision(k) /\ fresh.pending = pending
        /\ fresh.from = run[k].fresh.from /\ fresh.source = run[k].fresh.source /\ fresh.streams = streams
    BY <1>1, <1>4, <1>5 DEF Schedules, Runs
  <1>7. Sound(fresh)
    <2>1. /\ run[k].source \in Int /\ run[k].started \in Int /\ run[k].fresh.from \in Int
      BY <1>1 DEF Runs, Schedules
    <2>2. QED
      BY <1>1, <1>4, <1>6, <2>1 DEF Sound, Fits, Revision
  <1>8. run' = [run EXCEPT ![k] = r]
    BY <1>1, <1>2 DEF DerivedInv, RunsFit, Runs, Schedules, pending
  <1> HIDE DEF fresh
  <1>9. /\ r \in Runs /\ r.pc = "write" /\ r.base = base /\ r.fresh = fresh /\ r.new = run[k].new
    BY <1>1, <1>6 DEF Runs
  <1> HIDE DEF r
  <1>10. /\ memory' \in [Containers -> SUBSET Collisions]
         /\ memory'[k] \cap run[k].new = memory[k] \cap run[k].new
         /\ \A j \in Containers \ {k} : memory'[j] = memory[j]
    BY <1>2, DetectedCollisions DEF DerivedInv, TypeOK
  <1>11. Fits(r, shown.at, memory'[k])
    BY <1>1, <1>4, <1>6, <1>7, <1>9, <1>10 DEF Fits
  <1>12. RunsFit'
    BY <1>3, <1>8, <1>9, <1>10, <1>11, OneRunFits DEF OneRun
  <1>13. QED
    BY <1>2, <1>3, <1>10, <1>12, TypesFromRuns DEF DerivedInv, TypeOK

LEMMA WriteDerived ==
    ASSUME DerivedInv, NEW k \in Containers, WriteRecord(k)
    PROVE  DerivedInv'
  <1>1. /\ run[k] \in Runs /\ Fits(run[k], shown.at, memory[k]) /\ run[k].pc = "write"
        /\ record \in Schedules /\ Sound(record)
    BY RunFacts DEF WriteRecord
  <1>2. /\ UNCHANGED <<shown, ledgers, memory>> /\ faults' \in 0..MaxFaults
        /\ record' \in {record, run[k].fresh}
        /\ owed' \subseteq owed \cup run[k].new
    BY FailsType DEF WriteRecord, DerivedInv, TypeOK
  <1>3. record' \in Schedules /\ Sound(record') /\ owed' \subseteq Collisions
    BY <1>1, <1>2 DEF Fits, Runs, DerivedInv, TypeOK
  <1> DEFINE written == [run[k] EXCEPT !.pc = "invalidate"]
  <1>4. PICK r \in {written, Serves(k, record), Idle} : run' = [run EXCEPT ![k] = r]
    BY DEF WriteRecord
  <1>5. r \in Runs /\ Fits(r, shown.at, memory[k])
    <2>1. CASE r = written
      <3>1. /\ r \in Runs /\ r.pc = "invalidate" /\ r.base = run[k].base /\ r.fresh = run[k].fresh
        BY <1>1, <2>1 DEF Runs
      <3>2. QED
        BY <1>1, <3>1 DEF Fits
    <2>2. CASE r = Serves(k, record)
      BY <1>1, <2>2, ServesFits
    <2>3. CASE r = Idle
      BY <2>3, IdleFits
    <2>4. QED
      BY <1>4, <2>1, <2>2, <2>3
  <1>6. RunsFit'
    BY <1>2, <1>4, <1>5, OneRunFits DEF OneRun
  <1>7. QED
    BY <1>2, <1>3, <1>6, TypesFromRuns DEF DerivedInv, TypeOK

LEMMA LastStepsDerived ==
    ASSUME DerivedInv, NEW k \in Containers, Invalidate(k) \/ Pass(k) \/ Crash(k)
    PROVE  DerivedInv'
  <1>1. /\ run[k] \in Runs /\ Fits(run[k], shown.at, memory[k])
    BY RunFacts
  <1>2. /\ UNCHANGED <<shown, record>> /\ faults' \in 0..MaxFaults
        /\ owed' \subseteq owed
        /\ ledgers' \in [Collisions -> {"none", "pending", "settled"}]
    BY FailsType DEF Invalidate, Pass, Crash, DerivedInv, TypeOK
  <1>3. \E known \in SUBSET Collisions : memory' = [memory EXCEPT ![k] = known]
    <2>1. CASE Invalidate(k)
      BY <2>1, RunFacts DEF Invalidate
    <2>2. CASE Pass(k)
      <3>1. \A listed, streams : listed \cap Detected(streams) \subseteq Collisions
        BY DetectedCollisions
      <3>2. QED
        BY <2>2, <3>1, RunFacts DEF Pass, Remembered
    <2>3. CASE Crash(k)
      BY <2>3, RunFacts DEF Crash, DerivedInv, TypeOK
    <2>4. QED
      BY <2>1, <2>2, <2>3
  <1>4. memory' \in [Containers -> SUBSET Collisions] /\ \A j \in Containers \ {k} : memory'[j] = memory[j]
    BY <1>3 DEF DerivedInv, TypeOK
  <1>5. PICK r \in {Serves(k, run[k].fresh), Idle} :
           run' = [run EXCEPT ![k] = r] /\ (r # Idle => run[k].pc = "invalidate")
    BY DEF Invalidate, Pass, Crash
  <1>6. r \in Runs /\ Fits(r, shown.at, memory'[k])
    <2>1. CASE r = Idle
      BY <2>1, IdleFits
    <2>2. CASE r # Idle
      BY <1>1, <1>5, <2>2, ServesFits DEF Fits, Runs
    <2>3. QED
      BY <2>1, <2>2
  <1>7. RunsFit'
    BY <1>2, <1>4, <1>5, <1>6, OneRunFits DEF OneRun
  <1>8. QED
    BY <1>2, <1>4, <1>7, TypesFromRuns DEF DerivedInv, TypeOK

-----------------------------------------------------------------------------
(* The stored entries *)

LEMMA InitDerived == Init => DerivedInv
  <1> SUFFICES ASSUME Init PROVE DerivedInv
    OBVIOUS
  <1>1. /\ shown \in [streams : SUBSET Streams, at : 1..MaxRefreshes] /\ record = NoRecord
        /\ ledgers = [S \in Collisions |-> "none"] /\ memory = [k \in Containers |-> {}]
        /\ run = [k \in Containers |-> Idle] /\ owed = {} /\ faults = 0
    BY StreamScheduleAssumption DEF Init
  <1>2. /\ run \in [Containers -> Runs]
        /\ \A k \in Containers : Fits(run[k], shown.at, memory[k])
    BY <1>1, IdleFits
  <1>3. TypeOK
    BY <1>1, <1>2, NoRecordSound, StreamScheduleAssumption DEF TypeOK, Runs, Sound
  <1>4. QED
    BY <1>1, <1>2, <1>3, NoRecordSound DEF DerivedInv, RunsFit

LEMMA StepDerived == DerivedInv /\ [Next]_vars => DerivedInv'
  <1> SUFFICES ASSUME DerivedInv, [Next]_vars
               PROVE  DerivedInv'
    OBVIOUS
  <1>1. CASE UNCHANGED vars
    BY <1>1 DEF vars, DerivedInv, TypeOK, RunsFit
  <1>2. CASE Next
    BY <1>2, RefreshDerived, StartDerived, ReadSourceDerived, DeriveDerived, RegisterDerived, ListDerived,
       WriteDerived, LastStepsDerived DEF Next, Step
  <1>3. QED
    BY <1>1, <1>2

LEMMA DerivedInvariant == Spec => []DerivedInv
  BY InitDerived, StepDerived, PTL DEF Spec

\* The stored entries are never older than the record says: the revision is
\* the refresh that was read before deriving, and a refresh that falls in
\* between only makes the entries newer.
THEOREM EntriesAreAsNew == Spec => []NeverClaimsNewer
  <1>1. DerivedInv => NeverClaimsNewer
    BY DEF DerivedInv, NeverClaimsNewer, Sound, TypeOK, Schedules
  <1>2. QED
    BY <1>1, DerivedInvariant, PTL

\* A record whose freshness was known never puts entries of an older refresh
\* in the place of newer ones, whatever runs overlap and whether or not the
\* freshness of the record it replaces was known: because no run sees more
\* than one refresh, entries are at most one refresh newer than their
\* revision, and the conditional write asks for a newer one.
THEOREM EntriesGoForward == Spec => NeverGoesBack
  <1>1. ASSUME DerivedInv, [Next]_vars, record' # record, record'.source # 0
        PROVE  record'.from >= record.from
    <2>1. PICK k \in Containers : WriteRecord(k)
      BY <1>1, Zenon DEF Next, vars, Step, Refresh, Start, ReadSource, Derive, Register, ListPending, Invalidate,
                  Pass, Crash
    <2>2. /\ run[k] \in Runs /\ Fits(run[k], shown.at, memory[k]) /\ run[k].pc = "write"
          /\ record \in Schedules /\ Sound(record) /\ run[k].fresh \in Schedules
      BY <1>1, <2>1, RunFacts DEF WriteRecord, Runs
    <2>3. record' = run[k].fresh /\ (record = NoRecord \/ record.revision < record'.revision)
      BY <1>1, <2>1 DEF WriteRecord, IfNewer
    <2>4. record'.revision = 2 * record'.source /\ record'.source <= record'.from
      BY <1>1, <2>2, <2>3 DEF Fits, Sound
    <2>5. /\ record.from \in Int /\ record.revision \in Int /\ record'.from \in Int
          /\ record'.source \in Int /\ record'.revision \in Int
      BY <2>2, <2>3 DEF Schedules
    <2>6. CASE record = NoRecord
      <3>1. record'.from >= 0
        BY <2>2, <2>3 DEF Schedules
      <3>2. QED
        BY <2>6, <3>1 DEF NoRecord
    <2>7. CASE record.revision < record'.revision
      <3>1. 2 * record.from <= record.revision + 2
        BY <2>2 DEF Sound
      <3>2. QED
        BY <2>4, <2>5, <2>7, <3>1
    <2>8. QED
      BY <2>3, <2>6, <2>7
  <1>2. ASSUME DerivedInv, [Next]_vars
        PROVE  [record' # record /\ record'.source # 0 => record'.from >= record.from]_vars
    BY <1>1, <1>2
  <1>3. QED
    BY <1>2, DerivedInvariant, PTL DEF Spec, NeverGoesBack

-----------------------------------------------------------------------------
(* Announced notices *)

\* What a run must know of a notice that is announced and not settled: it will
\* list the notice again if it stores a schedule that still has the collision.
Keeps(S, r, known) ==
    /\ S \notin known
    /\ r.pc \in {"source", "derive"} => S \in r.base.pending \cup NewNotices(r.base, S)
    /\ r.pc \in {"register", "list"} /\ r.fresh.streams = S => S \in r.base.pending \cup r.new
    /\ r.pc = "write" /\ r.fresh.streams = S => S \in r.fresh.pending

OwedKept ==
    \A S \in owed :
        /\ ledgers[S] # "none"
        /\ ledgers[S] = "pending" =>
              /\ S \in record.pending
              /\ \A k \in Containers : Keeps(S, run[k], memory[k])

\* Ledgers of announced notices are settled, and never opened again.
LedgersGoOn ==
    \A S \in owed' : \/ ledgers'[S] = ledgers[S]
                     \/ ledgers[S] = "pending" /\ ledgers'[S] = "settled"

LEMMA KeptByOne ==
    ASSUME DerivedInv, OwedKept, NEW k \in Containers, NEW r, OneRun(k, r),
           record' = record, owed' \subseteq owed, LedgersGoOn,
           \A S \in owed : ledgers[S] = "pending" /\ ledgers'[S] = "pending" /\ S \in record.pending
                              /\ Keeps(S, run[k], memory[k]) => Keeps(S, r, memory'[k])
    PROVE  OwedKept'
  <1>1. run'[k] = r /\ \A j \in Containers \ {k} : run'[j] = run[j] /\ memory'[j] = memory[j]
    BY DEF OneRun, DerivedInv, RunsFit
  <1>2. ASSUME NEW S \in owed'
        PROVE  /\ ledgers'[S] # "none"
               /\ ledgers'[S] = "pending" =>
                     S \in record.pending /\ \A j \in Containers : Keeps(S, run'[j], memory'[j])
    <2>1. S \in owed /\ ledgers[S] # "none"
      BY DEF OwedKept
    <2>2. ledgers'[S] # "none" /\ (ledgers'[S] = "pending" => ledgers[S] = "pending")
      BY <2>1 DEF LedgersGoOn
    <2>3. ASSUME ledgers'[S] = "pending"
          PROVE  S \in record.pending /\ \A j \in Containers : Keeps(S, run'[j], memory'[j])
      <3>1. S \in record.pending /\ \A j \in Containers : Keeps(S, run[j], memory[j])
        BY <2>1, <2>2, <2>3 DEF OwedKept
      <3>2. Keeps(S, r, memory'[k])
        BY <2>1, <2>2, <2>3, <3>1
      <3>3. QED
        BY <1>1, <3>1, <3>2
    <2>4. QED
      BY <2>2, <2>3
  <1>3. QED
    BY <1>2 DEF OwedKept

\* A run that is past its write, or over, owes nothing.
LEMMA LateKeeps ==
    ASSUME NEW S, NEW r, NEW known, S \notin known, r.pc \in {"idle", "invalidate", "pass"}
    PROVE  Keeps(S, r, known)
  BY DEF Keeps

LEMMA StartKept ==
    ASSUME DerivedInv, OwedKept, NEW k \in Containers, Start(k)
    PROVE  OwedKept'
  <1> DEFINE r == [Idle EXCEPT !.pc = "source", !.base = record, !.started = 2 * shown.at + 1]
  <1>1. r.pc = "source" /\ r.base = record
    <2>1. Idle \in Runs
      BY IdleFits
    <2>2. QED
      BY <2>1 DEF Runs
  <1>2. OneRun(k, r) /\ UNCHANGED <<record, ledgers, memory, owed>>
    BY DEF Start, OneRun
  <1> HIDE DEF r
  <1>3. \A S \in owed : S \in record.pending /\ Keeps(S, run[k], memory[k]) => Keeps(S, r, memory'[k])
    BY <1>1, <1>2 DEF Keeps
  <1>4. QED
    BY <1>2, <1>3, KeptByOne DEF LedgersGoOn

LEMMA ReadSourceKept ==
    ASSUME DerivedInv, OwedKept, NEW k \in Containers, ReadSource(k)
    PROVE  OwedKept'
  <1>1. run[k] \in Runs /\ run[k].pc = "source" /\ UNCHANGED <<shown, record, ledgers, memory, owed>>
    BY RunFacts DEF ReadSource
  <1>2. PICK source, r :
           /\ r = Serves(k, run[k].base) \/ r = [run[k] EXCEPT !.source = source, !.pc = "derive"]
           /\ run' = [run EXCEPT ![k] = r]
    <2>1. run \in [Containers -> Runs]
      BY DEF DerivedInv, RunsFit
    <2>2. PICK unknown, current :
             run' = [run EXCEPT ![k] = IF current THEN Serves(k, run[k].base)
                        ELSE [@ EXCEPT !.source = IF unknown THEN 0 ELSE shown.at, !.pc = "derive"]]
      BY Zenon DEF ReadSource
    <2>3. CASE current
      BY <2>1, <2>2, <2>3
    <2>4. CASE ~current
      BY <2>1, <2>2, <2>4
    <2>5. QED
      BY <2>3, <2>4
  <1>3. r.pc = "pass" \/ (r.pc = "derive" /\ r.base = run[k].base)
    <2>1. Serves(k, run[k].base).pc = "pass"
      BY IdleFits DEF Serves, Runs
    <2>2. QED
      BY <1>1, <1>2, <2>1 DEF Runs
  <1>4. \A S : Keeps(S, run[k], memory[k]) => Keeps(S, r, memory'[k])
    BY <1>1, <1>3 DEF Keeps
  <1>5. OneRun(k, r)
    BY <1>1, <1>2 DEF OneRun
  <1>6. QED
    BY <1>1, <1>4, <1>5, KeptByOne DEF LedgersGoOn

LEMMA DeriveKept ==
    ASSUME DerivedInv, OwedKept, NEW k \in Containers, Derive(k)
    PROVE  OwedKept'
  <1>1. run[k] \in Runs /\ run[k].pc = "derive" /\ UNCHANGED <<shown, record, ledgers, memory, owed>>
    BY RunFacts DEF Derive
  <1> DEFINE fresh == [streams |-> shown.streams, from |-> shown.at, source |-> run[k].source,
                       revision |-> 0, pending |-> {}]
             new == NewNotices(run[k].base, fresh.streams)
             derived == [run[k] EXCEPT !.fresh = fresh, !.pc = "register", !.new = new]
  <1>2. PICK r \in {Serves(k, run[k].base), derived} : run' = [run EXCEPT ![k] = r]
    BY <1>1 DEF Derive, Runs, DerivedInv, RunsFit
  <1>3. \/ r.pc = "pass"
        \/ r.pc = "register" /\ r.base = run[k].base /\ r.new = NewNotices(run[k].base, r.fresh.streams)
    <2>1. Serves(k, run[k].base).pc = "pass"
      BY IdleFits DEF Serves, Runs
    <2>2. QED
      BY <1>1, <1>2, <2>1 DEF Runs
  <1>4. \A S : Keeps(S, run[k], memory[k]) => Keeps(S, r, memory'[k])
    BY <1>1, <1>3 DEF Keeps
  <1>5. OneRun(k, r)
    BY <1>1, <1>2 DEF OneRun
  <1>6. QED
    BY <1>1, <1>4, <1>5, KeptByOne DEF LedgersGoOn

LEMMA RegisterKept ==
    ASSUME DerivedInv, OwedKept, NEW k \in Containers, Register(k)
    PROVE  OwedKept'
  <1> DEFINE r == [run[k] EXCEPT !.pc = "list"]
  <1>1. /\ run[k] \in Runs /\ run[k].pc = "register" /\ UNCHANGED <<shown, record, owed>>
        /\ memory'[k] = memory[k] \ run[k].new /\ OneRun(k, r)
    BY RunFacts DEF Register, OneRun, DerivedInv, TypeOK
  <1>2. r.pc = "list" /\ r.base = run[k].base /\ r.new = run[k].new /\ r.fresh = run[k].fresh
    BY <1>1 DEF Runs
  <1> HIDE DEF r
  <1>3. \A S : Keeps(S, run[k], memory[k]) => Keeps(S, r, memory'[k])
    BY <1>1, <1>2 DEF Keeps
  <1>4. LedgersGoOn
    BY DEF Register, LedgersGoOn, OwedKept, DerivedInv, TypeOK
  <1>5. QED
    BY <1>1, <1>3, <1>4, KeptByOne

\* An earlier id stays listed unless it is settled, by memory or by ledger;
\* one whose ledger cannot be read stays listed too.
LEMMA ListKept ==
    ASSUME DerivedInv, OwedKept, NEW k \in Containers, ListPending(k)
    PROVE  OwedKept'
  <1>1. /\ run[k] \in Runs /\ Fits(run[k], shown.at, memory[k]) /\ run[k].pc = "list"
        /\ UNCHANGED <<shown, record, ledgers, owed>>
    BY RunFacts DEF ListPending
  <1> DEFINE base == run[k].base
             streams == run[k].fresh.streams
  <1>2. PICK unread \in SUBSET (base.pending \ memory[k]) :
           /\ run' = [run EXCEPT ![k].pc = "write", ![k].fresh.revision = Revision(k),
                        ![k].fresh.pending = NextPending(k, base, streams, run[k].new, unread)]
           /\ memory' = [memory EXCEPT ![k] = @ \cup
                {S \in (base.pending \cap Detected(streams)) \ (unread \cup run[k].new) :
                    ledgers[S] = "settled"}]
    BY DEF ListPending
  <1> DEFINE pending == NextPending(k, base, streams, run[k].new, unread)
             fresh == [run[k].fresh EXCEPT !.revision = Revision(k), !.pending = pending]
             r == [run[k] EXCEPT !.pc = "write", !.fresh = fresh]
  <1>3. run' = [run EXCEPT ![k] = r]
    BY <1>1, <1>2 DEF DerivedInv, RunsFit, Runs, Schedules
  <1>4. r.pc = "write" /\ r.fresh.pending = pending /\ r.fresh.streams = streams
    BY <1>1 DEF Runs, Schedules
  <1>5. /\ \A S \in memory'[k] : S \in memory[k] \/ ledgers[S] = "settled"
        /\ \A j \in Containers \ {k} : memory'[j] = memory[j]
    BY <1>2 DEF DerivedInv, TypeOK
  <1>6. ASSUME NEW S \in owed, ledgers[S] = "pending", Keeps(S, run[k], memory[k])
        PROVE  Keeps(S, r, memory'[k])
    <2>1. S \notin memory'[k]
      BY <1>5, <1>6 DEF Keeps
    <2>2. ASSUME streams = S
          PROVE  S \in pending
      <3>1. S \in base.pending \cup run[k].new
        BY <1>1, <1>6, <2>2 DEF Keeps
      <3>2. S \in Detected(streams)
        BY <2>2 DEF Detected, DerivedInv, TypeOK
      <3>3. S \notin memory[k]
        BY <1>6 DEF Keeps
      <3>4. QED
        BY <1>6, <3>1, <3>2, <3>3 DEF NextPending, StillPending
    <2> HIDE DEF r, pending
    <2>3. QED
      BY <1>4, <2>1, <2>2 DEF Keeps
  <1>7. OneRun(k, r)
    BY <1>1, <1>3, <1>5 DEF OneRun
  <1> HIDE DEF r
  <1>8. QED
    BY <1>1, <1>6, <1>7, KeptByOne DEF LedgersGoOn

LEMMA LastStepsKept ==
    ASSUME DerivedInv, OwedKept, NEW k \in Containers, Invalidate(k) \/ Pass(k) \/ Crash(k)
    PROVE  OwedKept'
  <1>1. UNCHANGED <<shown, record>> /\ owed' \subseteq owed /\ \A S \in owed : S \in Collisions
    BY DEF Invalidate, Pass, Crash, DerivedInv, TypeOK
  <1>2. LedgersGoOn
    <2>1. CASE Invalidate(k)
      BY <1>1, <2>1 DEF Invalidate, LedgersGoOn
    <2>2. CASE Pass(k)
      <3>1. PICK served, settles :
               ledgers' = [S \in Collisions |->
                 IF S \in settles THEN "settled"
                 ELSE IF S \in served /\ ledgers[S] = "none" THEN "pending"
                 ELSE ledgers[S]]
        BY <2>2 DEF Pass
      <3>2. \A S \in owed' : S \in Collisions /\ ledgers[S] \in {"pending", "settled"}
        BY <1>1 DEF OwedKept, DerivedInv, TypeOK
      <3>3. QED
        BY <3>1, <3>2 DEF LedgersGoOn
    <2>3. CASE Crash(k)
      BY <2>3 DEF Crash, LedgersGoOn
    <2>4. QED
      BY <2>1, <2>2, <2>3
  <1>3. /\ \A S \in memory'[k] : S \in memory[k] \/ ledgers'[S] = "settled"
        /\ \A j \in Containers \ {k} : memory'[j] = memory[j]
    <2>1. CASE Invalidate(k)
      BY <2>1 DEF Invalidate, DerivedInv, TypeOK
    <2>2. CASE Pass(k)
      <3>1. PICK ids, served :
               memory' = [memory EXCEPT ![k] =
                 Remembered(k, ids) \cup {S \in served : ledgers'[S] = "settled"}]
        BY <2>2 DEF Pass
      <3>2. QED
        BY <3>1 DEF Remembered, DerivedInv, TypeOK
    <2>3. CASE Crash(k)
      BY <2>3 DEF Crash
    <2>4. QED
      BY <2>1, <2>2, <2>3
  <1>4. PICK r : run' = [run EXCEPT ![k] = r] /\ r.pc \in {"idle", "pass"}
    <2>1. Idle.pc = "idle" /\ Serves(k, run[k].fresh).pc = "pass"
      BY IdleFits DEF Serves, Runs
    <2>2. PICK r \in {Idle, Serves(k, run[k].fresh)} : run' = [run EXCEPT ![k] = r]
      BY DEF Invalidate, Pass, Crash
    <2>3. QED
      BY <2>1, <2>2
  <1>5. \A S : ledgers'[S] = "pending" /\ Keeps(S, run[k], memory[k]) => Keeps(S, r, memory'[k])
    BY <1>3, <1>4, LateKeeps DEF Keeps
  <1>6. OneRun(k, r)
    BY <1>1, <1>3, <1>4 DEF OneRun
  <1>7. QED
    BY <1>1, <1>2, <1>5, <1>6, KeptByOne

\* Only the write makes a notice owed: then nobody else is about to forget it.
LEMMA WriteKept ==
    ASSUME DerivedInv, OwedKept, NEW k \in Containers, WriteRecord(k)
    PROVE  OwedKept'
  <1>1. /\ run[k] \in Runs /\ Fits(run[k], shown.at, memory[k]) /\ run[k].pc = "write"
        /\ UNCHANGED <<shown, ledgers, memory>>
    BY RunFacts DEF WriteRecord
  <1>2. \A S : ledgers'[S] = ledgers[S]
    BY <1>1
  <1>3. CASE UNCHANGED <<record, owed>>
    <2>1. PICK s : run' = [run EXCEPT ![k] = s] /\ s.pc \in {"idle", "pass", "invalidate"}
      <3>1. Idle.pc = "idle" /\ Serves(k, record).pc = "pass" /\ [run[k] EXCEPT !.pc = "invalidate"].pc = "invalidate"
        BY <1>1, IdleFits DEF Serves, Runs
      <3>2. PICK s \in {Idle, Serves(k, record), [run[k] EXCEPT !.pc = "invalidate"]} : run' = [run EXCEPT ![k] = s]
        BY DEF WriteRecord
      <3>3. QED
        BY <3>1, <3>2
    <2>2. \A S : Keeps(S, run[k], memory[k]) => Keeps(S, s, memory'[k])
      BY <1>1, <2>1, LateKeeps DEF Keeps
    <2>3. QED
      BY <1>1, <1>3, <2>1, <2>2, KeptByOne DEF OneRun, LedgersGoOn
  <1>4. CASE /\ record' = run[k].fresh
             /\ owed' = (owed \cap Detected(run[k].fresh.streams)) \cup {S \in run[k].new : ~Excused(k, S)}
             /\ run' = [run EXCEPT ![k].pc = "invalidate"]
    <2> DEFINE fresh == run[k].fresh
               r == [run[k] EXCEPT !.pc = "invalidate"]
    <2>1. r.pc = "invalidate" /\ run'[k] = r /\ \A j \in Containers \ {k} : run'[j] = run[j]
      BY <1>1, <1>4 DEF Runs, DerivedInv, RunsFit
    <2> HIDE DEF r
    <2>2. ASSUME NEW S \in owed, S \in Detected(fresh.streams)
          PROVE  /\ ledgers[S] # "none"
                 /\ ledgers[S] = "pending" =>
                       S \in fresh.pending /\ \A j \in Containers : Keeps(S, run'[j], memory[j])
      <3>1. ledgers[S] # "none" /\ (ledgers[S] = "pending" => \A j \in Containers : Keeps(S, run[j], memory[j]))
        BY DEF OwedKept
      <3>2. fresh.streams = S
        BY <2>2 DEF Detected
      <3>3. ledgers[S] = "pending" => S \in fresh.pending
        BY <1>1, <3>1, <3>2 DEF Keeps
      <3>4. ledgers[S] = "pending" => Keeps(S, r, memory[k])
        BY <2>1, <3>1, LateKeeps DEF Keeps
      <3>5. QED
        BY <2>1, <3>1, <3>3, <3>4
    <2>3. ASSUME NEW S \in run[k].new, ~Excused(k, S)
          PROVE  /\ ledgers[S] # "none"
                 /\ S \in fresh.pending /\ \A j \in Containers : Keeps(S, run'[j], memory[j])
      <3>1. /\ ledgers[S] = "pending"
            /\ \A j \in Containers \ {k} :
                  /\ S \notin memory[j]
                  /\ run[j].pc \in {"source", "derive", "register", "list", "write"}
                        => S \in NewNotices(run[j].base, S)
        BY <2>3 DEF Excused
      <3>2. S \in fresh.pending /\ S \notin memory[k]
        BY <1>1, <2>3 DEF Fits
      <3>3. ASSUME NEW j \in Containers \ {k}
            PROVE  Keeps(S, run[j], memory[j])
        <4>1. Fits(run[j], shown.at, memory[j])
          BY RunFacts
        <4>2. run[j].pc \in {"register", "list", "write"} /\ run[j].fresh.streams = S => S \in run[j].new
          BY <3>1, <4>1 DEF Fits
        <4>3. QED
          BY <3>1, <4>1, <4>2 DEF Keeps, Fits
      <3>4. Keeps(S, r, memory[k])
        BY <2>1, <3>2, LateKeeps
      <3>5. QED
        BY <2>1, <3>1, <3>2, <3>3, <3>4
    <2>4. QED
      BY <1>1, <1>2, <1>4, <2>2, <2>3 DEF OwedKept
  <1>5. QED
    BY <1>3, <1>4 DEF WriteRecord

LEMMA RefreshKept ==
    ASSUME DerivedInv, OwedKept, Refresh
    PROVE  OwedKept'
  <1>1. UNCHANGED <<record, ledgers, memory, owed>>
    BY DEF Refresh
  <1>2. \A k \in Containers : /\ run'[k].pc = run[k].pc /\ run'[k].base = run[k].base
                              /\ run'[k].new = run[k].new /\ run'[k].fresh = run[k].fresh
    BY RunFacts DEF Refresh, Runs
  <1>3. \A k \in Containers : \A S : Keeps(S, run[k], memory[k]) => Keeps(S, run'[k], memory'[k])
    BY <1>1, <1>2 DEF Keeps
  <1>4. QED
    BY <1>1, <1>3 DEF OwedKept

LEMMA StepKept == DerivedInv /\ OwedKept /\ [Next]_vars => OwedKept'
  <1> SUFFICES ASSUME DerivedInv, OwedKept, [Next]_vars
               PROVE  OwedKept'
    OBVIOUS
  <1>1. CASE UNCHANGED vars
    BY <1>1 DEF vars, OwedKept
  <1>2. CASE Next
    BY <1>2, RefreshKept, StartKept, ReadSourceKept, DeriveKept, RegisterKept, ListKept,
       WriteKept, LastStepsKept DEF Next, Step
  <1>3. QED
    BY <1>1, <1>2

\* A notice that a stored record announced, and that none of the named
\* excuses covers, stays listed until it is settled, as long as its collision
\* is scheduled: every run that may still write has it among its own pending
\* ids or finds it new, and no container remembers it as settled.
THEOREM NoticeStaysListed == Spec => []NoticeNotForgotten
  <1>1. Init => OwedKept
    BY DEF Init, OwedKept
  <1>2. DerivedInv /\ OwedKept => NoticeNotForgotten
    BY DEF DerivedInv, TypeOK, OwedKept, NoticeNotForgotten
  <1>3. QED
    BY <1>1, <1>2, DerivedInvariant, StepKept, PTL DEF Spec
=============================================================================
