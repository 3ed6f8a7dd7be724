--------------------------- MODULE StreamSchedule ---------------------------
(* The stream schedule: one record that every reminder run reads and some     *)
(* runs derive anew from the shared live snapshot (notification_dispatcher    *)
(* _load_schedule), with the ids of the simultaneous-livestream notices still *)
(* to send (simultaneous_dispatcher register_new_collisions, next_pending,    *)
(* invalidate_removed).  A run takes its steps one store call at a time, runs *)
(* of several warm containers overlap, and any of them may fail or crash.     *)
(*                                                                            *)
(* The streams modelled share one start: each is scheduled at it or absent,   *)
(* so a schedule is the set of those present, and a set of two or more is a   *)
(* collision, its own id.  The horizon ends before that start.  What a pass   *)
(* does with a notice is SimultaneousNotice; here it settles it or does not.  *)
EXTENDS Integers, FiniteSets

CONSTANTS
    Streams,      \* upcoming streams of distinct creators, all at one start
    Listings,     \* the sets of them a refresh may show
    Containers,   \* warm Lambda containers; runs of two of them may overlap
    MaxRefreshes, \* bound: refreshes of the shared snapshot
    MaxFaults     \* bound: failed reads and writes, and crashes

ASSUME StreamScheduleAssumption ==
    /\ IsFiniteSet(Streams)
    /\ Listings \subseteq SUBSET Streams
    /\ MaxRefreshes \in Nat \ {0}
    /\ MaxFaults \in Nat

VARIABLES
    shown,   \* the shared snapshot: its streams, and which refresh it is
    record,  \* the stored "streamSchedule" record, or NoRecord
    ledgers, \* the stored ledger of each notice
    memory,  \* the ids each container remembers as settled (_settled)
    run,     \* the run each container is in the middle of
    owed,    \* notices a stored record announced and that are not excused
    faults

vars == <<shown, record, ledgers, memory, run, owed, faults>>

Collisions == {S \in Listings : Cardinality(S) > 1}

NoRecord == [streams |-> {}, from |-> 0, source |-> 0, revision |-> 0,
             pending |-> {}]
Idle == [pc |-> "idle", base |-> NoRecord, source |-> 0, started |-> 0,
         fresh |-> NoRecord, new |-> {}, late |-> FALSE]

Fails == faults < MaxFaults /\ faults' = faults + 1

-----------------------------------------------------------------------------
\* The refresh times are counted in shown.at.  A time of the clock between
\* refreshes n and n + 1 is 2n + 1, so that refresh n itself is 2n.

(* The collision among the upcoming streams, if there is one.                *)
Detected(streams) == {S \in Collisions : S = streams}

(* New in "fresh": a group that was not there and brings a stream that was    *)
(* part of none.  A group that merely shrank announces nothing, and a first   *)
(* schedule is the baseline.                                                  *)
NewNotices(base, fresh) ==
    IF base = NoRecord THEN {}
    ELSE {S \in Detected(fresh) : /\ S \notin Detected(base.streams)
                                  /\ ~(S \subseteq UNION Detected(base.streams))}

(* Mutant: an id whose ledger cannot be read is dropped.                      *)
StillPendingIfRead(k, base, fresh, unread) ==
    {S \in base.pending \cap Detected(fresh) :
        S \notin memory[k] /\ S \notin unread /\ ledgers[S] = "pending"}

(* The earlier pending ids that stay: still upcoming and not settled, by      *)
(* memory or by the ledger.  "unread" are those whose ledger read failed.     *)
StillPending(k, base, fresh, unread) ==
    {S \in base.pending \cap Detected(fresh) :
        S \notin memory[k] /\ (S \in unread \/ ledgers[S] = "pending")}

NextPending(k, base, fresh, new, unread) ==
    new \cup StillPending(k, base, fresh, unread)

(* Mutant: entries of the refresh before count as current.                    *)
IsCurrentOneBehind(base, source) ==
    IF source = 0 THEN BOOLEAN ELSE {base.source # 0 /\ base.source + 1 >= source}

(* Whether the stored entries can be used as they are: they came from this    *)
(* refresh or a later one; unknown freshness falls back on the record's age,  *)
(* which may or may not have passed.                                          *)
IsCurrent(base, source) ==
    IF source = 0 THEN BOOLEAN ELSE {base.source # 0 /\ base.source >= source}

(* Mutant: the refresh time is read when the record is built.                 *)
RevisionAtWrite(k) == IF run[k].source # 0 THEN 2 * shown.at ELSE run[k].started

(* The monotonic revision: the time of the refresh that was read BEFORE       *)
(* deriving, else the run's own clock.                                        *)
Revision(k) == IF run[k].source # 0 THEN 2 * run[k].source ELSE run[k].started

\* Mutant: the record is always replaced.
IfNewerAlways(revision) == TRUE

\* put_remote_config_if_newer: only over a record of an older revision.
IfNewer(revision) == record = NoRecord \/ record.revision < revision

(* The run goes on to its notices with this schedule.                         *)
Serves(k, schedule) == [Idle EXCEPT !.pc = "pass", !.fresh = schedule, !.late = run[k].late]

-----------------------------------------------------------------------------
Init ==
    /\ \E streams \in Listings : shown = [streams |-> streams, at |-> 1]
    /\ record = NoRecord
    /\ ledgers = [S \in Collisions |-> "none"]
    /\ memory = [k \in Containers |-> {}]
    /\ run = [k \in Containers |-> Idle]
    /\ owed = {}
    /\ faults = 0

(* refresh_display_snapshot, when it succeeds (LiveSnapshot looks into how).   *)
(* The shared snapshot is refreshed every ten minutes, and a run ends within  *)
(* five: at most one refresh falls into it.                                   *)
Refresh ==
    /\ shown.at < MaxRefreshes
    /\ \A k \in Containers : ~run[k].late
    /\ \E streams \in Listings : shown' = [streams |-> streams, at |-> shown.at + 1]
    /\ run' = [k \in Containers |->
                 [run[k] EXCEPT !.late = (run[k].pc # "idle")]]
    /\ UNCHANGED <<record, ledgers, memory, owed, faults>>

(* _load_schedule reads the stored record; "now" is the run's own start.      *)
Start(k) ==
    /\ run[k].pc = "idle"
    /\ run' = [run EXCEPT ![k] = [Idle EXCEPT !.pc = "source", !.base = record,
                                              !.started = 2 * shown.at + 1]]
    /\ UNCHANGED <<shown, record, ledgers, memory, owed, faults>>

(* The heartbeat of the shared snapshot; a failed read leaves it unknown.     *)
ReadSource(k) ==
    /\ run[k].pc = "source"
    /\ \E unknown \in BOOLEAN :
         LET source == IF unknown THEN 0 ELSE shown.at IN
         /\ IF unknown THEN Fails ELSE UNCHANGED faults
         /\ \E current \in IF run[k].base = NoRecord THEN {FALSE}
                           ELSE IsCurrent(run[k].base, source) :
              run' = [run EXCEPT ![k] = IF current THEN Serves(k, run[k].base)
                                        ELSE [@ EXCEPT !.source = source, !.pc = "derive"]]
    /\ UNCHANGED <<shown, record, ledgers, memory, owed>>

(* read_api.get_live_streams: the snapshot as it is now, which may be newer   *)
(* than the heartbeat read before.  A failed fetch reuses the stored record.  *)
Derive(k) ==
    /\ run[k].pc = "derive"
    /\ \/ LET fresh == [streams |-> shown.streams, from |-> shown.at,
                        source |-> run[k].source, revision |-> 0,
                        pending |-> {}] IN
          /\ run' = [run EXCEPT ![k].fresh = fresh, ![k].pc = "register",
                                ![k].new = NewNotices(run[k].base, fresh.streams)]
          /\ UNCHANGED faults
       \/ /\ Fails
          /\ run' = [run EXCEPT ![k] = Serves(k, run[k].base)]
    /\ UNCHANGED <<shown, record, ledgers, memory, owed>>

(* register_new_collisions: a ledger for each new notice unless it has one,   *)
(* before the schedule is written.  A failed write leaves it without, and the *)
(* notice to whichever pass comes first.                                      *)
Register(k) ==
    /\ run[k].pc = "register"
    /\ \/ /\ ledgers' = [S \in Collisions |->
                IF S \in run[k].new /\ ledgers[S] = "none" THEN "pending"
                ELSE ledgers[S]]
          /\ UNCHANGED faults
       \/ /\ run[k].new # {} /\ Fails
          /\ UNCHANGED ledgers
    /\ memory' = [memory EXCEPT ![k] = @ \ run[k].new]
    /\ run' = [run EXCEPT ![k].pc = "list"]
    /\ UNCHANGED <<shown, record, owed>>

(* next_pending, one read for each earlier pending id; with it the record to  *)
(* store is complete.                                                         *)
ListPending(k) ==
    /\ run[k].pc = "list"
    /\ \E unread \in SUBSET (run[k].base.pending \ memory[k]) :
         LET base == run[k].base
             streams == run[k].fresh.streams
         IN
         /\ IF unread # {} THEN Fails ELSE UNCHANGED faults
         /\ run' = [run EXCEPT ![k].pc = "write", ![k].fresh.revision = Revision(k),
                      ![k].fresh.pending =
                          NextPending(k, base, streams, run[k].new, unread)]
         /\ memory' = [memory EXCEPT ![k] = @ \cup
                {S \in (base.pending \cap Detected(streams)) \ (unread \cup run[k].new) :
                    ledgers[S] = "settled"}]
    /\ UNCHANGED <<shown, record, ledgers, owed>>

(* The conditional write.  A run that loses it goes on with the newer record. *)
(* A failed write ends the run.                                               *)
(*                                                                            *)
(* "owed" follows the notices a stored record announced, as long as the       *)
(* record keeps them; those the code gives up on are excused: the ledger does *)
(* not exist by the time of the write; another container still remembers an   *)
(* earlier episode of the id as settled; or an overlapping run does not find *)
(* it new, because it compares with another record.                           *)
Excused(k, S) ==
    \/ ledgers[S] # "pending"
    \/ \E other \in Containers \ {k} :
         \/ S \in memory[other]
         \/ /\ run[other].pc \in {"source", "derive", "register", "list", "write"}
            /\ S \notin NewNotices(run[other].base, S)

WriteRecord(k) ==
    /\ run[k].pc = "write"
    /\ \/ /\ IfNewer(run[k].fresh.revision)
          /\ record' = run[k].fresh
          /\ owed' = (owed \cap Detected(run[k].fresh.streams))
                       \cup {S \in run[k].new : ~Excused(k, S)}
          /\ run' = [run EXCEPT ![k].pc = "invalidate"]
          /\ UNCHANGED faults
       \/ /\ ~IfNewer(run[k].fresh.revision)
          /\ run' = [run EXCEPT ![k] = Serves(k, record)]
          /\ UNCHANGED <<record, owed, faults>>
       \/ /\ Fails
          /\ run' = [run EXCEPT ![k] = Idle]
          /\ UNCHANGED <<record, owed>>
    /\ UNCHANGED <<shown, ledgers, memory>>

(* invalidate_removed: the ledger of a collision the run's base had and the   *)
(* new schedule lacks is deleted; a failed delete leaves an orphan.           *)
Invalidate(k) ==
    /\ run[k].pc = "invalidate"
    /\ LET gone == Detected(run[k].base.streams) \ Detected(run[k].fresh.streams) IN
         /\ \/ /\ ledgers' = [S \in Collisions |->
                                IF S \in gone THEN "none" ELSE ledgers[S]]
               /\ UNCHANGED faults
            \/ /\ gone # {} /\ Fails
               /\ UNCHANGED ledgers
         /\ owed' = owed \ gone
         /\ memory' = [memory EXCEPT ![k] = @ \ gone]
    /\ run' = [run EXCEPT ![k] = Serves(k, run[k].fresh)]
    /\ UNCHANGED <<shown, record>>

(* simultaneous_dispatcher.run over the schedule this run has: the memory     *)
(* keeps only ids still listed and current, then a listed collision that is   *)
(* not remembered gets its ledger if it has none, and is settled, left for    *)
(* later, or not reached before the deadline.                                 *)
Remembered(k, ids) == memory[k] \cap ids

Pass(k) ==
    /\ run[k].pc = "pass"
    /\ LET listed == run[k].fresh.pending
           current == Detected(run[k].fresh.streams)
           kept == Remembered(k, listed \cap current)
           todo == (listed \cap current) \ kept
       IN
       /\ \E served \in SUBSET todo, settles \in SUBSET todo :
            /\ settles \subseteq served
            /\ ledgers' = [S \in Collisions |->
                 IF S \in settles THEN "settled"
                 ELSE IF S \in served /\ ledgers[S] = "none" THEN "pending"
                 ELSE ledgers[S]]
            /\ memory' = [memory EXCEPT ![k] =
                 kept \cup {S \in served : ledgers'[S] = "settled"}]
    /\ run' = [run EXCEPT ![k] = Idle]
    /\ UNCHANGED <<shown, record, owed, faults>>

(* The run's Lambda dies between two of its calls.                            *)
Crash(k) ==
    /\ run[k].pc # "idle"
    /\ Fails
    /\ run' = [run EXCEPT ![k] = Idle]
    /\ UNCHANGED <<shown, record, ledgers, memory, owed>>

Step(k) == \/ Start(k) \/ ReadSource(k) \/ Derive(k) \/ Register(k) \/ ListPending(k)
           \/ WriteRecord(k) \/ Invalidate(k) \/ Pass(k)

Next == Refresh \/ \E k \in Containers : Step(k) \/ Crash(k)

Spec == Init /\ [][Next]_vars

(* The runs are started every minute and go on by themselves.                 *)
FairSpec == Spec /\ \A k \in Containers : WF_vars(Step(k))

-----------------------------------------------------------------------------
Schedules == [streams : SUBSET Streams, from : 0..MaxRefreshes,
              source : 0..MaxRefreshes, revision : 0..(2 * MaxRefreshes + 1),
              pending : SUBSET Collisions]

(* Types, and that a stored record lists only notices of its own collisions.  *)
TypeOK ==
    /\ shown \in [streams : SUBSET Streams, at : 1..MaxRefreshes]
    /\ record \in Schedules
    /\ record.pending \subseteq Detected(record.streams)
    /\ ledgers \in [Collisions -> {"none", "pending", "settled"}]
    /\ memory \in [Containers -> SUBSET Collisions]
    /\ \A k \in Containers : run[k].fresh \in Schedules /\ run[k].base \in Schedules
    /\ owed \subseteq Collisions
    /\ faults \in 0..MaxFaults

(* The stored entries are at least as new as the record says they are: "never *)
(* the reverse (claiming newer data than was actually read)", whatever        *)
(* refresh falls between the run's reads; and the types hold.                 *)
NeverClaimsNewer == TypeOK /\ 2 * record.from + 1 >= record.revision

(* A record whose freshness was known never replaces entries of a newer       *)
(* refresh by entries of an older one, however the runs overlap.              *)
NeverGoesBack ==
    [][record' # record /\ record'.source # 0 => record'.from >= record.from]_vars

(* A notice a stored record announced stays listed until its ledger is        *)
(* settled, through re-derivations, lost writes, unreadable ledgers and       *)
(* crashes, as long as its collision is scheduled.                            *)
NoticeNotForgotten ==
    \A S \in owed : ledgers[S] # "settled" => S \in record.pending

(* When the shared snapshot and the faults come to an end, the stored entries *)
(* are in the end those of its last refresh and stay so.                      *)
CatchesUp == <>[](record.from = shown.at)
=============================================================================
