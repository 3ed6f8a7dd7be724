-------------------------- MODULE TrackingManifest --------------------------
(***************************************************************************)
(* The tracked catalog of one creator: the manifest shards in S3 (src/     *)
(* tracking/tracking_manifest.py), the rows of Video Master, the daily     *)
(* shards, and the two programs that write them side by side: discovery    *)
(* (src/collection/main.py), which adds videos, and the history worker     *)
(* (src/collection/history_worker.py), which observes them.                *)
(*                                                                         *)
(* A video's scheduler state is abstracted to the observation it was last  *)
(* classified from and to how many it was classified from.                 *)
(***************************************************************************)
EXTENDS Integers, Sequences, FiniteSets

CONSTANTS
    Videos,
    Shards,
    ShardOf,        \* shard_for_video
    Backlog,        \* videos too old to be announced on first ingestion
    Dates,          \* report dates
    Workers,        \* history worker invocations that may overlap
    Discoveries,    \* discovery invocations that may overlap
    PatchAttempts,  \* PATCH_SHARD_MAX_ATTEMPTS
    MaxObserved,    \* bound: worker runs in a behavior
    MaxFaults       \* bound: errors and crashes

ASSUME TrackingAssumption ==
    /\ ShardOf \in [Videos -> Shards]
    /\ Backlog \subseteq Videos /\ IsFiniteSet(Backlog)
    /\ PatchAttempts \in Nat \ {0}
    /\ MaxObserved \in Nat
    /\ MaxFaults \in Nat

VARIABLES
    uploads,        \* the uploads playlist, newest last
    events,         \* videos with a recorded new-video event
    master,         \* the Video Master row of each video
    manifest,       \* the manifest object of each shard
    daily,          \* the daily shard objects
    worker,
    discovery,
    observed,       \* the observations worker runs made, per video
    clock,          \* worker runs so far: when a run observes
    faults

stores == <<events, master, manifest, daily>>
vars == <<uploads, stores, worker, discovery, observed, clock, faults>>

\* No row, or no entry; and what discovery writes.
Absent == [checked |-> -1, count |-> 0]
Unobserved == [checked |-> 0, count |-> 0]

\* `checked` is last_checked_at, `count` is snapshot_count.
States == [checked : -1..MaxObserved, count : 0..MaxObserved]
Entries == [Videos -> States]

\* The ETag of an object is a digest of its contents, so that the version of
\* a shard is the shard itself.
ManifestShards == [exists : BOOLEAN, entries : Entries]
NoShard == [exists |-> FALSE, entries |-> [v \in Videos |-> Absent]]

\* The rows of a daily shard that were observed, not carried forward.
DailyShards == [at : 0..MaxObserved, rows : SUBSET Videos]
NotCollected == [at |-> 0, rows |-> {}]

Idle == [pc |-> "idle"]

WorkerRuns ==
    [pc      : {"check", "put", "classify", "upsert", "read", "write", "done"},
     date    : Dates,
     shard   : Shards,
     at      : 1..MaxObserved,      \* observed_at, read when the run starts
     tracked : SUBSET Videos,       \* the active entries, as read at the start
     today   : DailyShards,         \* the rows to apply
     updates : Entries,             \* scheduler updates, Absent for none
     seen    : ManifestShards,
     tries   : 0..(PatchAttempts - 1)]

DiscoveryRuns ==
    [pc    : {"record", "upsert", "read", "write"},
     found : SUBSET Videos,
     first : BOOLEAN,               \* first ingestion of the creator
     todo  : SUBSET Shards,         \* shards still to be patched
     shard : Shards,
     seen  : ManifestShards,
     tries : 0..(PatchAttempts - 1)]

Tracked == {v \in Videos : manifest[ShardOf[v]].entries[v] # Absent}

Published == {uploads[i] : i \in DOMAIN uploads}

-----------------------------------------------------------------------------

Init ==
    /\ uploads \in {q \in [1..Cardinality(Backlog) -> Backlog] :
                       \A i, j \in DOMAIN q : q[i] = q[j] => i = j}
    /\ events = {}
    /\ master = [v \in Videos |-> Absent]
    /\ manifest = [s \in Shards |-> NoShard]
    /\ daily = [d \in Dates |-> [s \in Shards |-> NotCollected]]
    /\ worker = [w \in Workers |-> Idle]
    /\ discovery = [d \in Discoveries |-> Idle]
    /\ observed = [v \in Videos |-> {}]
    /\ clock = 0
    /\ faults = 0

Fault ==
    /\ faults < MaxFaults
    /\ faults' = faults + 1

\* The creator uploads a video.
Publish(v) ==
    /\ v \notin Published
    /\ uploads' = Append(uploads, v)
    /\ UNCHANGED <<stores, worker, discovery, observed, clock, faults>>

-----------------------------------------------------------------------------
(* Discovery *)

\* Mutant: the known videos are those of Video Master, not of the manifest.
KnownInMaster == {v \in Videos : master[v] # Absent}

\* _known_ids_by_creator
Known == Tracked

\* discover_new_videos: from the newest upload down to the first known one.
Found ==
    {uploads[i] : i \in {j \in DOMAIN uploads :
                            \A k \in j..Len(uploads) : uploads[k] \notin Known}}

\* A run that finds nothing writes nothing.
StartDiscovery(d) ==
    /\ discovery[d] = Idle
    /\ Found # {}
    /\ discovery' = [discovery EXCEPT ![d] =
          [pc |-> "record", found |-> Found, first |-> Known = {},
           todo |-> {ShardOf[v] : v \in Found}, shard |-> ShardOf[CHOOSE v \in Found : TRUE],
           seen |-> NoShard, tries |-> 0]]
    /\ UNCHANGED <<uploads, stores, worker, observed, clock, faults>>

\* _videos_to_notify: everything except the backlog of a first ingestion.
ToNotify(r) == IF r.first THEN r.found \ Backlog ELSE r.found

\* record_new_video_events: each event is written once, and stays.
RecordEvents(d) ==
    /\ discovery[d].pc = "record"
    /\ events' = events \cup ToNotify(discovery[d])
    /\ discovery' = [discovery EXCEPT ![d].pc = "upsert"]
    /\ UNCHANGED <<uploads, master, manifest, daily, worker, observed, clock, faults>>

\* Mutant: events are best effort, as in main(), and the run goes on.
RecordBreaksButGoesOn(d) ==
    /\ discovery[d].pc = "record"
    /\ Fault
    /\ \E some \in SUBSET ToNotify(discovery[d]) : events' = events \cup some
    /\ discovery' = [discovery EXCEPT ![d].pc = "upsert"]
    /\ UNCHANGED <<uploads, master, manifest, daily, worker, observed, clock>>

\* An event cannot be written: the run ends before it persists anything.
RecordBreaks(d) ==
    /\ discovery[d].pc = "record"
    /\ Fault
    /\ \E some \in SUBSET ToNotify(discovery[d]) : events' = events \cup some
    /\ discovery' = [discovery EXCEPT ![d] = Idle]
    /\ UNCHANGED <<uploads, master, manifest, daily, worker, observed, clock>>

\* upsert_videos puts whole new rows, over what is there.
UpsertFound(d) ==
    /\ discovery[d].pc = "upsert"
    /\ master' = [v \in Videos |-> IF v \in discovery[d].found THEN Unobserved ELSE master[v]]
    /\ discovery' = [discovery EXCEPT ![d].pc = "read"]
    /\ UNCHANGED <<uploads, events, manifest, daily, worker, observed, clock, faults>>

\* The batch is cut short: the run ends.
UpsertFoundBreaks(d) ==
    /\ discovery[d].pc = "upsert"
    /\ Fault
    /\ \E some \in SUBSET discovery[d].found :
          master' = [v \in Videos |-> IF v \in some THEN Unobserved ELSE master[v]]
    /\ discovery' = [discovery EXCEPT ![d] = Idle]
    /\ UNCHANGED <<uploads, events, manifest, daily, worker, observed, clock>>

\* read_shard_for_patch, of the next shard or again after a conflict.
ReadForAdding(d) ==
    /\ discovery[d].pc = "read"
    /\ \E s \in discovery[d].todo :
          /\ discovery[d].tries > 0 => s = discovery[d].shard
          /\ discovery' = [discovery EXCEPT ![d].pc = "write", ![d].shard = s, ![d].seen = manifest[s]]
    /\ UNCHANGED <<uploads, stores, worker, observed, clock, faults>>

\* One shard is done with, patched or not: the next one, or the end.
NextShard(d) ==
    LET r == discovery[d]
        left == r.todo \ {r.shard}
    IN  discovery' = [discovery EXCEPT ![d] =
            IF left = {} THEN Idle
                         ELSE [r EXCEPT !.pc = "read", !.todo = left, !.tries = 0]]

\* The manifest with the found videos of the shard added; an entry that is
\* there already wins.
Added(r) ==
    [exists  |-> TRUE,
     entries |-> [v \in Videos |->
         IF v \in r.found /\ ShardOf[v] = r.shard /\ r.seen.entries[v] = Absent
           THEN Unobserved ELSE r.seen.entries[v]]]

\* Mutant: the last write wins.
Unversioned(r) == TRUE

\* write_shard_if_version: If-Match, or If-None-Match for a new shard.
Unchanged(r) == manifest[r.shard] = r.seen

AddEntries(d) ==
    /\ discovery[d].pc = "write"
    /\ Unchanged(discovery[d])
    /\ manifest' = [manifest EXCEPT ![discovery[d].shard] = Added(discovery[d])]
    /\ NextShard(d)
    /\ UNCHANGED <<uploads, events, master, daily, worker, observed, clock, faults>>

\* Reads again while there are attempts left.
Retried(r) == [r EXCEPT !.pc = "read", !.tries = @ + 1]

\* Mutant: one attempt too many.
OnceMore(r) == r.tries < PatchAttempts

\* patch_shard makes PATCH_SHARD_MAX_ATTEMPTS attempts.
HasAttempts(r) == r.tries + 1 < PatchAttempts

\* A conflict: read again, and give up after the last attempt.
AddConflicts(d) ==
    /\ discovery[d].pc = "write"
    /\ ~Unchanged(discovery[d])
    /\ IF HasAttempts(discovery[d])
         THEN discovery' = [discovery EXCEPT ![d] = Retried(@)]
         ELSE NextShard(d)
    /\ UNCHANGED <<uploads, stores, worker, observed, clock, faults>>

\* A patch that fails, whether or not the write took effect, is a warning, and
\* the run goes on to the next shard.
AddFails(d) ==
    /\ discovery[d].pc = "write"
    /\ Fault
    /\ manifest' \in {manifest} \cup
          (IF Unchanged(discovery[d])
             THEN {[manifest EXCEPT ![discovery[d].shard] = Added(discovery[d])]} ELSE {})
    /\ NextShard(d)
    /\ UNCHANGED <<uploads, events, master, daily, worker, observed, clock>>

DiscoveryDies(d) ==
    /\ discovery[d] # Idle
    /\ Fault
    /\ discovery' = [discovery EXCEPT ![d] = Idle]
    /\ UNCHANGED <<uploads, stores, worker, observed, clock>>

-----------------------------------------------------------------------------
(* The history worker *)

\* A run of a shard of a report date, the first, a retried or a repaired one,
\* reads the shard of the manifest, which must exist.
StartWorker(w, date, s) ==
    /\ worker[w] = Idle
    /\ clock < MaxObserved
    /\ manifest[s].exists
    /\ clock' = clock + 1
    /\ worker' = [worker EXCEPT ![w] =
          [pc |-> "check", date |-> date, shard |-> s, at |-> clock + 1,
           tracked |-> {v \in Videos : manifest[s].entries[v] # Absent},
           today |-> NotCollected, updates |-> [v \in Videos |-> Absent],
           seen |-> NoShard, tries |-> 0]]
    /\ UNCHANGED <<uploads, stores, discovery, observed, faults>>

\* shard_exists: what was collected is read back, and nothing is observed
\* again.  Otherwise the videos that are due are observed, as far as YouTube
\* answers for them; any of them may be due.
CheckDaily(w) ==
    LET r == worker[w] IN
    /\ r.pc = "check"
    /\ IF daily[r.date][r.shard] # NotCollected
         THEN /\ worker' = [worker EXCEPT ![w].pc = "classify", ![w].today = daily[r.date][r.shard]]
              /\ UNCHANGED observed
         ELSE \E rows \in SUBSET r.tracked :
                /\ worker' = [worker EXCEPT ![w].pc = "put", ![w].today = [at |-> r.at, rows |-> rows]]
                /\ observed' = [v \in Videos |-> IF v \in rows THEN observed[v] \cup {r.at} ELSE observed[v]]
    /\ UNCHANGED <<uploads, stores, discovery, clock, faults>>

\* write_daily_shard replaces whatever is there.
PutDaily(w) ==
    /\ worker[w].pc = "put"
    /\ daily' = [daily EXCEPT ![worker[w].date][worker[w].shard] = worker[w].today]
    /\ worker' = [worker EXCEPT ![w].pc = "classify"]
    /\ UNCHANGED <<uploads, events, master, manifest, discovery, observed, clock, faults>>

\* Mutant: an observation that was applied is applied again.
ClassifiedAgain(today, v) ==
    IF v \in today.rows /\ master[v] # Absent /\ master[v].checked <= today.at
      THEN [checked |-> today.at, count |-> master[v].count + 1]
      ELSE Absent

\* _build_scheduler_updates for one video: only a newer observation counts.
Classified(today, v) ==
    IF v \in today.rows /\ master[v] # Absent /\ master[v].checked < today.at
      THEN [checked |-> today.at, count |-> master[v].count + 1]
      ELSE Absent

\* All rows are read before any is written.
Classify(w) ==
    LET updates == [v \in Videos |-> Classified(worker[w].today, v)] IN
    /\ worker[w].pc = "classify"
    /\ worker' = [worker EXCEPT ![w].updates = updates,
                               ![w].pc = IF \E v \in Videos : updates[v] # Absent THEN "upsert" ELSE "done"]
    /\ UNCHANGED <<uploads, stores, discovery, observed, clock, faults>>

\* Entries or rows with the updates of some videos in place.
Updated(table, updates, videos) ==
    [v \in Videos |-> IF v \in videos /\ updates[v] # Absent THEN updates[v] ELSE table[v]]

UpsertUpdates(w) ==
    /\ worker[w].pc = "upsert"
    /\ master' = Updated(master, worker[w].updates, Videos)
    /\ worker' = [worker EXCEPT ![w].pc = "read"]
    /\ UNCHANGED <<uploads, events, manifest, daily, discovery, observed, clock, faults>>

ReadForPatching(w) ==
    /\ worker[w].pc = "read"
    /\ worker' = [worker EXCEPT ![w].pc = "write", ![w].seen = manifest[worker[w].shard]]
    /\ UNCHANGED <<uploads, stores, discovery, observed, clock, faults>>

\* _patch_manifest_activity_states: the entries that are there follow the rows.
Patched(r) ==
    [exists  |-> TRUE,
     entries |-> Updated(r.seen.entries, r.updates, {v \in Videos : r.seen.entries[v] # Absent})]

PatchEntries(w) ==
    /\ worker[w].pc = "write"
    /\ Unchanged(worker[w])
    /\ manifest' = [manifest EXCEPT ![worker[w].shard] = Patched(worker[w])]
    /\ worker' = [worker EXCEPT ![w].pc = "done"]
    /\ UNCHANGED <<uploads, events, master, daily, discovery, observed, clock, faults>>

\* The last conflict is raised, and the run fails.
PatchConflicts(w) ==
    /\ worker[w].pc = "write"
    /\ ~Unchanged(worker[w])
    /\ worker' = [worker EXCEPT ![w] =
          IF HasAttempts(@) THEN Retried(@) ELSE Idle]
    /\ UNCHANGED <<uploads, stores, discovery, observed, clock, faults>>

WorkerReturns(w) ==
    /\ worker[w].pc = "done"
    /\ worker' = [worker EXCEPT ![w] = Idle]
    /\ UNCHANGED <<uploads, stores, discovery, observed, clock, faults>>

\* An error or a crash, in the middle of a batch or with the effect of a write
\* included: the run fails.
WorkerFails(w) ==
    LET r == worker[w] IN
    /\ r # Idle
    /\ Fault
    /\ \/ UNCHANGED stores
       \/ /\ r.pc = "put"
          /\ daily' = [daily EXCEPT ![r.date][r.shard] = r.today]
          /\ UNCHANGED <<events, master, manifest>>
       \/ /\ r.pc = "upsert"
          /\ \E some \in SUBSET Videos : master' = Updated(master, r.updates, some)
          /\ UNCHANGED <<events, manifest, daily>>
       \/ /\ r.pc = "write"
          /\ Unchanged(r)
          /\ manifest' = [manifest EXCEPT ![r.shard] = Patched(r)]
          /\ UNCHANGED <<events, master, daily>>
    /\ worker' = [worker EXCEPT ![w] = Idle]
    /\ UNCHANGED <<uploads, discovery, observed, clock>>

-----------------------------------------------------------------------------

Discover(d) ==
    \/ StartDiscovery(d) \/ RecordEvents(d) \/ UpsertFound(d)
    \/ ReadForAdding(d) \/ AddEntries(d) \/ AddConflicts(d)

DiscoveryFails(d) ==
    RecordBreaks(d) \/ UpsertFoundBreaks(d) \/ AddFails(d) \/ DiscoveryDies(d)

Observe(w) ==
    \/ CheckDaily(w) \/ PutDaily(w) \/ Classify(w) \/ UpsertUpdates(w)
    \/ ReadForPatching(w) \/ PatchEntries(w) \/ PatchConflicts(w) \/ WorkerReturns(w)

Next ==
    \/ \E v \in Videos : Publish(v)
    \/ \E d \in Discoveries : Discover(d) \/ DiscoveryFails(d)
    \/ \E w \in Workers :
          \/ \E date \in Dates, s \in Shards : StartWorker(w, date, s)
          \/ Observe(w) \/ WorkerFails(w)

Spec == Init /\ [][Next]_vars

\* Five discovery windows a day, each of which makes its accesses.
FairSpec == Spec /\ \A d \in Discoveries : WF_vars(Discover(d))

-----------------------------------------------------------------------------
(* Properties *)

\* Every variable has its type; no patch makes more than its attempts.
TypeOK ==
    /\ uploads \in Seq(Videos)
    /\ events \subseteq Videos
    /\ master \in Entries
    /\ manifest \in [Shards -> ManifestShards]
    /\ daily \in [Dates -> [Shards -> DailyShards]]
    /\ worker \in [Workers -> WorkerRuns \cup {Idle}]
    /\ discovery \in [Discoveries -> DiscoveryRuns \cup {Idle}]
    /\ observed \in [Videos -> SUBSET (1..MaxObserved)]
    /\ clock \in 0..MaxObserved
    /\ faults \in 0..MaxFaults

\* The observations of a video that its row can stand for.
Behind(v, state) == {t \in observed[v] : t <= state.checked}

\* "Never a double application" (history_worker.py:119-120): however often a
\* shard of a date is run, retried or repaired, and whatever runs beside it, a
\* row counts no more observations than were made of its video by then.
ObservedOnce ==
    \A v \in Videos : master[v].count <= Cardinality(Behind(v, master[v]))

\* A video is not persisted, and so not known for good, before its event is
\* recorded, unless it is backlog (main.py:285-288).
EventsFirst ==
    \A v \in Videos \ Backlog : master[v] # Absent => v \in events

\* Neither of the two writers of a shard undoes what the other wrote
\* (tracking_manifest.py:307-314, main.py:469-476): a tracked video stays
\* tracked, and an entry that was classified never becomes unobserved again.
TrackedStays ==
    [][\A v \in Tracked :
          /\ manifest'[ShardOf[v]].entries[v] # Absent
          /\ manifest[ShardOf[v]].entries[v].checked > 0 =>
                manifest'[ShardOf[v]].entries[v].checked > 0]_manifest

\* A published video is tracked in the end: a failed patch only delays it
\* "until a later successful patch fixes it" (main.py:464-466).
EveryVideoTracked ==
    \A v \in Videos : (v \in Published) ~> (v \in Tracked)

=============================================================================
